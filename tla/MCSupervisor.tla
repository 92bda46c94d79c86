----------------------------- MODULE MCSupervisor -----------------------------
(* Small instances of Supervisor for TLC. *)
EXTENDS Supervisor, TLC

\* The slots of one kind are interchangeable.
SlotSymmetry == Permutations(Loops) \cup Permutations(Manuals)
                  \cup Permutations(Primes) \cup Permutations(Handlers)

\* No guard reads the search log or the history of unpaired rows, so a run whose
\* properties do not either may identify states that differ only in them.
ControlView == <<row, regVars, taskVars, lifeVars, reqVars>>

\* Bounds of the run about racing requests.  The sweep never wakes: the primes do
\* to an instance all that it does.  No cycle gets as far as writing an error row:
\* what follows an error is a cycle's business, not the registry's.
SweepAsleep == pc[Sweep] \in {"free", "done", "sleep"}
NoErrorRow  == \A t \in Tasks : pc[t] \notin {"unrWrite", "engWrite", "errWrite"}
=============================================================================
