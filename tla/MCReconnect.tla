------------------------------ MODULE MCReconnect ------------------------------
(* The reconnect runs: a history variable tells the behaviours without a kill *)
(* or a failed database call from the others, whose properties are weaker.    *)
EXTENDS Supervisor

VARIABLE calm  \* no process was killed and no database call has failed

Fault ==
  \/ life = "up" /\ life' # "up"
  \/ \E t \in Tasks : \/ pc[t] \in Writing /\ pc'[t] \notin {pc[t], Written[pc[t]]}
                      \/ pc[t] = "reading" /\ pc'[t] = "done"

ReconnectSpec ==
  /\ Init /\ calm = TRUE
  /\ [][Next /\ calm' = (calm /\ ~Fault)]_<<vars, calm>>

\* While nothing but the instance has failed, somebody remembers to answer the
\* "Could not reach" row that is the newest of a card (supervisor.py:93-100).
OfflineHasPairer == calm => OfflinePaired

\* Without such a failure a scheduled error row is written once an outage
\* (retry.py:95-107).
OneErrorPerOutage == [][calm' => ErrorOnce]_vars

\* Without such a failure a loop that goes to sleep after a cycle that reached the
\* instance leaves no unanswered error row on its card (CHANGELOG.md:66).
SuccessAnswersError == [][calm' => ErrorAnswered]_vars
=============================================================================
