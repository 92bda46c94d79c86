------------------------------ MODULE UpdateCheck ------------------------------
(***************************************************************************)
(* The check for a newer release (services/update_check.py,                *)
(* routes/update_check.py): its state is seven settings, each read and     *)
(* written in a transaction of its own; checks run at once, and the        *)
(* process may end between two writes.                                     *)
(*                                                                         *)
(* A release is its number; Unset is a setting that has no value.  GitHub   *)
(* publishes releases and never takes one back.                            *)
(***************************************************************************)
EXTENDS Integers, Sequences, FiniteSetsExt

CONSTANTS
  Checks,       \* requests that may check
  MaxReleases,  \* bound: releases
  MaxDay,       \* bound: days
  MaxEnds       \* bound: ends of the process

ASSUME UpdateCheckAssumption ==
  MaxReleases \in Nat \ {0} /\ MaxDay \in Nat \ {0} /\ MaxEnds \in Nat

VARIABLES
  settings,  \* the settings the module keeps
  check,     \* [Checks -> where the request is, and what it holds]
  prefs,     \* has the toggle's handler still to clear the error?
  latest,    \* the latest release on GitHub
  day,       \* the clock; BACKGROUND_CHECK_INTERVAL is one day
  ends,      \* how often the process has ended
  mixed      \* history: checks that held different releases wrote at the same time, and
             \* no check has written a whole release alone since
updateVars == <<settings, check, prefs, latest, day, ends, mixed>>

Unset == 0
Resting == [pc |-> "idle", prior |-> Unset, release |-> Unset, etag |-> Unset, left |-> <<>>,
            alone |-> TRUE]

UpdateInit ==
  /\ settings = [enabled |-> FALSE, version |-> Unset, url |-> Unset, published |-> Unset,
                 at |-> Unset, error |-> Unset, etag |-> Unset]
  /\ check = [c \in Checks |-> Resting]
  /\ prefs = FALSE /\ latest = 1 /\ day = 1 /\ ends = 0 /\ mixed = FALSE

At(c, pc) == check[c].pc = pc
Goto(c, pc) == check' = [check EXCEPT ![c].pc = pc]
Rest(c) == check' = [check EXCEPT ![c] = Resting]

-----------------------------------------------------------------------------
(* The requests: a poll of the panel looks at the toggle and at the age of  *)
(* the last check, the button does not.                                     *)
Poll(c) ==
  /\ At(c, "idle")
  /\ settings.enabled
  /\ Goto(c, "age")
  /\ UNCHANGED <<settings, prefs, latest, day, ends, mixed>>

ShouldFetch(lastAt) == lastAt = Unset \/ day - lastAt >= 1

PollAge(c) ==
  /\ At(c, "age")
  /\ IF ShouldFetch(settings.at) THEN Goto(c, "check") ELSE Rest(c)
  /\ UNCHANGED <<settings, prefs, latest, day, ends, mixed>>

CheckNow(c) ==
  /\ At(c, "idle")
  /\ Goto(c, "check")
  /\ UNCHANGED <<settings, prefs, latest, day, ends, mixed>>

ReadEtag(c) ==
  /\ At(c, "check")
  /\ check' = [check EXCEPT ![c].pc = "fetch", ![c].prior = settings.etag]
  /\ UNCHANGED <<settings, prefs, latest, day, ends, mixed>>

(* What a release is stored as, one commit each; the ETag comes last, and   *)
(* only when the answer had one.                                            *)
(* Mutant: the ETag comes first.                                            *)
EtagFirst(etag) ==
  (IF etag = Unset THEN <<>> ELSE <<"etag">>) \o <<"version", "url", "published", "at", "error">>
Stores(etag) ==
  <<"version", "url", "published", "at", "error">> \o (IF etag = Unset THEN <<>> ELSE <<"etag">>)

(* A release.  History: another check that still writes another one makes a *)
(* mixture, and neither is alone.                                           *)
FetchRelease(c, etag) ==
  /\ At(c, "fetch")
  /\ check[c].prior # latest
  /\ etag \in {Unset, latest}
  /\ LET others == {d \in Checks : At(d, "write") /\ check[d].release \notin {Unset, latest}}
     IN /\ check' = [d \in Checks |->
                       IF d = c THEN [check[c] EXCEPT !.pc = "write", !.release = latest,
                                                      !.etag = etag, !.left = Stores(etag),
                                                      !.alone = (others = {})]
                       ELSE IF d \in others THEN [check[d] EXCEPT !.alone = FALSE]
                       ELSE check[d]]
        /\ mixed' = (mixed \/ others # {})
  /\ UNCHANGED <<settings, prefs, latest, day, ends>>

FetchUnchanged(c) ==
  /\ At(c, "fetch")
  /\ check[c].prior = latest
  /\ check' = [check EXCEPT ![c].pc = "write", ![c].left = <<"at", "error">>]
  /\ UNCHANGED <<settings, prefs, latest, day, ends, mixed>>

(* No answer, a bad status, or a payload that is not taken.                 *)
FetchFails(c) ==
  /\ At(c, "fetch")
  /\ settings' = [settings EXCEPT !.error = day]
  /\ Rest(c)
  /\ UNCHANGED <<prefs, latest, day, ends, mixed>>

Stored(c, key) ==
  CASE key \in {"version", "url", "published"} -> check[c].release
    [] key = "etag" -> check[c].etag
    [] key = "at" -> day
    [] key = "error" -> Unset

Store(c) ==
  LET key == Head(check[c].left)
      last == Len(check[c].left) = 1
  IN /\ At(c, "write")
     /\ settings' = [settings EXCEPT ![key] = Stored(c, key)]
     /\ IF last THEN Rest(c) ELSE check' = [check EXCEPT ![c].left = Tail(@)]
     /\ mixed' = (mixed /\ ~(last /\ check[c].etag # Unset /\ check[c].alone))
     /\ UNCHANGED <<prefs, latest, day, ends>>

(* set_enabled: turning the check off clears the error, a commit later.     *)
SetEnabled(on) ==
  /\ ~prefs
  /\ settings' = [settings EXCEPT !.enabled = on]
  /\ prefs' = ~on
  /\ UNCHANGED <<check, latest, day, ends, mixed>>

ClearError ==
  /\ prefs /\ prefs' = FALSE
  /\ settings' = [settings EXCEPT !.error = Unset]
  /\ UNCHANGED <<check, latest, day, ends, mixed>>

-----------------------------------------------------------------------------
Publish ==
  /\ latest < MaxReleases /\ latest' = latest + 1
  /\ UNCHANGED <<settings, check, prefs, day, ends, mixed>>

Day ==
  /\ day < MaxDay /\ day' = day + 1
  /\ UNCHANGED <<settings, check, prefs, latest, ends, mixed>>

End ==
  /\ ends < MaxEnds /\ ends' = ends + 1
  /\ check' = [c \in Checks |-> Resting] /\ prefs' = FALSE
  /\ UNCHANGED <<settings, latest, day, mixed>>

UpdateNext ==
  \/ \E c \in Checks :
       \/ Poll(c) \/ PollAge(c) \/ CheckNow(c) \/ ReadEtag(c)
       \/ FetchUnchanged(c) \/ FetchFails(c) \/ Store(c)
       \/ \E etag \in {Unset, latest} : FetchRelease(c, etag)
  \/ \E on \in BOOLEAN : SetEnabled(on)
  \/ ClearError \/ Publish \/ Day \/ End

UpdateSpec == UpdateInit /\ [][UpdateNext]_updateVars

-----------------------------------------------------------------------------
UpdateTypeOK ==
  /\ settings.enabled \in BOOLEAN
  /\ {settings.version, settings.url, settings.published, settings.etag} \subseteq 0..latest
  /\ {settings.at, settings.error} \subseteq 0..day
  /\ \A c \in Checks : check[c].pc \in {"idle", "age", "check", "fetch", "write"}
  /\ prefs \in BOOLEAN /\ latest \in 1..MaxReleases /\ day \in 1..MaxDay
  /\ ends \in 0..MaxEnds /\ mixed \in BOOLEAN

(* GitHub answers 304 for the ETag on record, and the settings then stand   *)
(* as they are: so an ETag never certifies a release the other settings     *)
(* have not reached, wherever the process ended and whatever else was       *)
(* checking; what two checks that held different releases mixed up lasts    *)
(* until a check writes a release alone (update_check.py:333-342).          *)
EtagCertifies ==
  mixed \/ settings.etag <= Min({settings.version, settings.url, settings.published})
=============================================================================
