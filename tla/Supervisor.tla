------------------------------ MODULE Supervisor ------------------------------
(***************************************************************************)
(* The task supervisor of houndarr/engine/supervisor.py with the reconnect *)
(* state machine of engine/retry.py and the HTTP handlers that drive it    *)
(* (routes/settings/instances.py, services/instance_submit.py,             *)
(* routes/api/status.py).                                                  *)
(*                                                                         *)
(* The program is one asyncio loop: code between two awaits is atomic, so  *)
(* an action below runs from one await to the next.  Every database call   *)
(* is an await, and the statement takes effect in SQLite's thread before   *)
(* the coroutine resumes: a row write is therefore two steps, the commit   *)
(* and the resumption, and a cancellation may fall between them.           *)
(***************************************************************************)
EXTENDS Naturals, FiniteSets, Functions

CONSTANTS
  Instances,   \* instance ids
  Loops,       \* slots for scheduled-loop tasks (_tasks)
  Manuals,     \* slots for run-now tasks (_manual_runs)
  Primes,      \* slots for snapshot-prime tasks (_prime_tasks)
  Sweep,       \* the snapshot-refresh loop (_snapshot_task)
  Handlers,    \* HTTP requests that may be in progress at once
  NoTask,      \* no task: a missing dictionary entry, a free lock
  Requests,    \* the kinds of request the environment sends
  DbMayFail,   \* a database call may raise (disk full, SQLITE_BUSY)
  MayCrash,    \* the process may be killed at any point
  SlowUnwind,  \* a cancelled task may need more than _SHUTDOWN_TIMEOUT to end
  StopKinds    \* "exit": no request is in progress during stop();
               \* "reset": factory reset calls stop() while requests run

Tasks == Loops \cup Manuals \cup Primes \cup {Sweep}

ASSUME TasksDistinct ==
  /\ NoTask \notin Tasks
  /\ Loops \cap Manuals = {} /\ Loops \cap Primes = {} /\ Manuals \cap Primes = {}
  /\ Sweep \notin Loops \cup Manuals \cup Primes

ASSUME SwitchesOK ==
  /\ Requests \subseteq {"create", "toggle", "update", "delete", "runNow"}
  /\ DbMayFail \in BOOLEAN /\ MayCrash \in BOOLEAN /\ SlowUnwind \in BOOLEAN
  /\ StopKinds \subseteq {"exit", "reset"}

VARIABLES
  row,        \* the instances table: "absent", "on", "off" (enabled), "deleted"
  newest,     \* newest search_log row of each instance
  owed,       \* history: <<i, who>> has an error row nobody has paired yet
  sched,      \* _tasks
  manual,     \* _manual_runs
  primes,     \* _prime_tasks
  lock,       \* _run_locks: the task inside the lock of each instance
  manualErrorOpen,  \* _manual_error_open
  pc,         \* where each task is
  inst,       \* the instance each task works on
  cancelled,  \* cancel() was called and is not delivered yet
  inRetry,    \* ReconnectState.in_retry of each loop task
  todo,       \* enabled instances the sweep has still to refresh
  life,       \* Supervisor.start / stop; "down": no process
  resetting,  \* stop() was called by a factory reset
  doomed,     \* tasks stop() is waiting for
  hpc, hinst, hseen, hwait   \* request: where, instance, row read, task awaited

dbVars   == <<row, newest, owed>>
regVars  == <<sched, manual, primes, manualErrorOpen>>
taskVars == <<lock, pc, inst, cancelled, inRetry, todo>>
lifeVars == <<life, resetting, doomed>>
reqVars  == <<hpc, hinst, hseen, hwait>>
vars     == <<dbVars, regVars, taskVars, lifeVars, reqVars>>

(***************************************************************************)
(* Program points.  A task in one of Critical is inside "async with lock". *)
(***************************************************************************)
\* Mutant: the recovery row is written with an action of its own.
OddRow == [pair |-> "recovered", unrWrite |-> "unreachable", engWrite |-> "error",
           errWrite |-> "unreachable", infoWrite |-> "recovered"]

RowOf ==    \* the search_log row written at each writing point
  [pair |-> "other", unrWrite |-> "unreachable", engWrite |-> "error",
   errWrite |-> "unreachable", infoWrite |-> "other"]

Channel ==  \* who remembers the error that row reports or answers
  [pair |-> "flag", unrWrite |-> "flag", engWrite |-> "none",
   errWrite |-> "loop", infoWrite |-> "loop"]

Written ==  \* where the task is once that row is committed
  [pair |-> "paired", unrWrite |-> "unrWritten", engWrite |-> "engWritten",
   errWrite |-> "errWritten", infoWrite |-> "infoWritten"]

Writing  == {"pair", "unrWrite", "engWrite", "errWrite", "infoWrite"}
Critical == {"search", "rows", "pair", "paired", "unrWrite", "unrWritten",
             "engWrite", "engWritten"}
Outside  == {"grace", "sleep", "reading", "leaving", "wait", "errWrite",
             "errWritten", "infoWrite", "infoWritten", "listing", "next"}
PCs      == {"free", "done"} \cup Critical \cup Outside
HPCs     == {"idle", "tgRead", "tgWrite", "tgReread", "rcRead", "rcAct",
             "stopLoop", "stopManual", "delStop", "delStopLoop", "delRow",
             "upRead", "upWrite", "rnRead", "rnAct"}
RowStates == {"absent", "on", "off", "deleted"}
RowKinds  == {"other", "unreachable", "error"}   \* "other": no error row
Who       == {"loop", "flag"}   \* in_retry of the loop or manualErrorOpen

Alive(t)   == pc[t] \notin {"free", "done"}
Running(t) == Alive(t) /\ ~cancelled[t]
Pending(t) == t # NoTask /\ Alive(t)   \* registered and not done
Exists(i)  == row[i] \in {"on", "off"}

TypeOK ==
  /\ row \in [Instances -> RowStates]
  /\ newest \in [Instances -> RowKinds]
  /\ owed \subseteq Instances \X Who
  /\ sched \in [Instances -> Loops \cup {NoTask}]
  /\ manual \in [Instances -> Manuals \cup {NoTask}]
  /\ primes \subseteq Primes
  /\ lock \in [Instances -> Tasks \cup {NoTask}]
  /\ manualErrorOpen \subseteq Instances
  /\ pc \in [Tasks -> PCs]
  /\ inst \in [Tasks -> Instances]
  /\ cancelled \in [Tasks -> BOOLEAN]
  /\ inRetry \in [Loops -> BOOLEAN]
  /\ todo \subseteq Instances
  /\ life \in {"down", "up", "stopSweep", "stopPrimes", "stopWait", "stopped"}
  /\ resetting \in BOOLEAN
  /\ doomed \subseteq Tasks
  /\ hpc \in [Handlers -> HPCs]
  /\ hinst \in [Handlers -> Instances]
  /\ hseen \in [Handlers -> RowStates]
  /\ hwait \in [Handlers -> Tasks \cup {NoTask}]

Init ==
  /\ row \in [Instances -> {"absent", "on", "off"}]
  /\ newest = [i \in Instances |-> "other"]
  /\ owed = {}
  /\ sched = [i \in Instances |-> NoTask]
  /\ manual = [i \in Instances |-> NoTask]
  /\ primes = {}
  /\ lock = [i \in Instances |-> NoTask]
  /\ manualErrorOpen = {}
  /\ pc = [t \in Tasks |-> "free"]
  /\ inst \in {[t \in Tasks |-> i] : i \in Instances}
  /\ cancelled = [t \in Tasks |-> FALSE]
  /\ inRetry = [t \in Loops |-> FALSE]
  /\ todo = {}
  /\ life = "down"
  /\ resetting = FALSE
  /\ doomed = {}
  /\ hpc = [h \in Handlers |-> "idle"]
  /\ hinst \in {[h \in Handlers |-> i] : i \in Instances}
  /\ hseen = [h \in Handlers |-> "absent"]
  /\ hwait = [h \in Handlers |-> NoTask]

-----------------------------------------------------------------------------
(***************************************************************************)
(* Task registry: asyncio.create_task, Task.cancel, done callbacks.        *)
(***************************************************************************)
\* _prune_scheduled_tasks and _prune_manual_tasks forget tasks that are done.
Pruned(reg) == [i \in Instances |->
  IF reg[i] # NoTask /\ pc[reg[i]] = "done" THEN NoTask ELSE reg[i]]

\* The lock is given up by leaving the "async with", on every path.
Unlocked(t) == [lock EXCEPT ![inst[t]] = IF @ = t THEN NoTask ELSE @]

\* start_instance_task with the instance passed in: no await between the
\* check for a live task and the registration of the new one.  A prime has
\* nothing to do before it asks for the lock.
StartInstanceTask(i) ==
  LET reg == Pruned(sched) IN
  \/ /\ reg[i] # NoTask
     /\ sched' = reg
     /\ UNCHANGED <<primes, pc, inst, inRetry>>
  \/ /\ reg[i] = NoTask
     /\ \E t \in Loops, p \in Primes :
          /\ pc[t] = "free" /\ pc[p] = "free"
          /\ sched' = [reg EXCEPT ![i] = t]
          /\ primes' = primes \cup {p}
          /\ pc' = [pc EXCEPT ![t] = "grace", ![p] = "wait"]
          /\ inst' = [inst EXCEPT ![t] = i, ![p] = i]
          /\ inRetry' = [inRetry EXCEPT ![t] = FALSE]

\* Mutant: the callback drops the entry of the instance, whatever task it holds.
ReapForgetsNewer(t) ==
  /\ pc[t] = "done"
  /\ pc' = [pc EXCEPT ![t] = "free"]
  /\ cancelled' = [cancelled EXCEPT ![t] = FALSE]
  /\ sched' = IF t \in Loops THEN [sched EXCEPT ![inst[t]] = NoTask] ELSE sched
  /\ manual' = IF t \in Manuals THEN [manual EXCEPT ![inst[t]] = NoTask] ELSE manual
  /\ primes' = primes \ {t}
  /\ doomed' = doomed \ {t}
  /\ hwait' = [h \in Handlers |-> IF hwait[h] = t THEN NoTask ELSE hwait[h]]
  /\ UNCHANGED <<dbVars, manualErrorOpen, lock, inst, inRetry, todo, life, resetting,
                 hpc, hinst, hseen>>

\* The task ended, and the loop runs its done callbacks: the registry drops
\* it unless it holds a newer task by now, and whoever awaited it wakes.
Reap(t) ==
  /\ pc[t] = "done"
  /\ pc' = [pc EXCEPT ![t] = "free"]
  /\ cancelled' = [cancelled EXCEPT ![t] = FALSE]
  /\ sched' = [i \in Instances |-> IF i = inst[t] /\ sched[i] = t THEN NoTask ELSE sched[i]]
  /\ manual' = [i \in Instances |-> IF i = inst[t] /\ manual[i] = t THEN NoTask ELSE manual[i]]
  /\ primes' = primes \ {t}
  /\ doomed' = doomed \ {t}
  /\ hwait' = [h \in Handlers |-> IF hwait[h] = t THEN NoTask ELSE hwait[h]]
  /\ UNCHANGED <<dbVars, manualErrorOpen, lock, inst, inRetry, todo, life, resetting,
                 hpc, hinst, hseen>>

\* CancelledError is raised at the await the task is suspended in.
CancelDelivered(t) ==
  /\ Alive(t) /\ cancelled[t]
  /\ pc' = [pc EXCEPT ![t] = "done"]
  /\ lock' = Unlocked(t)
  /\ UNCHANGED <<dbVars, regVars, inst, cancelled, inRetry, todo, lifeVars, reqVars>>

-----------------------------------------------------------------------------
(***************************************************************************)
(* _instance_loop and _run_manual_once                                     *)
(***************************************************************************)
Goto(t, from, to) ==
  /\ Running(t) /\ pc[t] = from
  /\ pc' = [pc EXCEPT ![t] = to]

\* The startup grace or the sleep between two cycles is over.
LoopWake(t) ==
  /\ t \in Loops
  /\ Goto(t, "grace", "reading") \/ Goto(t, "sleep", "reading")
  /\ UNCHANGED <<dbVars, regVars, lock, inst, cancelled, inRetry, todo, lifeVars, reqVars>>

\* Mutant: the loop goes on without looking at the row.
ReadIgnoresRow(t) ==
  /\ t \in Loops \cup Manuals
  /\ Goto(t, "reading", "wait")
  /\ UNCHANGED <<dbVars, regVars, lock, inst, cancelled, inRetry, todo, lifeVars, reqVars>>

\* get_instance: the task goes on with the row as it is now.
ReadRow(t) ==
  /\ t \in Loops \cup Manuals
  /\ Goto(t, "reading", IF row[inst[t]] = "on" THEN "wait" ELSE "leaving")
  /\ UNCHANGED <<dbVars, regVars, lock, inst, cancelled, inRetry, todo, lifeVars, reqVars>>

\* The row was gone or disabled when it was read: the coroutine returns.
Leave(t) ==
  /\ Goto(t, "leaving", "done")
  /\ UNCHANGED <<dbVars, regVars, lock, inst, cancelled, inRetry, todo, lifeVars, reqVars>>

\* Mutant: each cycle makes a lock of its own.
AcquireOwnLock(t) ==
  /\ Goto(t, "wait", "search")
  /\ lock' = [lock EXCEPT ![inst[t]] = t]
  /\ UNCHANGED <<dbVars, regVars, inst, cancelled, inRetry, todo, lifeVars, reqVars>>

Acquire(t) ==
  /\ Goto(t, "wait", "search")
  /\ lock[inst[t]] = NoTask
  /\ lock' = [lock EXCEPT ![inst[t]] = t]
  /\ UNCHANGED <<dbVars, regVars, inst, cancelled, inRetry, todo, lifeVars, reqVars>>

-----------------------------------------------------------------------------
(***************************************************************************)
(* _run_search_cycle and _refresh_one_snapshot, inside the lock            *)
(***************************************************************************)

\* A search cycle writes a searched, skipped or info row, or the error row of
\* a failed dispatch.  A refresh writes none.
SearchRow(t) ==
  /\ t \in Loops \cup Manuals
  /\ Running(t) /\ pc[t] \in {"search", "rows"}
  /\ Exists(inst[t])
  /\ \E k \in {"other", "error"} : newest' = [newest EXCEPT ![inst[t]] = k]
  /\ pc' = [pc EXCEPT ![t] = "rows"]
  /\ UNCHANGED <<row, owed, regVars, lock, inst, cancelled, inRetry, todo, lifeVars, reqVars>>

\* Where a task goes when it leaves the lock: a loop into run_with_reconnect.
AfterLock(t, failed) ==
  IF t \in Loops
    THEN IF failed = inRetry[t] THEN "sleep"
         ELSE IF failed THEN "errWrite" ELSE "infoWrite"
    ELSE IF t = Sweep THEN "next" ELSE "done"

\* Mutant: the lock is not released on the normal path.
EndCycleKeepsLock(t, failed) ==
  /\ pc' = [pc EXCEPT ![t] = AfterLock(t, failed)]
  /\ UNCHANGED lock

EndCycle(t, failed) ==
  /\ pc' = [pc EXCEPT ![t] = AfterLock(t, failed)]
  /\ lock' = Unlocked(t)

\* Mutant: a success looks only at its own reconnect state.
OkNeverPairs(t) ==
  /\ Running(t)
  /\ pc[t] = "rows" \/ (pc[t] = "search" /\ t \notin Manuals)
  /\ EndCycle(t, FALSE)
  /\ UNCHANGED <<dbVars, regVars, inst, cancelled, inRetry, todo, lifeVars, reqVars>>

\* The instance answered.  A run-now cycle that found nothing to do has
\* written a row saying so; a scheduled one may have written none.
CycleOk(t) ==
  /\ Running(t)
  /\ pc[t] = "rows" \/ (pc[t] = "search" /\ t \notin Manuals)
  /\ \/ /\ inst[t] \in manualErrorOpen
        /\ pc' = [pc EXCEPT ![t] = "pair"]
        /\ UNCHANGED lock
     \/ inst[t] \notin manualErrorOpen /\ EndCycle(t, FALSE)
  /\ UNCHANGED <<dbVars, regVars, inst, cancelled, inRetry, todo, lifeVars, reqVars>>

\* Mutant: the flag is raised before its row is written.
FlagBeforeRow(t) ==
  /\ Running(t) /\ pc[t] \in {"search", "rows"}
  /\ \/ /\ t \in Manuals
        /\ pc' = [pc EXCEPT ![t] = "unrWrite"]
        /\ manualErrorOpen' = manualErrorOpen \cup {inst[t]}
        /\ UNCHANGED lock
     \/ t \notin Manuals /\ EndCycle(t, TRUE) /\ UNCHANGED manualErrorOpen
  /\ UNCHANGED <<dbVars, sched, manual, primes, inst, cancelled, inRetry, todo, lifeVars, reqVars>>

\* A transport error.  Only a run-now cycle reports it here.
CycleUnreachable(t) ==
  /\ Running(t) /\ pc[t] \in {"search", "rows"}
  /\ \/ /\ t \in Manuals
        /\ pc' = [pc EXCEPT ![t] = "unrWrite"]
        /\ UNCHANGED lock
     \/ t \notin Manuals /\ EndCycle(t, TRUE)
  /\ UNCHANGED <<dbVars, regVars, inst, cancelled, inRetry, todo, lifeVars, reqVars>>

\* EngineError or ClientError: a row for a cycle, only the process log for a
\* refresh.
CycleEngineError(t) ==
  /\ Running(t) /\ pc[t] \in {"search", "rows"}
  /\ \/ /\ t \in Loops \cup Manuals
        /\ pc' = [pc EXCEPT ![t] = "engWrite"]
        /\ UNCHANGED lock
     \/ t \notin Loops \cup Manuals /\ EndCycle(t, FALSE)
  /\ UNCHANGED <<dbVars, regVars, inst, cancelled, inRetry, todo, lifeVars, reqVars>>

\* _write_log commits.  A cancellation does not stop a statement that is
\* already with SQLite's thread.
WriteRow(t) ==
  LET i == inst[t] IN
  /\ Alive(t) /\ pc[t] \in Writing
  /\ Exists(i)
  /\ newest' = [newest EXCEPT ![i] = RowOf[pc[t]]]
  /\ owed' = IF RowOf[pc[t]] = "unreachable"
             THEN owed \cup {<<i, Channel[pc[t]]>>}
             ELSE owed \ {<<i, Channel[pc[t]]>>}
  /\ pc' = [pc EXCEPT ![t] = Written[pc[t]]]
  /\ UNCHANGED <<row, regVars, lock, inst, cancelled, inRetry, todo, lifeVars, reqVars>>

\* A mutant: the exception that ends a loop leaves the search lock taken.
DbFailsKeepsLock(t) ==
  /\ Running(t)
  /\ \/ pc[t] \in Writing /\ (DbMayFail \/ ~Exists(inst[t]))
     \/ pc[t] \in {"reading", "listing"} /\ DbMayFail
  /\ \/ /\ t \in Loops \cup Manuals
        /\ pc' = [pc EXCEPT ![t] = "done"]
        /\ UNCHANGED lock
     \/ /\ pc[t] = "listing"
        /\ pc' = [pc EXCEPT ![t] = "sleep"]
        /\ UNCHANGED lock
     \/ t \notin Loops \cup Manuals /\ pc[t] # "listing" /\ EndCycle(t, FALSE)
  /\ UNCHANGED <<dbVars, regVars, inst, cancelled, inRetry, todo, lifeVars, reqVars>>

\* A database call raises: always when the row refers to a deleted instance
\* (foreign key), otherwise when the disk or a lock fails.  A refresh catches
\* everything; a cycle and its task end with the exception.
DbFails(t) ==
  /\ Running(t)
  /\ \/ pc[t] \in Writing /\ (DbMayFail \/ ~Exists(inst[t]))
     \/ pc[t] \in {"reading", "listing"} /\ DbMayFail
  /\ \/ /\ t \in Loops \cup Manuals
        /\ pc' = [pc EXCEPT ![t] = "done"]
        /\ lock' = Unlocked(t)
     \/ /\ pc[t] = "listing"
        /\ pc' = [pc EXCEPT ![t] = "sleep"]
        /\ UNCHANGED lock
     \/ t \notin Loops \cup Manuals /\ pc[t] # "listing" /\ EndCycle(t, FALSE)
  /\ UNCHANGED <<dbVars, regVars, inst, cancelled, inRetry, todo, lifeVars, reqVars>>

\* The recovery row is on disk: the flag is dropped and the lock left.
PairDone(t) ==
  /\ Running(t) /\ pc[t] = "paired"
  /\ manualErrorOpen' = manualErrorOpen \ {inst[t]}
  /\ EndCycle(t, FALSE)
  /\ UNCHANGED <<dbVars, sched, manual, primes, inst, cancelled, inRetry, todo, lifeVars, reqVars>>

\* Mutant: nobody remembers a run-now error row.
NoFlag(t) ==
  /\ Running(t) /\ pc[t] = "unrWritten"
  /\ EndCycle(t, TRUE)
  /\ UNCHANGED <<dbVars, regVars, inst, cancelled, inRetry, todo, lifeVars, reqVars>>

\* The run-now error row is on disk: the flag is raised.
UnreachableDone(t) ==
  /\ Running(t) /\ pc[t] = "unrWritten"
  /\ manualErrorOpen' = manualErrorOpen \cup {inst[t]}
  /\ EndCycle(t, TRUE)
  /\ UNCHANGED <<dbVars, sched, manual, primes, inst, cancelled, inRetry, todo, lifeVars, reqVars>>

EngineErrorDone(t) ==
  /\ Running(t) /\ pc[t] = "engWritten"
  /\ EndCycle(t, FALSE)
  /\ UNCHANGED <<dbVars, regVars, inst, cancelled, inRetry, todo, lifeVars, reqVars>>

\* Mutant: the streak is not remembered.
ReconnectForgets(t) ==
  /\ t \in Loops
  /\ Goto(t, "errWritten", "sleep") \/ Goto(t, "infoWritten", "sleep")
  /\ UNCHANGED <<dbVars, regVars, lock, inst, cancelled, inRetry, todo, lifeVars, reqVars>>

\* run_with_reconnect resumes after its row, outside the lock.
Reconnect(t) ==
  /\ t \in Loops
  /\ \/ Goto(t, "errWritten", "sleep") /\ inRetry' = [inRetry EXCEPT ![t] = TRUE]
     \/ Goto(t, "infoWritten", "sleep") /\ inRetry' = [inRetry EXCEPT ![t] = FALSE]
  /\ UNCHANGED <<dbVars, regVars, lock, inst, cancelled, todo, lifeVars, reqVars>>

-----------------------------------------------------------------------------
(***************************************************************************)
(* _snapshot_refresh_loop and _refresh_all_snapshots_once                  *)
(***************************************************************************)
SweepWake ==
  /\ Goto(Sweep, "sleep", "listing")
  /\ UNCHANGED <<dbVars, regVars, lock, inst, cancelled, inRetry, todo, lifeVars, reqVars>>

SweepList ==
  /\ Goto(Sweep, "listing", "next")
  /\ todo' = {i \in Instances : row[i] = "on"}
  /\ UNCHANGED <<dbVars, regVars, lock, inst, cancelled, inRetry, lifeVars, reqVars>>

SweepNext ==
  /\ \/ \E i \in todo :
          /\ Goto(Sweep, "next", "wait")
          /\ inst' = [inst EXCEPT ![Sweep] = i]
          /\ todo' = todo \ {i}
     \/ /\ todo = {}
        /\ Goto(Sweep, "next", "sleep")
        /\ UNCHANGED <<inst, todo>>
  /\ UNCHANGED <<dbVars, regVars, lock, cancelled, inRetry, lifeVars, reqVars>>

-----------------------------------------------------------------------------
(***************************************************************************)
(* HTTP requests.  Each is a coroutine of its own, and nothing serialises  *)
(* two requests about the same instance.                                   *)
(***************************************************************************)
ReqGoto(h, from, to) ==
  /\ hpc[h] = from
  /\ hpc' = [hpc EXCEPT ![h] = to]

FirstStep ==
  [toggle |-> "tgRead", update |-> "upRead", delete |-> "delStop", runNow |-> "rnRead"]

\* A request arrives: never while the process is starting, exiting or down.
Arrive(h, i, k) ==
  /\ hpc[h] = "idle" /\ k \in Requests \ {"create"}
  /\ life = "up" \/ (resetting /\ life # "stopped")
  /\ hpc' = [hpc EXCEPT ![h] = FirstStep[k]]
  /\ hinst' = [hinst EXCEPT ![h] = i]
  /\ manual' = IF k = "runNow" THEN Pruned(manual) ELSE manual
  /\ UNCHANGED <<dbVars, sched, primes, manualErrorOpen, taskVars, lifeVars, hseen, hwait>>

\* submit_create inserts an enabled row; the handler then reconciles.
Create(h, i) ==
  /\ "create" \in Requests /\ hpc[h] = "idle"
  /\ life = "up" \/ (resetting /\ life # "stopped")
  /\ row[i] = "absent"
  /\ row' = [row EXCEPT ![i] = "on"]
  /\ hpc' = [hpc EXCEPT ![h] = "rcRead"]
  /\ hinst' = [hinst EXCEPT ![h] = i]
  /\ UNCHANGED <<newest, owed, regVars, taskVars, lifeVars, hseen, hwait>>

\* get_instance in a handler, and the early return when there is no row.
HandlerRead(h, from, to) ==
  /\ ReqGoto(h, from, IF Exists(hinst[h]) THEN to ELSE "idle")
  /\ hseen' = [hseen EXCEPT ![h] = row[hinst[h]]]
  /\ UNCHANGED <<dbVars, regVars, taskVars, lifeVars, hinst, hwait>>

\* UPDATE instances SET enabled = ... WHERE id = ...
SetEnabled(h, from, to, value) ==
  /\ ReqGoto(h, from, to)
  /\ row' = [row EXCEPT ![hinst[h]] = IF Exists(hinst[h]) THEN value ELSE @]
  /\ UNCHANGED <<newest, owed, regVars, taskVars, lifeVars, hinst, hseen, hwait>>

ToggleRead(h)   == HandlerRead(h, "tgRead", "tgWrite")
ToggleWrite(h)  == SetEnabled(h, "tgWrite", "tgReread",
                              IF hseen[h] = "on" THEN "off" ELSE "on")

\* Mutant: the toggle handler forgets to reconcile.
ToggleOnly(h)   == HandlerRead(h, "tgReread", "idle")
ToggleReread(h) == HandlerRead(h, "tgReread", "rcRead")

\* submit_update: the row is read, the remote is probed over the network, and
\* the enabled column read at the start is written back.
UpdateRead(h)  == HandlerRead(h, "upRead", "upWrite")
UpdateProbeFails(h) ==
  /\ ReqGoto(h, "upWrite", "idle")
  /\ UNCHANGED <<dbVars, regVars, taskVars, lifeVars, hinst, hseen, hwait>>
UpdateWrite(h) == SetEnabled(h, "upWrite", "idle", hseen[h])

\* reconcile_instance: the row is read, and acted upon when the handler runs
\* again.
ReconcileRead(h) ==
  /\ ReqGoto(h, "rcRead", "rcAct")
  /\ hseen' = [hseen EXCEPT ![h] = row[hinst[h]]]
  /\ UNCHANGED <<dbVars, regVars, taskVars, lifeVars, hinst, hwait>>

ReconcileStart(h) ==
  /\ hseen[h] = "on"
  /\ ReqGoto(h, "rcAct", "idle")
  /\ StartInstanceTask(hinst[h])
  /\ UNCHANGED <<dbVars, manual, manualErrorOpen, lock, cancelled, todo, lifeVars,
                 hinst, hseen, hwait>>

\* Mutant: the task is cancelled and not awaited.
CancelOnly(h, t, to) ==
  /\ hpc' = [hpc EXCEPT ![h] = to]
  /\ cancelled' = IF Pending(t) THEN [cancelled EXCEPT ![t] = TRUE] ELSE cancelled
  /\ UNCHANGED hwait

\* stop_instance_task pops a registered task, cancels it and waits for it.
CancelAndAwait(h, t, to) ==
  /\ hpc' = [hpc EXCEPT ![h] = to]
  /\ IF Pending(t)
     THEN /\ cancelled' = [cancelled EXCEPT ![t] = TRUE]
          /\ hwait' = [hwait EXCEPT ![h] = t]
     ELSE UNCHANGED <<cancelled, hwait>>

StopLoop(h) ==
  /\ hpc[h] = "delStop" \/ (hpc[h] = "rcAct" /\ hseen[h] # "on")
  /\ LET reg == Pruned(sched)
         to  == IF hpc[h] = "delStop" THEN "delStopLoop" ELSE "stopLoop"
     IN /\ CancelAndAwait(h, reg[hinst[h]], to)
        /\ sched' = [reg EXCEPT ![hinst[h]] = NoTask]
  /\ manual' = Pruned(manual)
  /\ UNCHANGED <<dbVars, primes, manualErrorOpen, lock, pc, inst, inRetry, todo,
                 lifeVars, hinst, hseen>>

StopManual(h) ==
  /\ hpc[h] \in {"stopLoop", "delStopLoop"} /\ hwait[h] = NoTask
  /\ LET to == IF hpc[h] = "stopLoop" THEN "stopManual" ELSE "delRow"
     IN CancelAndAwait(h, manual[hinst[h]], to)
  /\ manual' = [manual EXCEPT ![hinst[h]] = NoTask]
  /\ UNCHANGED <<dbVars, sched, primes, manualErrorOpen, lock, pc, inst, inRetry, todo,
                 lifeVars, hinst, hseen>>

StopReturns(h) ==
  /\ hwait[h] = NoTask
  /\ ReqGoto(h, "stopManual", "idle")
  /\ UNCHANGED <<dbVars, regVars, taskVars, lifeVars, hinst, hseen, hwait>>

\* DELETE: search_log rows keep a NULL instance_id, so they are nobody's.
DeleteRow(h) ==
  LET i == hinst[h] IN
  /\ hwait[h] = NoTask
  /\ ReqGoto(h, "delRow", "idle")
  /\ row' = [row EXCEPT ![i] = IF Exists(i) THEN "deleted" ELSE @]
  /\ newest' = [newest EXCEPT ![i] = "other"]
  /\ owed' = {o \in owed : o[1] # i}
  /\ UNCHANGED <<regVars, taskVars, lifeVars, hinst, hseen, hwait>>

\* trigger_run_now
RunNowRead(h) == HandlerRead(h, "rnRead", "rnAct")

RunNow(h) ==
  LET i == hinst[h] IN
  /\ ReqGoto(h, "rnAct", "idle")
  /\ \/ /\ hseen[h] = "on"
        /\ ~Pending(manual[i])
        /\ \E t \in Manuals :
             /\ pc[t] = "free"
             /\ manual' = [manual EXCEPT ![i] = t]
             /\ pc' = [pc EXCEPT ![t] = "reading"]
             /\ inst' = [inst EXCEPT ![t] = i]
     \/ /\ hseen[h] # "on" \/ Pending(manual[i])
        /\ UNCHANGED <<manual, pc, inst>>
  /\ UNCHANGED <<dbVars, sched, primes, manualErrorOpen, lock, cancelled, inRetry, todo,
                 lifeVars, hinst, hseen, hwait>>

-----------------------------------------------------------------------------
(***************************************************************************)
(* Supervisor.start, Supervisor.stop, and the end of the process.          *)
(***************************************************************************)

\* start(): a loop and a prime for each enabled instance, then the sweep.  No
\* request is served before it returns.
Boot ==
  LET on == {i \in Instances : row[i] = "on"} IN
  /\ life = "down"
  /\ \E f \in Injection(on, Loops), g \in Injection(on, Primes) :
       /\ sched' = [i \in Instances |-> IF i \in on THEN f[i] ELSE NoTask]
       /\ primes' = {g[i] : i \in on}
       /\ pc' = [t \in Tasks |-> IF \E i \in on : f[i] = t THEN "grace"
                                ELSE IF \E i \in on : g[i] = t THEN "wait"
                                ELSE IF t = Sweep THEN "sleep" ELSE "free"]
       /\ inst' = [t \in Tasks |-> IF \E i \in on : t \in {f[i], g[i]}
                                  THEN CHOOSE i \in on : t \in {f[i], g[i]}
                                  ELSE inst[t]]
  /\ life' = "up"
  /\ UNCHANGED <<dbVars, manual, manualErrorOpen, lock, cancelled, inRetry, todo,
                 resetting, doomed, reqVars>>

CancelAll(S) ==
  cancelled' = [t \in Tasks |-> cancelled[t] \/ (t \in S /\ Alive(t))]

\* The snapshot loop is cancelled and awaited first.  On process exit the
\* server has let every request finish; a factory reset is itself a request.
StopBegin(kind) ==
  /\ life = "up" /\ kind \in StopKinds
  /\ kind = "exit" => \A h \in Handlers : hpc[h] = "idle"
  /\ life' = "stopSweep"
  /\ resetting' = (kind = "reset")
  /\ sched' = Pruned(sched) /\ manual' = Pruned(manual)
  /\ CancelAll({Sweep})
  /\ UNCHANGED <<dbVars, primes, manualErrorOpen, lock, pc, inst, inRetry, todo, doomed, reqVars>>

\* Mutant: the primes are cancelled and not gathered.
StopPrimesOnly ==
  /\ life = "stopSweep" /\ pc[Sweep] = "free"
  /\ life' = "stopPrimes"
  /\ CancelAll(primes)
  /\ UNCHANGED <<dbVars, regVars, lock, pc, inst, inRetry, todo, resetting, doomed, reqVars>>

StopPrimes ==
  /\ life = "stopSweep" /\ pc[Sweep] = "free"
  /\ life' = "stopPrimes"
  /\ doomed' = primes
  /\ CancelAll(primes)
  /\ UNCHANGED <<dbVars, regVars, lock, pc, inst, inRetry, todo, resetting, reqVars>>

\* The primes are gathered and the set cleared; with nothing registered stop()
\* returns, else everything registered is cancelled and awaited together.
StopTasks ==
  LET all == ({sched[i] : i \in Instances} \cup {manual[i] : i \in Instances}) \ {NoTask} IN
  /\ life = "stopPrimes" /\ doomed = {}
  /\ primes' = {}
  /\ life' = IF all = {} THEN "stopped" ELSE "stopWait"
  /\ doomed' = all
  /\ CancelAll(all)
  /\ UNCHANGED <<dbVars, sched, manual, manualErrorOpen, lock, pc, inst, inRetry, todo,
                 resetting, reqVars>>

\* All have ended, or ten seconds have passed; the registries are cleared.
StopEnd ==
  /\ life = "stopWait"
  /\ doomed = {} \/ SlowUnwind
  /\ life' = "stopped"
  /\ sched' = [i \in Instances |-> NoTask]
  /\ manual' = [i \in Instances |-> NoTask]
  /\ doomed' = {}
  /\ UNCHANGED <<dbVars, primes, manualErrorOpen, taskVars, resetting, reqVars>>

\* The process ends, after stop() or killed: memory is lost, the database stays.
ProcessEnds ==
  /\ life = "stopped" \/ (MayCrash /\ life # "down")
  /\ life' = "down" /\ resetting' = FALSE /\ doomed' = {}
  /\ sched' = [i \in Instances |-> NoTask]
  /\ manual' = [i \in Instances |-> NoTask]
  /\ primes' = {} /\ manualErrorOpen' = {} /\ todo' = {}
  /\ lock' = [i \in Instances |-> NoTask]
  /\ pc' = [t \in Tasks |-> "free"]
  /\ cancelled' = [t \in Tasks |-> FALSE]
  /\ inRetry' = [t \in Loops |-> FALSE]
  /\ hpc' = [h \in Handlers |-> "idle"]
  /\ hwait' = [h \in Handlers |-> NoTask]
  /\ UNCHANGED <<dbVars, inst, hinst, hseen>>

-----------------------------------------------------------------------------
\* What a task does by itself once the loop schedules it.
TaskStep(t) ==
  \/ Reap(t) \/ CancelDelivered(t)
  \/ LoopWake(t) \/ ReadRow(t) \/ Leave(t)
  \/ CycleOk(t) \/ CycleUnreachable(t) \/ CycleEngineError(t)
  \/ WriteRow(t) \/ DbFails(t)
  \/ PairDone(t) \/ UnreachableDone(t) \/ EngineErrorDone(t) \/ Reconnect(t)

SweepStep == SweepWake \/ SweepList \/ SweepNext

\* What a request does by itself once it has arrived.
RequestStep(h) ==
  \/ ToggleRead(h) \/ ToggleWrite(h) \/ ToggleReread(h)
  \/ UpdateRead(h) \/ UpdateProbeFails(h) \/ UpdateWrite(h)
  \/ ReconcileRead(h) \/ ReconcileStart(h)
  \/ StopLoop(h) \/ StopManual(h) \/ StopReturns(h) \/ DeleteRow(h)
  \/ RunNowRead(h) \/ RunNow(h)

StopStep == StopPrimes \/ StopTasks \/ StopEnd

Next ==
  \/ \E t \in Tasks : TaskStep(t) \/ Acquire(t) \/ SearchRow(t)
  \/ SweepStep
  \/ \E h \in Handlers : RequestStep(h)
  \/ \E h \in Handlers, i \in Instances :
       Create(h, i) \/ \E k \in Requests : Arrive(h, i, k)
  \/ Boot \/ StopStep \/ ProcessEnds
  \/ \E kind \in StopKinds : StopBegin(kind)

Spec == Init /\ [][Next]_vars

\* The event loop runs every ready callback, every database call returns and
\* every HTTP call ends or times out, so a task or request that can go on
\* does.  asyncio.Lock serves its waiters in order, so a task is not overtaken
\* for ever: strong fairness of Acquire.
Fairness ==
  /\ \A t \in Tasks : WF_vars(TaskStep(t)) /\ SF_vars(Acquire(t))
  /\ WF_vars(SweepStep)
  /\ \A h \in Handlers : WF_vars(RequestStep(h))
  /\ WF_vars(StopStep)

FairSpec == Spec /\ Fairness

-----------------------------------------------------------------------------
(***************************************************************************)
(* Properties                                                              *)
(***************************************************************************)
SameInstance(t, u) == inst[t] = inst[u]

\* At most one search cycle or snapshot refresh works on an instance at a time,
\* scheduled, run-now, prime and sweep alike (supervisor.py:365-379, 524-526).
CycleExclusion ==
  \A t, u \in Tasks :
    pc[t] \in Critical /\ pc[u] \in Critical /\ SameInstance(t, u) => t = u

\* Until stop() has cleared the registries an instance has at most one
\* scheduled loop and one run-now task that nobody has cancelled
\* (supervisor.py:208-239, 281-300).
OneTaskOfAKind ==
  life # "stopped" =>
    \A K \in {Loops, Manuals} : \A t, u \in K :
      Running(t) /\ Running(u) /\ SameInstance(t, u) => t = u

\* A lock is never left behind: its owner is a live task inside the lock, so
\* neither a cancellation nor an exception can block an instance for good.
LockHasLiveOwner ==
  \A i \in Instances : lock[i] # NoTask =>
    pc[lock[i]] \in Critical /\ inst[lock[i]] = i

\* Every "reachable again" row answers an error row of the same channel that
\* nobody has answered yet (supervisor.py:382-400, 415-433; retry.py:131-156).
RecoveryAnswersError ==
  [][\A t \in Tasks :
       /\ pc[t] = "pair" /\ pc'[t] = "paired" => <<inst[t], "flag">> \in owed
       /\ pc[t] = "infoWrite" /\ pc'[t] = "infoWritten" => <<inst[t], "loop">> \in owed]_vars

\* A card is offline while the newest row of its instance is an error.  If that
\* row says "Could not reach", somebody remembers to answer it: a loop in its
\* retry streak, the run-now flag, or the task that has just written the row.
OfflinePaired ==
  \A i \in Instances : newest[i] = "unreachable" =>
    \/ i \in manualErrorOpen
    \/ \E t \in Tasks : /\ Running(t) /\ inst[t] = i
                        /\ pc[t] \in {"errWritten", "unrWritten"}
    \/ \E t \in Loops : Running(t) /\ inst[t] = i /\ inRetry[t]

\* A scheduled error row is written only once per outage: never while the
\* last one of the instance is unanswered (retry.py:95-107).
ErrorOnce ==
  \A t \in Tasks :
    pc[t] = "errWrite" /\ pc'[t] = "errWritten" => <<inst[t], "loop">> \notin owed

\* A loop that goes to sleep after a cycle that did not fail to connect leaves
\* no unanswered "Could not reach" row on the card of its instance
\* (supervisor.py:93-100, CHANGELOG.md:66).
ErrorAnswered ==
  \A t \in Loops :
    pc[t] \in Critical /\ pc'[t] = "sleep" /\ ~inRetry[t] =>
      newest'[inst[t]] # "unreachable"

\* With no request in progress, every enabled instance has its loop: "manages
\* one background search task per enabled *arr instance" (supervisor.py:70),
\* "start or stop tasks to match the current enabled state" (273).
Settled == life = "up" /\ \A h \in Handlers : hpc[h] = "idle"

EnabledHasLoop ==
  Settled => \A i \in Instances :
    row[i] = "on" => \E t \in Loops : Running(t) /\ inst[t] = i

\* With no request in progress, a disabled or deleted instance has no loop and
\* no run-now task left, not even one that is still unwinding.
DisabledHasNone ==
  Settled => \A i \in Instances :
    row[i] # "on" => \A t \in Loops \cup Manuals : Alive(t) => inst[t] # i

\* Once stop() has returned no task is left that could write to the database
\* (supervisor.py:168-171).
StoppedIsQuiet == life = "stopped" => \A t \in Tasks : ~Alive(t)

\* Whatever requests raced, an instance that stays disabled or deleted ends up
\* with no loop and no run-now task: a loop rereads its row every cycle.
DisabledGoesQuiet ==
  \A i \in Instances :
    <>[](row[i] # "on") =>
      <>[](\A t \in Loops \cup Manuals : inst[t] = i => ~Alive(t))

\* A task that asks for the lock of its instance gets it or is cancelled.
WaitersServed ==
  \A t \in Tasks : pc[t] = "wait" ~> pc[t] # "wait"
=============================================================================
