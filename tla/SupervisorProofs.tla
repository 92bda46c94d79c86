--------------------------- MODULE SupervisorProofs ---------------------------
(***************************************************************************)
(* Proofs about Supervisor for any number of instances, tasks and requests *)
(* and any setting of the failure switches: type correctness, the mutual   *)
(* exclusion of cycles, and one uncancelled task of a kind per instance.   *)
(* Where the code keeps its promises only of requests that come one at a   *)
(* time, or of an exit nothing holds up, theorems say so: what stop()      *)
(* leaves behind, and which instances have a loop between two requests.    *)
(* The last part is about the reconnect state machine, as long as nobody   *)
(* cancels a task or deletes a row; MCReconnect has its properties.        *)
(***************************************************************************)
EXTENDS MCReconnect, TLAPS

-----------------------------------------------------------------------------
(***************************************************************************)
(* The inductive invariant                                                 *)
(***************************************************************************)

\* A task inside the lock of its instance owns that lock.
Held == \A t \in Tasks : pc[t] \in Critical => lock[inst[t]] = t

\* A task nobody has cancelled is the registered one of its instance, as long as
\* stop() has not cleared the registries.
Registered ==
  life # "stopped" =>
    /\ \A t \in Loops : Running(t) => sched[inst[t]] = t
    /\ \A t \in Manuals : Running(t) => manual[inst[t]] = t

\* Without a process there is no task, no request and no reset.
DownIsEmpty ==
  life = "down" =>
    /\ ~resetting
    /\ \A t \in Tasks : pc[t] = "free"
    /\ \A h \in Handlers : hpc[h] = "idle"

IInv == TypeOK /\ Held /\ LockHasLiveOwner /\ Registered /\ DownIsEmpty

-----------------------------------------------------------------------------
LEMMA InitIInv == Init => IInv
<1> SUFFICES ASSUME Init PROVE IInv
  OBVIOUS
<1>1. inst \in [Tasks -> Instances] /\ hinst \in [Handlers -> Instances]
  BY DEF Init
<1>2. row \in [Instances -> RowStates]
  BY DEF Init, RowStates
<1>3. TypeOK
  BY <1>1, <1>2 DEF Init, TypeOK, PCs, HPCs, RowStates, RowKinds, Tasks
<1>4. Held /\ Registered /\ DownIsEmpty
  BY DEF Init, Held, Registered, DownIsEmpty, Running, Alive, Critical, Tasks
<1>5. LockHasLiveOwner
  BY DEF Init, LockHasLiveOwner
<1> QED
  BY <1>3, <1>4, <1>5 DEF IInv

-----------------------------------------------------------------------------
(***************************************************************************)
(* Type correctness                                                        *)
(***************************************************************************)
LEMMA CriticalPCs == Critical \subseteq PCs /\ Outside \subseteq PCs /\ Writing \subseteq Critical \cup Outside
  BY DEF Critical, Outside, PCs, Writing

\* Whatever a task does, it stays among the program points.
LEMMA TaskStepType ==
  ASSUME TypeOK, NEW t \in Tasks, TaskStep(t) \/ Acquire(t) \/ SearchRow(t)
  PROVE  TypeOK'
<1> USE DEF TypeOK, dbVars, regVars, taskVars, lifeVars, reqVars
<1>0. Unlocked(t) \in [Instances -> Tasks \cup {NoTask}]
  BY DEF Unlocked
<1>1. ASSUME NEW failed \in BOOLEAN PROVE AfterLock(t, failed) \in PCs
  BY DEF AfterLock, PCs, Outside
\* A step that moves only the task's program point and, at most, its lock.
<1>15. ASSUME NEW p \in PCs, pc' = [pc EXCEPT ![t] = p], lock' \in {lock, Unlocked(t)},
              UNCHANGED <<dbVars, regVars, inst, cancelled, inRetry, todo, lifeVars, reqVars>>
       PROVE  TypeOK'
  BY <1>15, <1>0
<1>16. /\ "pair" \in PCs /\ "unrWrite" \in PCs /\ "engWrite" \in PCs /\ "done" \in PCs
       /\ AfterLock(t, TRUE) \in PCs /\ AfterLock(t, FALSE) \in PCs
  BY <1>1 DEF PCs, Critical, Outside
<1>2. CASE Reap(t)
  BY <1>2 DEF Reap, PCs
<1>3. CASE CancelDelivered(t)
  <2> HIDE DEF TypeOK, dbVars, regVars, taskVars, lifeVars, reqVars
  <2> QED
    BY <1>3, <1>15, <1>16 DEF CancelDelivered
<1>4. CASE LoopWake(t) \/ ReadRow(t) \/ Leave(t)
  BY <1>4 DEF LoopWake, ReadRow, Leave, Goto, PCs, Outside
<1>5. CASE CycleOk(t)
  <2> HIDE DEF TypeOK, dbVars, regVars, taskVars, lifeVars, reqVars
  <2>1. /\ \E p \in PCs : pc' = [pc EXCEPT ![t] = p]
        /\ lock' \in {lock, Unlocked(t)}
    BY <1>5, <1>16 DEF CycleOk, EndCycle
  <2> QED
    BY <1>5, <2>1, <1>15 DEF CycleOk
<1>6. CASE CycleUnreachable(t)
  <2> HIDE DEF TypeOK, dbVars, regVars, taskVars, lifeVars, reqVars
  <2>1. /\ \E p \in PCs : pc' = [pc EXCEPT ![t] = p]
        /\ lock' \in {lock, Unlocked(t)}
    BY <1>6, <1>16 DEF CycleUnreachable, EndCycle
  <2> QED
    BY <1>6, <2>1, <1>15 DEF CycleUnreachable
<1>7. CASE CycleEngineError(t)
  <2> HIDE DEF TypeOK, dbVars, regVars, taskVars, lifeVars, reqVars
  <2>1. /\ \E p \in PCs : pc' = [pc EXCEPT ![t] = p]
        /\ lock' \in {lock, Unlocked(t)}
    BY <1>7, <1>16 DEF CycleEngineError, EndCycle
  <2> QED
    BY <1>7, <2>1, <1>15 DEF CycleEngineError
<1>8. CASE WriteRow(t)
  <2>1. pc[t] \in Writing
    BY <1>8 DEF WriteRow
  <2>2. Written[pc[t]] \in PCs /\ RowOf[pc[t]] \in RowKinds
    BY <2>1 DEF Writing, Written, RowOf, RowKinds, PCs, Critical, Outside
  <2>3. RowOf[pc[t]] = "unreachable" => Channel[pc[t]] \in Who
    BY <2>1 DEF Writing, RowOf, Channel, Who
  <2>4. owed' \subseteq Instances \X Who
    BY <1>8, <2>3 DEF WriteRow
  <2> QED
    BY <1>8, <2>2, <2>4 DEF WriteRow
<1>9. CASE DbFails(t)
  <2>1. \E p \in PCs : pc' = [pc EXCEPT ![t] = p]
    BY <1>9, <1>1 DEF DbFails, EndCycle, PCs, Outside
  <2>2. lock' \in {Unlocked(t), lock}
    BY <1>9 DEF DbFails, EndCycle
  <2> QED
    BY <1>9, <1>0, <2>1, <2>2 DEF DbFails
<1>10. CASE PairDone(t) \/ UnreachableDone(t) \/ EngineErrorDone(t)
  BY <1>10, <1>0, <1>1 DEF PairDone, UnreachableDone, EngineErrorDone, EndCycle
<1>11. CASE Reconnect(t)
  BY <1>11 DEF Reconnect, Goto, PCs, Outside
<1>12. CASE Acquire(t)
  BY <1>12 DEF Acquire, Goto, PCs, Critical
<1>13. CASE SearchRow(t)
  BY <1>13 DEF SearchRow, PCs, Critical, RowKinds
<1> QED
  BY <1>2, <1>3, <1>4, <1>5, <1>6, <1>7, <1>8, <1>9, <1>10, <1>11, <1>12, <1>13
     DEF TaskStep

LEMMA SweepType ==
  ASSUME TypeOK, SweepStep
  PROVE  TypeOK'
<1> USE DEF TypeOK, dbVars, regVars, taskVars, lifeVars, reqVars, Goto, PCs, Outside, Critical
<1>1. Sweep \in Tasks
  BY DEF Tasks
<1>2. CASE SweepWake
  BY <1>1, <1>2 DEF SweepWake
<1>3. CASE SweepList
  BY <1>1, <1>3 DEF SweepList
<1>4. CASE SweepNext
  BY <1>1, <1>4 DEF SweepNext
<1> QED
  BY <1>2, <1>3, <1>4 DEF SweepStep

\* A registry without its finished tasks is still a registry.
LEMMA PrunedType ==
  ASSUME NEW K, NEW reg \in [Instances -> K \cup {NoTask}]
  PROVE  Pruned(reg) \in [Instances -> K \cup {NoTask}]
  BY DEF Pruned

\* Starting a loop keeps the types of everything it assigns.
LEMMA StartType ==
  ASSUME TypeOK, NEW i \in Instances, StartInstanceTask(i)
  PROVE  /\ sched' \in [Instances -> Loops \cup {NoTask}] /\ primes' \subseteq Primes
         /\ pc' \in [Tasks -> PCs] /\ inst' \in [Tasks -> Instances]
         /\ inRetry' \in [Loops -> BOOLEAN]
<1>1. Pruned(sched) \in [Instances -> Loops \cup {NoTask}]
  BY PrunedType DEF TypeOK
<1>2. Loops \subseteq Tasks /\ Primes \subseteq Tasks /\ "grace" \in PCs /\ "wait" \in PCs
  BY DEF Tasks, PCs, Outside
<1>3. CASE Pruned(sched)[i] # NoTask
  BY <1>1, <1>3 DEF StartInstanceTask, TypeOK
<1>4. CASE Pruned(sched)[i] = NoTask
  <2>1. PICK t \in Loops, p \in Primes :
          /\ sched' = [Pruned(sched) EXCEPT ![i] = t]
          /\ primes' = primes \cup {p}
          /\ pc' = [pc EXCEPT ![t] = "grace", ![p] = "wait"]
          /\ inst' = [inst EXCEPT ![t] = i, ![p] = i]
          /\ inRetry' = [inRetry EXCEPT ![t] = FALSE]
    BY <1>4 DEF StartInstanceTask
  <2>2. sched' \in [Instances -> Loops \cup {NoTask}] /\ primes' \subseteq Primes
    BY <1>1, <2>1 DEF TypeOK
  <2>3. pc' \in [Tasks -> PCs] /\ inst' \in [Tasks -> Instances]
    BY <1>2, <2>1 DEF TypeOK
  <2>4. inRetry' \in [Loops -> BOOLEAN]
    BY <2>1 DEF TypeOK
  <2> QED
    BY <2>2, <2>3, <2>4
<1> QED
  BY <1>3, <1>4

LEMMA RequestType ==
  ASSUME TypeOK, NEW h \in Handlers,
         RequestStep(h) \/ \E i \in Instances : Create(h, i) \/ \E k \in Requests : Arrive(h, i, k)
  PROVE  TypeOK'
<1> USE DEF TypeOK, dbVars, regVars, taskVars, lifeVars, reqVars, ReqGoto
<1>1. Manuals \subseteq Tasks /\ Loops \subseteq Tasks
  BY DEF Tasks
<1>2. Pruned(sched) \in [Instances -> Loops \cup {NoTask}]
      /\ Pruned(manual) \in [Instances -> Manuals \cup {NoTask}]
  BY PrunedType
<1>3. ASSUME NEW reg \in [Instances -> Tasks \cup {NoTask}], NEW to \in HPCs,
             CancelAndAwait(h, reg[hinst[h]], to)
      PROVE  /\ hpc' \in [Handlers -> HPCs] /\ cancelled' \in [Tasks -> BOOLEAN]
             /\ hwait' \in [Handlers -> Tasks \cup {NoTask}]
  BY <1>3 DEF CancelAndAwait
<1>4. ASSUME NEW from, NEW to \in HPCs, NEW value \in RowStates, SetEnabled(h, from, to, value)
      PROVE  TypeOK'
  BY <1>4 DEF SetEnabled
<1>5. ASSUME NEW from, NEW to \in HPCs, HandlerRead(h, from, to)
      PROVE  TypeOK'
  BY <1>5 DEF HandlerRead, HPCs
<1>6. CASE ToggleRead(h) \/ ToggleReread(h) \/ UpdateRead(h) \/ RunNowRead(h)
  BY <1>6, <1>5 DEF ToggleRead, ToggleReread, UpdateRead, RunNowRead, HPCs
<1>7. CASE ToggleWrite(h) \/ UpdateWrite(h)
  BY <1>7, <1>4 DEF ToggleWrite, UpdateWrite, HPCs, RowStates
<1>8. CASE UpdateProbeFails(h) \/ ReconcileRead(h) \/ StopReturns(h)
  BY <1>8 DEF UpdateProbeFails, ReconcileRead, StopReturns, HPCs
<1>9. CASE ReconcileStart(h)
  BY <1>9, StartType DEF ReconcileStart, HPCs
<1>10. CASE StopLoop(h)
  <2>1. Pruned(sched) \in [Instances -> Tasks \cup {NoTask}]
    BY <1>1, <1>2
  <2>2. CancelAndAwait(h, Pruned(sched)[hinst[h]],
                       IF hpc[h] = "delStop" THEN "delStopLoop" ELSE "stopLoop")
    BY <1>10 DEF StopLoop
  <2> QED
    BY <1>10, <1>2, <1>3, <2>1, <2>2 DEF StopLoop, HPCs
<1>11. CASE StopManual(h)
  <2>1. manual \in [Instances -> Tasks \cup {NoTask}]
    BY <1>1
  <2>2. CancelAndAwait(h, manual[hinst[h]],
                       IF hpc[h] = "stopLoop" THEN "stopManual" ELSE "delRow")
    BY <1>11 DEF StopManual
  <2> QED
    BY <1>11, <1>3, <2>1, <2>2 DEF StopManual, HPCs
<1>12. CASE DeleteRow(h)
  BY <1>12 DEF DeleteRow, HPCs, RowStates, RowKinds
<1>13. CASE RunNow(h)
  BY <1>13, <1>1 DEF RunNow, HPCs, PCs, Outside
<1>14. ASSUME NEW i \in Instances, Create(h, i) PROVE TypeOK'
  BY <1>14 DEF Create, HPCs, RowStates
<1>15. ASSUME NEW i \in Instances, NEW k \in Requests, Arrive(h, i, k) PROVE TypeOK'
  <2>1. FirstStep[k] \in HPCs
    BY <1>15, SwitchesOK DEF Arrive, FirstStep, HPCs
  <2> QED
    BY <1>15, <1>2, <2>1 DEF Arrive
<1> QED
  BY <1>6, <1>7, <1>8, <1>9, <1>10, <1>11, <1>12, <1>13, <1>14, <1>15 DEF RequestStep

LEMMA LifeType ==
  ASSUME TypeOK, Boot \/ StopStep \/ ProcessEnds \/ \E kind \in StopKinds : StopBegin(kind)
  PROVE  TypeOK'
<1> USE DEF TypeOK, dbVars, regVars, taskVars, lifeVars, reqVars
<1>1. Manuals \subseteq Tasks /\ Loops \subseteq Tasks /\ Primes \subseteq Tasks
  BY DEF Tasks
<1>2. Pruned(sched) \in [Instances -> Loops \cup {NoTask}]
      /\ Pruned(manual) \in [Instances -> Manuals \cup {NoTask}]
  BY PrunedType
<1>3. CASE Boot
  <2> DEFINE on == {i \in Instances : row[i] = "on"}
  <2>1. PICK f \in Injection(on, Loops), g \in Injection(on, Primes) :
         /\ sched' = [i \in Instances |-> IF i \in on THEN f[i] ELSE NoTask]
         /\ primes' = {g[i] : i \in on}
         /\ pc' = [t \in Tasks |-> IF \E i \in on : f[i] = t THEN "grace"
                                  ELSE IF \E i \in on : g[i] = t THEN "wait"
                                  ELSE IF t = Sweep THEN "sleep" ELSE "free"]
         /\ inst' = [t \in Tasks |-> IF \E i \in on : t \in {f[i], g[i]}
                                    THEN CHOOSE i \in on : t \in {f[i], g[i]}
                                    ELSE inst[t]]
    BY <1>3 DEF Boot
  <2>2. f \in [on -> Loops] /\ g \in [on -> Primes]
    BY <2>1 DEF Injection, IsInjective
  <2>3. inst' \in [Tasks -> Instances]
    BY <2>1
  <2>4. pc' \in [Tasks -> PCs]
    BY <2>1 DEF PCs, Outside
  <2>5. sched' \in [Instances -> Loops \cup {NoTask}] /\ primes' \subseteq Primes
    BY <2>1, <2>2
  <2> QED
    BY <1>3, <2>3, <2>4, <2>5 DEF Boot
<1>4. ASSUME NEW kind \in StopKinds, StopBegin(kind) PROVE TypeOK'
  BY <1>4, <1>2 DEF StopBegin, CancelAll
<1>5. CASE StopPrimes
  BY <1>5, <1>1 DEF StopPrimes, CancelAll
<1>6. CASE StopTasks
  BY <1>6, <1>1 DEF StopTasks, CancelAll
<1>7. CASE StopEnd
  BY <1>7 DEF StopEnd
<1>8. CASE ProcessEnds
  BY <1>8 DEF ProcessEnds, PCs, HPCs
<1> QED
  BY <1>3, <1>4, <1>5, <1>6, <1>7, <1>8 DEF StopStep

LEMMA TypeStep == TypeOK /\ [Next]_vars => TypeOK'
<1> SUFFICES ASSUME TypeOK, [Next]_vars PROVE TypeOK'
  OBVIOUS
<1>1. CASE UNCHANGED vars
  BY <1>1 DEF TypeOK, vars, dbVars, regVars, taskVars, lifeVars, reqVars
<1>2. CASE Next
  BY <1>2, TaskStepType, SweepType, RequestType, LifeType DEF Next
<1> QED
  BY <1>1, <1>2

\* Every variable keeps its type, whatever tasks, requests and faults do.
THEOREM TypeCorrect == Spec => []TypeOK
<1>1. Init => TypeOK
  BY InitIInv DEF IInv
<1> QED
  BY <1>1, TypeStep, PTL DEF Spec

-----------------------------------------------------------------------------
(***************************************************************************)
(* The locks.  What matters of a step of one task is whether it is inside  *)
(* the lock before and after, and whether the step gives the lock up.      *)
(***************************************************************************)
Locks == Held /\ LockHasLiveOwner

LEMMA LockOfOneTask ==
  ASSUME TypeOK, Locks, NEW t \in Tasks, NEW p \in PCs,
         pc' = [pc EXCEPT ![t] = p], inst' = inst,
         \/ lock' = Unlocked(t) /\ p \notin Critical
         \/ lock' = lock /\ (p \in Critical <=> pc[t] \in Critical)
  PROVE  Locks'
<1>1. pc \in [Tasks -> PCs] /\ inst \in [Tasks -> Instances]
      /\ lock \in [Instances -> Tasks \cup {NoTask}] /\ NoTask \notin Tasks
  BY TasksDistinct DEF TypeOK
<1>2. CASE lock' = Unlocked(t) /\ p \notin Critical
  <2>1. Held'
    BY <1>1, <1>2 DEF Held, Locks, Unlocked
  <2>2. LockHasLiveOwner'
    BY <1>1, <1>2 DEF LockHasLiveOwner, Locks, Unlocked
  <2> QED
    BY <2>1, <2>2 DEF Locks
<1>3. CASE lock' = lock /\ (p \in Critical <=> pc[t] \in Critical)
  <2>1. Held'
    BY <1>1, <1>3 DEF Held, Locks
  <2>2. LockHasLiveOwner'
    BY <1>1, <1>3 DEF LockHasLiveOwner, Locks
  <2> QED
    BY <2>1, <2>2 DEF Locks
<1> QED
  BY <1>2, <1>3

\* Leaving the lock, to wherever a cycle goes next.
LEMMA AfterLockPC ==
  ASSUME TypeOK, NEW t \in Tasks, NEW failed \in BOOLEAN
  PROVE  AfterLock(t, failed) \in PCs /\ AfterLock(t, failed) \notin Critical
  BY DEF AfterLock, PCs, Outside, Critical

LEMMA LockEndCycle ==
  ASSUME TypeOK, Locks, NEW t \in Tasks, NEW failed \in BOOLEAN, EndCycle(t, failed), inst' = inst
  PROVE  Locks'
  BY AfterLockPC, LockOfOneTask DEF EndCycle

LEMMA LockTaskStep ==
  ASSUME TypeOK, Locks, NEW t \in Tasks, TaskStep(t) \/ Acquire(t) \/ SearchRow(t)
  PROVE  Locks'
<1> USE DEF taskVars
<1>1. pc[t] \in PCs
  BY DEF TypeOK
<1>2. CASE Reap(t)
  BY <1>2, LockOfOneTask DEF Reap, PCs, Critical
<1>3. CASE CancelDelivered(t)
  BY <1>3, LockOfOneTask DEF CancelDelivered, PCs, Critical
<1>4. CASE LoopWake(t) \/ ReadRow(t) \/ Leave(t) \/ Reconnect(t)
  BY <1>4, LockOfOneTask DEF LoopWake, ReadRow, Leave, Reconnect, Goto, PCs, Critical, Outside
<1>5. CASE CycleOk(t)
  <2>1. CASE pc' = [pc EXCEPT ![t] = "pair"] /\ lock' = lock
    BY <1>5, <2>1, LockOfOneTask DEF CycleOk, PCs, Critical
  <2>2. CASE EndCycle(t, FALSE)
    BY <1>5, <2>2, LockEndCycle DEF CycleOk
  <2> QED
    BY <1>5, <2>1, <2>2 DEF CycleOk
<1>6. CASE CycleUnreachable(t)
  <2>1. CASE pc' = [pc EXCEPT ![t] = "unrWrite"] /\ lock' = lock
    BY <1>6, <2>1, LockOfOneTask DEF CycleUnreachable, PCs, Critical
  <2>2. CASE EndCycle(t, TRUE)
    BY <1>6, <2>2, LockEndCycle DEF CycleUnreachable
  <2> QED
    BY <1>6, <2>1, <2>2 DEF CycleUnreachable
<1>7. CASE CycleEngineError(t)
  <2>1. CASE pc' = [pc EXCEPT ![t] = "engWrite"] /\ lock' = lock
    BY <1>7, <2>1, LockOfOneTask DEF CycleEngineError, PCs, Critical
  <2>2. CASE EndCycle(t, FALSE)
    BY <1>7, <2>2, LockEndCycle DEF CycleEngineError
  <2> QED
    BY <1>7, <2>1, <2>2 DEF CycleEngineError
<1>8. CASE WriteRow(t)
  <2>1. pc[t] \in Writing /\ pc' = [pc EXCEPT ![t] = Written[pc[t]]] /\ lock' = lock /\ inst' = inst
    BY <1>8 DEF WriteRow
  <2>2. Written[pc[t]] \in PCs /\ (Written[pc[t]] \in Critical <=> pc[t] \in Critical)
    BY <2>1 DEF Writing, Written, PCs, Critical, Outside
  <2> QED
    BY <2>1, <2>2, LockOfOneTask
<1>9. CASE DbFails(t)
  <2>1. CASE pc' = [pc EXCEPT ![t] = "done"] /\ lock' = Unlocked(t)
    BY <1>9, <2>1, LockOfOneTask DEF DbFails, PCs, Critical
  <2>2. CASE pc[t] = "listing" /\ pc' = [pc EXCEPT ![t] = "sleep"] /\ lock' = lock
    BY <1>9, <2>2, LockOfOneTask DEF DbFails, PCs, Critical, Outside
  <2>3. CASE EndCycle(t, FALSE)
    BY <1>9, <2>3, LockEndCycle DEF DbFails
  <2> QED
    BY <1>9, <2>1, <2>2, <2>3 DEF DbFails
<1>10. CASE PairDone(t) \/ UnreachableDone(t) \/ EngineErrorDone(t)
  BY <1>10, LockEndCycle DEF PairDone, UnreachableDone, EngineErrorDone
<1>11. CASE Acquire(t)
  <2>1. /\ pc[t] = "wait" /\ pc' = [pc EXCEPT ![t] = "search"] /\ inst' = inst
        /\ lock[inst[t]] = NoTask /\ lock' = [lock EXCEPT ![inst[t]] = t]
    BY <1>11 DEF Acquire, Goto
  <2>2. pc \in [Tasks -> PCs] /\ inst \in [Tasks -> Instances]
        /\ lock \in [Instances -> Tasks \cup {NoTask}] /\ NoTask \notin Tasks
    BY TasksDistinct DEF TypeOK
  <2>3. "search" \in Critical
    BY DEF Critical
  <2>4. Held'
    BY <2>1, <2>2, <2>3 DEF Held, Locks
  <2>5. LockHasLiveOwner'
    BY <2>1, <2>2, <2>3 DEF LockHasLiveOwner, Locks
  <2> QED
    BY <2>4, <2>5 DEF Locks
<1>12. CASE SearchRow(t)
  BY <1>12, LockOfOneTask DEF SearchRow, PCs, Critical
<1> QED
  BY <1>2, <1>3, <1>4, <1>5, <1>6, <1>7, <1>8, <1>9, <1>10, <1>11, <1>12 DEF TaskStep

\* A step that moves no lock, and only tasks that are outside before and after.
LockNeutral ==
  /\ lock' = lock
  /\ \A t \in Tasks :
       \/ pc'[t] = pc[t] /\ inst'[t] = inst[t]
       \/ pc[t] \notin Critical /\ pc'[t] \notin Critical

LEMMA LockUntouched ==
  ASSUME TypeOK, Locks, LockNeutral
  PROVE  Locks'
<1>1. Held'
  BY DEF Held, Locks, LockNeutral
<1>2. LockHasLiveOwner'
  BY TasksDistinct DEF LockHasLiveOwner, Locks, TypeOK, LockNeutral
<1> QED
  BY <1>1, <1>2 DEF Locks

LEMMA LockStep ==
  ASSUME TypeOK, Locks, DownIsEmpty, [Next]_vars
  PROVE  Locks'
<1>0. LockNeutral => Locks'
  BY LockUntouched
<1> USE DEF taskVars
<1>1. CASE UNCHANGED vars \/ \E kind \in StopKinds : StopBegin(kind)
  <2>1. LockNeutral
    BY <1>1 DEF LockNeutral, vars, StopBegin
  <2> QED
    BY <2>1, <1>0
<1>2. ASSUME NEW t \in Tasks, TaskStep(t) \/ Acquire(t) \/ SearchRow(t) PROVE Locks'
  BY <1>2, LockTaskStep
<1>3. CASE SweepStep
  <2>1. Sweep \in Tasks
    BY DEF Tasks
  <2>2. LockNeutral
    BY <1>3, <2>1
       DEF LockNeutral, SweepStep, SweepWake, SweepList, SweepNext, Goto, Critical, TypeOK
  <2> QED
    BY <2>2, <1>0
<1>4. ASSUME NEW h \in Handlers, RequestStep(h) PROVE Locks'
  <2>1. CASE ReconcileStart(h)
    <3>1. LockNeutral
      BY <2>1 DEF LockNeutral, ReconcileStart, StartInstanceTask, Critical, TypeOK, Tasks
    <3> QED
      BY <3>1, <1>0
  <2>2. CASE RunNow(h)
    <3>1. LockNeutral
      BY <2>2 DEF LockNeutral, RunNow, Critical, TypeOK, Tasks
    <3> QED
      BY <3>1, <1>0
  <2>3. CASE ~ReconcileStart(h) /\ ~RunNow(h)
    <3>1. lock' = lock /\ pc' = pc /\ inst' = inst
      BY <1>4, <2>3
         DEF RequestStep, ToggleRead, ToggleWrite, ToggleReread, UpdateRead, UpdateProbeFails,
             UpdateWrite, ReconcileRead, StopLoop, StopManual, StopReturns, DeleteRow, RunNowRead,
             HandlerRead, SetEnabled
    <3>2. LockNeutral
      BY <3>1 DEF LockNeutral
    <3> QED
      BY <3>2, <1>0
  <2> QED
    BY <2>1, <2>2, <2>3
<1>5. ASSUME NEW h \in Handlers, NEW i \in Instances,
             Create(h, i) \/ \E k \in Requests : Arrive(h, i, k)
      PROVE Locks'
  <2>1. LockNeutral
    BY <1>5 DEF LockNeutral, Create, Arrive
  <2> QED
    BY <2>1, <1>0
<1>6. CASE Boot
  <2>1. life = "down" /\ lock' = lock
    BY <1>6 DEF Boot
  <2>2. \A t \in Tasks : pc[t] \notin Critical
    BY <2>1 DEF DownIsEmpty, Critical
  <2>3. \A t \in Tasks : pc'[t] \in {"grace", "wait", "sleep", "free"}
    BY <1>6 DEF Boot
  <2>4. \A t \in Tasks : pc'[t] \notin Critical
    BY <2>3 DEF Critical
  <2>5. LockNeutral
    BY <2>1, <2>2, <2>4 DEF LockNeutral
  <2> QED
    BY <2>5, <1>0
<1>7. CASE StopStep
  <2>1. LockNeutral
    BY <1>7 DEF LockNeutral, StopStep, StopPrimes, StopTasks, StopEnd
  <2> QED
    BY <2>1, <1>0
<1>8. CASE ProcessEnds
  BY <1>8 DEF ProcessEnds, Locks, Held, LockHasLiveOwner, Critical
<1> QED
  BY <1>1, <1>2, <1>3, <1>4, <1>5, <1>6, <1>7, <1>8 DEF Next

-----------------------------------------------------------------------------
\* Without a process nothing happens but its start.
LEMMA DownStep ==
  ASSUME TypeOK, DownIsEmpty, [Next]_vars
  PROVE  DownIsEmpty'
<1> SUFFICES ASSUME life' = "down"
             PROVE  /\ ~resetting'
                    /\ \A t \in Tasks : pc'[t] = "free"
                    /\ \A h \in Handlers : hpc'[h] = "idle"
  BY DEF DownIsEmpty
<1> USE DEF lifeVars
<1>1. CASE ProcessEnds
  BY <1>1 DEF ProcessEnds
<1>2. CASE Boot \/ StopStep \/ \E kind \in StopKinds : StopBegin(kind)
  BY <1>2 DEF Boot, StopStep, StopBegin, StopPrimes, StopTasks, StopEnd
<1>3. CASE UNCHANGED vars
  BY <1>3 DEF vars, taskVars, reqVars, DownIsEmpty
<1>4. ASSUME NEW t \in Tasks, TaskStep(t) \/ Acquire(t) \/ SearchRow(t) PROVE FALSE
  <2>1. life = "down"
    BY <1>4 DEF TaskStep, Acquire, SearchRow, Reap, CancelDelivered, LoopWake, ReadRow, Leave,
                CycleOk, CycleUnreachable, CycleEngineError, WriteRow, DbFails, PairDone,
                UnreachableDone, EngineErrorDone, Reconnect
  <2>2. pc[t] = "free"
    BY <2>1 DEF DownIsEmpty
  <2> QED
    BY <1>4, <2>2
       DEF TaskStep, Acquire, SearchRow, Reap, CancelDelivered, LoopWake, ReadRow, Leave,
           CycleOk, CycleUnreachable, CycleEngineError, WriteRow, DbFails, PairDone,
           UnreachableDone, EngineErrorDone, Reconnect, Goto, Running, Alive
<1>5. ASSUME SweepStep PROVE FALSE
  <2>1. life = "down" /\ Sweep \in Tasks
    BY <1>5 DEF SweepStep, SweepWake, SweepList, SweepNext, Tasks
  <2>2. pc[Sweep] = "free"
    BY <2>1 DEF DownIsEmpty
  <2> QED
    BY <1>5, <2>2 DEF SweepStep, SweepWake, SweepList, SweepNext, Goto
<1>6. ASSUME NEW h \in Handlers, RequestStep(h) PROVE FALSE
  <2>1. life = "down"
    BY <1>6
       DEF RequestStep, ToggleRead, ToggleWrite, ToggleReread, UpdateRead, UpdateProbeFails,
           UpdateWrite, ReconcileRead, ReconcileStart, StopLoop, StopManual, StopReturns,
           DeleteRow, RunNowRead, RunNow, HandlerRead, SetEnabled
  <2>2. hpc[h] = "idle"
    BY <2>1 DEF DownIsEmpty
  <2> QED
    BY <1>6, <2>2
       DEF RequestStep, ToggleRead, ToggleWrite, ToggleReread, UpdateRead, UpdateProbeFails,
           UpdateWrite, ReconcileRead, ReconcileStart, StopLoop, StopManual, StopReturns,
           DeleteRow, RunNowRead, RunNow, HandlerRead, SetEnabled, ReqGoto
<1>7. ASSUME NEW h \in Handlers, NEW i \in Instances,
             Create(h, i) \/ \E k \in Requests : Arrive(h, i, k)
      PROVE  FALSE
  BY <1>7 DEF Create, Arrive, DownIsEmpty
<1> QED
  BY <1>1, <1>2, <1>3, <1>4, <1>5, <1>6, <1>7 DEF Next

-----------------------------------------------------------------------------
(***************************************************************************)
(* The registries                                                          *)
(***************************************************************************)

\* A step after which fewer tasks run, where they were, and the registries keep
\* every one of them.
RegistryNeutral ==
  /\ life' # "stopped" => life # "stopped"
  /\ \A t \in Loops : Running(t)' =>
       Running(t) /\ inst'[t] = inst[t] /\ (sched[inst[t]] = t => sched'[inst[t]] = t)
  /\ \A t \in Manuals : Running(t)' =>
       Running(t) /\ inst'[t] = inst[t] /\ (manual[inst[t]] = t => manual'[inst[t]] = t)

LEMMA RegistryUntouched ==
  ASSUME Registered, RegistryNeutral
  PROVE  Registered'
  BY DEF Registered, RegistryNeutral

\* Pruning forgets no task that runs.
LEMMA PrunedKeeps ==
  ASSUME NEW reg, NEW i \in Instances, NEW t, reg[i] = t, Alive(t)
  PROVE  Pruned(reg)[i] = t
  BY DEF Pruned, Alive

LEMMA RegistryTaskStep ==
  ASSUME TypeOK, NEW t \in Tasks, TaskStep(t) \/ Acquire(t) \/ SearchRow(t)
  PROVE  RegistryNeutral
<1> USE DEF taskVars, regVars, lifeVars
<1>1. Loops \subseteq Tasks /\ Manuals \subseteq Tasks
  BY DEF Tasks
<1>2. CASE Reap(t)
  <2>1. life' = life /\ inst' = inst /\ \A u \in Tasks : Running(u)' => Running(u) /\ u # t
    BY <1>2 DEF Reap, Running, Alive, TypeOK
  <2>2. \A u \in Tasks : u # t => /\ sched[inst[u]] = u => sched'[inst[u]] = u
                                  /\ manual[inst[u]] = u => manual'[inst[u]] = u
    BY <1>2 DEF Reap, TypeOK
  <2> QED
    BY <1>1, <2>1, <2>2 DEF RegistryNeutral
<1>3. CASE ~Reap(t)
  <2>1. life' = life /\ sched' = sched /\ manual' = manual /\ inst' = inst /\ cancelled' = cancelled
    BY <1>3
       DEF TaskStep, Acquire, SearchRow, CancelDelivered, LoopWake, ReadRow, Leave, CycleOk,
           CycleUnreachable, CycleEngineError, WriteRow, DbFails, PairDone, UnreachableDone,
           EngineErrorDone, Reconnect
  <2>2. Alive(t) /\ \E p : pc' = [pc EXCEPT ![t] = p]
    BY <1>3
       DEF TaskStep, Acquire, SearchRow, CancelDelivered, LoopWake, ReadRow, Leave, CycleOk,
           CycleUnreachable, CycleEngineError, WriteRow, DbFails, PairDone, UnreachableDone,
           EngineErrorDone, Reconnect, EndCycle, Goto, Running
  <2>3. \A u \in Tasks : Running(u)' => Running(u)
    BY <2>1, <2>2 DEF Running, Alive, TypeOK
  <2> QED
    BY <1>1, <2>1, <2>3 DEF RegistryNeutral
<1> QED
  BY <1>2, <1>3

\* A new task is registered in the place of one that no longer runs.
LEMMA RegistryStart ==
  ASSUME TypeOK, Registered, NEW i \in Instances, StartInstanceTask(i),
         life' = life, manual' = manual, cancelled' = cancelled
  PROVE  Registered'
<1> SUFFICES ASSUME life # "stopped"
             PROVE  /\ \A u \in Loops : Running(u)' => sched'[inst'[u]] = u
                    /\ \A u \in Manuals : Running(u)' => manual'[inst'[u]] = u
  BY DEF Registered
<1>1. \A u \in Loops : Running(u) => Pruned(sched)[inst[u]] = u /\ inst[u] \in Instances
  BY PrunedKeeps DEF Registered, Running, TypeOK, Tasks
<1>2. CASE Pruned(sched)[i] # NoTask
  BY <1>1, <1>2 DEF StartInstanceTask, Registered, Running, Alive
<1>3. CASE Pruned(sched)[i] = NoTask
  <2>1. PICK t \in Loops, p \in Primes :
          /\ sched' = [Pruned(sched) EXCEPT ![i] = t]
          /\ pc' = [pc EXCEPT ![t] = "grace", ![p] = "wait"]
          /\ inst' = [inst EXCEPT ![t] = i, ![p] = i]
    BY <1>3 DEF StartInstanceTask
  <2>2. Pruned(sched) \in [Instances -> Loops \cup {NoTask}]
    BY PrunedType DEF TypeOK
  <2>3. /\ t \in Tasks /\ p \in Tasks /\ NoTask \notin Tasks /\ p \notin Loops
        /\ t \notin Manuals /\ p \notin Manuals /\ Loops \subseteq Tasks /\ Manuals \subseteq Tasks
    BY TasksDistinct DEF Tasks
  <2>4. ASSUME NEW u \in Loops, Running(u)' PROVE sched'[inst'[u]] = u
    <3>1. CASE u = t
      BY <2>1, <2>2, <2>3, <3>1 DEF TypeOK
    <3>2. CASE u # t
      <4>1. Running(u) /\ inst'[u] = inst[u]
        BY <2>1, <2>3, <2>4, <3>2 DEF Running, Alive, TypeOK
      <4>2. Pruned(sched)[inst[u]] = u /\ inst[u] \in Instances /\ u # NoTask
        BY <1>1, <2>3, <4>1
      <4>3. inst[u] # i
        BY <1>3, <4>2
      <4> QED
        BY <2>1, <2>2, <4>1, <4>2, <4>3
    <3> QED
      BY <3>1, <3>2
  <2>5. ASSUME NEW u \in Manuals, Running(u)' PROVE manual'[inst'[u]] = u
    <3>1. Running(u) /\ inst'[u] = inst[u]
      BY <2>1, <2>3, <2>5 DEF Running, Alive, TypeOK
    <3> QED
      BY <3>1 DEF Registered
  <2> QED
    BY <2>4, <2>5
<1> QED
  BY <1>2, <1>3

LEMMA RegistryRequest ==
  ASSUME TypeOK, Registered, NEW h \in Handlers, RequestStep(h)
  PROVE  Registered'
<1> USE DEF taskVars, regVars, lifeVars
<1>0. hinst[h] \in Instances /\ Loops \subseteq Tasks /\ Manuals \subseteq Tasks
      /\ NoTask \notin Tasks /\ \A t \in Loops : t \notin Manuals
  BY TasksDistinct DEF TypeOK, Tasks
<1>1. CASE ReconcileStart(h)
  BY <1>0, <1>1, RegistryStart DEF ReconcileStart
<1>2. CASE StopLoop(h)
  <2> DEFINE reg == Pruned(sched)  i == hinst[h]
  <2>1. /\ life' = life /\ inst' = inst /\ pc' = pc /\ manual' = Pruned(manual)
        /\ sched' = [reg EXCEPT ![i] = NoTask]
        /\ cancelled' = IF Pending(reg[i]) THEN [cancelled EXCEPT ![reg[i]] = TRUE] ELSE cancelled
    BY <1>2 DEF StopLoop, CancelAndAwait
  <2>2. reg \in [Instances -> Loops \cup {NoTask}]
    BY PrunedType DEF TypeOK
  <2>3. \A u \in Tasks : Running(u)' => Running(u)
    BY <2>1, <2>2 DEF Running, Alive, TypeOK
  <2>4. ASSUME life' # "stopped", NEW u \in Loops, Running(u)' PROVE sched'[inst'[u]] = u
    <3>1. Running(u) /\ inst[u] \in Instances /\ sched[inst[u]] = u
      BY <1>0, <2>1, <2>3, <2>4 DEF Registered, TypeOK
    <3>2. reg[inst[u]] = u
      BY <3>1, PrunedKeeps DEF Running
    <3>3. inst[u] # i
      <4> SUFFICES ASSUME inst[u] = i PROVE FALSE
        OBVIOUS
      <4>1. Pending(reg[i])
        BY <1>0, <3>1, <3>2 DEF Pending, Running
      <4> QED
        BY <1>0, <2>1, <2>4, <3>2, <4>1 DEF Running, TypeOK
    <3> QED
      BY <2>1, <2>2, <3>1, <3>2, <3>3
  <2>5. ASSUME life' # "stopped", NEW u \in Manuals, Running(u)' PROVE manual'[inst'[u]] = u
    <3>1. Running(u) /\ inst[u] \in Instances /\ manual[inst[u]] = u
      BY <1>0, <2>1, <2>3, <2>5 DEF Registered, TypeOK
    <3> QED
      BY <2>1, <3>1, PrunedKeeps DEF Running
  <2> QED
    BY <2>4, <2>5 DEF Registered
<1>3. CASE StopManual(h)
  <2> DEFINE i == hinst[h]
  <2>1. /\ life' = life /\ inst' = inst /\ pc' = pc /\ sched' = sched
        /\ manual' = [manual EXCEPT ![i] = NoTask]
        /\ cancelled' = IF Pending(manual[i]) THEN [cancelled EXCEPT ![manual[i]] = TRUE]
                        ELSE cancelled
    BY <1>3 DEF StopManual, CancelAndAwait
  <2>2. \A u \in Tasks : Running(u)' => Running(u)
    BY <2>1 DEF Running, Alive, TypeOK
  <2>3. ASSUME life' # "stopped", NEW u \in Loops, Running(u)' PROVE sched'[inst'[u]] = u
    BY <1>0, <2>1, <2>2, <2>3 DEF Registered
  <2>4. ASSUME life' # "stopped", NEW u \in Manuals, Running(u)' PROVE manual'[inst'[u]] = u
    <3>1. Running(u) /\ inst[u] \in Instances /\ manual[inst[u]] = u
      BY <1>0, <2>1, <2>2, <2>4 DEF Registered, TypeOK
    <3>2. inst[u] # i
      <4> SUFFICES ASSUME inst[u] = i PROVE FALSE
        OBVIOUS
      <4>1. Pending(manual[i])
        BY <1>0, <3>1 DEF Pending, Running
      <4> QED
        BY <1>0, <2>1, <2>4, <3>1, <4>1 DEF Running, TypeOK
    <3> QED
      BY <2>1, <3>1, <3>2 DEF TypeOK
  <2> QED
    BY <2>3, <2>4 DEF Registered
<1>4. CASE RunNow(h)
  <2>1. life' = life /\ sched' = sched /\ cancelled' = cancelled
    BY <1>4 DEF RunNow
  <2>2. CASE UNCHANGED <<manual, pc, inst>>
    BY <2>1, <2>2 DEF Registered, Running, Alive
  <2>3. CASE ~Pending(manual[hinst[h]]) /\ \E t \in Manuals :
               /\ pc[t] = "free"
               /\ manual' = [manual EXCEPT ![hinst[h]] = t]
               /\ pc' = [pc EXCEPT ![t] = "reading"]
               /\ inst' = [inst EXCEPT ![t] = hinst[h]]
    <3>1. PICK t \in Manuals :
             /\ pc[t] = "free"
             /\ manual' = [manual EXCEPT ![hinst[h]] = t]
             /\ pc' = [pc EXCEPT ![t] = "reading"]
             /\ inst' = [inst EXCEPT ![t] = hinst[h]]
      BY <2>3
    <3>2. \A u \in Tasks : Running(u)' /\ u # t => Running(u) /\ inst'[u] = inst[u]
      BY <1>0, <2>1, <3>1 DEF Running, Alive, TypeOK
    <3>3. ASSUME life' # "stopped", NEW u \in Loops, Running(u)' PROVE sched'[inst'[u]] = u
      BY <1>0, <2>1, <3>2, <3>3 DEF Registered
    <3>4. ASSUME life' # "stopped", NEW u \in Manuals, Running(u)' PROVE manual'[inst'[u]] = u
      <4>1. CASE u = t
        BY <1>0, <3>1, <4>1 DEF TypeOK
      <4>2. CASE u # t
        <5>1. Running(u) /\ inst'[u] = inst[u] /\ inst[u] \in Instances /\ manual[inst[u]] = u
          BY <1>0, <2>1, <3>2, <3>4, <4>2 DEF Registered, TypeOK
        <5>2. inst[u] # hinst[h]
          BY <1>0, <2>3, <5>1 DEF Pending, Running
        <5> QED
          BY <3>1, <5>1, <5>2 DEF TypeOK
      <4> QED
        BY <4>1, <4>2
    <3> QED
      BY <3>3, <3>4 DEF Registered
  <2> QED
    BY <1>4, <2>2, <2>3 DEF RunNow
<1>5. CASE ~ReconcileStart(h) /\ ~StopLoop(h) /\ ~StopManual(h) /\ ~RunNow(h)
  <2>1. /\ life' = life /\ sched' = sched /\ manual' = manual /\ pc' = pc
        /\ inst' = inst /\ cancelled' = cancelled
    BY <1>5
       DEF RequestStep, ToggleRead, ToggleWrite, ToggleReread, UpdateRead, UpdateProbeFails,
           UpdateWrite, ReconcileRead, StopReturns, DeleteRow, RunNowRead, HandlerRead, SetEnabled
  <2> QED
    BY <2>1 DEF Registered, Running, Alive
<1> QED
  BY <1>1, <1>2, <1>3, <1>4, <1>5

LEMMA RegistryLife ==
  ASSUME TypeOK, TypeOK', Registered,
         Boot \/ StopStep \/ ProcessEnds \/ \E kind \in StopKinds : StopBegin(kind)
  PROVE  Registered'
<1> USE DEF taskVars, regVars, lifeVars
<1>0. Loops \subseteq Tasks /\ Manuals \subseteq Tasks /\ Primes \subseteq Tasks
  BY DEF Tasks
<1>1. CASE Boot
  <2> DEFINE on == {i \in Instances : row[i] = "on"}
  <2>1. PICK f \in Injection(on, Loops), g \in Injection(on, Primes) :
         /\ sched' = [i \in Instances |-> IF i \in on THEN f[i] ELSE NoTask]
         /\ pc' = [t \in Tasks |-> IF \E i \in on : f[i] = t THEN "grace"
                                  ELSE IF \E i \in on : g[i] = t THEN "wait"
                                  ELSE IF t = Sweep THEN "sleep" ELSE "free"]
         /\ inst' = [t \in Tasks |-> IF \E i \in on : t \in {f[i], g[i]}
                                    THEN CHOOSE i \in on : t \in {f[i], g[i]}
                                    ELSE inst[t]]
    BY <1>1 DEF Boot
  <2>2. /\ f \in [on -> Loops] /\ g \in [on -> Primes]
        /\ \A i, j \in on : f[i] = f[j] => i = j
    BY <2>1 DEF Injection, IsInjective
  <2>3. ASSUME NEW u \in Loops, Running(u)' PROVE sched'[inst'[u]] = u
    <3>1. Sweep # u /\ u \in Tasks /\ \A i \in on : g[i] # u
      BY <1>0, <2>2, TasksDistinct
    <3>2. PICK i \in on : f[i] = u
      BY <2>1, <2>3, <3>1 DEF Running, Alive
    <3>3. inst'[u] = CHOOSE j \in on : u \in {f[j], g[j]}
      BY <2>1, <3>1, <3>2
    <3>4. inst'[u] \in on /\ u \in {f[inst'[u]], g[inst'[u]]}
      BY <3>2, <3>3
    <3> QED
      BY <2>1, <3>1, <3>4
  <2>4. ASSUME NEW u \in Manuals PROVE ~Running(u)'
    <3>1. Sweep # u /\ u \in Tasks /\ \A i \in on : g[i] # u /\ f[i] # u
      BY <1>0, <2>2, TasksDistinct
    <3> QED
      BY <2>1, <3>1 DEF Running, Alive
  <2> QED
    BY <2>3, <2>4 DEF Registered
<1>2. ASSUME NEW kind \in StopKinds, StopBegin(kind) PROVE Registered'
  <2>1. /\ life # "stopped" /\ sched' = Pruned(sched) /\ manual' = Pruned(manual)
        /\ inst' = inst /\ \A u \in Tasks : Running(u)' => Running(u)
    BY <1>2 DEF StopBegin, CancelAll, Running, Alive, TypeOK
  <2>2. \A u \in Loops : Running(u) => Pruned(sched)[inst[u]] = u
    BY <1>0, <2>1, PrunedKeeps DEF Registered, Running, TypeOK
  <2>3. \A u \in Manuals : Running(u) => Pruned(manual)[inst[u]] = u
    BY <1>0, <2>1, PrunedKeeps DEF Registered, Running, TypeOK
  <2> QED
    BY <1>0, <2>1, <2>2, <2>3 DEF Registered
<1>3. CASE StopPrimes \/ StopTasks
  <2>1. life # "stopped" /\ sched' = sched /\ manual' = manual /\ inst' = inst
    BY <1>3 DEF StopPrimes, StopTasks
  <2>2. \A u \in Tasks : Running(u)' => Running(u)
    BY <1>3 DEF StopPrimes, StopTasks, CancelAll, Running, Alive, TypeOK
  <2> QED
    BY <1>0, <2>1, <2>2 DEF Registered
<1>4. CASE StopEnd
  BY <1>4 DEF StopEnd, Registered
<1>5. CASE ProcessEnds
  BY <1>0, <1>5 DEF ProcessEnds, Registered, Running, Alive
<1> QED
  BY <1>1, <1>2, <1>3, <1>4, <1>5 DEF StopStep

LEMMA RegistryStep ==
  ASSUME TypeOK, TypeOK', Registered, [Next]_vars
  PROVE  Registered'
<1>0. RegistryNeutral => Registered'
  BY RegistryUntouched
<1> USE DEF taskVars, regVars, lifeVars
<1>1. CASE UNCHANGED vars
  BY <1>1 DEF vars, Registered, Running, Alive
<1>2. ASSUME NEW t \in Tasks, TaskStep(t) \/ Acquire(t) \/ SearchRow(t) PROVE Registered'
  BY <1>0, <1>2, RegistryTaskStep
<1>3. CASE SweepStep
  <2>1. \A t \in Loops \cup Manuals : t \in Tasks /\ t # Sweep
    BY TasksDistinct DEF Tasks
  <2>2. /\ life' = life /\ sched' = sched /\ manual' = manual /\ cancelled' = cancelled
        /\ Running(Sweep) /\ \E p : pc' = [pc EXCEPT ![Sweep] = p]
        /\ inst' = inst \/ \E i : inst' = [inst EXCEPT ![Sweep] = i]
    BY <1>3 DEF SweepStep, SweepWake, SweepList, SweepNext, Goto
  <2>3. RegistryNeutral
    BY <2>1, <2>2 DEF RegistryNeutral, Running, Alive, TypeOK
  <2> QED
    BY <1>0, <2>3
<1>4. ASSUME NEW h \in Handlers, RequestStep(h) PROVE Registered'
  BY <1>4, RegistryRequest
<1>5. ASSUME NEW h \in Handlers, NEW i \in Instances,
             Create(h, i) \/ \E k \in Requests : Arrive(h, i, k)
      PROVE  Registered'
  <2>1. /\ life' = life /\ sched' = sched /\ pc' = pc /\ inst' = inst /\ cancelled' = cancelled
        /\ manual' \in {manual, Pruned(manual)}
    BY <1>5 DEF Create, Arrive
  <2>2. \A u \in Manuals : Running(u) /\ life # "stopped" => Pruned(manual)[inst[u]] = u
    BY PrunedKeeps DEF Registered, Running, TypeOK, Tasks
  <2> QED
    BY <2>1, <2>2 DEF Registered, Running, Alive
<1>6. CASE Boot \/ StopStep \/ ProcessEnds \/ \E kind \in StopKinds : StopBegin(kind)
  BY <1>6, RegistryLife
<1> QED
  BY <1>1, <1>2, <1>3, <1>4, <1>5, <1>6 DEF Next

-----------------------------------------------------------------------------
LEMMA IInvStep == IInv /\ [Next]_vars => IInv'
<1> SUFFICES ASSUME IInv, [Next]_vars PROVE IInv'
  OBVIOUS
<1>1. TypeOK /\ Locks /\ Registered /\ DownIsEmpty
  BY DEF IInv, Locks
<1>2. TypeOK'
  BY <1>1, TypeStep
<1>3. Locks'
  BY <1>1, LockStep
<1>4. Registered'
  BY <1>1, <1>2, RegistryStep
<1>5. DownIsEmpty'
  BY <1>1, DownStep
<1> QED
  BY <1>2, <1>3, <1>4, <1>5 DEF IInv, Locks

LEMMA IInvAlways == Spec => []IInv
  BY InitIInv, IInvStep, PTL DEF Spec

\* Two tasks are never inside the lock of one instance, whatever is cancelled,
\* stopped, killed or failing around them.
THEOREM CyclesExclude == Spec => []CycleExclusion
<1>1. IInv => CycleExclusion
  BY DEF IInv, Held, CycleExclusion, SameInstance
<1> QED
  BY <1>1, IInvAlways, PTL

\* No cancellation, exception or crash leaves a lock without a live owner.
THEOREM LocksAreOwned == Spec => []LockHasLiveOwner
<1>1. IInv => LockHasLiveOwner
  BY DEF IInv
<1> QED
  BY <1>1, IInvAlways, PTL

\* However requests race, an instance never has two scheduled loops or two run-now
\* tasks that nobody has cancelled.
THEOREM OneOfAKind == Spec => []OneTaskOfAKind
<1>1. IInv => OneTaskOfAKind
  <2> SUFFICES ASSUME IInv, life # "stopped", NEW K \in {Loops, Manuals}, NEW t \in K, NEW u \in K,
                      Running(t), Running(u), SameInstance(t, u)
               PROVE  t = u
    BY DEF OneTaskOfAKind
  <2>1. CASE K = Loops
    BY <2>1 DEF IInv, Registered, SameInstance
  <2>2. CASE K = Manuals
    BY <2>2 DEF IInv, Registered, SameInstance
  <2> QED
    BY <2>1, <2>2
<1> QED
  BY <1>1, IInvAlways, PTL

-----------------------------------------------------------------------------
(***************************************************************************)
(* The shape of the steps                                                  *)
(***************************************************************************)
LEMMA TaskShape ==
  ASSUME TypeOK, NEW t \in Tasks, TaskStep(t) \/ Acquire(t) \/ SearchRow(t), ~Reap(t)
  PROVE  /\ UNCHANGED <<row, sched, manual, primes, inst, cancelled, life, resetting, doomed, reqVars>>
         /\ Alive(t) /\ \E p \in PCs \ {"free"} : pc' = [pc EXCEPT ![t] = p]
<1> USE DEF regVars, lifeVars, dbVars
<1>1. AfterLock(t, TRUE) \in PCs \ {"free"} /\ AfterLock(t, FALSE) \in PCs \ {"free"}
  BY DEF AfterLock, PCs, Outside
<1>2. CASE CancelDelivered(t) \/ LoopWake(t) \/ ReadRow(t) \/ Leave(t) \/ Reconnect(t)
  BY <1>2 DEF CancelDelivered, LoopWake, ReadRow, Leave, Reconnect, Goto, Running, PCs, Outside
<1>3. CASE CycleOk(t) \/ CycleUnreachable(t) \/ CycleEngineError(t)
  BY <1>1, <1>3 DEF CycleOk, CycleUnreachable, CycleEngineError, EndCycle, Running, PCs, Critical
<1>4. CASE WriteRow(t)
  <2>1. Written[pc[t]] \in PCs \ {"free"}
    BY <1>4 DEF WriteRow, Writing, Written, PCs, Critical, Outside
  <2> QED
    BY <1>4, <2>1 DEF WriteRow
<1>5. CASE DbFails(t)
  BY <1>1, <1>5 DEF DbFails, EndCycle, Running, PCs, Outside
<1>6. CASE PairDone(t) \/ UnreachableDone(t) \/ EngineErrorDone(t)
  BY <1>1, <1>6 DEF PairDone, UnreachableDone, EngineErrorDone, EndCycle, Running
<1>7. CASE Acquire(t) \/ SearchRow(t)
  BY <1>7 DEF Acquire, SearchRow, Goto, Running, PCs, Critical
<1> QED
  BY <1>2, <1>3, <1>4, <1>5, <1>6, <1>7 DEF TaskStep

LEMMA SweepShape ==
  ASSUME TypeOK, SweepStep
  PROVE  /\ UNCHANGED <<row, sched, manual, primes, cancelled, life, resetting, doomed, reqVars>>
         /\ Running(Sweep) /\ \E p \in PCs \ {"free"} : pc' = [pc EXCEPT ![Sweep] = p]
         /\ \A t \in Tasks \ {Sweep} : inst'[t] = inst[t]
<1>1. PICK p \in PCs \ {"free"} : pc' = [pc EXCEPT ![Sweep] = p]
  BY DEF SweepStep, SweepWake, SweepList, SweepNext, Goto, PCs, Outside
<1>2. \A t \in Tasks \ {Sweep} : inst'[t] = inst[t]
  BY DEF SweepStep, SweepWake, SweepList, SweepNext, TypeOK
<1> QED
  BY <1>1, <1>2 DEF SweepStep, SweepWake, SweepList, SweepNext, Goto, regVars, lifeVars, dbVars

\* A request that reads or writes a row, or returns.
PlainRequest(h) ==
  \/ ToggleRead(h) \/ ToggleWrite(h) \/ ToggleReread(h)
  \/ UpdateRead(h) \/ UpdateProbeFails(h) \/ UpdateWrite(h)
  \/ ReconcileRead(h) \/ StopReturns(h) \/ DeleteRow(h) \/ RunNowRead(h)

LEMMA PlainShape ==
  ASSUME NEW h, PlainRequest(h)
  PROVE  UNCHANGED <<sched, manual, primes, pc, inst, cancelled, life, resetting, doomed, hwait>>
  BY DEF PlainRequest, ToggleRead, ToggleWrite, ToggleReread, UpdateRead, UpdateProbeFails,
         UpdateWrite, ReconcileRead, StopReturns, DeleteRow, RunNowRead, HandlerRead, SetEnabled,
         regVars, taskVars, lifeVars

LEMMA ArriveShape ==
  ASSUME NEW h, \E i \in Instances : Create(h, i) \/ \E k \in Requests : Arrive(h, i, k)
  PROVE  /\ UNCHANGED <<sched, primes, pc, inst, cancelled, life, resetting, doomed, hwait>>
         /\ manual' \in {manual, Pruned(manual)} /\ hpc[h] = "idle"
         /\ life = "up" \/ (resetting /\ life # "stopped")
  BY DEF Create, Arrive, regVars, taskVars, lifeVars

\* The program points at which a request may be waiting for a task to end.
StopPoints == {"stopLoop", "stopManual", "delStopLoop", "delRow"}

\* A request cancels the task registered for its instance and waits for it.
LEMMA StopShape ==
  ASSUME TypeOK, NEW h \in Handlers, StopLoop(h) \/ StopManual(h)
  PROVE  \E t \in Loops \cup Manuals \cup {NoTask}, p \in StopPoints :
           /\ UNCHANGED <<row, primes, pc, inst, life, resetting, doomed, hinst, hseen>>
           /\ hpc' = [hpc EXCEPT ![h] = p]
           /\ StopLoop(h) => /\ hpc[h] \in {"delStop", "rcAct"} /\ t = Pruned(sched)[hinst[h]]
                             /\ p = IF hpc[h] = "delStop" THEN "delStopLoop" ELSE "stopLoop"
           /\ StopManual(h) => /\ hpc[h] \in {"stopLoop", "delStopLoop"} /\ hwait[h] = NoTask
                               /\ t = manual[hinst[h]]
                               /\ p = IF hpc[h] = "stopLoop" THEN "stopManual" ELSE "delRow"
           /\ IF Pending(t)
              THEN /\ cancelled' = [cancelled EXCEPT ![t] = TRUE]
                   /\ hwait' = [hwait EXCEPT ![h] = t]
              ELSE UNCHANGED <<cancelled, hwait>>
<1>1. hinst[h] \in Instances /\ Pruned(sched) \in [Instances -> Loops \cup {NoTask}]
  BY PrunedType DEF TypeOK
<1>2. CASE StopLoop(h)
  <2> DEFINE t == Pruned(sched)[hinst[h]]
             p == IF hpc[h] = "delStop" THEN "delStopLoop" ELSE "stopLoop"
  <2>1. t \in Loops \cup Manuals \cup {NoTask} /\ p \in StopPoints
    BY <1>1 DEF StopPoints
  <2>2. CancelAndAwait(h, t, p) /\ hpc[h] \in {"delStop", "rcAct"} /\ ~StopManual(h)
    BY <1>2 DEF StopLoop, StopManual
  <2>3. UNCHANGED <<row, primes, pc, inst, life, resetting, doomed, hinst, hseen>>
    BY <1>2 DEF StopLoop, dbVars, lifeVars
  <2> HIDE DEF t
  <2> QED
    BY <2>1, <2>2, <2>3 DEF CancelAndAwait, t
<1>3. CASE StopManual(h)
  <2> DEFINE t == manual[hinst[h]]
             p == IF hpc[h] = "stopLoop" THEN "stopManual" ELSE "delRow"
  <2>1. t \in Loops \cup Manuals \cup {NoTask} /\ p \in StopPoints
    BY <1>1 DEF StopPoints, TypeOK
  <2>2. CancelAndAwait(h, t, p) /\ hpc[h] \in {"stopLoop", "delStopLoop"} /\ hwait[h] = NoTask
        /\ ~StopLoop(h)
    BY <1>3 DEF StopLoop, StopManual
  <2>3. UNCHANGED <<row, primes, pc, inst, life, resetting, doomed, hinst, hseen>>
    BY <1>3 DEF StopManual, dbVars, lifeVars
  <2> HIDE DEF t
  <2> QED
    BY <2>1, <2>2, <2>3 DEF CancelAndAwait, t
<1> QED
  BY <1>2, <1>3

-----------------------------------------------------------------------------
(***************************************************************************)
(* Registered tasks and free slots                                         *)
(***************************************************************************)
\* A free slot carries no cancellation, and what is registered for an instance is a
\* task of that instance.
Tidy ==
  /\ \A t \in Tasks : pc[t] = "free" => ~cancelled[t]
  /\ \A i \in Instances :
       /\ sched[i] # NoTask => inst[sched[i]] = i /\ pc[sched[i]] # "free"
       /\ manual[i] # NoTask => inst[manual[i]] = i /\ pc[manual[i]] # "free"

LEMMA SlotFacts ==
  /\ Loops \subseteq Tasks /\ Manuals \subseteq Tasks /\ Primes \subseteq Tasks /\ Sweep \in Tasks
  /\ NoTask \notin Tasks /\ Loops \cap Manuals = {} /\ Loops \cap Primes = {}
  /\ Manuals \cap Primes = {} /\ Sweep \notin Loops \cup Manuals \cup Primes
  BY TasksDistinct DEF Tasks

\* A step that frees no slot, keeps the place of the registered tasks and registers
\* nothing new.
LEMMA TidyKept ==
  ASSUME TypeOK, Tidy,
         \A t \in Tasks : pc'[t] = "free" => pc[t] = "free" /\ cancelled'[t] = cancelled[t],
         \A t \in Loops \cup Manuals : pc[t] # "free" => inst'[t] = inst[t],
         \A i \in Instances : sched'[i] \in {sched[i], NoTask} /\ manual'[i] \in {manual[i], NoTask}
  PROVE  Tidy'
<1>1. \A i \in Instances : sched[i] \in Loops \cup {NoTask} /\ manual[i] \in Manuals \cup {NoTask}
  BY DEF TypeOK
<1> QED
  BY <1>1, SlotFacts DEF Tidy

LEMMA PrunedIs ==
  ASSUME NEW reg, NEW i \in Instances
  PROVE  Pruned(reg)[i] \in {reg[i], NoTask}
  BY DEF Pruned

\* The task a start finds registered, or the one it makes.
LEMMA StartShape ==
  ASSUME TypeOK, Tidy, NEW i \in Instances, StartInstanceTask(i)
  PROVE  \/ /\ UNCHANGED <<primes, pc, inst>> /\ sched' = Pruned(sched)
            /\ \E t \in Loops : t = Pruned(sched)[i] /\ Alive(t) /\ inst[t] = i
         \/ \E t \in Loops, p \in Primes :
              /\ pc[t] = "free" /\ pc[p] = "free" /\ Pruned(sched)[i] = NoTask
              /\ sched' = [Pruned(sched) EXCEPT ![i] = t]
              /\ primes' = primes \cup {p}
              /\ pc' = [pc EXCEPT ![t] = "grace", ![p] = "wait"]
              /\ inst' = [inst EXCEPT ![t] = i, ![p] = i]
<1>1. CASE Pruned(sched)[i] # NoTask
  <2>1. Pruned(sched)[i] = sched[i] /\ sched[i] \in Loops /\ pc[sched[i]] # "done"
    BY <1>1 DEF Pruned, TypeOK
  <2>2. Alive(sched[i]) /\ inst[sched[i]] = i
    BY <1>1, <2>1 DEF Tidy, Alive
  <2> QED
    BY <1>1, <2>1, <2>2 DEF StartInstanceTask
<1>2. CASE Pruned(sched)[i] = NoTask
  BY <1>2 DEF StartInstanceTask
<1> QED
  BY <1>1, <1>2

LEMMA RunNowShape ==
  ASSUME TypeOK, NEW h \in Handlers, RunNow(h)
  PROVE  /\ UNCHANGED <<row, sched, primes, cancelled, life, resetting, doomed, hinst, hseen, hwait>>
         /\ hpc' = [hpc EXCEPT ![h] = "idle"] /\ hpc[h] = "rnAct"
         /\ \/ UNCHANGED <<manual, pc, inst>>
            \/ \E t \in Manuals :
                 /\ hseen[h] = "on" /\ pc[t] = "free" /\ ~Pending(manual[hinst[h]])
                 /\ manual' = [manual EXCEPT ![hinst[h]] = t]
                 /\ pc' = [pc EXCEPT ![t] = "reading"]
                 /\ inst' = [inst EXCEPT ![t] = hinst[h]]
  BY DEF RunNow, ReqGoto, dbVars, lifeVars

LEMMA TidyRequest ==
  ASSUME TypeOK, Tidy, NEW h \in Handlers, RequestStep(h)
  PROVE  Tidy'
<1>0. hinst[h] \in Instances
  BY DEF TypeOK
<1>1. CASE ReconcileStart(h)
  <2>1. StartInstanceTask(hinst[h]) /\ cancelled' = cancelled /\ manual' = manual
    BY <1>1 DEF ReconcileStart
  <2>2. CASE UNCHANGED <<pc, inst>> /\ sched' = Pruned(sched)
    <3>1. \A i \in Instances : sched'[i] \in {sched[i], NoTask}
      BY <2>2, PrunedIs
    <3> QED
      BY <2>1, <2>2, <3>1, TidyKept
  <2>3. ASSUME NEW t \in Loops, NEW p \in Primes, pc[t] = "free", pc[p] = "free",
               sched' = [Pruned(sched) EXCEPT ![hinst[h]] = t],
               pc' = [pc EXCEPT ![t] = "grace", ![p] = "wait"],
               inst' = [inst EXCEPT ![t] = hinst[h], ![p] = hinst[h]]
        PROVE  Tidy'
    <3>1. \A u \in Tasks : pc'[u] = "free" => pc[u] = "free"
      BY <2>3 DEF TypeOK
    <3>2. \A u \in Tasks : pc[u] # "free" => inst'[u] = inst[u] /\ pc'[u] # "free"
      BY <2>3 DEF TypeOK
    <3>3. inst'[t] = hinst[h] /\ pc'[t] # "free"
      BY <2>3, SlotFacts DEF TypeOK
    <3>4. Pruned(sched) \in [Instances -> Loops \cup {NoTask}]
      BY PrunedType DEF TypeOK
    <3>5. \A i \in Instances : sched'[i] \in {sched[i], NoTask} \/ (i = hinst[h] /\ sched'[i] = t)
      BY <2>3, <3>4, PrunedIs
    <3>6. \A i \in Instances : sched[i] \in Loops \cup {NoTask} /\ manual[i] \in Manuals \cup {NoTask}
      BY DEF TypeOK
    <3> QED
      BY <2>1, <3>1, <3>2, <3>3, <3>5, <3>6, SlotFacts DEF Tidy
  <2> QED
    BY <1>0, <2>1, <2>2, <2>3, StartShape
<1>2. CASE StopLoop(h) \/ StopManual(h)
  <2>1. PICK t \in Loops \cup Manuals \cup {NoTask} :
          /\ pc' = pc /\ inst' = inst
          /\ cancelled' = cancelled \/ (Pending(t) /\ cancelled' = [cancelled EXCEPT ![t] = TRUE])
    BY <1>2, StopShape
  <2>2. \A u \in Tasks : pc[u] = "free" => cancelled'[u] = cancelled[u]
    BY <2>1, SlotFacts DEF TypeOK, Pending, Alive
  <2>3. Pruned(sched) \in [Instances -> Loops \cup {NoTask}]
    BY PrunedType DEF TypeOK
  <2>4. \A i \in Instances : sched'[i] \in {sched[i], NoTask} /\ manual'[i] \in {manual[i], NoTask}
    <3>1. ASSUME StopLoop(h), NEW i \in Instances
          PROVE  sched'[i] \in {sched[i], NoTask} /\ manual'[i] \in {manual[i], NoTask}
      <4>1. sched' = [Pruned(sched) EXCEPT ![hinst[h]] = NoTask] /\ manual' = Pruned(manual)
        BY <3>1 DEF StopLoop
      <4>2. Pruned(sched)[i] \in {sched[i], NoTask} /\ Pruned(manual)[i] \in {manual[i], NoTask}
        BY PrunedIs
      <4> QED
        BY <2>3, <4>1, <4>2
    <3>2. ASSUME StopManual(h), NEW i \in Instances
          PROVE  sched'[i] \in {sched[i], NoTask} /\ manual'[i] \in {manual[i], NoTask}
      <4>1. sched' = sched /\ manual' = [manual EXCEPT ![hinst[h]] = NoTask]
        BY <3>2 DEF StopManual
      <4> QED
        BY <4>1 DEF TypeOK
    <3> QED
      BY <1>2, <3>1, <3>2
  <2> QED
    BY <2>1, <2>2, <2>4, TidyKept
<1>3. CASE RunNow(h)
  <2>1. sched' = sched /\ cancelled' = cancelled
    BY <1>3, RunNowShape
  <2>2. CASE UNCHANGED <<manual, pc, inst>>
    BY <2>1, <2>2, TidyKept
  <2>3. ASSUME NEW t \in Manuals, pc[t] = "free", manual' = [manual EXCEPT ![hinst[h]] = t],
               pc' = [pc EXCEPT ![t] = "reading"], inst' = [inst EXCEPT ![t] = hinst[h]]
        PROVE  Tidy'
    <3>1. \A u \in Tasks : /\ pc'[u] = "free" => pc[u] = "free"
                           /\ pc[u] # "free" => inst'[u] = inst[u] /\ pc'[u] # "free"
      BY <2>3 DEF TypeOK
    <3>2. inst'[t] = hinst[h] /\ pc'[t] # "free"
      BY <2>3, SlotFacts DEF TypeOK
    <3>3. \A i \in Instances : manual'[i] = manual[i] \/ (i = hinst[h] /\ manual'[i] = t)
      BY <2>3 DEF TypeOK
    <3>4. \A i \in Instances : sched[i] \in Loops \cup {NoTask} /\ manual[i] \in Manuals \cup {NoTask}
      BY DEF TypeOK
    <3>5. \A u \in Tasks : pc'[u] = "free" => ~cancelled'[u]
      BY <2>1, <3>1 DEF Tidy
    <3>6. ASSUME NEW i \in Instances, sched'[i] # NoTask
          PROVE  inst'[sched'[i]] = i /\ pc'[sched'[i]] # "free"
      <4>1. sched[i] # NoTask /\ sched[i] \in Tasks /\ sched'[i] = sched[i]
        BY <2>1, <3>4, <3>6, SlotFacts
      <4>2. inst[sched[i]] = i /\ pc[sched[i]] # "free"
        BY <4>1 DEF Tidy
      <4> QED
        BY <3>1, <4>1, <4>2
    <3>7. ASSUME NEW i \in Instances, manual'[i] # NoTask
          PROVE  inst'[manual'[i]] = i /\ pc'[manual'[i]] # "free"
      <4>1. CASE manual'[i] = manual[i]
        <5>1. manual[i] # NoTask /\ manual[i] \in Tasks
          BY <3>4, <3>7, <4>1, SlotFacts
        <5>2. inst[manual[i]] = i /\ pc[manual[i]] # "free"
          BY <5>1 DEF Tidy
        <5> QED
          BY <3>1, <4>1, <5>1, <5>2
      <4>2. CASE manual'[i] # manual[i]
        BY <3>2, <3>3, <4>2
      <4> QED
        BY <4>1, <4>2
    <3> QED
      BY <3>5, <3>6, <3>7 DEF Tidy
  <2> QED
    BY <1>3, <2>2, <2>3, RunNowShape
<1>4. CASE PlainRequest(h)
  BY <1>4, PlainShape, TidyKept
<1> QED
  BY <1>1, <1>2, <1>3, <1>4 DEF RequestStep, PlainRequest

\* What Boot registers.
LEMMA BootShape ==
  ASSUME TypeOK, DownIsEmpty, Boot
  PROVE  /\ life = "down" /\ life' = "up" /\ ~resetting'
         /\ UNCHANGED <<row, manual, cancelled, resetting, doomed, reqVars>>
         /\ \A t \in Tasks : pc[t] = "free"
         /\ \A t \in Manuals : pc'[t] = "free"
         /\ \A p \in Primes : pc'[p] # "free" => p \in primes'
         /\ \A t \in Loops : pc'[t] # "free" => row[inst'[t]] = "on" /\ pc'[t] = "grace"
         /\ \A i \in Instances :
              IF row[i] = "on"
              THEN sched'[i] \in Loops /\ pc'[sched'[i]] = "grace" /\ inst'[sched'[i]] = i
              ELSE sched'[i] = NoTask
<1> DEFINE on == {i \in Instances : row[i] = "on"}
<1>1. PICK f \in Injection(on, Loops), g \in Injection(on, Primes) :
       /\ sched' = [i \in Instances |-> IF i \in on THEN f[i] ELSE NoTask]
       /\ primes' = {g[i] : i \in on}
       /\ pc' = [t \in Tasks |-> IF \E i \in on : f[i] = t THEN "grace"
                                ELSE IF \E i \in on : g[i] = t THEN "wait"
                                ELSE IF t = Sweep THEN "sleep" ELSE "free"]
       /\ inst' = [t \in Tasks |-> IF \E i \in on : t \in {f[i], g[i]}
                                  THEN CHOOSE i \in on : t \in {f[i], g[i]}
                                  ELSE inst[t]]
  BY DEF Boot
<1>2. /\ f \in [on -> Loops] /\ g \in [on -> Primes]
      /\ \A i, j \in on : f[i] = f[j] => i = j
  BY <1>1 DEF Injection, IsInjective
<1>3. /\ life = "down" /\ life' = "up" /\ ~resetting'
      /\ UNCHANGED <<row, manual, cancelled, resetting, doomed, reqVars>>
      /\ \A t \in Tasks : pc[t] = "free"
  BY DEF Boot, DownIsEmpty, dbVars
<1>4. \A t \in Manuals : pc'[t] = "free"
  BY <1>1, <1>2, SlotFacts
<1>5. \A p \in Primes : pc'[p] # "free" => p \in primes'
  BY <1>1, <1>2, SlotFacts
<1>6. \A i \in on : inst'[f[i]] = i /\ pc'[f[i]] = "grace" /\ f[i] \in Loops
  <2> TAKE i \in on
  <2>1. f[i] \in Loops /\ f[i] \in Tasks /\ \A j \in on : g[j] # f[i]
    BY <1>2, SlotFacts
  <2>2. inst'[f[i]] = CHOOSE j \in on : f[i] \in {f[j], g[j]}
    BY <1>1, <2>1
  <2>3. inst'[f[i]] \in on /\ f[i] \in {f[inst'[f[i]]], g[inst'[f[i]]]}
    BY <2>2
  <2> QED
    BY <1>1, <1>2, <2>1, <2>3
<1>7. \A t \in Loops : pc'[t] # "free" => row[inst'[t]] = "on" /\ pc'[t] = "grace"
  <2> SUFFICES ASSUME NEW t \in Loops, pc'[t] # "free"
               PROVE  row[inst'[t]] = "on" /\ pc'[t] = "grace"
    OBVIOUS
  <2>1. t \in Tasks /\ t # Sweep /\ \A i \in on : g[i] # t
    BY <1>2, SlotFacts
  <2>2. PICK i \in on : f[i] = t
    BY <1>1, <2>1
  <2> QED
    BY <1>6, <2>2
<1>8. \A i \in Instances :
        IF row[i] = "on"
        THEN sched'[i] \in Loops /\ pc'[sched'[i]] = "grace" /\ inst'[sched'[i]] = i
        ELSE sched'[i] = NoTask
  <2> TAKE i \in Instances
  <2>1. sched'[i] = IF i \in on THEN f[i] ELSE NoTask
    BY <1>1
  <2>2. CASE i \in on
    BY <1>6, <2>1, <2>2
  <2>3. CASE i \notin on
    BY <2>1, <2>3
  <2> QED
    BY <2>2, <2>3
<1> HIDE DEF on
<1> QED
  BY <1>3, <1>4, <1>5, <1>7, <1>8

\* The done callback takes out what was registered under the finished task.
LEMMA TidyReap ==
  ASSUME TypeOK, Tidy, NEW t \in Tasks, Reap(t)
  PROVE  Tidy'
<1>1. /\ pc' = [pc EXCEPT ![t] = "free"] /\ cancelled' = [cancelled EXCEPT ![t] = FALSE]
      /\ inst' = inst
      /\ \A i \in Instances :
           /\ sched'[i] = IF i = inst[t] /\ sched[i] = t THEN NoTask ELSE sched[i]
           /\ manual'[i] = IF i = inst[t] /\ manual[i] = t THEN NoTask ELSE manual[i]
  BY DEF Reap
<1>2. \A i \in Instances : sched[i] \in Loops \cup {NoTask} /\ manual[i] \in Manuals \cup {NoTask}
  BY DEF TypeOK
<1>3. \A u \in Tasks : pc'[u] = "free" => ~cancelled'[u]
  BY <1>1 DEF Tidy, TypeOK
<1>4. ASSUME NEW i \in Instances, sched'[i] # NoTask
      PROVE  inst'[sched'[i]] = i /\ pc'[sched'[i]] # "free"
  <2>1. sched'[i] = sched[i] /\ sched[i] # NoTask /\ sched[i] \in Tasks
    BY <1>1, <1>2, <1>4, SlotFacts
  <2>2. inst[sched[i]] = i /\ pc[sched[i]] # "free"
    BY <2>1 DEF Tidy
  <2> QED
    BY <1>1, <1>4, <2>1, <2>2 DEF TypeOK
<1>5. ASSUME NEW i \in Instances, manual'[i] # NoTask
      PROVE  inst'[manual'[i]] = i /\ pc'[manual'[i]] # "free"
  <2>1. manual'[i] = manual[i] /\ manual[i] # NoTask /\ manual[i] \in Tasks
    BY <1>1, <1>2, <1>5, SlotFacts
  <2>2. inst[manual[i]] = i /\ pc[manual[i]] # "free"
    BY <2>1 DEF Tidy
  <2> QED
    BY <1>1, <1>5, <2>1, <2>2 DEF TypeOK
<1> QED
  BY <1>3, <1>4, <1>5 DEF Tidy

LEMMA TidyLife ==
  ASSUME TypeOK, Tidy, DownIsEmpty,
         Boot \/ StopStep \/ ProcessEnds \/ \E kind \in StopKinds : StopBegin(kind)
  PROVE  Tidy'
<1>1. CASE Boot
  <2>1. /\ cancelled' = cancelled /\ manual' = manual /\ \A t \in Tasks : pc[t] = "free"
        /\ \A i \in Instances : sched'[i] # NoTask => inst'[sched'[i]] = i /\ pc'[sched'[i]] # "free"
    BY <1>1, BootShape
  <2>2. \A i \in Instances : manual[i] = NoTask
    BY <2>1, SlotFacts DEF TypeOK, Tidy
  <2> QED
    BY <2>1, <2>2 DEF Tidy
<1>2. CASE StopPrimes \/ StopTasks \/ \E kind \in StopKinds : StopBegin(kind)
  <2>1. /\ pc' = pc /\ inst' = inst
        /\ \A t \in Tasks : pc[t] = "free" => cancelled'[t] = cancelled[t]
    BY <1>2 DEF StopPrimes, StopTasks, StopBegin, CancelAll, Alive, TypeOK
  <2>2. \A i \in Instances : sched'[i] \in {sched[i], NoTask} /\ manual'[i] \in {manual[i], NoTask}
    BY <1>2, PrunedIs DEF StopPrimes, StopTasks, StopBegin, regVars
  <2> QED
    BY <2>1, <2>2, TidyKept
<1>3. CASE StopEnd
  BY <1>3 DEF StopEnd, Tidy, taskVars
<1>4. CASE ProcessEnds
  BY <1>4 DEF ProcessEnds, Tidy
<1> QED
  BY <1>1, <1>2, <1>3, <1>4 DEF StopStep

LEMMA TidyStep ==
  ASSUME TypeOK, Tidy, DownIsEmpty, [Next]_vars
  PROVE  Tidy'
<1>1. CASE UNCHANGED vars
  BY <1>1 DEF vars, regVars, taskVars, Tidy
<1>2. ASSUME NEW t \in Tasks, TaskStep(t) \/ Acquire(t) \/ SearchRow(t) PROVE Tidy'
  <2>1. CASE Reap(t)
    BY <2>1, TidyReap
  <2>2. CASE ~Reap(t)
    <3>1. PICK p \in PCs \ {"free"} : pc' = [pc EXCEPT ![t] = p]
      BY <1>2, <2>2, TaskShape
    <3>2. UNCHANGED <<sched, manual, inst, cancelled>>
      BY <1>2, <2>2, TaskShape
    <3>3. \A u \in Tasks : pc'[u] = "free" => pc[u] = "free"
      BY <3>1 DEF TypeOK
    <3> QED
      BY <3>2, <3>3, TidyKept
  <2> QED
    BY <2>1, <2>2
<1>3. CASE SweepStep
  <2>1. PICK p \in PCs \ {"free"} : pc' = [pc EXCEPT ![Sweep] = p]
    BY <1>3, SweepShape
  <2>2. /\ UNCHANGED <<sched, manual, cancelled>>
        /\ \A u \in Tasks \ {Sweep} : inst'[u] = inst[u]
    BY <1>3, SweepShape
  <2>3. \A u \in Tasks : pc'[u] = "free" => pc[u] = "free"
    BY <2>1 DEF TypeOK
  <2>4. Loops \cup Manuals \subseteq Tasks \ {Sweep}
    BY SlotFacts
  <2> QED
    BY <2>2, <2>3, <2>4, TidyKept
<1>4. ASSUME NEW h \in Handlers, RequestStep(h) PROVE Tidy'
  BY <1>4, TidyRequest
<1>5. ASSUME NEW h \in Handlers, NEW i \in Instances,
             Create(h, i) \/ \E k \in Requests : Arrive(h, i, k)
      PROVE  Tidy'
  <2>1. UNCHANGED <<sched, pc, inst, cancelled>> /\ manual' \in {manual, Pruned(manual)}
    BY <1>5, ArriveShape
  <2>2. \A j \in Instances : manual'[j] \in {manual[j], NoTask}
    BY <2>1, PrunedIs
  <2> QED
    BY <2>1, <2>2, TidyKept
<1>6. CASE Boot \/ StopStep \/ ProcessEnds \/ \E kind \in StopKinds : StopBegin(kind)
  BY <1>6, TidyLife
<1> QED
  BY <1>1, <1>2, <1>3, <1>4, <1>5, <1>6 DEF Next

-----------------------------------------------------------------------------
(***************************************************************************)
(* Stopping                                                                *)
(***************************************************************************)
\* A request waits for a task only while it stops one, and while the supervisor is
\* up whoever cancelled a loop or a run-now task is still waiting for it.
Awaited ==
  /\ \A h \in Handlers : hpc[h] \notin StopPoints => hwait[h] = NoTask
  /\ life = "up" => \A t \in Loops \cup Manuals :
       Alive(t) /\ cancelled[t] => \E h \in Handlers : hwait[h] = t

\* No task begins, is cancelled or changes instance when a task goes on.
LEMMA TasksGoOn ==
  ASSUME TypeOK, SweepStep \/ \E t \in Tasks : TaskStep(t) \/ Acquire(t) \/ SearchRow(t)
  PROVE  /\ UNCHANGED <<row, life, resetting, hpc, hinst, hseen>>
         /\ \A u \in Tasks : Alive(u)' => Alive(u) /\ cancelled'[u] = cancelled[u]
         /\ \A u \in Loops \cup Manuals \cup Primes : inst'[u] = inst[u]
         /\ \A u \in Tasks : pc[u] = "free" => pc'[u] = "free"
         /\ \A u \in Tasks : Alive(u) /\ u \in doomed => u \in doomed'
         /\ \A u \in Tasks : Alive(u) /\ u \in primes => u \in primes'
         /\ \A u \in Tasks, h \in Handlers : hwait[h] = u /\ Alive(u) => hwait'[h] = u
         /\ \A h \in Handlers : hwait'[h] \in {hwait[h], NoTask}
<1>0. Loops \cup Manuals \cup Primes \subseteq Tasks \ {Sweep} /\ Sweep \in Tasks
  BY SlotFacts
<1>1. CASE SweepStep
  <2>1. /\ UNCHANGED <<row, sched, manual, primes, cancelled, life, resetting, doomed, reqVars>>
        /\ Alive(Sweep) /\ \A t \in Tasks \ {Sweep} : inst'[t] = inst[t]
    BY <1>1, SweepShape DEF Running
  <2>2. PICK p \in PCs \ {"free"} : pc' = [pc EXCEPT ![Sweep] = p]
    BY <1>1, SweepShape
  <2>3. \A u \in Tasks : /\ Alive(u)' => Alive(u)
                         /\ pc[u] = "free" => pc'[u] = "free"
    BY <2>1, <2>2 DEF Alive, TypeOK
  <2>4. UNCHANGED <<hpc, hinst, hseen, hwait>>
    BY <2>1 DEF reqVars
  <2>5. \A u \in Tasks : Alive(u)' => Alive(u)
    BY <2>3
  <2>6. \A u \in Tasks : pc[u] = "free" => pc'[u] = "free"
    BY <2>3
  <2> HIDE DEF Alive
  <2> QED
    BY <1>0, <2>1, <2>4, <2>5, <2>6
<1>2. ASSUME NEW t \in Tasks, TaskStep(t) \/ Acquire(t) \/ SearchRow(t), ~Reap(t)
      PROVE  /\ UNCHANGED <<row, life, resetting, hpc, hinst, hseen, hwait, doomed, primes, inst>>
             /\ \A u \in Tasks : Alive(u)' => Alive(u) /\ cancelled'[u] = cancelled[u]
             /\ \A u \in Tasks : pc[u] = "free" => pc'[u] = "free"
  <2>1. /\ UNCHANGED <<row, sched, manual, primes, inst, cancelled, life, resetting, doomed, reqVars>>
        /\ Alive(t)
    BY <1>2, TaskShape
  <2>2. PICK p \in PCs \ {"free"} : pc' = [pc EXCEPT ![t] = p]
    BY <1>2, TaskShape
  <2>3. \A u \in Tasks : /\ Alive(u)' => Alive(u)
                         /\ pc[u] = "free" => pc'[u] = "free"
    BY <2>1, <2>2 DEF Alive, TypeOK
  <2> QED
    BY <2>1, <2>3 DEF reqVars
<1>3. ASSUME NEW t \in Tasks, Reap(t)
      PROVE  /\ UNCHANGED <<row, life, resetting, hpc, hinst, hseen, inst>>
             /\ ~Alive(t) /\ primes' = primes \ {t} /\ doomed' = doomed \ {t}
             /\ \A u \in Tasks : /\ Alive(u)' => Alive(u) /\ cancelled'[u] = cancelled[u]
                                 /\ pc[u] = "free" => pc'[u] = "free"
             /\ \A h \in Handlers : hwait'[h] = IF hwait[h] = t THEN NoTask ELSE hwait[h]
  BY <1>3 DEF Reap, Alive, TypeOK, dbVars
<1> QED
  BY <1>0, <1>1, <1>2, <1>3

\* A request on the way ends somewhere, waits for nothing it has not cancelled, and
\* waits no longer when it goes on.
LEMMA RequestWaits ==
  ASSUME TypeOK, NEW h \in Handlers, RequestStep(h)
  PROVE  /\ hpc[h] # "idle" /\ UNCHANGED <<life, resetting, doomed, hinst>>
         /\ hpc[h] \notin StopPoints \/ hwait[h] = NoTask
         /\ \E q \in HPCs : hpc' = [hpc EXCEPT ![h] = q]
         /\ hwait' = hwait \/ (StopLoop(h) \/ StopManual(h))
<1> USE DEF ReqGoto, lifeVars, HPCs, StopPoints
<1>1. CASE ToggleRead(h) \/ ToggleReread(h) \/ UpdateRead(h) \/ RunNowRead(h)
  BY <1>1 DEF ToggleRead, ToggleReread, UpdateRead, RunNowRead, HandlerRead
<1>2. CASE ToggleWrite(h) \/ UpdateWrite(h)
  BY <1>2 DEF ToggleWrite, UpdateWrite, SetEnabled
<1>3. CASE UpdateProbeFails(h) \/ ReconcileRead(h) \/ ReconcileStart(h) \/ StopReturns(h)
           \/ DeleteRow(h) \/ RunNow(h)
  BY <1>3 DEF UpdateProbeFails, ReconcileRead, ReconcileStart, StopReturns, DeleteRow, RunNow
<1>4. CASE StopLoop(h) \/ StopManual(h)
  <2>1. \E q \in HPCs : hpc' = [hpc EXCEPT ![h] = q]
    BY <1>4, StopShape
  <2> QED
    BY <1>4, <2>1 DEF StopLoop, StopManual
<1> QED
  BY <1>1, <1>2, <1>3, <1>4 DEF RequestStep

LEMMA AwaitedRequest ==
  ASSUME TypeOK, TypeOK', Tidy, Awaited, NEW h \in Handlers, RequestStep(h)
  PROVE  Awaited'
<1>1. /\ life' = life
      /\ hpc[h] \notin StopPoints => hwait[h] = NoTask
      /\ hpc[h] \notin StopPoints \/ hwait[h] = NoTask
  BY RequestWaits DEF Awaited
<1>2. hwait[h] = NoTask
  BY <1>1
<1>3. PICK q \in HPCs : hpc' = [hpc EXCEPT ![h] = q]
  BY RequestWaits
<1>4. CASE StopLoop(h) \/ StopManual(h)
  <2>1. PICK t \in Loops \cup Manuals \cup {NoTask}, p \in StopPoints :
          /\ pc' = pc /\ hpc' = [hpc EXCEPT ![h] = p]
          /\ IF Pending(t)
             THEN /\ cancelled' = [cancelled EXCEPT ![t] = TRUE]
                  /\ hwait' = [hwait EXCEPT ![h] = t]
             ELSE UNCHANGED <<cancelled, hwait>>
    BY <1>4, StopShape
  <2>2. \A g \in Handlers : hpc'[g] \notin StopPoints => hwait'[g] = NoTask
    BY <2>1 DEF Awaited, TypeOK
  <2>3. CASE ~Pending(t)
    BY <1>1, <2>1, <2>2, <2>3 DEF Awaited, Alive
  <2>4. CASE Pending(t)
    <3>1. \A u \in Tasks : cancelled'[u] => u = t \/ cancelled[u]
      BY <2>1, <2>4 DEF TypeOK
    <3>2. hwait'[h] = t /\ \A g \in Handlers : g # h => hwait'[g] = hwait[g]
      BY <2>1, <2>4 DEF TypeOK
    <3>3. ASSUME life' = "up", NEW u \in Loops \cup Manuals, Alive(u)', cancelled'[u]
          PROVE  \E g \in Handlers : hwait'[g] = u
      <4>1. u \in Tasks /\ u # NoTask /\ Alive(u)
        BY <2>1, <3>3, SlotFacts DEF Alive
      <4>2. CASE u = t
        BY <3>2, <4>2
      <4>3. CASE u # t
        <5>1. PICK g \in Handlers : hwait[g] = u
          BY <1>1, <3>1, <3>3, <4>1, <4>3 DEF Awaited
        <5> QED
          BY <1>2, <3>2, <4>1, <5>1
      <4> QED
        BY <4>2, <4>3
    <3> QED
      BY <2>2, <3>3 DEF Awaited
  <2> QED
    BY <2>3, <2>4
<1>5. CASE ~(StopLoop(h) \/ StopManual(h))
  <2>1. hwait' = hwait
    BY <1>5, RequestWaits
  <2>2. \A g \in Handlers : hpc'[g] \notin StopPoints => hwait'[g] = NoTask
    BY <1>2, <1>3, <2>1 DEF Awaited, TypeOK
  <2>3. cancelled' = cancelled /\ \A u \in Tasks : Alive(u)' => Alive(u) \/ pc[u] = "free"
    <3>1. CASE PlainRequest(h)
      BY <3>1, PlainShape DEF Alive
    <3>2. CASE ReconcileStart(h)
      <4>1. StartInstanceTask(hinst[h]) /\ cancelled' = cancelled
        BY <3>2 DEF ReconcileStart
      <4>2. pc' = pc \/ \E t \in Loops, p \in Primes :
              pc[t] = "free" /\ pc[p] = "free" /\ pc' = [pc EXCEPT ![t] = "grace", ![p] = "wait"]
        BY <4>1, StartShape DEF TypeOK
      <4> QED
        BY <4>1, <4>2 DEF Alive, TypeOK
    <3>3. CASE RunNow(h)
      <4>1. cancelled' = cancelled
        BY <3>3, RunNowShape
      <4>2. pc' = pc \/ \E t \in Manuals : pc[t] = "free" /\ pc' = [pc EXCEPT ![t] = "reading"]
        BY <3>3, RunNowShape
      <4> QED
        BY <4>1, <4>2 DEF Alive, TypeOK
    <3> QED
      BY <1>5, <3>1, <3>2, <3>3 DEF RequestStep, PlainRequest
  <2>4. \A u \in Tasks : Alive(u)' /\ cancelled'[u] => Alive(u) /\ cancelled[u]
    BY <2>3 DEF Tidy
  <2> QED
    BY <1>1, <2>1, <2>2, <2>4, SlotFacts DEF Awaited
<1> QED
  BY <1>4, <1>5

LEMMA AwaitedStep ==
  ASSUME TypeOK, TypeOK', Tidy, DownIsEmpty, Awaited, [Next]_vars
  PROVE  Awaited'
<1>1. CASE UNCHANGED vars
  BY <1>1 DEF vars, taskVars, lifeVars, reqVars, Awaited, Alive
<1>2. CASE SweepStep \/ \E t \in Tasks : TaskStep(t) \/ Acquire(t) \/ SearchRow(t)
  <2>1. /\ life' = life /\ hpc' = hpc
        /\ \A u \in Tasks : Alive(u)' => Alive(u) /\ cancelled'[u] = cancelled[u]
        /\ \A u \in Tasks, h \in Handlers : hwait[h] = u /\ Alive(u) => hwait'[h] = u
        /\ \A h \in Handlers : hwait'[h] \in {hwait[h], NoTask}
    BY <1>2, TasksGoOn
  <2> QED
    BY <2>1, SlotFacts DEF Awaited
<1>3. ASSUME NEW h \in Handlers, RequestStep(h) PROVE Awaited'
  BY <1>3, AwaitedRequest
<1>4. ASSUME NEW h \in Handlers, NEW i \in Instances,
             Create(h, i) \/ \E k \in Requests : Arrive(h, i, k)
      PROVE  Awaited'
  <2>1. UNCHANGED <<pc, cancelled, life, hwait>> /\ hpc[h] = "idle"
    BY <1>4, ArriveShape
  <2>2. \A g \in Handlers : g # h => hpc'[g] = hpc[g]
    BY <1>4 DEF Create, Arrive, TypeOK
  <2> QED
    BY <2>1, <2>2 DEF Awaited, Alive, StopPoints
<1>5. CASE Boot
  <2>1. UNCHANGED <<cancelled, reqVars>> /\ \A t \in Tasks : pc[t] = "free"
    BY <1>5, BootShape
  <2> QED
    BY <2>1, SlotFacts DEF Awaited, Tidy, reqVars
<1>6. CASE StopStep \/ \E kind \in StopKinds : StopBegin(kind)
  BY <1>6 DEF StopStep, StopPrimes, StopTasks, StopEnd, StopBegin, reqVars, Awaited
<1>7. CASE ProcessEnds
  BY <1>7 DEF ProcessEnds, Awaited
<1> QED
  BY <1>1, <1>2, <1>3, <1>4, <1>5, <1>6, <1>7 DEF Next

\* The invariants that hold whatever requests race.
RInv == IInv /\ Tidy /\ Awaited

LEMMA InitRInv == Init => RInv
<1>1. Init => IInv
  BY InitIInv
<1>2. Init => Tidy /\ Awaited
  BY DEF Init, Tidy, Awaited, Alive
<1> QED
  BY <1>1, <1>2 DEF RInv

LEMMA RInvStep == RInv /\ [Next]_vars => RInv'
<1> SUFFICES ASSUME RInv, [Next]_vars PROVE RInv'
  OBVIOUS
<1>1. IInv'
  BY IInvStep DEF RInv
<1>2. TypeOK /\ TypeOK' /\ Registered /\ DownIsEmpty /\ Tidy /\ Awaited
  BY <1>1 DEF RInv, IInv
<1> QED
  BY <1>1, <1>2, TidyStep, AwaitedStep DEF RInv

\* How far stop() has come: which tasks may be left, and that stop() holds every
\* one of them.
Winding ==
  /\ ~resetting
  /\ life # "up" => \A h \in Handlers : hpc[h] = "idle"
  /\ life \in {"up", "stopSweep"} => \A p \in Primes : Alive(p) => p \in primes
  /\ life \in {"stopSweep", "stopPrimes"} => \A t \in Loops \cup Manuals : Alive(t) => ~cancelled[t]
  /\ life = "stopPrimes" => \A p \in Primes : Alive(p) => p \in doomed
  /\ life \in {"stopPrimes", "stopWait", "stopped"} => pc[Sweep] = "free"
  /\ life = "stopWait" => \A t \in Tasks : Alive(t) => t \in doomed
  /\ life = "stopped" => \A t \in Tasks : ~Alive(t)

LEMMA WindingRequest ==
  ASSUME TypeOK, Tidy, Winding,
         \E h \in Handlers :
           RequestStep(h) \/ \E i \in Instances : Create(h, i) \/ \E k \in Requests : Arrive(h, i, k)
  PROVE  Winding'
<1>0. \A p \in Primes : p \in Tasks /\ p \notin Loops /\ p \notin Manuals
  BY SlotFacts
<1>1. life = "up" /\ life' = life /\ resetting' = resetting
  BY RequestWaits, ArriveShape DEF Winding
<1>2. CASE \E h \in Handlers : ReconcileStart(h)
  <2>1. PICK h \in Handlers : ReconcileStart(h)
    BY <1>2
  <2>2. StartInstanceTask(hinst[h]) /\ hinst[h] \in Instances
    BY <2>1 DEF ReconcileStart, TypeOK
  <2>3. \/ pc' = pc /\ primes' = primes
        \/ \E t \in Loops, p \in Primes :
             primes' = primes \cup {p} /\ pc' = [pc EXCEPT ![t] = "grace", ![p] = "wait"]
    BY <2>2, StartShape
  <2>4. ASSUME NEW p \in Primes, Alive(p)' PROVE p \in primes'
    BY <1>0, <1>1, <2>3, <2>4 DEF Winding, Alive, TypeOK
  <2> QED
    BY <1>1, <2>4 DEF Winding
<1>3. CASE ~\E h \in Handlers : ReconcileStart(h)
  <2>1. primes' = primes /\ \A p \in Primes : pc'[p] = pc[p]
    <3>1. CASE \E h \in Handlers : PlainRequest(h)
      BY <3>1, PlainShape
    <3>2. CASE \E h \in Handlers : StopLoop(h) \/ StopManual(h)
      BY <3>2, StopShape
    <3>3. CASE \E h \in Handlers : RunNow(h)
      BY <1>0, <3>3, RunNowShape DEF TypeOK
    <3>4. CASE \E h \in Handlers, i \in Instances : Create(h, i) \/ \E k \in Requests : Arrive(h, i, k)
      BY <3>4, ArriveShape
    <3> QED
      BY <1>3, <3>1, <3>2, <3>3, <3>4 DEF RequestStep, PlainRequest
  <2> QED
    BY <1>1, <2>1 DEF Winding, Alive
<1> QED
  BY <1>2, <1>3

\* What stop() has not cancelled yet is registered, so that it finds everything.
LEMMA WindingStop ==
  ASSUME SlowUnwind = FALSE, StopKinds \subseteq {"exit"},
         TypeOK, Registered, Awaited, Winding,
         StopStep \/ \E kind \in StopKinds : StopBegin(kind)
  PROVE  Winding'
<1>0. \A t \in Tasks : t \in Loops \/ t \in Manuals \/ t \in Primes \/ t = Sweep
  BY DEF Tasks
<1>1. ASSUME NEW kind \in StopKinds, StopBegin(kind) PROVE Winding'
  <2>1. /\ life = "up" /\ life' = "stopSweep" /\ ~resetting' /\ UNCHANGED <<pc, primes, hpc>>
        /\ \A h \in Handlers : hpc[h] = "idle"
    BY <1>1 DEF StopBegin, reqVars
  <2>2. \A h \in Handlers : hwait[h] = NoTask
    BY <2>1 DEF Awaited, StopPoints
  <2>3. \A t \in Loops \cup Manuals : t \in Tasks /\ t # NoTask /\ t # Sweep
    BY SlotFacts
  <2>4. \A t \in Loops \cup Manuals : Alive(t) => ~cancelled[t]
    BY <2>1, <2>2, <2>3 DEF Awaited
  <2>5. \A t \in Loops \cup Manuals : cancelled'[t] = cancelled[t]
    BY <1>1, <2>3 DEF StopBegin, CancelAll, TypeOK
  <2> QED
    BY <2>1, <2>4, <2>5 DEF Winding, Alive
<1>2. CASE StopPrimes
  <2>1. /\ life = "stopSweep" /\ life' = "stopPrimes" /\ UNCHANGED <<pc, resetting, hpc>>
        /\ doomed' = primes /\ pc[Sweep] = "free" /\ CancelAll(primes)
    BY <1>2 DEF StopPrimes, reqVars
  <2>2. \A t \in Loops \cup Manuals : t \in Tasks /\ t \notin primes
    BY SlotFacts DEF TypeOK
  <2>3. \A t \in Loops \cup Manuals : cancelled'[t] = cancelled[t]
    BY <2>1, <2>2 DEF CancelAll, TypeOK
  <2> QED
    BY <2>1, <2>3 DEF Winding, Alive
<1>3. CASE StopTasks
  <2> DEFINE all == ({sched[i] : i \in Instances} \cup {manual[i] : i \in Instances}) \ {NoTask}
  <2>1. /\ life = "stopPrimes" /\ doomed = {} /\ doomed' = all /\ UNCHANGED <<pc, resetting, hpc>>
        /\ life' = IF all = {} THEN "stopped" ELSE "stopWait"
    BY <1>3 DEF StopTasks, reqVars
  <2>2. ASSUME NEW t \in Tasks, Alive(t) PROVE t \in all
    <3>1. t \in Loops \cup Manuals
      BY <1>0, <2>1, <2>2 DEF Winding, Alive
    <3>2. Running(t) /\ t # NoTask /\ inst[t] \in Instances
      BY <2>1, <2>2, <3>1, SlotFacts DEF Winding, Running, TypeOK
    <3> QED
      BY <2>1, <3>1, <3>2 DEF Registered
  <2> HIDE DEF all
  <2>3. pc[Sweep] = "free" /\ ~resetting /\ \A h \in Handlers : hpc[h] = "idle"
    BY <2>1 DEF Winding
  <2>4. \A t \in Tasks : Alive(t)' => t \in doomed'
    BY <2>1, <2>2 DEF Alive
  <2> QED
    BY <2>1, <2>3, <2>4 DEF Winding
<1>4. CASE StopEnd
  BY <1>4 DEF StopEnd, Winding, Alive, taskVars, reqVars
<1> QED
  BY <1>1, <1>2, <1>3, <1>4 DEF StopStep

LEMMA WindingStep ==
  ASSUME SlowUnwind = FALSE, StopKinds \subseteq {"exit"},
         TypeOK, Tidy, Registered, DownIsEmpty, Awaited, Winding, [Next]_vars
  PROVE  Winding'
<1>1. CASE UNCHANGED vars
  BY <1>1 DEF vars, regVars, taskVars, lifeVars, reqVars, Winding, Alive
<1>2. CASE SweepStep \/ \E t \in Tasks : TaskStep(t) \/ Acquire(t) \/ SearchRow(t)
  <2>1. /\ UNCHANGED <<life, resetting, hpc>>
        /\ \A u \in Tasks : Alive(u)' => Alive(u) /\ cancelled'[u] = cancelled[u]
        /\ \A u \in Tasks : Alive(u) /\ u \in doomed => u \in doomed'
        /\ \A u \in Tasks : Alive(u) /\ u \in primes => u \in primes'
    BY <1>2, TasksGoOn
  <2>2. pc[Sweep] = "free" => pc'[Sweep] = "free"
    BY <1>2, TasksGoOn, SlotFacts
  <2> QED
    BY <2>1, <2>2, SlotFacts DEF Winding
<1>3. CASE \E h \in Handlers :
             RequestStep(h) \/ \E i \in Instances : Create(h, i) \/ \E k \in Requests : Arrive(h, i, k)
  BY <1>3, WindingRequest
<1>4. CASE Boot
  <2>1. /\ life' = "up" /\ ~resetting' /\ \A p \in Primes : pc'[p] # "free" => p \in primes'
    BY <1>4, BootShape
  <2> QED
    BY <2>1 DEF Winding, Alive
<1>5. CASE StopStep \/ \E kind \in StopKinds : StopBegin(kind)
  BY <1>5, WindingStop
<1>6. CASE ProcessEnds
  BY <1>6 DEF ProcessEnds, Winding
<1> QED
  BY <1>1, <1>2, <1>3, <1>4, <1>5, <1>6 DEF Next

\* When the process exits with every request finished and every cancelled task ends
\* within the ten seconds stop() gives it, stop() leaves no task behind: every loop
\* and run-now task still running when the registries are read is in them.
THEOREM StopLeavesNothing ==
  ASSUME SlowUnwind = FALSE, StopKinds \subseteq {"exit"}
  PROVE  Spec => []StoppedIsQuiet
<1>1. Init => RInv /\ Winding
  BY InitRInv, SlotFacts DEF Init, Winding, Alive
<1>2. RInv /\ Winding /\ [Next]_vars => RInv' /\ Winding'
  BY RInvStep, WindingStep DEF RInv, IInv
<1>3. Winding => StoppedIsQuiet
  BY DEF Winding, StoppedIsQuiet
<1> QED
  BY <1>1, <1>2, <1>3, PTL DEF Spec

-----------------------------------------------------------------------------
(***************************************************************************)
(* One request at a time: a disabled instance has no task                  *)
(***************************************************************************)
OneRequest == \A g, h \in Handlers : g = h

Quiet(i) == \A t \in Loops \cup Manuals : Alive(t) => inst[t] # i

\* What a request read is still in the table.
Seen == \A h \in Handlers :
  /\ hpc[h] \in {"tgWrite", "tgReread", "upWrite", "rcRead", "rcAct", "rnAct"} => Exists(hinst[h])
  /\ hpc[h] \in {"tgWrite", "upWrite", "rcAct", "rnAct"} => hseen[h] = row[hinst[h]]

\* A request that stops the tasks of an instance waits for the last one there is.
Stops == \A h \in Handlers :
  /\ hpc[h] \in {"stopLoop", "delStopLoop"} =>
       \A t \in Loops : Alive(t) /\ inst[t] = hinst[h] => hwait[h] = t
  /\ hpc[h] \in {"stopManual", "delRow"} =>
       /\ \A t \in Loops : Alive(t) => inst[t] # hinst[h]
       /\ \A t \in Manuals : Alive(t) /\ inst[t] = hinst[h] => hwait[h] = t

\* An instance that is not enabled has no task, or a request is on its way to stop it.
OffQuiet == \A i \in Instances : row[i] # "on" =>
  \/ Quiet(i)
  \/ \E h \in Handlers : /\ hinst[h] = i
                         /\ hpc[h] \in {"tgReread", "rcRead", "rcAct", "stopLoop", "stopManual"}

Disabling == life = "up" => Seen /\ Stops /\ OffQuiet

\* A request that leaves the tasks alone: what matters is where it stands, the row
\* and what it has read.
LEMMA OffPlain ==
  ASSUME OneRequest, TypeOK, life = "up", Seen, Stops, OffQuiet,
         NEW h \in Handlers, PlainRequest(h)
  PROVE  Seen' /\ Stops' /\ OffQuiet'
<1> DEFINE i == hinst[h]
<1>0. /\ i \in Instances /\ UNCHANGED <<pc, inst, hwait>> /\ \A g \in Handlers : g = h
      /\ \A j \in Instances : Quiet(j)' <=> Quiet(j)
  BY PlainShape DEF TypeOK, OneRequest, Quiet, Alive
<1>1. hinst' = hinst
  BY RequestWaits DEF RequestStep, PlainRequest
<1>2. CASE ToggleRead(h) \/ UpdateRead(h) \/ RunNowRead(h)
  <2>1. /\ row' = row /\ hseen'[h] = row[i]
        /\ hpc[h] \in {"tgRead", "upRead", "rnRead"}
        /\ \/ hpc'[h] = "idle"
           \/ Exists(i) /\ hpc'[h] \in {"tgWrite", "upWrite", "rnAct"}
    BY <1>2 DEF ToggleRead, UpdateRead, RunNowRead, HandlerRead, ReqGoto, TypeOK, dbVars
  <2> QED
    BY <1>0, <1>1, <2>1 DEF Seen, Stops, OffQuiet, Exists
<1>3. CASE ToggleWrite(h)
  <2>1. /\ hpc[h] = "tgWrite" /\ hpc'[h] = "tgReread" /\ Exists(i)
        /\ row' = [row EXCEPT ![i] = IF hseen[h] = "on" THEN "off" ELSE "on"]
    BY <1>3 DEF ToggleWrite, SetEnabled, ReqGoto, TypeOK, Seen
  <2> QED
    BY <1>0, <1>1, <2>1 DEF Seen, Stops, OffQuiet, Exists, TypeOK
<1>4. CASE ToggleReread(h)
  <2>1. /\ row' = row /\ hpc[h] = "tgReread" /\ hpc'[h] = "rcRead" /\ Exists(i)
    BY <1>4 DEF ToggleReread, HandlerRead, ReqGoto, TypeOK, dbVars, Seen
  <2> QED
    BY <1>0, <1>1, <2>1 DEF Seen, Stops, OffQuiet, Exists
<1>5. CASE UpdateProbeFails(h)
  <2>1. /\ row' = row /\ hpc[h] = "upWrite" /\ hpc'[h] = "idle"
    BY <1>5 DEF UpdateProbeFails, ReqGoto, TypeOK, dbVars
  <2> QED
    BY <1>0, <1>1, <2>1 DEF Seen, Stops, OffQuiet, Exists
<1>6. CASE UpdateWrite(h)
  <2>1. hpc[h] = "upWrite" /\ hpc'[h] = "idle" /\ row' = row
    BY <1>6 DEF UpdateWrite, SetEnabled, ReqGoto, TypeOK, Seen
  <2> QED
    BY <1>0, <1>1, <2>1 DEF Seen, Stops, OffQuiet, Exists
<1>7. CASE ReconcileRead(h)
  <2>1. /\ row' = row /\ hpc[h] = "rcRead" /\ hpc'[h] = "rcAct" /\ hseen'[h] = row[i]
        /\ Exists(i)
    BY <1>7 DEF ReconcileRead, ReqGoto, TypeOK, dbVars, Seen
  <2> QED
    BY <1>0, <1>1, <2>1 DEF Seen, Stops, OffQuiet, Exists
<1>8. CASE StopReturns(h)
  <2>1. /\ row' = row /\ hpc[h] = "stopManual" /\ hpc'[h] = "idle" /\ hwait[h] = NoTask
    BY <1>8 DEF StopReturns, ReqGoto, TypeOK, dbVars
  <2>2. Quiet(i)
    BY <2>1, SlotFacts DEF Stops, Quiet
  <2> QED
    BY <1>0, <1>1, <2>1, <2>2 DEF Seen, Stops, OffQuiet, Exists
<1>9. CASE DeleteRow(h)
  <2>1. /\ hpc[h] = "delRow" /\ hpc'[h] = "idle" /\ hwait[h] = NoTask
        /\ row' = [row EXCEPT ![i] = IF Exists(i) THEN "deleted" ELSE @]
    BY <1>9 DEF DeleteRow, ReqGoto, TypeOK
  <2>2. Quiet(i)
    BY <2>1, SlotFacts DEF Stops, Quiet
  <2>3. \A j \in Instances : j # i => row'[j] = row[j]
    BY <1>0, <2>1 DEF TypeOK
  <2> QED
    BY <1>0, <1>1, <2>1, <2>2, <2>3 DEF Seen, Stops, OffQuiet
<1> QED
  BY <1>2, <1>3, <1>4, <1>5, <1>6, <1>7, <1>8, <1>9 DEF PlainRequest

\* A task that runs is the registered one, so a stop finds it.
LEMMA StopFinds ==
  ASSUME OneRequest, TypeOK, Registered, Awaited, life = "up", NEW h \in Handlers, hwait[h] = NoTask,
         NEW t \in Loops \cup Manuals, Alive(t)
  PROVE  /\ Running(t) /\ Pending(t)
         /\ t \in Loops => Pruned(sched)[inst[t]] = t
         /\ t \in Manuals => manual[inst[t]] = t
<1>1. t \in Tasks /\ t # NoTask /\ inst[t] \in Instances
  BY SlotFacts DEF TypeOK
<1>2. Running(t)
  BY <1>1 DEF Awaited, OneRequest, Running
<1>3. (t \in Loops => sched[inst[t]] = t) /\ (t \in Manuals => manual[inst[t]] = t)
  BY <1>2 DEF Registered
<1> QED
  BY <1>1, <1>2, <1>3 DEF Pruned, Pending, Alive

LEMMA OffStop ==
  ASSUME OneRequest, TypeOK, Registered, Awaited, life = "up", Seen, Stops, OffQuiet,
         NEW h \in Handlers, StopLoop(h) \/ StopManual(h)
  PROVE  Seen' /\ Stops' /\ OffQuiet'
<1>0. hinst[h] \in Instances /\ \A g \in Handlers : g = h
  BY DEF TypeOK, OneRequest
<1>1. PICK t \in Loops \cup Manuals \cup {NoTask}, p \in StopPoints :
        /\ UNCHANGED <<row, pc, inst, hinst, hseen>> /\ hpc' = [hpc EXCEPT ![h] = p]
        /\ StopLoop(h) => /\ hpc[h] \in {"delStop", "rcAct"} /\ t = Pruned(sched)[hinst[h]]
                          /\ p = IF hpc[h] = "delStop" THEN "delStopLoop" ELSE "stopLoop"
        /\ StopManual(h) => /\ hpc[h] \in {"stopLoop", "delStopLoop"} /\ hwait[h] = NoTask
                            /\ t = manual[hinst[h]]
                            /\ p = IF hpc[h] = "stopLoop" THEN "stopManual" ELSE "delRow"
        /\ IF Pending(t) THEN hwait' = [hwait EXCEPT ![h] = t] ELSE hwait' = hwait
  BY StopShape
<1>2. hwait[h] = NoTask
  BY <1>1 DEF Awaited, StopPoints
<1>3. hpc'[h] = p /\ (Pending(t) => hwait'[h] = t)
  BY <1>1 DEF TypeOK
<1>4. \A j \in Instances : Quiet(j)' <=> Quiet(j)
  BY <1>1 DEF Quiet, Alive
<1>5. CASE StopLoop(h)
  <2>1. (p = "stopLoop" /\ hpc[h] = "rcAct") \/ (p = "delStopLoop" /\ hpc[h] = "delStop")
    BY <1>1, <1>5
  <2>2. ASSUME NEW u \in Loops, Alive(u), inst[u] = hinst[h] PROVE hwait'[h] = u
    <3>1. Pending(u) /\ Pruned(sched)[inst[u]] = u
      BY <1>2, <2>2, StopFinds
    <3> QED
      BY <1>1, <1>3, <1>5, <2>2, <3>1
  <2>3. Stops'
    BY <1>0, <1>1, <1>3, <2>1, <2>2 DEF Stops, Alive
  <2> QED
    BY <1>0, <1>1, <1>3, <1>4, <2>1, <2>3 DEF Seen, OffQuiet
<1>6. CASE StopManual(h)
  <2>1. (p = "stopManual" /\ hpc[h] = "stopLoop") \/ (p = "delRow" /\ hpc[h] = "delStopLoop")
    BY <1>1, <1>6
  <2>2. ASSUME NEW u \in Manuals, Alive(u), inst[u] = hinst[h] PROVE hwait'[h] = u
    <3>1. Pending(u) /\ manual[inst[u]] = u
      BY <1>2, <2>2, StopFinds
    <3> QED
      BY <1>1, <1>3, <1>6, <2>2, <3>1
  <2>3. \A u \in Loops : Alive(u) => inst[u] # hinst[h]
    BY <1>2, <2>1, SlotFacts DEF Stops
  <2>4. Stops'
    BY <1>0, <1>1, <1>3, <2>1, <2>2, <2>3 DEF Stops, Alive
  <2> QED
    BY <1>0, <1>1, <1>3, <1>4, <2>1, <2>4 DEF Seen, OffQuiet
<1> QED
  BY <1>5, <1>6

\* A loop or a run-now task begins only for an instance that is enabled.
LEMMA OffBegin ==
  ASSUME OneRequest, TypeOK, Tidy, life = "up", Seen, Stops, OffQuiet,
         NEW h \in Handlers, ReconcileStart(h) \/ RunNow(h)
  PROVE  Seen' /\ Stops' /\ OffQuiet'
<1>0. hinst[h] \in Instances /\ \A g \in Handlers : g = h
  BY DEF TypeOK, OneRequest
<1>1. /\ UNCHANGED <<row, hinst, hseen>> /\ hpc[h] \in {"rcAct", "rnAct"} /\ hpc'[h] = "idle"
      /\ hseen[h] = row[hinst[h]]
  <2>1. CASE ReconcileStart(h)
    BY <2>1 DEF ReconcileStart, ReqGoto, dbVars, TypeOK, Seen
  <2>2. CASE RunNow(h)
    BY <2>2 DEF RunNow, ReqGoto, dbVars, TypeOK, Seen
  <2> QED
    BY <2>1, <2>2
<1>2. \/ row[hinst[h]] = "on"
      \/ hpc[h] = "rnAct" /\ UNCHANGED <<pc, inst>>
  <2>1. CASE ReconcileStart(h)
    BY <1>1, <2>1 DEF ReconcileStart
  <2>2. CASE RunNow(h)
    <3>1. UNCHANGED <<pc, inst>> \/ hseen[h] = "on"
      BY <2>2, RunNowShape
    <3>2. hpc[h] = "rnAct"
      BY <2>2, RunNowShape
    <3> QED
      BY <1>1, <3>1, <3>2
  <2> QED
    BY <2>1, <2>2
<1>3. ASSUME NEW u \in Loops \cup Manuals, Alive(u)'
      PROVE  \/ Alive(u) /\ inst'[u] = inst[u]
             \/ inst'[u] = hinst[h]
  <2>1. CASE ReconcileStart(h)
    <3>1. StartInstanceTask(hinst[h])
      BY <2>1 DEF ReconcileStart
    <3>2. \/ UNCHANGED <<pc, inst>>
          \/ \E t \in Loops, p \in Primes :
               /\ pc' = [pc EXCEPT ![t] = "grace", ![p] = "wait"]
               /\ inst' = [inst EXCEPT ![t] = hinst[h], ![p] = hinst[h]]
      BY <1>0, <3>1, StartShape
    <3> QED
      BY <1>3, <3>2, SlotFacts DEF Alive, TypeOK
  <2>2. CASE RunNow(h)
    <3>1. \/ UNCHANGED <<pc, inst>>
          \/ \E t \in Manuals : /\ pc' = [pc EXCEPT ![t] = "reading"]
                                /\ inst' = [inst EXCEPT ![t] = hinst[h]]
      BY <2>2, RunNowShape
    <3> QED
      BY <1>3, <3>1, SlotFacts DEF Alive, TypeOK
  <2> QED
    BY <2>1, <2>2
<1>4. ASSUME NEW j \in Instances, row[j] # "on" PROVE Quiet(j)' \/ (hpc[h] = "rcAct" /\ j = hinst[h])
  <2>1. Quiet(j) \/ (hpc[h] = "rcAct" /\ j = hinst[h])
    BY <1>0, <1>1, <1>4 DEF OffQuiet
  <2>2. CASE j # hinst[h]
    BY <1>3, <2>1, <2>2 DEF Quiet
  <2>3. CASE j = hinst[h] /\ hpc[h] = "rnAct"
    BY <1>2, <1>4, <2>1, <2>3 DEF Quiet, Alive
  <2> QED
    BY <1>1, <2>2, <2>3
<1>5. OffQuiet'
  BY <1>1, <1>2, <1>4 DEF OffQuiet
<1> QED
  BY <1>0, <1>1, <1>5 DEF Seen, Stops

LEMMA OffArrive ==
  ASSUME OneRequest, TypeOK, life = "up", Seen, Stops, OffQuiet,
         NEW h \in Handlers, NEW i \in Instances,
         Create(h, i) \/ \E k \in Requests : Arrive(h, i, k)
  PROVE  Seen' /\ Stops' /\ OffQuiet'
<1>0. /\ UNCHANGED <<pc, inst>> /\ hpc[h] = "idle" /\ hinst'[h] = i /\ \A g \in Handlers : g = h
      /\ \A j \in Instances : Quiet(j)' <=> Quiet(j)
  BY ArriveShape DEF Create, Arrive, TypeOK, OneRequest, Quiet, Alive
<1>1. \A j \in Instances : row[j] # "on" => Quiet(j)
  BY <1>0 DEF OffQuiet
<1>2. CASE Create(h, i)
  <2>1. /\ hpc'[h] = "rcRead" /\ row' = [row EXCEPT ![i] = "on"]
    BY <1>2 DEF Create, TypeOK
  <2> QED
    BY <1>0, <1>1, <2>1 DEF Seen, Stops, OffQuiet, Exists, TypeOK
<1>3. ASSUME NEW k \in Requests, Arrive(h, i, k)
      PROVE  Seen' /\ Stops' /\ OffQuiet'
  <2>1. hpc'[h] \in {"tgRead", "upRead", "delStop", "rnRead"} /\ row' = row
    BY <1>3, SwitchesOK DEF Arrive, FirstStep, TypeOK, dbVars
  <2> QED
    BY <1>0, <1>1, <2>1 DEF Seen, Stops, OffQuiet
<1> QED
  BY <1>2, <1>3

LEMMA DisablingStep ==
  ASSUME OneRequest, TypeOK, Tidy, Registered, DownIsEmpty, Awaited, Disabling, [Next]_vars
  PROVE  Disabling'
<1> SUFFICES ASSUME life' = "up" PROVE Seen' /\ Stops' /\ OffQuiet'
  BY DEF Disabling
<1>1. CASE UNCHANGED vars
  BY <1>1 DEF vars, dbVars, taskVars, lifeVars, reqVars, Disabling, Seen, Stops, OffQuiet,
              Quiet, Exists, Alive
<1>2. CASE SweepStep \/ \E t \in Tasks : TaskStep(t) \/ Acquire(t) \/ SearchRow(t)
  <2>1. /\ UNCHANGED <<row, life, hpc, hinst, hseen>>
        /\ \A u \in Tasks : Alive(u)' => Alive(u)
        /\ \A u \in Loops \cup Manuals \cup Primes : inst'[u] = inst[u]
        /\ \A u \in Tasks, h \in Handlers : hwait[h] = u /\ Alive(u) => hwait'[h] = u
    BY <1>2, TasksGoOn
  <2>2. Seen /\ Stops /\ OffQuiet
    BY <2>1 DEF Disabling
  <2>3. \A u \in Loops \cup Manuals : u \in Tasks
    BY SlotFacts
  <2>4. Seen'
    BY <2>1, <2>2 DEF Seen, Exists
  <2>5. Stops'
    BY <2>1, <2>2, <2>3 DEF Stops
  <2>6. \A i \in Instances : Quiet(i) => Quiet(i)'
    BY <2>1, <2>3 DEF Quiet
  <2>7. OffQuiet'
    BY <2>1, <2>2, <2>6 DEF OffQuiet
  <2> QED
    BY <2>4, <2>5, <2>7
<1>3. ASSUME NEW h \in Handlers, RequestStep(h)
      PROVE  Seen' /\ Stops' /\ OffQuiet'
  <2>1. life = "up"
    BY <1>3, RequestWaits
  <2>2. Seen /\ Stops /\ OffQuiet
    BY <2>1 DEF Disabling
  <2>3. PlainRequest(h) \/ (StopLoop(h) \/ StopManual(h)) \/ (ReconcileStart(h) \/ RunNow(h))
    BY <1>3 DEF RequestStep, PlainRequest
  <2> QED
    BY <2>1, <2>2, <2>3, OffPlain, OffStop, OffBegin
<1>4. ASSUME NEW h \in Handlers, NEW i \in Instances,
             Create(h, i) \/ \E k \in Requests : Arrive(h, i, k)
      PROVE  Seen' /\ Stops' /\ OffQuiet'
  <2>1. life = "up"
    BY <1>4, ArriveShape
  <2>2. Seen /\ Stops /\ OffQuiet
    BY <2>1 DEF Disabling
  <2> QED
    BY <1>4, <2>1, <2>2, OffArrive
<1>5. CASE Boot
  <2>1. /\ life = "down" /\ UNCHANGED <<row, hpc>>
        /\ \A t \in Manuals : pc'[t] = "free"
        /\ \A t \in Loops : pc'[t] # "free" => row[inst'[t]] = "on"
    BY <1>5, BootShape DEF reqVars
  <2>2. \A h \in Handlers : hpc'[h] = "idle"
    BY <2>1 DEF DownIsEmpty
  <2>3. \A i \in Instances : row'[i] # "on" => Quiet(i)'
    BY <2>1 DEF Quiet, Alive
  <2> QED
    BY <2>2, <2>3 DEF Seen, Stops, OffQuiet
<1>6. CASE StopStep \/ ProcessEnds \/ \E kind \in StopKinds : StopBegin(kind)
  BY <1>6 DEF StopStep, StopPrimes, StopTasks, StopEnd, StopBegin, ProcessEnds
<1> QED
  BY <1>1, <1>2, <1>3, <1>4, <1>5, <1>6 DEF Next

\* While requests come one at a time, an instance that is disabled or deleted has no
\* loop and no run-now task left once the request has returned, whatever database
\* calls fail and whenever the process is killed, stopped and started again.
THEOREM OneAtATimeDisables ==
  ASSUME OneRequest
  PROVE  Spec => []DisabledHasNone
<1>1. Init => RInv /\ Disabling
  BY InitRInv DEF Init, Disabling
<1>2. RInv /\ Disabling /\ [Next]_vars => RInv' /\ Disabling'
  BY RInvStep, DisablingStep DEF RInv, IInv
<1>3. Disabling => DisabledHasNone
  BY DEF Disabling, DisabledHasNone, Settled, OffQuiet, Quiet
<1> QED
  BY <1>1, <1>2, <1>3, PTL DEF Spec

-----------------------------------------------------------------------------
(***************************************************************************)
(* One request at a time: an enabled instance has its loop                 *)
(***************************************************************************)
HasLoop(i) == \E t \in Loops : Running(t) /\ inst[t] = i /\ pc[t] # "leaving"

\* A loop on its way out has read a row that is still not enabled.
Leaving == \A t \in Loops : Running(t) /\ pc[t] = "leaving" => row[inst[t]] # "on"

\* An enabled instance has its loop, or a request on its way to start one or to
\* delete the instance.
OnLooped == \A i \in Instances : row[i] = "on" =>
  \/ HasLoop(i)
  \/ \E h \in Handlers : /\ hinst[h] = i
                         /\ hpc[h] \in {"tgReread", "rcRead", "rcAct", "delStopLoop", "delRow"}

Enabling == life = "up" => Leaving /\ OnLooped

\* A loop of an enabled instance ends only when it is cancelled.
LEMMA LoopGoesOn ==
  ASSUME DbMayFail = FALSE, TypeOK, NEW t \in Loops, Running(t), row[inst[t]] = "on",
         TaskStep(t) \/ Acquire(t) \/ SearchRow(t), pc[t] # "leaving"
  PROVE  pc'[t] \notin {"free", "done", "leaving"} /\ cancelled' = cancelled
<1>0. t \in Tasks /\ t \notin Manuals /\ t # Sweep
  BY SlotFacts
<1>1. ~Reap(t) /\ ~CancelDelivered(t) /\ ~Leave(t) /\ ~DbFails(t)
  BY DEF Reap, CancelDelivered, Leave, Goto, DbFails, Running, Alive, Exists
<1>2. CASE LoopWake(t) \/ ReadRow(t) \/ Reconnect(t) \/ Acquire(t) \/ SearchRow(t)
  BY <1>0, <1>2 DEF LoopWake, ReadRow, Reconnect, Acquire, SearchRow, Goto, TypeOK
<1>3. CASE CycleOk(t) \/ CycleUnreachable(t) \/ CycleEngineError(t)
  BY <1>0, <1>3 DEF CycleOk, CycleUnreachable, CycleEngineError, EndCycle, AfterLock, TypeOK
<1>4. CASE WriteRow(t)
  BY <1>0, <1>4 DEF WriteRow, Writing, Written, TypeOK
<1>5. CASE PairDone(t) \/ UnreachableDone(t) \/ EngineErrorDone(t)
  BY <1>0, <1>5 DEF PairDone, UnreachableDone, EngineErrorDone, EndCycle, AfterLock, TypeOK
<1> QED
  BY <1>1, <1>2, <1>3, <1>4, <1>5 DEF TaskStep

\* Only a loop that reads a row that is not enabled begins to leave.
LEMMA LeavesWhenOff ==
  ASSUME TypeOK, NEW t \in Loops, TaskStep(t) \/ Acquire(t) \/ SearchRow(t), ~Reap(t),
         pc'[t] = "leaving"
  PROVE  row[inst[t]] # "on"
<1>0. t \in Tasks /\ t \notin Manuals /\ t # Sweep
  BY SlotFacts
<1>1. ~CancelDelivered(t) /\ ~Leave(t) /\ ~LoopWake(t) /\ ~Reconnect(t) /\ ~Acquire(t) /\ ~SearchRow(t)
  BY <1>0 DEF CancelDelivered, Leave, LoopWake, Reconnect, Acquire, SearchRow, Goto, TypeOK
<1>2. ~CycleOk(t) /\ ~CycleUnreachable(t) /\ ~CycleEngineError(t)
  BY <1>0 DEF CycleOk, CycleUnreachable, CycleEngineError, EndCycle, AfterLock, TypeOK
<1>3. ~WriteRow(t)
  BY <1>0 DEF WriteRow, Writing, Written, TypeOK
<1>4. ~DbFails(t)
  BY <1>0 DEF DbFails, TypeOK
<1>5. ~PairDone(t) /\ ~UnreachableDone(t) /\ ~EngineErrorDone(t)
  BY <1>0 DEF PairDone, UnreachableDone, EngineErrorDone, EndCycle, AfterLock, TypeOK
<1>6. CASE ReadRow(t)
  BY <1>0, <1>6 DEF ReadRow, Goto, TypeOK
<1> QED
  BY <1>1, <1>2, <1>3, <1>4, <1>5, <1>6 DEF TaskStep

LEMMA OnTask ==
  ASSUME DbMayFail = FALSE, TypeOK, Leaving, OnLooped,
         SweepStep \/ \E t \in Tasks : TaskStep(t) \/ Acquire(t) \/ SearchRow(t)
  PROVE  Leaving' /\ OnLooped'
<1>1. UNCHANGED <<row, hpc, hinst>> /\ \A u \in Loops : u \in Tasks /\ u # Sweep /\ inst'[u] = inst[u]
  BY TasksGoOn, SlotFacts
<1>2. ASSUME NEW u \in Loops
      PROVE  /\ Running(u)' /\ pc'[u] = "leaving" => row[inst[u]] # "on"
             /\ Running(u) /\ pc[u] # "leaving" /\ row[inst[u]] = "on"
                  => Running(u)' /\ pc'[u] # "leaving"
  <2>0. u \in Tasks /\ u # Sweep /\ inst'[u] = inst[u]
    BY <1>1
  <2>1. CASE SweepStep
    <3>1. PICK p \in PCs : pc' = [pc EXCEPT ![Sweep] = p]
      BY <2>1, SweepShape
    <3>2. pc'[u] = pc[u] /\ cancelled' = cancelled
      BY <2>0, <2>1, <3>1, SweepShape DEF TypeOK
    <3> QED
      BY <1>1, <3>2 DEF Running, Alive, Leaving
  <2>2. ASSUME NEW t \in Tasks, TaskStep(t) \/ Acquire(t) \/ SearchRow(t), t # u
        PROVE  pc'[u] = pc[u] /\ cancelled'[u] = cancelled[u]
    <3>1. CASE Reap(t)
      BY <2>0, <2>2, <3>1 DEF Reap, TypeOK
    <3>2. CASE ~Reap(t)
      BY <2>0, <2>2, <3>2, TaskShape DEF TypeOK
    <3> QED
      BY <3>1, <3>2
  <2>3. CASE TaskStep(u) \/ Acquire(u) \/ SearchRow(u)
    <3>1. Running(u)' /\ pc'[u] = "leaving" => row[inst[u]] # "on"
      <4>1. Reap(u) => pc'[u] = "free"
        BY <2>0 DEF Reap, TypeOK
      <4> QED
        BY <2>3, <4>1, LeavesWhenOff
    <3>2. Running(u) /\ pc[u] # "leaving" /\ row[inst[u]] = "on"
            => Running(u)' /\ pc'[u] # "leaving"
      BY <2>3, LoopGoesOn DEF Running, Alive
    <3> QED
      BY <3>1, <3>2
  <2>4. CASE pc'[u] = pc[u] /\ cancelled'[u] = cancelled[u]
    BY <2>4 DEF Running, Alive, Leaving
  <2> QED
    BY <2>1, <2>2, <2>3, <2>4
<1>3. Leaving'
  BY <1>1, <1>2 DEF Leaving
<1>4. \A i \in Instances : row[i] = "on" /\ HasLoop(i) => HasLoop(i)'
  BY <1>1, <1>2 DEF HasLoop
<1> QED
  BY <1>1, <1>3, <1>4 DEF OnLooped

LEMMA OnPlain ==
  ASSUME OneRequest, TypeOK, Seen, OffQuiet, Leaving, OnLooped,
         NEW h \in Handlers, PlainRequest(h)
  PROVE  Leaving' /\ OnLooped'
<1> DEFINE i == hinst[h]
           way == {"tgReread", "rcRead", "rcAct", "delStopLoop", "delRow"}
<1>0. /\ i \in Instances /\ UNCHANGED <<pc, inst, cancelled>> /\ \A g \in Handlers : g = h
      /\ \A j \in Instances : HasLoop(j)' <=> HasLoop(j)
  BY PlainShape DEF TypeOK, OneRequest, HasLoop, Running, Alive
<1>1. hinst' = hinst
  BY RequestWaits DEF RequestStep, PlainRequest
\* A row that does not change: the request stays on its way, or was not on one.
<1>2. ASSUME row' = row, hpc[h] \in way => Exists(i) /\ hpc'[h] \in way
      PROVE  Leaving' /\ OnLooped'
  <2>1. Leaving'
    BY <1>0, <1>2 DEF Leaving, Running, Alive
  <2> QED
    BY <1>0, <1>1, <1>2, <2>1 DEF OnLooped
<1>3. CASE ToggleRead(h) \/ UpdateRead(h) \/ RunNowRead(h) \/ ToggleReread(h) \/ ReconcileRead(h)
           \/ UpdateProbeFails(h) \/ StopReturns(h) \/ UpdateWrite(h)
  <2>1. row' = row
    BY <1>3 DEF ToggleRead, UpdateRead, RunNowRead, ToggleReread, ReconcileRead, UpdateProbeFails,
                StopReturns, UpdateWrite, HandlerRead, SetEnabled, ReqGoto, dbVars, Seen, TypeOK
  <2>2. hpc[h] \in way => Exists(i) /\ hpc'[h] \in way
    BY <1>3 DEF ToggleRead, UpdateRead, RunNowRead, ToggleReread, ReconcileRead, UpdateProbeFails,
                StopReturns, UpdateWrite, HandlerRead, SetEnabled, ReqGoto, Seen, TypeOK
  <2> QED
    BY <1>2, <2>1, <2>2
<1>4. CASE ToggleWrite(h)
  <2>1. /\ hpc[h] = "tgWrite" /\ hpc'[h] = "tgReread"
        /\ \A j \in Instances : j # i => row'[j] = row[j]
    BY <1>0, <1>4 DEF ToggleWrite, SetEnabled, ReqGoto, TypeOK
  <2>2. row[i] = "on" => row'[i] # "on"
    BY <1>0, <1>4, <2>1 DEF ToggleWrite, SetEnabled, TypeOK, Seen
  <2>3. row[i] # "on" => Quiet(i)
    BY <1>0, <2>1 DEF OffQuiet
  <2>4. ASSUME NEW t \in Loops, Running(t)', pc'[t] = "leaving" PROVE row'[inst'[t]] # "on"
    <3>1. Running(t) /\ inst[t] \in Instances /\ row[inst[t]] # "on"
      BY <1>0, <2>4, SlotFacts DEF Leaving, Running, Alive, TypeOK
    <3>2. inst[t] # i
      BY <2>3, <3>1 DEF Quiet, Running
    <3> QED
      BY <1>0, <2>1, <3>1, <3>2
  <2> QED
    BY <1>0, <1>1, <2>1, <2>4 DEF Leaving, OnLooped
<1>5. CASE DeleteRow(h)
  <2>1. /\ hpc[h] = "delRow" /\ row'[i] # "on" /\ \A j \in Instances : j # i => row'[j] = row[j]
    BY <1>0, <1>5 DEF DeleteRow, ReqGoto, TypeOK, Exists
  <2>2. \A t \in Loops : inst[t] \in Instances
    BY SlotFacts DEF TypeOK
  <2>3. Leaving'
    BY <1>0, <2>1, <2>2 DEF Leaving, Running, Alive
  <2> QED
    BY <1>0, <1>1, <2>1, <2>3 DEF OnLooped
<1> QED
  BY <1>3, <1>4, <1>5 DEF PlainRequest

LEMMA OnStop ==
  ASSUME OneRequest, TypeOK, Tidy, Seen, Leaving, OnLooped,
         NEW h \in Handlers, StopLoop(h) \/ StopManual(h)
  PROVE  Leaving' /\ OnLooped'
<1>0. hinst[h] \in Instances /\ \A g \in Handlers : g = h
  BY DEF TypeOK, OneRequest
<1>1. PICK t \in Loops \cup Manuals \cup {NoTask}, p \in StopPoints :
        /\ UNCHANGED <<row, pc, inst, hinst, hseen>> /\ hpc' = [hpc EXCEPT ![h] = p]
        /\ StopLoop(h) => /\ hpc[h] \in {"delStop", "rcAct"} /\ t = Pruned(sched)[hinst[h]]
                          /\ p = IF hpc[h] = "delStop" THEN "delStopLoop" ELSE "stopLoop"
        /\ StopManual(h) => /\ hpc[h] \in {"stopLoop", "delStopLoop"} /\ hwait[h] = NoTask
                            /\ t = manual[hinst[h]]
                            /\ p = IF hpc[h] = "stopLoop" THEN "stopManual" ELSE "delRow"
        /\ cancelled' = cancelled \/ cancelled' = [cancelled EXCEPT ![t] = TRUE]
  BY StopShape
<1>2. hpc'[h] = p
  BY <1>1 DEF TypeOK
<1>3. \A u \in Loops : u \in Tasks /\ (Running(u)' => Running(u))
  BY <1>1, SlotFacts DEF Running, Alive, TypeOK
<1>4. Leaving'
  BY <1>1, <1>3 DEF Leaving
\* A loop that is cancelled is the one of the instance the request is about.
<1>5. ASSUME NEW u \in Loops, Running(u), ~Running(u)'
      PROVE  StopLoop(h) /\ inst[u] = hinst[h]
  <2>1. u = t
    BY <1>1, <1>3, <1>5 DEF Running, Alive, TypeOK
  <2>2. StopLoop(h)
    <3>1. manual[hinst[h]] \in Manuals \cup {NoTask}
      BY <1>0 DEF TypeOK
    <3> QED
      BY <1>1, <2>1, <3>1, SlotFacts
  <2>3. t = sched[hinst[h]] /\ t # NoTask
    BY <1>0, <1>1, <2>1, <2>2, PrunedIs, SlotFacts
  <2> QED
    BY <1>0, <2>1, <2>2, <2>3 DEF Tidy
<1>6. ASSUME NEW j \in Instances, row[j] = "on", HasLoop(j)
      PROVE  HasLoop(j)' \/ (j = hinst[h] /\ hpc'[h] = "delStopLoop")
  <2>1. PICK u \in Loops : Running(u) /\ inst[u] = j /\ pc[u] # "leaving"
    BY <1>6 DEF HasLoop
  <2>2. CASE Running(u)'
    BY <1>1, <2>1, <2>2 DEF HasLoop
  <2>3. CASE ~Running(u)'
    <3>1. StopLoop(h) /\ j = hinst[h]
      BY <1>5, <2>1, <2>3
    <3>2. hpc[h] # "rcAct"
      BY <1>6, <3>1 DEF StopLoop, Seen
    <3> QED
      BY <1>1, <1>2, <3>1, <3>2
  <2> QED
    BY <2>2, <2>3
<1>7. OnLooped'
  <2>1. SUFFICES ASSUME NEW j \in Instances, row[j] = "on"
                 PROVE  HasLoop(j)' \/ (j = hinst[h] /\ hpc'[h] \in {"delStopLoop", "delRow"})
    BY <1>1 DEF OnLooped
  <2>2. CASE HasLoop(j)
    BY <1>6, <2>1, <2>2
  <2>3. CASE ~HasLoop(j)
    <3>1. j = hinst[h] /\ hpc[h] \in {"rcAct", "delStopLoop", "delRow", "tgReread", "rcRead"}
      BY <1>0, <2>1, <2>3 DEF OnLooped
    <3>2. hpc[h] = "rcAct" => ~StopLoop(h)
      BY <2>1, <3>1 DEF StopLoop, Seen
    <3> QED
      BY <1>1, <1>2, <3>1, <3>2
  <2> QED
    BY <2>2, <2>3
<1> QED
  BY <1>4, <1>7

LEMMA OnBegin ==
  ASSUME OneRequest, TypeOK, Tidy, Awaited, life = "up", Seen, Leaving, OnLooped,
         NEW h \in Handlers, ReconcileStart(h) \/ RunNow(h)
  PROVE  Leaving' /\ OnLooped'
<1>0. hinst[h] \in Instances /\ \A g \in Handlers : g = h
  BY DEF TypeOK, OneRequest
<1>1. CASE RunNow(h)
  <2>1. /\ UNCHANGED <<row, cancelled, hinst>> /\ hpc[h] = "rnAct"
    BY <1>1, RunNowShape
  <2>2. \A u \in Loops : pc'[u] = pc[u] /\ inst'[u] = inst[u]
    BY <1>1, RunNowShape, SlotFacts DEF TypeOK
  <2>3. Leaving' /\ \A j \in Instances : HasLoop(j) => HasLoop(j)'
    BY <2>1, <2>2 DEF Leaving, HasLoop, Running, Alive
  <2> QED
    BY <1>0, <2>1, <2>3 DEF OnLooped
<1>2. CASE ReconcileStart(h)
  <2>1. /\ UNCHANGED <<row, cancelled, hinst>> /\ hpc[h] = "rcAct" /\ hseen[h] = "on"
        /\ StartInstanceTask(hinst[h]) /\ row[hinst[h]] = "on"
    BY <1>2 DEF ReconcileStart, ReqGoto, dbVars, Seen
  <2>2. hwait[h] = NoTask
    BY <2>1 DEF Awaited, StopPoints
  <2>3. CASE UNCHANGED <<pc, inst>> /\ \E t \in Loops : Alive(t) /\ inst[t] = hinst[h]
    <3>1. PICK t \in Loops : Alive(t) /\ inst[t] = hinst[h]
      BY <2>3
    <3>2. t \in Tasks /\ t # NoTask
      BY SlotFacts
    <3>3. Running(t)
      BY <1>0, <2>2, <3>1, <3>2 DEF Awaited, Running
    <3>4. pc[t] # "leaving"
      BY <2>1, <3>1, <3>3 DEF Leaving
    <3>5. Leaving' /\ \A j \in Instances : HasLoop(j) => HasLoop(j)'
      BY <2>1, <2>3 DEF Leaving, HasLoop, Running, Alive
    <3>6. HasLoop(hinst[h])'
      BY <2>1, <2>3, <3>1, <3>3, <3>4 DEF HasLoop, Running, Alive
    <3> QED
      BY <1>0, <2>1, <3>5, <3>6 DEF OnLooped
  <2>4. ASSUME NEW t \in Loops, NEW p \in Primes, pc[t] = "free", pc[p] = "free",
               pc' = [pc EXCEPT ![t] = "grace", ![p] = "wait"],
               inst' = [inst EXCEPT ![t] = hinst[h], ![p] = hinst[h]]
        PROVE  Leaving' /\ OnLooped'
    <3>1. /\ pc'[t] = "grace" /\ inst'[t] = hinst[h] /\ ~cancelled'[t]
          /\ \A u \in Loops : u # t => pc'[u] = pc[u] /\ inst'[u] = inst[u]
      BY <2>1, <2>4, SlotFacts DEF TypeOK, Tidy
    <3>2. Leaving'
      BY <2>1, <3>1 DEF Leaving, Running, Alive
    <3>3. HasLoop(hinst[h])'
      BY <2>1, <3>1 DEF HasLoop, Running, Alive
    <3>4. \A j \in Instances : HasLoop(j) => HasLoop(j)'
      BY <2>1, <2>4, <3>1 DEF HasLoop, Running, Alive
    <3> QED
      BY <1>0, <2>1, <3>2, <3>3, <3>4 DEF OnLooped
  <2> QED
    BY <1>0, <2>1, <2>3, <2>4, StartShape
<1> QED
  BY <1>1, <1>2

LEMMA OnArrive ==
  ASSUME OneRequest, TypeOK, OffQuiet, Leaving, OnLooped,
         NEW h \in Handlers, NEW i \in Instances,
         Create(h, i) \/ \E k \in Requests : Arrive(h, i, k)
  PROVE  Leaving' /\ OnLooped'
<1>0. /\ UNCHANGED <<pc, inst, cancelled>> /\ hpc[h] = "idle" /\ hinst'[h] = i
      /\ \A g \in Handlers : g = h
      /\ \A j \in Instances : HasLoop(j)' <=> HasLoop(j)
  <2>1. UNCHANGED <<pc, inst, cancelled>> /\ hpc[h] = "idle"
    BY ArriveShape
  <2>2. hinst'[h] = i
    BY DEF Create, Arrive, TypeOK
  <2>3. \A g \in Handlers : g = h
    BY DEF OneRequest
  <2>4. \A j \in Instances : HasLoop(j)' <=> HasLoop(j)
    BY <2>1 DEF HasLoop, Running, Alive
  <2> QED
    BY <2>1, <2>2, <2>3, <2>4
<1>1. \A j \in Instances : row[j] = "on" => HasLoop(j)
  BY <1>0 DEF OnLooped
<1>2. row' = row \/ (row[i] # "on" /\ row' = [row EXCEPT ![i] = "on"] /\ hpc'[h] = "rcRead")
  BY DEF Create, Arrive, TypeOK, dbVars
<1>3. row[i] # "on" => Quiet(i)
  BY <1>0 DEF OffQuiet
<1>4. ASSUME NEW t \in Loops, Running(t)', pc'[t] = "leaving" PROVE row'[inst'[t]] # "on"
  <2>1. Running(t) /\ inst[t] \in Instances /\ row[inst[t]] # "on"
    BY <1>0, <1>4, SlotFacts DEF Leaving, Running, Alive, TypeOK
  <2>2. row[i] # "on" => inst[t] # i
    BY <1>3, <2>1 DEF Quiet, Running
  <2> QED
    BY <1>0, <1>2, <2>1, <2>2 DEF TypeOK
<1>5. OnLooped'
  BY <1>0, <1>1, <1>2 DEF OnLooped, TypeOK
<1> QED
  BY <1>4, <1>5 DEF Leaving

LEMMA EnablingStep ==
  ASSUME OneRequest, DbMayFail = FALSE, TypeOK, Tidy, DownIsEmpty, Awaited, Disabling, Enabling,
         [Next]_vars
  PROVE  Enabling'
<1> SUFFICES ASSUME life' = "up" PROVE Leaving' /\ OnLooped'
  BY DEF Enabling
<1>1. CASE UNCHANGED vars
  BY <1>1 DEF vars, dbVars, taskVars, lifeVars, reqVars, Enabling, Leaving, OnLooped, HasLoop,
              Running, Alive
<1>2. CASE SweepStep \/ \E t \in Tasks : TaskStep(t) \/ Acquire(t) \/ SearchRow(t)
  <2>1. life = "up"
    BY <1>2, TasksGoOn
  <2> QED
    BY <1>2, <2>1, OnTask DEF Enabling
<1>3. ASSUME NEW h \in Handlers, RequestStep(h)
      PROVE  Leaving' /\ OnLooped'
  <2>1. life = "up"
    BY <1>3, RequestWaits
  <2>2. Seen /\ OffQuiet /\ Leaving /\ OnLooped
    BY <2>1 DEF Disabling, Enabling
  <2>3. PlainRequest(h) \/ (StopLoop(h) \/ StopManual(h)) \/ (ReconcileStart(h) \/ RunNow(h))
    BY <1>3 DEF RequestStep, PlainRequest
  <2> QED
    BY <2>1, <2>2, <2>3, OnPlain, OnStop, OnBegin
<1>4. ASSUME NEW h \in Handlers, NEW i \in Instances,
             Create(h, i) \/ \E k \in Requests : Arrive(h, i, k)
      PROVE  Leaving' /\ OnLooped'
  <2>1. life = "up"
    BY <1>4, ArriveShape
  <2>2. OffQuiet /\ Leaving /\ OnLooped
    BY <2>1 DEF Disabling, Enabling
  <2> QED
    BY <1>4, <2>2, OnArrive
<1>5. CASE Boot
  <2>1. /\ UNCHANGED <<row, cancelled>> /\ \A t \in Tasks : pc[t] = "free"
        /\ \A t \in Loops : pc'[t] # "free" => row[inst'[t]] = "on" /\ pc'[t] = "grace"
        /\ \A i \in Instances : row[i] = "on" =>
             sched'[i] \in Loops /\ pc'[sched'[i]] = "grace" /\ inst'[sched'[i]] = i
    BY <1>5, BootShape
  <2>2. \A t \in Loops : t \in Tasks /\ ~cancelled[t]
    BY <2>1, SlotFacts DEF Tidy
  <2>3. Leaving'
    BY <2>1 DEF Leaving, Running, Alive
  <2>4. \A i \in Instances : row[i] = "on" => HasLoop(i)'
    BY <2>1, <2>2 DEF HasLoop, Running, Alive
  <2> QED
    BY <2>1, <2>3, <2>4 DEF OnLooped
<1>6. CASE StopStep \/ ProcessEnds \/ \E kind \in StopKinds : StopBegin(kind)
  BY <1>6 DEF StopStep, StopPrimes, StopTasks, StopEnd, StopBegin, ProcessEnds
<1> QED
  BY <1>1, <1>2, <1>3, <1>4, <1>5, <1>6 DEF Next

\* While requests come one at a time and no database call raises, every enabled
\* instance has a loop nobody has cancelled once the request has returned, after any
\* number of stops, kills and starts.
THEOREM OneAtATimeEnables ==
  ASSUME OneRequest, DbMayFail = FALSE
  PROVE  Spec => []EnabledHasLoop
<1>1. Init => RInv /\ Disabling /\ Enabling
  BY InitRInv DEF Init, Disabling, Enabling
<1>2. RInv /\ Disabling /\ Enabling /\ [Next]_vars => RInv' /\ Disabling' /\ Enabling'
  BY RInvStep, DisablingStep, EnablingStep DEF RInv, IInv
<1>3. Enabling => EnabledHasLoop
  BY DEF Enabling, EnabledHasLoop, Settled, OnLooped, HasLoop
<1> QED
  BY <1>1, <1>2, <1>3, PTL DEF Spec

-----------------------------------------------------------------------------
(***************************************************************************)
(* Who remembers an outage.  The code keeps its promises about error rows  *)
(* and recovery rows as long as nobody cancels a task or deletes a row.    *)
(***************************************************************************)
\* Requests that cancel nothing and delete nothing, and a process that is only killed.
OnlyAdds == Requests \subseteq {"create", "update", "runNow"} /\ StopKinds = {}

Adding == {"idle", "upRead", "upWrite", "rcRead", "rcAct", "rnRead", "rnAct"}

\* What they do not disturb: nobody is cancelled, and what has a loop stays enabled.
Undisturbed ==
  /\ life \in {"down", "up"} /\ \A t \in Tasks : ~cancelled[t]
  /\ \A h \in Handlers :
       /\ hpc[h] \in Adding
       /\ hpc[h] = "upWrite" => hseen[h] = row[hinst[h]] /\ Exists(hinst[h])
       /\ hpc[h] \in {"rcRead", "rcAct"} => row[hinst[h]] = "on"
       /\ hpc[h] = "rcAct" => hseen[h] = "on"
  /\ \A t \in Loops : Alive(t) => row[inst[t]] = "on"
  /\ life = "down" => \A t \in Loops : ~inRetry[t]

\* The rows of an outage are written by loops, those of a run-now by its task.
OwnRows ==
  /\ \A t \in Loops : pc[t] \notin {"leaving", "listing", "next", "unrWrite", "unrWritten"}
  /\ \A t \in Tasks \ Loops : pc[t] \notin {"errWrite", "errWritten", "infoWrite", "infoWritten"}

\* The run-now flag stands for an error row nobody has answered, but for the moment
\* between the answer and the flag's fall.
Flagged ==
  /\ \A i \in manualErrorOpen :
       <<i, "flag">> \in owed \/ \E t \in Tasks : pc[t] = "paired" /\ inst[t] = i
  /\ \A t \in Tasks : pc[t] \in {"pair", "unrWritten"} => <<inst[t], "flag">> \in owed

\* A loop in its retry streak has an error row nobody has answered.
Streak ==
  \A t \in Loops : Alive(t) =>
    /\ pc[t] = "errWritten" \/ (inRetry[t] /\ pc[t] # "infoWritten") => <<inst[t], "loop">> \in owed
    /\ pc[t] \in {"infoWrite", "infoWritten"} => inRetry[t]
    /\ pc[t] \in {"errWrite", "errWritten"} => ~inRetry[t]

\* What a loop has reported last was no outage.
EngineShown == \A t \in Loops : pc[t] = "engWritten" => newest[inst[t]] # "unreachable"

Remembered == Undisturbed /\ OwnRows /\ Flagged /\ Streak /\ EngineShown

\* As long as nothing else has failed, a "Could not reach" row that is the newest, or
\* that nobody has answered, has somebody who remembers it.
Remembers(t, i) ==
  Alive(t) /\ inst[t] = i /\ (pc[t] = "errWritten" \/ (inRetry[t] /\ pc[t] # "infoWritten"))
InStreak(i) == \E t \in Loops : Remembers(t, i)
Answerable ==
  /\ \A i \in Instances : newest[i] = "unreachable" =>
       i \in manualErrorOpen \/ InStreak(i) \/ \E t \in Tasks : pc[t] = "unrWritten" /\ inst[t] = i
  /\ \A t \in Tasks : pc[t] = "paired" /\ newest[inst[t]] = "unreachable" => InStreak(inst[t])
  /\ \A i \in Instances : <<i, "loop">> \in owed => InStreak(i)

LEMMA OneLoop ==
  ASSUME IInv, Undisturbed, NEW t \in Loops, NEW u \in Loops, Alive(t), Alive(u), inst[t] = inst[u]
  PROVE  t = u
  BY SlotFacts DEF IInv, Registered, Undisturbed, Running

LEMMA OneInside ==
  ASSUME IInv, NEW t \in Tasks, NEW u \in Tasks, pc[t] \in Critical, pc[u] \in Critical,
         inst[t] = inst[u]
  PROVE  t = u
  BY DEF IInv, Held

\* Places where a row has been written and the task has not yet drawn its conclusion.
Told == {"paired", "unrWritten", "errWritten", "infoWritten"}

\* A step that writes no row and draws no conclusion from one.
Quietly(t, p) ==
  /\ UNCHANGED <<newest, owed, manualErrorOpen, inRetry>>
  /\ pc[t] \notin Told /\ p \notin Told \cup {"engWritten"}
  /\ p = "pair" => inst[t] \in manualErrorOpen /\ pc[t] \in Critical
  /\ p = "infoWrite" => t \in Loops /\ inRetry[t]
  /\ p = "errWrite" => t \in Loops /\ ~inRetry[t]
  /\ t \in Loops => /\ p \notin {"listing", "next", "unrWrite"}
                    /\ p = "leaving" => row[inst[t]] # "on"
                    /\ p = "done" => pc[t] \in Writing \cup {"reading"}

LEMMA AfterLockIs ==
  ASSUME TypeOK, NEW t \in Tasks, NEW failed \in BOOLEAN, NEW p, p = AfterLock(t, failed)
  PROVE  /\ p \in PCs \ {"free"} /\ p \notin Told \cup {"engWritten", "pair"}
         /\ p = "infoWrite" => t \in Loops /\ inRetry[t]
         /\ p = "errWrite" => t \in Loops /\ ~inRetry[t]
         /\ t \in Loops => p \in {"sleep", "infoWrite", "errWrite"}
         /\ t \in Loops /\ ~failed => p = IF inRetry[t] THEN "infoWrite" ELSE "sleep"
  BY DEF AfterLock, TypeOK, PCs, Outside, Told

LEMMA QuietTask ==
  ASSUME TypeOK, OwnRows, NEW t \in Tasks, ~cancelled[t],
         \/ LoopWake(t) \/ ReadRow(t) \/ Leave(t) \/ Acquire(t)
         \/ CycleOk(t) \/ CycleUnreachable(t) \/ CycleEngineError(t) \/ EngineErrorDone(t)
         \/ DbFails(t)
  PROVE  \E p \in PCs \ {"free"} : pc' = [pc EXCEPT ![t] = p] /\ Quietly(t, p)
<1> USE SlotFacts
<1>1. CASE LoopWake(t) \/ ReadRow(t) \/ Leave(t) \/ Acquire(t)
  BY <1>1 DEF LoopWake, ReadRow, Leave, Acquire, Goto, OwnRows, Quietly, Told, PCs, Outside, Critical,
              dbVars, regVars
<1>2. CASE CycleOk(t)
  BY <1>2 DEF CycleOk, EndCycle, AfterLock, Quietly, Told, PCs, Outside, Critical, dbVars, regVars,
              TypeOK
<1>3. CASE CycleUnreachable(t)
  BY <1>3 DEF CycleUnreachable, EndCycle, AfterLock, Quietly, Told, PCs, Outside, Critical, dbVars,
              regVars, TypeOK
<1>4. CASE CycleEngineError(t)
  BY <1>4 DEF CycleEngineError, EndCycle, AfterLock, Quietly, Told, PCs, Outside, Critical, dbVars,
              regVars, TypeOK
<1>5. CASE EngineErrorDone(t)
  <2>1. PICK p : p = AfterLock(t, FALSE)
    OBVIOUS
  <2>2. pc' = [pc EXCEPT ![t] = p] /\ UNCHANGED <<newest, owed, manualErrorOpen, inRetry>>
        /\ pc[t] = "engWritten"
    BY <1>5, <2>1 DEF EngineErrorDone, EndCycle, dbVars, regVars
  <2> QED
    BY <2>1, <2>2, AfterLockIs DEF Quietly, Told
<1>6. CASE DbFails(t)
  BY <1>6 DEF DbFails, EndCycle, AfterLock, OwnRows, Quietly, Told, Writing, PCs, Outside, Critical,
              dbVars, regVars, TypeOK
<1> QED
  BY <1>1, <1>2, <1>3, <1>4, <1>5, <1>6

LEMMA QuietKeeps ==
  ASSUME IInv, Remembered, NEW t \in Tasks, Alive(t), NEW p \in PCs \ {"free"},
         pc' = [pc EXCEPT ![t] = p], Quietly(t, p), inst' = inst
  PROVE  /\ OwnRows' /\ Flagged' /\ Streak' /\ EngineShown'
         /\ Answerable /\ ~Fault => Answerable'
<1>0. pc \in [Tasks -> PCs] /\ pc'[t] = p /\ \A u \in Tasks \ {t} : pc'[u] = pc[u]
  BY DEF IInv, TypeOK
<1>1. OwnRows'
  BY <1>0, SlotFacts DEF Remembered, OwnRows, Undisturbed, Quietly, Told
<1>2. Flagged'
  <2>1. \A u \in Tasks : pc'[u] = "paired" <=> pc[u] = "paired"
    BY <1>0 DEF Quietly, Told
  <2>2. ASSUME p = "pair" PROVE <<inst[t], "flag">> \in owed
    <3>1. inst[t] \in manualErrorOpen /\ pc[t] \in Critical /\ pc[t] # "paired"
      BY <2>2 DEF Quietly, Told
    <3>2. \A u \in Tasks : pc[u] = "paired" /\ inst[u] = inst[t] => u = t
      BY <3>1, OneInside DEF Critical
    <3> QED
      BY <3>1, <3>2 DEF Remembered, Flagged
  <2>3. p # "unrWritten"
    BY DEF Quietly, Told
  <2> QED
    BY <1>0, <2>1, <2>2, <2>3 DEF Remembered, Flagged, Quietly
<1>3. Streak'
  <2> SUFFICES ASSUME NEW u \in Loops, Alive(u)'
               PROVE  (/\ pc[u] = "errWritten" \/ (inRetry[u] /\ pc[u] # "infoWritten") => <<inst[u], "loop">> \in owed
                       /\ pc[u] \in {"infoWrite", "infoWritten"} => inRetry[u]
                       /\ pc[u] \in {"errWrite", "errWritten"} => ~inRetry[u])'
    BY DEF Streak
  <2>1. u \in Tasks /\ inRetry' = inRetry /\ owed' = owed
    BY SlotFacts DEF Quietly
  <2>2. CASE u = t
    BY <1>0, <2>1, <2>2 DEF Remembered, Streak, Quietly, Told
  <2>3. CASE u # t
    BY <1>0, <2>1, <2>3 DEF Remembered, Streak, Alive
  <2> QED
    BY <2>2, <2>3
<1>4. EngineShown'
  BY <1>0, SlotFacts DEF Remembered, EngineShown, Quietly
<1>5. ASSUME Answerable, ~Fault PROVE Answerable'
  <2>1. ASSUME NEW i, InStreak(i) PROVE InStreak(i)'
    <3>1. PICK u \in Loops : Remembers(u, i)
      BY <2>1 DEF InStreak
    <3>2. u \in Tasks /\ inRetry' = inRetry
      BY SlotFacts DEF Quietly
    <3>3. CASE u = t
      <4>1. pc[t] \notin Told /\ p \notin Told
        BY DEF Quietly
      <4>2. ~(pc[t] \in Writing /\ p \notin {pc[t], Written[pc[t]]}) /\ ~(pc[t] = "reading" /\ p = "done")
        BY <1>0, <1>5 DEF Fault
      <4>3. pc[t] \in Writing => "done" \notin {pc[t], Written[pc[t]]}
        BY DEF Writing, Written
      <4>4. p # "done"
        BY <3>3, <4>2, <4>3 DEF Quietly
      <4> QED
        BY <1>0, <3>1, <3>2, <3>3, <4>1, <4>4 DEF Remembers, InStreak, Alive, Told
    <3>4. CASE u # t
      BY <1>0, <3>1, <3>2, <3>4 DEF Remembers, InStreak, Alive
    <3> QED
      BY <3>3, <3>4
  <2>2. \A u \in Tasks : /\ pc'[u] = "paired" <=> pc[u] = "paired"
                         /\ pc'[u] = "unrWritten" <=> pc[u] = "unrWritten"
    BY <1>0 DEF Quietly, Told
  <2>3. newest' = newest /\ owed' = owed /\ manualErrorOpen' = manualErrorOpen
    BY DEF Quietly
  <2>4. \A u \in Tasks : inst[u] \in Instances
    BY DEF IInv, TypeOK
  <2> QED
    BY <1>5, <2>1, <2>2, <2>3, <2>4 DEF Answerable
<1> QED
  BY <1>1, <1>2, <1>3, <1>4, <1>5

\* A task that writes or draws a conclusion: what becomes of those who remember.
LEMMA OthersRemember ==
  ASSUME TypeOK, NEW t \in Tasks, NEW p, pc' = [pc EXCEPT ![t] = p], inst' = inst,
         \A u \in Loops \ {t} : inRetry'[u] = inRetry[u], NEW i, InStreak(i),
         t \in Loops /\ Remembers(t, i) => Remembers(t, i)'
  PROVE  InStreak(i)'
<1>1. PICK u \in Loops : Remembers(u, i)
  BY DEF InStreak
<1>2. CASE u = t
  BY <1>1, <1>2 DEF InStreak
<1>3. CASE u # t
  BY <1>1, <1>3, SlotFacts DEF InStreak, Remembers, Alive, TypeOK
<1> QED
  BY <1>2, <1>3

LEMMA SearchRowKeeps ==
  ASSUME IInv, Remembered, NEW t \in Tasks, SearchRow(t)
  PROVE  /\ OwnRows' /\ Flagged' /\ Streak' /\ EngineShown'
         /\ Answerable => Answerable'
<1>0. /\ pc \in [Tasks -> PCs] /\ TypeOK /\ \A u \in Tasks : inst[u] \in Instances
      /\ pc' = [pc EXCEPT ![t] = "rows"] /\ pc[t] \in {"search", "rows"} /\ Alive(t)
      /\ UNCHANGED <<owed, manualErrorOpen, inst, inRetry>>
  BY DEF SearchRow, IInv, TypeOK, regVars, Running
<1>1. pc'[t] = "rows" /\ \A u \in Tasks \ {t} : pc'[u] = pc[u]
  BY <1>0
<1>2. /\ newest'[inst[t]] # "unreachable"
      /\ \A i \in Instances : newest'[i] = "unreachable" => newest[i] = "unreachable"
  BY <1>0 DEF SearchRow, TypeOK
<1>3. OwnRows' /\ Flagged'
  BY <1>0, <1>1, SlotFacts DEF Remembered, OwnRows, Flagged
<1>4. Streak'
  BY <1>0, <1>1, SlotFacts DEF Remembered, Streak, Alive
<1>5. EngineShown'
  BY <1>0, <1>1, <1>2, SlotFacts DEF Remembered, EngineShown
<1>6. ASSUME NEW i, InStreak(i) PROVE InStreak(i)'
  <2>1. Remembers(t, i) => Remembers(t, i)'
    BY <1>0, <1>1 DEF Remembers, Alive
  <2> QED
    BY <1>0, <1>6, <2>1, OthersRemember
<1>7. ASSUME Answerable PROVE Answerable'
  BY <1>0, <1>1, <1>2, <1>6, <1>7 DEF Answerable
<1> QED
  BY <1>3, <1>4, <1>5, <1>7

LEMMA WriteRowIs ==
  ASSUME TypeOK, NEW t \in Tasks, WriteRow(t)
  PROVE  /\ Alive(t) /\ pc[t] \in Writing /\ UNCHANGED <<manualErrorOpen, inst, inRetry>>
         /\ pc' = [pc EXCEPT ![t] = Written[pc[t]]] /\ inst[t] \in Instances
         /\ newest' = [newest EXCEPT ![inst[t]] = RowOf[pc[t]]]
         /\ owed' = IF RowOf[pc[t]] = "unreachable"
                    THEN owed \cup {<<inst[t], Channel[pc[t]]>>}
                    ELSE owed \ {<<inst[t], Channel[pc[t]]>>}
  BY DEF WriteRow, regVars, TypeOK

LEMMA WriteRowKeeps ==
  ASSUME IInv, Remembered, NEW t \in Tasks, WriteRow(t)
  PROVE  /\ OwnRows' /\ Flagged' /\ Streak' /\ EngineShown'
         /\ Answerable => Answerable'
<1> DEFINE i == inst[t]
<1>0. TypeOK /\ pc \in [Tasks -> PCs] /\ newest \in [Instances -> RowKinds]
      /\ \A u \in Tasks : inst[u] \in Instances
  BY DEF IInv, TypeOK
<1>1. /\ Alive(t) /\ UNCHANGED <<manualErrorOpen, inst, inRetry>> /\ i \in Instances
      /\ \A u \in Tasks \ {t} : pc'[u] = pc[u]
      /\ \A j \in Instances \ {i} : newest'[j] = newest[j]
  BY <1>0, WriteRowIs
<1>2. ASSUME NEW u \in Tasks, pc[u] \in Critical, pc[t] \in Critical, inst[u] = i PROVE u = t
  BY <1>2, OneInside
<1>3. ASSUME NEW u \in Loops, Alive(u), t \in Loops, inst[u] = i PROVE u = t
  BY <1>1, <1>3, OneLoop DEF Remembered
<1>4. CASE pc[t] = "pair"
  <2>1. pc'[t] = "paired" /\ newest'[i] = "other" /\ owed' = owed \ {<<i, "flag">>}
    BY <1>0, <1>4, WriteRowIs DEF RowOf, Channel, Written
  <2>2. OwnRows'
    BY <1>1, <1>4, <2>1, SlotFacts DEF Remembered, OwnRows
  <2>3. \A u \in Tasks : pc[u] \in {"pair", "unrWritten"} /\ inst[u] = i => u = t
    BY <1>2, <1>4 DEF Critical
  <2>4. Flagged'
    BY <1>1, <1>4, <2>1, <2>3 DEF Remembered, Flagged
  <2>5. Streak'
    BY <1>1, <1>4, <2>1, SlotFacts DEF Remembered, Streak, Alive
  <2>6. EngineShown'
    BY <1>0, <1>1, <1>4, <2>1, SlotFacts DEF Remembered, EngineShown
  <2>7. ASSUME NEW j, InStreak(j) PROVE InStreak(j)'
    <3>1. Remembers(t, j) => Remembers(t, j)'
      BY <1>1, <1>4, <2>1 DEF Remembers, Alive
    <3> QED
      BY <1>0, <1>1, <2>7, <3>1, OthersRemember, WriteRowIs
  <2>8. ASSUME Answerable PROVE Answerable'
    BY <1>0, <1>1, <1>4, <2>1, <2>7, <2>8 DEF Answerable
  <2> QED
    BY <2>2, <2>4, <2>5, <2>6, <2>8
<1>5. CASE pc[t] = "unrWrite"
  <2>0. t \notin Loops
    BY <1>5 DEF Remembered, OwnRows
  <2>1. pc'[t] = "unrWritten" /\ newest'[i] = "unreachable" /\ owed' = owed \cup {<<i, "flag">>}
    BY <1>0, <1>5, WriteRowIs DEF RowOf, Channel, Written
  <2>2. OwnRows'
    BY <1>1, <2>0, <2>1, SlotFacts DEF Remembered, OwnRows
  <2>3. \A u \in Tasks : pc[u] \in {"paired", "engWritten"} => inst[u] # i
    BY <1>2, <1>5 DEF Critical
  <2>4. Flagged'
    BY <1>1, <1>5, <2>1 DEF Remembered, Flagged
  <2>5. Streak'
    BY <1>1, <2>0, <2>1, SlotFacts DEF Remembered, Streak, Alive
  <2>6. EngineShown'
    BY <1>0, <1>1, <2>0, <2>1, <2>3, SlotFacts DEF Remembered, EngineShown
  <2>7. ASSUME NEW j, InStreak(j) PROVE InStreak(j)'
    BY <1>0, <1>1, <2>0, <2>7, OthersRemember, WriteRowIs
  <2>8. ASSUME Answerable PROVE Answerable'
    BY <1>0, <1>1, <1>5, <2>1, <2>3, <2>7, <2>8 DEF Answerable
  <2> QED
    BY <2>2, <2>4, <2>5, <2>6, <2>8
<1>6. CASE pc[t] = "engWrite"
  <2>1. /\ pc'[t] = "engWritten" /\ newest'[i] = "error"
        /\ \A j, w : w \in Who => (<<j, w>> \in owed' <=> <<j, w>> \in owed)
    BY <1>0, <1>6, WriteRowIs DEF RowOf, Channel, Written, Who
  <2>2. OwnRows'
    BY <1>1, <1>6, <2>1, SlotFacts DEF Remembered, OwnRows
  <2>4. Flagged'
    BY <1>1, <1>6, <2>1 DEF Remembered, Flagged, Who
  <2>5. Streak'
    BY <1>1, <1>6, <2>1, SlotFacts DEF Remembered, Streak, Alive, Who
  <2>6. EngineShown'
    BY <1>0, <1>1, <1>6, <2>1, SlotFacts DEF Remembered, EngineShown
  <2>7. ASSUME NEW j, InStreak(j) PROVE InStreak(j)'
    <3>1. Remembers(t, j) => Remembers(t, j)'
      BY <1>1, <1>6, <2>1 DEF Remembers, Alive
    <3> QED
      BY <1>0, <1>1, <2>7, <3>1, OthersRemember, WriteRowIs
  <2>8. ASSUME Answerable PROVE Answerable'
    BY <1>0, <1>1, <1>6, <2>1, <2>7, <2>8 DEF Answerable, Who
  <2> QED
    BY <2>2, <2>4, <2>5, <2>6, <2>8
<1>7. CASE pc[t] = "errWrite"
  <2>0. t \in Loops /\ ~inRetry[t]
    BY <1>1, <1>7 DEF Remembered, OwnRows, Streak
  <2>1. pc'[t] = "errWritten" /\ newest'[i] = "unreachable" /\ owed' = owed \cup {<<i, "loop">>}
    BY <1>0, <1>7, WriteRowIs DEF RowOf, Channel, Written
  <2>2. OwnRows'
    BY <1>1, <2>0, <2>1, SlotFacts DEF Remembered, OwnRows
  <2>4. Flagged'
    BY <1>1, <1>7, <2>1 DEF Remembered, Flagged
  <2>5. Streak'
    BY <1>1, <2>0, <2>1, SlotFacts DEF Remembered, Streak, Alive
  <2>6. EngineShown'
    <3>1. \A u \in Loops : pc[u] = "engWritten" => inst[u] # i
      BY <1>3, <1>7, <2>0 DEF Alive
    <3> QED
      BY <1>0, <1>1, <2>1, <3>1, SlotFacts DEF Remembered, EngineShown
  <2>7. ASSUME NEW j, InStreak(j) PROVE InStreak(j)'
    <3>1. Remembers(t, j) => Remembers(t, j)'
      BY <1>1, <2>1 DEF Remembers, Alive
    <3> QED
      BY <1>0, <1>1, <2>7, <3>1, OthersRemember, WriteRowIs
  <2>8. InStreak(i)'
    BY <1>1, <2>0, <2>1 DEF InStreak, Remembers, Alive
  <2>9. ASSUME Answerable PROVE Answerable'
    BY <1>0, <1>1, <1>7, <2>1, <2>7, <2>8, <2>9 DEF Answerable
  <2> QED
    BY <2>2, <2>4, <2>5, <2>6, <2>9
<1>8. CASE pc[t] = "infoWrite"
  <2>0. t \in Loops /\ inRetry[t]
    BY <1>1, <1>8 DEF Remembered, OwnRows, Streak
  <2>1. pc'[t] = "infoWritten" /\ newest'[i] = "other" /\ owed' = owed \ {<<i, "loop">>}
    BY <1>0, <1>8, WriteRowIs DEF RowOf, Channel, Written
  <2>2. OwnRows'
    BY <1>1, <2>0, <2>1, SlotFacts DEF Remembered, OwnRows
  <2>4. Flagged'
    BY <1>1, <1>8, <2>1 DEF Remembered, Flagged
  <2>5. Streak'
    <3>1. \A u \in Loops \ {t} : Alive(u) => inst[u] # i
      BY <1>3, <2>0
    <3> QED
      BY <1>1, <2>0, <2>1, <3>1, SlotFacts DEF Remembered, Streak, Alive
  <2>6. EngineShown'
    BY <1>0, <1>1, <2>0, <2>1, SlotFacts DEF Remembered, EngineShown
  <2>7. ASSUME NEW j, j # i, InStreak(j) PROVE InStreak(j)'
    <3>1. ~Remembers(t, j)
      BY <2>7 DEF Remembers
    <3> QED
      BY <1>0, <1>1, <2>7, <3>1, OthersRemember, WriteRowIs
  <2>8. ASSUME Answerable PROVE Answerable'
    BY <1>0, <1>1, <1>8, <2>1, <2>7, <2>8 DEF Answerable
  <2> QED
    BY <2>2, <2>4, <2>5, <2>6, <2>8
<1> QED
  BY <1>4, <1>5, <1>6, <1>7, <1>8, WriteRowIs, <1>0 DEF Writing

LEMMA ConclusionKeeps ==
  ASSUME IInv, Remembered, NEW t \in Tasks, PairDone(t) \/ UnreachableDone(t) \/ Reconnect(t)
  PROVE  /\ OwnRows' /\ Flagged' /\ Streak' /\ EngineShown'
         /\ Answerable => Answerable'
<1> DEFINE i == inst[t]
<1>0. TypeOK /\ pc \in [Tasks -> PCs] /\ \A u \in Tasks : inst[u] \in Instances
  BY DEF IInv, TypeOK
<1>1. CASE PairDone(t)
  <2>1. PICK p : p = AfterLock(t, FALSE)
    OBVIOUS
  <2>2. /\ pc' = [pc EXCEPT ![t] = p] /\ UNCHANGED <<newest, owed, inst, inRetry>>
        /\ pc[t] = "paired" /\ manualErrorOpen' = manualErrorOpen \ {i}
    BY <1>1, <2>1 DEF PairDone, EndCycle, dbVars
  <2>3. /\ p \in PCs \ {"free"} /\ p \notin Told \cup {"engWritten", "pair"}
        /\ p = "infoWrite" => t \in Loops /\ inRetry[t]
        /\ p = "errWrite" => t \in Loops /\ ~inRetry[t]
        /\ t \in Loops => p \in {"sleep", "infoWrite", "errWrite"}
    BY <1>0, <2>1, AfterLockIs
  <2>4. pc'[t] = p /\ \A u \in Tasks \ {t} : pc'[u] = pc[u]
    BY <1>0, <2>2
  <2>5. OwnRows'
    BY <2>3, <2>4, SlotFacts DEF Remembered, OwnRows, Told
  <2>6. Flagged'
    BY <2>2, <2>3, <2>4 DEF Remembered, Flagged, Told
  <2>7. Streak'
    BY <2>2, <2>3, <2>4, SlotFacts DEF Remembered, Streak, Alive, Told
  <2>8. EngineShown'
    BY <2>2, <2>3, <2>4, SlotFacts DEF Remembered, EngineShown
  <2>9. ASSUME NEW j, InStreak(j) PROVE InStreak(j)'
    <3>1. t \in Loops /\ Remembers(t, j) => Remembers(t, j)'
      BY <2>2, <2>3, <2>4 DEF Remembers, Alive, Told
    <3> QED
      BY <1>0, <2>2, <2>9, <3>1, OthersRemember
  <2>10. ASSUME Answerable PROVE Answerable'
    BY <1>0, <2>2, <2>3, <2>4, <2>9, <2>10 DEF Answerable, Told
  <2> QED
    BY <2>5, <2>6, <2>7, <2>8, <2>10
<1>2. CASE UnreachableDone(t)
  <2>1. PICK p : p = AfterLock(t, TRUE)
    OBVIOUS
  <2>2. /\ pc' = [pc EXCEPT ![t] = p] /\ UNCHANGED <<newest, owed, inst, inRetry>>
        /\ pc[t] = "unrWritten" /\ manualErrorOpen' = manualErrorOpen \cup {i}
    BY <1>2, <2>1 DEF UnreachableDone, EndCycle, dbVars
  <2>3. /\ p \in PCs \ {"free"} /\ p \notin Told \cup {"engWritten", "pair", "infoWrite", "errWrite"}
        /\ t \notin Loops
    <3>1. t \notin Loops
      BY <2>2 DEF Remembered, OwnRows
    <3> QED
      BY <1>0, <2>1, <3>1, AfterLockIs
  <2>4. pc'[t] = p /\ \A u \in Tasks \ {t} : pc'[u] = pc[u]
    BY <1>0, <2>2
  <2>5. OwnRows'
    BY <2>3, <2>4, SlotFacts DEF Remembered, OwnRows, Told
  <2>6. Flagged'
    BY <2>2, <2>3, <2>4 DEF Remembered, Flagged, Told
  <2>7. Streak'
    BY <2>2, <2>3, <2>4, SlotFacts DEF Remembered, Streak, Alive
  <2>8. EngineShown'
    BY <2>2, <2>3, <2>4, SlotFacts DEF Remembered, EngineShown
  <2>9. ASSUME NEW j, InStreak(j) PROVE InStreak(j)'
    BY <1>0, <2>2, <2>3, <2>9, OthersRemember
  <2>10. ASSUME Answerable PROVE Answerable'
    BY <1>0, <2>2, <2>3, <2>4, <2>9, <2>10 DEF Answerable, Told
  <2> QED
    BY <2>5, <2>6, <2>7, <2>8, <2>10
<1>3. CASE Reconnect(t)
  <2>1. PICK value \in BOOLEAN :
          /\ inRetry' = [inRetry EXCEPT ![t] = value]
          /\ pc[t] = IF value THEN "errWritten" ELSE "infoWritten"
    BY <1>3 DEF Reconnect, Goto
  <2>2. /\ pc' = [pc EXCEPT ![t] = "sleep"] /\ UNCHANGED <<newest, owed, inst, manualErrorOpen>>
        /\ t \in Loops /\ Alive(t)
    BY <1>3 DEF Reconnect, Goto, dbVars, regVars, Running
  <2>3. /\ pc'[t] = "sleep" /\ \A u \in Tasks \ {t} : pc'[u] = pc[u]
        /\ inRetry'[t] = value /\ \A u \in Loops \ {t} : inRetry'[u] = inRetry[u]
    BY <1>0, <2>1, <2>2 DEF TypeOK
  <2>4. OwnRows'
    BY <2>3, SlotFacts DEF Remembered, OwnRows
  <2>5. Flagged'
    BY <2>1, <2>2, <2>3 DEF Remembered, Flagged
  <2>6. Streak'
    BY <2>1, <2>2, <2>3, SlotFacts DEF Remembered, Streak, Alive
  <2>7. EngineShown'
    BY <2>2, <2>3, SlotFacts DEF Remembered, EngineShown
  <2>8. CASE value = TRUE
    <3>1. ASSUME NEW j, InStreak(j) PROVE InStreak(j)'
      <4>1. Remembers(t, j) => Remembers(t, j)'
        BY <2>2, <2>3, <2>8 DEF Remembers, Alive
      <4> QED
        BY <1>0, <2>2, <2>3, <3>1, <4>1, OthersRemember
    <3>2. ASSUME Answerable PROVE Answerable'
      BY <1>0, <2>1, <2>2, <2>3, <2>8, <3>1, <3>2 DEF Answerable
    <3> QED
      BY <2>4, <2>5, <2>6, <2>7, <3>2
  <2>9. CASE value = FALSE
    <3>1. ~InStreak(i)
      <4>1. ASSUME NEW u \in Loops, Remembers(u, i) PROVE FALSE
        <5>1. u = t
          BY <2>2, <4>1, OneLoop DEF Remembers, Remembered
        <5> QED
          BY <2>1, <2>9, <4>1, <5>1 DEF Remembers
      <4> QED
        BY <4>1 DEF InStreak
    <3>2. ASSUME NEW j, InStreak(j) PROVE InStreak(j)'
      <4>1. ~Remembers(t, j)
        BY <3>1, <3>2, <2>2 DEF Remembers, InStreak
      <4> QED
        BY <1>0, <2>2, <2>3, <3>2, <4>1, OthersRemember
    <3>3. ASSUME Answerable PROVE Answerable'
      BY <1>0, <2>1, <2>2, <2>3, <2>9, <3>1, <3>2, <3>3 DEF Answerable
    <3> QED
      BY <2>4, <2>5, <2>6, <2>7, <3>3
  <2> QED
    BY <2>8, <2>9
<1> QED
  BY <1>1, <1>2, <1>3

\* The place of a finished task is free again.
LEMMA ReapKeeps ==
  ASSUME IInv, Remembered, NEW t \in Tasks, Reap(t)
  PROVE  /\ OwnRows' /\ Flagged' /\ Streak' /\ EngineShown'
         /\ Answerable => Answerable'
<1>1. /\ pc[t] = "done" /\ pc' = [pc EXCEPT ![t] = "free"] /\ TypeOK
      /\ UNCHANGED <<newest, owed, inst, manualErrorOpen, inRetry>>
  BY DEF Reap, dbVars, IInv
<1>2. pc'[t] = "free" /\ \A u \in Tasks \ {t} : pc'[u] = pc[u]
  BY <1>1 DEF TypeOK
<1>3. OwnRows' /\ Flagged'
  BY <1>1, <1>2, SlotFacts DEF Remembered, OwnRows, Flagged
<1>4. Streak' /\ EngineShown'
  BY <1>1, <1>2, SlotFacts DEF Remembered, Streak, EngineShown, Alive
<1>5. ASSUME NEW j, InStreak(j) PROVE InStreak(j)'
  BY <1>1, <1>5, OthersRemember DEF Remembers, Alive
<1>6. ASSUME Answerable PROVE Answerable'
  BY <1>1, <1>2, <1>5, <1>6 DEF Answerable, TypeOK
<1> QED
  BY <1>3, <1>4, <1>6

LEMMA SweepKeeps ==
  ASSUME IInv, Remembered, SweepStep
  PROVE  /\ OwnRows' /\ Flagged' /\ Streak' /\ EngineShown'
         /\ Answerable => Answerable'
<1>0. Sweep \in Tasks /\ Sweep \notin Loops
  BY SlotFacts
<1>1. /\ UNCHANGED <<newest, owed, manualErrorOpen, inRetry>> /\ TypeOK
      /\ pc[Sweep] \in {"sleep", "listing", "next"}
      /\ \E p \in {"sleep", "listing", "next", "wait"} : pc' = [pc EXCEPT ![Sweep] = p]
  BY DEF SweepStep, SweepWake, SweepList, SweepNext, Goto, dbVars, regVars, IInv
<1>2. /\ pc'[Sweep] \in {"sleep", "listing", "next", "wait"}
      /\ \A u \in Tasks \ {Sweep} : pc'[u] = pc[u] /\ inst'[u] = inst[u]
  BY <1>0, <1>1, SweepShape DEF TypeOK
<1>3. OwnRows'
  BY <1>1, <1>2, SlotFacts DEF Remembered, OwnRows
<1>4. Flagged'
  BY <1>0, <1>1, <1>2 DEF Remembered, Flagged
<1>5. Streak' /\ EngineShown'
  BY <1>0, <1>1, <1>2, SlotFacts DEF Remembered, Streak, EngineShown, Alive
<1>6. ASSUME NEW j, InStreak(j) PROVE InStreak(j)'
  BY <1>0, <1>1, <1>2, <1>6, SlotFacts DEF InStreak, Remembers, Alive
<1>7. ASSUME Answerable PROVE Answerable'
  BY <1>0, <1>1, <1>2, <1>6, <1>7 DEF Answerable, TypeOK
<1> QED
  BY <1>3, <1>4, <1>5, <1>7

LEMMA UndisturbedTask ==
  ASSUME IInv, Undisturbed,
         SweepStep \/ \E t \in Tasks : TaskStep(t) \/ Acquire(t) \/ SearchRow(t)
  PROVE  Undisturbed'
<1>0. TypeOK /\ DownIsEmpty
  BY DEF IInv
<1>1. ASSUME NEW t \in Tasks, Reap(t) PROVE Undisturbed'
  <2>1. /\ UNCHANGED <<row, inst, inRetry, life, hpc, hinst, hseen>>
        /\ cancelled' = [cancelled EXCEPT ![t] = FALSE] /\ pc' = [pc EXCEPT ![t] = "free"]
    BY <1>1 DEF Reap, dbVars
  <2> QED
    BY <1>0, <2>1, SlotFacts DEF Undisturbed, Alive, Exists, TypeOK
<1>2. ASSUME NEW t \in Tasks, TaskStep(t) \/ Acquire(t) \/ SearchRow(t), ~Reap(t) PROVE Undisturbed'
  <2>1. /\ UNCHANGED <<row, inst, cancelled, life, reqVars>>
        /\ Alive(t) /\ \E p \in PCs \ {"free"} : pc' = [pc EXCEPT ![t] = p]
    BY <1>0, <1>2, TaskShape
  <2>2. life # "down" /\ \A u \in Loops : Alive(u)' => Alive(u)
    BY <1>0, <2>1, SlotFacts DEF DownIsEmpty, Alive, TypeOK
  <2> QED
    BY <2>1, <2>2 DEF Undisturbed, reqVars, Exists
<1>3. CASE SweepStep
  <2>1. /\ UNCHANGED <<row, cancelled, life, reqVars>> /\ Alive(Sweep)
        /\ \E p \in PCs \ {"free"} : pc' = [pc EXCEPT ![Sweep] = p]
        /\ \A t \in Tasks \ {Sweep} : inst'[t] = inst[t]
    BY <1>0, <1>3, SweepShape DEF Running
  <2>2. life # "down" /\ \A u \in Loops : (Alive(u)' => Alive(u)) /\ inst'[u] = inst[u]
    BY <1>0, <2>1, SlotFacts DEF DownIsEmpty, Alive, TypeOK
  <2> QED
    BY <2>1, <2>2 DEF Undisturbed, reqVars, Exists
<1> QED
  BY <1>1, <1>2, <1>3

\* New tasks begin outside the lock, with no streak to remember.
LEMMA NewTasksKeep ==
  ASSUME TypeOK, Remembered, UNCHANGED <<newest, owed, manualErrorOpen>>,
         \A u \in Tasks :
           \/ /\ pc'[u] = pc[u] /\ inst'[u] = inst[u]
              /\ u \in Loops => inRetry'[u] = inRetry[u]
           \/ /\ pc[u] = "free" /\ pc'[u] \in {"grace", "wait", "sleep", "reading", "free"}
              /\ u \in Loops => ~inRetry'[u]
  PROVE  /\ OwnRows' /\ Flagged' /\ Streak' /\ EngineShown'
         /\ Answerable => Answerable'
<1>1. \A u \in Tasks : pc'[u] # pc[u] \/ inst'[u] # inst[u] =>
        pc[u] = "free" /\ pc'[u] \in {"grace", "wait", "sleep", "reading", "free"}
  OBVIOUS
<1>2. OwnRows' /\ Flagged'
  BY <1>1, SlotFacts DEF Remembered, OwnRows, Flagged
<1>3. Streak'
  BY SlotFacts DEF Remembered, Streak, Alive
<1>4. EngineShown'
  BY <1>1, SlotFacts DEF Remembered, EngineShown
<1>5. ASSUME NEW j, InStreak(j) PROVE InStreak(j)'
  BY <1>5, SlotFacts DEF InStreak, Remembers, Alive
<1>6. ASSUME Answerable PROVE Answerable'
  <2>1. \A u \in Tasks : /\ pc'[u] = "paired" => pc[u] = "paired" /\ inst'[u] = inst[u]
                         /\ pc[u] = "unrWritten" => pc'[u] = "unrWritten" /\ inst'[u] = inst[u]
    BY <1>1
  <2> QED
    BY <1>5, <1>6, <2>1 DEF Answerable
<1> QED
  BY <1>2, <1>3, <1>4, <1>6

LEMMA AddingRequest ==
  ASSUME OnlyAdds, TypeOK, Remembered, NEW h \in Handlers,
         \/ RequestStep(h)
         \/ \E i \in Instances : Create(h, i) \/ \E k \in Requests : Arrive(h, i, k)
  PROVE  Remembered' /\ (Answerable => Answerable')
<1>0. /\ hpc \in [Handlers -> HPCs] /\ hseen \in [Handlers -> RowStates]
      /\ hinst \in [Handlers -> Instances] /\ row \in [Instances -> RowStates]
      /\ hpc[h] \in Adding
  BY DEF TypeOK, Remembered, Undisturbed
<1>1. CASE UpdateRead(h) \/ UpdateProbeFails(h) \/ UpdateWrite(h) \/ ReconcileRead(h) \/ RunNowRead(h)
           \/ \E i \in Instances : Create(h, i) \/ \E k \in Requests : Arrive(h, i, k)
  <2>1. UNCHANGED <<newest, owed, manualErrorOpen, pc, inst, inRetry, cancelled, life>>
    BY <1>1 DEF UpdateRead, UpdateProbeFails, UpdateWrite, ReconcileRead, RunNowRead, HandlerRead,
                SetEnabled, Create, Arrive, dbVars, regVars, taskVars, lifeVars
  <2>2. \A g \in Handlers :
          /\ hpc'[g] \in Adding
          /\ hpc'[g] = "upWrite" => hseen'[g] = row'[hinst'[g]] /\ row'[hinst'[g]] \in {"on", "off"}
          /\ hpc'[g] \in {"rcRead", "rcAct"} => row'[hinst'[g]] = "on"
          /\ hpc'[g] = "rcAct" => hseen'[g] = "on"
    <3>1. CASE UpdateRead(h) \/ RunNowRead(h)
      BY <1>0, <3>1 DEF UpdateRead, RunNowRead, HandlerRead, ReqGoto, Remembered, Undisturbed, Adding,
                        Exists, dbVars
    <3>2. CASE UpdateProbeFails(h) \/ ReconcileRead(h)
      BY <1>0, <3>2 DEF UpdateProbeFails, ReconcileRead, ReqGoto, Remembered, Undisturbed, Adding,
                        Exists, dbVars
    <3>3. CASE UpdateWrite(h)
      <4>1. row' = row
        BY <1>0, <3>3 DEF UpdateWrite, SetEnabled, ReqGoto, Remembered, Undisturbed
      <4> QED
        BY <1>0, <3>3, <4>1 DEF UpdateWrite, SetEnabled, ReqGoto, Remembered, Undisturbed, Adding,
                                Exists
    <3>4. ASSUME NEW i \in Instances, Create(h, i)
          PROVE  \A g \in Handlers :
            /\ hpc'[g] \in Adding
            /\ hpc'[g] = "upWrite" => hseen'[g] = row'[hinst'[g]] /\ row'[hinst'[g]] \in {"on", "off"}
            /\ hpc'[g] \in {"rcRead", "rcAct"} => row'[hinst'[g]] = "on"
            /\ hpc'[g] = "rcAct" => hseen'[g] = "on"
      BY <1>0, <3>4 DEF Create, Remembered, Undisturbed, Adding, Exists
    <3>5. ASSUME NEW i \in Instances, NEW k \in Requests, Arrive(h, i, k)
          PROVE  \A g \in Handlers :
            /\ hpc'[g] \in Adding
            /\ hpc'[g] = "upWrite" => hseen'[g] = row'[hinst'[g]] /\ row'[hinst'[g]] \in {"on", "off"}
            /\ hpc'[g] \in {"rcRead", "rcAct"} => row'[hinst'[g]] = "on"
            /\ hpc'[g] = "rcAct" => hseen'[g] = "on"
      <4>1. k \in {"update", "runNow"} /\ hpc' = [hpc EXCEPT ![h] = FirstStep[k]]
            /\ hinst' = [hinst EXCEPT ![h] = i] /\ UNCHANGED <<row, hseen>>
        BY <3>5 DEF Arrive, OnlyAdds, dbVars
      <4>2. FirstStep[k] \in {"upRead", "rnRead"}
        BY <4>1 DEF FirstStep
      <4> QED
        BY <1>0, <4>1, <4>2 DEF Remembered, Undisturbed, Adding, Exists
    <3> QED
      BY <1>1, <3>1, <3>2, <3>3, <3>4, <3>5
  <2>3. \A i \in Instances : row[i] = "on" => row'[i] = "on"
    BY <1>0, <1>1 DEF UpdateRead, UpdateProbeFails, UpdateWrite, ReconcileRead, RunNowRead, HandlerRead,
                SetEnabled, ReqGoto, Create, Arrive, dbVars, Remembered, Undisturbed
  <2>4. \A t \in Loops : inst[t] \in Instances
    BY SlotFacts DEF TypeOK
  <2>5. Undisturbed'
    BY <2>1, <2>2, <2>3, <2>4 DEF Remembered, Undisturbed, Alive, Exists
  <2> QED
    BY <2>1, <2>5, NewTasksKeep DEF Remembered
<1>2. CASE ReconcileStart(h)
  <2> DEFINE i == hinst[h]
  <2>1. /\ UNCHANGED <<row, newest, owed, manualErrorOpen, cancelled, life, hinst, hseen>>
        /\ hpc' = [hpc EXCEPT ![h] = "idle"] /\ hpc[h] = "rcAct" /\ StartInstanceTask(i)
    BY <1>2 DEF ReconcileStart, ReqGoto, dbVars, lifeVars
  <2>2. i \in Instances /\ row[i] = "on"
    BY <1>0, <2>1 DEF Remembered, Undisturbed
  <2>3. \A g \in Handlers : hpc'[g] \in {hpc[g], "idle"}
    BY <1>0, <2>1
  <2>4. CASE UNCHANGED <<pc, inst, inRetry>>
    <3>1. Undisturbed'
      BY <2>1, <2>3, <2>4 DEF Remembered, Undisturbed, Alive, Exists, Adding
    <3> QED
      BY <2>1, <2>4, <3>1, NewTasksKeep DEF Remembered
  <2>5. ASSUME NEW t \in Loops, NEW p \in Primes, pc[t] = "free", pc[p] = "free",
               pc' = [pc EXCEPT ![t] = "grace", ![p] = "wait"],
               inst' = [inst EXCEPT ![t] = i, ![p] = i],
               inRetry' = [inRetry EXCEPT ![t] = FALSE]
        PROVE  Remembered' /\ (Answerable => Answerable')
    <3>1. /\ t \in Tasks /\ p \in Tasks /\ p \notin Loops /\ t # p
          /\ pc'[t] = "grace" /\ pc'[p] = "wait" /\ inst'[t] = i /\ ~inRetry'[t]
          /\ \A u \in Tasks \ {t, p} : pc'[u] = pc[u] /\ inst'[u] = inst[u]
          /\ \A u \in Loops \ {t} : inRetry'[u] = inRetry[u]
      BY <2>2, <2>5, SlotFacts DEF TypeOK
    <3>2. Undisturbed'
      BY <2>1, <2>2, <2>3, <3>1, SlotFacts DEF Remembered, Undisturbed, Alive, Exists, Adding
    <3> QED
      BY <2>1, <2>5, <3>1, <3>2, NewTasksKeep DEF Remembered
  <2> QED
    BY <2>1, <2>4, <2>5 DEF StartInstanceTask
<1>3. CASE RunNow(h)
  <2>1. UNCHANGED <<newest, owed, manualErrorOpen, inRetry>>
    BY <1>3 DEF RunNow, dbVars
  <2>2. UNCHANGED <<row, cancelled, life, hinst, hseen>> /\ hpc' = [hpc EXCEPT ![h] = "idle"]
    BY <1>3, RunNowShape
  <2>3. \A g \in Handlers : hpc'[g] \in {hpc[g], "idle"}
    BY <1>0, <2>2
  <2>4. \A u \in Tasks : \/ pc'[u] = pc[u] /\ inst'[u] = inst[u]
                         \/ u \notin Loops /\ pc[u] = "free" /\ pc'[u] = "reading"
    <3>1. CASE UNCHANGED <<pc, inst>>
      BY <3>1
    <3>2. ASSUME NEW t \in Manuals, pc[t] = "free", pc' = [pc EXCEPT ![t] = "reading"],
                 inst' = [inst EXCEPT ![t] = hinst[h]]
          PROVE  \A u \in Tasks : \/ pc'[u] = pc[u] /\ inst'[u] = inst[u]
                                  \/ u \notin Loops /\ pc[u] = "free" /\ pc'[u] = "reading"
      BY <3>2, SlotFacts DEF TypeOK
    <3> QED
      BY <1>3, <3>1, <3>2, RunNowShape
  <2>5. Undisturbed'
    BY <2>1, <2>2, <2>3, <2>4, SlotFacts DEF Remembered, Undisturbed, Alive, Exists, Adding
  <2> QED
    BY <2>1, <2>4, <2>5, NewTasksKeep DEF Remembered
<1>4. ~ToggleRead(h) /\ ~ToggleWrite(h) /\ ~ToggleReread(h) /\ ~StopLoop(h) /\ ~StopManual(h)
      /\ ~StopReturns(h) /\ ~DeleteRow(h)
  BY <1>0 DEF ToggleRead, ToggleWrite, ToggleReread, HandlerRead, SetEnabled, ReqGoto, StopLoop,
              StopManual, StopReturns, DeleteRow, Adding, Remembered, Undisturbed
<1> QED
  BY <1>1, <1>2, <1>3, <1>4 DEF RequestStep

LEMMA LifeKeeps ==
  ASSUME IInv, OnlyAdds, Remembered,
         Boot \/ StopStep \/ ProcessEnds \/ \E kind \in StopKinds : StopBegin(kind)
  PROVE  Remembered' /\ (Answerable /\ ~Fault => Answerable')
<1>1. CASE Boot
  <2>1. /\ life' = "up" /\ UNCHANGED <<row, cancelled, reqVars>> /\ life = "down"
        /\ \A t \in Tasks : pc[t] = "free"
        /\ \A t \in Loops : pc'[t] # "free" => row[inst'[t]] = "on" /\ pc'[t] = "grace"
    BY <1>1, BootShape DEF IInv
  <2>2. UNCHANGED <<newest, owed, manualErrorOpen, inRetry>>
        /\ \A u \in Tasks : pc'[u] \in {"grace", "wait", "sleep", "free"}
    BY <1>1 DEF Boot, dbVars
  <2>3. Undisturbed'
    BY <2>1 DEF Remembered, Undisturbed, Alive, Exists, reqVars
  <2>4. \A t \in Loops : ~inRetry[t]
    BY <2>1 DEF Remembered, Undisturbed
  <2> QED
    BY <2>1, <2>2, <2>3, <2>4, NewTasksKeep DEF Remembered, IInv
<1>2. CASE ProcessEnds
  <2>1. life = "up" /\ life' = "down"
    BY <1>2 DEF ProcessEnds, Remembered, Undisturbed
  <2>2. Fault
    BY <2>1 DEF Fault
  <2>3. Undisturbed'
    BY <1>2, SlotFacts DEF ProcessEnds, Remembered, Undisturbed, Alive, Exists, Adding, dbVars
  <2>4. OwnRows' /\ Flagged' /\ Streak' /\ EngineShown'
    BY <1>2, SlotFacts DEF ProcessEnds, OwnRows, Flagged, Streak, EngineShown, Alive
  <2> QED
    BY <2>2, <2>3, <2>4 DEF Remembered
<1>3. ~StopStep /\ ~\E kind \in StopKinds : StopBegin(kind)
  BY DEF OnlyAdds, StopStep, StopPrimes, StopTasks, StopEnd, Remembered, Undisturbed
<1> QED
  BY <1>1, <1>2, <1>3

LEMMA RememberedStep ==
  ASSUME OnlyAdds, IInv, Remembered, [Next]_vars
  PROVE  Remembered' /\ (Answerable /\ ~Fault => Answerable')
<1>0. TypeOK
  BY DEF IInv
<1>1. CASE UNCHANGED vars
  BY <1>1 DEF vars, dbVars, regVars, taskVars, lifeVars, reqVars, Remembered, Undisturbed, OwnRows,
              Flagged, Streak, EngineShown, Answerable, InStreak, Remembers, Alive, Exists
<1>2. ASSUME NEW t \in Tasks, TaskStep(t) \/ Acquire(t) \/ SearchRow(t)
      PROVE  Remembered' /\ (Answerable /\ ~Fault => Answerable')
  <2>1. Undisturbed' /\ ~cancelled[t]
    BY <1>2, UndisturbedTask DEF Remembered, Undisturbed
  <2>2. CASE \/ LoopWake(t) \/ ReadRow(t) \/ Leave(t) \/ Acquire(t)
             \/ CycleOk(t) \/ CycleUnreachable(t) \/ CycleEngineError(t) \/ EngineErrorDone(t)
             \/ DbFails(t)
    <3>1. PICK p \in PCs \ {"free"} : pc' = [pc EXCEPT ![t] = p] /\ Quietly(t, p)
      BY <1>0, <2>1, <2>2, QuietTask DEF Remembered
    <3>2. ~Reap(t)
      BY <1>0, <3>1 DEF Reap, TypeOK
    <3>3. Alive(t) /\ inst' = inst
      BY <1>0, <1>2, <3>2, TaskShape
    <3> QED
      BY <2>1, <3>1, <3>3, QuietKeeps DEF Remembered
  <2>3. CASE SearchRow(t)
    BY <2>1, <2>3, SearchRowKeeps DEF Remembered
  <2>4. CASE WriteRow(t)
    BY <2>1, <2>4, WriteRowKeeps DEF Remembered
  <2>5. CASE PairDone(t) \/ UnreachableDone(t) \/ Reconnect(t)
    BY <2>1, <2>5, ConclusionKeeps DEF Remembered
  <2>6. CASE Reap(t)
    BY <2>1, <2>6, ReapKeeps DEF Remembered
  <2>7. ~CancelDelivered(t)
    BY <2>1 DEF CancelDelivered
  <2> QED
    BY <1>2, <2>2, <2>3, <2>4, <2>5, <2>6, <2>7 DEF TaskStep
<1>3. CASE SweepStep
  <2>1. Undisturbed'
    BY <1>3, UndisturbedTask DEF Remembered
  <2> QED
    BY <1>3, <2>1, SweepKeeps DEF Remembered
<1> QED
  BY <1>0, <1>1, <1>2, <1>3, AddingRequest, LifeKeeps DEF Next

LEMMA InitRemembered == Init => Remembered /\ Answerable
  BY SlotFacts DEF Init, Remembered, Undisturbed, OwnRows, Flagged, Streak, EngineShown, Answerable,
     Alive, Adding

\* Every "reachable again" row answers an error row of its channel that nobody has
\* answered, as long as no task is cancelled and no row deleted: a cancellation between
\* the answer's commit and the flag's fall would leave the flag up
\* (supervisor.py:382-400, 415-433; retry.py:131-156).
THEOREM RecoveriesAnswer ==
  ASSUME OnlyAdds
  PROVE  Spec => RecoveryAnswersError
<1> DEFINE Answers ==
      \A t \in Tasks :
        /\ pc[t] = "pair" /\ pc'[t] = "paired" => <<inst[t], "flag">> \in owed
        /\ pc[t] = "infoWrite" /\ pc'[t] = "infoWritten" => <<inst[t], "loop">> \in owed
<1>1. Init => IInv /\ Remembered
  BY InitIInv, InitRemembered
<1>2. IInv /\ Remembered /\ [Next]_vars => IInv' /\ Remembered'
  BY IInvStep, RememberedStep
<1>3. IInv /\ Remembered => Answers
  <2> SUFFICES ASSUME Remembered, NEW t \in Tasks
               PROVE  /\ pc[t] = "pair" => <<inst[t], "flag">> \in owed
                      /\ pc[t] = "infoWrite" => <<inst[t], "loop">> \in owed
    OBVIOUS
  <2>1. pc[t] = "infoWrite" => t \in Loops /\ Alive(t)
    BY DEF Remembered, OwnRows, Alive
  <2> QED
    BY <2>1 DEF Remembered, Flagged, Streak
<1>4. IInv /\ Remembered /\ [Next]_vars => [Answers]_vars
  BY <1>3
<1> QED
  BY <1>1, <1>2, <1>4, PTL DEF Spec, RecoveryAnswersError

ReconnectInv == IInv /\ Remembered /\ (calm => Answerable) /\ calm \in BOOLEAN

LEMMA ReconnectStarts ==
  ASSUME Init /\ calm = TRUE
  PROVE  ReconnectInv
  BY InitIInv, InitRemembered DEF ReconnectInv

ReconnectStep == [Next /\ calm' = (calm /\ ~Fault)]_<<vars, calm>>

LEMMA ReconnectGoesOn ==
  ASSUME OnlyAdds, ReconnectInv, ReconnectStep
  PROVE  ReconnectInv' /\ [Next]_vars
<1>1. [Next]_vars
  BY DEF ReconnectStep
<1>2. IInv' /\ Remembered' /\ (Answerable /\ ~Fault => Answerable')
  BY <1>1, IInvStep, RememberedStep DEF ReconnectInv
<1>3. CASE Next /\ calm' = (calm /\ ~Fault)
  <2>1. calm' \in BOOLEAN /\ (calm' => calm /\ ~Fault)
    BY <1>3 DEF ReconnectInv
  <2> QED
    BY <1>1, <1>2, <2>1 DEF ReconnectInv
<1>4. CASE UNCHANGED <<vars, calm>>
  <2>1. UNCHANGED vars /\ calm' = calm
    BY <1>4
  <2>2. Answerable => Answerable'
    BY <2>1 DEF vars, dbVars, regVars, taskVars, Answerable, InStreak, Remembers, Alive
  <2> QED
    BY <1>1, <1>2, <2>1, <2>2 DEF ReconnectInv
<1> QED
  BY <1>3, <1>4 DEF ReconnectStep

\* While nothing but the instances has failed, no task is cancelled and no row deleted,
\* somebody remembers to answer the "Could not reach" row that is the newest of a card
\* (supervisor.py:93-100).
THEOREM OutagesAreRemembered ==
  ASSUME OnlyAdds
  PROVE  ReconnectSpec => []OfflineHasPairer
<1>1. Init /\ calm = TRUE => ReconnectInv
  BY ReconnectStarts
<1>2. ReconnectInv /\ ReconnectStep => ReconnectInv'
  BY ReconnectGoesOn
<1>3. ReconnectInv => OfflineHasPairer
  <2> SUFFICES ASSUME ReconnectInv, calm, NEW i \in Instances, newest[i] = "unreachable",
                      i \notin manualErrorOpen
               PROVE  \/ \E t \in Tasks : /\ Running(t) /\ inst[t] = i
                                          /\ pc[t] \in {"errWritten", "unrWritten"}
                      \/ \E t \in Loops : Running(t) /\ inst[t] = i /\ inRetry[t]
    BY DEF OfflineHasPairer, OfflinePaired
  <2>1. InStreak(i) \/ \E t \in Tasks : pc[t] = "unrWritten" /\ inst[t] = i
    BY DEF ReconnectInv, Answerable
  <2>2. \A t \in Tasks : Alive(t) => Running(t)
    BY DEF ReconnectInv, Remembered, Undisturbed, Running
  <2>3. CASE InStreak(i)
    BY <2>2, <2>3, SlotFacts DEF InStreak, Remembers
  <2>4. CASE \E t \in Tasks : pc[t] = "unrWritten" /\ inst[t] = i
    BY <2>2, <2>4 DEF Alive
  <2> QED
    BY <2>1, <2>3, <2>4
<1> QED
  BY <1>1, <1>2, <1>3, PTL DEF ReconnectSpec, ReconnectStep

\* Under the same conditions a scheduled error row is written once an outage: the last
\* one of the instance has been answered (retry.py:95-107).
THEOREM ErrorsAreNotRepeated ==
  ASSUME OnlyAdds
  PROVE  ReconnectSpec => OneErrorPerOutage
<1>1. Init /\ calm = TRUE => ReconnectInv
  BY ReconnectStarts
<1>2. ReconnectInv /\ ReconnectStep => ReconnectInv'
  BY ReconnectGoesOn
<1>3. ReconnectInv /\ ReconnectStep => [calm' => ErrorOnce]_vars
  <2> SUFFICES ASSUME ReconnectInv, ReconnectStep, ReconnectInv', calm', ~UNCHANGED vars,
                      NEW t \in Tasks, pc[t] = "errWrite"
               PROVE  <<inst[t], "loop">> \notin owed
    BY <1>2 DEF ErrorOnce
  <2>1. calm
    BY DEF ReconnectStep
  <2>2. t \in Loops /\ Alive(t) /\ ~inRetry[t]
    BY DEF ReconnectInv, Remembered, OwnRows, Streak, Alive
  <2>3. ASSUME InStreak(inst[t]) PROVE FALSE
    <3>1. PICK u \in Loops : Remembers(u, inst[t])
      BY <2>3 DEF InStreak
    <3>2. u = t
      BY <2>2, <3>1, OneLoop DEF Remembers, ReconnectInv, Remembered
    <3> QED
      BY <2>2, <3>1, <3>2 DEF Remembers
  <2>4. inst[t] \in Instances
    BY DEF ReconnectInv, IInv, TypeOK
  <2> QED
    BY <2>1, <2>3, <2>4 DEF ReconnectInv, Answerable
<1> QED
  BY <1>1, <1>2, <1>3, PTL DEF ReconnectSpec, ReconnectStep, OneErrorPerOutage

\* A loop that goes to sleep has ended a cycle in peace or drawn a conclusion.
LEMMA GoesToSleep ==
  ASSUME IInv, Remembered, [Next]_vars, NEW t \in Loops, pc[t] \in Critical, pc'[t] = "sleep",
         ~inRetry[t]
  PROVE  /\ newest' = newest
         /\ \/ inst[t] \notin manualErrorOpen /\ pc[t] \in {"search", "rows"}
            \/ pc[t] \in {"paired", "engWritten"}
<1>0. t \in Tasks /\ pc[t] # "sleep" /\ pc[t] \notin {"free", "done"} /\ TypeOK /\ ~cancelled[t]
      /\ t \notin Manuals /\ t # Sweep
  BY SlotFacts DEF Critical, IInv, Remembered, Undisturbed
<1>1. TaskStep(t) \/ Acquire(t) \/ SearchRow(t)
  <2>1. ~UNCHANGED vars
    BY <1>0 DEF vars, taskVars
  <2>2. ASSUME NEW u \in Tasks, TaskStep(u) \/ Acquire(u) \/ SearchRow(u), u # t PROVE FALSE
    <3>1. CASE Reap(u)
      BY <1>0, <2>2, <3>1 DEF Reap, TypeOK
    <3>2. CASE ~Reap(u)
      BY <1>0, <2>2, <3>2, TaskShape DEF TypeOK
    <3> QED
      BY <3>1, <3>2
  <2>3. ~SweepStep
    BY <1>0, SlotFacts, SweepShape DEF TypeOK
  <2>4. ASSUME NEW h \in Handlers,
               RequestStep(h) \/ \E i \in Instances : Create(h, i) \/ \E k \in Requests : Arrive(h, i, k)
        PROVE  FALSE
    <3>1. CASE PlainRequest(h) \/ \E i \in Instances : Create(h, i) \/ \E k \in Requests : Arrive(h, i, k)
      BY <1>0, <3>1, PlainShape, ArriveShape
    <3>2. CASE StopLoop(h) \/ StopManual(h)
      BY <1>0, <3>2 DEF StopLoop, StopManual
    <3>3. CASE RunNow(h)
      BY <1>0, <3>3, RunNowShape DEF TypeOK
    <3>4. CASE ReconcileStart(h)
      BY <1>0, <3>4, SlotFacts DEF ReconcileStart, StartInstanceTask, TypeOK
    <3> QED
      BY <2>4, <3>1, <3>2, <3>3, <3>4 DEF RequestStep, PlainRequest
  <2>5. ~Boot
    BY <1>0, BootShape DEF IInv
  <2>6. ~ProcessEnds
    BY <1>0 DEF ProcessEnds
  <2>7. ~StopStep /\ ~\E kind \in StopKinds : StopBegin(kind)
    BY <1>0 DEF StopStep, StopPrimes, StopTasks, StopEnd, StopBegin, taskVars
  <2> QED
    BY <2>1, <2>2, <2>3, <2>4, <2>5, <2>6, <2>7 DEF Next
<1>2. ~Reap(t) /\ ~CancelDelivered(t) /\ ~LoopWake(t) /\ ~ReadRow(t) /\ ~Leave(t) /\ ~Reconnect(t)
      /\ ~Acquire(t)
  BY <1>0 DEF Reap, CancelDelivered, LoopWake, ReadRow, Leave, Reconnect, Acquire, Goto, Critical
<1>3. ~SearchRow(t) /\ ~WriteRow(t) /\ ~DbFails(t)
  <2>1. pc \in [Tasks -> PCs]
    BY <1>0 DEF TypeOK
  <2>2. ~SearchRow(t)
    BY <1>0, <2>1 DEF SearchRow
  <2>3. ~WriteRow(t)
    <3>1. pc[t] \in Writing => Written[pc[t]] # "sleep"
      BY DEF Writing, Written
    <3> QED
      BY <1>0, <2>1, <3>1 DEF WriteRow
  <2>4. ~DbFails(t)
    BY <1>0, <2>1 DEF DbFails, Critical
  <2> QED
    BY <2>2, <2>3, <2>4
<1>4. ~UnreachableDone(t)
  BY <1>0 DEF UnreachableDone, Remembered, OwnRows
<1>5. ~CycleUnreachable(t) /\ ~CycleEngineError(t)
  BY <1>0 DEF CycleUnreachable, CycleEngineError, EndCycle, AfterLock, TypeOK
<1>6. CASE CycleOk(t)
  BY <1>0, <1>6 DEF CycleOk, dbVars, TypeOK
<1>7. CASE PairDone(t) \/ EngineErrorDone(t)
  BY <1>7 DEF PairDone, EngineErrorDone, dbVars
<1> QED
  BY <1>1, <1>2, <1>3, <1>4, <1>5, <1>6, <1>7 DEF TaskStep

\* Under the same conditions a loop that goes to sleep after a cycle that reached the
\* instance leaves no unanswered error row on its card (CHANGELOG.md:66).
THEOREM SuccessesAnswer ==
  ASSUME OnlyAdds
  PROVE  ReconnectSpec => SuccessAnswersError
<1>1. Init /\ calm = TRUE => ReconnectInv
  BY ReconnectStarts
<1>2. ReconnectInv /\ ReconnectStep => ReconnectInv'
  BY ReconnectGoesOn
<1>3. ReconnectInv /\ ReconnectStep => [calm' => ErrorAnswered]_vars
  <2> SUFFICES ASSUME ReconnectInv, ReconnectStep, calm', ~UNCHANGED vars,
                      NEW t \in Loops, pc[t] \in Critical, pc'[t] = "sleep", ~inRetry[t],
                      newest'[inst[t]] = "unreachable"
               PROVE  FALSE
    BY DEF ErrorAnswered
  <2>1. calm /\ ~Fault /\ [Next]_vars
    BY DEF ReconnectStep
  <2>2. /\ newest' = newest
        /\ \/ inst[t] \notin manualErrorOpen /\ pc[t] \in {"search", "rows"}
           \/ pc[t] \in {"paired", "engWritten"}
    BY <2>1, GoesToSleep DEF ReconnectInv
  <2>3. t \in Tasks /\ Alive(t) /\ inst[t] \in Instances /\ pc[t] # "errWritten"
    BY SlotFacts DEF Critical, Alive, ReconnectInv, IInv, TypeOK
  <2>4. ~InStreak(inst[t])
    <3>1. ASSUME NEW u \in Loops, Remembers(u, inst[t]) PROVE FALSE
      <4>1. u = t
        BY <2>3, <3>1, OneLoop DEF Remembers, ReconnectInv, Remembered
      <4> QED
        BY <2>3, <3>1, <4>1 DEF Remembers
    <3> QED
      BY <3>1 DEF InStreak
  <2>5. \A u \in Tasks : pc[u] = "unrWritten" => inst[u] # inst[t]
    <3>1. ASSUME NEW u \in Tasks, pc[u] = "unrWritten", inst[u] = inst[t] PROVE FALSE
      <4>1. u = t
        BY <2>3, <3>1, OneInside DEF ReconnectInv, Critical
      <4> QED
        BY <2>2, <3>1, <4>1
    <3> QED
      BY <3>1
  <2> QED
    BY <2>1, <2>2, <2>3, <2>4, <2>5 DEF ReconnectInv, Answerable, Remembered, EngineShown
<1> QED
  BY <1>1, <1>2, <1>3, PTL DEF ReconnectSpec, ReconnectStep, SuccessAnswersError
=============================================================================
