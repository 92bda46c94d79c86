----------------------------- MODULE ProcessProofs -----------------------------
(***************************************************************************)
(* Theorems about Process: what a factory reset leaves behind, wherever it *)
(* fails or is killed, for any number of resets, kills and requests.       *)
(*                                                                         *)
(* Theorems about Migrations: no start loses a cooldown, and the start     *)
(* implements SchemaUpgrade.  For the first, the scripts drop the table    *)
(* the cooldowns refer to at two statements, and what holds there is       *)
(* carried along from a few statements before: no transaction is open when *)
(* foreign keys are switched off, and then they are off.  For the second,  *)
(* what the ladder has converted is told by where it is and by what is     *)
(* left of the old schema, and a fill-in waits for its commit at two       *)
(* statements of the ladder only.                                          *)
(***************************************************************************)
EXTENDS Process, Migrations, TLAPS, SequenceTheorems

Boots == {"off", "key", "keyWrite", "schema", "migrate", "list", "loops"}
Lives == Boots \cup {"serving", "stopping", "closed"}
KeyKnown == {"schema", "migrate", "list", "loops", "serving"}
Emptied == {"unlinkKey", "schema", "migrate", "key", "keyWrite", "start"}
Steps == Loops \cup {"idle", "close", "unlink", "failed"} \cup Emptied

Types ==
  /\ life \in Lives
  /\ rows \subseteq Keys /\ keyFile \in Nat /\ minted \in Nat /\ request \in {None} \cup Keys
  /\ alive \in [Loops -> SUBSET (Resets \cup {Boot})]
  /\ state \in [Loops -> Resets \cup {Boot, NoLoop}]
  /\ reset \in [Resets -> Steps]
  /\ crossed \in BOOLEAN

(* Requests and resets are there while the process serves, and loops from   *)
(* then on.                                                                 *)
Quiet == \A r \in Resets : reset[r] = "idle"
Outside ==
  /\ life # "serving" => request = None /\ Quiet
  /\ life \in Boots => \A k \in Loops : alive[k] = {}

Whole(k) == \E who \in Resets \cup {Boot} : alive[k] = {who} /\ state[k] = who

(* What a reset finds and has done, step by step, when nothing crosses it.  *)
Alone(r) ==
  /\ \A s \in Resets : reset[s] # "idle" => s = r
  /\ request = None
  /\ reset[r] = "supervisor" => \A k \in Loops : Whole(k)
  /\ reset[r] = "retention" =>
       alive["supervisor"] = {} /\ Whole("retention") /\ Whole("sweep")
  /\ reset[r] = "sweep" =>
       alive["supervisor"] = {} /\ alive["retention"] = {} /\ Whole("sweep")
  /\ reset[r] \in {"close", "unlink"} \cup Emptied => \A k \in Loops : alive[k] = {}
  /\ reset[r] \in Emptied => rows = {}
  /\ reset[r] = "start" => key = keyFile

Orderly ==
  /\ rows \subseteq {keyFile}
  /\ life = "keyWrite" => keyFile = Torn
  /\ request # None => request = keyFile
  /\ life \in KeyKnown /\ Quiet => key = keyFile
  /\ life = "serving" /\ Quiet => \A k \in Loops : Whole(k)
  /\ \A r \in Resets : reset[r] # "idle" => Alone(r)

IInv == Types /\ Outside /\ (crossed \/ Orderly)
-----------------------------------------------------------------------------
LEMMA InitHolds == ProcessInit => IInv
<1> SUFFICES ASSUME ProcessInit PROVE IInv
  OBVIOUS
<1>1. Types
  BY DEF ProcessInit, Types, Lives, Boots, Keys, None, Boot, NoLoop, AtRest, Steps, Emptied
<1>2. Outside
  BY DEF ProcessInit, Outside, Quiet, AtRest
<1>3. Orderly
  BY DEF ProcessInit, Orderly, KeyKnown, AtRest
<1> QED BY <1>1, <1>2, <1>3 DEF IInv

(* The lifespan up to the first loop: no request, no reset, no loop.        *)
LEMMA BootKeeps ==
  ASSUME IInv, BootStep
  PROVE  IInv'
<1> USE BoundsOK, ResetsOK
<1>1. Types /\ Outside /\ (crossed \/ Orderly) /\ Torn \in Nat /\ Torn \notin Keys /\ None \notin Keys
  BY DEF IInv, Torn, Keys, None
<1>2. CASE Start
  BY <1>1, <1>2 DEF Start, diskVars, loopVars, bounds, IInv, Types, Outside, Orderly, Alone, Whole,
     Quiet, Boots, Lives, KeyKnown, None
<1>3. CASE LoadKey
  <2>1. Types' /\ Outside'
    BY <1>1, <1>3 DEF LoadKey, CreateKey, diskVars, loopVars, bounds, Types, Outside, Quiet, Boots, Lives
  <2>2. ASSUME Orderly PROVE Orderly'
    <3>1. keyFile = None => rows = {}
      BY <1>1, <2>2 DEF Orderly, Types
    <3> QED BY <1>1, <1>3, <2>2, <3>1 DEF LoadKey, CreateKey, diskVars, loopVars, bounds, Outside,
        Orderly, Quiet, Boots, KeyKnown
  <2> QED BY <1>1, <1>3, <2>1, <2>2 DEF IInv, LoadKey
<1>4. CASE NewKey
  <2>1. Types' /\ Outside'
    BY <1>1, <1>4 DEF NewKey, WriteKey, diskVars, loopVars, bounds, Types, Outside, Quiet, Boots, Lives
  <2>2. ASSUME Orderly PROVE Orderly'
    <3>1. rows = {}
      BY <1>1, <1>4, <2>2 DEF Orderly, Types, NewKey
    <3> QED BY <1>1, <1>4, <2>2, <3>1 DEF NewKey, WriteKey, diskVars, loopVars, bounds, Outside,
        Orderly, Quiet, Boots, KeyKnown
  <2> QED BY <1>1, <1>4, <2>1, <2>2 DEF IInv, NewKey
<1>5. CASE MakeSchema \/ RunMigrations
  <2>1. /\ life \in {"schema", "migrate"} /\ life' \in {"migrate", "list"}
        /\ UNCHANGED <<rows, keyFile, key, loopVars, reset, request, crossed, bounds>>
    BY <1>5 DEF MakeSchema, RunMigrations
  <2>2. Types' /\ Outside'
    BY <1>1, <2>1 DEF loopVars, bounds, Types, Outside, Quiet, Boots, Lives
  <2>3. Orderly => Orderly'
    BY <1>1, <2>1 DEF loopVars, bounds, Outside, Orderly, Quiet, Boots, KeyKnown
  <2> QED BY <1>1, <2>1, <2>2, <2>3 DEF IInv
<1>6. CASE ListInstances
  <2>1. Types' /\ Outside'
    BY <1>1, <1>6 DEF ListInstances, diskVars, loopVars, bounds, Types, Outside, Quiet, Boots, Lives
  <2>2. Orderly => Orderly'
    BY <1>1, <1>6 DEF ListInstances, diskVars, loopVars, bounds, Outside, Orderly, Quiet, Boots, KeyKnown
  <2> QED BY <1>1, <1>6, <2>1, <2>2 DEF IInv, ListInstances
<1>7. CASE BootLoops
  <2>1. Types' /\ Outside'
    BY <1>1, <1>7 DEF BootLoops, StartLoops, diskVars, loopVars, bounds, Types, Outside, Quiet, Boots, Lives
  <2>2. \A k \in Loops : alive'[k] = {Boot} /\ state'[k] = Boot
    BY <1>1, <1>7 DEF BootLoops, StartLoops, Outside, Boots
  <2>3. Orderly => Orderly'
    BY <1>1, <1>7, <2>2 DEF BootLoops, diskVars, loopVars, bounds, Outside, Orderly, Quiet, KeyKnown, Whole
  <2> QED BY <1>1, <1>7, <2>1, <2>3 DEF IInv, BootLoops
<1> QED BY <1>2, <1>3, <1>4, <1>5, <1>6, <1>7 DEF BootStep

(* The end of the process leaves the disk as it is.                         *)
LEMMA GoneKeeps ==
  ASSUME IInv, Gone
  PROVE  IInv'
<1>1. Types /\ (crossed \/ Orderly)
  BY DEF IInv
<1>2. Types'
  <2>1. alive' \in [Loops -> SUBSET (Resets \cup {Boot})] /\ state' \in [Loops -> Resets \cup {Boot, NoLoop}]
        /\ reset' \in [Resets -> Steps]
    BY DEF Gone, AtRest, Steps
  <2> QED BY <1>1, <2>1 DEF Gone, diskVars, Types, Lives, Boots
<1>3. Outside'
  BY DEF Gone, Outside, Quiet, AtRest
<1>4. Orderly => Orderly'
  BY DEF Gone, diskVars, Orderly, KeyKnown, AtRest, Alone
<1>5. crossed' = crossed
  BY DEF Gone
<1> QED BY <1>1, <1>2, <1>3, <1>4, <1>5 DEF IInv

LEMMA ExitKeeps ==
  ASSUME IInv, Shutdown \/ ClosePools \/ Exit \/ KillProcess \/ \E r \in Resets : DelayedExit(r)
  PROVE  IInv'
<1>1. Types /\ Outside /\ (crossed \/ Orderly)
  BY DEF IInv
<1>2. CASE Shutdown
  <2>1. /\ life = "serving" /\ life' = "stopping" /\ Quiet /\ request = None
        /\ alive' = [k \in Loops |-> alive[k] \ {Boot}]
        /\ UNCHANGED <<diskVars, key, state, reset, request, crossed, minted>>
    BY <1>2 DEF Shutdown, Resetting, Quiet
  <2>2. Types' /\ Outside'
    BY <1>1, <2>1 DEF diskVars, Types, Outside, Quiet, Boots, Lives
  <2>3. Orderly => Orderly'
    BY <1>1, <2>1 DEF diskVars, Orderly, Quiet, KeyKnown
  <2> QED BY <1>1, <2>1, <2>2, <2>3 DEF IInv
<1>3. CASE ClosePools
  <2>1. Types' /\ Outside'
    BY <1>1, <1>3 DEF ClosePools, diskVars, loopVars, bounds, Types, Outside, Quiet, Boots, Lives
  <2>2. Orderly => Orderly'
    BY <1>1, <1>3 DEF ClosePools, diskVars, loopVars, Outside, Orderly, Quiet, KeyKnown
  <2> QED BY <1>1, <1>3, <2>1, <2>2 DEF IInv, ClosePools
<1>4. CASE Exit \/ KillProcess \/ \E r \in Resets : DelayedExit(r)
  BY <1>4, GoneKeeps DEF Exit, KillProcess, DelayedExit
<1> QED BY <1>2, <1>3, <1>4
-----------------------------------------------------------------------------
(* A step of a reset: it goes from one place to another, and nothing but    *)
(* Alone speaks of it meanwhile.                                            *)
LEMMA ResetGoesOn ==
  ASSUME IInv, NEW r \in Resets, NEW next \in Steps \ {"idle"}, Goes(r, next),
         reset[r] # "idle", Types', life = "serving", UNCHANGED <<life, request, crossed>>,
         Orderly => (rows' \subseteq {keyFile'}),
         (Orderly /\ Alone(r)) =>
           /\ reset'[r] = "supervisor" => \A k \in Loops : Whole(k)'
           /\ reset'[r] = "retention" =>
                alive'["supervisor"] = {} /\ Whole("retention")' /\ Whole("sweep")'
           /\ reset'[r] = "sweep" =>
                alive'["supervisor"] = {} /\ alive'["retention"] = {} /\ Whole("sweep")'
           /\ reset'[r] \in {"close", "unlink"} \cup Emptied => \A k \in Loops : alive'[k] = {}
           /\ reset'[r] \in Emptied => rows' = {}
           /\ reset'[r] = "start" => key' = keyFile'
  PROVE  IInv'
<1>1. Types /\ Outside /\ (crossed \/ Orderly)
  BY DEF IInv
<1>2. reset' = [reset EXCEPT ![r] = next] /\ reset'[r] = next
      /\ \A s \in Resets : s # r => reset'[s] = reset[s]
  BY <1>1 DEF Goes, Types
<1>3. Outside'
  BY <1>1 DEF Outside, Boots
<1>4. ASSUME Orderly PROVE Orderly'
  <2>1. Alone(r)
    BY <1>4 DEF Orderly
  <2>2. Alone(r)'
    <3>1. \A s \in Resets : reset'[s] # "idle" => s = r
      BY <1>2, <2>1 DEF Alone
    <3>2. request' = None
      BY <2>1 DEF Alone
    <3> QED BY <1>4, <2>1, <3>1, <3>2 DEF Alone
  <2>3. \A s \in Resets : reset'[s] # "idle" => s = r
    BY <2>2 DEF Alone
  <2>4. ~Quiet'
    BY <1>2 DEF Quiet
  <2> QED BY <1>4, <2>1, <2>2, <2>3, <2>4 DEF Orderly, Alone
<1> QED BY <1>1, <1>3, <1>4 DEF IInv

(* The steps of a reset from the close of the pool on leave the loops alone. *)
LEMMA EmptiedGoesOn ==
  ASSUME IInv, NEW r \in Resets, NEW next \in {"unlink", "failed"} \cup Emptied, Goes(r, next),
         reset[r] \in {"close", "unlink"} \cup Emptied, life = "serving",
         UNCHANGED <<life, alive, state, request, crossed>>,
         rows' = {} \/ (rows' = rows /\ (reset[r] \in Emptied
                                        \/ (next \notin Emptied /\ keyFile' = keyFile))),
         keyFile' \in Nat, minted' \in Nat, next = "start" => key' = keyFile'
  PROVE  IInv'
<1>1. Types
  BY DEF IInv
<1>2. next \in Steps \ {"idle"} /\ reset[r] # "idle" /\ reset'[r] = next
  BY <1>1 DEF Goes, Types, Steps, Emptied
<1>3. Types'
  BY <1>1, <1>2 DEF Types, Goes
<1>4. next \notin {"supervisor", "retention", "sweep"}
  BY DEF Emptied
<1>5. ASSUME Orderly PROVE rows' \subseteq {keyFile'}
  <2>1. Alone(r) /\ rows \subseteq {keyFile}
    BY <1>2, <1>5 DEF Orderly
  <2> QED BY <2>1 DEF Alone
<1>6. ASSUME Alone(r)
      PROVE  /\ \A k \in Loops : alive'[k] = {}
             /\ next \in Emptied => rows' = {}
  BY <1>6 DEF Alone
<1> QED BY <1>2, <1>3, <1>4, <1>5, <1>6, ResetGoesOn

LEMMA ResetKeeps ==
  ASSUME IInv, NEW r \in Resets,
         (\E k \in Loops : StopLoop(r, k)) \/ ClosePool(r) \/ UnlinkDatabase(r) \/ UnlinkKey(r)
         \/ ResetSchema(r) \/ ResetUpgrade(r) \/ ResetLoadKey(r) \/ ResetNewKey(r)
         \/ FailReset(r) \/ FailUnlinkKey(r)
  PROVE  IInv'
<1> USE BoundsOK DEF Serving
<1>1. Types /\ Outside /\ Torn \in Nat /\ None \in Nat
  BY DEF IInv, Torn, None
<1>2. CASE \E k \in Loops : StopLoop(r, k)
  <2>1. PICK k \in Loops : StopLoop(r, k)
    BY <1>2
  <2>2. /\ alive' = [alive EXCEPT ![k] = @ \ {state[k]}] /\ state' = [state EXCEPT ![k] = NoLoop]
        /\ reset[r] = k /\ Goes(r, NextLoop[k]) /\ life = "serving"
        /\ UNCHANGED <<life, rows, keyFile, key, minted, request, crossed>>
    BY <2>1 DEF StopLoop, Stop, diskVars, bounds
  <2>3. NextLoop[k] \in Steps \ {"idle"}
        /\ (k = "supervisor" => NextLoop[k] = "retention")
        /\ (k = "retention" => NextLoop[k] = "sweep") /\ (k = "sweep" => NextLoop[k] = "close")
    BY DEF NextLoop, Loops, Steps
  <2>4. Types'
    BY <1>1, <2>2, <2>3 DEF Types, Goes
  <2>5. reset'[r] = NextLoop[k] /\ reset[r] # "idle"
    BY <1>1, <2>2 DEF Types, Goes, Loops
  <2>6. \A j \in Loops : j # k => alive'[j] = alive[j] /\ state'[j] = state[j]
    BY <1>1, <2>2 DEF Types
  <2>7. Whole(k) => alive'[k] = {}
    BY <1>1, <2>2 DEF Types, Whole
  <2>8. \A j \in Loops : j # k /\ Whole(j) => Whole(j)'
    BY <2>6 DEF Whole
  <2>9. Orderly => rows' \subseteq {keyFile'}
    BY <2>2 DEF Orderly
  <2>10. ASSUME Alone(r)
         PROVE  /\ reset'[r] = "supervisor" => \A j \in Loops : Whole(j)'
                /\ reset'[r] = "retention" =>
                     alive'["supervisor"] = {} /\ Whole("retention")' /\ Whole("sweep")'
                /\ reset'[r] = "sweep" =>
                     alive'["supervisor"] = {} /\ alive'["retention"] = {} /\ Whole("sweep")'
                /\ reset'[r] \in {"close", "unlink"} \cup Emptied => \A j \in Loops : alive'[j] = {}
                /\ reset'[r] \in Emptied => rows' = {}
                /\ reset'[r] = "start" => key' = keyFile'
    <3>1. CASE k = "supervisor"
      BY <2>2, <2>3, <2>5, <2>7, <2>8, <2>10, <3>1 DEF Alone, Loops, Emptied
    <3>2. CASE k = "retention"
      BY <2>2, <2>3, <2>5, <2>6, <2>7, <2>8, <2>10, <3>2 DEF Alone, Loops, Emptied
    <3>3. CASE k = "sweep"
      BY <2>2, <2>3, <2>5, <2>6, <2>7, <2>10, <3>3 DEF Alone, Loops, Emptied
    <3> QED BY <3>1, <3>2, <3>3 DEF Loops
  <2> QED BY <2>2, <2>3, <2>4, <2>5, <2>9, <2>10, ResetGoesOn
<1>3. CASE ClosePool(r)
  <2>1. /\ Goes(r, "unlink") /\ reset[r] = "close" /\ life = "serving"
        /\ UNCHANGED <<life, rows, keyFile, key, minted, alive, state, request, crossed>>
    BY <1>3 DEF ClosePool, diskVars, loopVars, bounds
  <2> QED BY <1>1, <2>1, EmptiedGoesOn DEF Types, Emptied
<1>4. CASE UnlinkDatabase(r)
  <2>1. /\ Goes(r, "unlinkKey") /\ reset[r] = "unlink" /\ life = "serving"
        /\ rows' = {}
        /\ UNCHANGED <<life, keyFile, key, minted, alive, state, request, crossed>>
    BY <1>4 DEF UnlinkDatabase, diskVars, loopVars, bounds
  <2> QED BY <1>1, <2>1, EmptiedGoesOn DEF Types, Emptied
<1>5. CASE UnlinkKey(r)
  <2>1. /\ Goes(r, "schema") /\ reset[r] = "unlinkKey" /\ life = "serving"
        /\ keyFile' = None
        /\ UNCHANGED <<life, rows, key, minted, alive, state, request, crossed>>
    BY <1>5 DEF UnlinkKey, diskVars, loopVars, bounds
  <2> QED BY <1>1, <2>1, EmptiedGoesOn DEF Types, Emptied
<1>6. CASE ResetSchema(r)
  <2>1. /\ Goes(r, "migrate") /\ reset[r] = "schema" /\ life = "serving"
        /\ UNCHANGED <<life, rows, keyFile, key, minted, alive, state, request, crossed>>
    BY <1>6 DEF ResetSchema, diskVars, loopVars, bounds
  <2> QED BY <1>1, <2>1, EmptiedGoesOn DEF Types, Emptied
<1>7. CASE ResetUpgrade(r)
  <2>1. /\ Goes(r, "key") /\ reset[r] = "migrate" /\ life = "serving"
        /\ UNCHANGED <<life, rows, keyFile, key, minted, alive, state, request, crossed>>
    BY <1>7 DEF ResetUpgrade, diskVars, loopVars, bounds
  <2> QED BY <1>1, <2>1, EmptiedGoesOn DEF Types, Emptied
<1>8. CASE ResetLoadKey(r)
  <2>1. /\ reset[r] = "key" /\ life = "serving"
        /\ UNCHANGED <<life, rows, alive, state, request, crossed, minted>>
        /\ \/ Goes(r, "start") /\ key' = keyFile /\ keyFile' = keyFile
           \/ Goes(r, "keyWrite") /\ keyFile' = Torn
    BY <1>8 DEF ResetLoadKey, CreateKey, loopVars, bounds
  <2> QED BY <1>1, <2>1, EmptiedGoesOn DEF Types, Emptied
<1>9. CASE ResetNewKey(r)
  <2>1. /\ reset[r] = "keyWrite" /\ life = "serving" /\ Goes(r, "start")
        /\ UNCHANGED <<life, rows, alive, state, request, crossed>>
        /\ keyFile' = minted + 1 /\ minted' = minted + 1 /\ key' = keyFile'
    BY <1>9 DEF ResetNewKey, WriteKey, loopVars
  <2> QED BY <1>1, <2>1, EmptiedGoesOn DEF Types, Emptied
<1>10. CASE FailReset(r) \/ FailUnlinkKey(r)
  <2>1. /\ reset[r] \in {"unlink"} \cup Emptied /\ life = "serving" /\ Goes(r, "failed")
        /\ UNCHANGED <<life, rows, keyFile, key, minted, alive, state, request, crossed>>
    BY <1>10 DEF FailReset, FailUnlinkKey, diskVars, loopVars, bounds, Emptied
  <2> QED BY <1>1, <2>1, EmptiedGoesOn DEF Types, Emptied
<1> QED BY <1>2, <1>3, <1>4, <1>5, <1>6, <1>7, <1>8, <1>9, <1>10

(* A reset arrives; another one, or a request, makes it a crossing.         *)
LEMMA BeginKeeps ==
  ASSUME IInv, NEW r \in Resets, BeginReset(r)
  PROVE  IInv'
<1>1. Types /\ Outside /\ (crossed \/ Orderly)
  BY DEF IInv
<1>2. /\ life = "serving" /\ Goes(r, "supervisor") /\ reset[r] = "idle"
      /\ UNCHANGED <<life, rows, keyFile, key, alive, state, request, minted>>
      /\ crossed' \in BOOLEAN
      /\ ~crossed' => ~crossed /\ Quiet /\ request = None
  BY <1>1 DEF BeginReset, Serving, Resetting, Quiet, diskVars, loopVars, bounds, Types
<1>3. /\ reset' = [reset EXCEPT ![r] = "supervisor"] /\ reset'[r] = "supervisor"
      /\ \A s \in Resets : s # r => reset'[s] = reset[s]
  BY <1>1, <1>2 DEF Goes, Types
<1>4. Types' /\ Outside'
  BY <1>1, <1>2, <1>3 DEF Types, Outside, Steps, Loops, Boots
<1>5. ASSUME ~crossed' PROVE Orderly'
  <2>1. Orderly /\ Quiet /\ request = None
    BY <1>1, <1>2, <1>5
  <2>2. \A s \in Resets : reset'[s] # "idle" => s = r
    BY <1>3, <2>1 DEF Quiet
  <2>3. \A k \in Loops : Whole(k)'
    BY <1>2, <2>1 DEF Orderly, Whole
  <2>4. Alone(r)'
    BY <1>2, <1>3, <2>1, <2>2, <2>3 DEF Alone, Emptied
  <2> QED BY <1>2, <1>3, <2>1, <2>2, <2>4 DEF Orderly, Quiet
<1> QED BY <1>4, <1>5 DEF IInv

(* The reset has started the loops again.                                   *)
LEMMA RespawnKeeps ==
  ASSUME IInv, NEW r \in Resets, Respawn(r)
  PROVE  IInv'
<1>1. Types /\ Outside /\ (crossed \/ Orderly)
  BY DEF IInv
<1>2. /\ life = "serving" /\ Goes(r, "idle") /\ reset[r] = "start" /\ StartLoops(r)
      /\ UNCHANGED <<life, rows, keyFile, key, request, minted, crossed>>
  BY DEF Respawn, Serving, diskVars, bounds
<1>3. /\ reset' = [reset EXCEPT ![r] = "idle"] /\ reset'[r] = "idle"
      /\ \A s \in Resets : s # r => reset'[s] = reset[s]
  BY <1>1, <1>2 DEF Goes, Types
<1>4. \A k \in Loops : alive'[k] = alive[k] \cup {r} /\ state'[k] = r
  BY <1>2 DEF StartLoops
<1>5. Types' /\ Outside'
  <2>1. alive' \in [Loops -> SUBSET (Resets \cup {Boot})] /\ state' \in [Loops -> Resets \cup {Boot, NoLoop}]
    BY <1>1, <1>2 DEF StartLoops, Types
  <2> QED BY <1>1, <1>2, <1>3, <2>1 DEF Types, Outside, Steps, Boots
<1>6. ASSUME Orderly PROVE Orderly'
  <2>1. Alone(r)
    BY <1>2, <1>6 DEF Orderly
  <2>2. (\A k \in Loops : alive[k] = {}) /\ key = keyFile /\ request = None
        /\ \A s \in Resets : reset[s] # "idle" => s = r
    BY <1>2, <2>1 DEF Alone, Emptied
  <2>3. \A k \in Loops : alive'[k] = {r} /\ state'[k] = r
    BY <1>4, <2>2
  <2>4. \A k \in Loops : Whole(k)'
    BY <2>3 DEF Whole
  <2>5. \A s \in Resets : reset'[s] = "idle"
    BY <1>3, <2>2
  <2> QED BY <1>2, <1>6, <2>2, <2>4, <2>5 DEF Orderly
<1> QED BY <1>1, <1>2, <1>5, <1>6 DEF IInv

(* Requests beside it.                                                      *)
LEMMA RequestsKeep ==
  ASSUME IInv, Poll \/ Arrive \/ Insert
  PROVE  IInv'
<1>1. Types /\ Outside /\ (crossed \/ Orderly)
  BY DEF IInv
<1>2. CASE Poll
  <2>1. /\ UNCHANGED <<life, rows, keyFile, key, alive, state, reset, request, minted>>
        /\ crossed' \in BOOLEAN /\ (~crossed' => ~crossed)
    BY <1>1, <1>2 DEF Poll, Serving, loopVars, Types
  <2>2. Types' /\ Outside'
    BY <1>1, <2>1 DEF Types, Outside, Quiet
  <2>3. Orderly => Orderly'
    BY <2>1 DEF Orderly, Quiet, Alone, Whole
  <2> QED BY <1>1, <2>1, <2>2, <2>3 DEF IInv
<1>3. CASE Arrive
  <2>1. /\ UNCHANGED <<life, rows, keyFile, key, alive, state, reset, minted>>
        /\ request' = key /\ key \in Keys /\ life = "serving"
        /\ crossed' \in BOOLEAN /\ (~crossed' => ~crossed /\ Quiet)
    BY <1>1, <1>3 DEF Arrive, Serving, Resetting, Quiet, diskVars, loopVars, Types
  <2>2. Types' /\ Outside'
    BY <1>1, <2>1 DEF Types, Outside, Quiet, Boots
  <2>3. Orderly /\ Quiet => Orderly'
    BY <2>1 DEF Orderly, Quiet, Whole, KeyKnown
  <2> QED BY <1>1, <2>1, <2>2, <2>3 DEF IInv
<1>4. CASE Insert
  <2>1. /\ UNCHANGED <<life, keyFile, key, alive, state, reset, minted, crossed>>
        /\ request' = None /\ request # None /\ (rows' = rows \/ rows' = rows \cup {request})
    BY <1>4 DEF Insert, loopVars, bounds
  <2>2. Types' /\ Outside'
    BY <1>1, <2>1 DEF Types, Outside, Quiet
  <2>3. ASSUME Orderly PROVE Orderly'
    <3>1. rows' \subseteq {keyFile}
      BY <2>1, <2>3 DEF Orderly
    <3>2. Quiet
      BY <2>1, <2>3 DEF Orderly, Alone, Quiet
    <3> QED BY <2>1, <2>3, <3>1, <3>2 DEF Orderly, Quiet, Whole
  <2> QED BY <1>1, <2>1, <2>2, <2>3 DEF IInv
<1> QED BY <1>2, <1>3, <1>4
-----------------------------------------------------------------------------
LEMMA Inductive == ProcessSpec => []IInv
<1>1. IInv /\ [ProcessNext]_processVars => IInv'
  <2> SUFFICES ASSUME IInv, [ProcessNext]_processVars PROVE IInv'
    OBVIOUS
  <2>1. CASE BootStep
    BY <2>1, BootKeeps
  <2>2. CASE Shutdown \/ ClosePools \/ Exit \/ KillProcess
    BY <2>2, ExitKeeps
  <2>3. ASSUME NEW r \in Resets,
               BeginReset(r) \/ ResetStep(r) \/ FailReset(r) \/ FailUnlinkKey(r)
        PROVE  IInv'
    BY <2>3, BeginKeeps, ResetKeeps, RespawnKeeps, ExitKeeps DEF ResetStep
  <2>4. CASE Poll \/ Arrive \/ Insert
    BY <2>4, RequestsKeep
  <2>5. CASE UNCHANGED processVars
    BY <2>5 DEF processVars, diskVars, loopVars, bounds, IInv, Types, Outside, Orderly, Quiet, Alone,
       Whole
  <2> QED BY <2>1, <2>2, <2>3, <2>4, <2>5 DEF ProcessNext
<1> QED BY <1>1, InitHolds, PTL DEF ProcessSpec

(* Every stored API key can be decrypted with the key on disk, wherever any *)
(* number of resets, failures, kills and starts cut each other short, as    *)
(* long as no request crosses a reset (services/admin.py, crypto.py).       *)
THEOREM KeysReadRows == ProcessSpec => []RowsReadable
<1>1. IInv => RowsReadable
  BY DEF IInv, Orderly, RowsReadable
<1> QED BY <1>1, Inductive, PTL

(* From the moment a reset deletes the database until the new one is ready  *)
(* none of the three loops runs, and outside a reset each of them runs      *)
(* exactly once and is the one app.state names (app.py, services/admin.py). *)
THEOREM LoopsAreReset == ProcessSpec => []LoopsFollowReset
<1>1. IInv => LoopsFollowReset
  <2> SUFFICES ASSUME IInv, ~crossed, life = "serving", NEW k \in Loops
               PROVE  IF \E r \in Resets : reset[r] \in {"unlink", "unlinkKey", "schema", "migrate",
                                                         "key", "keyWrite", "start"}
                      THEN alive[k] = {}
                      ELSE Resetting = {} =>
                             \E who \in Resets \cup {Boot} : alive[k] = {who} /\ state[k] = who
    BY DEF LoopsFollowReset
  <2>1. Orderly
    BY DEF IInv
  <2>2. ASSUME NEW r \in Resets,
               reset[r] \in {"unlink", "unlinkKey", "schema", "migrate", "key", "keyWrite", "start"}
        PROVE  alive[k] = {}
    BY <2>1, <2>2 DEF Orderly, Alone, Emptied
  <2>3. Resetting = {} => Whole(k)
    BY <2>1 DEF Orderly, Resetting, Quiet
  <2> QED BY <2>2, <2>3 DEF Whole
<1> QED BY <1>1, Inductive, PTL

-----------------------------------------------------------------------------
(* A statement that drops the table instances, which the cooldowns refer to. *)
Drops(s) == s[1] = "swap" /\ s[2][2] = "instances"

LEMMA AddIs ==
  ASSUME NEW v, NEW n \in Nat
  PROVE  /\ Add(v, n) \in Seq({<<"add", <<v, i>>>> : i \in 1..n})
         /\ Len(Add(v, n)) = n
         /\ \A i \in 1..n : Add(v, n)[i] = <<"add", <<v, i>>>>
<1> DEFINE S == {<<"add", <<v, i>>>> : i \in 1..n}
<1>1. Add(v, n) \in [1..n -> S]
  BY DEF Add
<1>2. Add(v, n) \in Seq(S)
  BY <1>1, SeqDef
<1> HIDE DEF S
<1>3. DOMAIN Add(v, n) = 1..n /\ DOMAIN Add(v, n) = 1..Len(Add(v, n)) /\ Len(Add(v, n)) \in Nat
  BY <1>1, <1>2, LenProperties
<1>4. Len(Add(v, n)) = n
  BY <1>3
<1> QED BY <1>2, <1>4 DEF S, Add

LEMMA RebuildIs ==
  ASSUME NEW v, NEW t
  PROVE  /\ Rebuild(v, t)[1] = <<"create", t>>
         /\ Rebuild(v, t)[2] = <<"copy", <<v, t>> >>
         /\ Rebuild(v, t)[3] = <<"swap", <<v, t>> >>
         /\ Len(Rebuild(v, t)) = 3
         /\ Rebuild(v, t) \in Seq({<<"create", t>>, <<"copy", <<v, t>> >>, <<"swap", <<v, t>> >>})
BY DEF Rebuild

LEMMA Joined ==
  ASSUME NEW m \in Nat, NEW k \in Nat, NEW a, NEW b,
         a = [i \in 1..m |-> a[i]], b = [i \in 1..k |-> b[i]]
  PROVE  /\ a \o b = [i \in 1..(m + k) |-> (a \o b)[i]] /\ Len(a \o b) = m + k
         /\ \A i \in 1..m : (a \o b)[i] = a[i]
         /\ \A i \in (m + 1)..(m + k) : (a \o b)[i] = b[i - m]
<1> DEFINE S == {a[i] : i \in 1..m} \cup {b[i] : i \in 1..k}
<1>1. a \in [1..m -> S] /\ b \in [1..k -> S]
  OBVIOUS
<1>2. a \in Seq(S) /\ b \in Seq(S)
  BY <1>1, SeqDef
<1> HIDE DEF S
<1>3. Len(a) = m /\ Len(b) = k
  BY <1>1, <1>2, LenProperties
<1>4. a \o b \in Seq(S) /\ Len(a \o b) = m + k
      /\ \A i \in 1..(m + k) : (a \o b)[i] = IF i <= m THEN a[i] ELSE b[i - m]
  BY <1>2, <1>3, ConcatProperties
<1>5. a \o b \in [1..(m + k) -> S]
  BY <1>4, LenProperties
<1> QED BY <1>4, <1>5

LEMMA V10Is ==
  /\ Len(V10) = 14
  /\ V10[2][1] = "commit" /\ V10[3][1] = "fk" /\ V10[3][2] = FALSE
  /\ V10[4][1] = "clear" /\ V10[5][1] = "create" /\ V10[6][1] = "copy"
  /\ \A n \in 1..14 : Drops(V10[n]) => n = 7
<1> USE DEF V10, Rebuild
<1>1. Len(V10) = 14
  OBVIOUS
<1>2. V10[2][1] = "commit" /\ V10[3][1] = "fk" /\ V10[3][2] = FALSE
  OBVIOUS
<1>3. V10[4][1] = "clear" /\ V10[5][1] = "create" /\ V10[6][1] = "copy"
  OBVIOUS
<1>4. \A n \in 1..14 : Drops(V10[n]) => n = 7
  BY DEF Drops
<1> QED BY <1>1, <1>2, <1>3, <1>4

LEMMA V5Is ==
  /\ Len(V5) = 15
  /\ V5[1][1] = "commit" /\ V5[2][1] = "fk" /\ V5[2][2] = FALSE
  /\ V5[3][1] = "create" /\ V5[4][1] = "copy"
  /\ \A n \in 1..15 : Drops(V5[n]) => n = 5
<1> DEFINE tables == << <<"commit">>, <<"fk", FALSE>> >>
                        \o Rebuild(5, "instances") \o Rebuild(5, "cooldowns")
                        \o Rebuild(5, "search_log")
           columns == Add(5, 3)
           on == << <<"fk", TRUE>> >>
<1>1. V5 = tables \o columns \o on
  BY DEF V5
<1>2. tables = [i \in 1..11 |-> tables[i]] /\ on = [i \in 1..1 |-> on[i]]
  BY DEF Rebuild
<1>3. columns = [i \in 1..3 |-> columns[i]]
  BY DEF Add
<1>4. \A i \in 1..3 : columns[i][1] = "add"
  BY DEF Add
<1>5. tables[1][1] = "commit" /\ tables[2][1] = "fk" /\ tables[2][2] = FALSE
  BY DEF Rebuild
<1>6. tables[3][1] = "create" /\ tables[4][1] = "copy"
  BY DEF Rebuild
<1>7. \A n \in 1..11 : Drops(tables[n]) => n = 5
  BY DEF Drops, Rebuild
<1>8. on[1][1] = "fk"
  OBVIOUS
<1> HIDE DEF tables, columns, on
<1> DEFINE most == tables \o columns
<1>9. /\ most = [i \in 1..14 |-> most[i]]
      /\ \A i \in 1..11 : most[i] = tables[i]
      /\ \A i \in 12..14 : most[i] = columns[i - 11]
  BY <1>2, <1>3, Joined
<1> HIDE DEF most
<1>10. /\ Len(V5) = 15
       /\ \A i \in 1..14 : V5[i] = most[i]
       /\ V5[15] = on[1]
  <2>1. V5 = most \o on
    BY <1>1 DEF most
  <2> QED BY <2>1, <1>2, <1>9, Joined
<1>11. \A n \in 1..15 : Drops(V5[n]) => n = 5
  BY <1>4, <1>7, <1>8, <1>9, <1>10 DEF Drops
<1>12. V5[1] = tables[1] /\ V5[2] = tables[2] /\ V5[3] = tables[3] /\ V5[4] = tables[4]
  BY <1>9, <1>10
<1> QED BY <1>5, <1>6, <1>10, <1>11, <1>12

LEMMA V16Is == \A n \in 1..Len(V16) : ~Drops(V16[n])
BY DEF V16, Rebuild, Drops
LEMMA V15Is == \A n \in 1..Len(V15) : ~Drops(V15[n])
BY DEF V15, Rebuild, Drops
LEMMA V6Is == \A n \in 1..Len(V6) : ~Drops(V6[n])
BY DEF V6, Drops
LEMMA V14Is == Len(V14) = 3 /\ \A n \in 1..Len(V14) : ~Drops(V14[n])
<1> DEFINE column == Add(14, 1)
           fill == << <<"unless", "filled">>, <<"fill">> >>
<1>1. V14 = column \o fill
  BY DEF V14
<1>2. column = [i \in 1..1 |-> column[i]] /\ column[1][1] = "add"
  BY DEF Add
<1>3. fill = [i \in 1..2 |-> fill[i]] /\ fill[1][1] = "unless" /\ fill[2][1] = "fill"
  OBVIOUS
<1> HIDE DEF column, fill
<1>4. Len(V14) = 3 /\ V14[1] = column[1] /\ V14[2] = fill[1] /\ V14[3] = fill[2]
  BY <1>1, <1>2, <1>3, Joined
<1> QED BY <1>2, <1>3, <1>4 DEF Drops

LEMMA AddsScripts ==
  ASSUME NEW v \in (2..4) \cup (7..9) \cup (11..13) \cup (17..21)
  PROVE  \/ Script(v) = Add(v, 1) \/ Script(v) = Add(v, 2) \/ Script(v) = Add(v, 3)
         \/ Script(v) = Add(v, 4) \/ Script(v) = Add(v, 10)
<1>1. /\ Script(2) = Add(2, 4) /\ Script(3) = Add(3, 2) /\ Script(4) = Add(4, 1)
      /\ Script(7) = Add(7, 1) /\ Script(8) = Add(8, 10) /\ Script(9) = Add(9, 2)
  BY DEF Script, Ladder, V2, V3, V4, V7, V8, V9
<1>2. /\ Script(11) = Add(11, 1) /\ Script(12) = Add(12, 1) /\ Script(13) = Add(13, 3)
  BY DEF Script, Ladder, V11, V12, V13
<1>3. /\ Script(17) = Add(17, 1) /\ Script(18) = Add(18, 1) /\ Script(19) = Add(19, 1)
      /\ Script(20) = Add(20, 2) /\ Script(21) = Add(21, 2)
  BY DEF Script, Ladder, V17, V18, V19, V20, V21
<1>4. v \in {2, 3, 4, 7, 8, 9, 11, 12, 13, 17, 18, 19, 20, 21}
  OBVIOUS
<1> QED BY <1>1, <1>2, <1>3, <1>4

LEMMA AddsOnly ==
  ASSUME NEW v, NEW n \in Nat
  PROVE  \A i \in 1..Len(Add(v, n)) : ~Drops(Add(v, n)[i])
<1> SUFFICES ASSUME NEW i \in 1..Len(Add(v, n)) PROVE ~Drops(Add(v, n)[i])
  OBVIOUS
<1>1. i \in 1..n
  BY AddIs
<1>2. Add(v, n)[i] = <<"add", <<v, i>> >>
  BY <1>1, AddIs
<1> QED BY <1>2 DEF Drops

(* The ladder drops that table in two versions, at a place of each script.  *)
LEMMA Dropping ==
  ASSUME NEW v \in 2..Current, NEW n \in 1..Len(Script(v)), Drops(Script(v)[n])
  PROVE  (v = 5 /\ n = 5) \/ (v = 10 /\ n = 7)
<1> USE DEF Current
<1>1. CASE v \in {5, 10}
  <2>1. Script(5) = V5 /\ Script(10) = V10
    BY DEF Script, Ladder
  <2> QED BY <1>1, <2>1, V5Is, V10Is
<1>2. CASE v \in {6, 14, 15, 16}
  <2>1. Script(6) = V6 /\ Script(14) = V14 /\ Script(15) = V15 /\ Script(16) = V16
    BY DEF Script, Ladder
  <2> QED BY <1>2, <2>1, V6Is, V14Is, V15Is, V16Is
<1>3. CASE v \in (2..4) \cup (7..9) \cup (11..13) \cup (17..21)
  <2>1. \/ Script(v) = Add(v, 1) \/ Script(v) = Add(v, 2) \/ Script(v) = Add(v, 3)
        \/ Script(v) = Add(v, 4) \/ Script(v) = Add(v, 10)
    BY <1>3, AddsScripts
  <2> QED BY <2>1, AddsOnly
<1> QED BY <1>1, <1>2, <1>3

LEMMA ScriptsAreNotEmpty == \A v \in 2..Current : Len(Script(v)) \in Nat \ {0}
<1>1. Len(V5) = 15 /\ Len(V10) = 14
  BY V5Is, V10Is
<1>2. Len(V6) = 4
  BY DEF V6
<1>3. Len(V14) = 3
  BY V14Is
<1>4. Len(V15) = 8
  BY DEF V15, Rebuild
<1>5. Len(V16) = 13
  BY DEF V16, Rebuild
<1> SUFFICES ASSUME NEW v \in 2..Current PROVE Len(Script(v)) \in Nat \ {0}
  OBVIOUS
<1>6. CASE v \in {5, 6, 10, 14, 15, 16}
  <2>1. /\ Script(5) = V5 /\ Script(6) = V6 /\ Script(10) = V10 /\ Script(14) = V14
        /\ Script(15) = V15 /\ Script(16) = V16
    BY DEF Script, Ladder
  <2> QED BY <1>1, <1>2, <1>3, <1>4, <1>5, <1>6, <2>1
<1>7. CASE v \in (2..4) \cup (7..9) \cup (11..13) \cup (17..21)
  <2>1. \/ Script(v) = Add(v, 1) \/ Script(v) = Add(v, 2) \/ Script(v) = Add(v, 3)
        \/ Script(v) = Add(v, 4) \/ Script(v) = Add(v, 10)
    BY <1>7, AddsScripts
  <2>2. \A n \in Nat : Len(Add(v, n)) = n
    BY AddIs
  <2> QED BY <2>1, <2>2
<1> QED BY <1>6, <1>7 DEF Current

-----------------------------------------------------------------------------
(* A database that has every cooldown row the other one had.                *)
Sound(db, was) ==
  /\ db = [version |-> db.version, columns |-> db.columns, checks |-> db.checks, temp |-> db.temp,
           app |-> db.app, hours |-> db.hours, type |-> db.type, kind |-> db.kind, log |-> db.log,
           filled |-> db.filled]
  /\ db.kind = [i \in Items |-> db.kind[i]]
  /\ \A i \in Items : was.kind[i] # Absent => db.kind[i] # Absent
Kept == Sound(disk, origin) /\ Sound(work, origin)

(* Where the start is: outside of a script, or at one of its statements.    *)
Elsewhere == {<<x, 0, 0>> : x \in {"schema", "purge", "version", "stamp", "stamped", "finish",
                                   "up", "off"}}
InScript(v, n) == v \in 2..Current /\ n \in 1..Len(Script(v))
Places == at \in Elsewhere \/ \E x \in {"ladder", "heal"} : \E v, n : at = <<x, v, n>> /\ InScript(v, n)

(* Before the table is dropped: no transaction is open at the statement     *)
(* that switches foreign keys off, and from then on they are off.           *)
Prepared ==
  /\ (at[2] = 5 /\ at[3] = 2) \/ (at[2] = 10 /\ at[3] = 3) => open = FALSE
  /\ (at[2] = 5 /\ at[3] \in 3..5) \/ (at[2] = 10 /\ at[3] \in 4..7) => fk = FALSE

BootInv == Kept /\ Places /\ Prepared

LEMMA SoundFields ==
  ASSUME NEW db, NEW was, Sound(db, was), NEW x
  PROVE  /\ Sound([db EXCEPT !.version = x], was) /\ Sound([db EXCEPT !.columns = x], was)
         /\ Sound([db EXCEPT !.checks = x], was) /\ Sound([db EXCEPT !.temp = x], was)
         /\ Sound([db EXCEPT !.app = x], was) /\ Sound([db EXCEPT !.hours = x], was)
         /\ Sound([db EXCEPT !.type = x], was) /\ Sound([db EXCEPT !.log = x], was)
         /\ Sound([db EXCEPT !.filled = x], was)
<1>1. Sound([db EXCEPT !.version = x], was)
  BY DEF Sound
<1>2. Sound([db EXCEPT !.columns = x], was)
  BY DEF Sound
<1>3. Sound([db EXCEPT !.checks = x], was)
  BY DEF Sound
<1>4. Sound([db EXCEPT !.temp = x], was)
  BY DEF Sound
<1>5. Sound([db EXCEPT !.app = x], was)
  BY DEF Sound
<1>6. Sound([db EXCEPT !.hours = x], was)
  BY DEF Sound
<1>7. Sound([db EXCEPT !.type = x], was)
  BY DEF Sound
<1>8. Sound([db EXCEPT !.log = x], was)
  BY DEF Sound
<1>9. Sound([db EXCEPT !.filled = x], was)
  BY DEF Sound
<1> QED BY <1>1, <1>2, <1>3, <1>4, <1>5, <1>6, <1>7, <1>8, <1>9

LEMMA SoundRebuilt ==
  ASSUME NEW db, NEW was, Sound(db, was), NEW temp, NEW checks, NEW columns, NEW next,
         next = [db EXCEPT !.temp = temp, !.checks = checks, !.columns = columns]
  PROVE  Sound(next, was)
<1>1. next = [version |-> db.version, columns |-> columns, checks |-> checks, temp |-> temp,
              app |-> db.app, hours |-> db.hours, type |-> db.type, kind |-> db.kind,
              log |-> db.log, filled |-> db.filled]
  BY DEF Sound
<1> QED BY <1>1 DEF Sound

LEMMA SoundSearched ==
  ASSUME NEW db, NEW was, Sound(db, was), NEW i, NEW k, k # Absent, NEW log, NEW next,
         next = [db EXCEPT !.kind = [db.kind EXCEPT ![i] = k], !.log = log]
  PROVE  Sound(next, was)
<1> DEFINE kind == [db.kind EXCEPT ![i] = k]
<1>1. kind = [j \in Items |-> kind[j]]
  BY DEF Sound
<1>2. \A j \in Items : db.kind[j] # Absent => kind[j] # Absent
  BY DEF Sound
<1> HIDE DEF kind
<1>3. next = [version |-> db.version, columns |-> db.columns, checks |-> db.checks,
              temp |-> db.temp, app |-> db.app, hours |-> db.hours, type |-> db.type,
              kind |-> kind, log |-> log, filled |-> db.filled]
  BY DEF Sound, kind
<1> QED BY <1>1, <1>2, <1>3 DEF Sound

(* A rebuild keeps the cooldowns unless it drops instances under enforced   *)
(* foreign keys.                                                            *)
LEMMA SwapKeeps ==
  ASSUME Sound(work, origin), NEW v, NEW t, t = "instances" => fk = FALSE
  PROVE  Sound(Swapped(v, t), origin)
<1> DEFINE renamed == Renamed(v, t, work)
           db == [renamed EXCEPT !.temp = @ \ {t}, !.checks[t] = v, !.columns = KeptBy(v, t)]
<1>1. Swapped(v, t) = db
  BY DEF Swapped
<1>2. Sound(renamed, origin)
  BY SoundFields DEF Renamed
<1> DEFINE kept == KeptBy(v, t)
           checks == [renamed.checks EXCEPT ![t] = v]
           temp == renamed.temp \ {t}
<1>3. Swapped(v, t) = [renamed EXCEPT !.temp = temp, !.checks = checks, !.columns = kept]
  BY <1>1
<1> HIDE DEF renamed, kept, checks, temp
<1> QED BY <1>2, <1>3, SoundRebuilt

LEMMA StatementKeeps ==
  ASSUME Kept, NEW s, Runs(s), Drops(s) => fk = FALSE, origin' = origin
  PROVE  Kept'
<1>0. Sound(disk, origin) /\ Sound(work, origin)
  BY DEF Kept
<1>1. ASSUME NEW db, Sound(db, origin), Alters(db) \/ Writes(db) \/ Commits(db) PROVE Kept'
  BY <1>0, <1>1 DEF Kept, Alters, Writes, Commits
<1>2. CASE Keeps
  BY <1>0, <1>2 DEF Keeps, dbVars, Kept
<1>3. CASE s[1] = "commit"
  BY <1>0, <1>1, <1>3 DEF Runs
<1>4. CASE s[1] \in {"add", "alter"}
  <2>1. Sound([work EXCEPT !.columns = work.columns \cup {s[2]}], origin)
    BY <1>0, SoundFields
  <2> QED BY <1>1, <1>4, <2>1 DEF Runs
<1>5. CASE s[1] = "drop"
  <2>1. Sound([work EXCEPT !.columns = work.columns \ {s[2]}], origin)
    BY <1>0, SoundFields
  <2> QED BY <1>1, <1>5, <2>1 DEF Runs
<1>6. CASE s[1] = "rename"
  <2>1. Sound([work EXCEPT !.columns = (work.columns \ {s[2]}) \cup {s[3]}], origin)
    BY <1>0, SoundFields
  <2> QED BY <1>1, <1>2, <1>6, <2>1 DEF Runs
<1>7. CASE s[1] = "clear"
  <2>1. Sound([work EXCEPT !.temp = work.temp \ s[2]], origin)
    BY <1>0, SoundFields
  <2> QED BY <1>1, <1>7, <2>1 DEF Runs
<1>8. CASE s[1] = "create"
  <2>1. Sound([work EXCEPT !.temp = work.temp \cup {s[2]}], origin)
    BY <1>0, SoundFields
  <2> QED BY <1>1, <1>8, <2>1 DEF Runs
<1>9. CASE s[1] = "copy"
  BY <1>0, <1>1, <1>9 DEF Runs
<1>10. CASE s[1] = "swap"
  <2>1. Sound(Swapped(s[2][1], s[2][2]), origin)
    BY <1>0, <1>10, SwapKeeps DEF Drops
  <2> QED BY <1>1, <1>10, <2>1 DEF Runs
<1>11. CASE s[1] = "regrace"
  <2>1. Sound(Regraced, origin)
    BY <1>0, SoundFields DEF Regraced
  <2> QED BY <1>1, <1>11, <2>1 DEF Runs
<1>12. CASE s[1] = "fill"
  <2> DEFINE kind == [i \in Items |-> IF work.kind[i] = "missing" /\ work.log[i] # Absent
                                     THEN work.log[i] ELSE work.kind[i]]
  <2>1. FilledIn = [work EXCEPT !.filled = TRUE, !.kind = kind]
    BY DEF FilledIn
  <2>2. \A i \in Items : work.kind[i] # Absent => kind[i] # Absent
    OBVIOUS
  <2>3. kind = [i \in Items |-> kind[i]]
    OBVIOUS
  <2> HIDE DEF kind
  <2>4. PICK db : db = FilledIn
    OBVIOUS
  <2>5. db = [work EXCEPT !.filled = TRUE, !.kind = kind]
    BY <2>1, <2>4
  <2>6. db = [version |-> work.version, columns |-> work.columns, checks |-> work.checks,
              temp |-> work.temp, app |-> work.app, hours |-> work.hours, type |-> work.type,
              kind |-> kind, log |-> work.log, filled |-> TRUE]
    BY <1>0, <2>5 DEF Sound
  <2>7. Sound(db, origin)
    BY <1>0, <2>2, <2>3, <2>6 DEF Sound
  <2> QED BY <1>1, <1>12, <2>4, <2>7 DEF Runs
<1>13. CASE s[1] \notin {"commit", "add", "alter", "drop", "rename", "clear", "create", "copy",
                         "swap", "regrace", "fill"}
  BY <1>2, <1>13 DEF Runs
<1> QED BY <1>3, <1>4, <1>5, <1>6, <1>7, <1>8, <1>9, <1>10, <1>11, <1>12, <1>13

LEMMA ElsewhereIs ==
  ASSUME at \in Elsewhere
  PROVE  at[1] \notin {"ladder", "heal"} /\ at[2] = 0 /\ at[3] = 0
BY DEF Elsewhere

LEMMA StatementIs ==
  ASSUME Places, at[1] \in {"ladder", "heal"}
  PROVE  /\ InScript(at[2], at[3]) /\ at = <<at[1], at[2], at[3]>>
         /\ at[2] \in 2..21 /\ at[3] \in Nat
<1>0. PICK x \in {"ladder", "heal"} : \E v, n : at = <<x, v, n>> /\ InScript(v, n)
  BY ElsewhereIs DEF Places
<1>1. PICK v, n : at = <<x, v, n>> /\ InScript(v, n)
  BY <1>0
<1>2. at[1] = x /\ at[2] = v /\ at[3] = n
  BY <1>1
<1>3. Len(Script(v)) \in Nat
  BY <1>1, ScriptsAreNotEmpty DEF InScript
<1> QED BY <1>1, <1>2, <1>3 DEF InScript, Current

(* The place after a statement: the next one of the script, or one whose    *)
(* place carries no condition.                                              *)
LEMMA FollowsIs ==
  ASSUME Places, at[1] \in {"ladder", "heal"}, NEW s
  PROVE  \/ Follows(s) \in Elsewhere
         \/ Follows(s) = <<at[1], at[2] + 1, 1>> /\ InScript(at[2] + 1, 1)
         \/ Follows(s) = <<at[1], at[2], at[3] + 1>> /\ InScript(at[2], at[3] + 1)
<1>1. /\ InScript(at[2], at[3]) /\ at[2] \in 2..21 /\ at[3] \in Nat
  BY StatementIs
<1>2. \A v \in 2..Current : Len(Script(v)) \in Nat \ {0}
  BY ScriptsAreNotEmpty
<1>3. CASE Follows(s) = NextMigration
  <2>1. CASE at[2] < Current
    <3>1. Follows(s) = <<at[1], at[2] + 1, 1>>
      BY <1>1, <1>3, <2>1 DEF NextMigration, From, Current
    <3>2. InScript(at[2] + 1, 1)
      <4>1. at[2] + 1 \in 2..Current
        BY <1>1, <2>1 DEF Current
      <4>2. Len(Script(at[2] + 1)) \in Nat \ {0}
        BY <1>2, <4>1
      <4> QED BY <4>1, <4>2 DEF InScript
    <3> QED BY <3>1, <3>2
  <2>2. CASE ~(at[2] < Current)
    <3>1. NextMigration \in {<<"stamp", 0, 0>>, <<"finish", 0, 0>>}
      BY <1>1, <2>2 DEF NextMigration, Current
    <3> QED BY <1>3, <3>1 DEF Elsewhere
  <2> QED BY <2>1, <2>2
<1>4. CASE Follows(s) # NextMigration
  <2>1. Follows(s) = <<at[1], at[2], at[3] + 1>> /\ at[3] # Len(Script(at[2]))
    BY <1>4 DEF Follows
  <2>2. InScript(at[2], at[3] + 1)
    BY <1>1, <1>2, <2>1 DEF InScript
  <2> QED BY <2>1, <2>2
<1> QED BY <1>3, <1>4

LEMMA RunKeeps == ASSUME BootInv, Run PROVE BootInv'
<1> DEFINE s == Statement
<1>1. /\ at[1] \in {"ladder", "heal"} /\ Runs(s) /\ ForeignKeys(s) /\ at' = Follows(s)
      /\ origin' = origin /\ s = Script(at[2])[at[3]]
  BY DEF Run, Statement
<1> HIDE DEF s
<1>2. InScript(at[2], at[3]) /\ at[2] \in 2..21 /\ at[3] \in Nat
  BY <1>1, StatementIs DEF BootInv
<1>3. Drops(s) => fk = FALSE
  <2> SUFFICES ASSUME Drops(s) PROVE fk = FALSE
    OBVIOUS
  <2>1. (at[2] = 5 /\ at[3] = 5) \/ (at[2] = 10 /\ at[3] = 7)
    BY <1>1, <1>2, Dropping DEF InScript
  <2> QED BY <2>1 DEF BootInv, Prepared
<1>4. Kept'
  BY <1>1, <1>3, StatementKeeps DEF BootInv
<1>5. \/ at' \in Elsewhere
      \/ at' = <<at[1], at[2] + 1, 1>> /\ InScript(at[2] + 1, 1)
      \/ at' = <<at[1], at[2], at[3] + 1>> /\ InScript(at[2], at[3] + 1)
  BY <1>1, FollowsIs DEF BootInv
<1>6. Places'
  BY <1>1, <1>5 DEF Places
<1>7. Prepared'
  <2>1. CASE at' \in Elsewhere
    <3>1. at'[2] = 0
      BY <2>1 DEF Elsewhere
    <3> QED BY <3>1 DEF Prepared
  <2>2. CASE at' = <<at[1], at[2] + 1, 1>>
    <3>1. at'[3] = 1
      BY <2>2
    <3> QED BY <3>1 DEF Prepared
  <2>3. CASE at' = <<at[1], at[2], at[3] + 1>>
    <3>1. at'[2] = at[2] /\ at'[3] = at[3] + 1
      BY <2>3
    <3>2. CASE at[2] = 5
      <4>1. s = V5[at[3]]
        BY <1>1, <3>2 DEF Script, Ladder
      <4>2. at[3] = 1 => open' = FALSE
        BY <1>1, <4>1, V5Is DEF Runs, Commits
      <4>3. at[3] = 2 => fk' = FALSE
        BY <1>1, <3>2, <4>1, V5Is DEF ForeignKeys, BootInv, Prepared
      <4>4. at[3] \in 3..4 => fk' = FALSE
        BY <1>1, <3>2, <4>1, V5Is DEF ForeignKeys, BootInv, Prepared
      <4> QED BY <1>2, <3>1, <3>2, <4>2, <4>3, <4>4 DEF Prepared
    <3>3. CASE at[2] = 10
      <4>1. s = V10[at[3]]
        BY <1>1, <3>3 DEF Script, Ladder
      <4>2. at[3] = 2 => open' = FALSE
        BY <1>1, <4>1, V10Is DEF Runs, Commits
      <4>3. at[3] = 3 => fk' = FALSE
        BY <1>1, <3>3, <4>1, V10Is DEF ForeignKeys, BootInv, Prepared
      <4>4. at[3] \in 4..6 => fk' = FALSE
        BY <1>1, <3>3, <4>1, V10Is DEF ForeignKeys, BootInv, Prepared
      <4> QED BY <1>2, <3>1, <3>3, <4>2, <4>3, <4>4 DEF Prepared
    <3>4. CASE at[2] \notin {5, 10}
      BY <3>1, <3>4 DEF Prepared
    <3> QED BY <3>2, <3>3, <3>4
  <2> QED BY <1>5, <2>1, <2>2, <2>3
<1> QED BY <1>4, <1>6, <1>7 DEF BootInv

(* Everything else moves to a place outside of a script, or to the first    *)
(* statement of one.                                                        *)
LEMMA MovesKeep ==
  ASSUME BootInv, Sound(work', origin), Sound(disk', origin), origin' = origin,
         at' \in Elsewhere \/ \E x \in {"ladder", "heal"}, v \in 2..Current : at' = From(x, v)
  PROVE  BootInv'
<1>1. Kept'
  BY DEF Kept
<1>2. CASE at' \in Elsewhere
  <2>1. at'[2] = 0
    BY <1>2 DEF Elsewhere
  <2> QED BY <1>1, <1>2, <2>1 DEF BootInv, Places, Prepared
<1>3. ASSUME NEW x \in {"ladder", "heal"}, NEW v \in 2..Current, at' = From(x, v)
      PROVE  BootInv'
  <2>1. at' = <<x, v, 1>> /\ at'[3] = 1
    BY <1>3 DEF From
  <2>2. InScript(v, 1)
    BY ScriptsAreNotEmpty DEF InScript
  <2> QED BY <1>1, <2>1, <2>2 DEF BootInv, Places, Prepared
<1> QED BY <1>2, <1>3

LEMMA BootStarts == Init => BootInv
<1> SUFFICES ASSUME Init PROVE BootInv
  OBVIOUS
<1>1. ASSUME NEW v, NEW kind, kind = [i \in Items |-> kind[i]], NEW log, NEW filled
      PROVE  LET db == Database(v, kind, log, filled) IN Sound(db, db)
  <2> DEFINE db == Database(v, kind, log, filled)
  <2>1. db.kind = kind
    BY DEF Database
  <2>2. db = [version |-> db.version, columns |-> db.columns, checks |-> db.checks,
              temp |-> db.temp, app |-> db.app, hours |-> db.hours, type |-> db.type,
              kind |-> db.kind, log |-> db.log, filled |-> db.filled]
    BY DEF Database
  <2> HIDE DEF db
  <2>3. Sound(db, db)
    BY <1>1, <2>1, <2>2 DEF Sound
  <2> QED BY <2>3 DEF db
<1>2. Sound(Fresh, Fresh)
  <2> DEFINE db == Database(Current, NoRows, NoRows, FALSE)
  <2>1. Sound(db, db)
    BY <1>1 DEF NoRows
  <2>2. Fresh = [db EXCEPT !.version = 0]
    BY DEF Fresh
  <2> HIDE DEF db
  <2>3. Sound(Fresh, db) /\ Fresh.kind = db.kind
    BY <2>1, <2>2, SoundFields DEF Sound
  <2> QED BY <2>3 DEF Sound
<1>3. Sound(disk, disk)
  <2>1. PICK v \in Starts : disk \in FoundAt(v)
    BY DEF Init, Found
  <2>2. CASE v = 0
    BY <1>2, <2>1, <2>2 DEF FoundAt
  <2>3. CASE v # 0
    <3> DEFINE Marks == IF v < 14 THEN {FALSE} ELSE BOOLEAN
               Logs == [Items -> Kinds \cup {Absent}]
    <3>1. FoundAt(v) = {Database(v, Unstamped, log, filled) : log \in Logs, filled \in Marks}
      BY <2>3 DEF FoundAt
    <3> HIDE DEF Marks, Logs
    <3>2. PICK log \in Logs, filled \in Marks : disk = Database(v, Unstamped, log, filled)
      BY <2>1, <3>1
    <3>3. Unstamped = [i \in Items |-> Unstamped[i]]
      BY DEF Unstamped
    <3> QED BY <1>1, <3>2, <3>3
  <2> QED BY <2>2, <2>3
<1>4. at \in Elsewhere /\ at[2] = 0
  BY DEF Init, Elsewhere
<1> QED BY <1>3, <1>4 DEF Init, BootInv, Kept, Places, Prepared

LEMMA BootGoesOn == BootInv /\ [Next]_vars => BootInv'
<1> SUFFICES ASSUME BootInv, [Next]_vars PROVE BootInv'
  OBVIOUS
<1>0. Sound(disk, origin) /\ Sound(work, origin) /\ Places
  BY DEF BootInv, Kept
<1>1. ASSUME NEW db, Sound(db, origin), Commits(db) \/ Writes(db), origin' = origin, at' \in Elsewhere
      PROVE  BootInv'
  BY <1>0, <1>1, MovesKeep DEF Commits, Writes
<1>2. CASE Schema
  <2>1. Sound([work EXCEPT !.columns = work.columns \cup {<<19, 1>>}], origin)
    BY <1>0, SoundFields
  <2> QED BY <1>1, <1>2, <2>1 DEF Schema, Elsewhere
<1>3. ASSUME NEW S, Purge(S) PROVE BootInv'
  <2>1. Sound(Forgotten(S), origin)
    BY <1>0, SoundFields DEF Forgotten
  <2> QED BY <1>1, <1>3, <2>1 DEF Purge, Elsewhere
<1>4. CASE ReadVersion
  <2>1. UNCHANGED <<disk, work, origin>>
    BY <1>4 DEF ReadVersion, dbVars
  <2>2. at' \in Elsewhere \/ \E x \in {"ladder", "heal"}, v \in 2..Current : at' = From(x, v)
    <3>1. CASE at' = <<"stamp", 0, 0>>
      BY <3>1 DEF Elsewhere
    <3>2. CASE at' = From("heal", 9)
      BY <3>2 DEF Current
    <3>3. CASE work.version \in 1..(Current - 1) /\ at' = From("ladder", Max({2, work.version + 1}))
      <4>1. Max({2, work.version + 1}) \in 2..Current
        <5>1. work.version + 1 \in 2..Current
          BY <3>3 DEF Current
        <5>2. \E x \in {2, work.version + 1} : \A y \in {2, work.version + 1} : x >= y
          BY <5>1
        <5> QED BY <5>1, <5>2 DEF Max, Current
      <4> QED BY <3>3, <4>1
    <3> QED BY <1>4, <3>1, <3>2, <3>3 DEF ReadVersion
  <2> QED BY <1>0, <2>1, <2>2, MovesKeep
<1>5. CASE Run
  BY <1>5, RunKeeps
<1>6. CASE Fail \/ Kill
  BY <1>0, <1>6, MovesKeep DEF Fail, Kill, Elsewhere
<1>7. CASE Stamp
  <2>1. Sound([work EXCEPT !.version = Current], origin)
    BY <1>0, SoundFields
  <2> QED BY <1>1, <1>7, <2>1 DEF Stamp, Elsewhere
<1>8. CASE CommitVersion
  <2>1. work' = work /\ disk' = work /\ origin' = origin /\ at' = From("heal", 9)
    BY <1>8 DEF CommitVersion, Commits
  <2>2. 9 \in 2..Current
    BY DEF Current
  <2> QED BY <1>0, <2>1, <2>2, MovesKeep
<1>9. CASE Finish
  BY <1>0, <1>1, <1>9 DEF Finish, Elsewhere
<1>10. CASE Restart
  BY <1>0, <1>10, MovesKeep DEF Restart, Elsewhere, dbVars
<1>11. ASSUME NEW i \in Items, NEW k \in Kinds, NEW logged \in BOOLEAN, Search(i, k, logged)
       PROVE  BootInv'
  <2>1. PICK log, db : /\ db = [work EXCEPT !.kind = [work.kind EXCEPT ![i] = k], !.log = log]
                       /\ Commits(db)
    BY <1>11 DEF Search
  <2>2. k # Absent
    BY VersionsOK
  <2>3. Sound(db, origin)
    BY <1>0, <2>1, <2>2, SoundSearched
  <2>4. at' = at /\ at \in Elsewhere /\ origin' = origin
    BY <1>0, <1>11 DEF Search, Places
  <2> QED BY <1>1, <2>1, <2>3, <2>4
<1>12. CASE UNCHANGED vars
  BY <1>12 DEF vars, dbVars, BootInv, Kept, Places, Prepared
<1> QED
  BY <1>2, <1>3, <1>4, <1>5, <1>6, <1>7, <1>8, <1>9, <1>10, <1>11, <1>12 DEF Next, Step

(* Whatever version a database is found at, however many rows it has, and   *)
(* wherever the start is cut by a kill or a statement that fails, no        *)
(* cooldown of the database that was found is lost (database.py:1012).      *)
THEOREM NoCooldownIsLost == Spec => []CooldownsKept
<1>1. BootInv => CooldownsKept
  BY DEF BootInv, Kept, Sound, CooldownsKept
<1> QED BY BootStarts, BootGoesOn, <1>1, PTL DEF Spec


-----------------------------------------------------------------------------
(* The statements that matter to the rows: what they are and where in the   *)
(* ladder they stand.                                                       *)
Tables == {"instances", "cooldowns", "search_log"}
Guards == {<<6, 1, "graced">>, <<10, 1, "v10">>, <<14, 2, "filled">>, <<15, 1, "v15">>,
           <<16, 3, "v16">>}
Shape(v, n, s) ==
  /\ s[1] = "swap" => \E t \in Tables : s[2] = <<v, t>> /\ v \in {5, 10, 15, 16}
                        /\ (t = "instances" => v \in {5, 10})
                        /\ (v = 10 => (t = "instances" <=> n = 7))
                        /\ (v = 16 => (t = "cooldowns" <=> n = 9))
  /\ (v = 10 /\ n = 7) \/ (v = 16 /\ n = 9) => s[1] = "swap"
  /\ s[1] = "fill" <=> (v = 14 /\ n = 3)
  /\ s[1] = "regrace" <=> (v = 6 /\ n = 3)
  /\ s[1] = "drop" => v = 6 /\ n = 4
  /\ s[1] = "rename" => s[2] # Delay
  /\ s[1] = "unless" => <<v, n, s[2]>> \in Guards
  /\ (v = 14 /\ n = 2) \/ (v = 15 /\ n = 1) => s[1] = "unless"
  /\ v = 15 /\ n = 2 => s[1] = "commit"

LEMMA Shape10 == \A n \in 1..14 : Shape(10, n, V10[n])
<1> USE DEF V10, Rebuild
<1>1. /\ V10[1][1] = "unless" /\ V10[1][2] = "v10" /\ V10[2][1] = "commit" /\ V10[3][1] = "fk"
      /\ V10[4][1] = "clear" /\ V10[14][1] = "fk"
  OBVIOUS
<1>2. /\ V10[5][1] = "create" /\ V10[6][1] = "copy" /\ V10[7] = <<"swap", <<10, "instances">> >>
      /\ V10[8][1] = "create" /\ V10[9][1] = "copy" /\ V10[10] = <<"swap", <<10, "cooldowns">> >>
      /\ V10[11][1] = "create" /\ V10[12][1] = "copy"
      /\ V10[13] = <<"swap", <<10, "search_log">> >>
  OBVIOUS
<1> QED
  <2> SUFFICES ASSUME NEW n \in 1..14 PROVE Shape(10, n, V10[n])
    OBVIOUS
  <2>1. n \in {1, 2, 3, 4, 5, 6, 7, 8, 9, 10, 11, 12, 13, 14}
    OBVIOUS
  <2> HIDE DEF V10, Rebuild
  <2>2. CASE n \in {7, 10, 13}
    BY <1>2, <2>2 DEF Shape, Tables
  <2>3. CASE n = 1
    BY <1>1, <2>3 DEF Shape, Guards
  <2>4. CASE n \in {2, 3, 4, 14, 5, 6, 8, 9, 11, 12}
    BY <1>1, <1>2, <2>4 DEF Shape
  <2> QED BY <2>1, <2>2, <2>3, <2>4

LEMMA Shape15 == Len(V15) = 8 /\ \A n \in 1..8 : Shape(15, n, V15[n])
<1> USE DEF V15, Rebuild
<1>0. Len(V15) = 8
  OBVIOUS
<1>1. /\ V15[1][1] = "unless" /\ V15[1][2] = "v15" /\ V15[2][1] = "commit" /\ V15[3][1] = "fk"
      /\ V15[4][1] = "clear" /\ V15[8][1] = "fk"
      /\ V15[5][1] = "create" /\ V15[6][1] = "copy" /\ V15[7] = <<"swap", <<15, "cooldowns">> >>
  OBVIOUS
<1> HIDE DEF V15, Rebuild
<1>2. \A n \in 1..8 : n \in {1, 2, 3, 4, 5, 6, 7, 8}
  OBVIOUS
<1>3. Shape(15, 7, V15[7])
  BY <1>1 DEF Shape, Tables
<1>4. Shape(15, 1, V15[1])
  BY <1>1 DEF Shape, Guards
<1>5. \A n \in {2, 3, 4, 5, 6, 8} : Shape(15, n, V15[n])
  BY <1>1 DEF Shape
<1> QED BY <1>0, <1>2, <1>3, <1>4, <1>5

LEMMA Shape16 == Len(V16) = 13 /\ \A n \in 1..13 : Shape(16, n, V16[n])
<1> USE DEF V16, Rebuild
<1>0. Len(V16) = 13
  OBVIOUS
<1>1. /\ V16[1][1] = "rename" /\ V16[1][2] = <<5, 3>> /\ V16[2][1] = "rename" /\ V16[2][2] = <<8, 8>>
      /\ V16[3][1] = "unless" /\ V16[3][2] = "v16" /\ V16[4][1] = "commit" /\ V16[5][1] = "fk"
      /\ V16[6][1] = "clear" /\ V16[13][1] = "fk"
  OBVIOUS
<1>2. /\ V16[7][1] = "create" /\ V16[8][1] = "copy" /\ V16[9] = <<"swap", <<16, "cooldowns">> >>
      /\ V16[10][1] = "create" /\ V16[11][1] = "copy"
      /\ V16[12] = <<"swap", <<16, "search_log">> >>
  OBVIOUS
<1> HIDE DEF V16, Rebuild
<1>3. \A n \in 1..13 : n \in {1, 2, 3, 4, 5, 6, 7, 8, 9, 10, 11, 12, 13}
  OBVIOUS
<1>4. \A n \in {9, 12} : Shape(16, n, V16[n])
  BY <1>2 DEF Shape, Tables
<1>5. Shape(16, 3, V16[3])
  BY <1>1 DEF Shape, Guards
<1>6. \A n \in {1, 2} : Shape(16, n, V16[n])
  BY <1>1 DEF Shape, Delay
<1>7. \A n \in {4, 5, 6, 7, 8, 10, 11, 13} : Shape(16, n, V16[n])
  BY <1>1, <1>2 DEF Shape
<1> QED BY <1>0, <1>3, <1>4, <1>5, <1>6, <1>7

LEMMA Shape6 == Len(V6) = 4 /\ \A n \in 1..4 : Shape(6, n, V6[n])
<1>1. /\ Len(V6) = 4 /\ V6[1] = <<"unless", "graced">> /\ V6[2][1] = "alter"
      /\ V6[3][1] = "regrace" /\ V6[4][1] = "drop"
  BY DEF V6
<1>2. \A n \in 1..4 : n \in {1, 2, 3, 4}
  OBVIOUS
<1>3. Shape(6, 1, V6[1])
  BY <1>1 DEF Shape, Guards
<1>4. \A n \in {2, 3, 4} : Shape(6, n, V6[n])
  BY <1>1 DEF Shape
<1> QED BY <1>1, <1>2, <1>3, <1>4

LEMMA Shape14 == Len(V14) = 3 /\ \A n \in 1..3 : Shape(14, n, V14[n])
<1> DEFINE column == Add(14, 1)
           fill == << <<"unless", "filled">>, <<"fill">> >>
<1>1. V14 = column \o fill
  BY DEF V14
<1>2. column = [i \in 1..1 |-> column[i]] /\ column[1][1] = "add"
  BY DEF Add
<1>3. fill = [i \in 1..2 |-> fill[i]] /\ fill[1] = <<"unless", "filled">> /\ fill[2][1] = "fill"
  OBVIOUS
<1> HIDE DEF column, fill
<1>4. Len(V14) = 3 /\ V14[1] = column[1] /\ V14[2] = fill[1] /\ V14[3] = fill[2]
  BY <1>1, <1>2, <1>3, Joined
<1>5. \A n \in 1..3 : n \in {1, 2, 3}
  OBVIOUS
<1>6. Shape(14, 2, V14[2])
  BY <1>3, <1>4 DEF Shape, Guards
<1>7. \A n \in {1, 3} : Shape(14, n, V14[n])
  BY <1>2, <1>3, <1>4 DEF Shape
<1> QED BY <1>4, <1>5, <1>6, <1>7

LEMMA Shape5 == \A n \in 1..15 : Shape(5, n, V5[n])
<1> DEFINE tables == << <<"commit">>, <<"fk", FALSE>> >>
                        \o Rebuild(5, "instances") \o Rebuild(5, "cooldowns")
                        \o Rebuild(5, "search_log")
           columns == Add(5, 3)
           on == << <<"fk", TRUE>> >>
<1>1. V5 = tables \o columns \o on
  BY DEF V5
<1>2. tables = [i \in 1..11 |-> tables[i]] /\ on = [i \in 1..1 |-> on[i]]
  BY DEF Rebuild
<1>3. columns = [i \in 1..3 |-> columns[i]] /\ \A i \in 1..3 : columns[i][1] = "add"
  BY DEF Add
<1>4. /\ tables[1][1] = "commit" /\ tables[2][1] = "fk"
      /\ tables[3][1] = "create" /\ tables[4][1] = "copy"
      /\ tables[5] = <<"swap", <<5, "instances">> >>
      /\ tables[6][1] = "create" /\ tables[7][1] = "copy"
      /\ tables[8] = <<"swap", <<5, "cooldowns">> >>
      /\ tables[9][1] = "create" /\ tables[10][1] = "copy"
      /\ tables[11] = <<"swap", <<5, "search_log">> >>
  BY DEF Rebuild
<1>5. on[1][1] = "fk"
  OBVIOUS
<1> HIDE DEF tables, columns, on
<1> DEFINE most == tables \o columns
<1>6. /\ most = [i \in 1..14 |-> most[i]]
      /\ \A i \in 1..11 : most[i] = tables[i]
      /\ \A i \in 12..14 : most[i] = columns[i - 11]
  BY <1>2, <1>3, Joined
<1> HIDE DEF most
<1>7. (\A i \in 1..14 : V5[i] = most[i]) /\ V5[15] = on[1]
  <2>1. V5 = most \o on
    BY <1>1 DEF most
  <2> QED BY <2>1, <1>2, <1>6, Joined
<1>8. \A n \in {5, 8, 11} : Shape(5, n, V5[n])
  BY <1>4, <1>6, <1>7 DEF Shape, Tables
<1>9. \A n \in 12..14 : V5[n][1] = "add"
  BY <1>3, <1>6, <1>7
<1>10. \A n \in {1, 2, 3, 4, 6, 7, 9, 10} : V5[n] = tables[n]
  BY <1>6, <1>7
<1>11. \A n \in 12..15 : Shape(5, n, V5[n])
  BY <1>5, <1>7, <1>9 DEF Shape
<1>12. \A n \in {1, 2, 3, 4, 6, 7, 9, 10} : Shape(5, n, V5[n])
  BY <1>4, <1>10 DEF Shape
<1>13. \A n \in 1..15 : n \in {5, 8, 11} \/ n \in 12..15 \/ n \in {1, 2, 3, 4, 6, 7, 9, 10}
  OBVIOUS
<1> QED BY <1>8, <1>11, <1>12, <1>13

LEMMA ShapeOfAdds ==
  ASSUME NEW v \in (2..4) \cup (7..9) \cup (11..13) \cup (17..21), NEW n \in 1..Len(Script(v))
  PROVE  Shape(v, n, Script(v)[n])
<1>1. PICK k \in Nat : Script(v) = Add(v, k)
  BY AddsScripts
<1>2. n \in 1..k
  BY <1>1, AddIs
<1>3. Script(v)[n] = <<"add", <<v, n>> >>
  BY <1>1, <1>2, AddIs
<1>4. v \notin {5, 6, 10, 14, 15, 16}
  OBVIOUS
<1>5. Script(v)[n][1] = "add"
  BY <1>3
<1> QED BY <1>4, <1>5 DEF Shape

LEMMA ShapeIs ==
  ASSUME NEW v, NEW n, InScript(v, n)
  PROVE  Shape(v, n, Script(v)[n])
<1> USE DEF Current
<1>0. v \in 2..21 /\ n \in 1..Len(Script(v))
  BY DEF InScript
<1>1. CASE v \in {5, 6, 10, 14, 15, 16}
  <2>1. /\ Script(5) = V5 /\ Script(6) = V6 /\ Script(10) = V10 /\ Script(14) = V14
        /\ Script(15) = V15 /\ Script(16) = V16
    BY DEF Script, Ladder
  <2>2. Len(V5) = 15 /\ Len(V10) = 14
    BY V5Is, V10Is
  <2> QED BY <1>0, <1>1, <2>1, <2>2, Shape5, Shape6, Shape10, Shape14, Shape15, Shape16
<1>2. CASE v \in (2..4) \cup (7..9) \cup (11..13) \cup (17..21)
  BY <1>0, <1>2, ShapeOfAdds
<1> QED BY <1>0, <1>1, <1>2

-----------------------------------------------------------------------------
(* A database on the way from the one that was found to the current         *)
(* version: what is left of the old schema tells which of its rows are      *)
(* converted.                                                               *)
Six == <<6, 48>>
Converted(hours) == [n \in DOMAIN hours |-> IF hours[n] = 36 THEN 6 ELSE hours[n]]
Family(app) == IF app = "whisparr" THEN "whisparr_v2" ELSE app
FamilyType(type) == IF type = "whisparr_episode" THEN "whisparr_v2_episode" ELSE type

Born ==
  /\ origin.version \in 0..Current
  /\ origin.hours \in {<<36, 48>>, Six}
  /\ origin.version \notin 1..5 => origin.hours = Six

HoursWay(db) ==
  /\ db.hours \in {origin.hours, Six}
  /\ Delay \notin db.columns \/ origin.version \notin 1..5 \/ db.version = Current => db.hours = Six
AppWay(db) ==
  /\ db.app \in {origin.app, Family(origin.app)}
  /\ db.checks["instances"] >= 10 \/ origin.version \notin 1..9 \/ db.version = Current
       => db.app = Family(origin.app)
TypeWay(db) ==
  /\ db.type \in {origin.type, FamilyType(origin.type)}
  /\ db.checks["cooldowns"] >= 16 \/ origin.version \notin 1..15 \/ db.version = Current
       => db.type = FamilyType(origin.type)
FilledWay(db) == origin.version \in 1..13 /\ db.checks["cooldowns"] >= 15 => db.filled
Way(db) ==
  /\ db.version \in {origin.version, Current}
  /\ db.checks \in [Tables -> 1..Current]
  /\ db.filled \in BOOLEAN
  /\ HoursWay(db) /\ AppWay(db) /\ TypeWay(db) /\ FilledWay(db)

(* The connection and the disk: the kinds are the same but for a fill-in    *)
(* that waits for its commit.                                               *)
Stamps(db) ==
  [i \in Items |-> IF db.kind[i] = "missing" /\ db.log[i] # Absent THEN db.log[i] ELSE db.kind[i]]
Level == work.kind = disk.kind /\ work.filled = disk.filled
Pending == work.filled /\ ~disk.filled /\ open = TRUE /\ work.kind = Stamps(disk)
Linked ==
  /\ open \in BOOLEAN
  /\ open = FALSE => work = disk
  /\ work.log = disk.log
  /\ Level \/ Pending

(* What the ladder has converted when it is past a statement, and the only  *)
(* two places of the ladder where a fill-in may wait.                       *)
Past(v, n) == at[2] > v \/ (at[2] = v /\ at[3] > n)
Unstored == disk.version = origin.version /\ origin.version # Current
OnLadder ==
  /\ Unstored /\ work.version = origin.version
  /\ at[2] > origin.version
  /\ Past(6, 3) => work.hours = Six
  /\ Past(10, 7) => work.app = Family(origin.app)
  /\ Past(16, 9) => work.type = FamilyType(origin.type)
  /\ Level \/ (at[2] = 15 /\ at[3] \in 1..2 /\ work.checks["cooldowns"] < 15)
Healing == disk.version = Current /\ work.version = Current
Filling ==
  /\ at[2] = 14 /\ at[3] = 3 => ~work.filled
  /\ at[2] >= 15 /\ origin.version \in 1..13 => work.filled
Whereabouts ==
  /\ at[1] = "ladder" => OnLadder /\ Filling /\ origin.version \in 1..(Current - 1)
  /\ at[1] = "heal" => Healing /\ Filling
  /\ at[1] = "stamp" =>
       /\ Unstored /\ work.version = origin.version /\ Level
       /\ work.hours = Six /\ work.app = Family(origin.app) /\ work.type = FamilyType(origin.type)
  /\ at[1] = "stamped" => Unstored /\ work.version = Current /\ Level
  /\ at[1] = "finish" => work.version = Current /\ (disk.version = Current \/ (Unstored /\ Level))
  /\ at[1] = "up" => disk.version = Current
  /\ at[1] \in {"schema", "purge", "version", "up", "off"} => open = FALSE

UpgradeInv == Born /\ Way(disk) /\ Way(work) /\ Linked /\ Whereabouts

-----------------------------------------------------------------------------
(* What one statement does to the rows.                                     *)
Rebuilt(db, v, t) ==
  /\ db.version = work.version /\ db.log = work.log /\ db.hours = work.hours
  /\ db.kind = work.kind /\ db.filled = work.filled
  /\ Delay \in work.columns /\ v >= 1 => Delay \in db.columns
  /\ db.checks = [work.checks EXCEPT ![t] = v]
  /\ db.app = IF t = "instances" /\ v = 10 THEN Family(work.app) ELSE work.app
  /\ db.type = IF t = "cooldowns" /\ v = 16 THEN FamilyType(work.type) ELSE work.type

LEMMA SwapChanges ==
  ASSUME Sound(work, origin), NEW v, NEW t \in Tables, t = "instances" => fk = FALSE,
         work.checks \in [Tables -> 1..Current], NEW db, db = Swapped(v, t)
  PROVE  Rebuilt(db, v, t)
<1> DEFINE app == IF t = "instances" /\ v = 10 THEN Family(work.app) ELSE work.app
           type == IF t = "cooldowns" /\ v = 16 THEN FamilyType(work.type) ELSE work.type
           kept == KeptBy(v, t)
           renamed == Renamed(v, t, work)
           temp == work.temp \ {t}
           checks == [work.checks EXCEPT ![t] = v]
<1>1. renamed = [version |-> work.version, columns |-> work.columns, checks |-> work.checks,
                 temp |-> work.temp, app |-> app, hours |-> work.hours, type |-> type,
                 kind |-> work.kind, log |-> work.log, filled |-> work.filled]
  <2>1. CASE t = "instances" /\ v = 10
    BY <2>1 DEF Renamed, Sound, Family
  <2>2. CASE t = "cooldowns" /\ v = 16
    BY <2>2 DEF Renamed, Sound, FamilyType
  <2>3. CASE ~(t = "instances" /\ v = 10) /\ ~(t = "cooldowns" /\ v = 16)
    BY <2>3 DEF Renamed, Sound
  <2> QED BY <2>1, <2>2, <2>3
<1>2. v >= 1 /\ Delay \in work.columns => Delay \in kept
  BY DEF KeptBy, Delay, KindColumn
<1>3. db = [renamed EXCEPT !.temp = renamed.temp \ {t},
                           !.checks = [renamed.checks EXCEPT ![t] = v], !.columns = kept]
  BY DEF Swapped
<1>4. renamed.temp = work.temp /\ renamed.checks = work.checks
  BY <1>1
<1> HIDE DEF app, type, kept, renamed
<1>5. db = [renamed EXCEPT !.temp = temp, !.checks = checks, !.columns = kept]
  BY <1>3, <1>4
<1> HIDE DEF temp, checks
<1>6. db = [version |-> work.version, columns |-> kept, checks |-> checks,
            temp |-> temp, app |-> app, hours |-> work.hours, type |-> type,
            kind |-> work.kind, log |-> work.log, filled |-> work.filled]
  BY <1>1, <1>5
<1> QED BY <1>2, <1>6 DEF app, type, checks, Rebuilt

(* How the disk follows a statement.                                        *)
Effect(v, n, s) ==
  /\ work'.version = work.version /\ work'.log = work.log
  /\ work'.hours = IF v = 6 /\ n = 3 THEN Converted(work.hours) ELSE work.hours
  /\ Delay \in work.columns => Delay \in work'.columns \/ (v = 6 /\ n = 4)
  /\ work'.app = IF v = 10 /\ n = 7 THEN Family(work.app) ELSE work.app
  /\ work'.type = IF v = 16 /\ n = 9 THEN FamilyType(work.type) ELSE work.type
  /\ work'.filled = IF v = 14 /\ n = 3 THEN TRUE ELSE work.filled
  /\ work'.kind = IF v = 14 /\ n = 3 THEN Stamps(work) ELSE work.kind
  /\ \/ work'.checks = work.checks
     \/ \E t \in Tables : s[1] = "swap" /\ s[2] = <<v, t>>
                          /\ work'.checks = [work.checks EXCEPT ![t] = v]
Durable(s) ==
  /\ \/ open' = FALSE /\ disk' = work'
     \/ open' = TRUE /\ disk' = disk
  /\ s[1] = "commit" => open' = FALSE
  /\ s[1] = "fill" => open' = TRUE /\ disk' = disk

LEMMA DurableIs ==
  ASSUME Linked, NEW s, Runs(s)
  PROVE  Durable(s)
<1>1. ASSUME NEW db, Alters(db) PROVE (open' = FALSE /\ disk' = work') \/ (open' = TRUE /\ disk' = disk)
  BY <1>1 DEF Alters, Linked
<1>2. ASSUME NEW db, Writes(db) PROVE open' = TRUE /\ disk' = disk
  BY <1>2 DEF Writes
<1>3. ASSUME NEW db, Commits(db) PROVE open' = FALSE /\ disk' = work'
  BY <1>3 DEF Commits
<1>4. ASSUME Keeps PROVE (open' = FALSE /\ disk' = work') \/ (open' = TRUE /\ disk' = disk)
  BY <1>4 DEF Keeps, dbVars, Linked
<1>5. CASE s[1] = "commit"
  BY <1>3, <1>5 DEF Runs, Durable
<1>6. CASE s[1] = "fill"
  BY <1>2, <1>6 DEF Runs, Durable
<1>7. CASE s[1] \in {"copy", "regrace"}
  BY <1>2, <1>7 DEF Runs, Durable
<1>8. CASE s[1] \in {"add", "alter", "drop", "rename", "clear", "create", "swap"}
  <2>1. Keeps \/ \E db : Alters(db)
    BY <1>8 DEF Runs
  <2> QED BY <1>1, <1>4, <1>8, <2>1 DEF Durable
<1>9. CASE s[1] \notin {"commit", "fill", "copy", "regrace", "add", "alter", "drop", "rename",
                        "clear", "create", "swap"}
  BY <1>4, <1>9 DEF Runs, Durable
<1> QED BY <1>5, <1>6, <1>7, <1>8, <1>9

LEMMA EffectIs ==
  ASSUME Sound(work, origin), work.checks \in [Tables -> 1..Current],
         NEW v \in 2..21, NEW n \in Nat, NEW s, Shape(v, n, s), Runs(s), Drops(s) => fk = FALSE
  PROVE  Effect(v, n, s)
<1>1. ASSUME NEW db, Alters(db) \/ Writes(db) \/ Commits(db) PROVE work' = db
  BY <1>1 DEF Alters, Writes, Commits
<1> DEFINE Same(db) == /\ db.version = work.version /\ db.log = work.log /\ db.hours = work.hours
                       /\ db.app = work.app /\ db.type = work.type /\ db.filled = work.filled
                       /\ db.kind = work.kind /\ db.checks = work.checks
<1>2. /\ s[1] # "regrace" => ~(v = 6 /\ n = 3)
      /\ s[1] # "fill" => ~(v = 14 /\ n = 3)
      /\ s[1] # "swap" => ~(v = 10 /\ n = 7) /\ ~(v = 16 /\ n = 9)
      /\ s[1] = "drop" => v = 6 /\ n = 4
      /\ s[1] = "rename" => s[2] # Delay
      /\ s[1] = "fill" => v = 14 /\ n = 3
      /\ s[1] = "regrace" => v = 6 /\ n = 3
  BY DEF Shape
<1>3. ASSUME Same(work'), s[1] \notin {"regrace", "fill", "swap"},
             Delay \in work.columns => Delay \in work'.columns \/ s[1] = "drop"
      PROVE  Effect(v, n, s)
  BY <1>2, <1>3 DEF Effect
<1>4. ASSUME NEW x PROVE Same([work EXCEPT !.columns = x]) /\ [work EXCEPT !.columns = x].columns = x
  BY DEF Sound
<1>5. ASSUME NEW x PROVE Same([work EXCEPT !.temp = x]) /\ [work EXCEPT !.temp = x].columns = work.columns
  BY DEF Sound
<1>6. CASE s[1] \in {"commit", "copy"}
  <2>1. work' = work
    BY <1>1, <1>6 DEF Runs
  <2> QED BY <1>3, <1>6, <2>1
<1>7. CASE s[1] \in {"add", "alter"}
  <2>1. work' = [work EXCEPT !.columns = work.columns \cup {s[2]}]
    BY <1>1, <1>7 DEF Runs
  <2> QED BY <1>3, <1>4, <1>7, <2>1
<1>8. CASE s[1] = "drop"
  <2>1. work' = [work EXCEPT !.columns = work.columns \ {s[2]}]
    BY <1>1, <1>8 DEF Runs
  <2> QED BY <1>3, <1>4, <1>8, <2>1
<1>9. CASE s[1] = "rename"
  <2>1. CASE Keeps
    BY <1>3, <1>9, <2>1 DEF Keeps, dbVars
  <2>2. CASE ~Keeps
    <3>1. work' = [work EXCEPT !.columns = (work.columns \ {s[2]}) \cup {s[3]}]
      BY <1>1, <1>9, <2>2 DEF Runs
    <3> QED BY <1>2, <1>3, <1>4, <1>9, <3>1
  <2> QED BY <2>1, <2>2
<1>10. CASE s[1] = "clear"
  <2>1. work' = [work EXCEPT !.temp = work.temp \ s[2]]
    BY <1>1, <1>10 DEF Runs
  <2> QED BY <1>3, <1>5, <1>10, <2>1
<1>11. CASE s[1] = "create"
  <2>1. work' = [work EXCEPT !.temp = work.temp \cup {s[2]}]
    BY <1>1, <1>11 DEF Runs
  <2> QED BY <1>3, <1>5, <1>11, <2>1
<1>12. CASE s[1] = "swap"
  <2>1. PICK t \in Tables : /\ s[2] = <<v, t>> /\ (t = "instances" => v \in {5, 10})
                            /\ (v = 10 => (t = "instances" <=> n = 7))
                            /\ (v = 16 => (t = "cooldowns" <=> n = 9))
    BY <1>12 DEF Shape
  <2>2. work' = Swapped(v, t)
    BY <1>1, <1>12, <2>1 DEF Runs
  <2>3. t = "instances" => fk = FALSE
    BY <1>12, <2>1 DEF Drops
  <2>7. PICK db : db = Swapped(v, t)
    OBVIOUS
  <2>4. Rebuilt(db, v, t)
    BY <2>7, <2>3, SwapChanges
  <2>5. /\ v = 10 /\ n = 7 <=> t = "instances" /\ v = 10
        /\ v = 16 /\ n = 9 <=> t = "cooldowns" /\ v = 16
    BY <2>1
  <2>6. v >= 1
    OBVIOUS
  <2>8. work' = db
    BY <2>2, <2>7
  <2> QED BY <1>2, <1>12, <2>1, <2>4, <2>5, <2>6, <2>8 DEF Effect, Rebuilt
<1>13. CASE s[1] = "regrace"
  <2>1. work' = Regraced
    BY <1>1, <1>13 DEF Runs
  <2>2. Regraced = [work EXCEPT !.hours = Converted(work.hours)]
    BY DEF Regraced, Converted
  <2> HIDE DEF Converted
  <2>3. /\ work'.version = work.version /\ work'.log = work.log
        /\ work'.hours = Converted(work.hours)
        /\ work'.app = work.app /\ work'.type = work.type /\ work'.filled = work.filled
        /\ work'.kind = work.kind /\ work'.checks = work.checks /\ work'.columns = work.columns
    BY <2>1, <2>2 DEF Sound
  <2> QED BY <1>2, <1>13, <2>3 DEF Effect
<1>14. CASE s[1] = "fill"
  <2>1. work' = FilledIn
    BY <1>1, <1>14 DEF Runs
  <2>2. FilledIn = [work EXCEPT !.filled = TRUE, !.kind = Stamps(work)]
    BY DEF FilledIn, Stamps
  <2>3. /\ work'.version = work.version /\ work'.log = work.log /\ work'.hours = work.hours
        /\ work'.app = work.app /\ work'.type = work.type /\ work'.filled = TRUE
        /\ work'.kind = Stamps(work) /\ work'.checks = work.checks /\ work'.columns = work.columns
    BY <2>1, <2>2 DEF Sound
  <2> QED BY <1>2, <1>14, <2>3 DEF Effect
<1>15. CASE s[1] \notin {"commit", "add", "alter", "drop", "rename", "clear", "create", "copy",
                         "swap", "regrace", "fill"}
  <2>1. work' = work
    BY <1>15 DEF Runs, Keeps, dbVars
  <2> QED BY <1>3, <1>15, <2>1
<1> QED BY <1>6, <1>7, <1>8, <1>9, <1>10, <1>11, <1>12, <1>13, <1>14, <1>15

Leaves(s) == (s[1] = "unless" /\ Done(s[2])) \/ at[3] = Len(Script(at[2]))
LEMMA NextPlace ==
  ASSUME Places, at[1] \in {"ladder", "heal"}, NEW s, at' = Follows(s)
  PROVE  \/ /\ at' = <<at[1], at[2], at[3] + 1>> /\ ~Leaves(s)
         \/ /\ at[2] < 21 /\ Leaves(s) /\ at' = <<at[1], at[2] + 1, 1>>
         \/ /\ at[2] = 21 /\ at[1] = "ladder" /\ at' = <<"stamp", 0, 0>> /\ Leaves(s)
         \/ /\ at[2] = 21 /\ at[1] = "heal" /\ at' = <<"finish", 0, 0>> /\ Leaves(s)
<1>1. at[2] \in 2..21 /\ at[3] \in Nat
  BY StatementIs
<1>2. CASE Leaves(s)
  <2>1. at' = NextMigration
    BY <1>2 DEF Follows, Leaves
  <2>2. CASE at[2] < 21
    BY <1>2, <2>1, <2>2 DEF NextMigration, From, Current
  <2>3. CASE at[2] = 21
    BY <1>1, <1>2, <2>1, <2>3 DEF NextMigration, Current
  <2> QED BY <1>1, <2>2, <2>3
<1>3. CASE ~Leaves(s)
  BY <1>3 DEF Follows, Leaves
<1> QED BY <1>2, <1>3

LEMMA Lengths ==
  /\ Len(Script(6)) = 4 /\ Len(Script(10)) = 14 /\ Len(Script(14)) = 3 /\ Len(Script(15)) = 8
  /\ Len(Script(16)) = 13
<1>1. /\ Script(6) = V6 /\ Script(10) = V10 /\ Script(14) = V14
      /\ Script(15) = V15 /\ Script(16) = V16
  BY DEF Script, Ladder
<1> QED BY <1>1, Shape6, V10Is, Shape14, Shape15, Shape16

LEMMA ConvertedIs ==
  ASSUME NEW hours \in {<<36, 48>>, Six}
  PROVE  Converted(hours) = Six
<1>1. CASE hours = <<36, 48>>
  BY <1>1 DEF Converted, Six
<1>2. CASE hours = <<6, 48>>
  BY <1>2 DEF Converted, Six
<1> QED BY <1>1, <1>2 DEF Six

LEMMA FamilyIs == \A app : Family(Family(app)) = Family(app)
BY DEF Family
LEMMA FamilyTypeIs == \A type : FamilyType(FamilyType(type)) = FamilyType(type)
BY DEF FamilyType

LEMMA Marked ==
  ASSUME NEW checks \in [Tables -> 1..Current], NEW t \in Tables, NEW v \in 2..21, NEW next,
         next = [checks EXCEPT ![t] = v]
  PROVE  /\ next \in [Tables -> 1..Current]
         /\ next["instances"] = IF t = "instances" THEN v ELSE checks["instances"]
         /\ next["cooldowns"] = IF t = "cooldowns" THEN v ELSE checks["cooldowns"]
BY DEF Current, Tables

(* What a statement of the ladder leaves true of the database as the        *)
(* connection sees it.                                                      *)
LEMMA RunWay ==
  ASSUME UpgradeInv, origin' = origin, NEW v \in 2..21, NEW n \in Nat, NEW s,
         at[1] \in {"ladder", "heal"}, v = at[2], n = at[3], Shape(v, n, s), Effect(v, n, s)
  PROVE  Way(work)'
<1> USE DEF Current
<1>1. Born /\ Way(work)
  BY DEF UpgradeInv
<1>2. /\ at[1] = "ladder" => OnLadder /\ Filling
      /\ at[1] = "heal" => Healing /\ Filling
  BY DEF UpgradeInv, Whereabouts
<1>3. work'.version = work.version /\ work'.version \in {origin.version, Current}
  BY <1>1 DEF Effect, Way
<1>7. \/ work'.checks = work.checks
      \/ \E t \in Tables : /\ work'.checks = [work.checks EXCEPT ![t] = v]
                           /\ v \in {5, 10, 15, 16}
                           /\ (t = "instances" => v \in {5, 10})
                           /\ (v = 10 => (t = "instances" <=> n = 7))
                           /\ (v = 16 => (t = "cooldowns" <=> n = 9))
  BY DEF Effect, Shape
<1>4. /\ work'.checks \in [Tables -> 1..Current]
      /\ work'.checks["instances"] >= 10 /\ ~(work.checks["instances"] >= 10) => v = 10 /\ n = 7
      /\ work'.checks["cooldowns"] >= 16 /\ ~(work.checks["cooldowns"] >= 16) => v = 16 /\ n = 9
      /\ work'.checks["cooldowns"] >= 15 /\ ~(work.checks["cooldowns"] >= 15) => v >= 15
  <2>1. work.checks \in [Tables -> 1..Current]
    BY <1>1 DEF Way
  <2>2. CASE work'.checks = work.checks
    BY <2>1, <2>2
  <2>3. CASE work'.checks # work.checks
    <3>1. PICK t \in Tables : /\ work'.checks = [work.checks EXCEPT ![t] = v]
                              /\ v \in {5, 10, 15, 16}
                              /\ (t = "instances" => v \in {5, 10})
                              /\ (v = 10 => (t = "instances" <=> n = 7))
                              /\ (v = 16 => (t = "cooldowns" <=> n = 9))
      BY <1>7, <2>3
    <3>2. PICK next : next = [work.checks EXCEPT ![t] = v]
      OBVIOUS
    <3>3. /\ next \in [Tables -> 1..Current]
          /\ next["instances"] = IF t = "instances" THEN v ELSE work.checks["instances"]
          /\ next["cooldowns"] = IF t = "cooldowns" THEN v ELSE work.checks["cooldowns"]
      BY <2>1, <3>2, Marked
    <3>4. work'.checks = next
      BY <3>1, <3>2
    <3>5. next["instances"] >= 10 /\ ~(work.checks["instances"] >= 10) => v = 10 /\ n = 7
      BY <3>1, <3>3
    <3>6. next["cooldowns"] >= 16 /\ ~(work.checks["cooldowns"] >= 16) => v = 16 /\ n = 9
      BY <3>1, <3>3
    <3>7. next["cooldowns"] >= 15 /\ ~(work.checks["cooldowns"] >= 15) => v >= 15
      BY <3>1, <3>3
    <3> QED BY <3>3, <3>4, <3>5, <3>6, <3>7
  <2> QED BY <2>2, <2>3
<1>5. work'.filled \in BOOLEAN /\ (work.filled => work'.filled)
  BY <1>1 DEF Effect, Way
<1>6. HoursWay(work)'
  <2>1. HoursWay(work)
    BY <1>1 DEF Way
  <2>2. work.hours \in {<<36, 48>>, Six}
    BY <1>1, <2>1 DEF Born, HoursWay
  <2>3. work'.hours = work.hours \/ work'.hours = Six
    BY <2>2, ConvertedIs DEF Effect
  <2>4. work.hours = Six => work'.hours = Six
    BY <2>3
  <2>5. Delay \in work.columns /\ Delay \notin work'.columns => work.hours = Six
    <3> SUFFICES ASSUME Delay \in work.columns, Delay \notin work'.columns PROVE work.hours = Six
      OBVIOUS
    <3>1. v = 6 /\ n = 4
      BY DEF Effect
    <3>2. CASE at[1] = "ladder"
      BY <1>2, <3>1, <3>2 DEF OnLadder, Past
    <3>3. CASE at[1] = "heal"
      BY <1>2, <2>1, <3>3 DEF Healing, HoursWay
    <3> QED BY <3>2, <3>3
  <2> QED BY <1>3, <2>1, <2>3, <2>4, <2>5 DEF HoursWay
<1>9. AppWay(work)'
  <2>1. AppWay(work)
    BY <1>1 DEF Way
  <2>2. work'.app = work.app \/ work'.app = Family(work.app)
    BY DEF Effect
  <2>3. work.app = Family(origin.app) => work'.app = Family(origin.app)
    BY <2>2, FamilyIs
  <2>4. work'.app \in {origin.app, Family(origin.app)}
    BY <2>1, <2>2, FamilyIs DEF AppWay
  <2>5. work'.checks["instances"] >= 10 /\ ~(work.checks["instances"] >= 10) => v = 10 /\ n = 7
    BY <1>4
  <2>6. v = 10 /\ n = 7 => work'.app = Family(origin.app)
    BY <2>1, FamilyIs DEF Effect, AppWay
  <2> QED BY <1>3, <2>1, <2>3, <2>4, <2>5, <2>6 DEF AppWay
<1>10. TypeWay(work)'
  <2>1. TypeWay(work)
    BY <1>1 DEF Way
  <2>2. work'.type = work.type \/ work'.type = FamilyType(work.type)
    BY DEF Effect
  <2>3. work.type = FamilyType(origin.type) => work'.type = FamilyType(origin.type)
    BY <2>2, FamilyTypeIs
  <2>4. work'.type \in {origin.type, FamilyType(origin.type)}
    BY <2>1, <2>2, FamilyTypeIs DEF TypeWay
  <2>5. work'.checks["cooldowns"] >= 16 /\ ~(work.checks["cooldowns"] >= 16) => v = 16 /\ n = 9
    BY <1>4
  <2>6. v = 16 /\ n = 9 => work'.type = FamilyType(origin.type)
    BY <2>1, FamilyTypeIs DEF Effect, TypeWay
  <2> QED BY <1>3, <2>1, <2>3, <2>4, <2>5, <2>6 DEF TypeWay
<1>11. FilledWay(work)'
  <2>1. FilledWay(work)
    BY <1>1 DEF Way
  <2>2. work'.checks["cooldowns"] >= 15 /\ ~(work.checks["cooldowns"] >= 15) => v >= 15
    BY <1>4
  <2>3. v >= 15 /\ origin.version \in 1..13 => work.filled
    BY <1>2 DEF Filling
  <2> QED BY <1>5, <2>1, <2>2, <2>3 DEF FilledWay
<1> QED BY <1>3, <1>4, <1>5, <1>6, <1>9, <1>10, <1>11 DEF Way

LEMMA RunLinked ==
  ASSUME UpgradeInv, NEW v \in 2..21, NEW n \in Nat, NEW s,
         at[1] \in {"ladder", "heal"}, v = at[2], n = at[3], Shape(v, n, s), Effect(v, n, s),
         Durable(s)
  PROVE  Linked'
<1>1. Linked /\ Way(work)
  BY DEF UpgradeInv
<1>2. open' \in BOOLEAN /\ (open' = FALSE => work' = disk')
  BY DEF Durable
<1>3. work'.log = disk'.log
  BY <1>1 DEF Durable, Linked, Effect
<1>4. Level' \/ Pending'
  <2>1. CASE open' = FALSE
    BY <1>2, <2>1 DEF Level
  <2>2. CASE open' = TRUE /\ disk' = disk /\ v = 14 /\ n = 3
    <3>1. ~work.filled
      BY <2>2 DEF UpgradeInv, Whereabouts, Filling
    <3>2. Level
      BY <1>1, <3>1 DEF Linked, Pending
    <3>3. work'.filled = TRUE /\ work'.kind = Stamps(work)
      BY <2>2 DEF Effect
    <3>4. Stamps(work) = Stamps(disk)
      BY <1>1, <3>2 DEF Stamps, Linked, Level
    <3>5. ~disk.filled /\ Stamps(disk)' = Stamps(disk)
      BY <2>2, <3>1, <3>2 DEF Level, Stamps
    <3> QED BY <2>2, <3>3, <3>4, <3>5 DEF Pending
  <2>3. CASE open' = TRUE /\ disk' = disk /\ ~(v = 14 /\ n = 3)
    <3>1. work'.filled = work.filled /\ work'.kind = work.kind
      BY <2>3 DEF Effect
    <3>2. CASE Level
      BY <2>3, <3>1, <3>2 DEF Level
    <3>3. CASE Pending
      <4>1. Stamps(disk)' = Stamps(disk)
        BY <2>3 DEF Stamps
      <4> QED BY <2>3, <3>1, <3>3, <4>1 DEF Pending
    <3> QED BY <1>1, <3>2, <3>3 DEF Linked
  <2> QED BY <2>1, <2>2, <2>3 DEF Durable
<1> QED BY <1>2, <1>3, <1>4 DEF Linked

(* The next place of a script and what has been converted by then.          *)
LEMMA ClimbIs ==
  ASSUME UpgradeInv, Places, at[1] = "ladder", origin' = origin, NEW s,
         Shape(at[2], at[3], s), Effect(at[2], at[3], s)
  PROVE  /\ at[2] > 6 \/ (at[2] = 6 /\ (at[3] >= 3 \/ Leaves(s))) => work'.hours = Six
         /\ at[2] > 10 \/ (at[2] = 10 /\ (at[3] >= 7 \/ Leaves(s))) => work'.app = Family(origin.app)
         /\ at[2] > 16 \/ (at[2] = 16 /\ (at[3] >= 9 \/ Leaves(s)))
              => work'.type = FamilyType(origin.type)
<1>0. at[2] \in 2..21 /\ at[3] \in Nat
  BY StatementIs
<1>1. Way(work) /\ Born /\ OnLadder
  BY DEF UpgradeInv, Whereabouts
<1>2. HoursWay(work) /\ AppWay(work) /\ TypeWay(work)
  BY <1>1 DEF Way
<1>3. Leaves(s) => \/ at[3] = Len(Script(at[2]))
                   \/ s[1] = "unless" /\ Done(s[2]) /\ <<at[2], at[3], s[2]>> \in Guards
  BY DEF Leaves, Shape
<1>4. work.hours \in {<<36, 48>>, Six}
  BY <1>1, <1>2 DEF HoursWay, Born
<1>5. /\ work.hours = Six => work'.hours = Six
      /\ work.app = Family(origin.app) => work'.app = Family(origin.app)
      /\ work.type = FamilyType(origin.type) => work'.type = FamilyType(origin.type)
  BY <1>4, ConvertedIs, FamilyIs, FamilyTypeIs DEF Effect
<1>6. /\ at[2] = 6 /\ Leaves(s) => at[3] = 4 \/ Delay \notin work.columns
      /\ at[2] = 10 /\ Leaves(s) => at[3] = 14 \/ work.checks["instances"] >= 10
      /\ at[2] = 16 /\ Leaves(s) => at[3] = 13 \/ work.checks["cooldowns"] >= 16
  <2>1. /\ Done("graced") => Delay \notin work.columns
        /\ Done("v10") => work.checks["instances"] >= 10
        /\ Done("v16") => work.checks["cooldowns"] >= 16
    BY DEF Done
  <2>2. ASSUME <<at[2], at[3], s[2]>> \in Guards
        PROVE  /\ at[2] = 6 => s[2] = "graced"
               /\ at[2] = 10 => s[2] = "v10"
               /\ at[2] = 16 => s[2] = "v16"
    BY <2>2 DEF Guards
  <2>3. CASE at[3] = Len(Script(at[2]))
    BY <2>3, Lengths
  <2>4. CASE s[1] = "unless" /\ Done(s[2]) /\ <<at[2], at[3], s[2]>> \in Guards
    BY <2>1, <2>2, <2>4
  <2> QED BY <1>3, <2>3, <2>4
<1>7. /\ at[2] = 6 /\ at[3] = 3 => work'.hours = Six
      /\ at[2] = 10 /\ at[3] = 7 => work'.app = Family(origin.app)
      /\ at[2] = 16 /\ at[3] = 9 => work'.type = FamilyType(origin.type)
  BY <1>2, <1>4, ConvertedIs, FamilyIs, FamilyTypeIs DEF Effect, AppWay, TypeWay
<1>8. /\ at[2] > 6 \/ (at[2] = 6 /\ at[3] > 3) => work.hours = Six
      /\ at[2] > 10 \/ (at[2] = 10 /\ at[3] > 7) => work.app = Family(origin.app)
      /\ at[2] > 16 \/ (at[2] = 16 /\ at[3] > 9) => work.type = FamilyType(origin.type)
  BY <1>1 DEF OnLadder, Past
<1>9. /\ Delay \notin work.columns => work.hours = Six
      /\ work.checks["instances"] >= 10 => work.app = Family(origin.app)
      /\ work.checks["cooldowns"] >= 16 => work.type = FamilyType(origin.type)
  BY <1>2 DEF HoursWay, AppWay, TypeWay
<1>10. at[2] > 6 \/ (at[2] = 6 /\ (at[3] >= 3 \/ Leaves(s))) => work'.hours = Six
  BY <1>0, <1>5, <1>6, <1>7, <1>8, <1>9
<1>11. at[2] > 10 \/ (at[2] = 10 /\ (at[3] >= 7 \/ Leaves(s))) => work'.app = Family(origin.app)
  BY <1>0, <1>5, <1>6, <1>7, <1>8, <1>9
<1>12. at[2] > 16 \/ (at[2] = 16 /\ (at[3] >= 9 \/ Leaves(s)))
         => work'.type = FamilyType(origin.type)
  BY <1>0, <1>5, <1>6, <1>7, <1>8, <1>9
<1> QED BY <1>10, <1>11, <1>12

(* A fill-in that waits is committed by the next script.                    *)
LEMMA LadderLevel ==
  ASSUME UpgradeInv, Places, at[1] = "ladder", NEW s,
         Shape(at[2], at[3], s), Effect(at[2], at[3], s), Durable(s)
  PROVE  \/ Level'
         \/ at[2] = 14 /\ at[3] = 3 /\ work'.checks["cooldowns"] < 15
         \/ at[2] = 15 /\ at[3] = 1 /\ ~Leaves(s) /\ work'.checks["cooldowns"] < 15
<1>0. at[2] \in 2..21 /\ at[3] \in Nat
  BY StatementIs
<1>1. Way(work) /\ Born /\ OnLadder /\ Filling /\ origin.version \in 1..20
  BY DEF UpgradeInv, Whereabouts, Current
<1>2. CASE open' = FALSE
  BY <1>2 DEF Durable, Level
<1>3. CASE open' = TRUE /\ at[2] = 14 /\ at[3] = 3
  <2>1. ~work.filled /\ origin.version \in 1..13
    BY <1>1, <1>3 DEF Filling, OnLadder
  <2>2. ~(work.checks["cooldowns"] >= 15)
    BY <1>1, <2>1 DEF Way, FilledWay
  <2>3. s[1] = "fill"
    BY <1>3 DEF Shape
  <2>4. work'.checks = work.checks
    BY <2>3 DEF Effect
  <2>5. work.checks["cooldowns"] \in 1..21
    BY <1>1 DEF Way, Tables, Current
  <2>6. work'.checks["cooldowns"] < 15
    BY <2>2, <2>4, <2>5
  <2> QED BY <1>3, <2>6
<1>4. CASE open' = TRUE /\ ~(at[2] = 14 /\ at[3] = 3)
  <2>1. work'.kind = work.kind /\ work'.filled = work.filled /\ disk' = disk
    BY <1>4 DEF Effect, Durable
  <2>2. CASE Level
    BY <2>1, <2>2 DEF Level
  <2>3. CASE at[2] = 15 /\ at[3] = 1 /\ work.checks["cooldowns"] < 15
    <3>1. s[1] = "unless"
      BY <2>3 DEF Shape
    <3>2. s[2] = "v15"
      BY <2>3, <3>1 DEF Shape, Guards
    <3>3. ~Done(s[2])
      <4>1. work.checks["cooldowns"] \in 1..21
        BY <1>1 DEF Way, Tables, Current
      <4> QED BY <2>3, <3>2, <4>1 DEF Done
    <3>4. ~Leaves(s)
      BY <2>3, <3>3, Lengths DEF Leaves
    <3>5. work'.checks = work.checks
      BY <3>1 DEF Effect
    <3> QED BY <2>3, <3>4, <3>5
  <2>4. CASE at[2] = 15 /\ at[3] = 2
    <3>1. s[1] = "commit"
      BY <2>4 DEF Shape
    <3> QED BY <1>4, <3>1 DEF Durable
  <2> QED BY <1>1, <2>2, <2>3, <2>4 DEF OnLadder
<1> QED BY <1>2, <1>3, <1>4 DEF Durable

LEMMA FillingGoesOn ==
  ASSUME UpgradeInv, Places, at[1] \in {"ladder", "heal"}, origin' = origin, NEW s,
         Shape(at[2], at[3], s), Effect(at[2], at[3], s), at' = Follows(s),
         at'[1] \in {"ladder", "heal"}
  PROVE  Filling'
<1>0. at[2] \in 2..21 /\ at[3] \in Nat
  BY StatementIs
<1>1. Way(work) /\ Born /\ Filling
  BY DEF UpgradeInv, Whereabouts
<1>2. \/ at'[2] = at[2] /\ at'[3] = at[3] + 1 /\ ~Leaves(s)
      \/ at'[2] = at[2] + 1 /\ at'[3] = 1 /\ Leaves(s)
  <2>1. CASE at' = <<at[1], at[2], at[3] + 1>> /\ ~Leaves(s)
    BY <2>1
  <2>2. CASE at' = <<at[1], at[2] + 1, 1>> /\ Leaves(s)
    BY <2>2
  <2>3. CASE at' \in {<<"stamp", 0, 0>>, <<"finish", 0, 0>>}
    BY <2>3
  <2> QED BY <2>1, <2>2, <2>3, NextPlace
<1>3. at'[2] = 14 /\ at'[3] = 3 => ~work'.filled
  <2> SUFFICES ASSUME at'[2] = 14, at'[3] = 3 PROVE ~work'.filled
    OBVIOUS
  <2>1. at[2] = 14 /\ at[3] = 2 /\ ~Leaves(s)
    BY <1>0, <1>2
  <2>2. s[1] = "unless" /\ s[2] = "filled"
    BY <2>1 DEF Shape, Guards
  <2>3. ~work.filled
    BY <2>1, <2>2 DEF Leaves, Done
  <2> QED BY <2>1, <2>3 DEF Effect
<1>4. at'[2] >= 15 /\ origin.version \in 1..13 => work'.filled
  <2> SUFFICES ASSUME at'[2] >= 15, origin.version \in 1..13 PROVE work'.filled
    OBVIOUS
  <2>0. work.filled => work'.filled
    BY DEF Effect
  <2>1. CASE at[2] >= 15
    BY <1>1, <2>0, <2>1 DEF Filling
  <2>2. CASE at[2] = 14 /\ Leaves(s)
    <3>1. CASE at[3] = 3
      BY <2>2, <3>1 DEF Effect
    <3>2. CASE at[3] # 3
      <4>1. s[1] = "unless" /\ Done(s[2])
        BY <2>2, <3>2, Lengths DEF Leaves
      <4>2. s[2] = "filled"
        BY <2>2, <4>1 DEF Shape, Guards
      <4> QED BY <2>0, <4>1, <4>2 DEF Done
    <3> QED BY <3>1, <3>2
  <2> QED BY <1>0, <1>2, <2>1, <2>2
<1> QED BY <1>3, <1>4 DEF Filling

LEMMA RunWhereabouts ==
  ASSUME UpgradeInv, Places, at[1] \in {"ladder", "heal"}, origin' = origin, NEW s,
         Shape(at[2], at[3], s), Effect(at[2], at[3], s), Durable(s), at' = Follows(s)
  PROVE  Whereabouts'
<1>0. at[2] \in 2..21 /\ at[3] \in Nat
  BY StatementIs
<1>1. /\ at[1] = "ladder" => OnLadder /\ Filling /\ origin.version \in 1..20
      /\ at[1] = "heal" => Healing /\ Filling
  BY DEF UpgradeInv, Whereabouts, Current
<1>2. work'.version = work.version /\ disk'.version = disk.version
  BY <1>1 DEF OnLadder, Healing, Unstored, Effect, Durable
<1>3. CASE at[1] = "heal"
  <2>1. Healing'
    BY <1>1, <1>2, <1>3 DEF Healing
  <2>2. CASE at' = <<"finish", 0, 0>>
    <3>1. at'[1] = "finish"
      BY <2>2
    <3> QED BY <2>1, <3>1 DEF Whereabouts, Healing
  <2>3. CASE at'[1] = "heal"
    <3>1. Filling'
      BY <1>3, <2>3, FillingGoesOn
    <3> QED BY <2>1, <2>3, <3>1 DEF Whereabouts
  <2>4. at' = <<"finish", 0, 0>> \/ at'[1] = "heal"
    BY <1>3, NextPlace
  <2> QED BY <2>2, <2>3, <2>4
<1>4. CASE at[1] = "ladder"
  <2>1. Unstored' /\ work'.version = origin.version
    BY <1>1, <1>2, <1>4 DEF OnLadder, Unstored
  <2>2. /\ at[2] > 6 \/ (at[2] = 6 /\ (at[3] >= 3 \/ Leaves(s))) => work'.hours = Six
        /\ at[2] > 10 \/ (at[2] = 10 /\ (at[3] >= 7 \/ Leaves(s))) => work'.app = Family(origin.app)
        /\ at[2] > 16 \/ (at[2] = 16 /\ (at[3] >= 9 \/ Leaves(s)))
             => work'.type = FamilyType(origin.type)
    BY <1>4, ClimbIs
  <2>3. \/ Level'
        \/ at[2] = 14 /\ at[3] = 3 /\ work'.checks["cooldowns"] < 15
        \/ at[2] = 15 /\ at[3] = 1 /\ ~Leaves(s) /\ work'.checks["cooldowns"] < 15
    BY <1>4, LadderLevel
  <2>4. CASE at' = <<at[1], at[2], at[3] + 1>> /\ ~Leaves(s)
    <3>1. at'[1] = "ladder" /\ at'[2] = at[2] /\ at'[3] = at[3] + 1
      BY <1>4, <2>4
    <3>2. Filling'
      BY <3>1, FillingGoesOn
    <3>3. ~(at[2] = 14 /\ at[3] = 3)
      BY <2>4, Lengths DEF Leaves
    <3>4. Level' \/ (at'[2] = 15 /\ at'[3] \in 1..2 /\ work'.checks["cooldowns"] < 15)
      BY <2>3, <3>1, <3>3
    <3>5. /\ Past(6, 3)' => work'.hours = Six
          /\ Past(10, 7)' => work'.app = Family(origin.app)
          /\ Past(16, 9)' => work'.type = FamilyType(origin.type)
      BY <1>0, <2>2, <3>1 DEF Past
    <3>6. at'[2] > origin.version
      BY <1>1, <1>4, <3>1 DEF OnLadder
    <3>7. OnLadder'
      BY <2>1, <3>4, <3>5, <3>6 DEF OnLadder
    <3> QED BY <1>1, <1>4, <3>1, <3>2, <3>7 DEF Whereabouts, Current
  <2>5. CASE at' = <<at[1], at[2] + 1, 1>> /\ Leaves(s)
    <3>1. at'[1] = "ladder" /\ at'[2] = at[2] + 1 /\ at'[3] = 1
      BY <1>4, <2>5
    <3>2. Filling'
      BY <3>1, FillingGoesOn
    <3>4. Level' \/ (at'[2] = 15 /\ at'[3] \in 1..2 /\ work'.checks["cooldowns"] < 15)
      BY <2>3, <2>5, <3>1
    <3>5. /\ Past(6, 3)' => work'.hours = Six
          /\ Past(10, 7)' => work'.app = Family(origin.app)
          /\ Past(16, 9)' => work'.type = FamilyType(origin.type)
      BY <1>0, <2>2, <2>5, <3>1 DEF Past
    <3>6. at'[2] > origin.version
      BY <1>0, <1>1, <1>4, <3>1 DEF OnLadder
    <3>7. OnLadder'
      BY <2>1, <3>4, <3>5, <3>6 DEF OnLadder
    <3> QED BY <1>1, <1>4, <3>1, <3>2, <3>7 DEF Whereabouts, Current
  <2>6. CASE at' = <<"stamp", 0, 0>> /\ at[2] = 21
    <3>1. at'[1] = "stamp"
      BY <2>6
    <3>2. Level'
      BY <2>3, <2>6
    <3> QED BY <2>1, <2>2, <2>6, <3>1, <3>2 DEF Whereabouts
  <2> QED BY <1>4, <2>4, <2>5, <2>6, NextPlace
<1> QED BY <1>3, <1>4

LEMMA RunGoesOn ==
  ASSUME UpgradeInv, BootInv, Run
  PROVE  UpgradeInv' /\ Durable(Statement) /\ Effect(at[2], at[3], Statement)
<1> DEFINE s == Statement
<1>1. /\ at[1] \in {"ladder", "heal"} /\ Runs(s) /\ at' = Follows(s)
      /\ origin' = origin /\ s = Script(at[2])[at[3]]
  BY DEF Run, Statement
<1> HIDE DEF s
<1>2. InScript(at[2], at[3]) /\ at[2] \in 2..21 /\ at[3] \in Nat /\ Places /\ Sound(work, origin)
  BY <1>1, StatementIs DEF BootInv, Kept
<1>3. Shape(at[2], at[3], s)
  BY <1>1, <1>2, ShapeIs
<1>4. Drops(s) => fk = FALSE
  <2> SUFFICES ASSUME Drops(s) PROVE fk = FALSE
    OBVIOUS
  <2>1. (at[2] = 5 /\ at[3] = 5) \/ (at[2] = 10 /\ at[3] = 7)
    BY <1>1, <1>2, Dropping DEF InScript
  <2> QED BY <2>1 DEF BootInv, Prepared
<1>5. Linked /\ Way(work) /\ Way(disk) /\ Born /\ work.checks \in [Tables -> 1..Current]
  BY DEF UpgradeInv, Way
<1>6. Durable(s)
  BY <1>1, <1>5, DurableIs
<1>7. Effect(at[2], at[3], s)
  BY <1>1, <1>2, <1>3, <1>4, <1>5, EffectIs
<1>8. Way(work)'
  BY <1>1, <1>2, <1>3, <1>7, RunWay
<1>9. Way(disk)'
  <2>1. CASE disk' = work'
    BY <1>8, <2>1 DEF Way, HoursWay, AppWay, TypeWay, FilledWay
  <2>2. CASE disk' = disk
    BY <1>1, <1>5, <2>2 DEF Way, HoursWay, AppWay, TypeWay, FilledWay
  <2> QED BY <1>6, <2>1, <2>2 DEF Durable
<1>10. Linked'
  BY <1>1, <1>2, <1>3, <1>6, <1>7, RunLinked
<1>11. Whereabouts'
  BY <1>1, <1>2, <1>3, <1>6, <1>7, RunWhereabouts
<1>12. Born'
  BY <1>1, <1>5 DEF Born
<1> QED BY <1>6, <1>7, <1>8, <1>9, <1>10, <1>11, <1>12 DEF UpgradeInv, s

-----------------------------------------------------------------------------
(* The rows of the abstract start and its version.                          *)
UVersion == IF Stored THEN "new" ELSE "old"
Unit == IF Stored \/ origin.version \in {0} \cup (6..Current) THEN "grace" ELSE "delay"
URows == [unit   |-> Unit,
          hours  |-> IF Stored THEN disk.hours ELSE origin.hours,
          app    |-> IF Stored THEN disk.app ELSE origin.app,
          type   |-> IF Stored THEN disk.type ELSE origin.type,
          kind   |-> disk.kind,
          log    |-> disk.log,
          filled |-> disk.filled]
Abstract == Upgrade!Next \/ UNCHANGED Upgrade!vars

LEMMA StillIs ==
  ASSUME UNCHANGED <<UVersion, URows>>
  PROVE  Abstract
BY DEF Abstract, Upgrade!vars, UVersion, URows, Unit

LEMMA FillInIs ==
  ASSUME UNCHANGED UVersion, ~URows.filled,
         URows' = [URows EXCEPT !.filled = TRUE,
                                !.kind = [i \in Items |->
                                  IF URows.kind[i] = "missing" /\ URows.log[i] # Absent
                                  THEN URows.log[i] ELSE URows.kind[i]]]
  PROVE  Abstract
BY DEF Abstract, Upgrade!Next, Upgrade!FillIn, UVersion, URows, Unit

LEMMA ForgetIs ==
  ASSUME UNCHANGED UVersion, NEW S \in SUBSET Items,
         URows' = [URows EXCEPT !.log = [i \in Items |-> IF i \in S THEN Absent ELSE URows.log[i]]]
  PROVE  Abstract
BY DEF Abstract, Upgrade!Next, Upgrade!Forget, UVersion, URows, Unit

LEMMA SearchIs ==
  ASSUME UNCHANGED UVersion, UVersion = "new", NEW i \in Items, NEW k \in Kinds,
         NEW logged \in BOOLEAN,
         URows' = [URows EXCEPT !.kind[i] = k, !.log[i] = IF logged THEN k ELSE @]
  PROVE  Abstract
<1>1. \E l \in BOOLEAN : URows' = [URows EXCEPT !.kind[i] = k, !.log[i] = IF l THEN k ELSE @]
  OBVIOUS
<1>2. Upgrade!Search(i, k)
  BY <1>1, Zenon DEF Upgrade!Search, UVersion, URows, Unit
<1> QED BY <1>2 DEF Abstract, Upgrade!Next

LEMMA ConvertIs ==
  ASSUME UVersion = "old", UVersion' = "new", URows' = Upgrade!Renamed(Upgrade!Regraced(URows))
  PROVE  Abstract
BY DEF Abstract, Upgrade!Next, Upgrade!Convert, UVersion, URows, Unit

AreRows(r, unit, hours, app, type, kind, log, filled) ==
  r = [unit |-> unit, hours |-> hours, app |-> app, type |-> type, kind |-> kind, log |-> log,
       filled |-> filled]

Revised(next, r, kind, log, filled) ==
  next = [r EXCEPT !.kind = kind, !.log = log, !.filled = filled]

LEMMA Replaced ==
  ASSUME NEW unit, NEW hours, NEW app, NEW type, NEW kind, NEW log, NEW filled,
         NEW kind2, NEW log2, NEW filled2, NEW r, NEW next,
         AreRows(r, unit, hours, app, type, kind, log, filled),
         AreRows(next, unit, hours, app, type, kind2, log2, filled2)
  PROVE  Revised(next, r, kind2, log2, filled2)
<1>1. PICK new : new = [r EXCEPT !.kind = kind2, !.log = log2, !.filled = filled2]
  OBVIOUS
<1>2. new = [unit |-> unit, hours |-> hours, app |-> app, type |-> type, kind |-> kind2,
             log |-> log2, filled |-> filled2]
  BY <1>1 DEF AreRows
<1> QED BY <1>1, <1>2 DEF AreRows, Revised

LEMMA URowsAre ==
  URows = [unit |-> URows.unit, hours |-> URows.hours, app |-> URows.app, type |-> URows.type,
           kind |-> disk.kind, log |-> disk.log, filled |-> disk.filled]
BY DEF URows

(* The rows change with the committed kinds, log and mark only, as long as  *)
(* the stored version does not change.                                      *)
LEMMA RowsAre ==
  ASSUME Way(disk), Way(disk)', origin' = origin, disk'.version = disk.version
  PROVE  /\ UVersion' = UVersion
         /\ Revised(URows', URows, disk'.kind, disk'.log, disk'.filled)
<1>1. Stored' = Stored
  BY DEF Stored
<1>2. Stored => /\ disk.hours = Six /\ disk'.hours = Six
                /\ disk.app = Family(origin.app) /\ disk'.app = Family(origin.app)
                /\ disk.type = FamilyType(origin.type) /\ disk'.type = FamilyType(origin.type)
  BY <1>1 DEF Way, HoursWay, AppWay, TypeWay, Stored
<1>3. UVersion' = UVersion /\ Unit' = Unit
  BY <1>1 DEF UVersion, Unit
<1>4. CASE Stored
  <2>1. AreRows(URows, Unit, Six, Family(origin.app), FamilyType(origin.type), disk.kind,
                disk.log, disk.filled)
    BY <1>2, <1>4 DEF URows, AreRows
  <2>2. AreRows(URows', Unit, Six, Family(origin.app), FamilyType(origin.type), disk'.kind,
                disk'.log, disk'.filled)
    BY <1>1, <1>2, <1>3, <1>4 DEF URows, AreRows
  <2> QED BY <1>3, <2>1, <2>2, Replaced
<1>5. CASE ~Stored
  <2>1. AreRows(URows, Unit, origin.hours, origin.app, origin.type, disk.kind, disk.log,
                disk.filled)
    BY <1>5 DEF URows, AreRows
  <2>2. AreRows(URows', Unit, origin.hours, origin.app, origin.type, disk'.kind, disk'.log,
                disk'.filled)
    BY <1>1, <1>3, <1>5 DEF URows, AreRows
  <2> QED BY <1>3, <2>1, <2>2, Replaced
<1> QED BY <1>3, <1>4, <1>5

LEMMA CommitIs ==
  ASSUME UpgradeInv, Way(disk)', origin' = origin, disk'.version = disk.version,
         disk'.kind = work.kind, disk'.filled = work.filled, disk'.log = disk.log
  PROVE  Abstract
<1>1. /\ UVersion' = UVersion
      /\ URows' = [URows EXCEPT !.kind = work.kind, !.log = disk.log, !.filled = work.filled]
  BY RowsAre DEF UpgradeInv, Revised
<1>2. URows.kind = disk.kind /\ URows.log = disk.log /\ URows.filled = disk.filled
  BY DEF URows
<1>3. CASE Level
  <2>1. URows' = URows
    <3>1. AreRows(URows, URows.unit, URows.hours, URows.app, URows.type, work.kind, disk.log,
                  work.filled)
      BY <1>3, URowsAre DEF Level, AreRows
    <3>2. AreRows(URows, URows.unit, URows.hours, URows.app, URows.type, disk.kind, disk.log,
                  disk.filled)
      BY URowsAre DEF AreRows
    <3>3. Revised(URows, URows, work.kind, disk.log, work.filled)
      BY <3>1, <3>2, Replaced
    <3> QED BY <1>1, <3>3 DEF Revised
  <2> QED BY <1>1, <2>1, StillIs
<1>4. CASE Pending
  <2> DEFINE kind == [i \in Items |-> IF URows.kind[i] = "missing" /\ URows.log[i] # Absent
                                     THEN URows.log[i] ELSE URows.kind[i]]
  <2>1. work.kind = kind /\ work.filled = TRUE /\ ~URows.filled
    <3>1. work.filled \in BOOLEAN
      BY DEF UpgradeInv, Way
    <3> QED BY <1>2, <1>4, <3>1 DEF Pending, Stamps
  <2> HIDE DEF kind
  <2>2. URows' = [URows EXCEPT !.filled = TRUE, !.kind = kind]
    BY <1>1, <1>2, <2>1, URowsAre
  <2> QED BY <1>1, <2>1, <2>2, FillInIs DEF kind
<1> QED BY <1>3, <1>4 DEF UpgradeInv, Linked

(* The commit that stores the version converts every row at once.           *)
LEMMA ConversionIs ==
  ASSUME UpgradeInv, Unstored, work.version = Current, Level, disk' = work, origin' = origin
  PROVE  Abstract
<1>1. Born /\ HoursWay(work) /\ AppWay(work) /\ TypeWay(work) /\ work.log = disk.log
  BY DEF UpgradeInv, Way, Linked
<1>2. /\ work.hours = Six /\ work.app = Family(origin.app)
      /\ work.type = FamilyType(origin.type)
  BY <1>1 DEF HoursWay, AppWay, TypeWay
<1>3. ~Stored /\ Stored'
  BY DEF Unstored, Stored
<1>4. UVersion = "old" /\ UVersion' = "new"
  BY <1>3 DEF UVersion
<1>5. URows' = [unit |-> "grace", hours |-> Six, app |-> Family(origin.app),
                type |-> FamilyType(origin.type), kind |-> disk.kind, log |-> disk.log,
                filled |-> disk.filled]
  BY <1>1, <1>2, <1>3 DEF URows, Unit, Level
<1>6. URows = [unit |-> Unit, hours |-> origin.hours, app |-> origin.app, type |-> origin.type,
               kind |-> disk.kind, log |-> disk.log, filled |-> disk.filled]
  BY <1>3 DEF URows
<1>7. PICK regraced : regraced = Upgrade!Regraced(URows)
  OBVIOUS
<1>8. regraced = [unit |-> "grace", hours |-> Six, app |-> origin.app, type |-> origin.type,
                  kind |-> disk.kind, log |-> disk.log, filled |-> disk.filled]
  <2>1. CASE Unit = "grace"
    <3>1. origin.version \notin 1..5
      BY <1>3, <2>1 DEF Unit, Current
    <3>2. origin.hours = Six
      BY <1>1, <3>1 DEF Born
    <3>3. regraced = URows
      BY <1>6, <1>7, <2>1 DEF Upgrade!Regraced
    <3> QED BY <1>6, <2>1, <3>2, <3>3
  <2>2. CASE Unit # "grace"
    <3>1. URows.unit = Unit /\ URows.hours = origin.hours
      BY <1>6
    <3>2. regraced = [URows EXCEPT !.unit = "grace", !.hours = Converted(origin.hours)]
      BY <1>7, <2>2, <3>1 DEF Upgrade!Regraced, Converted
    <3>3. Converted(origin.hours) = Six
      BY <1>1, ConvertedIs DEF Born
    <3> QED BY <1>6, <3>2, <3>3
  <2> QED BY <2>1, <2>2
<1>9. Upgrade!Renamed(regraced) =
        [regraced EXCEPT !.app = Family(regraced.app), !.type = FamilyType(regraced.type)]
  BY DEF Upgrade!Renamed, Family, FamilyType
<1>10. URows' = Upgrade!Renamed(regraced)
  BY <1>5, <1>8, <1>9
<1> QED BY <1>4, <1>7, <1>10, ConvertIs

-----------------------------------------------------------------------------
LEMMA NewestIs ==
  ASSUME NEW S \in SUBSET {5, 10, 15, 16}, NEW v \in Nat
  PROVE  Newest(S, v) \in {1} \cup {w \in S : w <= v}
<1> DEFINE T == {1} \cup {w \in S : w <= v}
<1>1. T \subseteq {1, 5, 10, 15, 16} /\ 1 \in T
  OBVIOUS
<1> HIDE DEF T
<1>2. \E x \in T : \A y \in T : x >= y
  <2>1. CASE 16 \in T
    BY <1>1, <2>1
  <2>2. CASE 16 \notin T /\ 15 \in T
    BY <1>1, <2>2
  <2>3. CASE 16 \notin T /\ 15 \notin T /\ 10 \in T
    BY <1>1, <2>3
  <2>4. CASE 16 \notin T /\ 15 \notin T /\ 10 \notin T /\ 5 \in T
    BY <1>1, <2>4
  <2>5. CASE 16 \notin T /\ 15 \notin T /\ 10 \notin T /\ 5 \notin T
    BY <1>1, <2>5
  <2> QED BY <2>1, <2>2, <2>3, <2>4, <2>5
<1>3. Max(T) \in T
  BY <1>2 DEF Max
<1> QED BY <1>3 DEF Newest, T

Dated(db, v, filled) ==
  /\ db.version = v /\ db.filled = filled
  /\ db.checks \in [Tables -> 1..Current]
  /\ db.hours = IF v < 6 THEN <<36, 48>> ELSE Six
  /\ v < 6 => Delay \in db.columns
  /\ v < 5 \/ v >= 10 => db.app = Family(db.app)
  /\ v < 10 => ~(db.checks["instances"] >= 10)
  /\ v < 5 \/ v >= 16 => db.type = FamilyType(db.type)
  /\ v < 16 => ~(db.checks["cooldowns"] >= 16)
  /\ v < 14 => ~(db.checks["cooldowns"] >= 15)

LEMMA DatabaseIs ==
  ASSUME NEW v \in 1..21, NEW kind, NEW log, NEW filled \in BOOLEAN, v < 14 => filled = FALSE,
         NEW db, db = Database(v, kind, log, filled)
  PROVE  Dated(db, v, filled)
<1>1. /\ db.version = v /\ db.filled = filled /\ db.checks = Checks(v)
      /\ db.hours = IF v < 6 THEN <<36, 48>> ELSE Six
      /\ db.columns = Columns(v)
      /\ db.app = IF v < 5 THEN "sonarr" ELSE IF v < 10 THEN "whisparr" ELSE "whisparr_v2"
      /\ db.type = IF v < 5 THEN "episode"
                   ELSE IF v < 16 THEN "whisparr_episode" ELSE "whisparr_v2_episode"
  BY DEF Database, Six
<1>2. v < 6 => Delay \in Columns(v)
  <2> DEFINE U == UNION {AddedBy(w) : w \in 2..v}
  <2>1. v < 6 => Columns(v) = U \cup {Delay}
    BY DEF Columns
  <2> HIDE DEF U
  <2> QED BY <2>1
<1>3. /\ Newest({5, 10}, v) \in {1} \cup {w \in {5, 10} : w <= v}
      /\ Newest({5, 10, 15, 16}, v) \in {1} \cup {w \in {5, 10, 15, 16} : w <= v}
      /\ Newest({5, 10, 16}, v) \in {1} \cup {w \in {5, 10, 16} : w <= v}
  BY NewestIs
<1>4. Checks(v) \in [Tables -> 1..Current]
  BY <1>3 DEF Checks, Tables, Current
<1>5. /\ Checks(v)["instances"] = Newest({5, 10}, v)
      /\ Checks(v)["cooldowns"] = Newest({5, 10, 15, 16}, v)
  BY DEF Checks
<1>6. /\ v < 10 => ~(Newest({5, 10}, v) >= 10)
      /\ v < 16 => ~(Newest({5, 10, 15, 16}, v) >= 16)
      /\ v < 14 => ~(Newest({5, 10, 15, 16}, v) >= 15)
  BY <1>3
<1>7. v < 5 \/ v >= 10 => db.app = Family(db.app)
  BY <1>1 DEF Family
<1>8. v < 5 \/ v >= 16 => db.type = FamilyType(db.type)
  BY <1>1 DEF FamilyType
<1> QED BY <1>1, <1>2, <1>4, <1>5, <1>6, <1>7, <1>8 DEF Dated

LEMMA UpgradeStarts == Init => UpgradeInv
<1> SUFFICES ASSUME Init PROVE UpgradeInv
  OBVIOUS
<1>1. work = disk /\ origin = disk /\ open = FALSE /\ at = <<"schema", 0, 0>>
  BY DEF Init
<1>2. Born /\ Way(disk)
  <2>1. PICK v \in Starts : disk \in FoundAt(v)
    BY DEF Init, Found
  <2>2. v \in 0..21
    BY VersionsOK DEF Current
  <2>3. CASE v = 0
    <3>1. PICK db : db = Database(Current, NoRows, NoRows, FALSE)
      OBVIOUS
    <3>2. disk = [db EXCEPT !.version = 0]
      <4>1. disk = Fresh
        BY <2>1, <2>3 DEF FoundAt
      <4> QED BY <3>1, <4>1 DEF Fresh
    <3>3. Dated(db, Current, FALSE)
      <4>1. Current \in 1..21 /\ ~(Current < 14)
        BY DEF Current
      <4> QED BY <3>1, <4>1, DatabaseIs
    <3>4. /\ db.checks \in [Tables -> 1..Current] /\ db.filled = FALSE
          /\ db.hours = Six
          /\ db.app = Family(db.app) /\ db.type = FamilyType(db.type)
      BY <3>3 DEF Dated, Current
    <3>5. /\ disk.version = 0 /\ disk.checks = db.checks /\ disk.filled = db.filled
          /\ disk.hours = db.hours /\ disk.app = db.app /\ disk.type = db.type
      <4>1. db = [version |-> db.version, columns |-> db.columns, checks |-> db.checks,
                  temp |-> db.temp, app |-> db.app, hours |-> db.hours, type |-> db.type,
                  kind |-> db.kind, log |-> db.log, filled |-> db.filled]
        BY <3>1 DEF Database
      <4> QED BY <3>2, <4>1
    <3>6. /\ disk.version = 0 /\ disk.checks \in [Tables -> 1..Current] /\ disk.filled = FALSE
          /\ disk.hours = Six
          /\ disk.app = Family(disk.app) /\ disk.type = FamilyType(disk.type)
      BY <3>4, <3>5
    <3>7. Born
      BY <1>1, <3>6 DEF Born, Current
    <3>8. HoursWay(disk) /\ AppWay(disk) /\ TypeWay(disk) /\ FilledWay(disk)
      BY <1>1, <3>6 DEF HoursWay, AppWay, TypeWay, FilledWay
    <3> QED BY <1>1, <3>6, <3>7, <3>8 DEF Way
  <2>4. CASE v # 0
    <3> DEFINE Marks == IF v < 14 THEN {FALSE} ELSE BOOLEAN
               Logs == [Items -> Kinds \cup {Absent}]
    <3>1. FoundAt(v) = {Database(v, Unstamped, log, filled) : log \in Logs, filled \in Marks}
      BY <2>4 DEF FoundAt
    <3> HIDE DEF Logs, Marks
    <3>2. PICK log \in Logs, filled \in Marks : disk = Database(v, Unstamped, log, filled)
      BY <2>1, <3>1
    <3>3. filled \in BOOLEAN /\ (v < 14 => filled = FALSE) /\ v \in 1..21
      <4>1. CASE v < 14
        BY <2>2, <2>4, <3>2, <4>1 DEF Marks
      <4>2. CASE ~(v < 14)
        BY <2>2, <2>4, <3>2, <4>2 DEF Marks
      <4> QED BY <4>1, <4>2
    <3>4. Dated(disk, v, filled)
      BY <3>2, <3>3, DatabaseIs
    <3>5. HoursWay(disk)
      BY <1>1, <3>3, <3>4 DEF HoursWay, Dated, Current
    <3>6. AppWay(disk)
      BY <1>1, <3>3, <3>4 DEF AppWay, Dated, Current
    <3>7. TypeWay(disk)
      BY <1>1, <3>3, <3>4 DEF TypeWay, Dated, Current
    <3>8. FilledWay(disk)
      BY <1>1, <3>3, <3>4 DEF FilledWay, Dated
    <3>9. Born
      BY <1>1, <3>3, <3>4 DEF Born, Dated, Current
    <3> QED BY <1>1, <3>3, <3>4, <3>5, <3>6, <3>7, <3>8, <3>9 DEF Way, Dated
  <2> QED BY <2>3, <2>4
<1>3. Way(work)
  BY <1>1, <1>2
<1>4. Linked
  BY <1>1 DEF Linked, Level
<1>5. at[1] = "schema"
  BY <1>1
<1>6. Whereabouts
  BY <1>1, <1>5 DEF Whereabouts
<1> QED BY <1>2, <1>3, <1>4, <1>6 DEF UpgradeInv

(* A step outside of the scripts keeps the two databases on their way.      *)
LEMMA WaySame ==
  ASSUME Way(work), origin' = origin, work'.version = work.version, work'.checks = work.checks,
         work'.filled = work.filled, work'.hours = work.hours, work'.app = work.app,
         work'.type = work.type, work.columns \subseteq work'.columns
  PROVE  Way(work)'
<1>1. HoursWay(work)'
  BY DEF Way, HoursWay
<1>2. AppWay(work)'
  BY DEF Way, AppWay
<1>3. TypeWay(work)'
  BY DEF Way, TypeWay
<1>4. FilledWay(work)'
  BY DEF Way, FilledWay
<1> QED BY <1>1, <1>2, <1>3, <1>4 DEF Way

LEMMA WayWritten ==
  ASSUME Way(work)', disk' = work'
  PROVE  Way(disk)'
BY DEF Way, HoursWay, AppWay, TypeWay, FilledWay

LEMMA WayKept ==
  ASSUME Way(disk), disk' = disk, origin' = origin
  PROVE  Way(disk)'
BY DEF Way, HoursWay, AppWay, TypeWay, FilledWay

LEMMA WayBack ==
  ASSUME Way(disk), disk' = disk, work' = disk, origin' = origin
  PROVE  Way(work)'
BY DEF Way, HoursWay, AppWay, TypeWay, FilledWay

LEMMA BornKept == ASSUME Born, origin' = origin PROVE Born'
BY DEF Born

LEMMA LinkedWritten ==
  ASSUME disk' = work', open' = FALSE
  PROVE  Linked' /\ Level'
BY DEF Linked, Level

LEMMA UpIs ==
  ASSUME UpgradeInv, at[1] \in {"schema", "purge", "version", "up", "off"}
  PROVE  open = FALSE /\ work = disk
BY DEF UpgradeInv, Whereabouts, Linked

LEMMA SchemaGoesOn ==
  ASSUME UpgradeInv, BootInv, Schema
  PROVE  UpgradeInv' /\ Abstract
<1>1. open = FALSE /\ work = disk /\ Way(work) /\ Born /\ Sound(work, origin)
  BY UpIs DEF Schema, UpgradeInv, BootInv, Kept
<1>2. /\ work' = [work EXCEPT !.columns = work.columns \cup {<<19, 1>>}]
      /\ disk' = work' /\ open' = FALSE /\ origin' = origin /\ at' = <<"purge", 0, 0>>
  BY DEF Schema, Commits
<1>3. /\ work'.version = work.version /\ work'.checks = work.checks /\ work'.filled = work.filled
      /\ work'.hours = work.hours /\ work'.app = work.app /\ work'.type = work.type
      /\ work'.kind = work.kind /\ work'.log = work.log /\ work.columns \subseteq work'.columns
  BY <1>1, <1>2 DEF Sound
<1>4. Way(work)'
  BY <1>1, <1>2, <1>3, WaySame
<1>5. Way(disk)'
  BY <1>2, <1>4, WayWritten
<1>6. at'[1] = "purge"
  BY <1>2
<1>7. Whereabouts'
  BY <1>2, <1>6 DEF Whereabouts
<1>8. UpgradeInv'
  BY <1>1, <1>2, <1>4, <1>5, <1>7, BornKept, LinkedWritten DEF UpgradeInv
<1> QED BY <1>1, <1>2, <1>3, <1>5, <1>8, CommitIs

LEMMA PurgeGoesOn ==
  ASSUME UpgradeInv, BootInv, NEW S \in SUBSET Items, Purge(S)
  PROVE  UpgradeInv' /\ Abstract
<1> DEFINE log == [i \in Items |-> IF i \in S THEN Absent ELSE work.log[i]]
<1>1. open = FALSE /\ work = disk /\ Way(work) /\ Way(disk) /\ Born /\ Sound(work, origin)
  BY UpIs DEF Purge, UpgradeInv, BootInv, Kept
<1>2. /\ work' = [work EXCEPT !.log = log]
      /\ disk' = work' /\ open' = FALSE /\ origin' = origin /\ at' = <<"version", 0, 0>>
  BY DEF Purge, Commits, Forgotten
<1> HIDE DEF log
<1>3. /\ work'.version = work.version /\ work'.checks = work.checks /\ work'.filled = work.filled
      /\ work'.hours = work.hours /\ work'.app = work.app /\ work'.type = work.type
      /\ work'.kind = work.kind /\ work'.log = log /\ work.columns \subseteq work'.columns
  BY <1>1, <1>2 DEF Sound
<1>4. Way(work)'
  BY <1>1, <1>2, <1>3, WaySame
<1>5. Way(disk)'
  BY <1>2, <1>4, WayWritten
<1>6. at'[1] = "version"
  BY <1>2
<1>7. Whereabouts'
  BY <1>2, <1>6 DEF Whereabouts
<1>8. UpgradeInv'
  BY <1>1, <1>2, <1>4, <1>5, <1>7, BornKept, LinkedWritten DEF UpgradeInv
<1>9. UVersion' = UVersion /\ Revised(URows', URows, disk.kind, log, disk.filled)
  BY <1>1, <1>2, <1>3, <1>5, RowsAre
<1>10. log = [i \in Items |-> IF i \in S THEN Absent ELSE URows.log[i]]
  BY <1>1 DEF log, URows
<1>11. URows' = [URows EXCEPT !.log = log]
  <2>1. PICK next : next = [URows EXCEPT !.log = log]
    OBVIOUS
  <2>2. AreRows(next, URows.unit, URows.hours, URows.app, URows.type, disk.kind, log, disk.filled)
    BY <2>1, URowsAre DEF AreRows
  <2>3. AreRows(URows, URows.unit, URows.hours, URows.app, URows.type, disk.kind, disk.log,
                disk.filled)
    BY URowsAre DEF AreRows
  <2>4. Revised(next, URows, disk.kind, log, disk.filled)
    BY <2>2, <2>3, Replaced
  <2> QED BY <1>9, <2>1, <2>4 DEF Revised
<1> QED BY <1>8, <1>9, <1>10, <1>11, ForgetIs

Dispatched(next, r, kind, log) == next = [r EXCEPT !.kind = kind, !.log = log]

LEMMA DispatchedIs ==
  ASSUME NEW unit, NEW hours, NEW app, NEW type, NEW kind, NEW log, NEW filled,
         NEW kind2, NEW log2, NEW r, NEW next,
         AreRows(r, unit, hours, app, type, kind, log, filled), Dispatched(next, r, kind2, log2)
  PROVE  AreRows(next, unit, hours, app, type, kind2, log2, filled)
BY DEF AreRows, Dispatched

LEMMA SearchGoesOn ==
  ASSUME UpgradeInv, BootInv, NEW i \in Items, NEW k \in Kinds, NEW logged \in BOOLEAN,
         Search(i, k, logged)
  PROVE  UpgradeInv' /\ Abstract
<1> DEFINE kind == [work.kind EXCEPT ![i] = k]
           log == [work.log EXCEPT ![i] = IF logged THEN k ELSE work.log[i]]
<1>0. at[1] = "up" /\ at' = at /\ origin' = origin
  BY DEF Search
<1>1. /\ open = FALSE /\ work = disk /\ Way(work) /\ Way(disk) /\ Born /\ Sound(work, origin)
      /\ disk.version = Current
  BY <1>0, UpIs DEF UpgradeInv, BootInv, Kept, Whereabouts
<1>2. work' = [work EXCEPT !.kind = kind, !.log = log] /\ disk' = work' /\ open' = FALSE
  BY DEF Search, Commits
<1> HIDE DEF kind, log
<1>3. /\ work'.version = work.version /\ work'.checks = work.checks /\ work'.filled = work.filled
      /\ work'.hours = work.hours /\ work'.app = work.app /\ work'.type = work.type
      /\ work'.kind = kind /\ work'.log = log /\ work.columns \subseteq work'.columns
  BY <1>1, <1>2 DEF Sound
<1>4. Way(work)'
  BY <1>0, <1>1, <1>3, WaySame
<1>5. Way(disk)'
  BY <1>2, <1>4, WayWritten
<1>7. Whereabouts'
  BY <1>0, <1>1, <1>2, <1>3 DEF Whereabouts
<1>8. UpgradeInv'
  BY <1>0, <1>1, <1>2, <1>4, <1>5, <1>7, BornKept, LinkedWritten DEF UpgradeInv
<1>9. UVersion' = UVersion /\ Revised(URows', URows, kind, log, disk.filled)
  BY <1>0, <1>1, <1>2, <1>3, <1>5, RowsAre
<1>10. URows' = [URows EXCEPT !.kind[i] = k, !.log[i] = IF logged THEN k ELSE @]
  <2>1. PICK next : next = [URows EXCEPT !.kind[i] = k, !.log[i] = IF logged THEN k ELSE @]
    OBVIOUS
  <2>2. AreRows(next, URows.unit, URows.hours, URows.app, URows.type, kind, log, disk.filled)
    <3>1. URows.kind = work.kind /\ URows.log = work.log
      BY <1>1 DEF URows
    <3>2. Dispatched(next, URows, kind, log)
      BY <2>1, <3>1 DEF kind, log, Dispatched
    <3>3. AreRows(URows, URows.unit, URows.hours, URows.app, URows.type, disk.kind, disk.log,
                  disk.filled)
      BY URowsAre DEF AreRows
    <3> QED BY <3>2, <3>3, DispatchedIs
  <2>3. AreRows(URows, URows.unit, URows.hours, URows.app, URows.type, disk.kind, disk.log,
                disk.filled)
    BY URowsAre DEF AreRows
  <2>4. Revised(next, URows, kind, log, disk.filled)
    BY <2>2, <2>3, Replaced
  <2> QED BY <1>9, <2>1, <2>4 DEF Revised
<1>11. UVersion = "new"
  BY <1>1 DEF UVersion, Stored
<1> QED BY <1>8, <1>9, <1>10, <1>11, SearchIs

(* A kill, a statement that fails, or a start: only what was committed is   *)
(* there.                                                                   *)
LEMMA RollbackGoesOn ==
  ASSUME UpgradeInv, disk' = disk, work' = disk, open' = FALSE, origin' = origin,
         at'[1] \in {"off", "schema"}
  PROVE  UpgradeInv' /\ Abstract
<1>1. Way(disk) /\ Born
  BY DEF UpgradeInv
<1>2. Way(work)' /\ Way(disk)'
  BY <1>1, WayKept, WayBack
<1>3. Linked' /\ Born'
  BY <1>1, LinkedWritten, BornKept
<1>4. Whereabouts'
  BY DEF Whereabouts
<1>5. UNCHANGED <<UVersion, URows>>
  BY DEF UVersion, URows, Unit, Stored
<1> QED BY <1>2, <1>3, <1>4, <1>5, StillIs DEF UpgradeInv

LEMMA MaxIs ==
  ASSUME NEW n \in Nat, n >= 2
  PROVE  Max({2, n}) = n
<1>1. n \in {2, n} /\ \A y \in {2, n} : n >= y
  OBVIOUS
<1>2. \A x \in {2, n} : (\A y \in {2, n} : x >= y) => x = n
  OBVIOUS
<1> QED BY <1>1, <1>2 DEF Max

LEMMA ReadVersionGoesOn ==
  ASSUME UpgradeInv, ReadVersion
  PROVE  UpgradeInv' /\ Abstract
<1> USE DEF Current
<1>1. open = FALSE /\ work = disk /\ Way(work) /\ Way(disk) /\ Born
  BY UpIs DEF ReadVersion, UpgradeInv
<1>2. disk' = disk /\ work' = work /\ open' = open /\ origin' = origin
  BY DEF ReadVersion, dbVars
<1>3. Way(work)' /\ Way(disk)' /\ Born' /\ Linked' /\ Level'
  BY <1>1, <1>2, WayKept, WayBack, BornKept, LinkedWritten
<1>4. work.version \in {origin.version, 21} /\ origin.version \in 0..21
  BY <1>1 DEF Way, Born
<1>5. HoursWay(work) /\ AppWay(work) /\ TypeWay(work)
  BY <1>1 DEF Way
<1>6. UNCHANGED <<UVersion, URows>>
  BY <1>2 DEF UVersion, URows, Unit, Stored
<1>7. Whereabouts'
  <2>1. CASE work.version = 0 /\ at' = <<"stamp", 0, 0>>
    <3>1. at'[1] = "stamp"
      BY <2>1
    <3>2. origin.version = 0 /\ Unstored'
      BY <1>1, <1>2, <1>4, <2>1 DEF Unstored
    <3>3. work.hours = Six /\ work.app = Family(origin.app) /\ work.type = FamilyType(origin.type)
      BY <1>5, <3>2 DEF HoursWay, AppWay, TypeWay
    <3> QED BY <1>2, <1>3, <2>1, <3>1, <3>2, <3>3 DEF Whereabouts
  <2>2. CASE work.version \in 1..20 /\ at' = From("ladder", Max({2, work.version + 1}))
    <3>1. origin.version = work.version /\ origin.version \in 1..20
      BY <1>4, <2>2
    <3>2. Max({2, work.version + 1}) = work.version + 1
      <4>1. work.version + 1 \in Nat /\ work.version + 1 >= 2
        BY <2>2
      <4> QED BY <4>1, MaxIs
    <3>3. at'[1] = "ladder" /\ at'[2] = origin.version + 1 /\ at'[3] = 1
      BY <2>2, <3>1, <3>2 DEF From
    <3>4. Unstored' /\ work'.version = origin.version
      BY <1>1, <1>2, <3>1 DEF Unstored
    <3>5. Past(6, 3)' => work'.hours = Six
      BY <1>2, <1>5, <3>1, <3>3 DEF Past, HoursWay
    <3>6. Past(10, 7)' => work'.app = Family(origin.app)
      BY <1>2, <1>5, <3>1, <3>3 DEF Past, AppWay
    <3>7. Past(16, 9)' => work'.type = FamilyType(origin.type)
      BY <1>2, <1>5, <3>1, <3>3 DEF Past, TypeWay
    <3>8. Filling'
      BY <1>2, <3>1, <3>3 DEF Filling
    <3>9. OnLadder'
      BY <1>2, <1>3, <3>1, <3>3, <3>4, <3>5, <3>6, <3>7 DEF OnLadder
    <3> QED BY <1>2, <3>1, <3>3, <3>8, <3>9 DEF Whereabouts
  <2>3. CASE work.version = 21 /\ at' = From("heal", 9)
    <3>1. at'[1] = "heal" /\ at'[2] = 9 /\ at'[3] = 1
      BY <2>3 DEF From
    <3>2. Filling' /\ Healing'
      BY <1>1, <1>2, <2>3, <3>1 DEF Filling, Healing
    <3> QED BY <3>1, <3>2 DEF Whereabouts
  <2> QED BY <2>1, <2>2, <2>3 DEF ReadVersion
<1> QED BY <1>3, <1>6, <1>7, StillIs DEF UpgradeInv

LEMMA StampGoesOn ==
  ASSUME UpgradeInv, BootInv, Stamp
  PROVE  UpgradeInv' /\ Abstract
<1> USE DEF Current
<1>1. /\ Way(work) /\ Way(disk) /\ Born /\ Sound(work, origin) /\ Linked
      /\ Unstored /\ work.version = origin.version /\ Level
      /\ work.hours = Six /\ work.app = Family(origin.app) /\ work.type = FamilyType(origin.type)
  BY DEF Stamp, UpgradeInv, Whereabouts, BootInv, Kept
<1>2. work' = [work EXCEPT !.version = 21] /\ disk' = disk /\ open' = TRUE /\ origin' = origin
  BY DEF Stamp, Writes
<1>3. /\ work'.version = 21 /\ work'.checks = work.checks /\ work'.filled = work.filled
      /\ work'.hours = work.hours /\ work'.app = work.app /\ work'.type = work.type
      /\ work'.kind = work.kind /\ work'.log = work.log
  BY <1>1, <1>2 DEF Sound
<1>4. Way(work)'
  <2>1. HoursWay(work)' /\ AppWay(work)' /\ TypeWay(work)'
    BY <1>1, <1>2, <1>3 DEF HoursWay, AppWay, TypeWay
  <2>2. FilledWay(work)'
    BY <1>1, <1>2, <1>3 DEF FilledWay, Way
  <2> QED BY <1>1, <1>2, <1>3, <2>1, <2>2 DEF Way
<1>5. Way(disk)' /\ Born'
  BY <1>1, <1>2, WayKept, BornKept
<1>6. Level' /\ Linked'
  BY <1>1, <1>2, <1>3 DEF Level, Linked
<1>7. Unstored'
  BY <1>1, <1>2 DEF Unstored
<1>8. at'[1] \in {"finish", "stamped"}
  BY DEF Stamp
<1>9. Whereabouts'
  BY <1>3, <1>6, <1>7, <1>8 DEF Whereabouts
<1>10. UNCHANGED <<UVersion, URows>>
  BY <1>2 DEF UVersion, URows, Unit, Stored
<1> QED BY <1>4, <1>5, <1>6, <1>9, <1>10, StillIs DEF UpgradeInv

LEMMA CommitVersionGoesOn ==
  ASSUME UpgradeInv, CommitVersion
  PROVE  UpgradeInv' /\ Abstract
<1>1. Way(work) /\ Born /\ Unstored /\ work.version = Current /\ Level
  BY DEF CommitVersion, UpgradeInv, Whereabouts
<1>2. /\ work' = work /\ disk' = work /\ open' = FALSE /\ origin' = origin
      /\ at' = From("heal", 9)
  BY DEF CommitVersion, Commits
<1>3. Way(work)'
  BY <1>1, <1>2, WaySame
<1>4. Way(disk)' /\ Born' /\ Linked'
  BY <1>1, <1>2, <1>3, WayWritten, BornKept, LinkedWritten
<1>5. at'[1] = "heal" /\ at'[2] = 9 /\ at'[3] = 1
  BY <1>2 DEF From
<1>6. Healing' /\ Filling'
  BY <1>1, <1>2, <1>5 DEF Healing, Filling
<1>7. Whereabouts'
  BY <1>5, <1>6 DEF Whereabouts
<1> QED BY <1>1, <1>2, <1>3, <1>4, <1>7, ConversionIs DEF UpgradeInv

LEMMA FinishGoesOn ==
  ASSUME UpgradeInv, Finish
  PROVE  UpgradeInv' /\ Abstract
<1>1. /\ Way(work) /\ Born /\ work.version = Current /\ work.log = disk.log
      /\ disk.version = Current \/ (Unstored /\ Level)
  BY DEF Finish, UpgradeInv, Whereabouts, Linked
<1>2. /\ work' = work /\ disk' = work /\ open' = FALSE /\ origin' = origin
      /\ at' = <<"up", 0, 0>>
  BY DEF Finish, Commits
<1>3. Way(work)'
  BY <1>1, <1>2, WaySame
<1>4. Way(disk)' /\ Born' /\ Linked'
  BY <1>1, <1>2, <1>3, WayWritten, BornKept, LinkedWritten
<1>5. at'[1] = "up"
  BY <1>2
<1>6. Whereabouts'
  BY <1>1, <1>2, <1>5 DEF Whereabouts
<1>7. CASE disk.version = Current
  BY <1>1, <1>2, <1>3, <1>4, <1>6, <1>7, CommitIs DEF UpgradeInv
<1>8. CASE Unstored /\ Level
  BY <1>1, <1>2, <1>3, <1>4, <1>6, <1>8, ConversionIs DEF UpgradeInv
<1> QED BY <1>1, <1>7, <1>8

LEMMA RunIsStep ==
  ASSUME UpgradeInv, BootInv, Run
  PROVE  UpgradeInv' /\ Abstract
<1>1. UpgradeInv' /\ Durable(Statement) /\ Effect(at[2], at[3], Statement)
  BY RunGoesOn
<1>2. /\ at[1] \in {"ladder", "heal"} /\ Statement = Script(at[2])[at[3]] /\ origin' = origin
  BY DEF Run, Statement
<1>3. Shape(at[2], at[3], Statement)
  BY <1>2, StatementIs, ShapeIs DEF BootInv
<1>4. Way(disk)' /\ Linked /\ Way(disk)
  BY <1>1 DEF UpgradeInv
<1>5. CASE disk' = disk
  <2>1. UNCHANGED <<UVersion, URows>>
    BY <1>2, <1>5 DEF UVersion, URows, Unit, Stored
  <2> QED BY <1>1, <2>1, StillIs
<1>6. CASE disk' = work' /\ disk' # disk
  <2>1. ~(at[2] = 14 /\ at[3] = 3)
    BY <1>1, <1>3, <1>6 DEF Shape, Durable
  <2>2. /\ work'.kind = work.kind /\ work'.filled = work.filled /\ work'.log = work.log
        /\ work'.version = work.version
    BY <1>1, <2>1 DEF Effect
  <2>3. work.version = disk.version /\ work.log = disk.log
    BY <1>2, <1>4 DEF UpgradeInv, Whereabouts, OnLadder, Healing, Unstored, Linked
  <2> QED BY <1>1, <1>2, <1>4, <1>6, <2>2, <2>3, CommitIs
<1> QED BY <1>1, <1>5, <1>6 DEF Durable

LEMMA UpgradeGoesOn == UpgradeInv /\ BootInv /\ [Next]_vars => UpgradeInv' /\ Abstract
<1> SUFFICES ASSUME UpgradeInv, BootInv, [Next]_vars PROVE UpgradeInv' /\ Abstract
  OBVIOUS
<1>1. CASE Schema
  BY <1>1, SchemaGoesOn
<1>2. ASSUME NEW S \in SUBSET Items, Purge(S) PROVE UpgradeInv' /\ Abstract
  BY <1>2, PurgeGoesOn
<1>3. CASE ReadVersion
  BY <1>3, ReadVersionGoesOn
<1>4. CASE Run
  BY <1>4, RunIsStep
<1>5. CASE Fail \/ Kill
  <2>1. disk' = disk /\ work' = disk /\ open' = FALSE /\ origin' = origin /\ at' = <<"off", 0, 0>>
    BY <1>5 DEF Fail, Kill
  <2>2. at'[1] = "off"
    BY <2>1
  <2> QED BY <2>1, <2>2, RollbackGoesOn
<1>6. CASE Stamp
  BY <1>6, StampGoesOn
<1>7. CASE CommitVersion
  BY <1>7, CommitVersionGoesOn
<1>8. CASE Finish
  BY <1>8, FinishGoesOn
<1>9. CASE Restart
  <2>1. at[1] = "off" /\ disk' = disk /\ work' = work /\ open' = open /\ origin' = origin
        /\ at' = <<"schema", 0, 0>>
    BY <1>9 DEF Restart, dbVars
  <2>2. open = FALSE /\ work = disk
    BY <2>1, UpIs
  <2>3. at'[1] = "schema"
    BY <2>1
  <2> QED BY <2>1, <2>2, <2>3, RollbackGoesOn
<1>10. ASSUME NEW i \in Items, NEW k \in Kinds, NEW logged \in BOOLEAN, Search(i, k, logged)
       PROVE  UpgradeInv' /\ Abstract
  BY <1>10, SearchGoesOn
<1>11. CASE UNCHANGED vars
  <2>1. /\ disk' = disk /\ work' = work /\ open' = open /\ origin' = origin /\ at' = at
    BY <1>11 DEF vars, dbVars
  <2>2. UpgradeInv'
    BY <2>1 DEF UpgradeInv, Born, Way, HoursWay, AppWay, TypeWay, FilledWay, Linked, Level,
                Pending, Stamps, Whereabouts, OnLadder, Filling, Healing, Unstored, Past
  <2>3. UNCHANGED <<UVersion, URows>>
    BY <2>1 DEF UVersion, URows, Unit, Stored
  <2> QED BY <2>2, <2>3, StillIs
<1> QED BY <1>1, <1>2, <1>3, <1>4, <1>5, <1>6, <1>7, <1>8, <1>9, <1>10, <1>11 DEF Next, Step

(* Whatever version a database is found at, and wherever kills and failing  *)
(* statements cut its start, the committed rows go through one conversion,  *)
(* at the commit that stores the version, and one fill-in of the kinds: the *)
(* statements of the upgrade implement SchemaUpgrade (database.py:1012).    *)
THEOREM UpgradesAreAtomic == Spec => AtomicUpgrade
<1>1. Init => UpgradeInv
  BY UpgradeStarts
<1>2. Abstract => [Upgrade!Next]_(Upgrade!vars)
  BY DEF Abstract
<1>3. Init => (IF Stored THEN "new" ELSE "old") \in {"old", "new"}
  OBVIOUS
<1> QED BY <1>1, <1>2, <1>3, BootStarts, BootGoesOn, UpgradeGoesOn, PTL
        DEF Spec, AtomicUpgrade, Upgrade!Spec
=============================================================================
