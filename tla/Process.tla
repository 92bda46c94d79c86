------------------------------ MODULE Process ------------------------------
(***************************************************************************)
(* The life of the process around its database: the lifespan of app.py     *)
(* (start, serving, shutdown), the connection pool of database.py, the     *)
(* master key of crypto.py and the factory reset of services/admin.py and  *)
(* routes/admin.py, with requests beside the reset, failures and kills.    *)
(*                                                                         *)
(* Code without an await between two steps is one step for everybody else, *)
(* but not for a kill: Busy marks the steps inside such a stretch.         *)
(***************************************************************************)
EXTENDS Integers, FiniteSets

CONSTANTS Resets,    \* factory-reset requests
          MaxKeys,   \* bound: master keys generated
          MaxExits,  \* bound: kills and orderly exits
          MaxReqs    \* bound: instances created, polls that reopen a closed pool

Torn == MaxKeys + 1      \* a key file created but not yet written
None == 0
Keys == 1..MaxKeys
Loops == {"supervisor", "retention", "sweep"}
Boot == 0                \* the incarnation of the loops the lifespan starts

ASSUME BoundsOK == MaxKeys \in Nat /\ MaxExits \in Nat /\ MaxReqs \in Nat
ASSUME ResetsOK == Resets \subseteq Nat \ {Boot}

VARIABLES life,     \* where the lifespan is
          file,     \* the database at the path: none, empty, tables, ready
          rows,     \* the keys that encrypt its instance rows
          keyFile,  \* the key on disk
          key,      \* app.state.master_key
          alive,    \* [Loops -> who started the ones that run]
          state,    \* [Loops -> who started the one app.state names, or NoLoop]
          pool,     \* what the pooled connections are open on: none, file, ghost
          reset,    \* [Resets -> where each reset request is]
          request,  \* the key a create request has read, or None
          crossed,  \* history: a request and a reset, or two resets, overlapped
          minted, exits, reqs

NoLoop == -1
diskVars == <<file, rows, keyFile>>
loopVars == <<alive, state>>
bounds == <<minted, exits, reqs>>
processVars == <<life, diskVars, key, loopVars, pool, reset, request, crossed, bounds>>

AtRest == [r \in Resets |-> "idle"]
Resetting == {r \in Resets : reset[r] # "idle"}
Busy == life = "keyWrite" \/ \E r \in Resets : reset[r] \in {"unlinkKey", "keyWrite"}

ProcessInit ==
  /\ life = "off"
  /\ file = "none" /\ rows = {} /\ keyFile = None
  /\ key = None
  /\ alive = [k \in Loops |-> {}]
  /\ state = [k \in Loops |-> NoLoop]
  /\ pool = "none"
  /\ reset = AtRest
  /\ request = None
  /\ crossed = FALSE
  /\ minted = 0 /\ exits = 0 /\ reqs = 0

-----------------------------------------------------------------------------
(* Connections.  Whoever asks first builds the pool, and connecting creates *)
(* the file if there is none.                                               *)
Connect ==
  /\ pool' = IF pool = "none" THEN "file" ELSE pool
  /\ file' = IF pool = "none" /\ file = "none" THEN "empty" ELSE file

(* The file the connections write to.                                       *)
OnGhost == pool = "ghost"

(* init_db_schema, then init_db_migrations, through whatever pool there is. *)
MakeTables ==
  IF OnGhost THEN UNCHANGED <<file, pool>>
  ELSE pool' = "file" /\ file' = IF file = "ready" THEN "ready" ELSE "tables"

Migrate ==
  IF OnGhost THEN UNCHANGED <<file, pool>>
  ELSE pool' = "file" /\ file' = IF file = "tables" THEN "ready" ELSE file

(* ensure_master_key: a key that is there is read; otherwise the file is    *)
(* created and then written.                                                *)
CreateKey == keyFile = None /\ keyFile' = Torn
WriteKey == keyFile' = minted + 1 /\ minted' = minted + 1

StartLoops(who) ==
  /\ alive' = [k \in Loops |-> alive[k] \cup {who}]
  /\ state' = [k \in Loops |-> who]

(* Mutant: what the lifespan started is stopped, not what runs now.         *)
StopBooted(k, who) == alive' = [alive EXCEPT ![k] = @ \ {Boot}]

Stop(k, who) == alive' = [alive EXCEPT ![k] = @ \ {who}]

-----------------------------------------------------------------------------
(* The lifespan.                                                            *)

Start ==
  /\ life = "off"
  /\ life' = "key"
  /\ UNCHANGED <<diskVars, key, loopVars, pool, reset, request, crossed, bounds>>

LoadKey ==
  /\ life = "key"
  /\ \/ /\ keyFile # None
        /\ key' = keyFile
        /\ life' = "schema"
        /\ UNCHANGED keyFile
     \/ /\ CreateKey
        /\ life' = "keyWrite"
        /\ UNCHANGED key
  /\ UNCHANGED <<file, rows, loopVars, pool, reset, request, crossed, bounds>>

NewKey ==
  /\ life = "keyWrite"
  /\ WriteKey
  /\ key' = keyFile'
  /\ life' = "schema"
  /\ UNCHANGED <<file, rows, loopVars, pool, reset, request, crossed, exits, reqs>>

MakeSchema ==
  /\ life = "schema"
  /\ MakeTables
  /\ life' = "migrate"
  /\ UNCHANGED <<rows, keyFile, key, loopVars, reset, request, crossed, bounds>>

RunMigrations ==
  /\ life = "migrate"
  /\ Migrate
  /\ life' = "list"
  /\ UNCHANGED <<rows, keyFile, key, loopVars, reset, request, crossed, bounds>>

(* The start lists the instances, which decrypts every row: a row under     *)
(* another key ends the process.                                            *)
ListInstances ==
  /\ life = "list"
  /\ IF rows \subseteq {key} THEN life' = "loops" /\ UNCHANGED <<key, pool>>
     ELSE life' = "off" /\ key' = None /\ pool' = "none"
  /\ UNCHANGED <<diskVars, loopVars, reset, request, crossed, bounds>>

BootLoops ==
  /\ life = "loops"
  /\ StartLoops(Boot)
  /\ life' = "serving"
  /\ UNCHANGED <<diskVars, key, pool, reset, request, crossed, bounds>>

(* An orderly exit, when the server has finished its requests: the loops    *)
(* the lifespan holds in its own variables, then the pools.                 *)
Shutdown ==
  /\ life = "serving"
  /\ Resetting = {} /\ request = None
  /\ exits < MaxExits
  /\ exits' = exits + 1
  /\ life' = "stopping"
  /\ alive' = [k \in Loops |-> alive[k] \ {Boot}]
  /\ UNCHANGED <<diskVars, key, state, pool, reset, request, crossed, minted, reqs>>

ClosePools ==
  /\ life = "stopping"
  /\ life' = "closed"
  /\ pool' = "none"
  /\ UNCHANGED <<diskVars, key, loopVars, reset, request, crossed, bounds>>

Gone ==
  /\ life' = "off"
  /\ key' = None
  /\ alive' = [k \in Loops |-> {}]
  /\ state' = [k \in Loops |-> NoLoop]
  /\ pool' = "none"
  /\ reset' = AtRest
  /\ request' = None
  /\ UNCHANGED <<diskVars, crossed, minted, reqs>>

Exit == life = "closed" /\ Gone /\ UNCHANGED exits
KillProcess == life # "off" /\ exits < MaxExits /\ Gone /\ exits' = exits + 1

-----------------------------------------------------------------------------
(* The factory reset.                                                       *)

Serving == life = "serving" /\ ~Busy

Goes(r, next) == reset' = [reset EXCEPT ![r] = next]

BeginReset(r) ==
  /\ Serving /\ reset[r] = "idle"
  /\ minted + Cardinality(Resetting) < MaxKeys
  /\ Goes(r, "supervisor")
  /\ crossed' = (crossed \/ Resetting # {} \/ request # None)
  /\ UNCHANGED <<life, diskVars, key, loopVars, pool, request, bounds>>

(* Each loop is cancelled and awaited; app.state forgets it.                *)
NextLoop == [supervisor |-> "retention", retention |-> "sweep", sweep |-> "close"]
StopLoop(r, k) ==
  /\ Serving /\ reset[r] = k
  /\ Stop(k, state[k])
  /\ state' = [state EXCEPT ![k] = NoLoop]
  /\ Goes(r, NextLoop[k])
  /\ UNCHANGED <<life, diskVars, key, pool, request, crossed, bounds>>

(* close_all_pools empties the registry and then waits for the connections. *)
ClosePool(r) ==
  /\ Serving /\ reset[r] = "close"
  /\ pool' = "none"
  /\ Goes(r, "unlink")
  /\ UNCHANGED <<life, diskVars, key, loopVars, request, crossed, bounds>>

(* Mutant: a database file that cannot be deleted is left behind.           *)
UnlinkSkipped(r) ==
  /\ Serving /\ reset[r] = "unlink"
  /\ Goes(r, "unlinkKey")
  /\ UNCHANGED <<life, diskVars, key, loopVars, pool, request, crossed, bounds>>

(* The database files first, the key last, without an await in between.  A  *)
(* pool that is open again holds the unlinked file.                         *)
UnlinkDatabase(r) ==
  /\ Serving /\ reset[r] = "unlink"
  /\ file' = "none" /\ rows' = {}
  /\ pool' = IF pool = "file" THEN "ghost" ELSE pool
  /\ Goes(r, "unlinkKey")
  /\ UNCHANGED <<life, keyFile, key, loopVars, request, crossed, bounds>>

UnlinkKey(r) ==
  /\ life = "serving" /\ reset[r] = "unlinkKey"
  /\ keyFile' = None
  /\ Goes(r, "schema")
  /\ UNCHANGED <<life, file, rows, key, loopVars, pool, request, crossed, bounds>>

ResetSchema(r) ==
  /\ Serving /\ reset[r] = "schema"
  /\ MakeTables
  /\ Goes(r, "migrate")
  /\ UNCHANGED <<life, rows, keyFile, key, loopVars, request, crossed, bounds>>

ResetUpgrade(r) ==
  /\ Serving /\ reset[r] = "migrate"
  /\ Migrate
  /\ Goes(r, "key")
  /\ UNCHANGED <<life, rows, keyFile, key, loopVars, request, crossed, bounds>>

ResetLoadKey(r) ==
  /\ Serving /\ reset[r] = "key"
  /\ \/ /\ keyFile # None
        /\ key' = keyFile
        /\ Goes(r, "start")
        /\ UNCHANGED keyFile
     \/ /\ CreateKey
        /\ Goes(r, "keyWrite")
        /\ UNCHANGED key
  /\ UNCHANGED <<life, file, rows, loopVars, pool, request, crossed, bounds>>

ResetNewKey(r) ==
  /\ life = "serving" /\ reset[r] = "keyWrite"
  /\ WriteKey
  /\ key' = keyFile'
  /\ Goes(r, "start")
  /\ UNCHANGED <<life, file, rows, loopVars, pool, request, crossed, exits, reqs>>

Respawn(r) ==
  /\ Serving /\ reset[r] = "start"
  /\ StartLoops(r)
  /\ Goes(r, "idle")
  /\ UNCHANGED <<life, diskVars, key, pool, request, crossed, bounds>>

(* A step of the reset raises: a file that cannot be deleted, a statement,  *)
(* a loop that does not start.  The route lets the answer out and then ends *)
(* the process, whatever else it is doing.                                  *)
FailReset(r) ==
  /\ Serving /\ reset[r] \in {"unlink", "schema", "migrate", "key", "start"}
  /\ Goes(r, "failed")
  /\ UNCHANGED <<life, diskVars, key, loopVars, pool, request, crossed, bounds>>

FailUnlinkKey(r) ==
  /\ life = "serving" /\ reset[r] = "unlinkKey"
  /\ Goes(r, "failed")
  /\ UNCHANGED <<life, diskVars, key, loopVars, pool, request, crossed, bounds>>

(* Mutant: the exit waits for the requests that are being served.           *)
PoliteExit(r) == reset[r] = "failed" /\ ~Busy /\ Resetting = {} /\ Gone /\ UNCHANGED exits
DelayedExit(r) == reset[r] = "failed" /\ ~Busy /\ Gone /\ UNCHANGED exits

-----------------------------------------------------------------------------
(* Requests beside it.                                                      *)

(* A poll of the dashboard borrows a connection at any time.                *)
Poll ==
  /\ Serving /\ pool = "none" /\ reqs < MaxReqs
  /\ reqs' = reqs + 1
  /\ Connect
  /\ crossed' = (crossed \/ \E r \in Resets : reset[r] = "unlink")
  /\ UNCHANGED <<life, rows, keyFile, key, loopVars, reset, request, minted, exits>>

(* A create request takes the key when it arrives, asks the *arr, and then  *)
(* inserts the encrypted row.                                               *)
Arrive ==
  /\ Serving /\ request = None /\ key \in Keys /\ reqs < MaxReqs
  /\ reqs' = reqs + 1
  /\ request' = key
  /\ crossed' = (crossed \/ Resetting # {})
  /\ UNCHANGED <<life, diskVars, key, loopVars, pool, reset, minted, exits>>

Insert ==
  /\ Serving /\ request # None
  /\ Connect
  /\ rows' = IF ~OnGhost /\ file = "ready" THEN rows \cup {request} ELSE rows
  /\ request' = None
  /\ UNCHANGED <<life, keyFile, key, loopVars, reset, crossed, bounds>>

BootStep == Start \/ LoadKey \/ NewKey \/ MakeSchema \/ RunMigrations \/ ListInstances \/ BootLoops
ResetStep(r) ==
  \/ \E k \in Loops : StopLoop(r, k)
  \/ ClosePool(r) \/ UnlinkDatabase(r) \/ UnlinkKey(r)
  \/ ResetSchema(r) \/ ResetUpgrade(r) \/ ResetLoadKey(r) \/ ResetNewKey(r)
  \/ Respawn(r)
  \/ DelayedExit(r)

ProcessNext ==
  \/ BootStep
  \/ Shutdown \/ ClosePools \/ Exit \/ KillProcess
  \/ \E r \in Resets : BeginReset(r) \/ ResetStep(r) \/ FailReset(r) \/ FailUnlinkKey(r)
  \/ Poll \/ Arrive \/ Insert

ProcessSpec == ProcessInit /\ [][ProcessNext]_processVars

(* The event loop runs what is ready, the orchestrator restarts the         *)
(* container, the orderly exit ends.                                        *)
ProcessFairness ==
  /\ WF_processVars(BootStep \/ ClosePools \/ Exit)
  /\ \A r \in Resets : WF_processVars(ResetStep(r))
  /\ WF_processVars(Insert)

ProcessFairSpec == ProcessSpec /\ ProcessFairness

-----------------------------------------------------------------------------
ProcessTypeOK ==
  /\ life \in {"off", "key", "keyWrite", "schema", "migrate", "list", "loops", "serving",
             "stopping", "closed"}
  /\ file \in {"none", "empty", "tables", "ready"}
  /\ rows \subseteq Keys
  /\ keyFile \in {None, Torn} \cup Keys
  /\ key \in {None, Torn} \cup Keys
  /\ alive \in [Loops -> SUBSET (Resets \cup {Boot})]
  /\ state \in [Loops -> Resets \cup {Boot, NoLoop}]
  /\ pool \in {"none", "file", "ghost"}
  /\ reset \in [Resets -> Loops \cup {"idle", "close", "unlink", "unlinkKey", "schema", "migrate",
                                      "key", "keyWrite", "start", "failed"}]
  /\ request \in {None} \cup Keys
  /\ crossed \in BOOLEAN

(* Nothing of the process runs on the database from the moment its files    *)
(* are deleted until the new one is ready, and outside a reset each of the  *)
(* three loops runs exactly once: none is forgotten by a reset, none is     *)
(* left over from before it.                                                *)
LoopsFollowReset ==
  ~crossed /\ life = "serving" =>
    \A k \in Loops :
      IF \E r \in Resets : reset[r] \in {"unlink", "unlinkKey", "schema", "migrate", "key",
                                         "keyWrite", "start"}
      THEN alive[k] = {}
      ELSE Resetting = {} => \E who \in Resets \cup {Boot} : alive[k] = {who} /\ state[k] = who

(* Every stored API key can be decrypted with the key on disk, wherever a   *)
(* reset is cut or fails and whatever the next start makes of it: the next  *)
(* start would not come up otherwise.                                       *)
RowsReadable == ~crossed => rows \subseteq {keyFile}

(* A reset ends in a serving process again, in place or through an exit and *)
(* a restart, and so does every kill.                                       *)
ComesBack == ~crossed ~> (crossed \/ (life = "serving" /\ Resetting = {}))

(* After an orderly exit has closed the pools nothing runs that could open  *)
(* them again.                                                              *)
StopsAll == life = "closed" => \A k \in Loops : alive[k] = {}
=============================================================================
