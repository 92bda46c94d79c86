-------------------------------- MODULE MCBoot --------------------------------
(***************************************************************************)
(* The two models of a start side by side: the statements of the database  *)
(* upgrade, and the process with its loops, key and resets.  They share no *)
(* variable, so a behaviour takes one of them ("part") and leaves the      *)
(* other at rest.                                                          *)
(***************************************************************************)
EXTENDS Migrations, Process

VARIABLE part
bootVars == <<part, vars, processVars>>

MigrationsRest ==
  /\ disk = Fresh /\ work = Fresh /\ origin = Fresh
  /\ open = FALSE /\ fk = TRUE /\ at = <<"up", 0, 0>> /\ kills = 0 /\ uses = MaxUses

ProcessRest ==
  /\ life = "serving" /\ file = "ready" /\ rows = {} /\ keyFile = 1 /\ key = 1 /\ pool = "file"
  /\ alive = [k \in Loops |-> {Boot}] /\ state = [k \in Loops |-> Boot]
  /\ reset = AtRest /\ request = None /\ crossed = FALSE /\ minted = 1
  /\ exits = 0 /\ reqs = 0

BootInit ==
  \/ part = "database" /\ Init /\ ProcessRest
  \/ part = "process" /\ MigrationsRest /\ ProcessInit

Upgrading == part = "database" /\ Next /\ UNCHANGED <<part, processVars>>
Living == part = "process" /\ ProcessNext /\ UNCHANGED <<part, vars>>

BootSpec ==
  /\ BootInit /\ [][Upgrading \/ Living]_bootVars
  /\ WF_vars(part = "database" /\ Step)
  /\ WF_processVars(part = "process" /\ (BootStep \/ ClosePools \/ Exit))
  /\ \A r \in Resets : WF_processVars(part = "process" /\ ResetStep(r))
  /\ WF_processVars(part = "process" /\ Insert)
=============================================================================
