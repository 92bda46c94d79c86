--------------------------- MODULE SchemaUpgrade ---------------------------
(***************************************************************************)
(* What a start of Houndarr promises about the rows of its database: the   *)
(* rows of an older release are converted all together and once, missing   *)
(* kinds are filled in once, and otherwise only the program changes them.  *)
(* Kills and restarts do not show.  Migrations implements it statement by  *)
(* statement.                                                              *)
(***************************************************************************)
CONSTANTS Items,    \* cooldown rows
          Kinds,    \* what a search can be: missing, cutoff or upgrade
          Absent    \* no such row

VARIABLES version,  \* "old" or "new"
          rows      \* the rows a conversion touches

vars == <<version, rows>>

(* 36 hours was the old default and becomes the new one, 6 hours.          *)
Regraced(r) ==
  IF r.unit = "grace" THEN r
  ELSE [r EXCEPT !.unit = "grace",
                 !.hours = [n \in DOMAIN r.hours |-> IF r.hours[n] = 36 THEN 6 ELSE r.hours[n]]]

Renamed(r) ==
  [r EXCEPT !.app = IF @ = "whisparr" THEN "whisparr_v2" ELSE @,
            !.type = IF @ = "whisparr_episode" THEN "whisparr_v2_episode" ELSE @]

Convert ==
  /\ version = "old"
  /\ version' = "new"
  /\ rows' = Renamed(Regraced(rows))

(* A row that still carries the default kind gets the one of its newest    *)
(* search, once in the life of a database.                                 *)
FillIn ==
  /\ ~rows.filled
  /\ rows' = [rows EXCEPT !.filled = TRUE,
                          !.kind = [i \in Items |->
                             IF @[i] = "missing" /\ rows.log[i] # Absent THEN rows.log[i] ELSE @[i]]]
  /\ UNCHANGED version

(* Retention forgets old searches.                                         *)
Forget(S) ==
  /\ rows' = [rows EXCEPT !.log = [i \in Items |-> IF i \in S THEN Absent ELSE @[i]]]
  /\ UNCHANGED version

(* A dispatch stamps the cooldown row and, unless it is killed in between, *)
(* the log row.                                                            *)
Search(i, k) ==
  /\ version = "new"
  /\ \E logged \in BOOLEAN :
       rows' = [rows EXCEPT !.kind[i] = k, !.log[i] = IF logged THEN k ELSE @]
  /\ UNCHANGED version

Next ==
  \/ Convert
  \/ FillIn
  \/ \E S \in SUBSET Items : Forget(S)
  \/ \E i \in Items, k \in Kinds : Search(i, k)

Spec == version \in {"old", "new"} /\ [][Next]_vars
=============================================================================
