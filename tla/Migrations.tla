----------------------------- MODULE Migrations -----------------------------
(***************************************************************************)
(* The start of the database (database.py, with the order of calls of      *)
(* app.py and bootstrap.py): the fresh schema, log retention, the ladder   *)
(* of migrations from the stored version, the self-heal over the newer     *)
(* ones, and kills between any two statements.                             *)
(*                                                                         *)
(* Python's sqlite3 opens a transaction before a statement that changes    *)
(* rows and before no other, so a CREATE or ALTER is durable at once       *)
(* unless a transaction is open, and then it waits for the commit; and     *)
(* PRAGMA foreign_keys does nothing while a transaction is open.           *)
(***************************************************************************)
EXTENDS Integers, Sequences, FiniteSetsExt, Functions

CONSTANTS Starts,     \* schema versions a database may be found at; 0: no database
          Items,      \* cooldown rows
          Kinds,      \* kinds of search a row may be stamped with
          Absent,
          MaxKills,   \* bound: kills and restarts
          MaxUses     \* bound: searches and retention runs

Current == 21

ASSUME VersionsOK == Starts \subseteq 0..Current /\ "missing" \in Kinds /\ Absent \notin Kinds
ASSUME LimitsOK == MaxKills \in Nat /\ MaxUses \in Nat

VARIABLES disk,    \* the committed database
          work,    \* the database as the connection sees it
          open,    \* a transaction is open
          fk,      \* the connection enforces foreign keys
          at,      \* the statement about to run
          origin,  \* history: the database the first start found
          kills, uses

dbVars == <<disk, work, open>>
vars == <<dbVars, fk, at, origin, kills, uses>>

-----------------------------------------------------------------------------
(* The migrations as sequences of statements.  A column is <<v, n>>: the    *)
(* n-th one that version v added; Delay is the one version 6 replaces.      *)

Delay == <<1, 1>>
Grace == <<6, 1>>
KindColumn == <<14, 1>>

Add(v, n) == [i \in 1..n |-> <<"add", <<v, i>>>>]

(* SQLite cannot change a CHECK: a table is created anew, filled and        *)
(* renamed.                                                                 *)
Rebuild(v, t) == << <<"create", t>>, <<"copy", <<v, t>> >>, <<"swap", <<v, t>> >> >>

V2 == Add(2, 4)
V3 == Add(3, 2)
V4 == Add(4, 1)
V5 == << <<"commit">>, <<"fk", FALSE>> >>
      \o Rebuild(5, "instances") \o Rebuild(5, "cooldowns") \o Rebuild(5, "search_log")
      \o Add(5, 3) \o << <<"fk", TRUE>> >>
V6 == << <<"unless", "graced">>, <<"alter", Grace>>, <<"regrace">>, <<"drop", Delay>> >>
V7 == Add(7, 1)
V8 == Add(8, 10)
V9 == Add(9, 2)
(* Mutants of versions 10 and 14: the transaction that is open when foreign *)
(* keys are switched off stays open; a half-made table is not cleared away;  *)
(* the fill-in leaves no trace of having run.                               *)
V10InTransaction == << <<"unless", "v10">>, <<"fk", FALSE>>,
          <<"clear", {"instances", "cooldowns", "search_log"}>> >>
       \o Rebuild(10, "instances") \o Rebuild(10, "cooldowns") \o Rebuild(10, "search_log")
       \o << <<"fk", TRUE>> >>
V10KeepsLeftovers == << <<"unless", "v10">>, <<"commit">>, <<"fk", FALSE>> >>
       \o Rebuild(10, "instances") \o Rebuild(10, "cooldowns") \o Rebuild(10, "search_log")
       \o << <<"fk", TRUE>> >>
V14Unguarded == Add(14, 1) \o << <<"fill">> >>

V10 == << <<"unless", "v10">>, <<"commit">>, <<"fk", FALSE>>,
          <<"clear", {"instances", "cooldowns", "search_log"}>> >>
       \o Rebuild(10, "instances") \o Rebuild(10, "cooldowns") \o Rebuild(10, "search_log")
       \o << <<"fk", TRUE>> >>
V11 == Add(11, 1)
V12 == Add(12, 1)
V13 == Add(13, 3)
V14 == Add(14, 1) \o << <<"unless", "filled">>, <<"fill">> >>
V15 == << <<"unless", "v15">>, <<"commit">>, <<"fk", FALSE>>, <<"clear", {"cooldowns"}>> >>
       \o Rebuild(15, "cooldowns") \o << <<"fk", TRUE>> >>
V16 == << <<"rename", <<5, 3>>, <<16, 1>> >>, <<"rename", <<8, 8>>, <<16, 2>> >>,
          <<"unless", "v16">>, <<"commit">>, <<"fk", FALSE>>,
          <<"clear", {"cooldowns", "search_log"}>> >>
       \o Rebuild(16, "cooldowns") \o Rebuild(16, "search_log") \o << <<"fk", TRUE>> >>
V17 == Add(17, 1)
V18 == Add(18, 1)
V19 == Add(19, 1)
V20 == Add(20, 2)
V21 == Add(21, 2)

Ladder == <<V2, V3, V4, V5, V6, V7, V8, V9, V10, V11, V12, V13, V14, V15, V16, V17, V18, V19,
            V20, V21>>
Script(v) == Ladder[v - 1]

(* Columns of a database that is at version v.                              *)
AddedBy(w) == {s[2] : s \in {x \in Range(Script(w)) : x[1] = "add"}}
Columns(v) ==
  LET added == (UNION {AddedBy(w) : w \in 2..v}) \cup {IF v < 6 THEN Delay ELSE Grace}
  IN IF v < 16 THEN added ELSE (added \ {<<5, 3>>, <<8, 8>>}) \cup {<<16, 1>>, <<16, 2>>}

(* The version whose rebuild a table's CHECKs are those of.                 *)
Newest(S, v) == Max({1} \cup {w \in S : w <= v})
Checks(v) == [instances  |-> Newest({5, 10}, v),
              cooldowns  |-> Newest({5, 10, 15, 16}, v),
              search_log |-> Newest({5, 10, 16}, v)]

(* A database at version v: an instance of the Whisparr family, where the   *)
(* version knows it, two grace values, and the rows of its searches.        *)
Database(v, kind, log, filled) ==
  [version |-> v,
   columns |-> Columns(v),
   checks  |-> Checks(v),
   temp    |-> {},
   app     |-> IF v < 5 THEN "sonarr" ELSE IF v < 10 THEN "whisparr" ELSE "whisparr_v2",
   hours   |-> IF v < 6 THEN <<36, 48>> ELSE <<6, 48>>,
   type    |-> IF v < 5 THEN "episode"
               ELSE IF v < 16 THEN "whisparr_episode" ELSE "whisparr_v2_episode",
   kind    |-> kind,
   log     |-> log,
   filled  |-> filled]

NoRows == [i \in Items |-> Absent]
Unstamped == [i \in Items |-> "missing"]

(* What CREATE TABLE IF NOT EXISTS makes of an empty file.                  *)
Fresh == [Database(Current, NoRows, NoRows, FALSE) EXCEPT !.version = 0]

FoundAt(v) ==
  IF v = 0 THEN {Fresh}
  ELSE {Database(v, Unstamped, log, filled) :
          log \in [Items -> Kinds \cup {Absent}], filled \in IF v < 14 THEN {FALSE} ELSE BOOLEAN}
Found == UNION {FoundAt(v) : v \in Starts}

Init ==
  /\ disk \in Found
  /\ work = disk
  /\ open = FALSE
  /\ fk = TRUE
  /\ at = <<"schema", 0, 0>>
  /\ origin = disk
  /\ kills = 0
  /\ uses = 0

-----------------------------------------------------------------------------
(* One statement.                                                           *)

(* DDL: durable at once unless a transaction is open.                       *)
Alters(db) == work' = db /\ disk' = (IF open THEN disk ELSE db) /\ UNCHANGED open

(* DML: the transaction it opens stays open.                                *)
Writes(db) == work' = db /\ open' = TRUE /\ UNCHANGED disk

Commits(db) == work' = db /\ disk' = db /\ open' = FALSE

Keeps == UNCHANGED dbVars

(* What version v's definition of table t keeps of the columns.             *)
KeptBy(v, t) ==
  CASE t = "instances" -> {c \in work.columns : c[1] <= v \/ c[1] = 16 \/ c = KindColumn}
    [] t = "cooldowns" -> IF v < 14 THEN work.columns \ {KindColumn} ELSE work.columns
    [] OTHER -> work.columns

(* The columns the copy names that an interrupted ladder may have left      *)
(* behind.                                                                  *)
Needed(v, t) ==
  IF t # "instances" THEN {} ELSE IF v = 5 THEN {Delay} ELSE {Grace}

Renamed(v, t, db) ==
  CASE t = "instances" /\ v = 10 -> [db EXCEPT !.app = IF @ = "whisparr" THEN "whisparr_v2" ELSE @]
    [] t = "cooldowns" /\ v = 16 ->
         [db EXCEPT !.type = IF @ = "whisparr_episode" THEN "whisparr_v2_episode" ELSE @]
    [] OTHER -> db

(* Dropping instances deletes the cooldowns of all of them if foreign keys  *)
(* are enforced.                                                            *)
Swapped(v, t) ==
  LET db == [Renamed(v, t, work) EXCEPT !.temp = @ \ {t}, !.checks[t] = v,
                                        !.columns = KeptBy(v, t)]
  IN IF t = "instances" /\ fk THEN [db EXCEPT !.kind = NoRows] ELSE db

Regraced ==
  [work EXCEPT !.hours = [n \in DOMAIN @ |-> IF @[n] = 36 THEN 6 ELSE @[n]]]

FilledIn ==
  [work EXCEPT !.filled = TRUE,
               !.kind = [i \in Items |-> IF @[i] = "missing" /\ work.log[i] # Absent
                                         THEN work.log[i] ELSE @[i]]]

(* The conditions under which the rest of a migration is not needed.        *)
Done(guard) ==
  CASE guard = "graced" -> Delay \notin work.columns
    [] guard = "v10"    -> work.checks.instances >= 10
    [] guard = "filled" -> work.filled
    [] guard = "v15"    -> work.checks.cooldowns >= 15
    [] guard = "v16"    -> work.checks.cooldowns >= 16

(* Statements that raise: a table or column that is already there, or one   *)
(* that is not.                                                             *)
Raises(s) ==
  CASE s[1] = "create" -> s[2] \in work.temp
    [] s[1] = "copy"   -> ~(Needed(s[2][1], s[2][2]) \subseteq work.columns)
    [] s[1] = "alter"  -> s[2] \in work.columns
    [] s[1] = "rename" -> s[3] \notin work.columns /\ s[2] \notin work.columns
    [] OTHER -> FALSE

Runs(s) ==
  CASE s[1] = "commit" -> Commits(work)
    [] s[1] = "add"    -> Alters([work EXCEPT !.columns = @ \cup {s[2]}])
    [] s[1] = "alter"  -> Alters([work EXCEPT !.columns = @ \cup {s[2]}])
    [] s[1] = "drop"   -> Alters([work EXCEPT !.columns = @ \ {s[2]}])
    [] s[1] = "rename" -> IF s[3] \in work.columns THEN Keeps
                          ELSE Alters([work EXCEPT !.columns = (@ \ {s[2]}) \cup {s[3]}])
    [] s[1] = "clear"  -> Alters([work EXCEPT !.temp = @ \ s[2]])
    [] s[1] = "create" -> Alters([work EXCEPT !.temp = @ \cup {s[2]}])
    [] s[1] = "copy"   -> Writes(work)
    [] s[1] = "swap"   -> Alters(Swapped(s[2][1], s[2][2]))
    [] s[1] = "regrace" -> Writes(Regraced)
    [] s[1] = "fill"   -> Writes(FilledIn)
    [] OTHER -> Keeps

ForeignKeys(s) == fk' = IF s[1] = "fk" /\ ~open THEN s[2] ELSE fk

-----------------------------------------------------------------------------
(* The start.                                                               *)

(* init_db_schema: CREATE ... IF NOT EXISTS, which also makes the table of  *)
(* version 19.                                                              *)
Schema ==
  /\ at[1] = "schema"
  /\ Commits([work EXCEPT !.columns = @ \cup {<<19, 1>>}])
  /\ at' = <<"purge", 0, 0>>
  /\ UNCHANGED <<fk, origin, kills, uses>>

Forgotten(S) == [work EXCEPT !.log = [i \in Items |-> IF i \in S THEN Absent ELSE @[i]]]

Purge(S) ==
  /\ at[1] = "purge"
  /\ S # {} => uses < MaxUses
  /\ Commits(Forgotten(S))
  /\ uses' = IF S = {} THEN uses ELSE uses + 1
  /\ at' = <<"version", 0, 0>>
  /\ UNCHANGED <<fk, origin, kills>>

From(stage, v) == <<stage, v, 1>>

ReadVersion ==
  /\ at[1] = "version"
  /\ \/ work.version = 0 /\ at' = <<"stamp", 0, 0>>
     \/ work.version \in 1..(Current - 1) /\ at' = From("ladder", Max({2, work.version + 1}))
     \/ work.version = Current /\ at' = From("heal", 9)
  /\ UNCHANGED <<dbVars, fk, origin, kills, uses>>

NextMigration ==
  CASE at[2] < Current -> From(at[1], at[2] + 1)
    [] at[2] = Current /\ at[1] = "ladder" -> <<"stamp", 0, 0>>
    [] at[2] = Current /\ at[1] = "heal" -> <<"finish", 0, 0>>

Statement == Script(at[2])[at[3]]

Follows(s) ==
  IF (s[1] = "unless" /\ Done(s[2])) \/ at[3] = Len(Script(at[2]))
  THEN NextMigration ELSE <<at[1], at[2], at[3] + 1>>

Run ==
  /\ at[1] \in {"ladder", "heal"}
  /\ ~Raises(Statement)
  /\ Runs(Statement)
  /\ ForeignKeys(Statement)
  /\ at' = Follows(Statement)
  /\ UNCHANGED <<origin, kills, uses>>

(* The exception ends the process; its open transaction is rolled back.     *)
Fail ==
  /\ at[1] \in {"ladder", "heal"}
  /\ Raises(Statement)
  /\ at' = <<"off", 0, 0>>
  /\ work' = disk
  /\ open' = FALSE
  /\ UNCHANGED <<disk, fk, origin, kills, uses>>

(* A database of the first start is stamped and done; after a ladder the    *)
(* self-heal follows.                                                       *)
Stamp ==
  /\ at[1] = "stamp"
  /\ Writes([work EXCEPT !.version = Current])
  /\ at' = IF work.version = 0 THEN <<"finish", 0, 0>> ELSE <<"stamped", 0, 0>>
  /\ UNCHANGED <<fk, origin, kills, uses>>

CommitVersion ==
  /\ at[1] = "stamped"
  /\ Commits(work)
  /\ at' = From("heal", 9)
  /\ UNCHANGED <<fk, origin, kills, uses>>

Finish ==
  /\ at[1] = "finish"
  /\ Commits(work)
  /\ at' = <<"up", 0, 0>>
  /\ UNCHANGED <<fk, origin, kills, uses>>

(* The program runs: a search stamps its kind and, unless it is killed in   *)
(* between, its row.                                                        *)
Search(i, k, logged) ==
  /\ at[1] = "up"
  /\ uses < MaxUses
  /\ uses' = uses + 1
  /\ Commits([work EXCEPT !.kind[i] = k, !.log[i] = IF logged THEN k ELSE @])
  /\ UNCHANGED <<fk, at, origin, kills>>

Kill ==
  /\ at[1] # "off"
  /\ kills < MaxKills
  /\ kills' = kills + 1
  /\ at' = <<"off", 0, 0>>
  /\ work' = disk
  /\ open' = FALSE
  /\ UNCHANGED <<disk, fk, origin, uses>>

(* The orchestrator starts the container again, with new connections.       *)
Restart ==
  /\ at[1] = "off"
  /\ at' = <<"schema", 0, 0>>
  /\ fk' = TRUE
  /\ UNCHANGED <<dbVars, origin, kills, uses>>

Step ==
  \/ Schema
  \/ \E S \in SUBSET Items : Purge(S)
  \/ ReadVersion
  \/ Run
  \/ Fail
  \/ Stamp
  \/ CommitVersion
  \/ Finish
  \/ Restart

Next ==
  \/ Step
  \/ \E i \in Items, k \in Kinds, logged \in BOOLEAN : Search(i, k, logged)
  \/ Kill

Spec == Init /\ [][Next]_vars
FairSpec == Spec /\ WF_vars(Step)

-----------------------------------------------------------------------------
TypeOK ==
  /\ \A db \in {disk, work} :
       /\ db.version \in 0..Current
       /\ db.temp \subseteq {"instances", "cooldowns", "search_log"}
       /\ db.kind \in [Items -> Kinds \cup {Absent}]
       /\ db.log \in [Items -> Kinds \cup {Absent}]
       /\ db.filled \in BOOLEAN
  /\ open \in BOOLEAN /\ fk \in BOOLEAN
  /\ at[1] \in {"schema", "purge", "version", "ladder", "stamp", "stamped", "heal", "finish",
                "up", "off"}
  /\ kills \in 0..MaxKills /\ uses \in 0..MaxUses

(* No cooldown row the first start found is lost, whatever the version the  *)
(* database comes from and wherever the ladder is cut: the tables that      *)
(* cooldowns refer to are dropped and made anew, which deletes every        *)
(* cooldown unless foreign keys are off at that statement, and switching    *)
(* them off does nothing while an earlier statement's transaction is open.  *)
CooldownsKept ==
  \A i \in Items : origin.kind[i] # Absent => disk.kind[i] # Absent /\ work.kind[i] # Absent

(* Wherever the kills fall, the committed rows are those of a single        *)
(* conversion: nothing is converted twice, half or only in part once the    *)
(* version is stored, and a kind is filled in once.                         *)
Stored == disk.version = Current
Upgrade == INSTANCE SchemaUpgrade WITH
  version <- IF Stored THEN "new" ELSE "old",
  rows <- [unit   |-> IF Stored \/ origin.version \in {0} \cup (6..Current) THEN "grace" ELSE "delay",
           hours  |-> IF Stored THEN disk.hours ELSE origin.hours,
           app    |-> IF Stored THEN disk.app ELSE origin.app,
           type   |-> IF Stored THEN disk.type ELSE origin.type,
           kind   |-> disk.kind,
           log    |-> disk.log,
           filled |-> disk.filled]
AtomicUpgrade == Upgrade!Spec

(* However often it is killed, the program comes up again: what a cut       *)
(* ladder leaves behind does not stop the next start.  This is so for       *)
(* databases from version 6 on; an older one comes up unless it is killed.  *)
Restartable == kills = 0 \/ origin.version \in {0} \cup (6..Current)
ComesUp == Restartable ~> (at[1] = "up" \/ ~Restartable)

(* A connection that serves requests enforces foreign keys.                 *)
ForeignKeysOn == at[1] = "up" => fk
=============================================================================
