-------------------------- MODULE CooldownReconcile --------------------------
(***************************************************************************)
(* The cooldown rows of one instance and the refresh that deletes those    *)
(* whose item the *arr no longer wants (services/cooldown_reconcile.py,    *)
(* Supervisor._refresh_one_snapshot and each adapter's                     *)
(* fetch_reconcile_sets).                                                  *)
(*                                                                         *)
(* A search cycle and a refresh share the instance's lock.  What does not  *)
(* take it is the *arr, whose lists move while the refresh reads them one  *)
(* request at a time, and the settings, which the refresh read before it   *)
(* waited for the lock.                                                    *)
(***************************************************************************)
EXTENDS Integers, FiniteSets

CONSTANTS
  Items,       \* ids of episodes, albums, books or movies: positive numbers
  Parent,      \* the series, artist or author of each, 0 when it has none
  Season,      \* its season, 0 for specials
  Apps,        \* the *arr applications an instance may be of
  Settings,    \* the search modes and the upgrade switch a user may save
  PageSize,    \* records in a page of a wanted list
  MaxRows,     \* bound: cooldown rows at a time
  MaxEvents    \* bound: changes of the *arr and of the settings, and failures

Kinds == {"missing", "cutoff", "upgrade"}

\* What tells the adapters apart here: whether a parent's search has a row of its
\* own, whether the parent is a season, from which season on the reconcile set
\* holds it, and how the upgrade candidates are fetched.
Sonarr     == [parents |-> TRUE,  seasons |-> TRUE,  first |-> 0, pool |-> "series"]
WhisparrV2 == [parents |-> TRUE,  seasons |-> TRUE,  first |-> 1, pool |-> "series"]
Lidarr     == [parents |-> TRUE,  seasons |-> FALSE, first |-> 0, pool |-> "exclusion"]
Readarr    == [parents |-> TRUE,  seasons |-> FALSE, first |-> 0, pool |-> "exclusion"]
Radarr     == [parents |-> FALSE, seasons |-> FALSE, first |-> 0, pool |-> "library"]
WhisparrV3 == [parents |-> FALSE, seasons |-> FALSE, first |-> 0, pool |-> "cache"]
Adapters   == [sonarr |-> Sonarr, radarr |-> Radarr, lidarr |-> Lidarr,
               readarr |-> Readarr, whisparr_v2 |-> WhisparrV2, whisparr_v3 |-> WhisparrV3]

NoRow == [context |-> FALSE, upContext |-> FALSE, upgrade |-> FALSE, read |-> FALSE]
Saved == [context : BOOLEAN, upContext : BOOLEAN, upgrade : BOOLEAN, read : {TRUE}]

ASSUME ItemsAssumption == /\ Items \subseteq Nat \ {0} /\ IsFiniteSet(Items)
                          /\ Parent \in [Items -> Nat]
                          /\ Season \in [Items -> 0..999]
ASSUME BoundsAssumption == /\ Apps \subseteq DOMAIN Adapters /\ Apps # {}
                           /\ Settings \subseteq Saved /\ Settings # {}
                           /\ PageSize \in Nat \ {0}
                           /\ MaxRows \in Nat /\ MaxEvents \in Nat

VARIABLES
  app,       \* the instance's type; a change of it by the edit form is left out
  status,    \* the *arr: each item is missing, below its cutoff, met, or gone
  settings,  \* the instance's row: search modes and the upgrade switch
  rows,      \* the table cooldowns: pairs of a search kind and an id
  cycle,     \* the row a running search cycle goes by, NoRow when none runs
  pc,        \* where the refresh is
  inst,      \* the row the refresh goes by
  page,      \* the page it asks for next
  got,       \* the items it has collected for each kind
  seen,      \* series left to walk, or albums to exclude
  events,   \* counts changes and failures against MaxEvents
  calm,      \* history: nothing moved and no series was skipped in this refresh
  failed     \* history: a request of this refresh's reconcile fetch failed

arrVars == <<app, status>>
vars == <<app, status, settings, rows, cycle, pc, inst, page, got, seen, events,
          calm, failed>>

-----------------------------------------------------------------------------
(* Ids and sets. *)

Adapter == Adapters[app]

\* _season_item_id, _artist_item_id, _author_item_id.
Synthetic(i) == -(Parent[i] * 1000 + (IF Adapter.seasons THEN Season[i] ELSE 0))

\* adapt_missing and adapt_upgrade search the parent where the mode says so and
\* the item has one; the cutoff pass always searches the item.
ByParent(k, s) == Adapter.parents /\ \/ k = "missing" /\ s.context
                                     \/ k = "upgrade" /\ s.upContext
StampId(k, i, s) ==
  IF ByParent(k, s) /\ Parent[i] > 0 /\ (Adapter.seasons => Season[i] > 0)
    THEN Synthetic(i)
    ELSE i

\* Status of the items that a kind's list holds.
ListOf(k) == CASE k = "missing" -> "missing" [] k = "cutoff" -> "cutoff" [] OTHER -> "met"
Listed(k) == {i \in Items : status[i] = ListOf(k)}

Nothing == [k \in Kinds |-> {}]

\* A page of a wanted list, which the *arr keeps in one order.
Place(k, i) == Cardinality({j \in Listed(k) : j <= i})
WantedPage(k) ==
  {i \in Listed(k) : (page - 1) * PageSize < Place(k, i) /\ Place(k, i) <= page * PageSize}

\* The rows the collected sets vouch for: leaves of both wanted lists, parents of
\* the missing list in the parent mode, and what adapt_upgrade would stamp.
Parents(found) == {Synthetic(i) : i \in {j \in found : Parent[j] > 0 /\ Season[j] >= Adapter.first}}
\* Mutant of the next definition: the missing set holds leaves only.
ValidLeaves(g, s) ==
  ({"missing"} \X g["missing"]) \cup ({"cutoff"} \X g["cutoff"])
  \cup ({"upgrade"} \X {StampId("upgrade", i, s) : i \in g["upgrade"]})
Valid(g, s) ==
  ({"missing"} \X (g["missing"] \cup
                     IF ByParent("missing", s) THEN Parents(g["missing"]) ELSE {}))
  \cup ({"cutoff"}  \X g["cutoff"])
  \cup ({"upgrade"} \X {StampId("upgrade", i, s) : i \in g["upgrade"]})

\* Reference: the rows a search made now would write.
Wanted == {<<q[1], StampId(q[1], q[2], settings)>> : q \in
             {p \in Kinds \X Items : /\ p[2] \in Listed(p[1])
                                     /\ p[1] = "upgrade" => settings.upgrade}}

-----------------------------------------------------------------------------
Init ==
  /\ app \in Apps
  /\ status \in [Items -> {"missing", "cutoff", "met"}]
  /\ settings \in Settings
  /\ rows = {} /\ cycle = NoRow
  /\ pc = "idle" /\ inst = NoRow /\ page = 1 /\ got = Nothing /\ seen = {}
  /\ events = 0 /\ calm = TRUE /\ failed = FALSE

(* Search cycles. *)

Locked == pc \notin {"idle", "wait"}

StartCycle ==
  /\ cycle = NoRow /\ ~Locked
  /\ cycle' = settings
  /\ UNCHANGED <<arrVars, settings, rows, pc, inst, page, got, seen, events, calm, failed>>

Search(k, i) ==
  /\ cycle # NoRow
  /\ i \in Listed(k) /\ (k = "upgrade" => cycle.upgrade)
  /\ Cardinality(rows) < MaxRows
  /\ rows' = rows \cup {<<k, StampId(k, i, cycle)>>}
  /\ UNCHANGED <<arrVars, settings, cycle, pc, inst, page, got, seen, events, calm, failed>>

EndCycle ==
  /\ cycle # NoRow
  /\ cycle' = NoRow
  /\ UNCHANGED <<arrVars, settings, rows, pc, inst, page, got, seen, events, calm, failed>>

-----------------------------------------------------------------------------
(* The refresh of one instance. *)

\* Forget what the refresh held: the next one starts from its own reads.
Leave == pc' = "idle" /\ inst' = NoRow /\ page' = 1 /\ got' = Nothing /\ seen' = {}

Goto(l) == pc' = l /\ page' = 1

\* A failure, or a change, of which a behaviour has finitely many.
Event == events < MaxEvents /\ events' = events + 1

\* The sweep reads the instances before it takes any lock.
Begin ==
  /\ pc = "idle"
  /\ pc' = "wait" /\ inst' = settings
  /\ calm' = TRUE /\ failed' = FALSE
  /\ UNCHANGED <<arrVars, settings, rows, cycle, page, got, seen, events>>

Acquire ==
  /\ pc = "wait" /\ cycle = NoRow
  /\ pc' = "snapshot"
  /\ UNCHANGED <<arrVars, settings, rows, cycle, inst, page, got, seen, events, calm, failed>>

\* The snapshot answers.  Whisparr v3's client keeps the library it read for it,
\* and its reconcile sets are three views of that one answer.
Snapshot ==
  /\ pc = "snapshot"
  /\ IF Adapter.pool = "cache"
       THEN Goto("apply") /\ got' = [k \in Kinds |-> Listed(k)]
       ELSE Goto("missing") /\ UNCHANGED got
  /\ UNCHANGED <<arrVars, settings, rows, cycle, inst, seen, events, calm, failed>>

\* paginate_wanted: a short page is the last one.
AfterCutoff == IF ~inst.upgrade THEN "apply" ELSE Adapter.pool
FetchPage ==
  /\ pc \in {"missing", "cutoff"}
  /\ got' = [got EXCEPT ![pc] = @ \cup WantedPage(pc)]
  /\ IF Cardinality(WantedPage(pc)) < PageSize
       THEN Goto(IF pc = "missing" THEN "cutoff" ELSE AfterCutoff)
       ELSE page' = page + 1 /\ UNCHANGED pc
  /\ UNCHANGED <<arrVars, settings, rows, cycle, inst, seen, events, calm, failed>>

\* Albums and books below their cutoff are kept out of the upgrade pool; a page
\* that fails ends the walk with what it has.
Exclude ==
  /\ pc = "exclusion"
  /\ \/ /\ seen' = seen \cup WantedPage("cutoff")
        /\ IF Cardinality(WantedPage("cutoff")) < PageSize
             THEN Goto("library")
             ELSE page' = page + 1 /\ UNCHANGED pc
        /\ UNCHANGED <<failed, events>>
     \/ Goto("library") /\ Event /\ failed' = TRUE /\ UNCHANGED seen
  /\ UNCHANGED <<arrVars, settings, rows, cycle, inst, got, calm>>

Library ==
  /\ pc = "library"
  /\ got' = [got EXCEPT !["upgrade"] =
               IF Adapter.pool = "exclusion"
                 THEN (Listed("cutoff") \cup Listed("upgrade")) \ seen
                 ELSE Listed("upgrade")]
  /\ Goto("apply")
  /\ UNCHANGED <<arrVars, settings, rows, cycle, inst, seen, events, calm, failed>>

\* The monitored series, then the episodes of each.
GetSeries ==
  /\ pc = "series"
  /\ seen' = {Parent[i] : i \in {j \in Items : status[j] # "gone"}}
  /\ Goto("episodes")
  /\ UNCHANGED <<arrVars, settings, rows, cycle, inst, got, events, calm, failed>>

Episodes(s) ==
  /\ pc = "episodes" /\ s \in seen
  /\ got' = [got EXCEPT !["upgrade"] = @ \cup {i \in Listed("upgrade") : Parent[i] = s}]
  /\ seen' = seen \ {s}
  /\ UNCHANGED <<arrVars, settings, rows, cycle, pc, inst, page, events, calm, failed>>

\* A series whose request fails is skipped, and the fetch goes on.
SkipSeries(s) ==
  /\ pc = "episodes" /\ s \in seen
  /\ seen' = seen \ {s}
  /\ Event /\ calm' = FALSE /\ failed' = TRUE
  /\ UNCHANGED <<arrVars, settings, rows, cycle, pc, inst, page, got>>

AllSeries ==
  /\ pc = "episodes" /\ seen = {}
  /\ Goto("apply")
  /\ UNCHANGED <<arrVars, settings, rows, cycle, inst, got, seen, events, calm, failed>>

\* Any other failure of the reconcile fetch leaves the empty sets.
FetchFails ==
  /\ pc \in {"missing", "cutoff", "library", "series"}
  /\ Event /\ got' = Nothing /\ failed' = TRUE
  /\ Goto("apply")
  /\ UNCHANGED <<arrVars, settings, rows, cycle, inst, seen, calm>>

\* Three empty sets mean nothing is known; otherwise rows the sets do not vouch
\* for are deleted in one transaction.
\* Mutant of the next definition: a kind whose set is empty is taken for unknown.
ReconciledByKind == {r \in rows : got[r[1]] = {} \/ r \in Valid(got, inst)}
Reconciled == IF got = Nothing THEN rows ELSE rows \cap Valid(got, inst)
Reconcile ==
  /\ pc = "apply"
  /\ rows' = Reconciled
  /\ Leave
  /\ UNCHANGED <<arrVars, settings, cycle, events, calm, failed>>

\* The snapshot fails, a write fails, or the task is cancelled.
GiveUp ==
  /\ pc # "idle"
  /\ Event /\ Leave
  /\ UNCHANGED <<arrVars, settings, rows, cycle, calm, failed>>

-----------------------------------------------------------------------------
(* The *arr and the user. *)

\* An item is grabbed, upgraded, deleted, added or loses its file.
ArrChanges(i, st) ==
  /\ Event /\ st # status[i]
  /\ status' = [status EXCEPT ![i] = st]
  /\ calm' = FALSE
  /\ UNCHANGED <<app, settings, rows, cycle, pc, inst, page, got, seen, failed>>

Save(s) ==
  /\ Event /\ s # settings
  /\ settings' = s
  /\ calm' = FALSE
  /\ UNCHANGED <<arrVars, rows, cycle, pc, inst, page, got, seen, failed>>

Cycle   == StartCycle \/ EndCycle \/ \E k \in Kinds, i \in Items : Search(k, i)
Refresh == \/ Begin \/ Acquire \/ Snapshot \/ FetchPage \/ Exclude \/ Library
           \/ GetSeries \/ AllSeries \/ Reconcile
           \/ \E i \in Items : Episodes(Parent[i])
Faults  == FetchFails \/ GiveUp \/ \E i \in Items : SkipSeries(Parent[i])
Outside == \/ \E i \in Items, st \in {"missing", "cutoff", "met", "gone"} : ArrChanges(i, st)
           \/ \E s \in Settings : Save(s)

Next == Cycle \/ Refresh \/ Faults \/ Outside
Spec == Init /\ [][Next]_vars

\* The loop wakes every ten minutes and a cycle ends; asyncio.Lock serves its
\* waiters in turn, so a refresh that waits gets the lock between two cycles.
FairSpec == Spec /\ WF_vars(EndCycle) /\ WF_vars(Refresh) /\ SF_vars(Acquire)

-----------------------------------------------------------------------------
TypeOK ==
  /\ app \in Apps
  /\ status \in [Items -> {"missing", "cutoff", "met", "gone"}]
  /\ settings \in Settings /\ cycle \in Settings \cup {NoRow}
  /\ inst \in Settings \cup {NoRow}
  /\ rows \subseteq Kinds \X Int
  /\ pc \in {"idle", "wait", "snapshot", "missing", "cutoff", "exclusion", "library",
             "series", "episodes", "apply"}
  /\ page \in Nat \ {0}
  /\ got \in [Kinds -> SUBSET Items] /\ seen \subseteq Nat
  /\ events \in 0..MaxEvents /\ calm \in BOOLEAN /\ failed \in BOOLEAN

\* A refresh during which neither the *arr nor the settings moved and no series
\* was skipped deletes no row that a search made now would write: the ids the
\* adapters stamp are the ids their reconcile sets hold, in every search mode.
WantedRowsStay == [][calm => (rows \ rows') \cap Wanted = {}]_vars

\* Rows of items that left the wanted lists do not pile up: once the *arr and the
\* settings stay as they are, every row left stands for something still wanted,
\* unless nothing at all is, which the refresh takes for a failed fetch.
DriftDrains == <>[](rows \subseteq Valid([k \in Kinds |-> Listed(k)], settings)
                      \/ Wanted = {})

\* What Supervisor._refresh_one_snapshot's comment says: an *arr failure anywhere in
\* the fetch makes the refresh skip the reconcile and keep the rows, so none of an
\* item that is still wanted goes with it.
FailureKeepsRows == [][failed => (rows \ rows') \cap Wanted = {}]_vars
=============================================================================
