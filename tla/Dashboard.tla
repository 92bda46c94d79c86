------------------------------ MODULE Dashboard ------------------------------
(***************************************************************************)
(* The dashboard's numbers: the queries over search_log that make them     *)
(* (services/metrics.py), the cache in front of them (async-lru, one entry *)
(* for each set of instance ids), the polls of the dashboard and of the    *)
(* widget, and the requests that drop the cache (routes/settings,          *)
(* routes/admin.py, routes/api/status.py).                                 *)
(*                                                                         *)
(* Every query is a transaction of its own, so the log moves between two   *)
(* queries of one gather.  A gather runs in a task of its own: dropping    *)
(* its entry does not stop it.                                             *)
(***************************************************************************)
EXTENDS Integers, Sequences, FiniteSetsExt

CONSTANTS
  Instances,   \* ids of instances
  Polls,       \* requests for the numbers
  Actions,     \* actions of a row
  MaxEvents,   \* bound: what happens to the log
  MaxGathers   \* bound: gathers begun

ASSUME DashboardBounds == MaxEvents \in Nat /\ MaxGathers \in Nat

VARIABLES
  history,  \* what happened to search_log; a row's place is its timestamp
  live,     \* ids in the table instances
  entry,    \* [Keys -> the gather the cache holds for it, or None]
  gathers,  \* the gathers begun
  poll,     \* [Polls -> the request]
  save,     \* a settings request: idle, or written and not yet answered
  rerun,    \* is a run-now's second invalidation due?
  shown     \* history: length of the log at the last finished request

None == 0
Keys == SUBSET Instances
cacheVars == <<entry, gathers>>
askVars == <<poll, save, rerun, shown>>
dashVars == <<history, live, cacheVars, askVars>>

-----------------------------------------------------------------------------
(* The queries, over the log as it was after its first v changes.           *)

Happens(v, kind) == {n \in 1..v : history[n].kind = kind}

(* Deleting an instance leaves its rows without an instance; clearing the   *)
(* log deletes them.                                                        *)
Kept(v) == {n \in Happens(v, "row") : \A c \in Happens(v, "clear") : c < n}
RowsOf(v, i) ==
  {n \in Kept(v) : history[n].inst = i
                   /\ \A d \in Happens(v, "gone") : history[d].inst = i => d < n}
Did(S, action) == {n \in S : history[n].action = action}

(* The last hour, day and week are one window here: rows before an "age"    *)
(* event have left it.                                                      *)
Young(v, S) == {n \in S : \A a \in Happens(v, "age") : a < n}

Searches7d(v) == Cardinality(Did(Young(v, Kept(v)), "searched"))

WindowMetrics(v, i) ==
  [searched |-> Cardinality(Did(Young(v, RowsOf(v, i)), "searched")),
   skipped  |-> Cardinality(Did(Young(v, RowsOf(v, i)), "skipped")),
   errors   |-> Cardinality(Did(Young(v, RowsOf(v, i)), "error")),
   last     |-> Max({None} \cup Did(RowsOf(v, i), "searched")),
   activity |-> Max({None} \cup (RowsOf(v, i) \ Did(RowsOf(v, i), "info")))]

LifetimeMetrics(v, i) ==
  [searched |-> Cardinality(Did(RowsOf(v, i), "searched")),
   last     |-> Max({None} \cup Did(RowsOf(v, i), "searched"))]

(* The banner stands while the newest row is an error; it counts the errors *)
(* since the last other row.                                                *)
ActiveError(v, i) ==
  LET other == Max({None} \cup (RowsOf(v, i) \ Did(RowsOf(v, i), "error")))
  IN Cardinality({n \in Did(RowsOf(v, i), "error") : n > other})

Recent(v) == Did(Young(v, UNION {RowsOf(v, i) : i \in live}), "searched")

(* The order of the queries.  WindowMetrics and ActiveError are two queries *)
(* each in the code.                                                        *)
(* Mutant: the lifetime is counted first.                                   *)
QueriesSwapped == [searches7d |-> 1, lifetime |-> 2, window |-> 3, errors |-> 4, recent |-> 5]
Queries == [searches7d |-> 1, window |-> 2, lifetime |-> 3, errors |-> 4, recent |-> 5]
Length(key) == IF key = {} THEN 1 ELSE 5

(* What a poll gets for an instance of a finished gather.                   *)
Card(g, i) ==
  [window   |-> WindowMetrics(g.at[Queries.window], i),
   lifetime |-> LifetimeMetrics(g.at[Queries.lifetime], i),
   errors   |-> ActiveError(g.at[Queries.errors], i)]

-----------------------------------------------------------------------------
Asleep == [pc |-> "idle", widget |-> FALSE, key |-> {}, gather |-> None, owed |-> 0]

DashInit ==
  /\ history = <<>> /\ live = Instances
  /\ entry = [k \in Keys |-> None] /\ gathers = <<>>
  /\ poll = [p \in Polls |-> Asleep]
  /\ save = "idle" /\ rerun = FALSE /\ shown = 0

(* The cache.                                                               *)

Drop(k) == entry' = [entry EXCEPT ![k] = None]

(* cache_clear forgets every entry, those still being gathered too.         *)
(* Mutant: an entry that is still being gathered stays.                     *)
ClearedFinished ==
  entry' = [k \in Keys |-> IF entry[k] # None /\ gathers[entry[k]].state = "running"
                           THEN entry[k] ELSE None]
Cleared == entry' = [k \in Keys |-> None]

Invalidate == Cleared /\ shown' = Len(history) /\ UNCHANGED gathers

(* A call finds the entry, finished or not, or begins a gather.             *)
Call(p, asking) ==
  LET k == asking.key
      new == entry[k] = None
      g == IF new THEN Len(gathers) + 1 ELSE entry[k]
  IN /\ new => Len(gathers) < MaxGathers
     /\ gathers' = IF new THEN Append(gathers, [key |-> k, at |-> <<>>, state |-> "running"])
                   ELSE gathers
     /\ entry' = [entry EXCEPT ![k] = g]
     /\ poll' = [poll EXCEPT ![p] = [asking EXCEPT !.gather = g]]

Query(g) ==
  /\ gathers[g].state = "running" /\ Len(gathers[g].at) < Length(gathers[g].key)
  /\ gathers' = [gathers EXCEPT ![g].at = Append(@, Len(history))]
  /\ UNCHANGED <<history, live, entry, askVars>>

Finish(g) ==
  /\ gathers[g].state = "running" /\ Len(gathers[g].at) = Length(gathers[g].key)
  /\ gathers' = [gathers EXCEPT ![g].state = "done"]
  /\ UNCHANGED <<history, live, entry, askVars>>

(* A query raises: whatever entry the key has by now is dropped.            *)
Break(g) ==
  /\ gathers[g].state = "running"
  /\ gathers' = [gathers EXCEPT ![g].state = "failed", ![g].at = <<>>]
  /\ Drop(gathers[g].key)
  /\ UNCHANGED <<history, live, askVars>>

(* The timer a finished gather arms drops whatever entry its key has by     *)
(* then, one still being gathered too; so an entry may go at any time after *)
(* the first gather of its key.                                             *)
Expire(k) ==
  /\ entry[k] # None
  /\ \E g \in DOMAIN gathers : gathers[g].key = k /\ gathers[g].state = "done"
  /\ Drop(k)
  /\ UNCHANGED <<history, live, gathers, askVars>>

-----------------------------------------------------------------------------
(* Polls.                                                                   *)

(* The ids are read from the table, then the cache is asked; a dashboard    *)
(* without instances is not gathered for.                                   *)
Ask(p, widget) ==
  /\ poll[p].pc = "idle"
  /\ Call(p, [pc |-> IF widget THEN "first" ELSE "wait", widget |-> widget, key |-> live,
              gather |-> None, owed |-> shown])
  /\ live = {} => widget
  /\ UNCHANGED <<history, live, save, rerun, shown>>

(* The widget asks a second time, for the week's count.                     *)
AskAgain(p) ==
  /\ poll[p].pc = "first" /\ gathers[poll[p].gather].state = "done"
  /\ Call(p, [poll[p] EXCEPT !.pc = "wait"])
  /\ UNCHANGED <<history, live, save, rerun, shown>>

Answer(p) ==
  /\ poll[p].pc = "wait" /\ gathers[poll[p].gather].state = "done"
  /\ poll' = [poll EXCEPT ![p].pc = "answered"]
  /\ UNCHANGED <<history, live, cacheVars, save, rerun, shown>>

Done(p) ==
  /\ \/ poll[p].pc = "answered"
     \/ poll[p].pc \in {"first", "wait"} /\ gathers[poll[p].gather].state = "failed"
  /\ poll' = [poll EXCEPT ![p] = Asleep]
  /\ UNCHANGED <<history, live, cacheVars, save, rerun, shown>>

-----------------------------------------------------------------------------
(* The log and the requests that change what polls show.                    *)

Happen(e) == Len(history) < MaxEvents /\ history' = Append(history, e)

(* A cycle, a run-now's own cycle among them, writes a row.                 *)
LogRow(i, action) ==
  /\ i \in live
  /\ Happen([kind |-> "row", inst |-> i, action |-> action])
  /\ UNCHANGED <<live, cacheVars, askVars>>

Age ==
  /\ Happen([kind |-> "age"])
  /\ UNCHANGED <<live, cacheVars, askVars>>

(* Clearing the log, deleting or adding an instance: the write, and then    *)
(* the invalidation and the answer.                                         *)
SaveWrites ==
  /\ save = "idle"
  /\ save' = "written"
  /\ \/ Happen([kind |-> "clear"]) /\ UNCHANGED live
     \/ \E i \in live : Happen([kind |-> "gone", inst |-> i]) /\ live' = live \ {i}
     \/ \E i \in Instances \ live : Happen([kind |-> "added", inst |-> i]) /\ live' = live \cup {i}
  /\ UNCHANGED <<cacheVars, poll, rerun, shown>>

SaveAnswers ==
  /\ save = "written"
  /\ save' = "idle"
  /\ Invalidate
  /\ UNCHANGED <<history, live, poll, rerun>>

RunNow ==
  /\ ~rerun /\ live # {}
  /\ Invalidate
  /\ rerun' = TRUE
  /\ UNCHANGED <<history, live, poll, save>>

Reinvalidate ==
  /\ rerun
  /\ Invalidate
  /\ rerun' = FALSE
  /\ UNCHANGED <<history, live, poll, save>>

DashNext ==
  \/ \E g \in DOMAIN gathers : Query(g) \/ Finish(g) \/ Break(g)
  \/ \E k \in Keys : Expire(k)
  \/ \E p \in Polls : AskAgain(p) \/ Answer(p) \/ Done(p) \/ \E w \in BOOLEAN : Ask(p, w)
  \/ \E i \in Instances, a \in Actions : LogRow(i, a)
  \/ Age \/ SaveWrites \/ SaveAnswers \/ RunNow \/ Reinvalidate

DashSpec == DashInit /\ [][DashNext]_dashVars

-----------------------------------------------------------------------------
DashTypeOK ==
  /\ live \subseteq Instances
  /\ entry \in [Keys -> 0..MaxGathers]
  /\ \A g \in DOMAIN gathers : /\ gathers[g].key \in Keys
                               /\ gathers[g].state \in {"running", "done", "failed"}
  /\ save \in {"idle", "written"} /\ rerun \in BOOLEAN
  /\ shown \in 0..Len(history)

(* A poll shows everything that was in the database when the last request   *)
(* that drops the cache had been answered before it asked, also when a      *)
(* gather begun before that write is still running (metrics.py:391-406).    *)
AnswersFresh ==
  \A p \in Polls : poll[p].pc = "answered" =>
    LET g == gathers[poll[p].gather]
    IN \A n \in DOMAIN g.at : g.at[n] >= poll[p].owed

(* Although the queries of a gather see the log at different times, a card  *)
(* never counts more searches in the last day than in its lifetime and      *)
(* never knows of a later one, unless rows were deleted between the two     *)
(* queries.                                                                 *)
CountsAgree ==
  \A g \in {gathers[n] : n \in DOMAIN gathers} :
    g.state = "done" => \A i \in g.key :
      (\E n \in DOMAIN history : /\ history[n].kind \in {"clear", "gone"}
                                 /\ n > g.at[2] /\ n <= g.at[3])
      \/ /\ Card(g, i).window.searched <= Card(g, i).lifetime.searched
         /\ Card(g, i).window.last <= Card(g, i).lifetime.last
=============================================================================
