-------------------------------- MODULE LogFeed --------------------------------
(***************************************************************************)
(* The log page: the feed of search_log with its filters, "Load older",    *)
(* and the banner about newer cycles (services/log_query.py,               *)
(* routes/api/logs.py, templates/partials/log_rows.html), while cycles     *)
(* write rows and other requests delete them.                              *)
(*                                                                         *)
(* A timestamp is a number; two rows may carry the same one.               *)
(***************************************************************************)
EXTENDS Integers, Sequences, FiniteSetsExt

CONSTANTS
  Sources,   \* what writes a row: records with inst, cycle, trigger, action
  Filters,   \* the filters a page is opened with: inst, skipped, system
  Limits,    \* page sizes asked for
  ChunkMax,  \* _LOAD_MORE_CHUNK_MAX
  NoCycle,   \* the cycle_id NULL
  NoInst,    \* the instance_id NULL
  MaxRows,   \* bound: rows written
  MaxNow     \* bound: the clock

ASSUME LogFeedAssumption ==
  /\ Limits \subseteq Nat \ {0} /\ ChunkMax \in Nat \ {0}
  /\ MaxRows \in Nat /\ MaxNow \in Nat

VARIABLES
  rows,    \* search_log: records of a source with id and time
  lastId,  \* AUTOINCREMENT
  now,     \* the clock rows are stamped with
  feed     \* the page a browser has open
logVars == <<rows, lastId, now, feed>>

-----------------------------------------------------------------------------
(* The query.                                                               *)

SystemRow(row) == row.trigger = "system" \/ (row.inst = NoInst /\ row.action = "info")

Matches(row, filter) ==
  /\ filter.inst = NoInst \/ row.inst = filter.inst
  /\ filter.skipped => row.action # "skipped"
  /\ filter.system => ~SystemRow(row)

Newer(r, s) == r.time > s.time \/ (r.time = s.time /\ r.id > s.id)
Older(row, before) == before = 0 \/ row.time < before

Newest(S, limit) == {r \in S : Cardinality({s \in S : Newer(s, r)}) < limit}

(* Mutant: skipped rows are left out after the LIMIT.                       *)
FilteredLate(before, filter, limit) ==
  {r \in Newest({r \in rows : Older(r, before) /\ Matches(r, [filter EXCEPT !.skipped = FALSE])},
                limit) : Matches(r, filter)}
Fetched(before, filter, limit) ==
  Newest({r \in rows : Older(r, before) /\ Matches(r, filter)}, limit)

(* The rows of a cycle are brought together where its newest row is.        *)
Leader(S, row) ==
  IF row.cycle = NoCycle THEN row
  ELSE CHOOSE r \in S : r.cycle = row.cycle /\ \A s \in S : s.cycle = row.cycle => ~Newer(s, r)
LastShown(S) ==
  CHOOSE r \in S : \A s \in S \ {r} :
    Newer(Leader(S, s), Leader(S, r)) \/ (Leader(S, s) = Leader(S, r) /\ Newer(s, r))
TopCycle(S) ==
  LET cycles == {r \in S : r.cycle # NoCycle}
  IN IF cycles = {} THEN NoCycle
     ELSE (CHOOSE r \in cycles : \A s \in cycles \ {r} : Newer(r, s)).cycle

LoadMoreLimit(limit) == Min({limit, ChunkMax})

(* Distinct cycles with a row newer than the newest row of the cycle shown  *)
(* on top; none when that cycle is gone.                                    *)
NewerCycles(top) ==
  LET own == {r.time : r \in {s \in rows : s.cycle = top}}
  IN IF top = NoCycle \/ own = {} THEN {}
     ELSE {r.cycle : r \in {s \in rows : s.cycle \notin {NoCycle, top} /\ s.time > Max(own)}}

-----------------------------------------------------------------------------
Closed == [open |-> FALSE, filter |-> {}, limit |-> 0, before |-> 0, more |-> FALSE,
           shown |-> {}, cuts |-> {}, upTo |-> 0, top |-> NoCycle, banner |-> 0]

LogInit == rows = {} /\ lastId = 0 /\ now = 1 /\ feed = Closed

(* insert_log_row: the database's own clock stamps the row.                 *)
WriteRow(source, later) ==
  /\ lastId < MaxRows
  /\ now' = now + later /\ now' <= MaxNow
  /\ lastId' = lastId + 1
  /\ rows' = rows \cup {[id |-> lastId', time |-> now', cycle |-> source.cycle,
                         inst |-> source.inst, trigger |-> source.trigger,
                         action |-> source.action]}
  /\ UNCHANGED feed

(* delete_all_logs; the row that says so is written afterwards, as any      *)
(* other system row is.                                                     *)
Clear ==
  /\ rows # {} /\ rows' = {}
  /\ UNCHANGED <<lastId, now, feed>>

(* purge_old_logs: rows before a cutoff.                                    *)
Purge(cutoff) ==
  /\ rows' = {r \in rows : r.time >= cutoff}
  /\ rows' # rows
  /\ UNCHANGED <<lastId, now, feed>>

(* Deleting an instance leaves its rows without one (ON DELETE SET NULL).   *)
Orphan(i) ==
  /\ \E r \in rows : r.inst = i
  /\ rows' = {IF r.inst = i THEN [r EXCEPT !.inst = NoInst] ELSE r : r \in rows}
  /\ UNCHANGED <<lastId, now, feed>>

(* get_logs_partial; the button stands when the page is full, and carries   *)
(* the timestamp of the last row on the page.                               *)
Page(S, limit, next) ==
  [next EXCEPT !.limit = LoadMoreLimit(limit),
               !.more = Cardinality(S) >= limit,
               !.before = IF S = {} THEN 0 ELSE LastShown(S).time,
               !.shown = @ \cup {r.id : r \in S},
               !.cuts = @ \cup (IF Cardinality(S) >= limit THEN {LastShown(S).time} ELSE {})]

Open(filter, limit) ==
  /\ LET S == Fetched(0, filter, limit)
     IN feed' = Page(S, limit, [Closed EXCEPT !.open = TRUE, !.filter = filter, !.upTo = lastId,
                                              !.top = TopCycle(S)])
  /\ UNCHANGED <<rows, lastId, now>>

LoadOlder ==
  /\ feed.open /\ feed.more
  /\ feed' = Page(Fetched(feed.before, feed.filter, feed.limit), feed.limit, feed)
  /\ UNCHANGED <<rows, lastId, now>>

(* get_logs_head, polled with the cycle on top of the page.                 *)
PollHead ==
  /\ feed.open
  /\ feed' = [feed EXCEPT !.banner = Cardinality(NewerCycles(feed.top))]
  /\ UNCHANGED <<rows, lastId, now>>

LogNext ==
  \/ \E s \in Sources, later \in {0, 1} : WriteRow(s, later)
  \/ Clear
  \/ \E c \in 1..MaxNow : Purge(c)
  \/ \E i \in {s.inst : s \in Sources} \ {NoInst} : Orphan(i)
  \/ \E f \in Filters, l \in Limits : Open(f, l)
  \/ LoadOlder \/ PollHead

LogSpec == LogInit /\ [][LogNext]_logVars

-----------------------------------------------------------------------------
LogTypeOK ==
  /\ \A r \in rows : r.id \in 1..lastId /\ r.time \in 1..now
  /\ lastId \in 0..MaxRows /\ now \in 1..MaxNow
  /\ feed.open \in BOOLEAN /\ feed.more \in BOOLEAN
  /\ feed.shown \subseteq 1..lastId /\ feed.cuts \subseteq 1..now /\ feed.upTo \in 0..lastId

(* However rows are deleted between two clicks, and although rows are       *)
(* regrouped by cycle before the cursor is taken from the last of them, the *)
(* feed never leaves a row out: a matching row that was there when the page *)
(* was opened is on the page once the cursor is past it, and all of them    *)
(* are when the button is gone (log_query.py:226-330, log_rows.html:325).   *)
(* Rows that share the timestamp a page was cut at are the exception.       *)
NoGap ==
  feed.open =>
    \A r \in rows :
      (/\ r.id <= feed.upTo /\ Matches(r, feed.filter) /\ r.time \notin feed.cuts
       /\ ~feed.more \/ r.time > feed.before)
      => r.id \in feed.shown
=============================================================================
