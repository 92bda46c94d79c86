--------------------------- MODULE UpgradeRotation ---------------------------
(***************************************************************************)
(* The upgrade pass of one Sonarr or Whisparr v2 instance across cycles:   *)
(* the window of monitored series a cycle looks at (fetch_upgrade_pool),   *)
(* the rotation of the episodes found there (_run_upgrade_pass), and the   *)
(* two offsets in the instance row that carry both rotations to the next   *)
(* cycle.  The row is read before the search lock is waited for, so cycles *)
(* queue up with rows of their own, and the settings routes rewrite it     *)
(* while they wait or run.  The order is chronological; shuffled pools and *)
(* the other skips of a pass are in module SearchCycle.                    *)
(***************************************************************************)
EXTENDS Integers, Sequences, FiniteSets

CONSTANTS
  Workers,       \* tasks that run cycles: the loop, a run-now task
  Handlers,      \* requests that save the instance's settings
  NoWorker,
  Series,        \* ids of the series in the *arr's library
  Libraries,     \* the sets of series that may be monitored
  Monitored,     \* those monitored at first
  Episodes,      \* ids of the monitored episodes that meet the cutoff
  SeriesOf,      \* the series of an episode
  Window,        \* upgrade_series_window_size
  Batch,         \* upgrade_batch_size
  Budget,        \* the scan budget of an upgrade pass
  OffsetModulus, \* bound: offsets are kept modulo a multiple of every library size
  MaxEvents      \* bound: failing calls, skipped passes, kills, changes of the
                 \* library and saves of the settings, together

\* Mutant: one series too many.
LongStep == 6

\* What _run_upgrade_pass adds to upgrade_series_offset.
SeriesStep == 5

ASSUME LibraryOK ==
  /\ Series \subseteq Nat /\ IsFiniteSet(Series)
  /\ Libraries \subseteq SUBSET Series /\ Monitored \in Libraries
  /\ Episodes \subseteq Nat /\ IsFiniteSet(Episodes)
  /\ SeriesOf \in [Episodes -> Series]

ASSUME PolicyOK ==
  /\ Window \in Nat \ {0} /\ Batch \in Nat \ {0} /\ Budget \in Nat \ {0}
  /\ NoWorker \notin Workers

ASSUME BoundsOK ==
  /\ OffsetModulus \in Nat \ {0}
  /\ MaxEvents \in Nat

VARIABLES
  stored,    \* the columns upgrade_enabled and the two offsets
  monitored, \* monitored series
  cool,      \* episodes on upgrade cooldown
  seen,      \* the row each worker has read
  line,      \* the search lock's owner and, in order, those who wait for it
  pc,        \* where the owner's cycle is: "begin", "fetched", "scan", "stop"
  window,    \* the series its pool was fetched from
  pool,      \* its pool; a series met twice brings its episodes twice
  left,      \* what it has yet to take from the pool
  scanned, searched, \* its counters
  hseen,     \* what a save has read of upgrade_enabled: "on", "off", or "none"
  behind,    \* history: upgrades were turned off since the line was last empty
  tainted,   \* history: since they were turned off, somebody with an older row wrote
  events     \* those so far

cycleVars == <<pc, window, pool, left, scanned, searched>>
history   == <<behind, tainted>>
vars == <<stored, monitored, cool, seen, line, cycleVars, hseen, history, events>>

InLine == {line[i] : i \in 1 .. Len(line)}
Owner  == IF line = <<>> THEN NoWorker ELSE Head(line)
Row    == seen[Owner]

Rows == [on : BOOLEAN, series : 0 .. OffsetModulus - 1, item : Nat]
Zero(on) == [on |-> on, series |-> 0, item |-> 0]

Init ==
  /\ \E on \in BOOLEAN : stored = Zero(on)
  /\ monitored = Monitored
  /\ cool = {}
  /\ seen = [w \in Workers |-> Zero(FALSE)]
  /\ line = <<>> /\ pc = "begin"
  /\ window = {} /\ pool = {} /\ left = {}
  /\ scanned = 0 /\ searched = 0
  /\ hseen = [h \in Handlers |-> "none"]
  /\ behind = FALSE /\ tainted = FALSE
  /\ events = 0

\* One more of the events there are only so many of.
Event == events < MaxEvents /\ events' = events + 1
-----------------------------------------------------------------------------
\* The place of x among the members of S in ascending order, from 0.
Rank(x, S) == Cardinality({y \in S : y < x})

\* A window of w series at offset o holds the series at place r, ...
InSlice(r, o, w) == o <= r /\ r < o + w

\* ... and what it lacks at the end of the n series it takes from the beginning.
InWrap(r, o, n, w) == r < o + w - n

\* The series fetch_upgrade_pool selects at an offset, a copy for each time.
Selected(offset) ==
  LET n == Cardinality(monitored)
      o == offset % n
  IN  IF n = 0 THEN {}
      ELSE {x \in monitored \X {1, 2} :
              \/ x[2] = 1 /\ InSlice(Rank(x[1], monitored), o, Window)
              \/ x[2] = 2 /\ InWrap(Rank(x[1], monitored), o, n, Window)}

\* The pool ascends by episode, the two copies of one next to each other.
Before(x, y) == x[1] < y[1] \/ (x[1] = y[1] /\ x[2] < y[2])
Place(x)     == Cardinality({y \in pool : Before(y, x)})

Start == Row.item % Cardinality(pool)

\* Mutant: what is not searched is not passed.
NextSearched(item, n, count) == ((item % n) + searched) % n

\* The item offset a cycle stores that counted episodes of a pool of n.
NextItem(item, n, count) == ((item % n) + count) % n

\* How far x is from the start of the rotated pool.
Turn(x) == (Place(x) + Cardinality(pool) - Start) % Cardinality(pool)
IsNext(x) == x \in left /\ \A y \in left : Turn(x) <= Turn(y)

Repeated(x) == \E y \in pool \ left : y[1] = x[1]
-----------------------------------------------------------------------------
(***************************************************************************)
(* A cycle.                                                                *)
(***************************************************************************)

\* A worker reads the row and queues up for the search lock.
ReadRow(w) ==
  /\ w \notin InLine
  /\ line' = Append(line, w)
  /\ seen' = [seen EXCEPT ![w] = stored]
  /\ UNCHANGED <<stored, monitored, cool, cycleVars, hseen, history, events>>

Idle ==
  /\ pc' = "begin" /\ window' = {} /\ pool' = {} /\ left' = {}
  /\ scanned' = 0 /\ searched' = 0

\* The row a worker holds while it is not in line.
NoRow == Zero(FALSE)

\* The cycle is over and the next in line gets the lock.
Leave ==
  /\ line' = Tail(line) /\ Idle
  /\ seen' = [seen EXCEPT ![Owner] = NoRow]
  /\ behind' = (behind /\ Len(line) > 1)

NoUpgrade ==
  /\ line # <<>> /\ pc = "begin" /\ ~Row.on
  /\ Leave
  /\ UNCHANGED <<stored, monitored, cool, hseen, tainted, events>>

\* The window's episodes; a series whose fetch fails is left out.
FetchPool ==
  /\ line # <<>> /\ pc = "begin" /\ Row.on
  /\ LET selected == Selected(Row.series)
     IN  \E dark \in SUBSET {x[1] : x \in selected} :
           /\ IF dark = {} THEN UNCHANGED events ELSE Event
           /\ window' = {x[1] : x \in selected}
           /\ pool' = {x \in Episodes \X {1, 2} :
                         <<SeriesOf[x[1]], x[2]>> \in selected /\ SeriesOf[x[1]] \notin dark}
  /\ pc' = "fetched"
  /\ UNCHANGED <<stored, monitored, cool, seen, line, left, scanned, searched, hseen, history>>

\* "nothing to upgrade right now": the pass ends and moves no offset.
EmptyPool ==
  /\ pc = "fetched" /\ pool = {}
  /\ Leave
  /\ UNCHANGED <<stored, monitored, cool, hseen, tainted, events>>

\* The owner writes an offset: history notes whether upgrades were off by then.
Taint == tainted' = (tainted \/ ~stored.on)

NextSeries == (Row.series + SeriesStep) % OffsetModulus

AdvanceSeries ==
  /\ pc = "fetched" /\ pool # {}
  /\ \/ /\ stored' = [stored EXCEPT !.series = NextSeries]
        /\ Taint /\ UNCHANGED events
     \/ Event /\ UNCHANGED <<stored, tainted>>
  /\ pc' = "scan" /\ left' = pool
  /\ UNCHANGED <<monitored, cool, seen, line, window, pool, scanned, searched, hseen, behind>>

More == left # {} /\ searched < Batch /\ scanned < Budget

\* The second copy of an episode is passed over and not counted.
SkipRepeat ==
  /\ pc = "scan" /\ More
  /\ \E x \in left : IsNext(x) /\ Repeated(x) /\ left' = left \ {x}
  /\ UNCHANGED <<stored, monitored, cool, seen, line, pc, window, pool, scanned, searched,
                 hseen, history, events>>

\* A cooldown is counted as scanned; an episode without one is searched, and
\* cools down unless the dispatch fails.
TakeEpisode ==
  /\ pc = "scan" /\ More
  /\ \E x \in left :
       /\ IsNext(x) /\ ~Repeated(x) /\ left' = left \ {x}
       /\ \/ x[1] \in cool /\ UNCHANGED <<cool, searched, events>>
          \/ x[1] \notin cool /\ cool' = cool \cup {x[1]} /\ searched' = searched + 1
             /\ UNCHANGED events
          \/ x[1] \notin cool /\ Event /\ UNCHANGED <<cool, searched>>
  /\ scanned' = scanned + 1
  /\ UNCHANGED <<stored, monitored, seen, line, pc, window, pool, hseen, history>>

\* Earlier cycles have used up the hour's cap.
CapReached ==
  /\ pc = "scan" /\ More /\ Event
  /\ pc' = "stop"
  /\ UNCHANGED <<stored, monitored, cool, seen, line, window, pool, left, scanned, searched,
                 hseen, history>>

\* Mutant: the whole row goes back as the cycle had read it.
PersistRow ==
  /\ pc = "stop" \/ (pc = "scan" /\ ~More)
  /\ stored' = [Row EXCEPT !.item = NextItem(Row.item, Cardinality(pool), scanned)]
  /\ Taint /\ UNCHANGED events
  /\ Leave
  /\ UNCHANGED <<monitored, cool, hseen>>

\* The item offset moves past what was counted.
PersistItem ==
  /\ pc = "stop" \/ (pc = "scan" /\ ~More)
  /\ \/ /\ stored' = [stored EXCEPT !.item = NextItem(Row.item, Cardinality(pool), scanned)]
        /\ Taint /\ UNCHANGED events
     \/ Event /\ UNCHANGED <<stored, tainted>>
  /\ Leave
  /\ UNCHANGED <<monitored, cool, hseen>>

\* A worker is cancelled, or its cycle ends before or within the upgrade pass.
GiveUp(w) ==
  /\ w \in InLine /\ Event
  /\ \/ w = Owner /\ Leave
     \/ /\ \E i \in 2 .. Len(line) :
             line[i] = w /\ line' = SubSeq(line, 1, i - 1) \o SubSeq(line, i + 1, Len(line))
        /\ seen' = [seen EXCEPT ![w] = NoRow]
        /\ UNCHANGED <<cycleVars, behind>>
  /\ UNCHANGED <<stored, monitored, cool, hseen, tainted>>

\* The process is killed and started again.
Restart ==
  /\ Event
  /\ line' = <<>> /\ Idle
  /\ seen' = [w \in Workers |-> NoRow]
  /\ hseen' = [h \in Handlers |-> "none"]
  /\ behind' = FALSE
  /\ UNCHANGED <<stored, monitored, cool, tainted>>
-----------------------------------------------------------------------------
(***************************************************************************)
(* The settings routes, the *arr's library and the clock.                  *)
(***************************************************************************)
StartSave(h) ==
  /\ hseen[h] = "none" /\ Event
  /\ hseen' = [hseen EXCEPT ![h] = IF stored.on THEN "on" ELSE "off"]
  /\ UNCHANGED <<stored, monitored, cool, seen, line, cycleVars, history>>

\* Mutant: only the item offset is reset.
SavedHalf(was, on) ==
  IF was = "on" /\ ~on THEN [stored EXCEPT !.on = FALSE, !.item = 0]
  ELSE [stored EXCEPT !.on = on]

\* The row after a save that read upgrade_enabled as was and writes on.
Saved(was, on) ==
  IF was = "on" /\ ~on THEN Zero(FALSE) ELSE [stored EXCEPT !.on = on]

FinishSave(h) ==
  /\ hseen[h] # "none"
  /\ \E on \in BOOLEAN :
       /\ stored' = Saved(hseen[h], on)
       /\ behind' = (behind \/ (~on /\ line # <<>>))
       /\ tainted' = (~on /\ (tainted \/ (hseen[h] = "off" /\ stored.on)))
  /\ hseen' = [hseen EXCEPT ![h] = "none"]
  /\ UNCHANGED <<monitored, cool, seen, line, cycleVars, events>>

\* The connection test before the write fails.
FailSave(h) ==
  /\ hseen[h] # "none"
  /\ hseen' = [hseen EXCEPT ![h] = "none"]
  /\ UNCHANGED <<stored, monitored, cool, seen, line, cycleVars, history, events>>

\* reset_all_instance_policy: back to the defaults.
ResetPolicy ==
  /\ Event
  /\ stored' = Zero(FALSE)
  /\ behind' = (line # <<>>)
  /\ tainted' = FALSE
  /\ UNCHANGED <<monitored, cool, seen, line, cycleVars, hseen>>

LibraryChanges ==
  /\ Event
  /\ monitored' \in Libraries \ {monitored}
  /\ UNCHANGED <<stored, cool, seen, line, cycleVars, hseen, history>>

\* Bound: cooldowns (at least seven days) run out when nothing is left to search.
CooldownsEnd ==
  /\ cool # {}
  /\ \A e \in Episodes : SeriesOf[e] \in monitored => e \in cool
  /\ cool' = {}
  /\ UNCHANGED <<stored, monitored, seen, line, cycleVars, hseen, history, events>>
-----------------------------------------------------------------------------
CycleStep ==
  \/ NoUpgrade \/ FetchPool \/ EmptyPool \/ AdvanceSeries
  \/ SkipRepeat \/ TakeEpisode \/ PersistItem

Next ==
  \/ CycleStep \/ CapReached \/ Restart \/ ResetPolicy \/ LibraryChanges \/ CooldownsEnd
  \/ \E w \in Workers : ReadRow(w) \/ GiveUp(w)
  \/ \E h \in Handlers : StartSave(h) \/ FinishSave(h) \/ FailSave(h)

\* Tasks that can run do, and the lock is handed to those who wait for it.
Fairness ==
  /\ WF_vars(CycleStep) /\ WF_vars(CooldownsEnd)
  /\ \A w \in Workers : WF_vars(ReadRow(w))
  /\ \A h \in Handlers : WF_vars(FinishSave(h))

Spec == Init /\ [][Next]_vars /\ Fairness
-----------------------------------------------------------------------------
\* A pass stays within its batch and its scan budget, and takes episodes
\* from the pool of its own window (_run_upgrade_pass's loop condition).
TypeOK ==
  /\ stored \in Rows /\ seen \in [Workers -> Rows]
  /\ monitored \subseteq Series /\ cool \subseteq Episodes
  /\ line \in Seq(Workers)
  /\ pc \in {"begin", "fetched", "scan", "stop"}
  /\ window \subseteq Series
  /\ pool \subseteq Episodes \X {1, 2} /\ left \subseteq pool
  /\ scanned \in 0 .. Budget /\ searched \in 0 .. Batch
  /\ hseen \in [Handlers -> {"on", "off", "none"}]
  /\ behind \in BOOLEAN /\ tainted \in BOOLEAN
  /\ events \in 0 .. MaxEvents

\* Turning upgrades off leaves both offsets at zero for a later re-enable, as
\* long as no cycle or save that had read the older row writes after it
\* (submit_update, reset_all_instance_policy).
ResetSticks == ~stored.on /\ ~tainted => stored.series = 0 /\ stored.item = 0

\* However cycles queue up behind each other with rows of their own, the
\* series offset never steps back nor jumps: a cycle moves it by one step or
\* finds it moved, unless upgrades were turned off while cycles were in line
\* (_run_search_cycle takes the lock after the row is read).
NeverStepsBack ==
  [][CycleStep /\ ~behind =>
       stored'.series \in {stored.series, (stored.series + SeriesStep) % OffsetModulus}]_vars

On(s) == s \in monitored /\ stored.on

\* The whole library cycles through over time: every monitored series is in
\* the window of cycle after cycle (config.py on the series window).
EverySeriesServed ==
  \A s \in Series : []<>(s \in window) \/ []<>~On(s)

\* While the window holds the library, each series once, no upgradable episode
\* starves, although a cycle may count less than the pool: the item offset takes
\* each cycle on from where the last one stopped (search_loop.py:1488-1508,
\* 1652-1662).  Where pools differ from cycle to cycle it may (SmallPoolHidesTail).
EveryEpisodeSearched ==
  \A e \in Episodes : \/ []<>(e \in cool) \/ []<>~On(SeriesOf[e])
                      \/ []<>(Cardinality(monitored) # Window)
=============================================================================
