----------------------------- MODULE SearchCycle -----------------------------
(***************************************************************************)
(* One search cycle of houndarr/engine/search_loop.py: the gates in front  *)
(* of it, the missing and the cutoff pass over pages of the wanted lists   *)
(* (_run_search_pass), the upgrade pass over a rotated pool                *)
(* (_run_upgrade_pass), the search log and cooldown rows they read and     *)
(* write, and the random-order deck.  Cycles of one instance exclude each  *)
(* other (module Supervisor), so there is one at a time here; between its  *)
(* steps time passes, records are released, the *arr's lists and download  *)
(* queue change, and the cycle may be cancelled or killed.                 *)
(*                                                                         *)
(* Clocks are abstracted to what the code asks of them: whether a cooldown *)
(* is active, how many searched rows are younger than an hour, whether a   *)
(* row is younger than a window.                                           *)
(***************************************************************************)
EXTENDS Integers, Sequences, FiniteSets

CONSTANTS
  Items,        \* wanted records: episodes, movies, albums, books
  Groups,       \* seasons, artists, authors
  NoGroup,      \* searched as an item
  GroupOf,      \* the parent a record drives, or NoGroup
  Lists,        \* the wanted list or upgrade pool of each kind, at first
  Filtered,     \* records the tag filter rejects
  Batch, PageSize, Budget, Cap,   \* per kind; Batch 0: pass off, Cap 0: no cap
  Cooled,       \* the kinds whose cooldown_days > 0
  ListPages,    \* _MAX_LIST_PAGES_PER_PASS
  Random,       \* search_order = random
  HotRetry,     \* missing_hot_retry_window_hrs > 0
  Unaired,      \* records that may be unreleased at first
  Downloads,    \* records that may be in the *arr's download queue
  Leavers,      \* records that may leave the wanted lists
  Triggers,     \* who starts cycles: "scheduled", "run_now"
  Gates,        \* what the gates before the passes may answer
  MayFail,      \* HTTP calls and offset writes may fail
  MayDie,       \* a cycle may be cancelled or killed between two steps
  ShortCooldown \* a cooldown may end before every item has had its turn

Kinds == {"missing", "cutoff", "upgrade"}
Ids   == Items \cup Groups      \* what a cooldown or a log row is about
Wanted == {"missing", "cutoff"}   \* the kinds _run_search_pass serves

ASSUME ItemsOK ==
  /\ Items # {} /\ Items \cap Groups = {} /\ NoGroup \notin Groups
  /\ GroupOf \in [Items -> Groups \cup {NoGroup}]
  /\ Lists \in [Kinds -> Seq(Items)]
  /\ Filtered \subseteq Items /\ Downloads \subseteq Items /\ Unaired \subseteq Items /\ Leavers \subseteq Items

ASSUME SettingsOK ==
  /\ Batch \in [Kinds -> Nat] /\ Budget \in [Kinds -> Nat] /\ Cap \in [Kinds -> Nat]
  /\ PageSize \in [Wanted -> Nat \ {0}]
  /\ \A k \in Wanted : PageSize[k] <= Budget[k]   \* theorem PageFitsBudget
  /\ Cooled \subseteq Kinds /\ "upgrade" \in Cooled
  /\ ListPages \in Nat \ {0}
  /\ Random \in BOOLEAN /\ HotRetry \in BOOLEAN /\ MayFail \in BOOLEAN
  /\ MayDie \in BOOLEAN /\ ShortCooldown \in BOOLEAN
  /\ Triggers \subseteq {"scheduled", "run_now"}
  /\ Gates \subseteq {"open", "window", "backlog"}

VARIABLES
  wanted,    \* the *arr's lists, in order
  gate,      \* release state of each record: "unreleased", "grace", "clear"
  queue,     \* records the *arr is downloading
  cool,      \* cooldowns: the kinds for which the row of an id is still active
  latest,    \* fetch_latest_missing_reason of each id
  graced,    \* records whose grace row since the last dispatch is in the window
  hot,       \* fetch_latest_missing_grace_skip is inside the hot retry window
  rested,    \* the hot retry interval has passed since the cooldown row
  recent,    \* searched rows younger than an hour, per kind
  offset,    \* missing_page_offset, cutoff_page_offset, upgrade_item_offset
  deck,      \* _random_decks; seen is history: the pages fetched this round
  pc, trigger, pass, cur, \* the cycle: where, why, the pass, the record in hand
  known,     \* queued_ids once fetched this cycle
  sent,      \* history: commands accepted in this cycle, per id
  owed,      \* history: <<record, reason>> of the gate's missing rows since the last
             \* attempt to search the id they are about
  gateRows,  \* history: ids with a "not yet released" row of this pass
  queueRows  \* history: ids with a download-queue row of this pass

arrVars   == <<wanted, gate, queue>>
logVars   == <<latest, graced, hot>>
dbVars    == <<cool, rested, recent, offset>>
cycleVars == <<pc, trigger, pass, cur, known>>
history   == <<sent, owed, gateRows, queueRows>>
vars      == <<arrVars, logVars, dbVars, deck, cycleVars, history>>
-----------------------------------------------------------------------------
\* The page sizes and scan budgets _run_instance_search_impl derives from a
\* batch size.  They justify the assumption on PageSize and Budget.
Clamp(value, minimum, maximum) ==
  IF value < minimum THEN minimum ELSE IF value > maximum THEN maximum ELSE value

MissingPageSize(b)   == Clamp(b * 4, 10, 50)
CutoffPageSize(b)    == Clamp(b * 4, 5, 25)
MissingScanBudget(b) == Clamp(b * 12, 24, 120)
CutoffScanBudget(b)  == Clamp(b * 12, 12, 60)
UpgradeScanBudget(b) == Clamp(b * 8, 8, 40)

Lesser(a, b)  == IF a < b THEN a ELSE b
Ceil(a, b)    == (a + b - 1) \div b
Greater(a, b) == IF a > b THEN a ELSE b

-----------------------------------------------------------------------------
(***************************************************************************)
(* The candidate made of record i by the adapter of the pass's kind.       *)
(***************************************************************************)
Kind == pass.kind

\* Cutoff candidates are always items; the other kinds may search the parent.
InGroup(i) == Kind # "cutoff" /\ GroupOf[i] # NoGroup
Id(i)      == IF InGroup(i) THEN GroupOf[i] ELSE i

\* The release gate: grace does not hold a manual run back, and upgrade
\* candidates have no unreleased_reason.
Blocks(i) ==
  /\ Kind \in Wanted
  /\ gate[i] # "clear"
  /\ ~(gate[i] = "grace" /\ trigger = "run_now")

Repeated(i) == Id(i) \in (IF InGroup(i) THEN pass.groups ELSE pass.items)

CapReached == Cap[Kind] > 0 /\ pass.hour >= Cap[Kind]

Cooling(i) == Kind \in cool[Id(i)]

\* Release timing lets a missing item be searched again while it cools down.
Retries(i) ==
  /\ Kind = "missing"
  /\ IF hot[Id(i)] THEN trigger = "run_now" \/ rested[Id(i)]
                   ELSE latest[Id(i)] \in {"unreleased", "grace"}

\* Mutant: the hold applies to the wrong trigger.
HeldBackManual(i) == InGroup(i) /\ trigger = "run_now" /\ graced[Id(i)] # {}

\* _is_group_grace_unresolved: a record of the parent may still be in grace.
HeldBack(i) == InGroup(i) /\ trigger # "run_now" /\ graced[Id(i)] # {}

Eligible(i) == ~Cooling(i) \/ (Retries(i) /\ ~HeldBack(i))

-----------------------------------------------------------------------------
NoPass ==
  [kind |-> "missing", start |-> 1, page |-> 1, wrapped |-> FALSE, max |-> 0,
   visits |-> 0, list |-> <<>>, size |-> 0, left |-> {}, searched |-> 0,
   scanned |-> 0, hour |-> 0, items |-> {}, groups |-> {}, cleared |-> {},
   heldRelease |-> {}, heldQueue |-> {}]

DeckType == [max : Nat, left : SUBSET (Nat \ {0}), seen : SUBSET (Nat \ {0})]

PassType ==
  [kind : Kinds, start : Nat, page : Nat \ {0}, wrapped : BOOLEAN, max : Nat,
   visits : Nat, list : Seq(Items), size : Nat, left : SUBSET Nat,
   searched : Nat, scanned : Nat, hour : Nat, items : SUBSET Ids,
   groups : SUBSET Ids, cleared : SUBSET Ids,
   heldRelease : SUBSET Items, heldQueue : SUBSET Ids]

PCs == {"idle", "gates", "begin", "pages", "items", "queue", "sent", "record",
        "log", "flush", "persist"}

TypeOK ==
  /\ wanted \in [Kinds -> Seq(Items)]
  /\ gate \in [Items -> {"unreleased", "grace", "clear"}]
  /\ queue \subseteq Items
  /\ cool \in [Ids -> SUBSET Kinds]
  /\ latest \in [Ids -> {"none", "unreleased", "grace"}]
  /\ graced \in [Ids -> SUBSET Items]
  /\ hot \in [Ids -> BOOLEAN] /\ rested \in [Ids -> BOOLEAN]
  /\ recent \in [Kinds -> Nat] /\ offset \in [Kinds -> Nat]
  /\ deck \in [Wanted -> DeckType]
  /\ pc \in PCs /\ trigger \in {"scheduled", "run_now"}
  /\ pass \in PassType
  /\ cur \in Items
  /\ known \in {{}} \cup {{S} : S \in SUBSET Items}
  /\ sent \in [Ids -> Nat] /\ owed \subseteq Items \X {"unreleased", "grace"}
  /\ gateRows \subseteq Ids /\ queueRows \subseteq Ids

Init ==
  /\ wanted = Lists
  /\ gate \in [Items -> {"unreleased", "clear"}]
  /\ \A i \in Items \ Unaired : gate[i] = "clear"
  /\ queue = {}
  /\ cool = [d \in Ids |-> {}]
  /\ latest = [d \in Ids |-> "none"] /\ graced = [d \in Ids |-> {}]
  /\ hot = [d \in Ids |-> FALSE] /\ rested = [d \in Ids |-> FALSE]
  /\ recent = [x \in Kinds |-> 0]
  /\ offset = [x \in Kinds |-> IF x = "upgrade" THEN 0 ELSE 1]
  /\ deck = [x \in Wanted |-> [max |-> 0, left |-> {}, seen |-> {}]]
  /\ pc = "idle" /\ trigger = "scheduled" /\ pass = NoPass
  /\ cur = (CHOOSE i \in Items : TRUE) /\ known = {}
  /\ sent = [d \in Ids |-> 0] /\ owed = {} /\ gateRows = {} /\ queueRows = {}

-----------------------------------------------------------------------------
(***************************************************************************)
(* run_instance_search: gates, then the passes in order.                   *)
(***************************************************************************)
StartCycle(t) ==
  /\ pc = "idle"
  /\ pc' = "gates" /\ trigger' = t /\ known' = {}
  /\ sent' = [d \in Ids |-> 0]
  /\ UNCHANGED <<arrVars, logVars, dbVars, deck, pass, cur, owed, gateRows, queueRows>>

\* The time window binds scheduled cycles only, the queue limit all of them; a
\* closed gate writes one info row and ends the cycle.
AskGates(answer) ==
  /\ pc = "gates"
  /\ answer = "window" => trigger = "scheduled"
  /\ pc' = IF answer = "open" THEN "begin" ELSE "idle"
  /\ pass' = NoPass
  /\ UNCHANGED <<arrVars, logVars, dbVars, deck, trigger, cur, known, history>>

\* The cycle goes on with the pass after this one, or ends.
NextPass ==
  /\ pc' = IF Kind = "upgrade" THEN "idle" ELSE "begin"
  /\ pass' = [NoPass EXCEPT !.kind = IF Kind = "missing" THEN "cutoff" ELSE
                                     IF Kind = "cutoff" THEN "upgrade" ELSE "missing"]
  /\ gateRows' = {} /\ queueRows' = {}

SkipPass ==
  /\ pc = "begin" /\ Batch[Kind] = 0
  /\ NextPass
  /\ UNCHANGED <<arrVars, logVars, dbVars, deck, trigger, cur, known, sent, owed>>

-----------------------------------------------------------------------------
(***************************************************************************)
(* Pages of a wanted list, in order or drawn from the deck.                *)
(***************************************************************************)
PageOf(p) ==
  SubSeq(wanted[Kind], (p - 1) * PageSize[Kind] + 1, Lesser(p * PageSize[Kind], Len(wanted[Kind])))

\* _draw_next_random_page: the deck is rebuilt when it is empty or was built
\* for another number of pages.  Popping a shuffled list takes any page of it.
Deck(max) == IF deck[Kind].max = max /\ deck[Kind].left # {} THEN deck[Kind]
             ELSE [max |-> max, left |-> 1 .. max, seen |-> {}]

\* Mutant: the page drawn stays in the deck.
PeekPage(max, p) ==
  /\ p \in Deck(max).left
  /\ deck' = [deck EXCEPT ![Kind] = Deck(max)]

DrawPage(max, p) ==
  /\ p \in Deck(max).left
  /\ deck' = [deck EXCEPT ![Kind] = [Deck(max) EXCEPT !.left = @ \ {p}]]

\* The pass reads its count of recent searches once.  In random order it asks
\* for the list's total and draws its first page; if that fails, or the list is
\* empty, it falls back to the stored page.
Opened(start) ==
  [NoPass EXCEPT !.kind = Kind, !.start = start, !.page = Greater(1, start), !.hour = recent[Kind]]

BeginInOrder ==
  /\ pc = "begin" /\ Kind \in Wanted /\ Batch[Kind] > 0
  /\ ~Random \/ MayFail \/ wanted[Kind] = <<>>
  /\ pass' = Opened(offset[Kind])
  /\ pc' = "pages"
  /\ UNCHANGED <<arrVars, logVars, dbVars, deck, trigger, cur, known, history>>

BeginAtRandom ==
  /\ pc = "begin" /\ Kind \in Wanted /\ Batch[Kind] > 0
  /\ Random /\ wanted[Kind] # <<>>
  /\ LET max == Ceil(Len(wanted[Kind]), PageSize[Kind]) IN
       \E p \in Deck(max).left :
         /\ DrawPage(max, p)
         /\ pass' = [Opened(offset[Kind]) EXCEPT !.page = p, !.max = max]
  /\ pc' = "pages"
  /\ UNCHANGED <<arrVars, logVars, dbVars, trigger, cur, known, history>>

Full == pass.searched >= Batch[Kind] \/ pass.scanned >= Budget[Kind]

MorePages == pc = "pages" /\ pass.visits < ListPages /\ ~Full

PagesDone ==
  /\ pc = "pages" /\ ~MorePages
  /\ pc' = "flush"
  /\ UNCHANGED <<arrVars, logVars, dbVars, deck, trigger, pass, cur, known, history>>

\* A partial page is padded to full size when the deck has other pages.
FetchPage ==
  /\ MorePages /\ PageOf(pass.page) # <<>>
  /\ LET list == PageOf(pass.page)
         size == IF pass.max > 1 THEN PageSize[Kind] ELSE Len(list)
     IN  pass' = [pass EXCEPT !.list = list, !.size = size, !.left = 1 .. size,
                              !.visits = @ + 1]
  /\ pc' = "items"
  /\ deck' = IF pass.max = 0 THEN deck
             ELSE [deck EXCEPT ![Kind].seen = @ \cup {pass.page}]
  /\ UNCHANGED <<arrVars, logVars, dbVars, trigger, cur, known, history>>

\* An empty page: the deck is stale, or the walk has passed the end of the list
\* and goes back to its first page, once.
FetchNothing ==
  /\ MorePages /\ PageOf(pass.page) = <<>>
  /\ \/ /\ pass.max > 0
        /\ \E p \in Deck(pass.max).left :
             /\ DrawPage(pass.max, p)
             /\ pass' = [pass EXCEPT !.page = p, !.visits = @ + 1]
        /\ pc' = pc
     \/ /\ pass.max = 0 /\ pass.start > 1 /\ ~pass.wrapped
        /\ pass' = [pass EXCEPT !.page = 1, !.wrapped = TRUE, !.visits = @ + 1]
        /\ UNCHANGED <<pc, deck>>
     \/ /\ pass.max = 0 /\ (pass.start <= 1 \/ pass.wrapped)
        /\ pc' = "flush"
        /\ UNCHANGED <<pass, deck>>
  /\ UNCHANGED <<arrVars, logVars, dbVars, trigger, cur, known, history>>

-----------------------------------------------------------------------------
(***************************************************************************)
(* The candidates of a page or pool.                                       *)
(***************************************************************************)
\* On a padded page a visit takes at most a batch of slots.
Quota == pass.size > Len(pass.list) /\ pass.size - Cardinality(pass.left) >= Batch[Kind]

\* A shuffled page offers any slot left, an unshuffled one its first.
Takes(n) ==
  /\ pc = "items" /\ n \in pass.left /\ ~Full /\ ~Quota
  /\ Random \/ \A m \in pass.left : n <= m

Without(n) == [pass EXCEPT !.left = @ \ {n}]

TakePad(n) ==
  /\ Takes(n) /\ n > Len(pass.list)
  /\ pass' = [Without(n) EXCEPT !.scanned = @ + 1]
  /\ UNCHANGED <<arrVars, logVars, dbVars, deck, pc, trigger, cur, known, history>>

\* Slot n holds record i.
Holds(n, i) == Takes(n) /\ n <= Len(pass.list) /\ i = pass.list[n]

\* Mutant: a parent is not remembered.
MarkedItem(n, i) ==
  [Without(n) EXCEPT !.items = @ \cup {Id(i)},
     !.cleared = IF InGroup(i) THEN @ \cup {Id(i)} ELSE @]

\* Marked as seen once it is past the release gate.
Marked(n, i) ==
  [Without(n) EXCEPT !.items = @ \cup {Id(i)},
     !.groups  = IF InGroup(i) THEN @ \cup {Id(i)} ELSE @,
     !.cleared = IF InGroup(i) THEN @ \cup {Id(i)} ELSE @]

\* An item is deduplicated before the release gate, a parent after it, so that
\* a blocked record does not hide a released sibling.
Duplicate(n, i) ==
  /\ Holds(n, i) /\ Repeated(i) /\ ~(InGroup(i) /\ Blocks(i))
  /\ pass' = Without(n)
  /\ UNCHANGED <<arrVars, logVars, dbVars, deck, pc, trigger, cur, known, history>>

\* The row of a record the gate holds back.  Only rows of the missing pass arm a
\* retry; a grace row opens the hot retry window.
GateRow(i, reason) ==
  /\ IF Kind # "missing" THEN UNCHANGED <<logVars, owed>>
     ELSE /\ latest' = [latest EXCEPT ![Id(i)] = reason]
          /\ owed' = owed \cup {<<i, reason>>}
          /\ graced' = [graced EXCEPT ![Id(i)] = IF reason = "grace" THEN @ \cup {i} ELSE @]
          /\ hot' = [hot EXCEPT ![Id(i)] = @ \/ (HotRetry /\ reason = "grace")]
  /\ gateRows' = IF reason = "grace" THEN gateRows ELSE gateRows \cup {Id(i)}

\* Mutant: a parent's "not yet released" row does not wait.
BlockedAtOnce(n, i) ==
  /\ Holds(n, i) /\ Blocks(i) /\ (InGroup(i) \/ ~Repeated(i))
  /\ pass' = [Without(n) EXCEPT !.items = IF InGroup(i) THEN @ ELSE @ \cup {Id(i)}]
  /\ GateRow(i, gate[i])
  /\ UNCHANGED <<arrVars, dbVars, deck, pc, trigger, cur, known, sent, queueRows>>

\* _ReleaseGateSkips.skip: a parent's "not yet released" row waits for the end of
\* the pass, every other row of the gate is written at once.
Blocked(n, i) ==
  /\ Holds(n, i) /\ Blocks(i) /\ (InGroup(i) \/ ~Repeated(i))
  /\ IF InGroup(i) /\ gate[i] = "unreleased"
     THEN /\ pass' = [Without(n) EXCEPT !.heldRelease = @ \cup {i}]
          /\ UNCHANGED <<logVars, owed, gateRows>>
     ELSE /\ pass' = [Without(n) EXCEPT !.items = IF InGroup(i) THEN @ ELSE @ \cup {Id(i)}]
          /\ GateRow(i, gate[i])
  /\ UNCHANGED <<arrVars, dbVars, deck, pc, trigger, cur, known, sent, queueRows>>

\* Past the gate and not seen before in this pass.
Fresh(n, i) == Holds(n, i) /\ ~Blocks(i) /\ ~Repeated(i)

\* The tag filter, an active cooldown, a hot retry interval or a grace hold: at
\* most a throttled row is written.  Only the upgrade pass counts a cooldown.
PassOver(n, i) ==
  /\ Fresh(n, i)
  /\ \/ i \in Filtered /\ pass' = Marked(n, i)
     \/ /\ i \notin Filtered /\ ~CapReached /\ ~Eligible(i)
        /\ pass' = [Marked(n, i) EXCEPT !.scanned = IF Kind = "upgrade" THEN @ + 1 ELSE @]
  /\ UNCHANGED <<arrVars, logVars, dbVars, deck, pc, trigger, cur, known, history>>

\* The hourly cap ends the pass where it is.
StopAtCap(n, i) ==
  /\ Fresh(n, i) /\ i \notin Filtered /\ CapReached
  /\ pass' = Marked(n, i)
  /\ pc' = "flush"
  /\ UNCHANGED <<arrVars, logVars, dbVars, deck, trigger, cur, known, history>>

Choose(n, i) ==
  /\ Fresh(n, i) /\ i \notin Filtered /\ ~CapReached /\ Eligible(i)
  /\ pass' = Marked(n, i)
  /\ cur' = i /\ pc' = "queue"
  /\ UNCHANGED <<arrVars, logVars, dbVars, deck, trigger, known, history>>

\* The page is left when it is consumed, when the pass has had enough (it will be
\* read again), or when the quota of a padded page is used.  The next page is
\* chosen at once, needed or not.
PageEnd ==
  /\ pc = "items" /\ (pass.left = {} \/ Full \/ Quota)
  /\ IF Kind = "upgrade" THEN pc' = "flush" /\ UNCHANGED <<pass, deck>>
     ELSE /\ pc' = "pages"
          /\ \/ pass.left # {} /\ Full /\ UNCHANGED <<pass, deck>>
             \/ /\ pass.left = {} \/ ~Full
                /\ \/ pass.max = 0 /\ pass' = [pass EXCEPT !.page = @ + 1] /\ UNCHANGED deck
                   \/ /\ pass.max > 0
                      /\ \E p \in Deck(pass.max).left :
                           DrawPage(pass.max, p) /\ pass' = [pass EXCEPT !.page = p]
  /\ UNCHANGED <<arrVars, logVars, dbVars, trigger, cur, known, history>>

-----------------------------------------------------------------------------
(***************************************************************************)
(* The candidate in hand: download queue, dispatch, and its record.        *)
(***************************************************************************)
\* _download_queue_lookup: once per cycle, and a failed fetch turns it off.
FetchQueue ==
  /\ pc = "queue" /\ known = {}
  /\ known' = {queue} \/ (MayFail /\ known' = {{}})
  /\ UNCHANGED <<arrVars, logVars, dbVars, deck, pc, trigger, pass, cur, history>>

\* Mutant: a parent's queue row does not wait for its siblings.
AlreadyQueuedAtOnce ==
  /\ pc = "queue" /\ known # {} /\ cur \in UNION known
  /\ pc' = "items"
  /\ pass' = [pass EXCEPT !.items = @ \ {Id(cur)}, !.groups = @ \ {Id(cur)}]
  /\ queueRows' = queueRows \cup {Id(cur)}
  /\ UNCHANGED <<arrVars, logVars, dbVars, deck, trigger, cur, known, sent, owed, gateRows>>

\* _QueuedSkips.skip: a parent gives its slot back to a sibling, and its row waits.
AlreadyQueued ==
  /\ pc = "queue" /\ known # {} /\ cur \in UNION known
  /\ pc' = "items"
  /\ IF InGroup(cur)
     THEN /\ pass' = [pass EXCEPT !.items = @ \ {Id(cur)}, !.groups = @ \ {Id(cur)},
                                  !.heldQueue = @ \cup {Id(cur)}]
          /\ UNCHANGED queueRows
     ELSE /\ queueRows' = queueRows \cup {Id(cur)} /\ UNCHANGED pass
  /\ UNCHANGED <<arrVars, logVars, dbVars, deck, trigger, cur, known, sent, owed, gateRows>>

Send ==
  /\ pc = "queue" /\ known # {} /\ cur \notin UNION known
  /\ pass' = [pass EXCEPT !.scanned = @ + 1]
  /\ pc' = "sent"
  /\ UNCHANGED <<arrVars, logVars, dbVars, deck, trigger, cur, known, history>>

\* Mutant: a dispatch row carries a reason.
DispatchRowReason ==
  IF Kind = "missing"
  THEN /\ latest' = [latest EXCEPT ![Id(cur)] = "searched"]
       /\ graced' = [graced EXCEPT ![Id(cur)] = {}]
       /\ UNCHANGED hot
  ELSE UNCHANGED logVars

\* Mutant: dispatch rows do not outrank the gate's.
DispatchRowIgnored ==
  IF Kind = "missing"
  THEN /\ graced' = [graced EXCEPT ![Id(cur)] = {}]
       /\ UNCHANGED <<latest, hot>>
  ELSE UNCHANGED logVars

\* A searched or error row of the missing pass outranks the gate rows before it.
DispatchRow ==
  IF Kind = "missing"
  THEN /\ latest' = [latest EXCEPT ![Id(cur)] = "none"]
       /\ graced' = [graced EXCEPT ![Id(cur)] = {}]
       /\ UNCHANGED hot
  ELSE UNCHANGED logVars

Unowed == {o \in owed : Kind # "missing" \/ Id(o[1]) # Id(cur)}

Rejected ==
  /\ pc = "sent" /\ MayFail
  /\ DispatchRow
  /\ owed' = Unowed
  /\ pc' = "items"
  /\ UNCHANGED <<arrVars, dbVars, deck, trigger, pass, cur, known, sent, gateRows, queueRows>>

Accepted ==
  /\ pc = "sent"
  /\ sent' = [sent EXCEPT ![Id(cur)] = @ + 1]
  /\ owed' = Unowed
  /\ pc' = "record"
  /\ UNCHANGED <<arrVars, logVars, dbVars, deck, trigger, pass, cur, known, gateRows, queueRows>>

\* Mutant: a cooldown binds its own pass only.
RecordOwnKind ==
  /\ pc = "record"
  /\ cool' = [cool EXCEPT ![Id(cur)] = @ \cup {Kind}]
  /\ rested' = [rested EXCEPT ![Id(cur)] = FALSE]
  /\ pc' = "log"
  /\ UNCHANGED <<arrVars, logVars, recent, offset, deck, trigger, pass, cur, known, history>>

\* The cooldown is recorded first, the searched row after it.
Record ==
  /\ pc = "record"
  /\ cool' = [cool EXCEPT ![Id(cur)] = Cooled]
  /\ rested' = [rested EXCEPT ![Id(cur)] = FALSE]
  /\ pc' = "log"
  /\ UNCHANGED <<arrVars, logVars, recent, offset, deck, trigger, pass, cur, known, history>>

\* Mutant: the pass goes by the count it began with.
LogUncounted ==
  /\ pc = "log"
  /\ DispatchRow
  /\ recent' = [recent EXCEPT ![Kind] = @ + 1]
  /\ pass' = [pass EXCEPT !.searched = @ + 1]
  /\ pc' = "items"
  /\ UNCHANGED <<arrVars, cool, rested, offset, deck, trigger, cur, known, history>>

Log ==
  /\ pc = "log"
  /\ DispatchRow
  /\ recent' = [recent EXCEPT ![Kind] = @ + 1]
  /\ pass' = [pass EXCEPT !.searched = @ + 1, !.hour = @ + 1]
  /\ pc' = "items"
  /\ UNCHANGED <<arrVars, cool, rested, offset, deck, trigger, cur, known, history>>

-----------------------------------------------------------------------------
\* The deferred rows: one for a parent whose every candidate was queued, one for a
\* parent no record of which got past the release gate.
Flush ==
  /\ pc = "flush"
  /\ LET late == {i \in pass.heldRelease : Id(i) \notin pass.cleared} IN
       /\ latest' = [d \in Ids |-> IF \E i \in late : d = Id(i) THEN "unreleased" ELSE latest[d]]
       /\ owed' = owed \cup (late \X {"unreleased"})
       /\ gateRows' = gateRows \cup {Id(i) : i \in late}
  /\ queueRows' = queueRows \cup (pass.heldQueue \ pass.groups)
  /\ pc' = "persist"
  /\ UNCHANGED <<arrVars, graced, hot, dbVars, deck, trigger, pass, cur, known, sent>>

\* In order, the pass stores where the next cycle goes on; a failure is logged.
NextOffset == IF Kind = "upgrade" THEN (pass.start + pass.scanned) % Len(pass.list)
              ELSE pass.page

\* Mutant: every cycle starts on the page the last one started on.
PersistStart ==
  /\ pc = "persist"
  /\ NextPass
  /\ UNCHANGED <<arrVars, logVars, dbVars, deck, trigger, cur, known, sent, owed>>

Persist ==
  /\ pc = "persist"
  /\ \/ ~Random /\ offset' = [offset EXCEPT ![Kind] = NextOffset]
     \/ (Random \/ MayFail) /\ UNCHANGED offset
  /\ NextPass
  /\ UNCHANGED <<arrVars, logVars, cool, rested, recent, deck, trigger, cur, known, sent, owed>>

\* The upgrade pool is fetched whole and rotated by the stored offset; a failed
\* fetch counts as an empty pool.
BeginUpgrade ==
  /\ pc = "begin" /\ Kind = "upgrade" /\ Batch[Kind] > 0
  /\ LET pool == wanted[Kind]
         at   == IF Random THEN 0 ELSE offset[Kind] % Len(pool)
     IN \/ /\ pool = <<>> \/ MayFail
           /\ NextPass
           /\ UNCHANGED <<sent, owed>>
        \/ /\ pool # <<>>
           /\ pass' = [NoPass EXCEPT !.kind = Kind, !.start = at, !.hour = recent[Kind],
                         !.list = SubSeq(pool, at + 1, Len(pool)) \o SubSeq(pool, 1, at),
                         !.size = Len(pool), !.left = 1 .. Len(pool)]
           /\ pc' = "items"
           /\ UNCHANGED history
  /\ UNCHANGED <<arrVars, logVars, dbVars, deck, trigger, cur, known>>

\* A cancellation, a kill or a failed list fetch ends the cycle where it stands;
\* a kill loses the decks too.
CycleDies ==
  /\ MayDie /\ pc # "idle"
  /\ pc' = "idle" /\ pass' = NoPass /\ gateRows' = {} /\ queueRows' = {}
  /\ \/ UNCHANGED deck
     \/ deck' = [x \in Wanted |-> [max |-> 0, left |-> {}, seen |-> {}]]
  /\ UNCHANGED <<arrVars, logVars, dbVars, trigger, cur, known, sent, owed>>

-----------------------------------------------------------------------------
(***************************************************************************)
(* Time and the *arr.                                                      *)
(***************************************************************************)
Unmoved == UNCHANGED <<deck, cycleVars, history>>

Released(i) ==
  /\ \E g \in {"grace", "clear"} : gate[i] \notin {g, "clear"} /\ gate' = [gate EXCEPT ![i] = g]
  /\ UNCHANGED <<wanted, queue, logVars, dbVars>> /\ Unmoved

\* A grace row proves its record released: a whole grace window after the newest
\* such row every record that wrote one is out of grace.
GraceRowsAge(d) ==
  /\ graced[d] # {} /\ \A i \in graced[d] : gate[i] = "clear"
  /\ graced' = [graced EXCEPT ![d] = {}]
  /\ UNCHANGED <<arrVars, latest, hot, dbVars>> /\ Unmoved

HotWindowCloses(d) ==
  /\ hot[d] /\ hot' = [hot EXCEPT ![d] = FALSE]
  /\ UNCHANGED <<arrVars, latest, graced, dbVars>> /\ Unmoved

Rests(d) ==
  /\ HotRetry /\ ~rested[d] /\ cool[d] # {} /\ rested' = [rested EXCEPT ![d] = TRUE]
  /\ UNCHANGED <<arrVars, logVars, cool, recent, offset>> /\ Unmoved

\* A cooldown ends for the kind whose cooldown_days have passed; unless it is
\* short, not before every record of the list has had its turn.  A cycle does not
\* outlast a cooldown it has started itself.  Only the kinds whose list holds the
\* id ask.
CooldownEnds(x, d) ==
  /\ ShortCooldown /\ x \in cool[d] /\ (pc = "idle" \/ sent[d] = 0)
  /\ \E n \in DOMAIN wanted[x] : d \in {wanted[x][n], GroupOf[wanted[x][n]]}
  /\ cool' = [cool EXCEPT ![d] = @ \ {x}]
  /\ UNCHANGED <<arrVars, logVars, rested, recent, offset>> /\ Unmoved

\* A record has had its turn: it or its parent cools down, or the filter rejects it.
HadTurn(x, i) == i \in Filtered \/ \E d \in Ids \cap {i, GroupOf[i]} : x \in cool[d]

RoundEnds(x) ==
  /\ ~ShortCooldown
  /\ wanted[x] # <<>> /\ \A n \in DOMAIN wanted[x] : HadTurn(x, wanted[x][n])
  /\ cool' = [d \in Ids |-> IF pc # "idle" /\ sent[d] > 0 THEN cool[d] ELSE cool[d] \ {x}]
  /\ UNCHANGED <<arrVars, logVars, rested, recent, offset>> /\ Unmoved

HourPasses(x) ==
  /\ recent[x] > 0 /\ recent' = [recent EXCEPT ![x] = @ - 1]
  /\ UNCHANGED <<arrVars, logVars, cool, rested, offset>> /\ Unmoved

QueueMoves(i) ==
  /\ queue' = IF i \in queue THEN queue \ {i} ELSE queue \cup {i}
  /\ UNCHANGED <<wanted, gate, logVars, dbVars>> /\ Unmoved

Leaves(x, n) ==
  /\ wanted[x][n] \in Leavers
  /\ wanted' = [wanted EXCEPT ![x] = SubSeq(@, 1, n - 1) \o SubSeq(@, n + 1, Len(@))]
  /\ UNCHANGED <<gate, queue, logVars, dbVars>> /\ Unmoved

-----------------------------------------------------------------------------
Candidate(n, i) ==
  \/ Duplicate(n, i) \/ Blocked(n, i) \/ PassOver(n, i) \/ StopAtCap(n, i) \/ Choose(n, i)

PassStep ==
  \/ SkipPass \/ BeginInOrder \/ BeginAtRandom \/ BeginUpgrade
  \/ PagesDone \/ FetchPage \/ FetchNothing \/ PageEnd
  \/ \E n \in pass.left : TakePad(n) \/ \E i \in Items : Candidate(n, i)
  \/ FetchQueue \/ AlreadyQueued \/ Send \/ Rejected \/ Accepted \/ Record \/ Log
  \/ Flush \/ Persist

CycleStep ==
  \/ \E t \in Triggers : StartCycle(t)
  \/ \E answer \in Gates : AskGates(answer)
  \/ PassStep

Environment ==
  \/ \E i \in Items : Released(i)
  \/ \E i \in Downloads : QueueMoves(i)
  \/ \E d \in Ids : GraceRowsAge(d) \/ HotWindowCloses(d) \/ Rests(d)
  \/ \E x \in Kinds : HourPasses(x) \/ RoundEnds(x) \/ \E d \in Ids : CooldownEnds(x, d)
  \/ \E x \in Kinds : \E n \in DOMAIN wanted[x] : Leaves(x, n)

Next == CycleStep \/ CycleDies \/ Environment

Spec == Init /\ [][Next]_vars

\* Cycles recur and every await returns; records are released, an hour passes and
\* cooldowns end.
Fairness ==
  /\ WF_vars(CycleStep)
  /\ \A i \in Items : WF_vars(Released(i))
  /\ \A x \in Kinds : WF_vars(HourPasses(x)) /\ WF_vars(RoundEnds(x))

FairSpec == Spec /\ Fairness

-----------------------------------------------------------------------------
(***************************************************************************)
(* Properties                                                              *)
(***************************************************************************)
\* The hourly cap: the searched rows of the last hour never exceed it, although a
\* pass reads their number once and dispatches many times
\* (search_loop.py:985, 1167-1185).
CapHolds == \A x \in Kinds : Cap[x] > 0 => recent[x] <= Cap[x]

\* A parent, or an item, is searched at most once in a cycle, whatever its records
\* go through: slots handed back by the queue check, duplicates over pages, a
\* retry, a later pass (search_loop.py:1105-1136, 377-400).
OncePerCycle == \A d \in Ids : sent[d] <= 1

Owed(d) == {o \in owed : Id(o[1]) = d}

\* A scheduled search of something that cools down was earned by a release-timing
\* row nobody has acted on since, or by the hot retry interval: "Houndarr allows
\* one retry" (how-scheduling-works.md:91).
ScheduledRetry(i) ==
  pc = "items" /\ pc' = "queue" /\ cur' = i /\ Cooling(i) /\ trigger = "scheduled"

RetryEarned ==
  [][\A i \in Items : ScheduledRetry(i) =>
       Owed(Id(i)) # {} \/ (hot[Id(i)] /\ rested[Id(i)])]_vars

\* A scheduled retry of a parent waits for the records whose grace rows armed it
\* (search_loop.py:663-706).
RetryAfterGrace ==
  [][\A i \in Items : ScheduledRetry(i) /\ InGroup(i) =>
       \A o \in Owed(Id(i)) : o[2] = "grace" => gate[o[1]] = "clear"]_vars

\* A "not yet released" row of a parent means that no record of it got past the
\* gate in this pass, in whatever order they came (search_loop.py:423-487).
GateRowHonest == gateRows \cap pass.cleared = {}

\* A parent with a download-queue row was not searched in the same pass
\* (search_loop.py:359-420).
QueueRowHonest == \A d \in queueRows : pc = "persist" => sent[d] = 0

\* Between two shuffles no page of the wanted list is read twice
\* (search_loop.py:98-99).
NoPageTwice ==
  [][\A x \in Wanted :
       pc = "pages" /\ pc' = "items" /\ pass.kind = x /\ pass.max > 0 =>
         pass.page \notin deck[x].seen]_vars

\* In order, every record of a list is searched again and again: nothing is
\* permanently skipped (search-order.md:69-70).
EveryRecordSearched ==
  \A x \in Kinds : Batch[x] > 0 =>
    \A i \in {Lists[x][n] : n \in DOMAIN Lists[x]} \ Filtered :
      []<>(pc = "record" /\ pass.kind = x /\ cur = i)
=============================================================================
