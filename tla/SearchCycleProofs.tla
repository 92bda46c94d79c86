--------------------------- MODULE SearchCycleProofs ---------------------------
(***************************************************************************)
(* Proofs about SearchCycle for any lists, settings, failures and          *)
(* interleavings with time and the *arr: type correctness, the hourly cap, *)
(* the honesty of the release gate's rows, the deck of random pages, one   *)
(* search per cycle, and what earns and delays a retry.                    *)
(***************************************************************************)
EXTENDS SearchCycle, SequenceTheorems, TLAPS

-----------------------------------------------------------------------------
(***************************************************************************)
(* The inductive invariant                                                 *)
(***************************************************************************)
InHand == {"queue", "sent", "record", "log"}   \* a record is in hand
InPass == {"pages", "items", "flush", "persist"} \cup InHand

\* Pages belong to the wanted lists, and an upgrade pass has a pool.
PassStage ==
  /\ pc = "pages" => Kind \in Wanted
  /\ pc \in InPass /\ Kind = "upgrade" => pass.list # <<>>

\* The count a pass goes by is never behind the log, and a record is in hand only
\* below the cap.
HourCounted ==
  /\ pc \in InPass => recent[Kind] <= pass.hour
  /\ pc \in InHand => Cap[Kind] = 0 \/ pass.hour < Cap[Kind]

\* Until the pass ends the gate has written "not yet released" rows of items only.
RowsOfItems ==
  /\ pass.cleared \subseteq Groups
  /\ pc # "persist" => gateRows \subseteq Items

\* A page still in the deck has not been read, and the page a pass is about to read
\* was drawn for it.
DrawnOnce ==
  /\ \A x \in Wanted : deck[x].left \cap deck[x].seen = {}
  /\ pc = "pages" /\ pass.max > 0 /\ ~Full =>
       pass.page \notin deck[Kind].left \cup deck[Kind].seen
  /\ pc \in {"items"} \cup InHand /\ pass.max > 0 =>
       Kind \in Wanted /\ pass.page \notin deck[Kind].left

IInv ==
  /\ TypeOK /\ PassStage /\ HourCounted /\ CapHolds
  /\ RowsOfItems /\ GateRowHonest /\ DrawnOnce

-----------------------------------------------------------------------------
(***************************************************************************)
(* Page sizes, scan budgets, identities, pools                             *)
(***************************************************************************)
\* Whatever the batch size, one page fits the scan budget of its pass: a pass that
\* finds nothing to search finishes at least the page it starts on
\* (_missing_page_size, _missing_scan_budget and their cutoff twins).
THEOREM PageFitsBudget ==
  ASSUME NEW b \in Nat \ {0}
  PROVE  /\ MissingPageSize(b) \in Nat \ {0} /\ MissingPageSize(b) <= MissingScanBudget(b)
         /\ CutoffPageSize(b) \in Nat \ {0} /\ CutoffPageSize(b) <= CutoffScanBudget(b)
  BY DEF MissingPageSize, MissingScanBudget, CutoffPageSize, CutoffScanBudget, Clamp

LEMMA IdType ==
  ASSUME NEW i \in Items
  PROVE  /\ Id(i) \in Ids
         /\ InGroup(i) => Id(i) \in Groups
         /\ ~InGroup(i) => Id(i) = i
  BY ItemsOK DEF Id, InGroup, Ids

LEMMA LesserType ==
  ASSUME NEW a \in Int, NEW b \in Int
  PROVE  Lesser(a, b) \in {a, b} /\ Lesser(a, b) <= a /\ Lesser(a, b) <= b
  BY DEF Lesser

LEMMA SettingFields ==
  /\ Batch \in [Kinds -> Nat] /\ Budget \in [Kinds -> Nat] /\ Cap \in [Kinds -> Nat]
  /\ PageSize \in [Wanted -> Nat \ {0}] /\ Cooled \subseteq Kinds
  BY SettingsOK

LEMMA PassFields ==
  ASSUME TypeOK
  PROVE  /\ Kind \in Kinds /\ pass.start \in Nat /\ pass.page \in Nat \ {0}
         /\ pass.max \in Nat /\ pass.visits \in Nat /\ pass.list \in Seq(Items)
         /\ pass.searched \in Nat /\ pass.scanned \in Nat /\ pass.hour \in Nat
         /\ pass.left \subseteq Nat /\ pass.cleared \subseteq Ids
         /\ pass.heldRelease \subseteq Items /\ pass.heldQueue \subseteq Ids
         /\ pass.items \subseteq Ids /\ pass.groups \subseteq Ids
  BY DEF TypeOK, PassType, Kind

LEMMA PageType ==
  ASSUME TypeOK, Kind \in Wanted
  PROVE  PageOf(pass.page) \in Seq(Items)
<1> DEFINE size == PageSize[Kind]
           m == (pass.page - 1) * size + 1
           n == Lesser(pass.page * size, Len(wanted[Kind]))
<1>1. pass.page \in Nat \ {0} /\ size \in Nat /\ wanted[Kind] \in Seq(Items)
  BY PassFields, SettingFields DEF TypeOK, Kinds, Wanted
<1>2. (pass.page - 1) * size \in Nat /\ pass.page * size \in Nat
  <2>1. pass.page - 1 \in Nat
    BY <1>1
  <2> QED
    BY <2>1, <1>1
<1>3. n \in Int /\ n <= Len(wanted[Kind])
  <2>1. Len(wanted[Kind]) \in Int /\ pass.page * size \in Int
    BY <1>1, <1>2
  <2> HIDE DEF size
  <2> QED
    BY <2>1, LesserType
<1>4. m \in Int /\ m >= 1
  BY <1>2
<1>5. \A k \in m .. n : wanted[Kind][k] \in Items
  <2> HIDE DEF m, n
  <2> QED
    BY <1>1, <1>3, <1>4
<1>6. SubSeq(wanted[Kind], m, n) \in Seq(Items)
  <2> HIDE DEF m, n
  <2> QED
    BY <1>3, <1>4, <1>5, SubSeqProperties
<1> QED
  BY <1>6 DEF PageOf

\* The rotated pool of an upgrade pass.
LEMMA RotationType ==
  ASSUME NEW pool \in Seq(Items), pool # <<>>, NEW at \in 0 .. Len(pool) - 1
  PROVE  /\ SubSeq(pool, at + 1, Len(pool)) \o SubSeq(pool, 1, at) \in Seq(Items)
         /\ SubSeq(pool, at + 1, Len(pool)) \o SubSeq(pool, 1, at) # <<>>
<1> DEFINE front == SubSeq(pool, 1, at)
           back  == SubSeq(pool, at + 1, Len(pool))
<1>1. Len(pool) \in Nat /\ at \in Int /\ at + 1 \in Int /\ at + 1 <= Len(pool)
  OBVIOUS
<1>2. front \in Seq(Items)
  BY <1>1, SubSeqProperties
<1>3. back \in Seq(Items) /\ Len(back) = Len(pool) - at
  <2>1. \A k \in at + 1 .. Len(pool) : pool[k] \in Items
    OBVIOUS
  <2>2. /\ back \in Seq(Items)
        /\ Len(back) = IF at + 1 <= Len(pool) THEN Len(pool) - (at + 1) + 1 ELSE 0
    BY ONLY <1>1, <2>1, Len(pool) \in Int, SubSeqProperties
  <2> QED
    BY <1>1, <2>2
<1> HIDE DEF front, back
<1>4. back \o front \in Seq(Items) /\ Len(back \o front) = Len(back) + Len(front)
  BY <1>2, <1>3, ConcatProperties
<1>5. Len(back \o front) > 0
  BY <1>1, <1>2, <1>3, <1>4
<1>6. back \o front # <<>>
  BY <1>4, <1>5
<1> QED
  BY <1>4, <1>6 DEF front, back

LEMMA LeavingType ==
  ASSUME NEW list \in Seq(Items), NEW n \in DOMAIN list
  PROVE  SubSeq(list, 1, n - 1) \o SubSeq(list, n + 1, Len(list)) \in Seq(Items)
<1>1. n \in 1 .. Len(list) /\ Len(list) \in Int
  OBVIOUS
<1>2. SubSeq(list, 1, n - 1) \in Seq(Items)
  BY <1>1, SubSeqProperties
<1>3. SubSeq(list, n + 1, Len(list)) \in Seq(Items)
  BY <1>1, SubSeqProperties
<1> QED
  BY <1>2, <1>3, ConcatProperties

-----------------------------------------------------------------------------
(***************************************************************************)
(* Type correctness                                                        *)
(***************************************************************************)
\* Everything but the pass and the deck.
StoreOK ==
  /\ wanted \in [Kinds -> Seq(Items)]
  /\ gate \in [Items -> {"unreleased", "grace", "clear"}]
  /\ queue \subseteq Items
  /\ cool \in [Ids -> SUBSET Kinds]
  /\ latest \in [Ids -> {"none", "unreleased", "grace"}]
  /\ graced \in [Ids -> SUBSET Items]
  /\ hot \in [Ids -> BOOLEAN] /\ rested \in [Ids -> BOOLEAN]
  /\ recent \in [Kinds -> Nat] /\ offset \in [Kinds -> Nat]
  /\ pc \in PCs /\ trigger \in {"scheduled", "run_now"}
  /\ cur \in Items
  /\ known \in {{}} \cup {{S} : S \in SUBSET Items}
  /\ sent \in [Ids -> Nat] /\ owed \subseteq Items \X {"unreleased", "grace"}
  /\ gateRows \subseteq Ids /\ queueRows \subseteq Ids

DeckOK == deck \in [Wanted -> DeckType]
PassOK == pass \in PassType

LEMMA TypeParts == TypeOK <=> StoreOK /\ DeckOK /\ PassOK
  BY DEF TypeOK, StoreOK, DeckOK, PassOK

LEMMA NoPassType == NoPass \in PassType /\ \A k \in Kinds : [NoPass EXCEPT !.kind = k] \in PassType
<1>1. <<>> \in Seq(Items)
  OBVIOUS
<1>2. "missing" \in Kinds
  BY DEF Kinds
<1>3. NoPass \in PassType
  BY <1>1, <1>2 DEF NoPass, PassType
<1>4. \A k \in Kinds : [NoPass EXCEPT !.kind = k] \in PassType
  BY <1>3 DEF PassType
<1> QED
  BY <1>3, <1>4

LEMMA NextPassType ==
  ASSUME NextPass, TypeOK
  PROVE  pass' \in PassType /\ pc' \in PCs /\ gateRows' = {} /\ queueRows' = {}
<1>1. \E k \in Kinds : pass' = [NoPass EXCEPT !.kind = k]
  BY DEF NextPass, Kinds
<1> QED
  BY <1>1, NoPassType DEF NextPass, PCs

LEMMA DeckTypes ==
  ASSUME TypeOK, Kind \in Wanted, NEW max \in Nat
  PROVE  /\ Deck(max) \in DeckType /\ Deck(max).left \subseteq Nat \ {0}
         /\ \A p : DrawPage(max, p) => DeckOK' /\ p \in Nat \ {0}
<1>1. Deck(max) \in DeckType
  BY DEF Deck, TypeOK, DeckType, Kind
<1>2. Deck(max).left \subseteq Nat \ {0}
  BY <1>1 DEF DeckType
<1>3. ASSUME NEW p, DrawPage(max, p) PROVE DeckOK' /\ p \in Nat \ {0}
  <2>1. p \in Nat \ {0}
    BY <1>2, <1>3 DEF DrawPage
  <2>2. [Deck(max) EXCEPT !.left = @ \ {p}] \in DeckType
    BY <1>1 DEF DeckType
  <2> QED
    BY <2>1, <2>2, <1>3 DEF DrawPage, DeckOK, TypeOK
<1> QED
  BY <1>1, <1>2, <1>3

LEMMA OpenedType ==
  ASSUME TypeOK, NEW x \in Nat
  PROVE  Opened(x) \in PassType
<1>1. recent[Kind] \in Nat /\ Kind \in Kinds
  BY PassFields DEF TypeOK
<1>2. Greater(1, x) \in Nat \ {0}
  BY DEF Greater
<1>3. <<>> \in Seq(Items)
  OBVIOUS
<1> QED
  BY <1>1, <1>2, <1>3 DEF Opened, NoPass, PassType

LEMMA CeilType ==
  ASSUME NEW a \in Nat, NEW b \in Nat \ {0}
  PROVE  Ceil(a, b) \in Nat
  BY DEF Ceil

LEMMA MarkedType ==
  ASSUME TypeOK, NEW n, NEW i \in Items
  PROVE  Without(n) \in PassType /\ Marked(n, i) \in PassType
<1>1. Id(i) \in Ids
  BY IdType
<1>2. Without(n) \in PassType
  BY DEF Without, TypeOK, PassType
<1>3. Marked(n, i) \in PassType
  BY <1>1, <1>2 DEF Marked, PassType
<1> QED
  BY <1>2, <1>3

\* The updates of the pass that the page walk makes.
LEMMA WalkTypes ==
  ASSUME TypeOK
  PROVE  /\ pass \in PassType
         /\ \A p \in Nat \ {0} : /\ [pass EXCEPT !.page = p] \in PassType
                                 /\ [pass EXCEPT !.page = p, !.visits = @ + 1] \in PassType
         /\ [pass EXCEPT !.page = 1, !.wrapped = TRUE, !.visits = @ + 1] \in PassType
         /\ [pass EXCEPT !.page = @ + 1] \in PassType
         /\ \A list \in Seq(Items), size \in Nat :
              [pass EXCEPT !.list = list, !.size = size, !.left = 1 .. size,
                           !.visits = @ + 1] \in PassType
<1>1. pass \in PassType
  BY DEF TypeOK
<1>2. pass.visits \in Nat /\ pass.visits + 1 \in Nat
  BY PassFields
<1>3. pass.page + 1 \in Nat \ {0}
  BY PassFields
<1>4. \A p \in Nat \ {0} : /\ [pass EXCEPT !.page = p] \in PassType
                           /\ [pass EXCEPT !.page = p, !.visits = @ + 1] \in PassType
  BY <1>1, <1>2 DEF PassType
<1>5. [pass EXCEPT !.page = 1, !.wrapped = TRUE, !.visits = @ + 1] \in PassType
  <2>1. 1 \in Nat \ {0} /\ TRUE \in BOOLEAN
    OBVIOUS
  <2>2. \A w \in BOOLEAN, v \in Nat, p \in Nat \ {0} :
          [pass EXCEPT !.page = p, !.wrapped = w, !.visits = v] \in PassType
    BY <1>1 DEF PassType
  <2> QED
    BY <1>2, <2>1, <2>2
<1>6. [pass EXCEPT !.page = @ + 1] \in PassType
  BY <1>1, <1>3 DEF PassType
<1>7. ASSUME NEW list \in Seq(Items), NEW size \in Nat
      PROVE  [pass EXCEPT !.list = list, !.size = size, !.left = 1 .. size,
                          !.visits = @ + 1] \in PassType
  <2>1. 1 .. size \in SUBSET Nat
    OBVIOUS
  <2> QED
    BY <1>1, <1>2, <2>1 DEF PassType
<1> QED
  BY <1>1, <1>4, <1>5, <1>6, <1>7

\* What the gates, the pages and the end of a pass keep.
LEMMA StartTypes ==
  ASSUME TypeOK,
         \/ \E t \in Triggers : StartCycle(t)
         \/ \E answer \in Gates : AskGates(answer)
         \/ SkipPass \/ CycleDies
  PROVE  TypeOK'
<1>1. Triggers \subseteq {"scheduled", "run_now"}
  BY SettingsOK
<1>2. CASE \E t \in Triggers : StartCycle(t)
  <2>1. StoreOK'
    BY <1>1, <1>2 DEF StartCycle, StoreOK, TypeOK, PCs, arrVars, logVars, dbVars
  <2>2. DeckOK' /\ PassOK'
    BY <1>2 DEF StartCycle, DeckOK, PassOK, TypeOK
  <2> QED
    BY <2>1, <2>2 DEF StoreOK, DeckOK, PassOK, TypeOK
<1>3. CASE \E answer \in Gates : AskGates(answer)
  BY <1>3, NoPassType DEF AskGates, TypeOK, PCs, arrVars, logVars, dbVars, history
<1>4. CASE SkipPass
  <2>1. StoreOK'
    BY <1>4, NextPassType DEF SkipPass, StoreOK, TypeOK, arrVars, logVars, dbVars
  <2>2. DeckOK' /\ PassOK'
    BY <1>4, NextPassType DEF SkipPass, DeckOK, PassOK, TypeOK
  <2> QED
    BY <2>1, <2>2 DEF StoreOK, DeckOK, PassOK, TypeOK
<1>5. CASE CycleDies
  <2>1. StoreOK'
    BY <1>5 DEF CycleDies, StoreOK, TypeOK, PCs, arrVars, logVars, dbVars
  <2>2. PassOK'
    BY <1>5, NoPassType DEF CycleDies, PassOK
  <2>3. DeckOK'
    BY <1>5 DEF CycleDies, DeckOK, TypeOK, DeckType
  <2> QED
    BY <2>1, <2>2, <2>3 DEF StoreOK, DeckOK, PassOK, TypeOK
<1> QED
  BY <1>2, <1>3, <1>4, <1>5

LEMMA PageTypes ==
  ASSUME TypeOK, PassStage,
         BeginInOrder \/ BeginAtRandom \/ PagesDone \/ FetchPage \/ FetchNothing \/ PageEnd
  PROVE  TypeOK'
<1>1. StoreOK'
  BY DEF BeginInOrder, BeginAtRandom, PagesDone, FetchPage, FetchNothing, PageEnd, StoreOK,
         TypeOK, PCs, arrVars, logVars, dbVars, history, DrawPage
<1>2. offset[Kind] \in Nat /\ wanted[Kind] \in Seq(Items)
  BY PassFields DEF TypeOK
<1>3. CASE BeginInOrder
  <2>1. PassOK'
    BY <1>2, <1>3, OpenedType DEF BeginInOrder, PassOK
  <2>2. DeckOK'
    BY <1>3 DEF BeginInOrder, DeckOK, TypeOK
  <2> QED
    BY <1>1, <2>1, <2>2, TypeParts DEF TypeOK, StoreOK, DeckOK, PassOK
<1>4. CASE BeginAtRandom
  <2> DEFINE max == Ceil(Len(wanted[Kind]), PageSize[Kind])
  <2>1. Kind \in Wanted
    BY <1>4 DEF BeginAtRandom
  <2>2. max \in Nat
    <3>1. Len(wanted[Kind]) \in Nat /\ PageSize[Kind] \in Nat \ {0}
      BY <1>2, <2>1, SettingFields
    <3> QED
      BY <3>1, CeilType
  <2>3. PICK p \in Deck(max).left :
          DrawPage(max, p) /\ pass' = [Opened(offset[Kind]) EXCEPT !.page = p, !.max = max]
    BY <1>4 DEF BeginAtRandom
  <2> HIDE DEF max
  <2>4. DeckOK' /\ p \in Nat \ {0}
    BY <2>1, <2>2, <2>3, DeckTypes
  <2>5. PassOK'
    <3>1. Opened(offset[Kind]) \in PassType
      BY <1>2, OpenedType
    <3> QED
      BY <2>2, <2>3, <2>4, <3>1 DEF PassOK, PassType
  <2> QED
    BY <1>1, <2>4, <2>5 DEF TypeOK, StoreOK, DeckOK, PassOK
<1>5. CASE PagesDone
  BY <1>1, <1>5 DEF PagesDone, TypeOK, StoreOK
<1>6. CASE FetchPage
  <2> DEFINE list == PageOf(pass.page)
             size == IF pass.max > 1 THEN PageSize[Kind] ELSE Len(list)
  <2>1. Kind \in Wanted
    BY <1>6 DEF FetchPage, MorePages, PassStage
  <2>2. list \in Seq(Items)
    BY <2>1, PageType
  <2>3. size \in Nat
    BY <2>1, <2>2, SettingFields
  <2>4. pass' = [pass EXCEPT !.list = list, !.size = size, !.left = 1 .. size, !.visits = @ + 1]
    BY <1>6 DEF FetchPage
  <2> HIDE DEF list, size
  <2>5. PassOK'
    BY <2>2, <2>3, <2>4, WalkTypes DEF PassOK
  <2>6. DeckOK'
    <3>1. pass.page \in Nat \ {0} /\ deck \in [Wanted -> DeckType]
      BY PassFields DEF TypeOK
    <3>2. \A d \in DeckType : [d EXCEPT !.seen = @ \cup {pass.page}] \in DeckType
      BY <3>1 DEF DeckType
    <3>3. \/ deck' = deck
          \/ deck' = [deck EXCEPT ![Kind] = [deck[Kind] EXCEPT !.seen = @ \cup {pass.page}]]
      BY <1>6 DEF FetchPage
    <3> QED
      BY <2>1, <3>1, <3>2, <3>3 DEF DeckOK
  <2> QED
    BY <1>1, <2>5, <2>6 DEF TypeOK, StoreOK, DeckOK, PassOK
<1>7. CASE FetchNothing
  <2>1. Kind \in Wanted
    BY <1>7 DEF FetchNothing, MorePages, PassStage
  <2>2. ASSUME NEW p \in Deck(pass.max).left, DrawPage(pass.max, p),
               pass' = [pass EXCEPT !.page = p, !.visits = @ + 1]
        PROVE  DeckOK' /\ PassOK'
    <3>1. DeckOK' /\ p \in Nat \ {0}
      BY <2>1, <2>2, DeckTypes, PassFields
    <3>2. PassOK'
      BY <2>2, <3>1, WalkTypes DEF PassOK
    <3> QED
      BY <3>1, <3>2
  <2>3. ASSUME UNCHANGED deck,
               \/ UNCHANGED pass
               \/ pass' = [pass EXCEPT !.page = 1, !.wrapped = TRUE, !.visits = @ + 1]
        PROVE  DeckOK' /\ PassOK'
    BY <2>3, WalkTypes DEF DeckOK, PassOK, TypeOK
  <2>4. DeckOK' /\ PassOK'
    BY <1>7, <2>2, <2>3 DEF FetchNothing
  <2> QED
    BY <1>1, <2>4 DEF TypeOK, StoreOK, DeckOK, PassOK
<1>8. CASE PageEnd
  <2>1. ASSUME UNCHANGED deck, UNCHANGED pass \/ pass' = [pass EXCEPT !.page = @ + 1]
        PROVE  DeckOK' /\ PassOK'
    BY <2>1, WalkTypes DEF DeckOK, PassOK, TypeOK
  <2>2. ASSUME Kind \in Wanted, NEW p \in Deck(pass.max).left, DrawPage(pass.max, p),
               pass' = [pass EXCEPT !.page = p]
        PROVE  DeckOK' /\ PassOK'
    <3>1. DeckOK' /\ p \in Nat \ {0}
      BY <2>2, DeckTypes, PassFields
    <3>2. PassOK'
      BY <2>2, <3>1, WalkTypes DEF PassOK
    <3> QED
      BY <3>1, <3>2
  <2>3. Kind \in Wanted \/ Kind = "upgrade"
    BY PassFields DEF Kinds, Wanted
  <2>4. DeckOK' /\ PassOK'
    BY <1>8, <2>1, <2>2, <2>3 DEF PageEnd
  <2> QED
    BY <1>1, <2>4 DEF TypeOK, StoreOK, DeckOK, PassOK
<1> QED
  BY <1>3, <1>4, <1>5, <1>6, <1>7, <1>8

\* The updates of the pass that its candidates make.
LEMMA CandidateTypes ==
  ASSUME TypeOK, NEW i \in Items
  PROVE  /\ \A n : /\ Without(n) \in PassType /\ Marked(n, i) \in PassType
                   /\ [Without(n) EXCEPT !.scanned = @ + 1] \in PassType
                   /\ [Marked(n, i) EXCEPT !.scanned = IF Kind = "upgrade" THEN @ + 1 ELSE @]
                        \in PassType
                   /\ [Without(n) EXCEPT !.heldRelease = @ \cup {i}] \in PassType
                   /\ [Without(n) EXCEPT !.items = IF InGroup(i) THEN @ ELSE @ \cup {Id(i)}]
                        \in PassType
         /\ [pass EXCEPT !.scanned = @ + 1] \in PassType
         /\ [pass EXCEPT !.items = @ \ {Id(i)}, !.groups = @ \ {Id(i)},
                         !.heldQueue = @ \cup {Id(i)}] \in PassType
         /\ [pass EXCEPT !.searched = @ + 1, !.hour = @ + 1] \in PassType
<1>1. Id(i) \in Ids /\ pass \in PassType
  BY IdType DEF TypeOK
<1>2. \A p \in PassType : p.scanned + 1 \in Nat /\ p.searched + 1 \in Nat /\ p.hour + 1 \in Nat
  BY DEF PassType
<1>3. \A p \in PassType :
        /\ [p EXCEPT !.scanned = @ + 1] \in PassType
        /\ [p EXCEPT !.scanned = IF Kind = "upgrade" THEN @ + 1 ELSE @] \in PassType
  <2>1. \A p \in PassType : p.scanned \in Nat /\ p.scanned + 1 \in Nat
    BY DEF PassType
  <2>2. \A p \in PassType : \A v \in Nat : [p EXCEPT !.scanned = v] \in PassType
    BY DEF PassType
  <2> QED
    BY <2>1, <2>2
<1>4. \A p \in PassType : [p EXCEPT !.heldRelease = @ \cup {i}] \in PassType
  BY DEF PassType
<1>5. \A p \in PassType :
        [p EXCEPT !.items = IF InGroup(i) THEN @ ELSE @ \cup {Id(i)}] \in PassType
  <2>1. \A p \in PassType : p.items \subseteq Ids /\ p.items \cup {Id(i)} \subseteq Ids
    BY <1>1 DEF PassType
  <2>2. \A p \in PassType : \A v \in SUBSET Ids : [p EXCEPT !.items = v] \in PassType
    BY DEF PassType
  <2> QED
    BY <2>1, <2>2
<1>6. [pass EXCEPT !.items = @ \ {Id(i)}, !.groups = @ \ {Id(i)},
                   !.heldQueue = @ \cup {Id(i)}] \in PassType
  BY <1>1 DEF PassType
<1>7. [pass EXCEPT !.searched = @ + 1, !.hour = @ + 1] \in PassType
  BY <1>1, <1>2 DEF PassType
<1> QED
  BY <1>1, <1>3, <1>4, <1>5, <1>6, <1>7, MarkedType

LEMMA GateRowTypes ==
  ASSUME TypeOK, NEW i \in Items, NEW reason \in {"unreleased", "grace"}, GateRow(i, reason)
  PROVE  /\ latest' \in [Ids -> {"none", "unreleased", "grace"}]
         /\ graced' \in [Ids -> SUBSET Items] /\ hot' \in [Ids -> BOOLEAN]
         /\ owed' \subseteq Items \X {"unreleased", "grace"} /\ gateRows' \subseteq Ids
<1>1. Id(i) \in Ids
  BY IdType
<1>2. CASE Kind # "missing"
  BY <1>1, <1>2 DEF GateRow, TypeOK, logVars
<1>3. CASE Kind = "missing"
  <2>1. latest' \in [Ids -> {"none", "unreleased", "grace"}]
    BY <1>1, <1>3 DEF GateRow, TypeOK
  <2>2. graced' \in [Ids -> SUBSET Items]
    <3>1. (IF reason = "grace" THEN graced[Id(i)] \cup {i} ELSE graced[Id(i)]) \in SUBSET Items
      BY <1>1 DEF TypeOK
    <3>2. \A v \in SUBSET Items : [graced EXCEPT ![Id(i)] = v] \in [Ids -> SUBSET Items]
      BY <1>1 DEF TypeOK
    <3>3. graced' = [graced EXCEPT ![Id(i)] = IF reason = "grace" THEN graced[Id(i)] \cup {i}
                                                                 ELSE graced[Id(i)]]
      BY <1>3 DEF GateRow
    <3> QED
      BY <3>1, <3>2, <3>3
  <2>3. hot' \in [Ids -> BOOLEAN]
    <3>1. (hot[Id(i)] \/ (HotRetry /\ reason = "grace")) \in BOOLEAN
      OBVIOUS
    <3> QED
      BY <1>1, <1>3, <3>1 DEF GateRow, TypeOK
  <2>4. owed' \subseteq Items \X {"unreleased", "grace"} /\ gateRows' \subseteq Ids
    BY <1>1, <1>3 DEF GateRow, TypeOK
  <2> QED
    BY <2>1, <2>2, <2>3, <2>4
<1> QED
  BY <1>2, <1>3

LEMMA DispatchRowTypes ==
  ASSUME TypeOK, DispatchRow
  PROVE  /\ latest' \in [Ids -> {"none", "unreleased", "grace"}]
         /\ graced' \in [Ids -> SUBSET Items] /\ hot' \in [Ids -> BOOLEAN]
<1>1. Id(cur) \in Ids
  BY IdType DEF TypeOK
<1> QED
  BY <1>1 DEF DispatchRow, TypeOK, logVars

LEMMA TakeTypes ==
  ASSUME TypeOK, NEW n \in pass.left,
         TakePad(n) \/ \E i \in Items : Candidate(n, i)
  PROVE  TypeOK'
<1>1. CASE TakePad(n)
  <2>1. PassOK'
    BY <1>1, CandidateTypes DEF TakePad, PassOK, TypeOK
  <2> QED
    BY <1>1, <2>1 DEF TakePad, PassOK, TypeOK, arrVars, logVars, dbVars, history
<1>2. ASSUME NEW i \in Items, Candidate(n, i) PROVE TypeOK'
  <2>1. CASE Duplicate(n, i)
    BY <2>1, MarkedType DEF Duplicate, TypeOK, arrVars, logVars, dbVars, history
  <2>2. CASE Blocked(n, i)
    <3>1. PassOK'
      <4>1. \/ pass' = [Without(n) EXCEPT !.heldRelease = @ \cup {i}]
            \/ pass' = [Without(n) EXCEPT !.items = IF InGroup(i) THEN @ ELSE @ \cup {Id(i)}]
        BY <2>2 DEF Blocked
      <4>2. [Without(n) EXCEPT !.heldRelease = @ \cup {i}] \in PassType
        BY CandidateTypes
      <4>3. [Without(n) EXCEPT !.items = IF InGroup(i) THEN @ ELSE @ \cup {Id(i)}] \in PassType
        BY CandidateTypes
      <4> QED
        BY <4>1, <4>2, <4>3 DEF PassOK
    <3>2. gate[i] \in {"unreleased", "grace"}
      BY <2>2 DEF Blocked, Blocks, TypeOK
    <3>3. /\ latest' \in [Ids -> {"none", "unreleased", "grace"}]
          /\ graced' \in [Ids -> SUBSET Items] /\ hot' \in [Ids -> BOOLEAN]
          /\ owed' \subseteq Items \X {"unreleased", "grace"} /\ gateRows' \subseteq Ids
      <4>1. CASE GateRow(i, gate[i])
        BY <3>2, <4>1, GateRowTypes
      <4>2. CASE UNCHANGED <<logVars, owed, gateRows>>
        BY <4>2 DEF TypeOK, logVars
      <4> QED
        BY <2>2, <4>1, <4>2 DEF Blocked
    <3> QED
      BY <2>2, <3>1, <3>3 DEF Blocked, PassOK, TypeOK, arrVars, dbVars
  <2>3. CASE PassOver(n, i)
    <3>1. PassOK'
      <4>1. \/ pass' = Marked(n, i)
            \/ pass' = [Marked(n, i) EXCEPT !.scanned = IF Kind = "upgrade" THEN @ + 1 ELSE @]
        BY <2>3 DEF PassOver
      <4>2. [Marked(n, i) EXCEPT !.scanned = IF Kind = "upgrade" THEN @ + 1 ELSE @] \in PassType
        BY CandidateTypes
      <4>3. Marked(n, i) \in PassType
        BY CandidateTypes
      <4> QED
        BY <4>1, <4>2, <4>3 DEF PassOK
    <3> QED
      BY <2>3, <3>1 DEF PassOver, PassOK, TypeOK, arrVars, logVars, dbVars, history
  <2>4. CASE StopAtCap(n, i)
    BY <2>4, MarkedType DEF StopAtCap, TypeOK, PCs, arrVars, logVars, dbVars, history
  <2>5. CASE Choose(n, i)
    BY <2>5, MarkedType DEF Choose, TypeOK, PCs, arrVars, logVars, dbVars, history
  <2> QED
    BY <1>2, <2>1, <2>2, <2>3, <2>4, <2>5 DEF Candidate
<1> QED
  BY <1>1, <1>2

LEMMA HandTypes ==
  ASSUME TypeOK,
         FetchQueue \/ AlreadyQueued \/ Send \/ Rejected \/ Accepted \/ Record \/ Log
  PROVE  TypeOK'
<1>1. Id(cur) \in Ids /\ cur \in Items /\ Kind \in Kinds
  BY IdType, PassFields DEF TypeOK
<1>2. CASE FetchQueue
  <2>1. known' \in {{}} \cup {{S} : S \in SUBSET Items}
    BY <1>2 DEF FetchQueue, TypeOK
  <2> QED
    BY <1>2, <2>1 DEF FetchQueue, TypeOK, arrVars, logVars, dbVars, history
<1>3. CASE AlreadyQueued
  <2>1. PassOK' /\ queueRows' \subseteq Ids
    <3>1. [pass EXCEPT !.items = @ \ {Id(cur)}, !.groups = @ \ {Id(cur)},
                       !.heldQueue = @ \cup {Id(cur)}] \in PassType
      BY <1>1, CandidateTypes
    <3> QED
      BY <1>1, <1>3, <3>1 DEF AlreadyQueued, TypeOK, PassOK
  <2> QED
    BY <1>3, <2>1 DEF AlreadyQueued, PassOK, TypeOK, PCs, arrVars, logVars, dbVars
<1>4. CASE Send
  <2>1. PassOK'
    BY <1>1, <1>4, CandidateTypes DEF Send, PassOK
  <2> QED
    BY <1>4, <2>1 DEF Send, PassOK, TypeOK, PCs, arrVars, logVars, dbVars, history
<1>5. Unowed \subseteq Items \X {"unreleased", "grace"}
  BY DEF Unowed, TypeOK
<1>6. CASE Rejected
  BY <1>5, <1>6, DispatchRowTypes DEF Rejected, TypeOK, PCs, arrVars, dbVars
<1>7. CASE Accepted
  <2>1. sent' \in [Ids -> Nat]
    BY <1>1, <1>7 DEF Accepted, TypeOK
  <2> QED
    BY <1>5, <1>7, <2>1 DEF Accepted, TypeOK, PCs, arrVars, logVars, dbVars
<1>8. CASE Record
  BY <1>1, <1>8, SettingFields DEF Record, TypeOK, PCs, arrVars, logVars, history
<1>9. CASE Log
  <2>1. PassOK'
    BY <1>1, <1>9, CandidateTypes DEF Log, PassOK
  <2>2. recent' \in [Kinds -> Nat]
    BY <1>1, <1>9 DEF Log, TypeOK
  <2> QED
    BY <1>9, <2>1, <2>2, DispatchRowTypes DEF Log, PassOK, TypeOK, PCs, arrVars, history
<1> QED
  BY <1>2, <1>3, <1>4, <1>6, <1>7, <1>8, <1>9

LEMMA EndTypes ==
  ASSUME TypeOK, PassStage, Flush \/ Persist \/ BeginUpgrade
  PROVE  TypeOK'
<1>1. \A i \in pass.heldRelease : i \in Items /\ Id(i) \in Ids
  BY PassFields, IdType
<1>2. CASE Flush
  <2> DEFINE late == {i \in pass.heldRelease : Id(i) \notin pass.cleared}
  <2>1. latest' = [d \in Ids |-> IF \E i \in late : d = Id(i) THEN "unreleased" ELSE latest[d]]
    BY <1>2 DEF Flush
  <2>2. latest' \in [Ids -> {"none", "unreleased", "grace"}]
    <3> HIDE DEF late
    <3> QED
      BY <2>1 DEF TypeOK
  <2>3. late \X {"unreleased"} \subseteq Items \X {"unreleased", "grace"}
    BY <1>1
  <2>4. owed' \subseteq Items \X {"unreleased", "grace"}
    BY <1>2, <2>3 DEF Flush, TypeOK
  <2>5. gateRows' \subseteq Ids /\ queueRows' \subseteq Ids
    <3>1. {Id(i) : i \in late} \subseteq Ids
      BY <1>1
    <3>2. gateRows' = gateRows \cup {Id(i) : i \in late}
      BY <1>2 DEF Flush
    <3>3. gateRows \subseteq Ids /\ queueRows \subseteq Ids
      BY DEF TypeOK
    <3>4. queueRows' = queueRows \cup (pass.heldQueue \ pass.groups)
      BY <1>2 DEF Flush
    <3> HIDE DEF late
    <3> QED
      BY <3>1, <3>2, <3>3, <3>4, PassFields
  <2> QED
    BY <1>2, <2>2, <2>4, <2>5 DEF Flush, TypeOK, PCs, arrVars, dbVars
<1>3. CASE Persist
  <2>1. NextOffset \in Nat
    <3>1. CASE Kind = "upgrade"
      <4>1. pass.list # <<>>
        BY <1>3, <3>1 DEF PassStage, Persist, InPass
      <4>2. Len(pass.list) \in Nat \ {0}
        BY <4>1, PassFields
      <4>3. pass.start + pass.scanned \in Nat
        BY PassFields
      <4>4. (pass.start + pass.scanned) % Len(pass.list) \in Nat
        BY <4>2, <4>3
      <4> QED
        BY <3>1, <4>4 DEF NextOffset
    <3>2. CASE Kind # "upgrade"
      BY <3>2, PassFields DEF NextOffset
    <3> QED
      BY <3>1, <3>2
  <2>2. offset' \in [Kinds -> Nat]
    BY <1>3, <2>1, PassFields DEF Persist, TypeOK
  <2>3. PassOK' /\ pc' \in PCs /\ gateRows' = {} /\ queueRows' = {}
    BY <1>3, NextPassType DEF Persist, PassOK
  <2> QED
    BY <1>3, <2>2, <2>3 DEF Persist, PassOK, TypeOK, arrVars, logVars
<1>4. CASE BeginUpgrade
  <2>1. CASE NextPass /\ UNCHANGED <<sent, owed>>
    <3>1. PassOK' /\ pc' \in PCs /\ gateRows' = {} /\ queueRows' = {}
      BY <2>1, NextPassType DEF PassOK
    <3> QED
      BY <1>4, <2>1, <3>1 DEF BeginUpgrade, PassOK, TypeOK, arrVars, logVars, dbVars
  <2> DEFINE pool == wanted[Kind]
             at   == IF Random THEN 0 ELSE offset[Kind] % Len(pool)
             rotated == SubSeq(pool, at + 1, Len(pool)) \o SubSeq(pool, 1, at)
  <2>2. ASSUME pool # <<>>, pc' = "items", UNCHANGED history,
               pass' = [NoPass EXCEPT !.kind = Kind, !.start = at, !.hour = recent[Kind],
                          !.list = rotated, !.size = Len(pool), !.left = 1 .. Len(pool)]
        PROVE  TypeOK'
    <3>1. pool \in Seq(Items) /\ offset[Kind] \in Nat /\ recent[Kind] \in Nat /\ Kind \in Kinds
      BY PassFields DEF TypeOK
    <3>2. Len(pool) \in Nat \ {0}
      BY <2>2, <3>1
    <3>3. offset[Kind] % Len(pool) \in 0 .. Len(pool) - 1
      <4> HIDE DEF pool
      <4> QED
        BY <3>1, <3>2
    <3>4. at \in 0 .. Len(pool) - 1
      <4> HIDE DEF pool
      <4> QED
        BY <3>2, <3>3
    <3>5. rotated \in Seq(Items)
      <4> HIDE DEF pool, at
      <4> QED
        BY <2>2, <3>1, <3>4, RotationType
    <3>6. at \in Nat /\ 1 .. Len(pool) \in SUBSET Nat
      <4> HIDE DEF pool, at
      <4> QED
        BY <3>2, <3>4
    <3>7. PassOK'
      <4> HIDE DEF pool, at, rotated
      <4> QED
        BY <2>2, <3>1, <3>2, <3>5, <3>6, NoPassType DEF PassOK, PassType
    <3> QED
      BY <1>4, <2>2, <3>7 DEF BeginUpgrade, PassOK, TypeOK, PCs, arrVars, logVars, dbVars, history
  <2> QED
    BY <1>4, <2>1, <2>2 DEF BeginUpgrade
<1> QED
  BY <1>2, <1>3, <1>4

LEMMA EnvironmentTypes ==
  ASSUME TypeOK, Environment
  PROVE  TypeOK'
<1>1. Downloads \subseteq Items
  BY ItemsOK
<1>2. ASSUME NEW i \in Items, Released(i) PROVE TypeOK'
  BY <1>2 DEF Released, TypeOK, Unmoved, logVars, dbVars, cycleVars, history
<1>3. ASSUME NEW i \in Downloads, QueueMoves(i) PROVE TypeOK'
  BY <1>1, <1>3 DEF QueueMoves, TypeOK, Unmoved, logVars, dbVars, cycleVars, history
<1>4. ASSUME NEW d \in Ids, GraceRowsAge(d) \/ HotWindowCloses(d) \/ Rests(d) PROVE TypeOK'
  BY <1>4 DEF GraceRowsAge, HotWindowCloses, Rests, TypeOK, Unmoved, arrVars, logVars, dbVars,
              cycleVars, history
<1>5. ASSUME NEW x \in Kinds, HourPasses(x) PROVE TypeOK'
  <2>1. recent' \in [Kinds -> Nat]
    BY <1>5 DEF HourPasses, TypeOK
  <2> QED
    BY <1>5, <2>1 DEF HourPasses, TypeOK, Unmoved, arrVars, logVars, cycleVars, history
<1>6. ASSUME NEW x \in Kinds, RoundEnds(x) \/ \E d \in Ids : CooldownEnds(x, d) PROVE TypeOK'
  <2>1. cool' \in [Ids -> SUBSET Kinds]
    <3>1. \A d \in Ids : cool[d] \ {x} \in SUBSET Kinds
      BY DEF TypeOK
    <3>2. CASE RoundEnds(x)
      BY <3>1, <3>2 DEF RoundEnds, TypeOK
    <3>3. ASSUME NEW d \in Ids, CooldownEnds(x, d) PROVE cool' \in [Ids -> SUBSET Kinds]
      BY <3>1, <3>3 DEF CooldownEnds, TypeOK
    <3> QED
      BY <1>6, <3>2, <3>3
  <2>2. UNCHANGED <<arrVars, logVars, rested, recent, offset>> /\ Unmoved
    BY <1>6 DEF RoundEnds, CooldownEnds
  <2> QED
    <3>1. /\ UNCHANGED arrVars /\ UNCHANGED logVars /\ UNCHANGED <<rested, recent, offset>>
          /\ UNCHANGED deck /\ UNCHANGED cycleVars /\ UNCHANGED history
      BY <2>2 DEF Unmoved
    <3> QED
      BY <2>1, <3>1 DEF TypeOK, arrVars, logVars, cycleVars, history
<1>7. ASSUME NEW x \in Kinds, NEW n \in DOMAIN wanted[x], Leaves(x, n) PROVE TypeOK'
  <2>1. wanted[x] \in Seq(Items)
    BY DEF TypeOK
  <2>2. SubSeq(wanted[x], 1, n - 1) \o SubSeq(wanted[x], n + 1, Len(wanted[x])) \in Seq(Items)
    BY <2>1, LeavingType
  <2>3. wanted' \in [Kinds -> Seq(Items)]
    BY <1>7, <2>2 DEF Leaves, TypeOK
  <2> QED
    BY <1>7, <2>3 DEF Leaves, TypeOK, Unmoved, logVars, dbVars, cycleVars, history
<1> QED
  BY <1>2, <1>3, <1>4, <1>5, <1>6, <1>7 DEF Environment

LEMMA TypeStep ==
  ASSUME TypeOK, PassStage, [Next]_vars
  PROVE  TypeOK'
<1>1. CASE CycleStep
  BY <1>1, StartTypes, PageTypes, TakeTypes, HandTypes, EndTypes DEF CycleStep, PassStep
<1>2. CASE CycleDies
  BY <1>2, StartTypes
<1>3. CASE Environment
  BY <1>3, EnvironmentTypes
<1>4. CASE UNCHANGED vars
  BY <1>4 DEF vars, TypeOK, arrVars, logVars, dbVars, cycleVars, history
<1> QED
  BY <1>1, <1>2, <1>3, <1>4 DEF Next

-----------------------------------------------------------------------------
(***************************************************************************)
(* The other parts of the invariant                                        *)
(***************************************************************************)
\* What of the pass its candidates leave alone.
SameWalk ==
  /\ pass'.kind = pass.kind /\ pass'.list = pass.list /\ pass'.max = pass.max
  /\ pass'.page = pass.page /\ UNCHANGED <<deck, offset>>

SameCount == pass'.hour = pass.hour /\ recent' = recent

LEMMA TakeShape ==
  ASSUME TypeOK, NEW n \in pass.left, TakePad(n) \/ \E i \in Items : Candidate(n, i)
  PROVE  SameWalk /\ SameCount /\ pc = "items" /\ pc' \in {"items", "queue", "flush"}
<1>1. pass \in PassType
  BY DEF TypeOK
<1>2. CASE TakePad(n)
  BY <1>1, <1>2 DEF TakePad, Takes, Without, SameWalk, SameCount, PassType, dbVars
<1>3. ASSUME NEW i \in Items, Candidate(n, i)
      PROVE  SameWalk /\ SameCount /\ pc = "items" /\ pc' \in {"items", "queue", "flush"}
  <2>1. pc = "items"
    BY <1>3 DEF Candidate, Duplicate, Blocked, PassOver, StopAtCap, Choose, Fresh, Holds, Takes
  <2>2. CASE Duplicate(n, i)
    BY <1>1, <2>1, <2>2 DEF Duplicate, Without, SameWalk, SameCount, PassType, dbVars
  <2>3. CASE Blocked(n, i)
    BY <1>1, <2>1, <2>3 DEF Blocked, Without, SameWalk, SameCount, PassType, dbVars
  <2>4. CASE PassOver(n, i)
    BY <1>1, <2>1, <2>4 DEF PassOver, Marked, Without, SameWalk, SameCount, PassType, dbVars
  <2>5. CASE StopAtCap(n, i)
    BY <1>1, <2>1, <2>5 DEF StopAtCap, Marked, Without, SameWalk, SameCount, PassType, dbVars
  <2>6. CASE Choose(n, i)
    BY <1>1, <2>1, <2>6 DEF Choose, Marked, Without, SameWalk, SameCount, PassType, dbVars
  <2> QED
    BY <1>3, <2>2, <2>3, <2>4, <2>5, <2>6 DEF Candidate
<1> QED
  BY <1>2, <1>3

LEMMA HandShape ==
  ASSUME TypeOK, FetchQueue \/ AlreadyQueued \/ Send \/ Rejected \/ Accepted \/ Record \/ Log
  PROVE  /\ SameWalk /\ pc \in InHand /\ pc' \in InHand \cup {"items"}
         /\ ~Log => SameCount
<1>1. pass \in PassType
  BY DEF TypeOK
<1>2. CASE FetchQueue \/ Rejected \/ Accepted \/ Record
  BY <1>2 DEF FetchQueue, Rejected, Accepted, Record, SameWalk, SameCount, dbVars, InHand
<1>3. CASE AlreadyQueued
  BY <1>1, <1>3 DEF AlreadyQueued, SameWalk, SameCount, dbVars, InHand, PassType
<1>4. CASE Send
  BY <1>1, <1>4 DEF Send, SameWalk, SameCount, dbVars, InHand, PassType
<1>5. CASE Log
  BY <1>1, <1>5 DEF Log, SameWalk, InHand, PassType
<1> QED
  BY <1>2, <1>3, <1>4, <1>5

LEMMA OutsideShape ==
  ASSUME Environment \/ UNCHANGED vars
  PROVE  UNCHANGED <<cycleVars, deck, history>>
<1>1. CASE UNCHANGED vars
  BY <1>1 DEF vars
<1>2. CASE Environment
  BY <1>2 DEF Environment, Released, QueueMoves, GraceRowsAge, HotWindowCloses, Rests, HourPasses,
              RoundEnds, CooldownEnds, Leaves, Unmoved
<1> QED
  BY <1>1, <1>2

\* Where a pass may be, and what of it a step leaves alone.
LEMMA StageStep ==
  ASSUME TypeOK, PassStage, [Next]_vars
  PROVE  PassStage'
<1>1. CASE \/ \E t \in Triggers : StartCycle(t)
           \/ \E answer \in Gates : AskGates(answer)
           \/ CycleDies
  BY <1>1 DEF StartCycle, AskGates, CycleDies, PassStage, InPass, InHand
<1>2. CASE SkipPass \/ Persist
  BY <1>2 DEF SkipPass, Persist, NextPass, PassStage, InPass, InHand
<1>3. CASE BeginInOrder
  BY <1>3 DEF BeginInOrder, Opened, NoPass, PassStage, InPass, InHand, Kind, Wanted
<1>4. CASE BeginAtRandom
  <2>1. Kind' = Kind /\ Kind \in Wanted /\ pc' = "pages"
    BY <1>4 DEF BeginAtRandom, Opened, NoPass, Kind
  <2> QED
    BY <2>1 DEF PassStage, Wanted
<1>5. CASE PagesDone \/ FetchNothing
  <2>1. Kind' = Kind /\ pc = "pages"
    BY <1>5 DEF PagesDone, FetchNothing, MorePages, Kind, TypeOK, PassType
  <2> QED
    BY <2>1 DEF PassStage, Wanted
<1>6. CASE FetchPage
  <2>1. Kind' = Kind /\ pc = "pages" /\ pc' = "items"
    BY <1>6 DEF FetchPage, MorePages, Kind, TypeOK, PassType
  <2> QED
    BY <2>1 DEF PassStage, Wanted
<1>7. CASE PageEnd
  <2>1. Kind' = Kind /\ pass'.list = pass.list /\ pc = "items"
        /\ pc' = IF Kind = "upgrade" THEN "flush" ELSE "pages"
    BY <1>7 DEF PageEnd, Kind, TypeOK, PassType
  <2>2. Kind \in Wanted \/ Kind = "upgrade"
    BY PassFields DEF Kinds, Wanted
  <2> QED
    BY <2>1, <2>2 DEF PassStage, InPass, InHand
<1>8. CASE \/ \E n \in pass.left : TakePad(n) \/ \E i \in Items : Candidate(n, i)
           \/ FetchQueue \/ AlreadyQueued \/ Send \/ Rejected \/ Accepted \/ Record \/ Log
           \/ Flush
  <2>1. CASE Flush
    BY <2>1 DEF Flush, PassStage, Kind, InPass
  <2>2. CASE ~Flush
    <3>1. SameWalk /\ pc \in InPass /\ pc' \in InPass \ {"pages"}
      BY <1>8, <2>2, TakeShape, HandShape DEF InPass, InHand
    <3> QED
      BY <3>1 DEF PassStage, SameWalk, Kind
  <2> QED
    BY <2>1, <2>2
<1>9. CASE BeginUpgrade
  <2>1. CASE NextPass
    BY <2>1 DEF NextPass, PassStage, InPass, InHand
  <2>2. CASE ~NextPass
    <3> DEFINE pool == wanted[Kind]
               at   == IF Random THEN 0 ELSE offset[Kind] % Len(pool)
    <3>1. /\ pool # <<>> /\ pc' = "items"
          /\ pass'.list = SubSeq(pool, at + 1, Len(pool)) \o SubSeq(pool, 1, at)
      BY <1>9, <2>2 DEF BeginUpgrade, NoPass
    <3>2. pool \in Seq(Items) /\ offset[Kind] \in Nat
      BY PassFields DEF TypeOK
    <3>3. at \in 0 .. Len(pool) - 1
      <4> HIDE DEF pool
      <4>1. Len(pool) \in Nat \ {0}
        BY <3>1, <3>2
      <4> QED
        BY <3>2, <4>1
    <3>4. pass'.list # <<>>
      <4> HIDE DEF pool, at
      <4> QED
        BY <3>1, <3>2, <3>3, RotationType
    <3> QED
      BY <3>1, <3>4 DEF PassStage
  <2> QED
    BY <2>1, <2>2
<1>10. CASE Environment \/ UNCHANGED vars
  BY <1>10, OutsideShape DEF PassStage, cycleVars, Kind, Wanted, InPass, InHand
<1> QED
  BY <1>1, <1>2, <1>3, <1>4, <1>5, <1>6, <1>7, <1>8, <1>9, <1>10
     DEF Next, CycleStep, PassStep

-----------------------------------------------------------------------------
LEMMA OpenedFields ==
  ASSUME NEW start, NEW p, NEW max
  PROVE  /\ Opened(start).kind = Kind /\ Opened(start).hour = recent[Kind]
         /\ [Opened(start) EXCEPT !.page = p, !.max = max].kind = Kind
         /\ [Opened(start) EXCEPT !.page = p, !.max = max].hour = recent[Kind]
  BY DEF Opened, NoPass

\* The hourly cap: one step per action that starts a pass, dispatches or counts.
LEMMA HourStep ==
  ASSUME TypeOK, PassStage, HourCounted, CapHolds, [Next]_vars
  PROVE  HourCounted' /\ CapHolds'
<1>1. /\ pass \in PassType /\ Kind \in Kinds /\ pass.hour \in Nat
      /\ recent \in [Kinds -> Nat] /\ Cap \in [Kinds -> Nat]
  BY PassFields, SettingFields DEF TypeOK
<1>2. CASE \/ \E t \in Triggers : StartCycle(t)
           \/ \E answer \in Gates : AskGates(answer)
           \/ SkipPass \/ Persist \/ CycleDies
  <2>1. pc' \notin InPass
    BY <1>2 DEF StartCycle, AskGates, SkipPass, Persist, CycleDies, NextPass, InPass, InHand
  <2>2. recent' = recent
    BY <1>2 DEF StartCycle, AskGates, SkipPass, Persist, CycleDies, dbVars
  <2> QED
    BY <2>1, <2>2 DEF HourCounted, CapHolds, InPass
<1>3. CASE BeginInOrder \/ BeginAtRandom
  <2>1. pc' = "pages" /\ recent' = recent
    BY <1>3 DEF BeginInOrder, BeginAtRandom, dbVars
  <2>3. pass'.hour = recent[Kind] /\ pass'.kind = pass.kind
    <3>1. CASE BeginInOrder
      <4>1. pass' = Opened(offset[Kind])
        BY <3>1 DEF BeginInOrder
      <4> QED
        BY <4>1, OpenedFields DEF Kind
    <3>2. CASE BeginAtRandom
      <4>1. PICK p, max : pass' = [Opened(offset[Kind]) EXCEPT !.page = p, !.max = max]
        BY <3>2, Zenon DEF BeginAtRandom
      <4> QED
        BY <4>1, OpenedFields DEF Kind
    <3> QED
      BY <1>3, <3>1, <3>2
  <2> QED
    BY <1>1, <2>1, <2>3 DEF HourCounted, CapHolds, InHand, Kind
<1>4. CASE BeginUpgrade
  <2>1. recent' = recent
    BY <1>4 DEF BeginUpgrade, dbVars
  <2>2. CASE NextPass
    <3>1. pc' \notin InPass
      BY <2>2 DEF NextPass, InPass, InHand
    <3> QED
      BY <2>1, <3>1 DEF HourCounted, CapHolds, InPass
  <2>3. CASE ~NextPass
    <3>1. pc' = "items"
      BY <1>4, <2>3 DEF BeginUpgrade
    <3>2. pass'.hour = recent[Kind] /\ pass'.kind = pass.kind
      <4> DEFINE pool == wanted[Kind]
                 at   == IF Random THEN 0 ELSE offset[Kind] % Len(pool)
      <4>0. pass' = [NoPass EXCEPT !.kind = Kind, !.start = at, !.hour = recent[Kind],
                       !.list = SubSeq(pool, at + 1, Len(pool)) \o SubSeq(pool, 1, at),
                       !.size = Len(pool), !.left = 1 .. Len(pool)]
        BY <1>4, <2>3, Zenon DEF BeginUpgrade
      <4> HIDE DEF pool, at
      <4>1. PICK a, l, z, f :
              pass' = [NoPass EXCEPT !.kind = Kind, !.start = a, !.hour = recent[Kind],
                                     !.list = l, !.size = z, !.left = f]
        BY <4>0
      <4> QED
        BY <4>1 DEF NoPass, Kind
    <3> QED
      BY <1>1, <2>1, <3>1, <3>2 DEF HourCounted, CapHolds, InHand, Kind
  <2> QED
    BY <2>2, <2>3
<1>5. CASE PagesDone \/ FetchPage \/ FetchNothing \/ PageEnd \/ Flush
  <2>1. /\ pass'.hour = pass.hour /\ pass'.kind = pass.kind /\ recent' = recent
        /\ pc \in InPass /\ pc' \notin InHand
    BY <1>1, <1>5 DEF PagesDone, FetchPage, FetchNothing, PageEnd, Flush, MorePages, InPass, InHand,
         PassType, dbVars
  <2> QED
    BY <2>1 DEF HourCounted, CapHolds, Kind
<1>6. ASSUME NEW n \in pass.left, TakePad(n) \/ \E i \in Items : Candidate(n, i)
      PROVE  HourCounted' /\ CapHolds'
  <2>1. SameWalk /\ SameCount /\ pc = "items" /\ pc' \in {"items", "queue", "flush"}
    BY <1>6, TakeShape
  <2>2. pc' = "queue" => ~CapReached
    BY <1>6, <2>1 DEF TakePad, Candidate, Duplicate, Blocked, PassOver, StopAtCap, Choose
  <2>3. ~CapReached => Cap[Kind] = 0 \/ pass.hour < Cap[Kind]
    BY <1>1 DEF CapReached
  <2> QED
    BY <2>1, <2>2, <2>3 DEF HourCounted, CapHolds, SameWalk, SameCount, Kind, InPass, InHand
<1>7. CASE FetchQueue \/ AlreadyQueued \/ Send \/ Rejected \/ Accepted \/ Record
  <2>1. ~Log
    BY <1>7 DEF FetchQueue, AlreadyQueued, Send, Rejected, Accepted, Record, Log
  <2>2. SameWalk /\ SameCount /\ pc \in InHand /\ pc' \in InHand \cup {"items"}
    BY <1>7, <2>1, HandShape
  <2> QED
    BY <2>2 DEF HourCounted, CapHolds, SameWalk, SameCount, Kind, InPass, InHand
<1>8. CASE Log
  <2>1. /\ pass'.hour = pass.hour + 1 /\ pass'.kind = pass.kind
        /\ recent' = [recent EXCEPT ![Kind] = @ + 1] /\ pc = "log" /\ pc' = "items"
    BY <1>1, <1>8 DEF Log, PassType
  <2>2. recent[Kind] <= pass.hour /\ (Cap[Kind] = 0 \/ pass.hour < Cap[Kind])
    BY <2>1 DEF HourCounted, InPass, InHand
  <2>3. recent'[Kind] = recent[Kind] + 1 /\ \A x \in Kinds : x # Kind => recent'[x] = recent[x]
    BY <1>1, <2>1
  <2>4. HourCounted'
    BY <1>1, <2>1, <2>2, <2>3 DEF HourCounted, Kind, InHand
  <2>5. CapHolds'
    BY <1>1, <2>2, <2>3 DEF CapHolds
  <2> QED
    BY <2>4, <2>5
<1>9. CASE Environment
  <2>1. UNCHANGED cycleVars
    BY <1>9, OutsideShape
  <2>2. \A x \in Kinds : recent'[x] <= recent[x]
    <3>1. CASE \E x \in Kinds : HourPasses(x)
      BY <1>1, <3>1 DEF HourPasses
    <3>2. CASE ~ \E x \in Kinds : HourPasses(x)
      <4>1. recent' = recent
        BY <1>9, <3>2 DEF Environment, Released, QueueMoves, GraceRowsAge, HotWindowCloses, Rests,
             RoundEnds, CooldownEnds, Leaves, dbVars
      <4> QED
        BY <1>1, <4>1
    <3> QED
      BY <3>1, <3>2
  <2>3. \A x \in Kinds : recent'[x] \in Nat
    BY <1>9, EnvironmentTypes DEF TypeOK
  <2> QED
    BY <1>1, <2>1, <2>2, <2>3 DEF HourCounted, CapHolds, cycleVars, Kind
<1>10. CASE UNCHANGED vars
  BY <1>10 DEF vars, HourCounted, CapHolds, cycleVars, dbVars, Kind
<1> QED
  BY <1>2, <1>3, <1>4, <1>5, <1>6, <1>7, <1>8, <1>9, <1>10 DEF Next, CycleStep, PassStep

-----------------------------------------------------------------------------
\* The rows of the release gate.
LEMMA RowStep ==
  ASSUME TypeOK, RowsOfItems, GateRowHonest, [Next]_vars
  PROVE  RowsOfItems' /\ GateRowHonest'
<1>1. pass \in PassType /\ Items \cap Groups = {}
  BY ItemsOK DEF TypeOK
<1>2. CASE \/ SkipPass \/ Persist \/ CycleDies \/ (BeginUpgrade /\ NextPass)
  <2>1. gateRows' = {} /\ pass'.cleared = {}
    BY <1>2 DEF SkipPass, Persist, CycleDies, NextPass, NoPass
  <2> QED
    BY <2>1 DEF RowsOfItems, GateRowHonest
<1>3. CASE \/ \E t \in Triggers : StartCycle(t)
           \/ \E answer \in Gates : AskGates(answer)
           \/ BeginInOrder \/ BeginAtRandom \/ PagesDone \/ FetchPage \/ FetchNothing \/ PageEnd
           \/ (BeginUpgrade /\ ~NextPass)
           \/ FetchQueue \/ AlreadyQueued \/ Send \/ Rejected \/ Accepted \/ Record \/ Log
  <2>1. gateRows' = gateRows /\ pass'.cleared \in {pass.cleared, {}} /\ pc # "persist"
    <3>1. CASE (\E t \in Triggers : StartCycle(t)) \/ \E answer \in Gates : AskGates(answer)
      BY <3>1 DEF StartCycle, AskGates, NoPass, history
    <3>2. CASE BeginInOrder \/ BeginAtRandom
      BY <3>2 DEF BeginInOrder, BeginAtRandom, Opened, NoPass, history
    <3>3. CASE PagesDone \/ FetchPage \/ FetchNothing \/ PageEnd
      BY <1>1, <3>3 DEF PagesDone, FetchPage, FetchNothing, PageEnd, MorePages, PassType, history
    <3>4. CASE FetchQueue \/ AlreadyQueued \/ Send \/ Rejected \/ Accepted \/ Record \/ Log
      BY <1>1, <3>4 DEF FetchQueue, AlreadyQueued, Send, Rejected, Accepted, Record, Log, PassType, history
    <3>5. CASE BeginUpgrade /\ ~NextPass
      BY <3>5 DEF BeginUpgrade, NoPass, history
    <3> QED
      BY <1>3, <3>1, <3>2, <3>3, <3>4, <3>5
  <2> QED
    BY <2>1 DEF RowsOfItems, GateRowHonest
<1>4. ASSUME NEW n \in pass.left, TakePad(n) \/ \E i \in Items : Candidate(n, i)
      PROVE  RowsOfItems' /\ GateRowHonest'
  <2>1. pc = "items" /\ gateRows \subseteq Items
    BY <1>4, TakeShape DEF RowsOfItems
  <2>2. CASE TakePad(n)
    BY <1>1, <2>1, <2>2 DEF TakePad, Without, PassType, history, RowsOfItems, GateRowHonest
  <2>3. ASSUME NEW i \in Items, Candidate(n, i), ~Blocked(n, i) PROVE RowsOfItems' /\ GateRowHonest'
    <3>1. gateRows' = gateRows
      BY <2>3 DEF Candidate, Duplicate, PassOver, StopAtCap, Choose, history
    <3>2. pass'.cleared \in {pass.cleared, pass.cleared \cup {Id(i)}}
          /\ (pass'.cleared # pass.cleared => InGroup(i))
      BY <1>1, <2>3 DEF Candidate, Duplicate, PassOver, StopAtCap, Choose, Marked, Without, PassType
    <3>3. pass'.cleared \subseteq Groups
      BY <3>2, IdType DEF RowsOfItems
    <3> QED
      BY <1>1, <2>1, <3>1, <3>3 DEF RowsOfItems, GateRowHonest
  <2>4. ASSUME NEW i \in Items, Blocked(n, i) PROVE RowsOfItems' /\ GateRowHonest'
    <3>1. pass'.cleared = pass.cleared
      BY <1>1, <2>4 DEF Blocked, Without, PassType
    <3>2. gateRows' \in {gateRows, gateRows \cup {Id(i)}} /\ (gateRows' # gateRows => ~InGroup(i))
      BY <2>4 DEF Blocked, GateRow, Blocks, TypeOK
    <3>3. gateRows' \subseteq Items
      BY <2>1, <3>2, IdType
    <3> QED
      BY <1>1, <3>1, <3>3 DEF RowsOfItems, GateRowHonest
  <2> QED
    BY <1>4, <2>2, <2>3, <2>4
<1>5. CASE Flush
  BY <1>5 DEF Flush, RowsOfItems, GateRowHonest
<1>6. CASE Environment \/ UNCHANGED vars
  BY <1>6, OutsideShape DEF RowsOfItems, GateRowHonest, cycleVars, history
<1> QED
  BY <1>2, <1>3, <1>4, <1>5, <1>6 DEF Next, CycleStep, PassStep

-----------------------------------------------------------------------------
\* The deck: a page leaves it when it is drawn, and is read after it has left.
LEMMA DrawFacts ==
  ASSUME TypeOK, DrawnOnce, Kind \in Wanted, NEW max, NEW p, DrawPage(max, p)
  PROVE  /\ \A x \in Wanted : deck'[x].left \cap deck'[x].seen = {}
         /\ p \notin deck'[Kind].left \cup deck'[Kind].seen
<1>1. deck \in [Wanted -> DeckType]
  BY DEF TypeOK
<1>2. p \in Deck(max).left /\ Deck(max).left \cap Deck(max).seen = {}
  BY DEF DrawPage, Deck, DrawnOnce
<1>3. deck' = [deck EXCEPT ![Kind] = [Deck(max) EXCEPT !.left = @ \ {p}]]
  BY DEF DrawPage
<1>4. \E d : Deck(max) = [max |-> d.max, left |-> d.left, seen |-> d.seen]
  BY <1>1 DEF Deck, DeckType
<1>5. /\ deck'[Kind].left = Deck(max).left \ {p} /\ deck'[Kind].seen = Deck(max).seen
      /\ \A x \in Wanted \ {Kind} : deck'[x] = deck[x]
  BY <1>1, <1>3, <1>4
<1> QED
  BY <1>2, <1>5 DEF DrawnOnce

LEMMA DeckStep ==
  ASSUME TypeOK, PassStage, DrawnOnce, [Next]_vars
  PROVE  DrawnOnce'
<1>1. pass \in PassType /\ deck \in [Wanted -> DeckType]
  BY DEF TypeOK
<1>2. CASE \/ \E t \in Triggers : StartCycle(t)
           \/ \E answer \in Gates : AskGates(answer)
           \/ SkipPass \/ Persist \/ CycleDies \/ (BeginUpgrade /\ NextPass)
  <2>1. pc' \notin InPass
    BY <1>2 DEF StartCycle, AskGates, SkipPass, Persist, CycleDies, NextPass, InPass, InHand
  <2>2. \A x \in Wanted : deck'[x].left \cap deck'[x].seen = {}
    BY <1>1, <1>2 DEF StartCycle, AskGates, SkipPass, Persist, CycleDies, BeginUpgrade, DrawnOnce
  <2> QED
    BY <2>1, <2>2 DEF DrawnOnce, InPass
<1>3. CASE BeginInOrder \/ (BeginUpgrade /\ ~NextPass)
  <2>1. deck' = deck /\ pass'.max = 0
    BY <1>3 DEF BeginInOrder, BeginUpgrade, Opened, NoPass
  <2> QED
    BY <2>1 DEF DrawnOnce
<1>4. CASE BeginAtRandom
  <2>1. PICK p : /\ \E max : DrawPage(max, p)
                 /\ pass'.page = p /\ pass'.kind = pass.kind /\ pc' = "pages" /\ Kind \in Wanted
    BY <1>4 DEF BeginAtRandom, Opened, NoPass, Kind
  <2> QED
    BY <2>1, DrawFacts DEF DrawnOnce, Kind, InHand
<1>5. CASE FetchNothing
  <2>1. Kind \in Wanted /\ pass'.kind = pass.kind /\ pc = "pages" /\ pc' \in {"pages", "flush"}
    BY <1>1, <1>5 DEF FetchNothing, MorePages, PassStage, PassType
  <2>2. ASSUME NEW p, DrawPage(pass.max, p), pass'.page = p PROVE DrawnOnce'
    BY <2>1, <2>2, DrawFacts DEF DrawnOnce, Kind, InHand
  <2>3. CASE pass.max = 0
    <3>1. \/ UNCHANGED <<pass, deck>>
          \/ UNCHANGED deck /\ pass' = [pass EXCEPT !.page = 1, !.wrapped = TRUE, !.visits = @ + 1]
      BY <1>5, <2>3 DEF FetchNothing
    <3>2. pass'.max = 0 /\ deck' = deck
      BY <1>1, <2>3, <3>1 DEF PassType
    <3> QED
      BY <3>2 DEF DrawnOnce
  <2>4. CASE pass.max # 0
    <3>1. \E p : DrawPage(pass.max, p) /\ pass'.page = p
      BY <1>1, <1>5, <2>4 DEF FetchNothing, PassType
    <3> QED
      BY <2>2, <3>1
  <2> QED
    BY <2>3, <2>4
<1>6. CASE FetchPage
  <2>1. /\ Kind \in Wanted /\ pc = "pages" /\ ~Full /\ pc' = "items"
        /\ pass'.kind = pass.kind /\ pass'.page = pass.page /\ pass'.max = pass.max
    BY <1>1, <1>6 DEF FetchPage, MorePages, PassStage, PassType
  <2>2. deck' = IF pass.max = 0 THEN deck ELSE [deck EXCEPT ![Kind].seen = @ \cup {pass.page}]
    BY <1>6 DEF FetchPage
  <2>3. CASE pass.max = 0
    BY <2>1, <2>2, <2>3 DEF DrawnOnce
  <2>4. CASE pass.max # 0
    <3>1. pass.page \notin deck[Kind].left
      BY <1>1, <2>1, <2>4 DEF DrawnOnce, PassType
    <3>2. /\ deck'[Kind].left = deck[Kind].left
          /\ deck'[Kind].seen = deck[Kind].seen \cup {pass.page}
          /\ \A x \in Wanted \ {Kind} : deck'[x] = deck[x]
      BY <1>1, <2>1, <2>2, <2>4 DEF DeckType
    <3> QED
      BY <2>1, <3>1, <3>2 DEF DrawnOnce, Kind
  <2> QED
    BY <2>3, <2>4
<1>7. CASE PageEnd
  <2>1. pass'.kind = pass.kind /\ pc = "items" /\ pc' \in {"pages", "flush"}
    BY <1>1, <1>7 DEF PageEnd, PassType
  <2>2. ASSUME UNCHANGED <<pass, deck>>, pc' = "flush" \/ Full PROVE DrawnOnce'
    BY <2>1, <2>2 DEF DrawnOnce, Full, Kind, InHand
  <2>3. CASE pass.max = 0
    <3>1. pass'.max = 0 /\ deck' = deck
      BY <1>1, <1>7, <2>3 DEF PageEnd, PassType
    <3> QED
      BY <3>1 DEF DrawnOnce
  <2>4. CASE pass.max # 0
    <3>1. Kind \in Wanted
      BY <1>1, <2>1, <2>4 DEF DrawnOnce, PassType
    <3>2. \/ UNCHANGED <<pass, deck>> /\ (pc' = "flush" \/ Full)
          \/ \E p : DrawPage(pass.max, p) /\ pass'.page = p
      BY <1>1, <1>7, <2>4 DEF PageEnd, PassType
    <3>3. ASSUME NEW p, DrawPage(pass.max, p), pass'.page = p PROVE DrawnOnce'
      BY <2>1, <3>1, <3>3, DrawFacts DEF DrawnOnce, Kind, InHand
    <3> QED
      BY <2>2, <3>2, <3>3
  <2> QED
    BY <2>3, <2>4
<1>8. CASE \/ \E n \in pass.left : TakePad(n) \/ \E i \in Items : Candidate(n, i)
           \/ FetchQueue \/ AlreadyQueued \/ Send \/ Rejected \/ Accepted \/ Record \/ Log
  <2>1. SameWalk /\ pc \in {"items"} \cup InHand /\ pc' \in {"items", "flush"} \cup InHand
    BY <1>8, TakeShape, HandShape DEF InHand
  <2> QED
    BY <2>1 DEF DrawnOnce, SameWalk, Kind, InHand
<1>9. CASE PagesDone \/ Flush
  BY <1>9 DEF PagesDone, Flush, DrawnOnce, InHand
<1>10. CASE Environment \/ UNCHANGED vars
  BY <1>10, OutsideShape DEF DrawnOnce, cycleVars, Kind, Full
<1> QED
  BY <1>2, <1>3, <1>4, <1>5, <1>6, <1>7, <1>8, <1>9, <1>10 DEF Next, CycleStep, PassStep

-----------------------------------------------------------------------------
(***************************************************************************)
(* The theorems                                                            *)
(***************************************************************************)
LEMMA InitIInv == Init => IInv
<1> SUFFICES ASSUME Init PROVE IInv
  OBVIOUS
<1>1. StoreOK
  <2>1. (CHOOSE i \in Items : TRUE) \in Items
    BY ItemsOK
  <2> QED
    BY <2>1, ItemsOK DEF Init, StoreOK, PCs
<1>2. DeckOK
  BY DEF Init, DeckOK, DeckType
<1>3. PassOK
  BY NoPassType DEF Init, PassOK
<1>4. TypeOK
  BY <1>1, <1>2, <1>3 DEF TypeOK, StoreOK, DeckOK, PassOK
<1>5. PassStage /\ HourCounted /\ CapHolds
  BY SettingFields DEF Init, PassStage, HourCounted, CapHolds, InPass, InHand
<1>6. RowsOfItems /\ GateRowHonest /\ DrawnOnce
  BY DEF Init, NoPass, RowsOfItems, GateRowHonest, DrawnOnce, InHand
<1> QED
  BY <1>4, <1>5, <1>6 DEF IInv

LEMMA StepIInv == IInv /\ [Next]_vars => IInv'
  BY TypeStep, StageStep, HourStep, RowStep, DeckStep DEF IInv

THEOREM Invariance == Spec => []IInv
  BY InitIInv, StepIInv, PTL DEF Spec

\* Every variable of a cycle, its log and its cooldowns keeps its type.
THEOREM CycleTypes == Spec => []TypeOK
<1>1. IInv => TypeOK
  BY DEF IInv
<1> QED
  BY <1>1, Invariance, PTL

\* The hourly cap holds although a pass reads the log once (search_loop.py:985,
\* 1167-1185): its own count starts at the log's and both go up together, while
\* other rows only grow old.
THEOREM CapIsKept == Spec => []CapHolds
<1>1. IInv => CapHolds
  BY DEF IInv
<1> QED
  BY <1>1, Invariance, PTL

\* No order of records, slots handed back or pages makes the gate write a "not yet
\* released" row of a parent some record of which was cleared
\* (search_loop.py:423-487).
THEOREM GateRowsAreHonest == Spec => []GateRowHonest
<1>1. IInv => GateRowHonest
  BY DEF IInv
<1> QED
  BY <1>1, Invariance, PTL

\* A random-order pass reads no page twice between two shuffles, whatever the list
\* does meanwhile (search_loop.py:96-143).
THEOREM PagesReadOnce == Spec => NoPageTwice
<1> DEFINE Reads ==
      \A x \in Wanted :
        pc = "pages" /\ pc' = "items" /\ pass.kind = x /\ pass.max > 0 =>
          pass.page \notin deck[x].seen
<1>1. ASSUME IInv, [Next]_vars PROVE [Reads]_vars
  <2> SUFFICES ASSUME NEW x \in Wanted, pc = "pages", pc' = "items", pass.kind = x, pass.max > 0
               PROVE  pass.page \notin deck[x].seen
    OBVIOUS
  <2>1. FetchPage
    <3>1. ~(Environment \/ UNCHANGED vars)
      BY OutsideShape DEF cycleVars
    <3>2. ~((\E t \in Triggers : StartCycle(t)) \/ (\E answer \in Gates : AskGates(answer))
            \/ CycleDies)
      BY DEF StartCycle, AskGates, CycleDies
    <3>3. ~(SkipPass \/ BeginInOrder \/ BeginAtRandom \/ BeginUpgrade \/ PagesDone \/ FetchNothing
            \/ PageEnd \/ Flush \/ Persist)
      BY DEF SkipPass, BeginInOrder, BeginAtRandom, BeginUpgrade, PagesDone, FetchNothing, PageEnd,
             Flush, Persist
    <3>4. ~(\/ \E n \in pass.left : TakePad(n) \/ \E i \in Items : Candidate(n, i)
            \/ FetchQueue \/ AlreadyQueued \/ Send \/ Rejected \/ Accepted \/ Record \/ Log)
      <4>1. TypeOK
        BY <1>1 DEF IInv
      <4> QED
        BY <4>1, TakeShape, HandShape DEF InHand
    <3> QED
      BY <1>1, <3>1, <3>2, <3>3, <3>4 DEF Next, CycleStep, PassStep
  <2>2. ~Full
    BY <2>1 DEF FetchPage, MorePages
  <2> QED
    BY <1>1, <2>2 DEF IInv, DrawnOnce, Kind
<1> QED
  BY <1>1, Invariance, PTL DEF Spec, NoPageTwice

-----------------------------------------------------------------------------
(***************************************************************************)
(* Searched once per cycle: the marks of the pass, the history of the      *)
(* commands and the rows of the download queue                             *)
(***************************************************************************)
\* A record in hand is marked; between passes there are no marks.
Marks ==
  /\ pc \in InHand => Id(cur) \in pass.items /\ (InGroup(cur) => Id(cur) \in pass.groups)
  /\ pc \in {"idle", "gates", "begin"} =>
       pass.items = {} /\ pass.groups = {} /\ pass.heldQueue = {} /\ pass.heldRelease = {}

\* The kinds whose pass has nothing but the cooldown to keep it from searching what
\* an earlier pass of the cycle searched.
Shut == {"cutoff", "upgrade"}

\* What a cycle searched is cooling down, or about to be, for the later passes; for
\* the missing pass, which may search through a cooldown, it is marked.
SentOnce ==
  /\ OncePerCycle
  /\ pc = "gates" \/ (pc = "begin" /\ Kind = "missing") => \A d \in Ids : sent[d] = 0
  /\ pc \in {"queue", "sent"} => sent[Id(cur)] = 0
  /\ pc # "idle" => \A d \in Ids :
       sent[d] # 0 => Shut \subseteq cool[d] \/ (pc = "record" /\ d = Id(cur))
  /\ pc \in InPass /\ Kind = "missing" => \A d \in Ids :
       sent[d] # 0 => d \in pass.items /\ (d \in Groups => d \in pass.groups)

\* An id with a queue row keeps its mark, and a parent that waits for its row either
\* was not searched or holds a slot, which spares it the row.
QueuedOnce ==
  /\ pc \in {"idle", "gates", "begin"} => queueRows = {}
  /\ pc # "persist" => queueRows \subseteq Items \cap pass.items
  /\ pc \in InHand => Id(cur) \notin queueRows
  /\ \A d \in queueRows : sent[d] = 0
  /\ pass.heldQueue \subseteq Groups
  /\ \A d \in pass.heldQueue : sent[d] = 0 \/ d \in pass.groups

SameMarks ==
  /\ pass'.kind = pass.kind /\ pass'.items = pass.items /\ pass'.groups = pass.groups
  /\ pass'.heldQueue = pass.heldQueue /\ pass'.heldRelease = pass.heldRelease

NoMarks ==
  pass.items = {} /\ pass.groups = {} /\ pass.heldQueue = {} /\ pass.heldRelease = {}

\* What the search rules read and a page walk leaves alone.
SameRecord == UNCHANGED <<history, cur, cool, logVars, gate, trigger>>

\* Between passes.
EdgeStep ==
  \/ \E t \in Triggers : StartCycle(t)
  \/ \E answer \in Gates : AskGates(answer)
  \/ SkipPass \/ Persist \/ CycleDies \/ (BeginUpgrade /\ NextPass)

\* To the next page or slot.
WalkStep ==
  \/ BeginInOrder \/ BeginAtRandom \/ (BeginUpgrade /\ ~NextPass)
  \/ PagesDone \/ FetchPage \/ FetchNothing \/ PageEnd
  \/ \E n \in pass.left : TakePad(n)

TakeStep == \E n \in pass.left, i \in Items : Candidate(n, i)

HandStep == FetchQueue \/ AlreadyQueued \/ Send \/ Rejected \/ Accepted \/ Record \/ Log

LEMMA StepCases ==
  ASSUME [Next]_vars
  PROVE  EdgeStep \/ WalkStep \/ TakeStep \/ HandStep \/ Flush \/ Environment \/ UNCHANGED vars
  BY DEF Next, CycleStep, PassStep, EdgeStep, WalkStep, TakeStep, HandStep

LEMMA EdgeShape ==
  ASSUME TypeOK, Marks, EdgeStep
  PROVE  /\ NoMarks' /\ pc' \in {"idle", "gates", "begin"} /\ cur' = cur
         /\ UNCHANGED <<cool, logVars, gate, owed>>
<1>1. CASE \E t \in Triggers : StartCycle(t)
  BY <1>1 DEF StartCycle, Marks, NoMarks, dbVars, logVars, arrVars
<1>2. CASE \E answer \in Gates : AskGates(answer)
  BY <1>2 DEF AskGates, NoMarks, NoPass, dbVars, logVars, arrVars, history
<1>3. CASE SkipPass \/ Persist \/ CycleDies \/ (BeginUpgrade /\ NextPass)
  BY <1>3 DEF SkipPass, Persist, CycleDies, BeginUpgrade, NextPass, NoMarks, NoPass, dbVars, logVars,
              arrVars, history
<1> QED
  BY <1>1, <1>2, <1>3 DEF EdgeStep

LEMMA WalkShape ==
  ASSUME TypeOK, Marks, WalkStep
  PROVE  /\ SameMarks /\ SameRecord
         /\ pc \in {"begin", "pages", "items"} /\ pc' \in {"pages", "items", "flush"}
<1>1. pass \in PassType
  BY DEF TypeOK
<1>2. CASE BeginInOrder
  BY <1>2 DEF BeginInOrder, Opened, NoPass, Marks, SameMarks, SameRecord, dbVars, arrVars, Kind
<1>3. CASE BeginAtRandom
  <2>1. PICK p, max : pass' = [Opened(offset[Kind]) EXCEPT !.page = p, !.max = max]
    BY <1>3, Zenon DEF BeginAtRandom
  <2>2. SameMarks
    BY <1>3, <2>1 DEF BeginAtRandom, Opened, NoPass, Marks, SameMarks, Kind
  <2> QED
    BY <1>3, <2>2 DEF BeginAtRandom, SameRecord, dbVars, arrVars
<1>4. CASE BeginUpgrade /\ ~NextPass
  <2> DEFINE pool == wanted[Kind]
             at   == IF Random THEN 0 ELSE offset[Kind] % Len(pool)
  <2>1. pass' = [NoPass EXCEPT !.kind = Kind, !.start = at, !.hour = recent[Kind],
                   !.list = SubSeq(pool, at + 1, Len(pool)) \o SubSeq(pool, 1, at),
                   !.size = Len(pool), !.left = 1 .. Len(pool)]
    BY <1>4, Zenon DEF BeginUpgrade
  <2> HIDE DEF pool, at
  <2>2. PICK a, l, z, f :
          pass' = [NoPass EXCEPT !.kind = Kind, !.start = a, !.hour = recent[Kind],
                                 !.list = l, !.size = z, !.left = f]
    BY <2>1
  <2>3. pc = "begin" /\ pc' = "items"
    BY <1>4 DEF BeginUpgrade
  <2>4. SameMarks
    BY <2>2, <2>3 DEF NoPass, Marks, SameMarks, Kind
  <2>5. SameRecord
    BY <1>4 DEF BeginUpgrade, SameRecord, dbVars, arrVars
  <2> QED
    BY <2>3, <2>4, <2>5
<1>5. CASE PagesDone \/ FetchPage \/ FetchNothing \/ PageEnd
  BY <1>1, <1>5 DEF PagesDone, FetchPage, FetchNothing, PageEnd, MorePages, PassType, SameMarks,
                    SameRecord, dbVars, arrVars
<1>6. CASE \E n \in pass.left : TakePad(n)
  BY <1>1, <1>6 DEF TakePad, Takes, Without, PassType, SameMarks, SameRecord, dbVars, arrVars
<1> QED
  BY <1>2, <1>3, <1>4, <1>5, <1>6 DEF WalkStep

LEMMA MarkedFields ==
  ASSUME TypeOK, NEW n, NEW i \in Items
  PROVE  /\ Marked(n, i).kind = pass.kind /\ Marked(n, i).heldQueue = pass.heldQueue
         /\ Marked(n, i).heldRelease = pass.heldRelease
         /\ Marked(n, i).items = pass.items \cup {Id(i)}
         /\ Marked(n, i).groups = IF InGroup(i) THEN pass.groups \cup {Id(i)} ELSE pass.groups
<1>1. pass \in PassType
  BY DEF TypeOK
<1> QED
  BY <1>1 DEF Marked, Without, PassType

\* A candidate that is not searched.
LEMMA TakeMarks ==
  ASSUME TypeOK, NEW n \in pass.left, NEW i \in Items, Candidate(n, i), ~Choose(n, i)
  PROVE  /\ pc = "items" /\ pc' \in {"items", "flush"}
         /\ UNCHANGED <<sent, queueRows, cur, cool, gate, trigger>>
         /\ pass'.kind = pass.kind /\ pass'.heldQueue = pass.heldQueue
         /\ pass.items \subseteq pass'.items /\ pass.groups \subseteq pass'.groups
<1>1. pass \in PassType
  BY DEF TypeOK
<1>2. pc = "items"
  BY TakeShape
<1>3. CASE Duplicate(n, i)
  BY <1>1, <1>2, <1>3 DEF Duplicate, Without, PassType, history, dbVars, arrVars
<1>4. CASE Blocked(n, i)
  <2>1. pc' = pc /\ UNCHANGED <<sent, queueRows, cur, cool, gate, trigger>>
    BY <1>4 DEF Blocked, dbVars, arrVars
  <2>2. \/ pass' = [Without(n) EXCEPT !.heldRelease = @ \cup {i}]
        \/ pass' = [Without(n) EXCEPT !.items = IF InGroup(i) THEN @ ELSE @ \cup {Id(i)}]
    BY <1>4 DEF Blocked
  <2>3. pass'.kind = pass.kind /\ pass'.heldQueue = pass.heldQueue
        /\ pass.items \subseteq pass'.items /\ pass.groups \subseteq pass'.groups
    BY <1>1, <2>2 DEF Without, PassType
  <2> QED
    BY <1>2, <2>1, <2>3
<1>5. CASE PassOver(n, i)
  <2>1. \E z : pass' = Marked(n, i) \/ pass' = [Marked(n, i) EXCEPT !.scanned = z]
    BY <1>5 DEF PassOver
  <2>2. /\ pass'.kind = pass.kind /\ pass'.heldQueue = pass.heldQueue
        /\ pass.items \subseteq pass'.items /\ pass.groups \subseteq pass'.groups
    <3>1. Marked(n, i) \in PassType
      BY MarkedType
    <3>2. /\ pass'.kind = Marked(n, i).kind /\ pass'.heldQueue = Marked(n, i).heldQueue
          /\ pass'.items = Marked(n, i).items /\ pass'.groups = Marked(n, i).groups
      BY <2>1, <3>1 DEF PassType
    <3> QED
      BY <3>2, MarkedFields
  <2> QED
    BY <1>2, <1>5, <2>2 DEF PassOver, history, dbVars, arrVars
<1>6. CASE StopAtCap(n, i)
  BY <1>2, <1>6, MarkedFields DEF StopAtCap, history, dbVars, arrVars
<1> QED
  BY <1>3, <1>4, <1>5, <1>6 DEF Candidate

\* The candidate that is.
LEMMA ChooseMarks ==
  ASSUME TypeOK, NEW n \in pass.left, NEW i \in Items, Choose(n, i)
  PROVE  /\ pc = "items" /\ pc' = "queue" /\ cur' = i
         /\ UNCHANGED <<history, cool, logVars, gate, trigger>>
         /\ pass'.kind = pass.kind /\ pass'.heldQueue = pass.heldQueue
         /\ pass'.heldRelease = pass.heldRelease
         /\ pass'.items = pass.items \cup {Id(i)}
         /\ pass'.groups = IF InGroup(i) THEN pass.groups \cup {Id(i)} ELSE pass.groups
         /\ ~Repeated(i) /\ Eligible(i)
<1>1. pc = "items"
  BY DEF Choose, Fresh, Holds, Takes
<1> QED
  BY <1>1, MarkedFields DEF Choose, Fresh, dbVars, arrVars

\* With a record in hand the pass keeps its marks, unless the record is queued.
LEMMA HandMarks ==
  ASSUME TypeOK, HandStep, ~AlreadyQueued
  PROVE  SameMarks /\ UNCHANGED <<cur, gate, trigger, queueRows>>
<1>1. pass \in PassType
  BY DEF TypeOK
<1>2. CASE FetchQueue \/ Rejected \/ Accepted \/ Record
  BY <1>2 DEF FetchQueue, Rejected, Accepted, Record, SameMarks, arrVars, history
<1>3. CASE Send \/ Log
  BY <1>1, <1>3 DEF Send, Log, PassType, SameMarks, arrVars, history
<1> QED
  BY <1>2, <1>3 DEF HandStep

LEMMA QueuedMarks ==
  ASSUME TypeOK, AlreadyQueued
  PROVE  /\ pc = "queue" /\ pc' = "items" /\ UNCHANGED <<sent, owed, cur, cool, logVars, gate, trigger>>
         /\ pass'.kind = pass.kind /\ pass'.heldRelease = pass.heldRelease
         /\ \/ /\ InGroup(cur) /\ queueRows' = queueRows
               /\ pass'.items = pass.items \ {Id(cur)} /\ pass'.groups = pass.groups \ {Id(cur)}
               /\ pass'.heldQueue = pass.heldQueue \cup {Id(cur)}
            \/ /\ ~InGroup(cur) /\ queueRows' = queueRows \cup {Id(cur)}
               /\ pass' = pass
  BY DEF AlreadyQueued, TypeOK, PassType, arrVars, dbVars

LEMMA MarksStep ==
  ASSUME TypeOK, Marks, [Next]_vars
  PROVE  Marks'
<1>1. CASE EdgeStep
  BY <1>1, EdgeShape DEF Marks, NoMarks, InHand
<1>2. CASE WalkStep
  BY <1>2, WalkShape DEF Marks, InHand
<1>3. CASE TakeStep
  <2>1. PICK n \in pass.left, i \in Items : Candidate(n, i)
    BY <1>3 DEF TakeStep
  <2>2. CASE Choose(n, i)
    <3>1. Id(cur)' = Id(i) /\ InGroup(cur)' = InGroup(i) /\ pc' = "queue"
      BY <2>2, ChooseMarks DEF Id, InGroup, Kind
    <3>2. Id(i) \in pass'.items /\ (InGroup(i) => Id(i) \in pass'.groups)
      BY <2>2, ChooseMarks
    <3> QED
      BY <3>1, <3>2 DEF Marks
  <2>3. CASE ~Choose(n, i)
    BY <2>1, <2>3, TakeMarks DEF Marks, InHand
  <2> QED
    BY <2>2, <2>3
<1>4. CASE HandStep
  <2>1. CASE AlreadyQueued
    BY <2>1, QueuedMarks DEF Marks, InHand
  <2>2. CASE ~AlreadyQueued
    <3>1. SameMarks /\ cur' = cur /\ pc \in InHand /\ pc' \in InHand \cup {"items"}
      BY <1>4, <2>2, HandMarks, HandShape DEF HandStep
    <3> QED
      BY <3>1 DEF Marks, SameMarks, InHand, Id, InGroup, Kind
  <2> QED
    BY <2>1, <2>2
<1>5. CASE Flush
  BY <1>5 DEF Flush, Marks, InHand
<1>6. CASE Environment \/ UNCHANGED vars
  BY <1>6, OutsideShape DEF Marks, cycleVars, Id, InGroup, Kind, InHand
<1> QED
  BY <1>1, <1>2, <1>3, <1>4, <1>5, <1>6, StepCases

\* Time does not end a cooldown the running cycle started.
LEMMA CoolingKept ==
  ASSUME TypeOK, Environment \/ UNCHANGED vars, pc # "idle", NEW d \in Ids, sent[d] # 0
  PROVE  cool'[d] = cool[d]
<1>1. sent[d] \in Nat /\ sent[d] > 0 /\ cool \in [Ids -> SUBSET Kinds]
  BY DEF TypeOK
<1>2. ASSUME NEW x \in Kinds, RoundEnds(x) PROVE cool'[d] = cool[d]
  BY <1>1, <1>2 DEF RoundEnds
<1>3. ASSUME NEW x \in Kinds, NEW e \in Ids, CooldownEnds(x, e) PROVE cool'[d] = cool[d]
  BY <1>1, <1>3 DEF CooldownEnds
<1>4. CASE UNCHANGED vars
  BY <1>4 DEF vars, dbVars
<1>5. CASE \/ \E i \in Items : Released(i)
           \/ \E i \in Downloads : QueueMoves(i)
           \/ \E e \in Ids : GraceRowsAge(e) \/ HotWindowCloses(e) \/ Rests(e)
           \/ \E x \in Kinds : HourPasses(x)
           \/ \E x \in Kinds : \E n \in DOMAIN wanted[x] : Leaves(x, n)
  BY <1>5 DEF Released, QueueMoves, GraceRowsAge, HotWindowCloses, Rests, HourPasses, Leaves, dbVars
<1> QED
  BY <1>2, <1>3, <1>4, <1>5 DEF Environment

LEMMA EdgeSent ==
  ASSUME TypeOK, SentOnce, EdgeStep
  PROVE  \/ \A d \in Ids : sent'[d] = 0
         \/ /\ sent' = sent /\ pc \notin {"idle", "gates", "record"} /\ pc' \in {"begin", "idle"}
            /\ pc' = "begin" => Kind' # "missing"
         \/ sent' = sent /\ pc' = "idle"
<1>1. CASE \E t \in Triggers : StartCycle(t)
  BY <1>1 DEF StartCycle
<1>2. CASE \E answer \in Gates : AskGates(answer)
  BY <1>2 DEF AskGates, SentOnce, history
<1>3. CASE SkipPass \/ Persist \/ (BeginUpgrade /\ NextPass)
  <2>1. sent' = sent /\ NextPass /\ pc \notin {"idle", "gates", "record"}
    BY <1>3 DEF SkipPass, Persist, BeginUpgrade, history
  <2>2. pass'.kind = IF Kind = "missing" THEN "cutoff" ELSE
                     IF Kind = "cutoff" THEN "upgrade" ELSE "missing"
    BY <2>1 DEF NextPass, NoPass
  <2>3. pc' = IF Kind = "upgrade" THEN "idle" ELSE "begin"
    BY <2>1 DEF NextPass
  <2>4. Kind \in Kinds
    BY PassFields
  <2> QED
    BY <2>1, <2>2, <2>3, <2>4 DEF Kinds, Kind
<1>4. CASE CycleDies
  BY <1>4 DEF CycleDies
<1> QED
  BY <1>1, <1>2, <1>3, <1>4 DEF EdgeStep

\* A record chosen was not searched before in this cycle: the marks keep the missing
\* pass from it, and its cooldown the passes that may not search through one.
LEMMA ChosenUnsent ==
  ASSUME TypeOK, SentOnce, NEW n \in pass.left, NEW i \in Items, Choose(n, i)
  PROVE  sent[Id(i)] = 0
<1>1. pc = "items" /\ ~Repeated(i) /\ Eligible(i) /\ Id(i) \in Ids /\ Kind \in Kinds
  BY ChooseMarks, IdType, PassFields
<1>2. CASE Kind = "missing"
  <2>1. sent[Id(i)] # 0 => Id(i) \in pass.items /\ (Id(i) \in Groups => Id(i) \in pass.groups)
    BY <1>1, <1>2 DEF SentOnce, InPass
  <2> QED
    BY <1>1, <2>1, IdType DEF Repeated
<1>3. CASE Kind # "missing"
  <2>1. Kind \notin cool[Id(i)] /\ Kind \in Shut
    BY <1>1, <1>3 DEF Eligible, Retries, Cooling, Kinds, Shut
  <2> QED
    BY <1>1, <2>1 DEF SentOnce
<1> QED
  BY <1>2, <1>3

LEMMA SentStep ==
  ASSUME "cutoff" \in Cooled, TypeOK, Marks, SentOnce, [Next]_vars
  PROVE  SentOnce'
<1>1. Shut \subseteq Cooled /\ sent \in [Ids -> Nat] /\ cool \in [Ids -> SUBSET Kinds]
  BY SettingsOK DEF Shut, TypeOK
<1>2. CASE EdgeStep
  <2>1. pc' \in {"idle", "gates", "begin"} /\ cool' = cool
    BY <1>2, EdgeShape
  <2>2. CASE \A d \in Ids : sent'[d] = 0
    BY <2>1, <2>2 DEF SentOnce, OncePerCycle, InPass, InHand
  <2>3. CASE ~ \A d \in Ids : sent'[d] = 0
    <3>1. /\ sent' = sent /\ pc' \in {"begin", "idle"}
          /\ pc' = "begin" => Kind' # "missing" /\ pc \notin {"idle", "record"}
      BY <1>2, <2>3, EdgeSent
    <3> QED
      BY <2>1, <3>1 DEF SentOnce, OncePerCycle, InPass, InHand
  <2> QED
    BY <2>2, <2>3
<1>3. CASE WalkStep
  <2>1. /\ SameMarks /\ sent' = sent /\ cool' = cool
        /\ pc \in {"begin", "pages", "items"} /\ pc' \in {"pages", "items", "flush"}
    BY <1>3, WalkShape DEF SameRecord, history
  <2> QED
    BY <2>1 DEF SentOnce, OncePerCycle, SameMarks, Kind, InPass
<1>4. CASE TakeStep
  <2>1. PICK n \in pass.left, i \in Items : Candidate(n, i)
    BY <1>4 DEF TakeStep
  <2>2. CASE Choose(n, i)
    <3>1. /\ pc = "items" /\ pc' = "queue" /\ cur' = i /\ sent' = sent /\ cool' = cool
          /\ pass'.kind = pass.kind /\ pass.items \subseteq pass'.items
          /\ pass.groups \subseteq pass'.groups
      BY <2>2, ChooseMarks DEF history
    <3>2. sent[Id(i)] = 0 /\ Id(cur)' = Id(i)
      BY <2>2, <3>1, ChosenUnsent DEF Id, InGroup, Kind
    <3> QED
      BY <3>1, <3>2 DEF SentOnce, OncePerCycle, Kind, InPass
  <2>3. CASE ~Choose(n, i)
    <3>1. /\ pc = "items" /\ pc' \in {"items", "flush"} /\ sent' = sent /\ cool' = cool
          /\ pass'.kind = pass.kind /\ pass.items \subseteq pass'.items
          /\ pass.groups \subseteq pass'.groups
      BY <2>1, <2>3, TakeMarks
    <3> QED
      BY <3>1 DEF SentOnce, OncePerCycle, Kind, InPass
  <2> QED
    BY <2>2, <2>3
<1>5. CASE HandStep
  <2>1. cur \in Items /\ Id(cur) \in Ids
    BY IdType DEF TypeOK
  <2>2. CASE AlreadyQueued
    <3>1. /\ pc = "queue" /\ pc' = "items" /\ sent' = sent /\ cool' = cool /\ pass'.kind = pass.kind
          /\ pass.items \ {Id(cur)} \subseteq pass'.items
          /\ pass.groups \ {Id(cur)} \subseteq pass'.groups
      BY <2>2, QueuedMarks
    <3>2. sent[Id(cur)] = 0
      BY <3>1 DEF SentOnce
    <3> QED
      BY <3>1, <3>2 DEF SentOnce, OncePerCycle, Kind, InPass, InHand
  <2>3. CASE ~AlreadyQueued
    <3>1. SameMarks /\ cur' = cur /\ Id(cur)' = Id(cur) /\ Kind' = Kind
      BY <1>5, <2>3, HandMarks DEF SameMarks, Id, InGroup, Kind
    <3>2. CASE FetchQueue \/ Send \/ Rejected
      <4>1. /\ sent' = sent /\ cool' = cool /\ pc \in {"queue", "sent"}
            /\ pc' \in {"queue", "sent", "items"}
        BY <3>2 DEF FetchQueue, Send, Rejected, history, dbVars
      <4> QED
        BY <3>1, <4>1 DEF SentOnce, OncePerCycle, SameMarks, InPass, InHand
    <3>3. CASE Accepted
      <4>1. /\ pc = "sent" /\ pc' = "record" /\ cool' = cool
            /\ sent' = [sent EXCEPT ![Id(cur)] = @ + 1]
        BY <3>3 DEF Accepted, dbVars
      <4>2. sent[Id(cur)] = 0
        BY <4>1 DEF SentOnce
      <4>3. sent'[Id(cur)] = 1 /\ \A d \in Ids : d # Id(cur) => sent'[d] = sent[d]
        BY <1>1, <2>1, <4>1, <4>2
      <4>4. /\ Id(cur) \in pass.items /\ (InGroup(cur) => Id(cur) \in pass.groups)
            /\ Id(cur) \in Groups => InGroup(cur)
        <5>1. Id(cur) \in Groups => InGroup(cur)
          BY <2>1, IdType, ItemsOK
        <5> QED
          BY <4>1, <5>1 DEF Marks, InHand
      <4> QED
        BY <3>1, <4>1, <4>3, <4>4 DEF SentOnce, OncePerCycle, SameMarks, InPass, InHand
    <3>4. CASE Record
      <4>1. /\ pc = "record" /\ pc' = "log" /\ sent' = sent
            /\ cool' = [cool EXCEPT ![Id(cur)] = Cooled]
        BY <3>4 DEF Record, history
      <4>2. cool'[Id(cur)] = Cooled /\ \A d \in Ids : d # Id(cur) => cool'[d] = cool[d]
        BY <1>1, <2>1, <4>1
      <4> QED
        BY <1>1, <3>1, <4>1, <4>2 DEF SentOnce, OncePerCycle, SameMarks, InPass, InHand
    <3>5. CASE Log
      <4>1. pc = "log" /\ pc' = "items" /\ sent' = sent /\ cool' = cool
        BY <3>5 DEF Log, history
      <4> QED
        BY <3>1, <4>1 DEF SentOnce, OncePerCycle, SameMarks, InPass, InHand
    <3> QED
      BY <1>5, <2>3, <3>2, <3>3, <3>4, <3>5 DEF HandStep
  <2> QED
    BY <2>2, <2>3
<1>6. CASE Flush
  BY <1>6 DEF Flush, SentOnce, OncePerCycle, dbVars, Kind, InPass
<1>7. CASE Environment \/ UNCHANGED vars
  <2>1. sent' = sent /\ pc' = pc /\ pass' = pass /\ cur' = cur
    BY <1>7, OutsideShape DEF history, cycleVars
  <2>2. Id(cur)' = Id(cur)
    BY <2>1 DEF Id, InGroup, Kind
  <2>3. pc # "idle" => \A d \in Ids : sent[d] # 0 => cool'[d] = cool[d]
    BY <1>7, CoolingKept
  <2> QED
    BY <2>1, <2>2, <2>3 DEF SentOnce, OncePerCycle, Kind
<1> QED
  BY <1>2, <1>3, <1>4, <1>5, <1>6, <1>7, StepCases

LEMMA QueuedStep ==
  ASSUME TypeOK, Marks, SentOnce, QueuedOnce, [Next]_vars
  PROVE  QueuedOnce'
<1>1. Items \cap Groups = {} /\ cur \in Items /\ Id(cur) \in Ids /\ sent \in [Ids -> Nat]
  BY ItemsOK, IdType DEF TypeOK
<1>2. CASE EdgeStep
  <2>1. NoMarks' /\ pc' \in {"idle", "gates", "begin"}
    BY <1>2, EdgeShape
  <2>2. queueRows' = {}
    <3>1. CASE (\E t \in Triggers : StartCycle(t)) \/ \E answer \in Gates : AskGates(answer)
      BY <3>1 DEF StartCycle, AskGates, QueuedOnce, history
    <3>2. CASE SkipPass \/ Persist \/ CycleDies \/ (BeginUpgrade /\ NextPass)
      BY <3>2 DEF SkipPass, Persist, CycleDies, NextPass
    <3> QED
      BY <1>2, <3>1, <3>2 DEF EdgeStep
  <2> QED
    BY <2>1, <2>2 DEF NoMarks, QueuedOnce, InHand
<1>3. CASE WalkStep
  <2>1. /\ SameMarks /\ queueRows' = queueRows /\ sent' = sent
        /\ pc \in {"begin", "pages", "items"} /\ pc' \in {"pages", "items", "flush"}
    BY <1>3, WalkShape DEF SameRecord, history
  <2> QED
    BY <2>1 DEF QueuedOnce, SameMarks, InHand
<1>4. CASE TakeStep
  <2>1. PICK n \in pass.left, i \in Items : Candidate(n, i)
    BY <1>4 DEF TakeStep
  <2>2. CASE Choose(n, i)
    <3>1. /\ pc = "items" /\ pc' = "queue" /\ cur' = i /\ sent' = sent /\ queueRows' = queueRows
          /\ pass'.kind = pass.kind /\ pass.items \subseteq pass'.items
          /\ pass.groups \subseteq pass'.groups /\ pass'.heldQueue = pass.heldQueue /\ ~Repeated(i)
      BY <2>2, ChooseMarks DEF history
    <3>2. Id(cur)' = Id(i)
      BY <3>1 DEF Id, InGroup, Kind
    <3>3. Id(i) \notin queueRows
      <4>1. queueRows \subseteq Items \cap pass.items
        BY <3>1 DEF QueuedOnce
      <4> QED
        BY <1>1, <3>1, <4>1, IdType DEF Repeated
    <3> QED
      BY <3>1, <3>2, <3>3 DEF QueuedOnce
  <2>3. CASE ~Choose(n, i)
    <3>1. /\ pc = "items" /\ pc' \in {"items", "flush"} /\ sent' = sent /\ queueRows' = queueRows
          /\ pass.items \subseteq pass'.items /\ pass.groups \subseteq pass'.groups
          /\ pass'.heldQueue = pass.heldQueue
      BY <2>1, <2>3, TakeMarks
    <3> QED
      BY <3>1 DEF QueuedOnce, InHand
  <2> QED
    BY <2>2, <2>3
<1>5. CASE HandStep
  <2>1. CASE AlreadyQueued
    <3>1. /\ pc = "queue" /\ pc' = "items" /\ sent' = sent
          /\ sent[Id(cur)] = 0 /\ Id(cur) \in pass.items
      BY <2>1, QueuedMarks DEF SentOnce, Marks, InHand
    <3>2. CASE InGroup(cur)
      <4>1. /\ queueRows' = queueRows /\ pass'.items = pass.items \ {Id(cur)}
            /\ pass'.groups = pass.groups \ {Id(cur)}
            /\ pass'.heldQueue = pass.heldQueue \cup {Id(cur)}
        BY <2>1, <3>2, QueuedMarks
      <4>2. Id(cur) \in Groups
        BY <1>1, <3>2, IdType
      <4> QED
        BY <3>1, <4>1, <4>2 DEF QueuedOnce, InHand
    <3>3. CASE ~InGroup(cur)
      <4>1. queueRows' = queueRows \cup {Id(cur)} /\ pass' = pass
        BY <2>1, <3>3, QueuedMarks
      <4>2. Id(cur) \in Items
        BY <1>1, <3>3, IdType
      <4> QED
        BY <3>1, <4>1, <4>2 DEF QueuedOnce, InHand
    <3> QED
      BY <3>2, <3>3
  <2>2. CASE ~AlreadyQueued
    <3>1. /\ SameMarks /\ queueRows' = queueRows /\ Id(cur)' = Id(cur)
          /\ pc \in InHand /\ pc' \in InHand \cup {"items"}
      BY <1>5, <2>2, HandMarks, HandShape DEF HandStep, SameMarks, Id, InGroup, Kind
    <3>2. CASE Accepted
      <4>1. sent' = [sent EXCEPT ![Id(cur)] = @ + 1]
        BY <3>2 DEF Accepted
      <4>2. \A d \in Ids : d # Id(cur) => sent'[d] = sent[d]
        BY <1>1, <4>1
      <4>3. Id(cur) \notin queueRows
        BY <3>1 DEF QueuedOnce
      <4>4. Id(cur) \in pass.heldQueue => Id(cur) \in pass.groups
        BY <1>1, <3>1, IdType DEF QueuedOnce, Marks
      <4>5. queueRows \subseteq Ids /\ pass.heldQueue \subseteq Ids
        BY PassFields DEF TypeOK
      <4> QED
        BY <3>1, <4>2, <4>3, <4>4, <4>5 DEF QueuedOnce, SameMarks, InHand
    <3>3. CASE ~Accepted
      <4>1. sent' = sent
        BY <1>5, <2>2, <3>3 DEF HandStep, FetchQueue, Send, Rejected, Record, Log, history
      <4> QED
        BY <3>1, <4>1 DEF QueuedOnce, SameMarks, InHand
    <3> QED
      BY <3>2, <3>3
  <2> QED
    BY <2>1, <2>2
<1>6. CASE Flush
  <2>1. /\ pc' = "persist" /\ pass' = pass /\ sent' = sent
        /\ queueRows' = queueRows \cup (pass.heldQueue \ pass.groups)
    BY <1>6 DEF Flush
  <2> QED
    BY <2>1 DEF QueuedOnce, InHand
<1>7. CASE Environment \/ UNCHANGED vars
  BY <1>7, OutsideShape DEF QueuedOnce, history, cycleVars, Id, InGroup, Kind, InHand
<1> QED
  BY <1>2, <1>3, <1>4, <1>5, <1>6, <1>7, StepCases

-----------------------------------------------------------------------------
(***************************************************************************)
(* What arms a retry: the rows of the release gate and their history       *)
(***************************************************************************)
\* What a record of the missing pass is searched as.
MissingId(i) == IF GroupOf[i] # NoGroup THEN GroupOf[i] ELSE i

\* The log's reason for an id is backed by a row nobody has acted on since, but for
\* the moment between a command's acceptance and its row.
Armed ==
  \A d \in Ids : latest[d] # "none" =>
    \/ \E o \in owed : MissingId(o[1]) = d
    \/ pc \in {"record", "log"} /\ Kind = "missing" /\ d = Id(cur)

\* A record whose grace row is still owed an attempt is out of grace, or among those
\* the hold waits for.
GraceHeld ==
  /\ \A o \in owed : o[2] = "grace" => gate[o[1]] = "clear" \/ o[1] \in graced[MissingId(o[1])]
  /\ pc \in {"record", "log"} /\ Kind = "missing" => \A o \in owed : MissingId(o[1]) # Id(cur)
  /\ pass.heldRelease # {} => Kind = "missing"

LEMMA MissingIds ==
  /\ \A i \in Items : MissingId(i) \in Ids
  /\ Kind = "missing" => \A i \in Items : Id(i) = MissingId(i)
  BY ItemsOK DEF MissingId, Id, InGroup, Ids

\* The rows a candidate writes.
LEMMA TakeRows ==
  ASSUME TypeOK, NEW n \in pass.left, NEW i \in Items, Candidate(n, i)
  PROVE  /\ pc = "items" /\ pc' \notin {"record", "log"} /\ gate' = gate
         /\ pass'.kind = pass.kind
         /\ pass'.heldRelease # {} => pass.heldRelease # {} \/ Kind = "missing"
         /\ \/ UNCHANGED <<latest, graced, owed>>
            \/ /\ Kind = "missing" /\ gate[i] \in {"unreleased", "grace"}
               /\ latest' = [latest EXCEPT ![MissingId(i)] = gate[i]]
               /\ owed' = owed \cup {<<i, gate[i]>>}
               /\ graced' = [graced EXCEPT ![MissingId(i)] =
                              IF gate[i] = "grace" THEN @ \cup {i} ELSE @]
<1>1. pass \in PassType /\ Kind \in Kinds /\ gate[i] \in {"unreleased", "grace", "clear"}
  BY PassFields DEF TypeOK
<1>2. CASE Blocked(n, i)
  <2>1. /\ pc = "items" /\ pc' = pc /\ gate' = gate /\ pass'.kind = pass.kind
    BY <1>1, <1>2 DEF Blocked, Holds, Takes, Without, PassType, arrVars
  <2>2. CASE InGroup(i) /\ gate[i] = "unreleased"
    <3>1. Kind = "missing"
      BY <1>2, <2>2 DEF Blocked, Blocks, InGroup, Wanted
    <3> QED
      BY <1>2, <2>1, <2>2, <3>1 DEF Blocked, logVars
  <2>3. CASE ~(InGroup(i) /\ gate[i] = "unreleased")
    <3>1. GateRow(i, gate[i]) /\ gate[i] # "clear"
      BY <1>2, <2>3 DEF Blocked, Blocks
    <3>2. pass'.heldRelease = pass.heldRelease
      BY <1>1, <1>2, <2>3 DEF Blocked, Without, PassType
    <3>3. Kind = "missing" => Id(i) = MissingId(i)
      BY MissingIds
    <3> QED
      BY <1>1, <2>1, <3>1, <3>2, <3>3 DEF GateRow, logVars
  <2> QED
    BY <2>2, <2>3
<1>3. CASE Choose(n, i)
  BY <1>3, ChooseMarks DEF history, logVars
<1>4. CASE ~Blocked(n, i) /\ ~Choose(n, i)
  <2>1. pc = "items" /\ pc' \in {"items", "flush"} /\ gate' = gate /\ pass'.kind = pass.kind
    BY <1>4, TakeMarks
  <2>2. UNCHANGED <<latest, graced, owed>>
    BY <1>4 DEF Candidate, Duplicate, PassOver, StopAtCap, history, logVars
  <2>3. pass'.heldRelease = pass.heldRelease
    <3>1. CASE Duplicate(n, i)
      BY <1>1, <3>1 DEF Duplicate, Without, PassType
    <3>2. CASE PassOver(n, i)
      <4>1. \E z : pass' = Marked(n, i) \/ pass' = [Marked(n, i) EXCEPT !.scanned = z]
        BY <3>2 DEF PassOver
      <4>2. Marked(n, i) \in PassType
        BY MarkedType
      <4>3. pass'.heldRelease = Marked(n, i).heldRelease
        BY <4>1, <4>2 DEF PassType
      <4> QED
        BY <4>3, MarkedFields
    <3>3. CASE StopAtCap(n, i)
      BY <3>3, MarkedFields DEF StopAtCap
    <3> QED
      BY <1>4, <3>1, <3>2, <3>3 DEF Candidate
  <2> QED
    BY <2>1, <2>2, <2>3
<1> QED
  BY <1>2, <1>3, <1>4

\* The rows a command or a rejection writes, and what they answer.
LEMMA HandRows ==
  ASSUME TypeOK, HandStep
  PROVE  /\ gate' = gate /\ Id(cur)' = Id(cur) /\ Kind' = Kind /\ cur' = cur
         /\ pass'.heldRelease = pass.heldRelease
         /\ \/ /\ UNCHANGED <<latest, graced, owed>>
               /\ \/ pc \notin {"record", "log"} /\ pc' \notin {"record", "log"}
                  \/ Record
            \/ Accepted /\ UNCHANGED <<latest, graced>> /\ owed' = Unowed /\ pc' = "record"
            \/ Rejected /\ DispatchRow /\ owed' = Unowed /\ pc' = "items"
            \/ Log /\ DispatchRow /\ UNCHANGED owed /\ pc = "log" /\ pc' = "items"
<1>1. CASE AlreadyQueued
  BY <1>1, QueuedMarks DEF Id, InGroup, Kind, logVars
<1>2. CASE ~AlreadyQueued
  <2>1. SameMarks /\ cur' = cur /\ gate' = gate
    BY <1>2, HandMarks
  <2>2. Id(cur)' = Id(cur) /\ Kind' = Kind
    BY <2>1 DEF SameMarks, Id, InGroup, Kind
  <2>3. CASE FetchQueue \/ Send
    BY <2>1, <2>2, <2>3 DEF FetchQueue, Send, SameMarks, history, logVars
  <2>4. CASE Record
    BY <2>1, <2>2, <2>4 DEF Record, SameMarks, history, logVars
  <2>5. CASE Accepted
    BY <2>1, <2>2, <2>5 DEF Accepted, SameMarks, logVars
  <2>6. CASE Rejected
    BY <2>1, <2>2, <2>6 DEF Rejected, SameMarks
  <2>7. CASE Log
    BY <2>1, <2>2, <2>7 DEF Log, SameMarks, history
  <2> QED
    BY <1>2, <2>3, <2>4, <2>5, <2>6, <2>7 DEF HandStep
<1> QED
  BY <1>1, <1>2

LEMMA OutsideRows ==
  ASSUME TypeOK, Environment \/ UNCHANGED vars
  PROVE  /\ UNCHANGED <<latest, owed, cur, pc, pass, trigger>>
         /\ \A i \in Items : gate[i] = "clear" => gate'[i] = "clear"
         /\ \A d \in Ids : \A i \in graced[d] : i \in graced'[d] \/ gate'[i] = "clear"
<1>1. UNCHANGED <<owed, cur, pc, pass, trigger>>
  BY OutsideShape DEF cycleVars, history
<1>2. latest' = latest
  BY DEF Environment, Released, QueueMoves, GraceRowsAge, HotWindowCloses, Rests, HourPasses,
         RoundEnds, CooldownEnds, Leaves, logVars, vars
<1>3. ASSUME NEW j \in Items, Released(j)
      PROVE  graced' = graced /\ \A i \in Items : gate[i] = "clear" => gate'[i] = "clear"
  BY <1>3 DEF Released, TypeOK, logVars
<1>4. ASSUME NEW e \in Ids, GraceRowsAge(e)
      PROVE  gate' = gate
             /\ \A d \in Ids : \A i \in graced[d] : i \in graced'[d] \/ gate'[i] = "clear"
  BY <1>4 DEF GraceRowsAge, TypeOK, arrVars
<1>5. ASSUME ~ \E j \in Items : Released(j), ~ \E e \in Ids : GraceRowsAge(e)
      PROVE  gate' = gate /\ graced' = graced
  BY <1>5 DEF Environment, QueueMoves, HotWindowCloses, Rests, HourPasses, RoundEnds, CooldownEnds,
              Leaves, arrVars, logVars, vars
<1> QED
  BY <1>1, <1>2, <1>3, <1>4, <1>5

LEMMA UnownedRows ==
  ASSUME TypeOK
  PROVE  /\ Unowed \subseteq owed
         /\ Kind = "missing" => Unowed = {o \in owed : MissingId(o[1]) # Id(cur)}
         /\ Kind # "missing" => Unowed = owed
<1>1. \A o \in owed : o[1] \in Items
  BY DEF TypeOK
<1> QED
  BY <1>1, MissingIds DEF Unowed

\* What the end of a pass writes.
LEMMA FlushRows ==
  ASSUME TypeOK, GraceHeld, Flush
  PROVE  /\ pc' = "persist" /\ UNCHANGED <<gate, graced, pass, cur>>
         /\ owed \subseteq owed' /\ \A o \in owed' \ owed : o[2] = "unreleased"
         /\ \A d \in Ids : latest'[d] # latest[d] => \E o \in owed' : MissingId(o[1]) = d
<1> DEFINE late == {i \in pass.heldRelease : Id(i) \notin pass.cleared}
<1>1. /\ pc' = "persist" /\ UNCHANGED <<gate, graced, pass, cur>>
      /\ owed' = owed \cup (late \X {"unreleased"})
      /\ latest' = [d \in Ids |-> IF \E i \in late : d = Id(i) THEN "unreleased" ELSE latest[d]]
  BY DEF Flush, arrVars
<1>2. \A i \in late : i \in Items /\ Id(i) = MissingId(i)
  BY PassFields, MissingIds DEF GraceHeld
<1> HIDE DEF late
<1>3. ASSUME NEW d \in Ids, latest'[d] # latest[d] PROVE \E o \in owed' : MissingId(o[1]) = d
  <2>1. PICK i \in late : d = Id(i)
    BY <1>1, <1>3
  <2>2. <<i, "unreleased">> \in owed' /\ MissingId(<<i, "unreleased">>[1]) = d
    BY <1>1, <1>2, <2>1
  <2> QED
    BY <2>2
<1> QED
  BY <1>1, <1>3

LEMMA ArmedStep ==
  ASSUME MayDie = FALSE, TypeOK, Marks, GraceHeld, Armed, [Next]_vars
  PROVE  Armed'
<1>1. latest \in [Ids -> {"none", "unreleased", "grace"}] /\ cur \in Items /\ Id(cur) \in Ids
  BY IdType DEF TypeOK
<1>2. CASE EdgeStep
  <2>1. UNCHANGED <<latest, owed>>
    BY <1>2, EdgeShape DEF logVars
  <2>2. pc \notin {"record", "log"}
    BY <1>2 DEF EdgeStep, StartCycle, AskGates, SkipPass, Persist, CycleDies, BeginUpgrade
  <2> QED
    BY <2>1, <2>2 DEF Armed
<1>3. CASE WalkStep
  BY <1>3, WalkShape DEF Armed, SameRecord, history, logVars
<1>4. CASE TakeStep
  <2>1. PICK n \in pass.left, i \in Items : Candidate(n, i)
    BY <1>4 DEF TakeStep
  <2>2. CASE UNCHANGED <<latest, graced, owed>>
    BY <2>1, <2>2, TakeRows DEF Armed
  <2>3. CASE ~UNCHANGED <<latest, graced, owed>>
    <3>1. /\ pc = "items" /\ latest' = [latest EXCEPT ![MissingId(i)] = gate[i]]
          /\ owed' = owed \cup {<<i, gate[i]>>}
      BY <2>1, <2>3, TakeRows
    <3>2. /\ \A d \in Ids : d # MissingId(i) => latest'[d] = latest[d]
          /\ <<i, gate[i]>> \in owed' /\ MissingId(<<i, gate[i]>>[1]) = MissingId(i)
      BY <1>1, <3>1, MissingIds
    <3> QED
      BY <3>1, <3>2 DEF Armed
  <2> QED
    BY <2>2, <2>3
<1>5. CASE HandStep
  <2>1. Id(cur)' = Id(cur) /\ Kind' = Kind
    BY <1>5, HandRows
  <2>2. CASE UNCHANGED <<latest, graced, owed>>
    <3>1. \/ pc \notin {"record", "log"}
          \/ Record
          \/ Accepted /\ owed' = Unowed /\ pc' = "record"
          \/ Rejected /\ DispatchRow /\ owed' = Unowed
          \/ Log /\ DispatchRow
      BY <1>5, HandRows
    <3>2. Record => pc = "record" /\ pc' = "log"
      BY DEF Record
    <3>3. Rejected => pc = "sent"
      BY DEF Rejected
    <3>4. Accepted => pc = "sent"
      BY DEF Accepted
    <3>5. CASE Log
      <4>1. Kind = "missing" => latest'[Id(cur)] = "none"
        BY <1>1, <1>5, <3>5, HandRows DEF DispatchRow, Log
      <4> QED
        BY <2>1, <2>2, <4>1 DEF Armed
    <3> QED
      BY <2>1, <2>2, <3>1, <3>2, <3>3, <3>4, <3>5 DEF Armed
  <2>3. CASE ~UNCHANGED <<latest, graced, owed>>
    <3>1. CASE Accepted
      <4>1. pc = "sent" /\ pc' = "record" /\ latest' = latest /\ owed' = Unowed
        BY <3>1 DEF Accepted, logVars
      <4>2. \A d \in Ids : latest[d] # "none" => \E o \in owed : MissingId(o[1]) = d
        BY <4>1 DEF Armed
      <4> QED
        BY <2>1, <4>1, <4>2, UnownedRows DEF Armed
    <3>2. CASE Rejected \/ Log
      <4>1. DispatchRow /\ pc' = "items" /\ (Rejected => pc = "sent")
        BY <3>2 DEF Rejected, Log
      <4>2. CASE Kind = "missing"
        <5>1. latest'[Id(cur)] = "none" /\ \A d \in Ids : d # Id(cur) => latest'[d] = latest[d]
          BY <1>1, <4>1, <4>2 DEF DispatchRow
        <5>2. \A o \in owed : MissingId(o[1]) # Id(cur) => o \in owed'
          BY <3>2, <4>2, UnownedRows DEF Rejected, Log, history
        <5>3. ASSUME NEW d \in Ids, latest'[d] # "none" PROVE \E o \in owed' : MissingId(o[1]) = d
          <6>1. d # Id(cur) /\ latest[d] # "none"
            BY <5>1, <5>3
          <6>2. PICK o \in owed : MissingId(o[1]) = d
            BY <6>1 DEF Armed
          <6> QED
            BY <5>2, <6>1, <6>2
        <5> QED
          BY <5>3 DEF Armed
      <4>3. CASE Kind # "missing"
        <5>1. latest' = latest /\ owed' = owed
          BY <3>2, <4>1, <4>3, UnownedRows DEF DispatchRow, Rejected, Log, history, logVars
        <5> QED
          BY <4>3, <5>1 DEF Armed
      <4> QED
        BY <4>2, <4>3
    <3> QED
      BY <1>5, <2>3, <3>1, <3>2, HandRows
  <2> QED
    BY <2>2, <2>3
<1>6. CASE Flush
  <2>1. pc = "flush"
    BY <1>6 DEF Flush
  <2> QED
    BY <1>6, <2>1, FlushRows DEF Armed
<1>7. CASE Environment \/ UNCHANGED vars
  BY <1>7, OutsideRows DEF Armed, Id, InGroup, Kind
<1> QED
  BY <1>2, <1>3, <1>4, <1>5, <1>6, <1>7, StepCases

LEMMA GraceStep ==
  ASSUME TypeOK, Marks, GraceHeld, [Next]_vars
  PROVE  GraceHeld'
<1>1. /\ graced \in [Ids -> SUBSET Items] /\ cur \in Items /\ Id(cur) \in Ids
      /\ \A o \in owed : o[1] \in Items /\ MissingId(o[1]) \in Ids
  BY IdType, MissingIds DEF TypeOK
<1>2. CASE EdgeStep
  <2>1. UNCHANGED <<graced, gate, owed>> /\ pass'.heldRelease = {} /\ pc' \notin {"record", "log"}
    BY <1>2, EdgeShape DEF logVars, NoMarks
  <2> QED
    BY <2>1 DEF GraceHeld
<1>3. CASE WalkStep
  <2>1. /\ UNCHANGED <<graced, gate, owed>> /\ pc' \notin {"record", "log"}
        /\ pass'.heldRelease = pass.heldRelease /\ pass'.kind = pass.kind
    BY <1>3, WalkShape DEF SameRecord, SameMarks, history, logVars
  <2> QED
    BY <2>1 DEF GraceHeld, Kind
<1>4. CASE TakeStep
  <2>1. PICK n \in pass.left, i \in Items : Candidate(n, i)
    BY <1>4 DEF TakeStep
  <2>2. /\ gate' = gate /\ pc' \notin {"record", "log"} /\ pass'.kind = pass.kind
        /\ pass'.heldRelease # {} => pass.heldRelease # {} \/ Kind = "missing"
    BY <2>1, TakeRows
  <2>3. CASE UNCHANGED <<latest, graced, owed>>
    BY <2>2, <2>3 DEF GraceHeld, Kind
  <2>4. CASE ~UNCHANGED <<latest, graced, owed>>
    <3>1. /\ owed' = owed \cup {<<i, gate[i]>>}
          /\ graced' = [graced EXCEPT ![MissingId(i)] = IF gate[i] = "grace" THEN @ \cup {i} ELSE @]
      BY <2>1, <2>4, TakeRows
    <3>2. MissingId(i) \in Ids
      BY MissingIds
    <3>3. /\ \A d \in Ids : graced[d] \subseteq graced'[d]
          /\ gate[i] = "grace" => i \in graced'[MissingId(i)]
      BY <1>1, <3>1, <3>2
    <3>4. \A o \in owed' : o \in owed \/ (o[1] = i /\ o[2] = gate[i])
      BY <3>1
    <3>5. \A o \in owed' : o[2] = "grace" => gate'[o[1]] = "clear" \/ o[1] \in graced'[MissingId(o[1])]
      BY <1>1, <2>2, <3>3, <3>4 DEF GraceHeld
    <3> QED
      BY <2>2, <3>5 DEF GraceHeld, Kind
  <2> QED
    BY <2>3, <2>4
<1>5. CASE HandStep
  <2>1. /\ gate' = gate /\ Id(cur)' = Id(cur) /\ Kind' = Kind /\ cur' = cur
        /\ pass'.heldRelease = pass.heldRelease
    BY <1>5, HandRows
  <2>2. CASE UNCHANGED <<latest, graced, owed>>
            /\ \/ pc \notin {"record", "log"} /\ pc' \notin {"record", "log"}
               \/ Record
    <3>1. Record => pc = "record"
      BY DEF Record
    <3> QED
      BY <2>1, <2>2, <3>1 DEF GraceHeld
  <2>3. CASE Accepted
    <3>1. graced' = graced /\ owed' = Unowed
      BY <2>3 DEF Accepted, logVars
    <3> QED
      BY <2>1, <3>1, UnownedRows DEF GraceHeld
  <2>4. CASE Rejected \/ Log
    <3>1. DispatchRow /\ pc' = "items" /\ owed' \subseteq owed
      BY <2>4, UnownedRows DEF Rejected, Log, history
    <3>2. Kind = "missing" => \A o \in owed' : MissingId(o[1]) # Id(cur)
      <4>1. CASE Rejected
        BY <4>1, UnownedRows DEF Rejected
      <4>2. CASE Log
        BY <4>2 DEF Log, GraceHeld, history
      <4> QED
        BY <2>4, <4>1, <4>2
    <3>3. \A d \in Ids : (Kind = "missing" /\ d = Id(cur)) \/ graced'[d] = graced[d]
      BY <1>1, <3>1 DEF DispatchRow, logVars
    <3>4. \A o \in owed' : graced'[MissingId(o[1])] = graced[MissingId(o[1])]
      BY <1>1, <3>1, <3>2, <3>3
    <3> QED
      BY <2>1, <3>1, <3>4 DEF GraceHeld
  <2> QED
    BY <1>5, <2>2, <2>3, <2>4, HandRows
<1>6. CASE Flush
  <2>1. /\ pc' = "persist" /\ UNCHANGED <<gate, graced, pass, cur>>
        /\ \A o \in owed' : o \in owed \/ o[2] = "unreleased"
    BY <1>6, FlushRows
  <2> QED
    BY <2>1 DEF GraceHeld, Kind
<1>7. CASE Environment \/ UNCHANGED vars
  <2>1. /\ UNCHANGED <<owed, cur, pc, pass>>
        /\ \A i \in Items : gate[i] = "clear" => gate'[i] = "clear"
        /\ \A d \in Ids : \A i \in graced[d] : i \in graced'[d] \/ gate'[i] = "clear"
    BY <1>7, OutsideRows
  <2>2. Id(cur)' = Id(cur) /\ Kind' = Kind
    BY <2>1 DEF Id, InGroup, Kind
  <2> QED
    BY <1>1, <2>1, <2>2 DEF GraceHeld
<1> QED
  BY <1>2, <1>3, <1>4, <1>5, <1>6, <1>7, StepCases

-----------------------------------------------------------------------------
LEMMA InitRecords == Init => Marks /\ SentOnce /\ QueuedOnce /\ Armed /\ GraceHeld
<1> SUFFICES ASSUME Init PROVE Marks /\ SentOnce /\ QueuedOnce /\ Armed /\ GraceHeld
  OBVIOUS
<1>1. Marks /\ QueuedOnce /\ Armed /\ GraceHeld
  BY DEF Init, NoPass, Marks, QueuedOnce, Armed, GraceHeld, InHand
<1>2. SentOnce
  BY DEF Init, SentOnce, OncePerCycle, InPass, InHand
<1> QED
  BY <1>1, <1>2

\* A parent or item is searched at most once in a cycle, whatever its records go
\* through (search_loop.py:1105-1136, 377-400), when the cutoff kind cools down too.
\* Without that a cycle may search in its cutoff pass what it searched in its missing
\* pass.  The upgrade kind always cools down.
THEOREM SearchedOnce ==
  ASSUME "cutoff" \in Cooled
  PROVE  Spec => []OncePerCycle
<1> DEFINE Inv == Marks /\ SentOnce
<1>1. Init => Inv
  BY InitRecords
<1>2. IInv /\ Inv /\ [Next]_vars => Inv'
  BY MarksStep, SentStep DEF IInv
<1>3. Inv => OncePerCycle
  BY DEF SentOnce
<1> QED
  BY <1>1, <1>2, <1>3, Invariance, PTL DEF Spec

\* A parent with a download-queue row was not searched in the same pass, in whatever
\* order its records were queued, searched and given their slot back
\* (search_loop.py:359-420).
THEOREM QueueRowsAreHonest ==
  ASSUME "cutoff" \in Cooled
  PROVE  Spec => []QueueRowHonest
<1> DEFINE Inv == Marks /\ SentOnce /\ QueuedOnce
<1>1. Init => Inv
  BY InitRecords
<1>2. IInv /\ Inv /\ [Next]_vars => Inv'
  BY MarksStep, SentStep, QueuedStep DEF IInv
<1>3. Inv => QueueRowHonest
  BY DEF QueuedOnce, QueueRowHonest
<1> QED
  BY <1>1, <1>2, <1>3, Invariance, PTL DEF Spec

\* A scheduled search of something that cools down is chosen from the missing list.
LEMMA RetryShape ==
  ASSUME TypeOK, [Next]_vars, NEW i \in Items, ScheduledRetry(i)
  PROVE  Kind = "missing" /\ Retries(i) /\ ~HeldBack(i)
<1>1. pc = "items" /\ pc' = "queue" /\ cur' = i
  BY DEF ScheduledRetry
<1>2. TakeStep
  <2>1. ~EdgeStep
    BY <1>1 DEF EdgeStep, StartCycle, AskGates, SkipPass, Persist, CycleDies, BeginUpgrade
  <2>2. ~WalkStep
    BY <1>1 DEF WalkStep, BeginInOrder, BeginAtRandom, BeginUpgrade, PagesDone, FetchPage,
                FetchNothing, PageEnd, MorePages, TakePad
  <2>3. ~(HandStep \/ Flush)
    BY <1>1, HandShape DEF HandStep, Flush, InHand
  <2>4. ~(Environment \/ UNCHANGED vars)
    BY <1>1, OutsideShape DEF cycleVars
  <2> QED
    BY <2>1, <2>2, <2>3, <2>4, StepCases
<1>3. PICK n \in pass.left, j \in Items : Candidate(n, j)
  BY <1>2 DEF TakeStep
<1>4. Choose(n, j)
  BY <1>1, <1>3, TakeMarks
<1> QED
  BY <1>1, <1>4, ChooseMarks DEF ScheduledRetry, Eligible, Retries

\* A scheduled search of something that cools down was earned by a release-timing row
\* nobody has acted on since, or by the hot retry interval
\* (how-scheduling-works.md:91).  The hypothesis leaves out kills: one between a
\* command's acceptance and its row leaves the old row in place, and the next cycle
\* retries on it.
THEOREM RetriesAreEarned ==
  ASSUME MayDie = FALSE
  PROVE  Spec => RetryEarned
<1> DEFINE Inv == Marks /\ Armed /\ GraceHeld
           Earned == \A i \in Items : ScheduledRetry(i) =>
                       Owed(Id(i)) # {} \/ (hot[Id(i)] /\ rested[Id(i)])
<1>1. Init => Inv
  BY InitRecords
<1>2. IInv /\ Inv /\ [Next]_vars => Inv'
  BY MarksStep, ArmedStep, GraceStep DEF IInv
<1>3. ASSUME IInv, Inv, [Next]_vars PROVE [Earned]_vars
  <2> SUFFICES ASSUME NEW i \in Items, ScheduledRetry(i), ~(hot[Id(i)] /\ rested[Id(i)])
               PROVE  Owed(Id(i)) # {}
    OBVIOUS
  <2>1. TypeOK
    BY <1>3 DEF IInv
  <2>2. Kind = "missing" /\ Retries(i) /\ pc = "items" /\ trigger = "scheduled"
    BY <1>3, <2>1, RetryShape DEF ScheduledRetry
  <2>3. latest[Id(i)] # "none" /\ Id(i) \in Ids
    BY <2>2, IdType DEF Retries
  <2>4. PICK o \in owed : MissingId(o[1]) = Id(i)
    BY <1>3, <2>2, <2>3 DEF Armed
  <2>5. o[1] \in Items
    BY <2>1 DEF TypeOK
  <2>6. Id(o[1]) = Id(i)
    BY <2>2, <2>4, <2>5, MissingIds
  <2> QED
    BY <2>6 DEF Owed
<1> QED
  BY <1>1, <1>2, <1>3, Invariance, PTL DEF Spec, RetryEarned

\* A scheduled retry of a parent waits for the records whose grace rows armed it, with
\* kills between any two steps (search_loop.py:663-706).
THEOREM RetriesWaitForGrace == Spec => RetryAfterGrace
<1> DEFINE Inv == Marks /\ GraceHeld
           Waits == \A i \in Items : ScheduledRetry(i) /\ InGroup(i) =>
                      \A o \in Owed(Id(i)) : o[2] = "grace" => gate[o[1]] = "clear"
<1>1. Init => Inv
  BY InitRecords
<1>2. IInv /\ Inv /\ [Next]_vars => Inv'
  BY MarksStep, GraceStep DEF IInv
<1>3. ASSUME IInv, Inv, [Next]_vars PROVE [Waits]_vars
  <2> SUFFICES ASSUME NEW i \in Items, ScheduledRetry(i), InGroup(i),
                      NEW o \in Owed(Id(i)), o[2] = "grace"
               PROVE  gate[o[1]] = "clear"
    OBVIOUS
  <2>1. TypeOK
    BY <1>3 DEF IInv
  <2>2. Kind = "missing" /\ ~HeldBack(i) /\ trigger = "scheduled"
    BY <1>3, <2>1, RetryShape DEF ScheduledRetry
  <2>3. graced[Id(i)] = {}
    BY <2>2 DEF HeldBack
  <2>4. o \in owed /\ Id(o[1]) = Id(i) /\ o[1] \in Items
    BY <2>1 DEF Owed, TypeOK
  <2>5. MissingId(o[1]) = Id(i)
    BY <2>2, <2>4, MissingIds
  <2> QED
    BY <1>3, <2>3, <2>4, <2>5 DEF GraceHeld
<1> QED
  BY <1>1, <1>2, <1>3, Invariance, PTL DEF Spec, RetryAfterGrace
=============================================================================
