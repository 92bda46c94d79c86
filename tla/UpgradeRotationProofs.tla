------------------------ MODULE UpgradeRotationProofs ------------------------
(***************************************************************************)
(* Theorems about UpgradeRotation: types, and what a fixed step of five    *)
(* series means for the coverage of a window of any size.                  *)
(***************************************************************************)
EXTENDS UpgradeRotation, TLAPS, FiniteSetTheorems, SequenceTheorems

\* Division with remainder.
LEMMA DivMod ==
  ASSUME NEW a \in Int, NEW n \in Nat \ {0}
  PROVE  /\ a \div n \in Int /\ a % n \in 0 .. n - 1
         /\ a = (a \div n) * n + (a % n)
OBVIOUS

\* The remainder is the only one.
LEMMA Remainder ==
  ASSUME NEW n \in Nat \ {0}, NEW q \in Int, NEW r \in 0 .. n - 1,
         NEW a \in Int, a = q * n + r
  PROVE  a % n = r
OBVIOUS

\* A positive multiple of n is no less than n.
LEMMA Multiple ==
  ASSUME NEW n \in Nat \ {0}, NEW x \in Int, x >= 1
  PROVE  x * n >= n
<1>1. x - 1 \in Nat /\ n \in Nat
  OBVIOUS
<1>2. (x - 1) * n >= 0
  BY <1>1
<1>3. x * n = (x - 1) * n + n
  OBVIOUS
<1> QED BY <1>2, <1>3

-----------------------------------------------------------------------------
InWindow(r, o, n, w) == InSlice(r, o, w) \/ InWrap(r, o, n, w)

\* With a window no smaller than the step, the offsets a rotation goes
\* through bring every place of a library of any size into the window
\* (fetch_upgrade_pool and the + 5 of _run_upgrade_pass).
THEOREM WindowCovers ==
  ASSUME NEW n \in Nat \ {0}, NEW w \in Nat, w >= SeriesStep,
         NEW o \in Nat, NEW r \in 0 .. n - 1
  PROVE  \E k \in Nat : InWindow(r, (o + k * SeriesStep) % n, n, w)
<1> DEFINE v == o * n + r
           k == (v - o) \div 5
           j == (v - o) % 5
<1>1. v \in Nat /\ v - o >= 0
  <2>1. o * n >= o
    <3>1. CASE o = 0
      BY <3>1
    <3>2. CASE o >= 1
      BY <3>2, o * n = n * o, n >= 1, Multiple
    <3> QED BY <3>1, <3>2
  <2> QED BY <2>1
<1>2. k \in Int /\ j \in 0 .. 4 /\ v - o = k * 5 + j
  BY <1>1, DivMod
<1>3. k \in Nat /\ o + k * 5 = v - j
  BY <1>1, <1>2
<1> HIDE DEF k, j
<1>4. InWindow(r, (v - j) % n, n, w)
  <2>1. (v - j) % n \in 0 .. n - 1
    BY <1>1, <1>2, DivMod
  <2>2. CASE j <= r
    <3>1. v - j = o * n + (r - j) /\ r - j \in 0 .. n - 1
      BY <1>2, <2>2
    <3>2. (v - j) % n = r - j
      <4> DEFINE x == v - j
                 y == r - j
      <4>1. x = o * n + y /\ y \in 0 .. n - 1 /\ x \in Int
        BY <3>1, <1>1, <1>2
      <4> HIDE DEF x, y
      <4>2. x % n = y
        BY <4>1, Remainder
      <4> QED BY <4>2 DEF x, y
    <3> QED BY <3>1, <3>2, <1>2, <2>2 DEF InWindow, InSlice, InWrap, SeriesStep
  <2>3. CASE r < j /\ j - r <= n
    <3>1. CASE j - r = n
      BY <3>1, <2>1, <2>3, <1>2 DEF InWindow, InSlice, InWrap, SeriesStep
    <3>2. CASE j - r < n
      <4>1. v - j = (o - 1) * n + (n + r - j) /\ n + r - j \in 0 .. n - 1
        BY <1>2, <2>3, <3>2
      <4>2. (v - j) % n = n + r - j
        <5> DEFINE x == v - j
                   y == n + r - j
                   q == o - 1
        <5>1. x = q * n + y /\ y \in 0 .. n - 1 /\ x \in Int /\ q \in Int
          BY <4>1, <1>1, <1>2
        <5> HIDE DEF x, y, q
        <5>2. x % n = y
          BY <5>1, Remainder
        <5> QED BY <5>2 DEF x, y
      <4> QED BY <4>1, <4>2, <1>2, <2>3 DEF InWindow, InSlice, InWrap, SeriesStep
    <3> QED BY <3>1, <3>2, <2>3, <1>2
  <2>4. CASE n < j - r
    BY <2>1, <2>4, <1>2 DEF InWindow, InSlice, InWrap, SeriesStep
  <2> QED BY <2>2, <2>3, <2>4, <1>2
<1> QED BY <1>3, <1>4 DEF SeriesStep

\* A window smaller than the step leaves series out for good: when the size of
\* the library is a multiple of five, so are all the offsets a rotation goes
\* through from 0, and a series past the window's end is never in it.
THEOREM NarrowWindowSkips ==
  ASSUME NEW m \in Nat \ {0}, NEW w \in Nat, w < SeriesStep,
         NEW b \in 0 .. m - 1, NEW k \in Nat
  PROVE  ~InWindow(b * 5 + w, (k * SeriesStep) % (m * 5), m * 5, w)
<1> DEFINE n == m * 5
           c == k % m
           d == k \div m
<1>1. n \in Nat \ {0}
  OBVIOUS
<1>2. d \in Int /\ c \in 0 .. m - 1 /\ k = d * m + c
  BY DivMod
<1> HIDE DEF c, d
<1>3. d * m \in Int /\ k * 5 = (d * m) * 5 + c * 5
  BY <1>2
<1>4. (d * m) * 5 = d * (m * 5)
  BY <1>2
<1>5. k * 5 = d * n + c * 5 /\ c * 5 \in 0 .. n - 1
  BY <1>2, <1>3, <1>4
<1>6. (k * 5) % n = c * 5
  <2> DEFINE x == k * 5
             y == c * 5
  <2>1. x = d * n + y /\ y \in 0 .. n - 1 /\ x \in Int
    BY <1>5
  <2> HIDE DEF x, y, n
  <2>2. x % n = y
    BY <1>1, <1>2, <2>1, Remainder
  <2> QED BY <2>2 DEF x, y
<1>7. ~InWindow(b * 5 + w, c * 5, n, w)
  BY <1>2 DEF InWindow, InSlice, InWrap, SeriesStep
<1> QED BY <1>6, <1>7 DEF SeriesStep

\* The item offset is taken modulo the pool of the day: whatever was reached
\* before, a cycle whose pool has few episodes leaves one below their number, and
\* the next cycle counts no place past that and its scan budget.  When every
\* other window is such a one, the tail of a larger pool is never reached
\* (the rotation of _run_upgrade_pass, search_loop.py:1507 and 1600-1643).
THEOREM SmallPoolHidesTail ==
  ASSUME NEW small \in Nat \ {0}, NEW n \in Nat, n >= small + Budget,
         NEW item \in Nat, NEW before \in Nat, NEW count \in 0 .. Budget - 1
  PROVE  NextItem(NextItem(item, small, before), n, count) < small + Budget - 1
<1> DEFINE s == NextItem(item, small, before)
<1>1. s \in 0 .. small - 1
  <2>1. item % small \in 0 .. small - 1
    BY item \in Int, DivMod
  <2> DEFINE a == (item % small) + before
  <2>2. a \in Int
    BY <2>1
  <2> HIDE DEF a
  <2>3. a % small \in 0 .. small - 1
    BY <2>2, DivMod
  <2> QED BY <2>3 DEF NextItem, a
<1> HIDE DEF s
<1>2. Budget \in Nat \ {0} /\ n \in Nat \ {0}
  BY PolicyOK
<1>3. s % n = s
  <2>1. s \in 0 .. n - 1 /\ s = 0 * n + s
    BY <1>1, <1>2
  <2> QED BY <1>2, <2>1, Remainder
<1>4. (s + count) % n = s + count
  <2> DEFINE a == s + count
  <2>1. a \in 0 .. n - 1 /\ a \in Int /\ a = 0 * n + a
    BY <1>1, <1>2
  <2> HIDE DEF a
  <2>2. a % n = a
    BY <1>2, <2>1, Remainder
  <2> QED BY <2>2 DEF a
<1>5. NextItem(s, n, count) = s + count
  BY <1>3, <1>4 DEF NextItem
<1> QED BY <1>1, <1>2, <1>5 DEF s

-----------------------------------------------------------------------------
(***************************************************************************)
(* Type correctness rests on facts about the owner of the lock: within a   *)
(* cycle there is one, where its pool is divided by it is not empty, and   *)
(* nothing is left to take of a pool that is yet to come.                  *)
(***************************************************************************)
PoolInHand ==
  /\ pc # "begin" => line # <<>>
  /\ pc \in {"scan", "stop"} => pool # {}
  /\ pc \in {"begin", "fetched"} => left = {}

IInv == TypeOK /\ PoolInHand

LEMMA PoolSize ==
  ASSUME NEW S \in SUBSET (Episodes \X {1, 2}), S # {}
  PROVE  Cardinality(S) \in Nat \ {0}
<1>1. IsFiniteSet(Episodes \X {1, 2})
  <2>1. IsFiniteSet({1, 2})
    <3>1. IsFiniteSet({1})
      BY FS_Singleton
    <3>2. IsFiniteSet({1} \cup {2})
      BY <3>1, FS_AddElement
    <3>3. {1, 2} = {1} \cup {2}
      OBVIOUS
    <3> QED BY <3>2, <3>3
  <2> QED BY <2>1, FS_Product, LibraryOK
<1>2. IsFiniteSet(S)
  BY <1>1, FS_Subset
<1> QED BY <1>2, FS_CardinalityType, FS_EmptySet

LEMMA LineFacts ==
  ASSUME TypeOK, line # <<>>
  PROVE  Owner \in Workers /\ Row \in Rows /\ Tail(line) \in Seq(Workers)
BY HeadTailProperties DEF TypeOK, Owner, Row

LEMMA InitType == Init => IInv
<1> SUFFICES ASSUME Init PROVE IInv
  OBVIOUS
<1>1. \A on \in BOOLEAN : Zero(on) \in Rows
  BY BoundsOK DEF Zero, Rows
<1>2. 0 \in 0 .. Budget /\ 0 \in 0 .. Batch /\ 0 \in 0 .. MaxEvents
  BY PolicyOK, BoundsOK
<1>3. monitored \subseteq Series /\ line \in Seq(Workers)
  BY LibraryOK DEF Init
<1> QED BY <1>1, <1>2, <1>3 DEF Init, IInv, TypeOK, PoolInHand

LEMMA LeaveType ==
  ASSUME IInv, line # <<>>, Leave
  PROVE  /\ line' \in Seq(Workers) /\ seen' \in [Workers -> Rows] /\ behind' \in BOOLEAN
         /\ pc' = "begin" /\ window' = {} /\ pool' = {} /\ left' = {}
         /\ scanned' = 0 /\ searched' = 0
<1>1. /\ pc' = "begin" /\ window' = {} /\ pool' = {} /\ left' = {}
      /\ scanned' = 0 /\ searched' = 0
  BY DEF Leave, Idle
<1>2. NoRow \in Rows
  BY BoundsOK DEF NoRow, Zero, Rows
<1>3. seen' \in [Workers -> Rows]
  BY <1>2 DEF IInv, TypeOK, Leave
<1>4. line' \in Seq(Workers) /\ behind' \in BOOLEAN
  BY LineFacts DEF IInv, TypeOK, Leave
<1> QED
  BY <1>1, <1>3, <1>4

LEMMA StepType ==
  ASSUME IInv, Next
  PROVE  IInv'
<1> USE DEF IInv, PoolInHand
<1>0. Zero(TRUE) \in Rows /\ Zero(FALSE) \in Rows
  BY BoundsOK DEF Zero, Rows
<1>1. CASE NoUpgrade
  <2>1. line # <<>> /\ Leave
    BY <1>1 DEF NoUpgrade
  <2> QED BY <1>1, <2>1, LeaveType, PolicyOK DEF NoUpgrade, TypeOK, history
<1>2. CASE FetchPool
  <2>1. window' \subseteq Series /\ pool' \subseteq Episodes \X {1, 2}
    <3>1. \A x \in Selected(Row.series) : x[1] \in Series
      BY LibraryOK DEF Selected, TypeOK, history
    <3> QED BY <1>2, <3>1 DEF FetchPool
  <2>2. events' \in 0 .. MaxEvents
    BY <1>2, BoundsOK DEF FetchPool, Event, TypeOK, history
  <2>3. left' = left /\ left = {}
    BY <1>2 DEF FetchPool
  <2> QED BY <1>2, <2>1, <2>2 DEF FetchPool, TypeOK, history
<1>3. CASE EmptyPool
  <2>1. line # <<>> /\ Leave
    BY <1>3 DEF EmptyPool
  <2> QED BY <1>3, <2>1, LeaveType, PolicyOK DEF EmptyPool, TypeOK, history
<1>4. CASE AdvanceSeries
  <2>1. NextSeries \in 0 .. OffsetModulus - 1
    BY <1>4, LineFacts, BoundsOK DEF AdvanceSeries, NextSeries, Rows, SeriesStep
  <2>2. [stored EXCEPT !.series = NextSeries] \in Rows
    BY <2>1 DEF TypeOK, Rows
  <2>3. stored' \in Rows
    BY <1>4, <2>2 DEF AdvanceSeries, TypeOK
  <2>4. tainted' \in BOOLEAN
    BY <1>4 DEF AdvanceSeries, TypeOK, Taint
  <2>5. events' \in 0 .. MaxEvents
    BY <1>4, BoundsOK DEF AdvanceSeries, TypeOK, Event
  <2> QED BY <1>4, <2>3, <2>4, <2>5 DEF AdvanceSeries, TypeOK, history
<1>5. CASE SkipRepeat
  BY <1>5 DEF SkipRepeat, TypeOK, history
<1>6. CASE TakeEpisode
  <2>1. scanned' \in 0 .. Budget /\ searched' \in 0 .. Batch /\ events' \in 0 .. MaxEvents
    BY <1>6, PolicyOK, BoundsOK DEF TakeEpisode, More, TypeOK, Event, history
  <2>2. cool' \subseteq Episodes /\ left' \subseteq pool
    BY <1>6 DEF TakeEpisode, IsNext, TypeOK, history
  <2> QED BY <1>6, <2>1, <2>2 DEF TakeEpisode, TypeOK, history
<1>7. CASE CapReached
  BY <1>7, BoundsOK DEF CapReached, TypeOK, Event, history
<1>8. CASE PersistItem
  <2>1. line # <<>> /\ pool # {} /\ Leave
    BY <1>8 DEF PersistItem
  <2>2. Cardinality(pool) \in Nat \ {0}
    BY <2>1, PoolSize DEF TypeOK, history
  <2>3. NextItem(Row.item, Cardinality(pool), scanned) \in Nat
    <3>1. Row.item \in Nat /\ scanned \in Nat
      BY <2>1, LineFacts, PolicyOK DEF Rows, TypeOK
    <3>2. Start \in Nat
      BY <2>2, <3>1 DEF Start
    <3>3. NextItem(Row.item, Cardinality(pool), scanned) = (Start + scanned) % Cardinality(pool)
      BY DEF NextItem, Start
    <3> HIDE DEF IInv
    <3> QED BY <2>2, <3>1, <3>2, <3>3
  <2>4. [stored EXCEPT !.item = NextItem(Row.item, Cardinality(pool), scanned)] \in Rows
    BY <2>3 DEF TypeOK, Rows
  <2>5. stored' \in Rows
    BY <1>8, <2>4 DEF PersistItem, TypeOK
  <2>6. tainted' \in BOOLEAN
    BY <1>8 DEF PersistItem, TypeOK, Taint
  <2>7. events' \in 0 .. MaxEvents
    BY <1>8, BoundsOK DEF PersistItem, TypeOK, Event
  <2> QED BY <1>8, <2>1, <2>5, <2>6, <2>7, LeaveType, PolicyOK DEF PersistItem, TypeOK, history
<1>9. CASE \E w \in Workers : ReadRow(w)
  <2>1. PICK w \in Workers : ReadRow(w)
    BY <1>9
  <2>2. line' \in Seq(Workers) /\ line' # <<>> /\ seen' \in [Workers -> Rows]
    BY <2>1, AppendProperties DEF ReadRow, TypeOK, history
  <2> QED BY <2>1, <2>2 DEF ReadRow, TypeOK, cycleVars, history
<1>10. CASE \E w \in Workers : GiveUp(w)
  <2>1. PICK w \in Workers : GiveUp(w)
    BY <1>10
  <2>2. line # <<>> /\ events' \in 0 .. MaxEvents
    BY <2>1, BoundsOK DEF GiveUp, InLine, Event, TypeOK, history
  <2>3. CASE w = Owner /\ Leave
    BY <2>1, <2>2, <2>3, LeaveType, PolicyOK DEF GiveUp, TypeOK, history
  <2>4. ASSUME NEW i \in 2 .. Len(line), UNCHANGED <<cycleVars, behind>>,
               line' = SubSeq(line, 1, i - 1) \o SubSeq(line, i + 1, Len(line)),
               seen' = [seen EXCEPT ![w] = NoRow]
        PROVE  IInv'
    <3>1. /\ SubSeq(line, 1, i - 1) \in Seq(Workers) /\ Len(SubSeq(line, 1, i - 1)) = i - 1
          /\ SubSeq(line, i + 1, Len(line)) \in Seq(Workers)
      BY SubSeqProperties DEF TypeOK
    <3>2. line' \in Seq(Workers) /\ Len(line') >= 1
      BY <2>4, <3>1, ConcatProperties
    <3>3. line' # <<>>
      BY <3>2
    <3>4. seen' \in [Workers -> Rows]
      BY <1>0, <2>4 DEF TypeOK, NoRow
    <3> QED BY <2>1, <2>2, <2>4, <3>2, <3>3, <3>4 DEF GiveUp, TypeOK, cycleVars, history
  <2> QED BY <2>1, <2>3, <2>4 DEF GiveUp
<1>11. CASE Restart
  <2>0. line' = <<>> /\ seen' = [w \in Workers |-> NoRow] /\ pc' = "begin"
    BY <1>11 DEF Restart, Idle
  <2>1. line' \in Seq(Workers) /\ seen' \in [Workers -> Rows]
    BY <1>0, <2>0, EmptySeq DEF NoRow
  <2>2. events' \in 0 .. MaxEvents
    BY <1>11, BoundsOK DEF Restart, Event, TypeOK
  <2>3. hseen' \in [Handlers -> {"on", "off", "none"}]
    BY <1>11 DEF Restart
  <2>4. /\ scanned' \in 0 .. Budget /\ searched' \in 0 .. Batch
        /\ window' = {} /\ pool' = {} /\ left' = {}
    BY <1>11, PolicyOK DEF Restart, Idle
  <2>5. behind' = FALSE /\ UNCHANGED <<stored, monitored, cool, tainted>>
    BY <1>11 DEF Restart
  <2> QED BY <2>0, <2>1, <2>2, <2>3, <2>4, <2>5 DEF TypeOK
<1>12. CASE \E h \in Handlers : StartSave(h)
  BY <1>12, BoundsOK DEF StartSave, Event, TypeOK, cycleVars, history
<1>13. CASE \E h \in Handlers : FinishSave(h)
  <2>1. PICK h \in Handlers : FinishSave(h)
    BY <1>13
  <2>2. stored' \in Rows
    <3>1. PICK on \in BOOLEAN : stored' = Saved(hseen[h], on)
      BY <2>1 DEF FinishSave
    <3>2. [stored EXCEPT !.on = on] \in Rows
      BY DEF Rows, TypeOK
    <3> QED BY <1>0, <3>1, <3>2 DEF Saved
  <2>3. behind' \in BOOLEAN /\ tainted' \in BOOLEAN
    BY <2>1, SMTT(30) DEF FinishSave, TypeOK
  <2>4. hseen' \in [Handlers -> {"on", "off", "none"}]
    BY <2>1 DEF FinishSave, TypeOK
  <2>5. UNCHANGED <<monitored, cool, seen, line, cycleVars, events>>
    BY <2>1 DEF FinishSave
  <2> QED BY <2>2, <2>3, <2>4, <2>5 DEF TypeOK, cycleVars
<1>14. CASE \E h \in Handlers : FailSave(h)
  BY <1>14 DEF FailSave, TypeOK, cycleVars, history
<1>15. CASE ResetPolicy
  <2>1. behind' \in BOOLEAN
    BY <1>15 DEF ResetPolicy
  <2>2. events' \in 0 .. MaxEvents
    BY <1>15, BoundsOK DEF ResetPolicy, Event, TypeOK
  <2> QED BY <1>0, <1>15, <2>1, <2>2 DEF ResetPolicy, TypeOK, cycleVars
<1>16. CASE LibraryChanges
  BY <1>16, LibraryOK, BoundsOK DEF LibraryChanges, Event, TypeOK, cycleVars, history
<1>17. CASE CooldownsEnd
  BY <1>17 DEF CooldownsEnd, TypeOK, cycleVars, history
<1> QED BY <1>1, <1>2, <1>3, <1>4, <1>5, <1>6, <1>7, <1>8, <1>9, <1>10, <1>11, <1>12,
           <1>13, <1>14, <1>15, <1>16, <1>17 DEF Next, CycleStep

LEMMA StutterType == IInv /\ UNCHANGED vars => IInv'
BY DEF IInv, TypeOK, PoolInHand, vars, cycleVars, history

\* Every reachable state of the rotation is well typed, whatever the library,
\* the window and the bounds: a pass stays within batch and budget and its
\* item offset is a number (_run_upgrade_pass).
THEOREM TypeCorrect == Spec => []TypeOK
<1>1. Init => IInv
  BY InitType
<1>2. IInv /\ [Next]_vars => IInv'
  BY StepType, StutterType
<1>3. IInv => TypeOK
  BY DEF IInv
<1> QED BY <1>1, <1>2, <1>3, PTL DEF Spec

-----------------------------------------------------------------------------
LEMMA InitReset == Init => ResetSticks
BY DEF Init, ResetSticks, Zero

\* Only cycles and saves change the columns that ResetSticks speaks of.
LEMMA StepReset ==
  ASSUME IInv, ResetSticks, Next
  PROVE  ResetSticks'
<1>1. CASE AdvanceSeries
  <2>1. ASSUME stored' = [stored EXCEPT !.series = NextSeries], Taint
        PROVE  ResetSticks'
    BY <2>1 DEF IInv, TypeOK, Rows, Taint, ResetSticks
  <2>2. CASE UNCHANGED <<stored, tainted>>
    BY <2>2 DEF ResetSticks
  <2> QED BY <1>1, <2>1, <2>2 DEF AdvanceSeries
<1>2. CASE PersistItem
  <2>1. ASSUME stored' = [stored EXCEPT !.item = NextItem(Row.item, Cardinality(pool), scanned)], Taint
        PROVE  ResetSticks'
    BY <2>1 DEF IInv, TypeOK, Rows, Taint, ResetSticks
  <2>2. CASE UNCHANGED <<stored, tainted>>
    BY <2>2 DEF ResetSticks
  <2> QED BY <1>2, <2>1, <2>2 DEF PersistItem
<1>3. CASE \E h \in Handlers : FinishSave(h)
  <2>1. PICK h \in Handlers : FinishSave(h)
    BY <1>3
  <2>2. PICK on \in BOOLEAN :
          /\ stored' = Saved(hseen[h], on)
          /\ tainted' = (~on /\ (tainted \/ (hseen[h] = "off" /\ stored.on)))
    BY <2>1 DEF FinishSave
  <2>3. CASE on
    BY <2>2, <2>3 DEF IInv, TypeOK, Rows, Saved, ResetSticks
  <2>4. CASE ~on /\ hseen[h] = "on"
    BY <2>2, <2>4 DEF Saved, Zero, ResetSticks
  <2>5. CASE ~on /\ hseen[h] = "off"
    BY <2>2, <2>5 DEF IInv, TypeOK, Rows, Saved, ResetSticks
  <2>6. hseen[h] \in {"on", "off"}
    BY <2>1 DEF FinishSave, IInv, TypeOK
  <2> QED BY <2>3, <2>4, <2>5, <2>6
<1>4. CASE ResetPolicy
  BY <1>4 DEF ResetPolicy, Zero, ResetSticks
<1>5. CASE \/ NoUpgrade \/ FetchPool \/ EmptyPool \/ SkipRepeat \/ TakeEpisode
           \/ CapReached \/ Restart \/ LibraryChanges \/ CooldownsEnd
  BY <1>5 DEF NoUpgrade, FetchPool, EmptyPool, SkipRepeat, TakeEpisode, CapReached, Restart,
              LibraryChanges, CooldownsEnd, history, ResetSticks
<1>6. CASE \E w \in Workers : ReadRow(w) \/ GiveUp(w)
  BY <1>6 DEF ReadRow, GiveUp, history, ResetSticks
<1>7. CASE \E h \in Handlers : StartSave(h) \/ FailSave(h)
  BY <1>7 DEF StartSave, FailSave, history, ResetSticks
<1> QED BY <1>1, <1>2, <1>3, <1>4, <1>5, <1>6, <1>7 DEF Next, CycleStep

\* Turning upgrades off resets both offsets for good, whatever cycles and saves
\* are under way, except for what reads the row before and writes it after
\* (submit_update, reset_all_instance_policy).
THEOREM ResetHolds == Spec => []ResetSticks
<1>1. Init => IInv /\ ResetSticks
  BY InitType, InitReset
<1>2. IInv /\ ResetSticks /\ [Next]_vars => (IInv /\ ResetSticks)'
  <2>1. ASSUME IInv, ResetSticks, Next PROVE (IInv /\ ResetSticks)'
    BY <2>1, StepType, StepReset
  <2>2. ASSUME IInv, ResetSticks, UNCHANGED vars PROVE (IInv /\ ResetSticks)'
    BY <2>2, StutterType DEF vars, history, ResetSticks
  <2> QED BY <2>1, <2>2
<1> QED BY <1>1, <1>2, PTL DEF Spec

-----------------------------------------------------------------------------
(***************************************************************************)
(* Why the series offset never steps back: the line is served in the order *)
(* in which the rows were read, and a row is read only when all before it  *)
(* have been.  Whoever has yet to write holds the stored offset or the one *)
(* a step before it, and those who hold the stored one come last.          *)
(***************************************************************************)
ToWrite == {i \in 1 .. Len(line) : i > 1 \/ pc \in {"begin", "fetched"}}

Held(i)    == seen[line[i]].series
Current(i) == Held(i) = stored.series
Former(i)  == (Held(i) + SeriesStep) % OffsetModulus = stored.series

LineOnce == \A i, j \in 1 .. Len(line) : line[i] = line[j] => i = j

RowsInOrder ==
  ~behind => /\ \A i \in ToWrite : Current(i) \/ Former(i)
             /\ \A i, j \in ToWrite : i < j /\ Current(i) => Current(j)

SInv == IInv /\ LineOnce /\ RowsInOrder

\* What changes none of these keeps the order of the rows.
LEMMA KeepsRows ==
  ASSUME SInv, UNCHANGED <<line, seen>>, stored'.series = stored.series,
         ToWrite' \subseteq ToWrite, behind \/ ~behind', behind => behind'
  PROVE  LineOnce' /\ RowsInOrder'
BY DEF SInv, LineOnce, RowsInOrder, Current, Former, Held

\* Without its owner the line moves up, and all in it have yet to write.
LEMMA LeaveRows ==
  ASSUME SInv, line # <<>>, Leave, stored'.series = stored.series
  PROVE  LineOnce' /\ RowsInOrder'
<1>1. /\ line \in Seq(Workers) /\ Len(line) \in Nat \ {0}
      /\ line' = Tail(line) /\ Len(line') = Len(line) - 1 /\ pc' = "begin"
      /\ \A i \in 1 .. Len(line') : line'[i] = line[i + 1]
  BY EmptySeq, HeadTailProperties DEF SInv, IInv, TypeOK, Leave, Idle
<1>2. \A i \in 1 .. Len(line') : i + 1 \in ToWrite /\ line[i + 1] # line[1]
  BY <1>1 DEF ToWrite, SInv, LineOnce
<1>3. \A i \in 1 .. Len(line') : Held(i)' = Held(i + 1)
  <2>1. Owner = line[1]
    BY <1>1 DEF Owner
  <2>2. \A w \in Workers : w # Owner => seen'[w] = seen[w]
    BY DEF SInv, IInv, TypeOK, Leave
  <2>3. \A i \in 1 .. Len(line') : line'[i] \in Workers
    BY <1>1
  <2> QED BY <1>1, <1>2, <2>1, <2>2, <2>3 DEF Held
<1>4. LineOnce'
  BY <1>1 DEF SInv, LineOnce
<1>5. RowsInOrder'
  <2>1. SUFFICES ASSUME ~behind' PROVE RowsInOrder'
    BY DEF RowsInOrder
  <2>2. CASE behind
    <3>0. ~(Len(line) > 1)
      BY <2>1, <2>2 DEF Leave
    <3>1. Len(line) = 1
      BY <1>1, <3>0
    <3>2. ToWrite' = {}
      BY <1>1, <3>1 DEF ToWrite
    <3> QED BY <3>2 DEF RowsInOrder
  <2>3. CASE ~behind
    <3>1. \A i \in 1 .. Len(line') : /\ Current(i)' <=> Current(i + 1)
                                     /\ Former(i)' <=> Former(i + 1)
      BY <1>3 DEF Current, Former
    <3>2. ToWrite' \subseteq 1 .. Len(line')
      BY DEF ToWrite
    <3>3. \A i \in ToWrite' : Current(i)' \/ Former(i)'
      BY <1>2, <2>3, <3>1, <3>2 DEF SInv, RowsInOrder
    <3>4. \A i, j \in ToWrite' : i < j /\ Current(i)' => Current(j)'
      BY <1>1, <1>2, <2>3, <3>1, <3>2 DEF SInv, RowsInOrder
    <3> QED BY <3>3, <3>4 DEF RowsInOrder
  <2> QED BY <2>2, <2>3
<1> QED BY <1>4, <1>5

\* The owner's write makes the rows behind it the former ones, or, if its own
\* row was a former one, finds its value in place.
LEMMA AdvanceRows ==
  ASSUME SInv, AdvanceSeries
  PROVE  /\ LineOnce' /\ RowsInOrder'
         /\ ~behind => stored'.series \in {stored.series,
                                           (stored.series + SeriesStep) % OffsetModulus}
<1>1. /\ line # <<>> /\ line \in Seq(Workers) /\ Len(line) \in Nat \ {0}
      /\ Owner = line[1] /\ 1 \in ToWrite /\ Row.series = Held(1)
  BY EmptySeq, HeadTailProperties
     DEF SInv, IInv, TypeOK, PoolInHand, AdvanceSeries, Owner, Row, Held, ToWrite
<1>2. UNCHANGED <<line, seen, behind>> /\ ToWrite' \subseteq ToWrite
  BY DEF AdvanceSeries, ToWrite
<1>3. stored'.series = stored.series \/ stored'.series = NextSeries
  BY DEF AdvanceSeries, SInv, IInv, TypeOK, Rows
<1>4. CASE stored'.series = stored.series
  BY <1>2, <1>4, KeepsRows
<1>5. CASE behind
  BY <1>2, <1>5 DEF SInv, LineOnce, RowsInOrder
<1>6. CASE ~behind /\ Former(1) /\ stored'.series = NextSeries
  <2>1. stored'.series = stored.series
    BY <1>1, <1>6 DEF Former, NextSeries
  <2> QED BY <1>4, <2>1
<1>7. CASE ~behind /\ Current(1) /\ stored'.series = NextSeries
  <2>1. stored'.series = (stored.series + SeriesStep) % OffsetModulus
    BY <1>1, <1>7 DEF Current, NextSeries
  <2>2. \A i \in ToWrite' : i \in ToWrite /\ Held(i)' = Held(i) /\ Held(i) = stored.series
    <3>1. SUFFICES ASSUME NEW i \in ToWrite'
                   PROVE  i \in ToWrite /\ Held(i)' = Held(i) /\ Held(i) = stored.series
      OBVIOUS
    <3>2. i \in ToWrite /\ Held(i)' = Held(i)
      BY <1>2 DEF Held
    <3>3. i = 1 \/ 1 < i
      BY <1>1, <3>2 DEF ToWrite
    <3>4. Current(i)
      BY <1>1, <1>7, <3>2, <3>3 DEF SInv, RowsInOrder
    <3> QED BY <3>2, <3>4 DEF Current
  <2>3. \A i \in ToWrite' : Former(i)'
    BY <2>1, <2>2 DEF Former
  <2>4. \A i, j \in ToWrite' : Current(i)' => Current(j)'
    BY <2>2 DEF Current
  <2>5. RowsInOrder'
    BY <2>3, <2>4 DEF RowsInOrder
  <2> QED BY <1>2, <2>1, <2>5 DEF SInv, LineOnce
<1> QED BY <1>1, <1>3, <1>4, <1>5, <1>6, <1>7 DEF SInv, RowsInOrder

\* Who joins the line holds the stored row and comes last.
LEMMA ReadRows ==
  ASSUME SInv, NEW w \in Workers, ReadRow(w)
  PROVE  LineOnce' /\ RowsInOrder'
<1>0. PICK n \in Nat : n = Len(line)
  BY LenProperties DEF SInv, IInv, TypeOK
<1>1. /\ line \in Seq(Workers) /\ Len(line') = n + 1 /\ line'[n + 1] = w
      /\ \A i \in 1 .. n : line'[i] = line[i] /\ line[i] \in Workers /\ line[i] # w
  BY <1>0, AppendProperties, ElementOfSeq DEF SInv, IInv, TypeOK, ReadRow, InLine
<1>2. UNCHANGED <<stored, pc, behind>> /\ seen'[w] = stored
      /\ \A v \in Workers : v # w => seen'[v] = seen[v]
  BY DEF ReadRow, SInv, IInv, TypeOK, cycleVars, history
<1>3. LineOnce'
  BY <1>0, <1>1 DEF SInv, LineOnce
<1>4. \A i \in 1 .. n : Held(i)' = Held(i)
  BY <1>1, <1>2 DEF Held
<1>5. Current(n + 1)'
  BY <1>1, <1>2 DEF Current, Held
<1>6. \A i \in ToWrite' : i = n + 1 \/ (i \in ToWrite /\ i \in 1 .. n)
  BY <1>0, <1>1, <1>2 DEF ToWrite
<1>7. \A i \in 1 .. n : (Current(i)' <=> Current(i)) /\ (Former(i)' <=> Former(i))
  BY <1>2, <1>4 DEF Current, Former
<1>8. ASSUME ~behind PROVE \A i \in ToWrite' : Current(i)' \/ Former(i)'
  BY <1>5, <1>6, <1>7, <1>8 DEF SInv, RowsInOrder
<1>9. ASSUME ~behind, NEW i \in ToWrite', NEW j \in ToWrite', i < j, Current(i)'
      PROVE  Current(j)'
  <2>1. i \in 1 .. n /\ i \in ToWrite
    BY <1>1, <1>6, <1>9 DEF ToWrite
  <2> QED BY <1>5, <1>6, <1>7, <1>9, <2>1 DEF SInv, RowsInOrder
<1>10. RowsInOrder'
  BY <1>2, <1>8, <1>9 DEF RowsInOrder
<1> QED BY <1>3, <1>10

\* Without one of those who wait, the others keep their order.
LEMMA GiveUpRows ==
  ASSUME SInv, NEW w \in Workers, GiveUp(w)
  PROVE  LineOnce' /\ RowsInOrder'
<1>1. CASE w = Owner /\ Leave
  BY <1>1, LeaveRows DEF GiveUp, InLine
<1>2. ASSUME NEW k \in 2 .. Len(line), line[k] = w,
             line' = SubSeq(line, 1, k - 1) \o SubSeq(line, k + 1, Len(line)),
             seen' = [seen EXCEPT ![w] = NoRow],
             UNCHANGED <<cycleVars, behind>>
      PROVE  LineOnce' /\ RowsInOrder'
  <2> DEFINE From(i) == IF i < k THEN i ELSE i + 1
  <2>1. /\ line \in Seq(Workers) /\ Len(line) \in Nat /\ Len(line') = Len(line) - 1
        /\ \A i \in 1 .. Len(line') : line'[i] = line[From(i)]
    <3>0. line \in Seq(Workers) /\ Len(line) \in Nat
      BY LenProperties DEF SInv, IInv, TypeOK
    <3> DEFINE front == SubSeq(line, 1, k - 1)
               back  == SubSeq(line, k + 1, Len(line))
    <3>1. /\ front \in Seq(Workers) /\ Len(front) = k - 1
          /\ \A i \in 1 .. k - 1 : front[i] = line[i]
      BY <3>0, SubSeqProperties
    <3>2. /\ back \in Seq(Workers) /\ Len(back) = Len(line) - k
          /\ \A i \in 1 .. Len(line) - k : back[i] = line[k + i]
      BY <3>0, SubSeqProperties
    <3>3. line' = front \o back
      BY <1>2
    <3> HIDE DEF front, back
    <3>4. /\ Len(line') = Len(line) - 1
          /\ \A i \in 1 .. Len(line') :
                line'[i] = IF i <= k - 1 THEN front[i] ELSE back[i - (k - 1)]
      BY <3>0, <3>1, <3>2, <3>3, ConcatProperties
    <3>5. \A i \in 1 .. Len(line') : line'[i] = line[From(i)]
      <4>1. SUFFICES ASSUME NEW i \in 1 .. Len(line') PROVE line'[i] = line[From(i)]
        OBVIOUS
      <4>2. CASE i < k
        BY <3>0, <3>1, <3>4, <4>2
      <4>3. CASE ~(i < k)
        <5>1. i - (k - 1) \in 1 .. Len(line) - k
          BY <3>0, <3>4, <4>3
        <5>2. line'[i] = back[i - (k - 1)] /\ back[i - (k - 1)] = line[k + (i - (k - 1))]
          BY <3>0, <3>2, <3>4, <4>3, <5>1
        <5>3. k + (i - (k - 1)) = i + 1
          BY <3>0, <3>4
        <5> QED BY <4>3, <5>2, <5>3
      <4> QED BY <4>2, <4>3
    <3> QED BY <3>0, <3>4, <3>5
  <2>2. \A i \in 1 .. Len(line') : From(i) \in 1 .. Len(line) /\ From(i) # k
                                   /\ (i > 1 => From(i) > 1) /\ (i = 1 => From(i) = 1)
    BY <1>2, <2>1
  <2>3. \A i, j \in 1 .. Len(line') : i < j <=> From(i) < From(j)
    BY <1>2, <2>1
  <2>4. \A i \in 1 .. Len(line') : Held(i)' = Held(From(i))
    <3>1. SUFFICES ASSUME NEW i \in 1 .. Len(line') PROVE Held(i)' = Held(From(i))
      OBVIOUS
    <3>2. line[From(i)] # w /\ line[From(i)] \in Workers
      BY <1>2, <2>1, <2>2, ElementOfSeq DEF SInv, LineOnce
    <3> QED BY <1>2, <2>1, <3>2 DEF Held, SInv, IInv, TypeOK
  <2>5. UNCHANGED <<stored, pc, behind>>
    BY <1>2 DEF GiveUp, cycleVars
  <2>6. \A i \in ToWrite' : i \in 1 .. Len(line') /\ From(i) \in ToWrite
    BY <2>2, <2>5 DEF ToWrite
  <2> HIDE DEF From
  <2>7. LineOnce'
    <3>1. SUFFICES ASSUME NEW i \in 1 .. Len(line'), NEW j \in 1 .. Len(line'),
                          line'[i] = line'[j]
                   PROVE  i = j
      BY DEF LineOnce
    <3>2. From(i) = From(j)
      BY <2>1, <2>2, <3>1 DEF SInv, LineOnce
    <3> QED BY <2>1, <3>2 DEF From
  <2>8. \A i \in 1 .. Len(line') : /\ Current(i)' <=> Current(From(i))
                                   /\ Former(i)' <=> Former(From(i))
    BY <2>4, <2>5 DEF Current, Former
  <2>9. ASSUME ~behind PROVE \A i \in ToWrite' : Current(i)' \/ Former(i)'
    BY <2>6, <2>8, <2>9 DEF SInv, RowsInOrder
  <2>10. ASSUME ~behind PROVE \A i, j \in ToWrite' : i < j /\ Current(i)' => Current(j)'
    BY <2>3, <2>6, <2>8, <2>10 DEF SInv, RowsInOrder
  <2> QED BY <2>5, <2>7, <2>9, <2>10 DEF RowsInOrder
<1> QED BY <1>1, <1>2 DEF GiveUp

LEMMA InitRows == Init => LineOnce /\ RowsInOrder
<1> SUFFICES ASSUME Init PROVE LineOnce /\ RowsInOrder
  OBVIOUS
<1>1. 1 .. Len(line) = {}
  BY EmptySeq DEF Init
<1> QED BY <1>1 DEF LineOnce, RowsInOrder, ToWrite

LEMMA StepRows ==
  ASSUME SInv, [Next]_vars
  PROVE  LineOnce' /\ RowsInOrder'
<1>1. CASE NoUpgrade \/ EmptyPool
  BY <1>1, LeaveRows DEF NoUpgrade, EmptyPool, SInv, IInv, PoolInHand
<1>2. CASE PersistItem
  <2>1. line # <<>> /\ Leave
    BY <1>2 DEF PersistItem, SInv, IInv, PoolInHand
  <2>2. stored'.series = stored.series
    BY <1>2 DEF PersistItem, SInv, IInv, TypeOK, Rows
  <2> QED BY <2>1, <2>2, LeaveRows
<1>3. CASE AdvanceSeries
  BY <1>3, AdvanceRows
<1>4. CASE \/ FetchPool \/ SkipRepeat \/ TakeEpisode \/ CapReached \/ LibraryChanges
           \/ CooldownsEnd \/ (\E h \in Handlers : StartSave(h) \/ FailSave(h))
           \/ UNCHANGED vars
  <2>1. UNCHANGED <<line, seen, stored, behind>>
    BY <1>4 DEF FetchPool, SkipRepeat, TakeEpisode, CapReached, LibraryChanges, CooldownsEnd,
                StartSave, FailSave, vars, history
  <2>2. pc' \in {"begin", "fetched"} => pc \in {"begin", "fetched"}
    BY <1>4 DEF FetchPool, SkipRepeat, TakeEpisode, CapReached, LibraryChanges, CooldownsEnd,
                StartSave, FailSave, vars, cycleVars
  <2>3. ToWrite' \subseteq ToWrite
    BY <2>1, <2>2 DEF ToWrite
  <2> QED BY <2>1, <2>3, KeepsRows
<1>5. CASE \E w \in Workers : ReadRow(w) \/ GiveUp(w)
  BY <1>5, ReadRows, GiveUpRows
<1>6. CASE Restart
  <2>1. 1 .. Len(line') = {}
    BY <1>6, EmptySeq DEF Restart
  <2> QED BY <2>1 DEF LineOnce, RowsInOrder, ToWrite
<1>7. CASE ResetPolicy \/ \E h \in Handlers : FinishSave(h)
  <2>1. UNCHANGED <<line, seen, pc>>
    BY <1>7 DEF ResetPolicy, FinishSave, cycleVars
  <2>2. CASE line = <<>>
    <3>1. 1 .. Len(line') = {}
      BY <2>1, <2>2, EmptySeq
    <3> QED BY <3>1 DEF LineOnce, RowsInOrder, ToWrite
  <2>3. CASE line # <<>> /\ behind'
    BY <2>1, <2>3 DEF SInv, LineOnce, RowsInOrder
  <2>4. CASE line # <<>> /\ ~behind'
    <3>1. PICK h \in Handlers, on \in BOOLEAN :
            /\ stored' = Saved(hseen[h], on)
            /\ behind' = (behind \/ (~on /\ line # <<>>))
      BY <1>7, <2>4 DEF ResetPolicy, FinishSave
    <3>2. on /\ ~behind
      BY <2>4, <3>1
    <3>3. stored'.series = stored.series
      BY <3>1, <3>2 DEF Saved, SInv, IInv, TypeOK, Rows
    <3>4. ToWrite' \subseteq ToWrite
      BY <2>1 DEF ToWrite
    <3> QED BY <2>1, <2>4, <3>2, <3>3, <3>4, KeepsRows
  <2> QED BY <2>2, <2>3, <2>4
<1> QED BY <1>1, <1>2, <1>3, <1>4, <1>5, <1>6, <1>7 DEF Next, CycleStep

\* However many tasks queue up behind each other, each with the row it read
\* before it waited, the series offset moves by no more than one step at a time
\* and never back (_run_search_cycle, _run_upgrade_pass).
THEOREM OffsetMovesOn == Spec => NeverStepsBack
<1> DEFINE Step == CycleStep /\ ~behind =>
                     stored'.series \in {stored.series, (stored.series + SeriesStep) % OffsetModulus}
<1>1. Init => SInv
  BY InitType, InitRows DEF SInv
<1>2. SInv /\ [Next]_vars => SInv'
  BY StepType, StutterType, StepRows DEF SInv
<1>3. SInv /\ [Next]_vars => [Step]_vars
  <2>1. SUFFICES ASSUME SInv, CycleStep, ~behind
                 PROVE  stored'.series \in {stored.series, (stored.series + SeriesStep) % OffsetModulus}
    OBVIOUS
  <2>2. CASE AdvanceSeries
    BY <2>1, <2>2, AdvanceRows
  <2>3. CASE PersistItem
    BY <2>1, <2>3 DEF PersistItem, SInv, IInv, TypeOK, Rows
  <2>4. CASE NoUpgrade \/ FetchPool \/ EmptyPool \/ SkipRepeat \/ TakeEpisode
    BY <2>4 DEF NoUpgrade, FetchPool, EmptyPool, SkipRepeat, TakeEpisode
  <2> QED BY <2>1, <2>2, <2>3, <2>4 DEF CycleStep
<1> QED BY <1>1, <1>2, <1>3, PTL DEF Spec, NeverStepsBack
=============================================================================
