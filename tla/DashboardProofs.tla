---------------------------- MODULE DashboardProofs ----------------------------
(***************************************************************************)
(* Theorems about Dashboard: whatever is in the cache, and whatever a poll *)
(* waits for, has seen every write that was answered before; the queries   *)
(* of a gather see the log in the order they run, so that a card's counts  *)
(* agree.                                                                  *)
(*                                                                         *)
(* Theorems about LogFeed: a fetch leaves out, of the rows it was asked    *)
(* for, only rows that are no later than the last one it shows, whatever   *)
(* way its rows are grouped, and so no page after it skips a row.          *)
(***************************************************************************)
EXTENDS Dashboard, LogFeed, TLAPS, SequenceTheorems, FiniteSetTheorems, WellFoundedInduction

Changes ==
  [kind : {"row"}, inst : Instances, action : Actions]
  \cup [kind : {"clear", "age"}] \cup [kind : {"gone", "added"}, inst : Instances]
Gathers == [key : Keys, at : Seq(Nat), state : {"running", "done", "failed"}]
Asking == [pc : {"idle", "first", "wait", "answered"}, widget : BOOLEAN, key : Keys,
           gather : Nat, owed : Nat]

Types ==
  /\ history \in Seq(Changes) /\ live \subseteq Instances
  /\ entry \in [Keys -> Nat]
  /\ gathers \in Seq(Gathers) /\ Len(gathers) <= MaxGathers
  /\ poll \in [Polls -> Asking]
  /\ save \in {"idle", "written"} /\ rerun \in BOOLEAN
  /\ shown \in Nat /\ shown <= Len(history)

(* Every query of a gather has seen the first v changes.                    *)
SeenBy(g, v) == \A n \in 1..Len(gathers[g].at) : gathers[g].at[n] >= v

(* An entry is of a gather that has seen what the last invalidation owes;   *)
(* the gather a poll holds has seen what the poll is owed.                  *)
EntriesFresh ==
  \A k \in Keys : entry[k] # None => entry[k] \in 1..Len(gathers) /\ SeenBy(entry[k], shown)
PollsFresh ==
  \A p \in Polls : poll[p].pc # "idle" =>
    /\ poll[p].gather \in 1..Len(gathers)
    /\ poll[p].owed <= shown
    /\ SeenBy(poll[p].gather, poll[p].owed)
IInv == Types /\ EntriesFresh /\ PollsFresh

-----------------------------------------------------------------------------
LEMMA InitHolds == DashInit => IInv
<1> SUFFICES ASSUME DashInit PROVE IInv
  OBVIOUS
<1> USE DEF DashInit, None
<1>1. Types
  <2>1. history \in Seq(Changes) /\ gathers \in Seq(Gathers) /\ Len(gathers) = 0 /\ Len(history) = 0
    BY EmptySeq
  <2>2. entry \in [Keys -> Nat]
    OBVIOUS
  <2>3. Asleep \in Asking
    BY DEF Asleep, Asking, Keys
  <2>4. poll \in [Polls -> Asking]
    BY <2>3
  <2>5. live \subseteq Instances /\ save \in {"idle", "written"} /\ rerun \in BOOLEAN /\ shown = 0
    OBVIOUS
  <2> QED BY <2>1, <2>2, <2>4, <2>5, DashboardBounds DEF Types
<1>2. EntriesFresh /\ PollsFresh
  BY DEF EntriesFresh, PollsFresh, Asleep
<1> QED BY <1>1, <1>2 DEF IInv

(* What happens to the log leaves the rest alone, and the log only grows.   *)
LEMMA HappenGrows ==
  ASSUME Types, NEW e \in Changes, Happen(e)
  PROVE  history' \in Seq(Changes) /\ Len(history') = Len(history) + 1
BY AppendProperties DEF Types, Happen

(* Writes to the log: the cache and the polls stand.                        *)
LEMMA WritesKeep ==
  ASSUME IInv, UNCHANGED <<cacheVars, poll, rerun, shown>>,
         history' \in Seq(Changes), Len(history') >= Len(history),
         live' \subseteq Instances, save' \in {"idle", "written"}
  PROVE  IInv'
<1> USE DEF cacheVars
<1>1. Types'
  <2>1. Len(history) \in Nat /\ Len(history') \in Nat
    BY LenProperties DEF IInv, Types
  <2> QED BY <2>1 DEF IInv, Types
<1>2. EntriesFresh' /\ PollsFresh'
  BY DEF IInv, EntriesFresh, PollsFresh, SeenBy
<1> QED BY <1>1, <1>2 DEF IInv

(* Dropping entries and moving polls between pcs that hold a gather.        *)
LEMMA DropKeeps ==
  ASSUME IInv, UNCHANGED <<history, live, gathers, poll, save, rerun, shown>>,
         entry' \in [Keys -> Nat],
         \A k \in Keys : entry'[k] \in {None, entry[k]}
  PROVE  IInv'
<1>1. Types'
  BY DEF IInv, Types
<1>2. EntriesFresh' /\ PollsFresh'
  BY DEF IInv, EntriesFresh, PollsFresh, SeenBy
<1> QED BY <1>1, <1>2 DEF IInv

(* An invalidation drops everything, so that nothing is owed to an entry.   *)
LEMMA InvalidateKeeps ==
  ASSUME IInv, Invalidate, UNCHANGED <<history, live, poll>>,
         save' \in {"idle", "written"}, rerun' \in BOOLEAN
  PROVE  IInv'
<1> USE DEF Invalidate, Cleared, None
<1>1. shown <= shown' /\ shown' \in Nat /\ shown \in Nat
  BY LenProperties DEF IInv, Types
<1>2. Types'
  BY <1>1, LenProperties DEF IInv, Types
<1>3. EntriesFresh'
  BY DEF EntriesFresh
<1>4. PollsFresh'
  <2> SUFFICES ASSUME NEW p \in Polls, poll[p].pc # "idle"
               PROVE  /\ poll[p].gather \in 1..Len(gathers) /\ poll[p].owed <= shown'
                      /\ SeenBy(poll[p].gather, poll[p].owed)'
    BY DEF PollsFresh
  <2>1. poll[p].owed \in Nat
    BY DEF IInv, Types, Asking
  <2>2. poll[p].gather \in 1..Len(gathers) /\ poll[p].owed <= shown
        /\ SeenBy(poll[p].gather, poll[p].owed)
    BY DEF IInv, PollsFresh
  <2> QED BY <1>1, <2>1, <2>2 DEF SeenBy
<1> QED BY <1>2, <1>3, <1>4 DEF IInv

(* A gather that moves on stays as fresh as it was.                         *)
LEMMA GatherMoves ==
  ASSUME IInv, NEW g \in 1..Len(gathers), NEW h \in Gathers,
         gathers' = [gathers EXCEPT ![g] = h],
         \A n \in 1..Len(h.at) : h.at[n] >= shown \/ (n \in 1..Len(gathers[g].at) /\ h.at[n] = gathers[g].at[n]),
         UNCHANGED <<history, live, poll, save, rerun, shown>>,
         entry' \in [Keys -> Nat], \A k \in Keys : entry'[k] \in {None, entry[k]}
  PROVE  IInv'
<1>1. gathers' \in Seq(Gathers) /\ Len(gathers') = Len(gathers)
      /\ \A i \in 1..Len(gathers) : gathers'[i] = IF i = g THEN h ELSE gathers[i]
  BY ExceptSeq DEF IInv, Types
<1>2. Types'
  BY <1>1 DEF IInv, Types
<1>3. \A i \in 1..Len(gathers), v \in Nat : v <= shown /\ SeenBy(i, v) => SeenBy(i, v)'
  <2> SUFFICES ASSUME NEW i \in 1..Len(gathers), NEW v \in Nat, v <= shown, SeenBy(i, v),
                      NEW n \in 1..Len(gathers'[i].at)
               PROVE  gathers'[i].at[n] >= v
    BY DEF SeenBy
  <2>1. CASE i # g
    BY <2>1, <1>1 DEF SeenBy
  <2>2. CASE i = g
    <3>1. gathers'[i] = h /\ h.at \in Seq(Nat) /\ Len(h.at) \in Nat /\ shown \in Nat
      BY <2>2, <1>1, LenProperties DEF Gathers, IInv, Types
    <3>2. h.at[n] \in Nat
      BY <3>1, ElementOfSeq
    <3>3. CASE h.at[n] >= shown
      BY <3>1, <3>2, <3>3
    <3>4. CASE n \in 1..Len(gathers[g].at) /\ h.at[n] = gathers[g].at[n]
      BY <3>1, <3>4, <2>2 DEF SeenBy
    <3> QED BY <3>1, <3>3, <3>4
  <2> QED BY <2>1, <2>2
<1>4. EntriesFresh'
  BY <1>1, <1>3 DEF IInv, EntriesFresh, Types
<1>5. PollsFresh'
  <2> SUFFICES ASSUME NEW p \in Polls, poll[p].pc # "idle"
               PROVE  /\ poll[p].gather \in 1..Len(gathers') /\ poll[p].owed <= shown
                      /\ SeenBy(poll[p].gather, poll[p].owed)'
    BY DEF PollsFresh
  <2>1. poll[p].owed \in Nat
    BY DEF IInv, Types, Asking
  <2> QED BY <1>1, <1>3, <2>1 DEF IInv, PollsFresh
<1> QED BY <1>2, <1>4, <1>5 DEF IInv

LEMMA QueryKeeps == ASSUME IInv, NEW g \in DOMAIN gathers, Query(g) PROVE IInv'
<1>1. g \in 1..Len(gathers) /\ gathers[g] \in Gathers /\ Len(history) \in Nat /\ Len(history) >= shown
  BY LenProperties, ElementOfSeq DEF IInv, Types
<1> DEFINE at == Append(gathers[g].at, Len(history))
           h == [gathers[g] EXCEPT !.at = at]
<1>2. at \in Seq(Nat) /\ Len(at) = Len(gathers[g].at) + 1 /\ Len(gathers[g].at) \in Nat
      /\ \A n \in 1..Len(gathers[g].at) : at[n] = gathers[g].at[n]
      /\ at[Len(at)] = Len(history)
  BY <1>1, AppendProperties, LenProperties DEF Gathers
<1>3. h \in Gathers /\ h.at = at
  BY <1>1, <1>2 DEF Gathers
<1>4. gathers' = [gathers EXCEPT ![g] = h]
  BY DEF Query
<1>5. \A n \in 1..Len(h.at) : h.at[n] >= shown \/ (n \in 1..Len(gathers[g].at) /\ h.at[n] = gathers[g].at[n])
  BY <1>1, <1>2, <1>3
<1> HIDE DEF h
<1> QED BY <1>1, <1>3, <1>4, <1>5, GatherMoves DEF Query, askVars, IInv, Types

LEMMA FinishKeeps == ASSUME IInv, NEW g \in DOMAIN gathers, Finish(g) PROVE IInv'
<1>1. g \in 1..Len(gathers) /\ gathers[g] \in Gathers
  BY LenProperties, ElementOfSeq DEF IInv, Types
<1> DEFINE h == [gathers[g] EXCEPT !.state = "done"]
<1>2. h \in Gathers /\ h.at = gathers[g].at
  BY <1>1 DEF Gathers
<1>3. gathers' = [gathers EXCEPT ![g] = h]
  BY DEF Finish
<1> HIDE DEF h
<1> QED BY <1>1, <1>2, <1>3, GatherMoves DEF Finish, askVars, IInv, Types

LEMMA BreakKeeps == ASSUME IInv, NEW g \in DOMAIN gathers, Break(g) PROVE IInv'
<1>1. g \in 1..Len(gathers) /\ gathers[g] \in Gathers
  BY LenProperties, ElementOfSeq DEF IInv, Types
<1> DEFINE h == [[gathers[g] EXCEPT !.state = "failed"] EXCEPT !.at = <<>>]
<1>2. h \in Gathers /\ h.at = <<>> /\ Len(h.at) = 0
  BY <1>1, EmptySeq DEF Gathers
<1>3. gathers' = [gathers EXCEPT ![g] = h]
  BY <1>1, LenProperties DEF Break, IInv, Types
<1>4. entry' \in [Keys -> Nat] /\ \A k \in Keys : entry'[k] \in {None, entry[k]}
  BY <1>1 DEF Break, Drop, None, IInv, Types, Gathers
<1> HIDE DEF h
<1>5. UNCHANGED <<history, live, poll, save, rerun, shown>>
  BY DEF Break, askVars
<1>6. \A n \in 1..Len(h.at) : h.at[n] >= shown \/ (n \in 1..Len(gathers[g].at) /\ h.at[n] = gathers[g].at[n])
  BY <1>2
<1> QED BY <1>1, <1>2, <1>3, <1>4, <1>5, <1>6, GatherMoves

(* A call joins an entry, which is fresh, or begins a gather, which has not *)
(* seen anything yet.                                                       *)
LEMMA CallKeeps ==
  ASSUME IInv, NEW p \in Polls, NEW asking \in Asking, Call(p, asking),
         asking.pc # "idle", asking.owed <= shown,
         UNCHANGED <<history, live, save, rerun, shown>>
  PROVE  IInv'
<1> DEFINE k == asking.key
           fresh == entry[k] = None
           new == [key |-> k, at |-> <<>>, state |-> "running"]
<1>0. PICK g : g = IF fresh THEN Len(gathers) + 1 ELSE entry[k]
  OBVIOUS
<1>1. k \in Keys /\ asking.owed \in Nat /\ shown \in Nat /\ Len(gathers) \in Nat /\ entry[k] \in Nat
  BY LenProperties DEF Asking, IInv, Types
<1>2. new \in Gathers /\ new.at = <<>> /\ Len(new.at) = 0
  BY <1>1, EmptySeq DEF Gathers
<1>3. gathers' = (IF fresh THEN Append(gathers, new) ELSE gathers)
      /\ entry' = [entry EXCEPT ![k] = g] /\ (fresh => Len(gathers) < MaxGathers)
      /\ poll' = [poll EXCEPT ![p] = [asking EXCEPT !.gather = g]]
  BY <1>0 DEF Call
<1> HIDE DEF new
<1>4. /\ gathers' \in Seq(Gathers) /\ Len(gathers') = IF fresh THEN Len(gathers) + 1 ELSE Len(gathers)
      /\ \A i \in 1..Len(gathers) : gathers'[i] = gathers[i]
      /\ fresh => gathers'[Len(gathers) + 1] = new
  BY <1>2, <1>3, AppendProperties DEF IInv, Types
<1>5. g \in 1..Len(gathers') /\ g \in Nat
  BY <1>0, <1>1, <1>4 DEF IInv, EntriesFresh
<1>6. \A v \in Nat : v <= shown => SeenBy(g, v)'
  <2>1. CASE fresh
    BY <2>1, <1>0, <1>1, <1>2, <1>4 DEF SeenBy
  <2>2. CASE ~fresh
    <3>1. g = entry[k] /\ g \in 1..Len(gathers) /\ SeenBy(g, shown) /\ gathers'[g] = gathers[g]
      BY <2>2, <1>0, <1>1, <1>4 DEF IInv, EntriesFresh
    <3>2. gathers[g] \in Gathers
      BY <3>1, ElementOfSeq DEF IInv, Types
    <3>3. \A n \in 1..Len(gathers[g].at) : gathers[g].at[n] \in Nat
      BY <3>2, ElementOfSeq DEF Gathers
    <3> QED BY <3>1, <3>3, <1>1 DEF SeenBy
  <2> QED BY <2>1, <2>2
<1>7. Types'
  <2>1. poll' \in [Polls -> Asking]
    <3>1. [asking EXCEPT !.gather = g] \in Asking
      BY <1>5 DEF Asking
    <3> QED BY <3>1, <1>3 DEF IInv, Types
  <2>2. entry' \in [Keys -> Nat]
    BY <1>3, <1>5, <1>1 DEF IInv, Types
  <2>3. Len(gathers') <= MaxGathers
    BY <1>1, <1>3, <1>4, DashboardBounds DEF IInv, Types
  <2> QED BY <2>1, <2>2, <2>3, <1>4 DEF IInv, Types
<1>8. \A i \in 1..Len(gathers), v \in Nat : SeenBy(i, v) => SeenBy(i, v)' /\ i \in 1..Len(gathers')
  BY <1>1, <1>4 DEF SeenBy
<1> HIDE DEF fresh
<1>9. EntriesFresh'
  <2> SUFFICES ASSUME NEW j \in Keys, entry'[j] # None
               PROVE  entry'[j] \in 1..Len(gathers') /\ SeenBy(entry[j], shown)'
    BY DEF EntriesFresh
  <2>1. CASE j = k
    BY <2>1, <1>1, <1>3, <1>5, <1>6 DEF IInv, Types
  <2>2. CASE j # k
    <3>1. entry'[j] = entry[j]
      BY <2>2, <1>1, <1>3 DEF IInv, Types
    <3>2. entry[j] \in 1..Len(gathers) /\ SeenBy(entry[j], shown)
      BY <3>1 DEF IInv, EntriesFresh
    <3> QED BY <3>1, <3>2, <1>1, <1>8
  <2> QED BY <2>1, <2>2
<1>10. PollsFresh'
  <2> SUFFICES ASSUME NEW q \in Polls, poll'[q].pc # "idle"
               PROVE  /\ poll'[q].gather \in 1..Len(gathers') /\ poll'[q].owed <= shown
                      /\ SeenBy(poll[q].gather, poll[q].owed)'
    BY DEF PollsFresh
  <2>1. CASE q = p
    <3>1. poll'[q] = [asking EXCEPT !.gather = g]
      BY <2>1, <1>3 DEF IInv, Types
    <3>2. poll'[q].gather = g /\ poll'[q].owed = asking.owed
      BY <3>1 DEF Asking
    <3> QED BY <3>2, <1>1, <1>5, <1>6
  <2>2. CASE q # p
    <3>1. poll'[q] = poll[q] /\ poll[q].owed \in Nat
      BY <2>2, <1>3 DEF IInv, Types, Asking
    <3> QED BY <3>1, <1>8 DEF IInv, PollsFresh
  <2> QED BY <2>1, <2>2
<1> QED BY <1>7, <1>9, <1>10 DEF IInv

(* A poll that moves on holds the gather it held.                           *)
LEMMA PollMoves ==
  ASSUME IInv, NEW p \in Polls, UNCHANGED <<history, live, cacheVars, save, rerun, shown>>,
         NEW asking \in Asking, poll' = [poll EXCEPT ![p] = asking],
         \/ asking.pc = "idle"
         \/ poll[p].pc # "idle" /\ asking.gather = poll[p].gather /\ asking.owed = poll[p].owed
  PROVE  IInv'
<1> USE DEF cacheVars
<1>1. Types'
  BY DEF IInv, Types
<1>2. EntriesFresh'
  BY DEF IInv, EntriesFresh, SeenBy
<1>3. PollsFresh'
  BY DEF IInv, PollsFresh, SeenBy, Types
<1> QED BY <1>1, <1>2, <1>3 DEF IInv

LEMMA StepKeeps == IInv /\ [DashNext]_dashVars => IInv'
<1> SUFFICES ASSUME IInv, [DashNext]_dashVars PROVE IInv'
  OBVIOUS
<1>1. ASSUME NEW g \in DOMAIN gathers, Query(g) \/ Finish(g) \/ Break(g) PROVE IInv'
  BY <1>1, QueryKeeps, FinishKeeps, BreakKeeps
<1>2. ASSUME NEW k \in Keys, Expire(k) PROVE IInv'
  BY <1>2, DropKeeps DEF Expire, Drop, askVars, None, IInv, Types
<1>3. ASSUME NEW p \in Polls, NEW w \in BOOLEAN, Ask(p, w) PROVE IInv'
  <2> DEFINE asking == [pc |-> IF w THEN "first" ELSE "wait", widget |-> w, key |-> live,
                        gather |-> None, owed |-> shown]
  <2>1. asking \in Asking /\ asking.pc # "idle" /\ asking.owed <= shown
    BY DEF Asking, Keys, None, IInv, Types
  <2>2. Call(p, asking) /\ UNCHANGED <<history, live, save, rerun, shown>>
    BY <1>3 DEF Ask
  <2> HIDE DEF asking
  <2> QED BY <2>1, <2>2, CallKeeps
<1>4. ASSUME NEW p \in Polls, AskAgain(p) PROVE IInv'
  <2> DEFINE asking == [poll[p] EXCEPT !.pc = "wait"]
  <2>1. poll[p] \in Asking /\ poll[p].pc = "first" /\ poll[p].owed <= shown
    BY <1>4 DEF AskAgain, IInv, Types, PollsFresh
  <2>2. asking \in Asking /\ asking.pc # "idle" /\ asking.owed <= shown
    BY <2>1 DEF Asking
  <2>3. Call(p, asking) /\ UNCHANGED <<history, live, save, rerun, shown>>
    BY <1>4 DEF AskAgain
  <2> HIDE DEF asking
  <2> QED BY <2>2, <2>3, CallKeeps
<1>5. ASSUME NEW p \in Polls, Answer(p) PROVE IInv'
  <2> DEFINE asking == [poll[p] EXCEPT !.pc = "answered"]
  <2>1. poll[p] \in Asking /\ poll[p].pc = "wait"
    BY <1>5 DEF Answer, IInv, Types
  <2>2. asking \in Asking /\ asking.gather = poll[p].gather /\ asking.owed = poll[p].owed
    BY <2>1 DEF Asking
  <2>3. poll' = [poll EXCEPT ![p] = asking] /\ UNCHANGED <<history, live, cacheVars, save, rerun, shown>>
    BY <1>5 DEF Answer
  <2> HIDE DEF asking
  <2> QED BY <2>1, <2>2, <2>3, PollMoves
<1>6. ASSUME NEW p \in Polls, Done(p) PROVE IInv'
  <2>1. Asleep \in Asking /\ Asleep.pc = "idle"
    BY DEF Asleep, Asking, Keys, None
  <2> QED BY <1>6, <2>1, PollMoves DEF Done
<1>7. ASSUME NEW i \in Instances, NEW a \in Actions, LogRow(i, a) PROVE IInv'
  <2>1. [kind |-> "row", inst |-> i, action |-> a] \in Changes
    BY DEF Changes
  <2>2. Happen([kind |-> "row", inst |-> i, action |-> a])
    BY <1>7 DEF LogRow
  <2>3. history' \in Seq(Changes) /\ Len(history') = Len(history) + 1 /\ Len(history) \in Nat
    BY <2>1, <2>2, HappenGrows, LenProperties DEF IInv, Types
  <2> QED BY <1>7, <2>3, WritesKeep DEF LogRow, askVars, IInv, Types
<1>8. CASE Age
  <2>1. [kind |-> "age"] \in Changes
    BY DEF Changes
  <2>2. history' \in Seq(Changes) /\ Len(history') = Len(history) + 1 /\ Len(history) \in Nat
    BY <1>8, <2>1, HappenGrows, LenProperties DEF Age, IInv, Types
  <2> QED BY <1>8, <2>2, WritesKeep DEF Age, askVars, IInv, Types
<1>9. CASE SaveWrites
  <2>1. history' \in Seq(Changes) /\ Len(history') = Len(history) + 1 /\ Len(history) \in Nat
        /\ live' \subseteq Instances
    <3>1. CASE Happen([kind |-> "clear"]) /\ UNCHANGED live
      <4>1. [kind |-> "clear"] \in Changes
        BY DEF Changes
      <4> QED BY <3>1, <4>1, HappenGrows, LenProperties DEF IInv, Types
    <3>2. ASSUME NEW i \in live, Happen([kind |-> "gone", inst |-> i]), live' = live \ {i}
          PROVE  history' \in Seq(Changes) /\ Len(history') = Len(history) + 1 /\ Len(history) \in Nat
                 /\ live' \subseteq Instances
      <4>1. [kind |-> "gone", inst |-> i] \in Changes
        BY DEF Changes, IInv, Types
      <4> QED BY <3>2, <4>1, HappenGrows, LenProperties DEF IInv, Types
    <3>3. ASSUME NEW i \in Instances \ live, Happen([kind |-> "added", inst |-> i]), live' = live \cup {i}
          PROVE  history' \in Seq(Changes) /\ Len(history') = Len(history) + 1 /\ Len(history) \in Nat
                 /\ live' \subseteq Instances
      <4>1. [kind |-> "added", inst |-> i] \in Changes
        BY DEF Changes
      <4> QED BY <3>3, <4>1, HappenGrows, LenProperties DEF IInv, Types
    <3> QED BY <1>9, <3>1, <3>2, <3>3 DEF SaveWrites
  <2> QED BY <1>9, <2>1, WritesKeep DEF SaveWrites
<1>10. CASE SaveAnswers \/ RunNow \/ Reinvalidate
  BY <1>10, InvalidateKeeps DEF SaveAnswers, RunNow, Reinvalidate, IInv, Types
<1>11. CASE UNCHANGED dashVars
  <2>1. Len(history) \in Nat
    BY LenProperties DEF IInv, Types
  <2> QED BY <1>11, <2>1, WritesKeep DEF dashVars, askVars, IInv, Types
<1> QED BY <1>1, <1>2, <1>3, <1>4, <1>5, <1>6, <1>7, <1>8, <1>9, <1>10, <1>11 DEF DashNext

LEMMA Inductive == DashSpec => []IInv
BY InitHolds, StepKeeps, PTL DEF DashSpec

(* The dashboard's state is well-typed.                                     *)
THEOREM TypeCorrect == DashSpec => []DashTypeOK
<1>1. IInv => DashTypeOK
  <2> SUFFICES ASSUME IInv PROVE DashTypeOK
    OBVIOUS
  <2>1. Len(gathers) \in Nat /\ Len(history) \in Nat /\ DOMAIN gathers = 1..Len(gathers)
    BY LenProperties DEF IInv, Types
  <2>2. \A g \in DOMAIN gathers : gathers[g] \in Gathers
    BY <2>1, ElementOfSeq DEF IInv, Types
  <2>3. entry \in [Keys -> 0..MaxGathers]
    BY <2>1, DashboardBounds DEF IInv, Types, EntriesFresh, None
  <2> QED BY <2>1, <2>2, <2>3 DEF IInv, Types, DashTypeOK, Gathers
<1> QED BY <1>1, Inductive, PTL

(* For any number of instances and of polls at once, a poll shows every     *)
(* write whose request had been answered before it asked.                   *)
THEOREM AnswersAreFresh == DashSpec => []AnswersFresh
<1>1. IInv => AnswersFresh
  <2> SUFFICES ASSUME IInv, NEW p \in Polls, poll[p].pc = "answered",
                      NEW n \in DOMAIN gathers[poll[p].gather].at
               PROVE  gathers[poll[p].gather].at[n] >= poll[p].owed
    BY DEF AnswersFresh
  <2>1. poll[p].gather \in 1..Len(gathers) /\ SeenBy(poll[p].gather, poll[p].owed)
    BY DEF IInv, PollsFresh
  <2>2. gathers[poll[p].gather] \in Gathers
    BY <2>1, ElementOfSeq DEF IInv, Types
  <2>3. DOMAIN gathers[poll[p].gather].at = 1..Len(gathers[poll[p].gather].at)
    BY <2>2, LenProperties DEF Gathers
  <2> QED BY <2>1, <2>3 DEF SeenBy
<1> QED BY <1>1, Inductive, PTL

-----------------------------------------------------------------------------
(* A set of numbers has a greatest one.                                     *)
LEMMA MaxOf ==
  ASSUME NEW N \in Nat, NEW S \in SUBSET (0..N), S # {}
  PROVE  Max(S) \in S /\ \A y \in S : Max(S) >= y
<1> DEFINE less == OpToRel(<, Nat)
           T == {N - x : x \in S}
<1>1. T \subseteq Nat /\ T # {}
  <2>1. \A x \in S : N - x \in Nat
    OBVIOUS
  <2>2. PICK y : y \in S
    OBVIOUS
  <2>3. N - y \in T
    BY <2>2
  <2> QED
    BY <2>1, <2>3
<1>2. IsWellFoundedOn(less, Nat)
  BY NatLessThanWellFounded
<1>3. \A x, y \in Nat : y < x => <<y, x>> \in less
  BY DEF OpToRel
<1> HIDE DEF less, T
<1>4. PICK x \in T : \A y \in T : ~(<<y, x>> \in less)
  BY <1>1, <1>2, WFMin
<1>5. PICK m \in S : x = N - m
  BY <1>4 DEF T
<1>6. \A y \in S : m >= y
  <2> SUFFICES ASSUME NEW y \in S, ~(m >= y) PROVE FALSE
    OBVIOUS
  <2>1. N - y \in T /\ N - y \in Nat /\ x \in Nat /\ N - y < x
    BY <1>5 DEF T
  <2> QED
    BY <1>3, <1>4, <2>1
<1> QED
  BY <1>6 DEF Max

(* The queries of a gather see the log in the order they run, none further  *)
(* than it goes, and a finished gather has run all of them.                 *)
InOrder(at, v) ==
  \A n \in 1..Len(at) : at[n] <= v /\ \A m \in 1..n : at[m] <= at[n]
Complete(g) == g.state = "done" => Len(g.at) = Length(g.key)
GathersOrdered ==
  \A g \in 1..Len(gathers) : InOrder(gathers[g].at, Len(history)) /\ Complete(gathers[g])

LEMMA OrderedGathersStand ==
  ASSUME IInv, IInv', GathersOrdered, gathers' = gathers, Len(history') >= Len(history)
  PROVE  GathersOrdered'
<1>1. Len(history) \in Nat /\ Len(history') \in Nat
  BY LenProperties DEF IInv, Types
<1> SUFFICES ASSUME NEW g \in 1..Len(gathers)
             PROVE  InOrder(gathers[g].at, Len(history')) /\ Complete(gathers[g])
  BY DEF GathersOrdered, Complete, Length, InOrder
<1>2. gathers[g].at \in Seq(Nat)
  <2>1. gathers[g] \in Gathers
    BY ElementOfSeq DEF IInv, Types
  <2> QED BY <2>1 DEF Gathers
<1>3. \A n \in 1..Len(gathers[g].at) : gathers[g].at[n] \in Nat
  BY <1>2, ElementOfSeq
<1>4. InOrder(gathers[g].at, Len(history)) /\ Complete(gathers[g])
  BY DEF GathersOrdered
<1>5. InOrder(gathers[g].at, Len(history'))
  BY <1>1, <1>3, <1>4 DEF InOrder
<1> QED BY <1>4, <1>5

LEMMA OrderedGatherMoves ==
  ASSUME IInv, GathersOrdered, NEW g \in 1..Len(gathers), NEW h,
         gathers' = [gathers EXCEPT ![g] = h], history' = history,
         InOrder(h.at, Len(history)), Complete(h)
  PROVE  GathersOrdered'
<1>1. Len(gathers) \in Nat /\ Len(gathers') = Len(gathers)
      /\ \A i \in 1..Len(gathers) : gathers'[i] = IF i = g THEN h ELSE gathers[i]
  BY LenProperties DEF IInv, Types
<1> SUFFICES ASSUME NEW i \in 1..Len(gathers)
             PROVE  InOrder(gathers'[i].at, Len(history)) /\ Complete(gathers'[i])
  BY <1>1 DEF GathersOrdered, InOrder, Complete, Length
<1>2. CASE i = g
  BY <1>1, <1>2
<1>3. CASE i # g
  BY <1>1, <1>3 DEF GathersOrdered
<1> QED BY <1>2, <1>3

LEMMA OrderedQuery ==
  ASSUME IInv, GathersOrdered, NEW g \in DOMAIN gathers, Query(g)
  PROVE  GathersOrdered'
<1>1. g \in 1..Len(gathers) /\ gathers[g] \in Gathers /\ Len(history) \in Nat
  BY LenProperties, ElementOfSeq DEF IInv, Types
<1> DEFINE old == gathers[g].at
           at == Append(old, Len(history))
           h == [gathers[g] EXCEPT !.at = at]
<1>2. at \in Seq(Nat) /\ Len(at) = Len(old) + 1 /\ Len(old) \in Nat
      /\ at[Len(at)] = Len(history) /\ \A n \in 1..Len(old) : at[n] = old[n]
  BY <1>1, AppendProperties, LenProperties DEF Gathers
<1>3. h.at = at /\ h.state = "running"
  BY <1>1 DEF Gathers, Query
<1>4. gathers' = [gathers EXCEPT ![g] = h] /\ history' = history
  BY DEF Query
<1>5. InOrder(old, Len(history))
  BY <1>1 DEF GathersOrdered
<1> HIDE DEF h, at, old
<1>6. InOrder(at, Len(history))
  <2> SUFFICES ASSUME NEW n \in 1..Len(at)
               PROVE  at[n] <= Len(history) /\ \A m \in 1..n : at[m] <= at[n]
    BY DEF InOrder
  <2>1. CASE n = Len(at)
    BY <2>1, <1>1, <1>2, <1>5 DEF InOrder
  <2>2. CASE n # Len(at)
    <3>1. n \in 1..Len(old) /\ 1..n \subseteq 1..Len(old)
      BY <2>2, <1>2
    <3> QED BY <3>1, <1>2, <1>5 DEF InOrder
  <2> QED BY <2>1, <2>2
<1>7. Complete(h)
  BY <1>3 DEF Complete
<1> QED BY <1>1, <1>3, <1>4, <1>6, <1>7, OrderedGatherMoves

LEMMA OrderedFinish ==
  ASSUME IInv, GathersOrdered, NEW g \in DOMAIN gathers, Finish(g)
  PROVE  GathersOrdered'
<1>1. g \in 1..Len(gathers) /\ gathers[g] \in Gathers
  BY LenProperties, ElementOfSeq DEF IInv, Types
<1> DEFINE h == [gathers[g] EXCEPT !.state = "done"]
<1>2. h.at = gathers[g].at /\ h.key = gathers[g].key
  BY <1>1 DEF Gathers
<1>3. gathers' = [gathers EXCEPT ![g] = h] /\ history' = history
      /\ Len(gathers[g].at) = Length(gathers[g].key)
  BY DEF Finish, askVars
<1> HIDE DEF h
<1>4. InOrder(h.at, Len(history)) /\ Complete(h)
  BY <1>1, <1>2, <1>3 DEF GathersOrdered, Complete
<1> QED BY <1>1, <1>3, <1>4, OrderedGatherMoves

LEMMA OrderedBreak ==
  ASSUME IInv, GathersOrdered, NEW g \in DOMAIN gathers, Break(g)
  PROVE  GathersOrdered'
<1>1. g \in 1..Len(gathers) /\ gathers[g] \in Gathers
  BY LenProperties, ElementOfSeq DEF IInv, Types
<1> DEFINE h == [[gathers[g] EXCEPT !.state = "failed"] EXCEPT !.at = <<>>]
<1>2. h.state = "failed" /\ h.at = <<>> /\ Len(h.at) = 0
  BY <1>1, EmptySeq DEF Gathers
<1>3. gathers' = [gathers EXCEPT ![g] = h] /\ history' = history
  BY <1>1, LenProperties DEF Break, IInv, Types
<1> HIDE DEF h
<1>4. InOrder(h.at, Len(history)) /\ Complete(h)
  BY <1>2 DEF InOrder, Complete
<1> QED BY <1>1, <1>3, <1>4, OrderedGatherMoves

LEMMA OrderedCall ==
  ASSUME IInv, IInv', GathersOrdered, NEW p, NEW asking, Call(p, asking), history' = history
  PROVE  GathersOrdered'
<1> DEFINE new == [key |-> asking.key, at |-> <<>>, state |-> "running"]
<1>1. CASE gathers' = gathers
  <2>1. Len(history') >= Len(history)
    BY LenProperties DEF IInv, Types
  <2> QED BY <1>1, <2>1, OrderedGathersStand
<1>2. CASE gathers' = Append(gathers, new)
  <2>1. new.at = <<>> /\ new.state = "running" /\ Len(new.at) = 0
    BY EmptySeq
  <2> HIDE DEF new
  <2>2. /\ Len(gathers) \in Nat /\ Len(gathers') = Len(gathers) + 1
        /\ gathers'[Len(gathers) + 1] = new
        /\ \A i \in 1..Len(gathers) : gathers'[i] = gathers[i]
    BY <1>2, LenProperties DEF IInv, Types
  <2> SUFFICES ASSUME NEW i \in 1..Len(gathers')
               PROVE  InOrder(gathers'[i].at, Len(history)) /\ Complete(gathers'[i])
    BY DEF GathersOrdered, InOrder, Complete, Length
  <2>3. CASE i \in 1..Len(gathers)
    BY <2>2, <2>3 DEF GathersOrdered
  <2>4. CASE i = Len(gathers) + 1
    BY <2>1, <2>2, <2>4 DEF InOrder, Complete
  <2> QED BY <2>2, <2>3, <2>4
<1> QED BY <1>1, <1>2 DEF Call

LEMMA HistoryGrows ==
  ASSUME IInv, NEW e, Happen(e)
  PROVE  Len(history') >= Len(history)
<1>1. history \in Seq(Changes \cup {e}) /\ Len(history) \in Nat
  BY LenProperties, SeqMonotonic DEF IInv, Types
<1> QED BY <1>1, AppendProperties DEF Happen

LEMMA StepOrders == IInv /\ GathersOrdered /\ [DashNext]_dashVars => GathersOrdered'
<1> SUFFICES ASSUME IInv, GathersOrdered, [DashNext]_dashVars PROVE GathersOrdered'
  OBVIOUS
<1>1. IInv'
  BY StepKeeps
<1>2. Len(history) \in Nat
  BY LenProperties DEF IInv, Types
<1>3. ASSUME NEW g \in DOMAIN gathers, Query(g) \/ Finish(g) \/ Break(g) PROVE GathersOrdered'
  BY <1>3, OrderedQuery, OrderedFinish, OrderedBreak
<1>4. ASSUME NEW p \in Polls, NEW w \in BOOLEAN, Ask(p, w) PROVE GathersOrdered'
  BY <1>1, <1>4, OrderedCall DEF Ask
<1>5. ASSUME NEW p \in Polls, AskAgain(p) PROVE GathersOrdered'
  BY <1>1, <1>5, OrderedCall DEF AskAgain
<1>6. ASSUME gathers' = gathers, history' = history PROVE GathersOrdered'
  BY <1>1, <1>2, <1>6, OrderedGathersStand
<1>7. ASSUME NEW e, gathers' = gathers, Happen(e) PROVE GathersOrdered'
  BY <1>1, <1>7, HistoryGrows, OrderedGathersStand
<1>8. ASSUME NEW p \in Polls, Answer(p) \/ Done(p) PROVE GathersOrdered'
  BY <1>6, <1>8 DEF Answer, Done, cacheVars
<1>9. ASSUME NEW k \in Keys, Expire(k) PROVE GathersOrdered'
  BY <1>6, <1>9 DEF Expire
<1>10. ASSUME NEW i \in Instances, NEW a \in Actions, LogRow(i, a) PROVE GathersOrdered'
  BY <1>7, <1>10 DEF LogRow, cacheVars
<1>11. CASE Age \/ SaveWrites
  BY <1>7, <1>11 DEF Age, SaveWrites, cacheVars
<1>12. CASE SaveAnswers \/ RunNow \/ Reinvalidate
  BY <1>6, <1>12 DEF SaveAnswers, RunNow, Reinvalidate, Invalidate
<1>13. CASE UNCHANGED dashVars
  BY <1>6, <1>13 DEF dashVars, cacheVars
<1> QED
  BY <1>3, <1>4, <1>5, <1>8, <1>9, <1>10, <1>11, <1>12, <1>13 DEF DashNext

(* Without a deletion in between, the rows an earlier query saw, those of   *)
(* the last day among them, are rows a later query sees.                    *)
LEMMA WindowWithinLifetime ==
  ASSUME NEW v \in Nat, NEW w \in Nat, v <= w, NEW i,
         \A n \in (v + 1)..w : history[n].kind \notin {"clear", "gone"}
  PROVE  /\ Did(RowsOf(v, i), "searched") \subseteq Did(RowsOf(w, i), "searched")
         /\ Did(Young(v, RowsOf(v, i)), "searched") \subseteq Did(RowsOf(v, i), "searched")
<1>0. Did(Young(v, RowsOf(v, i)), "searched") \subseteq Did(RowsOf(v, i), "searched")
  BY DEF Did, Young
<1> SUFFICES ASSUME NEW n \in Did(RowsOf(v, i), "searched")
             PROVE  n \in Did(RowsOf(w, i), "searched")
  BY <1>0
<1>1. /\ n \in 1..v /\ history[n].kind = "row" /\ history[n].inst = i
      /\ history[n].action = "searched"
      /\ \A c \in 1..v : history[c].kind = "clear" => c < n
      /\ \A d \in 1..v : history[d].kind = "gone" /\ history[d].inst = i => d < n
  BY DEF Did, RowsOf, Kept, Happens
<1>2. \A c \in 1..w : history[c].kind \in {"clear", "gone"} => c \in 1..v
  OBVIOUS
<1>3. /\ n \in 1..w
      /\ \A c \in 1..w : history[c].kind = "clear" => c < n
      /\ \A d \in 1..w : history[d].kind = "gone" /\ history[d].inst = i => d < n
  BY <1>1, <1>2
<1> QED BY <1>1, <1>3 DEF Did, RowsOf, Kept, Happens

LEMMA SmallerCounts ==
  ASSUME NEW v \in Nat, NEW S, NEW T, S \subseteq T, T \subseteq 1..v
  PROVE  /\ Cardinality(S) <= Cardinality(T)
         /\ Max({None} \cup S) <= Max({None} \cup T)
<1>1. IsFiniteSet(T)
  <2>1. IsFiniteSet(1..v)
    BY FS_Interval
  <2> QED BY <2>1, FS_Subset
<1>2. {None} \cup S \in SUBSET (0..v) /\ {None} \cup T \in SUBSET (0..v)
  BY DEF None
<1>3. Max({None} \cup S) \in {None} \cup S
  BY <1>2, MaxOf
<1>4. \A y \in {None} \cup T : Max({None} \cup T) >= y
  BY <1>2, MaxOf
<1>5. Max({None} \cup T) \in 0..v
  BY <1>2, MaxOf
<1>6. Max({None} \cup S) \in {None} \cup T
  BY <1>3
<1> HIDE DEF None
<1> QED BY <1>1, <1>2, <1>4, <1>5, <1>6, FS_Subset

(* However many rows and saves come between the queries of a gather, a card *)
(* of a finished gather never counts more searches in the last day than in  *)
(* its lifetime and never knows of a later one, unless rows were deleted    *)
(* between the two queries.                                                 *)
THEOREM CardsAgree == DashSpec => []CountsAgree
<1>1. DashInit => GathersOrdered
  BY EmptySeq DEF DashInit, GathersOrdered
<1>2. IInv /\ GathersOrdered => CountsAgree
  <2> SUFFICES ASSUME IInv, GathersOrdered, NEW n \in DOMAIN gathers, gathers[n].state = "done",
                      NEW i \in gathers[n].key,
                      ~\E e \in DOMAIN history :
                        /\ history[e].kind \in {"clear", "gone"}
                        /\ e > gathers[n].at[2] /\ e <= gathers[n].at[3]
               PROVE  /\ Card(gathers[n], i).window.searched <= Card(gathers[n], i).lifetime.searched
                      /\ Card(gathers[n], i).window.last <= Card(gathers[n], i).lifetime.last
    BY DEF CountsAgree
  <2> DEFINE v == gathers[n].at[2]
             w == gathers[n].at[3]
             day == Did(Young(v, RowsOf(v, i)), "searched")
             ever == Did(RowsOf(v, i), "searched")
             life == Did(RowsOf(w, i), "searched")
  <2>1. n \in 1..Len(gathers) /\ gathers[n].at \in Seq(Nat)
    <3>1. n \in 1..Len(gathers) /\ gathers[n] \in Gathers
      BY LenProperties, ElementOfSeq DEF IInv, Types
    <3> QED BY <3>1 DEF Gathers
  <2>2. Len(gathers[n].at) = 5
    BY <2>1 DEF GathersOrdered, Complete, Length
  <2>3. v \in Nat /\ w \in Nat /\ v <= w /\ w <= Len(history)
    <3>1. 2 \in 1..Len(gathers[n].at) /\ 3 \in 1..Len(gathers[n].at) /\ 2 \in 1..3
      BY <2>2
    <3>2. InOrder(gathers[n].at, Len(history))
      BY <2>1 DEF GathersOrdered
    <3> QED BY <2>1, <3>1, <3>2, ElementOfSeq DEF InOrder
  <2>4. DOMAIN history = 1..Len(history) /\ Len(history) \in Nat
    BY LenProperties DEF IInv, Types
  <2>5. \A e \in (v + 1)..w : history[e].kind \notin {"clear", "gone"}
    BY <2>3, <2>4
  <2>6. day \subseteq ever /\ ever \subseteq life /\ day \subseteq life
    <3>1. ever \subseteq life /\ day \subseteq ever
      <4> HIDE DEF v, w
      <4> QED BY <2>3, <2>5, WindowWithinLifetime
    <3> QED BY <3>1
  <2>8. life \subseteq 1..w
    BY DEF Did, RowsOf, Kept, Happens
  <2>9. /\ Card(gathers[n], i).window.searched = Cardinality(day)
        /\ Card(gathers[n], i).window.last = Max({None} \cup ever)
        /\ Card(gathers[n], i).lifetime.searched = Cardinality(life)
        /\ Card(gathers[n], i).lifetime.last = Max({None} \cup life)
    BY DEF Card, WindowMetrics, LifetimeMetrics, Queries
  <2> HIDE DEF day, ever, life, v, w
  <2> QED BY <2>3, <2>6, <2>8, <2>9, SmallerCounts
<1> QED BY InitHolds, StepKeeps, StepOrders, <1>1, <1>2, PTL DEF DashSpec

-----------------------------------------------------------------------------
(* Rows in the order of their ids: a later id never carries an earlier      *)
(* timestamp.                                                               *)
Ordered(S) ==
  /\ \A r \in S : r.id \in Nat /\ r.time \in Nat
  /\ \A r, s \in S : r.id = s.id => r = s
  /\ \A r, s \in S : r.id < s.id => r.time <= s.time

LEMMA NewerIsLater ==
  ASSUME NEW S, Ordered(S), NEW r \in S, NEW s \in S
  PROVE  Newer(r, s) <=> r.id > s.id
BY DEF Ordered, Newer

LEMMA LatestOf ==
  ASSUME NEW N \in Nat, NEW S, Ordered(S), \A r \in S : r.id <= N, S # {}
  PROVE  \E r \in S : \A s \in S : s.id <= r.id
<1> DEFINE ids == {r.id : r \in S}
<1>1. ids \in SUBSET (0..N) /\ ids # {}
  BY DEF Ordered
<1> HIDE DEF ids
<1>2. Max(ids) \in ids /\ \A y \in ids : Max(ids) >= y
  BY <1>1, MaxOf
<1>3. PICK r \in S : r.id = Max(ids)
  BY <1>2 DEF ids
<1>4. \A s \in S : s.id \in ids /\ s.id \in Nat
  BY DEF ids, Ordered
<1> QED BY <1>2, <1>3, <1>4

LEMMA EarliestOf ==
  ASSUME NEW N \in Nat, NEW S, Ordered(S), \A r \in S : r.id <= N, S # {}
  PROVE  \E r \in S : \A s \in S : r.id <= s.id
<1> DEFINE ids == {N - r.id : r \in S}
<1>1. ids \in SUBSET (0..N) /\ ids # {}
  BY DEF Ordered
<1> HIDE DEF ids
<1>2. Max(ids) \in ids /\ \A y \in ids : Max(ids) >= y
  BY <1>1, MaxOf
<1>3. PICK r \in S : N - r.id = Max(ids)
  BY <1>2 DEF ids
<1>4. \A s \in S : N - s.id \in ids /\ s.id \in Nat
  BY DEF ids, Ordered
<1> QED BY <1>2, <1>3, <1>4

LEMMA OrderedFinite ==
  ASSUME NEW N \in Nat, NEW S, Ordered(S), \A r \in S : r.id <= N
  PROVE  IsFiniteSet(S)
<1> DEFINE f == [r \in S |-> r.id]
<1>1. f \in Injection(S, 0..N)
  BY DEF Ordered, Injection, IsInjective
<1>2. IsFiniteSet(0..N)
  BY FS_Interval
<1> HIDE DEF f
<1> QED BY <1>1, <1>2, FS_Injection

(* What a LIMIT leaves: the newest rows, all of them when there are fewer.  *)
LEMMA NewestIsTop ==
  ASSUME NEW N \in Nat, NEW S, Ordered(S), \A r \in S : r.id <= N, NEW limit \in Nat
  PROVE  /\ Newest(S, limit) \subseteq S
         /\ \A r \in Newest(S, limit), s \in S : s.id > r.id => s \in Newest(S, limit)
         /\ Cardinality(Newest(S, limit)) < limit => Newest(S, limit) = S
         /\ Cardinality(Newest(S, limit)) \in Nat
<1> DEFINE above(r) == {s \in S : Newer(s, r)}
           T == Newest(S, limit)
<1>1. T = {r \in S : Cardinality(above(r)) < limit}
  BY DEF Newest
<1>2. IsFiniteSet(S)
  BY OrderedFinite
<1>3. \A r \in S : above(r) \subseteq S /\ IsFiniteSet(above(r)) /\ Cardinality(above(r)) \in Nat
  BY <1>2, FS_Subset, FS_CardinalityType
<1>4. \A r, s \in S : s \in above(r) <=> s.id > r.id
  BY NewerIsLater
<1> HIDE DEF above, T
<1>5. T \subseteq S /\ IsFiniteSet(T) /\ Cardinality(T) \in Nat
  BY <1>1, <1>2, FS_Subset, FS_CardinalityType
<1>6. ASSUME NEW r \in T, NEW s \in S, s.id > r.id PROVE s \in T
  <2>1. above(s) \subseteq above(r)
    <3> SUFFICES ASSUME NEW u \in above(s) PROVE u \in above(r)
      OBVIOUS
    <3>1. u \in S /\ r \in S
      BY <1>3, <1>5
    <3>2. u.id > s.id /\ u.id \in Nat /\ s.id \in Nat /\ r.id \in Nat
      BY <1>4, <3>1 DEF Ordered
    <3> QED BY <1>4, <1>6, <3>1, <3>2
  <2>2. Cardinality(above(s)) <= Cardinality(above(r))
    BY <2>1, <1>3, <1>5, FS_Subset
  <2> QED BY <1>1, <1>3, <1>5, <2>2
<1>7. ASSUME Cardinality(T) < limit PROVE T = S
  <2> SUFFICES ASSUME T # S PROVE FALSE
    OBVIOUS
  <2> DEFINE rest == S \ T
  <2>1. rest # {} /\ rest \subseteq S
    BY <1>5
  <2>2. Ordered(rest) /\ \A r \in rest : r.id <= N
    BY <2>1 DEF Ordered
  <2> HIDE DEF rest
  <2>3. PICK r \in rest : \A s \in rest : s.id <= r.id
    BY <2>1, <2>2, LatestOf
  <2>4. r \in S
    BY <2>1
  <2>5. above(r) \subseteq T
    <3> SUFFICES ASSUME NEW u \in above(r), u \notin T PROVE FALSE
      OBVIOUS
    <3>1. u \in S /\ u \in rest
      BY <1>3, <2>4 DEF rest
    <3>2. u.id > r.id /\ u.id <= r.id /\ u.id \in Nat /\ r.id \in Nat
      BY <1>4, <2>3, <2>4, <3>1 DEF Ordered
    <3> QED BY <3>2
  <2>6. Cardinality(above(r)) <= Cardinality(T)
    BY <2>5, <1>5, FS_Subset
  <2>7. r \in T
    BY <1>1, <1>3, <1>5, <1>7, <2>4, <2>6
  <2> QED BY <2>3, <2>7 DEF rest
<1> QED BY <1>5, <1>6, <1>7 DEF T

LEMMA LeaderIs ==
  ASSUME NEW N \in Nat, NEW S, Ordered(S), \A r \in S : r.id <= N, NEW row \in S
  PROVE  Leader(S, row) \in S
<1>1. CASE row.cycle = NoCycle
  BY <1>1 DEF Leader
<1>2. CASE row.cycle # NoCycle
  <2> DEFINE own == {s \in S : s.cycle = row.cycle}
  <2>1. own # {} /\ Ordered(own) /\ \A r \in own : r.id <= N
    BY DEF Ordered
  <2>2. PICK r \in own : \A s \in own : s.id <= r.id
    BY <2>1, LatestOf
  <2>3. \A s \in S : s.cycle = row.cycle => ~Newer(s, r)
    BY <2>2, NewerIsLater DEF Ordered
  <2>4. \E q \in S : q.cycle = row.cycle /\ \A s \in S : s.cycle = row.cycle => ~Newer(s, q)
    BY <2>2, <2>3
  <2> QED BY <1>2, <2>4 DEF Leader
<1> QED BY <1>1, <1>2

(* However the rows of a page are grouped, one of them comes last.          *)
LEMMA LastShownIn ==
  ASSUME NEW N \in Nat, NEW S, Ordered(S), \A r \in S : r.id <= N, S # {}
  PROVE  LastShown(S) \in S
<1> DEFINE leaders == {Leader(S, r) : r \in S}
<1>1. leaders # {} /\ leaders \subseteq S
  BY LeaderIs
<1>2. Ordered(leaders) /\ \A r \in leaders : r.id <= N
  BY <1>1 DEF Ordered
<1> HIDE DEF leaders
<1>3. PICK l \in leaders : \A s \in leaders : l.id <= s.id
  BY <1>1, <1>2, EarliestOf
<1> DEFINE led == {r \in S : Leader(S, r) = l}
<1>4. led # {} /\ led \subseteq S
  BY <1>3 DEF leaders
<1>5. Ordered(led) /\ \A r \in led : r.id <= N
  BY <1>4 DEF Ordered
<1>6. PICK r \in led : \A s \in led : r.id <= s.id
  BY <1>4, <1>5, EarliestOf
<1>7. ASSUME NEW s \in S \ {r}
      PROVE  \/ Newer(Leader(S, s), Leader(S, r))
             \/ (Leader(S, s) = Leader(S, r) /\ Newer(s, r))
  <2>1. r \in S /\ Leader(S, r) = l /\ l \in S /\ Leader(S, s) \in leaders /\ Leader(S, s) \in S
    BY <1>1, <1>3, <1>6, <1>7 DEF leaders
  <2>2. CASE Leader(S, s) = l
    <3>1. r.id <= s.id /\ r.id # s.id /\ r.id \in Nat /\ s.id \in Nat
      BY <1>6, <1>7, <2>1, <2>2 DEF Ordered
    <3> QED BY <2>1, <2>2, <3>1, NewerIsLater
  <2>3. CASE Leader(S, s) # l
    <3>1. l.id <= Leader(S, s).id /\ l.id # Leader(S, s).id /\ l.id \in Nat /\ Leader(S, s).id \in Nat
      BY <1>3, <2>1, <2>3 DEF Ordered
    <3> QED BY <2>1, <3>1, NewerIsLater
  <2> QED BY <2>2, <2>3
<1>8. \E q \in S : \A s \in S \ {q} :
        \/ Newer(Leader(S, s), Leader(S, q))
        \/ (Leader(S, s) = Leader(S, q) /\ Newer(s, q))
  BY <1>6, <1>7
<1> QED BY <1>8 DEF LastShown

(* Ids are given out in the order of the clock.                             *)
RowsOK ==
  /\ Ordered(rows)
  /\ \A r \in rows : r.id \in 1..lastId /\ r.time <= now
  /\ \A r \in rows : r = [id |-> r.id, time |-> r.time, cycle |-> r.cycle, inst |-> r.inst,
                          trigger |-> r.trigger, action |-> r.action]
  /\ lastId \in Nat /\ now \in Nat

(* While the button stands, the cursor is one of the cuts.                  *)
PageOK ==
  /\ feed = [open |-> feed.open, filter |-> feed.filter, limit |-> feed.limit,
             before |-> feed.before, more |-> feed.more, shown |-> feed.shown, cuts |-> feed.cuts,
             upTo |-> feed.upTo, top |-> feed.top, banner |-> feed.banner]
  /\ feed.open \in BOOLEAN /\ feed.before \in Nat /\ feed.upTo \in 0..lastId
  /\ feed.open => /\ feed.limit \in Nat \ {0}
                  /\ feed.more => feed.before \in feed.cuts

FeedInv == RowsOK /\ PageOK /\ NoGap

(* Rows that go, or lose their instance, leave the page as complete as it   *)
(* was: no row begins to match.                                             *)
LEMMA RowsGo ==
  ASSUME FeedInv, UNCHANGED <<lastId, now, feed>>, RowsOK',
         \A r \in rows' : \E s \in rows :
           /\ r.id = s.id /\ r.time = s.time
           /\ \A f : Matches(r, f) => Matches(s, f)
  PROVE  FeedInv'
<1>1. PageOK'
  BY DEF FeedInv, PageOK
<1>2. NoGap'
  <2> SUFFICES ASSUME feed.open, NEW r \in rows', r.id <= feed.upTo, Matches(r, feed.filter),
                      r.time \notin feed.cuts, ~feed.more \/ r.time > feed.before
               PROVE  r.id \in feed.shown
    BY DEF NoGap, Matches, SystemRow
  <2>1. PICK s \in rows : /\ r.id = s.id /\ r.time = s.time
                          /\ \A f : Matches(r, f) => Matches(s, f)
    OBVIOUS
  <2>2. Matches(s, feed.filter)
    BY <2>1
  <2> QED BY <2>1, <2>2 DEF FeedInv, NoGap
<1> QED BY <1>1, <1>2 DEF FeedInv

LEMMA RowsSubset ==
  ASSUME FeedInv, UNCHANGED <<lastId, now, feed>>, rows' \subseteq rows
  PROVE  FeedInv'
<1>1. RowsOK'
  BY DEF FeedInv, RowsOK, Ordered
<1>2. \A r \in rows' : \E s \in rows :
        r.id = s.id /\ r.time = s.time /\ \A f : Matches(r, f) => Matches(s, f)
  OBVIOUS
<1> QED BY <1>1, <1>2, RowsGo

LEMMA OrphanKeeps ==
  ASSUME FeedInv, NEW i, Orphan(i)
  PROVE  FeedInv'
<1> DEFINE o(r) == IF r.inst = i THEN [r EXCEPT !.inst = NoInst] ELSE r
<1>1. \A r \in rows : r = [id |-> r.id, time |-> r.time, cycle |-> r.cycle, inst |-> r.inst,
                           trigger |-> r.trigger, action |-> r.action]
  BY DEF FeedInv, RowsOK
<1>2. ASSUME NEW r \in rows
      PROVE  /\ o(r).id = r.id /\ o(r).time = r.time /\ o(r).trigger = r.trigger
             /\ o(r).action = r.action /\ o(r).inst \in {r.inst, NoInst}
             /\ o(r) = [id |-> o(r).id, time |-> o(r).time, cycle |-> o(r).cycle,
                        inst |-> o(r).inst, trigger |-> o(r).trigger, action |-> o(r).action]
  BY <1>1
<1>3. rows' = {o(r) : r \in rows} /\ UNCHANGED <<lastId, now, feed>>
  BY DEF Orphan
<1> HIDE DEF o
<1>4. RowsOK'
  <2>1. Ordered(rows')
    BY <1>2, <1>3 DEF FeedInv, RowsOK, Ordered
  <2>2. \A r \in rows' : r.id \in 1..lastId /\ r.time <= now
    BY <1>2, <1>3 DEF FeedInv, RowsOK
  <2>3. \A r \in rows' : r = [id |-> r.id, time |-> r.time, cycle |-> r.cycle, inst |-> r.inst,
                              trigger |-> r.trigger, action |-> r.action]
    BY <1>2, <1>3
  <2> QED BY <1>3, <2>1, <2>2, <2>3 DEF FeedInv, RowsOK
<1>5. ASSUME NEW r \in rows' PROVE \E s \in rows :
        r.id = s.id /\ r.time = s.time /\ \A f : Matches(r, f) => Matches(s, f)
  <2>1. PICK s \in rows : r = o(s)
    BY <1>3
  <2>2. ASSUME NEW f, Matches(r, f) PROVE Matches(s, f)
    <3>1. /\ r.trigger = s.trigger /\ r.action = s.action /\ (r.inst = s.inst \/ r.inst = NoInst)
      BY <1>2, <2>1
    <3> QED BY <2>2, <3>1 DEF Matches, SystemRow
  <2> QED BY <1>2, <2>1, <2>2
<1> QED BY <1>3, <1>4, <1>5, RowsGo

LEMMA WriteRowKeeps ==
  ASSUME FeedInv, NEW source, NEW later \in {0, 1}, WriteRow(source, later)
  PROVE  FeedInv'
<1> DEFINE row == [id |-> lastId + 1, time |-> now + later, cycle |-> source.cycle,
                   inst |-> source.inst, trigger |-> source.trigger, action |-> source.action]
<1>1. /\ rows' = rows \cup {row} /\ lastId' = lastId + 1 /\ now' = now + later /\ feed' = feed
      /\ lastId \in Nat /\ now \in Nat /\ row.id = lastId + 1 /\ row.time = now + later
      /\ row = [id |-> row.id, time |-> row.time, cycle |-> row.cycle, inst |-> row.inst,
                trigger |-> row.trigger, action |-> row.action]
  BY DEF WriteRow, FeedInv, RowsOK
<1> HIDE DEF row
<1>2. RowsOK'
  <2>1. Ordered(rows')
    BY <1>1 DEF FeedInv, RowsOK, Ordered
  <2>2. \A r \in rows' : r.id \in 1..lastId' /\ r.time <= now'
    <3>1. \A r \in rows : r.id \in 1..lastId /\ r.time <= now /\ r.time \in Nat
      BY DEF FeedInv, RowsOK, Ordered
    <3> QED BY <1>1, <3>1
  <2>3. \A r \in rows' : r = [id |-> r.id, time |-> r.time, cycle |-> r.cycle, inst |-> r.inst,
                              trigger |-> r.trigger, action |-> r.action]
    BY <1>1 DEF FeedInv, RowsOK
  <2>4. lastId' \in Nat /\ now' \in Nat
    BY <1>1
  <2> QED BY <2>1, <2>2, <2>3, <2>4 DEF RowsOK
<1>3. PageOK'
  BY <1>1 DEF FeedInv, PageOK
<1>4. NoGap'
  <2>1. \A r \in rows' : r \in rows \/ r.id > feed.upTo
    BY <1>1 DEF FeedInv, PageOK
  <2>2. feed.upTo \in Nat /\ \A r \in rows' : r.id \in Nat
    BY <1>2 DEF FeedInv, PageOK, RowsOK, Ordered
  <2>3. \A r \in rows' : r.id <= feed.upTo => r \in rows
    BY <2>1, <2>2
  <2> QED BY <1>1, <2>3 DEF FeedInv, NoGap
<1> QED BY <1>2, <1>3, <1>4 DEF FeedInv

LEMMA LimitOK ==
  ASSUME NEW limit \in Nat \ {0}
  PROVE  LoadMoreLimit(limit) \in Nat \ {0} 
<1>1. ChunkMax \in Nat \ {0}
  BY LogFeedAssumption
<1>2. \E x \in {limit, ChunkMax} : \A y \in {limit, ChunkMax} : x <= y
  BY <1>1
<1> QED BY <1>1, <1>2 DEF LoadMoreLimit, Min

(* What a fetch does not show, of the rows it was asked for, is no later    *)
(* than the last row it shows, and a page that is not full shows them all.  *)
LEMMA FetchComplete ==
  ASSUME RowsOK, NEW before, NEW filter, NEW limit \in Nat \ {0},
         NEW r \in rows, Older(r, before), Matches(r, filter),
         r \notin Fetched(before, filter, limit)
  PROVE  LET S == Fetched(before, filter, limit)
         IN /\ Cardinality(S) >= limit /\ S # {}
            /\ r.time <= LastShown(S).time
<1> DEFINE M == {s \in rows : Older(s, before) /\ Matches(s, filter)}
           S == Fetched(before, filter, limit)
<1>1. S = Newest(M, limit)
  BY DEF Fetched
<1>2. Ordered(M) /\ (\A s \in M : s.id <= lastId) /\ r \in M /\ lastId \in Nat
  BY DEF RowsOK, Ordered
<1> HIDE DEF M, S
<1>3. /\ S \subseteq M /\ \A q \in S, s \in M : s.id > q.id => s \in S
      /\ Cardinality(S) < limit => S = M
      /\ Cardinality(S) \in Nat
  BY <1>1, <1>2, NewestIsTop
<1>4. Cardinality(S) >= limit
  BY <1>2, <1>3 DEF S
<1>5. S # {}
  BY <1>4, FS_EmptySet
<1>6. Ordered(S) /\ \A s \in S : s.id <= lastId
  BY <1>2, <1>3 DEF Ordered
<1>7. LastShown(S) \in S
  BY <1>2, <1>5, <1>6, LastShownIn
<1>8. r.id < LastShown(S).id
  <2>1. ~(r.id > LastShown(S).id) /\ r.id # LastShown(S).id
    BY <1>2, <1>3, <1>7 DEF S, Ordered
  <2> QED BY <1>2, <1>3, <1>7, <2>1 DEF Ordered
<1>9. r.time <= LastShown(S).time
  BY <1>2, <1>3, <1>7, <1>8 DEF Ordered
<1> QED BY <1>4, <1>5, <1>9 DEF S

LEMMA PageIs ==
  ASSUME NEW S, NEW limit, NEW next,
         next = [open |-> next.open, filter |-> next.filter, limit |-> next.limit,
                 before |-> next.before, more |-> next.more, shown |-> next.shown,
                 cuts |-> next.cuts, upTo |-> next.upTo, top |-> next.top, banner |-> next.banner]
  PROVE  Page(S, limit, next) =
           [open |-> next.open, filter |-> next.filter, limit |-> LoadMoreLimit(limit),
            before |-> IF S = {} THEN 0 ELSE LastShown(S).time,
            more |-> Cardinality(S) >= limit,
            shown |-> next.shown \cup {r.id : r \in S},
            cuts |-> next.cuts \cup (IF Cardinality(S) >= limit THEN {LastShown(S).time} ELSE {}),
            upTo |-> next.upTo, top |-> next.top, banner |-> next.banner]
<1> DEFINE before == IF S = {} THEN 0 ELSE LastShown(S).time
           more == Cardinality(S) >= limit
           ids == {r.id : r \in S}
           cut == IF Cardinality(S) >= limit THEN {LastShown(S).time} ELSE {}
           size == LoadMoreLimit(limit)
<1>1. Page(S, limit, next) = [next EXCEPT !.limit = size, !.more = more, !.before = before,
                                          !.shown = @ \cup ids, !.cuts = @ \cup cut]
  BY DEF Page
<1> HIDE DEF before, more, ids, cut, size
<1>2. Page(S, limit, next) =
           [open |-> next.open, filter |-> next.filter, limit |-> size,
            before |-> before, more |-> more, shown |-> next.shown \cup ids,
            cuts |-> next.cuts \cup cut, upTo |-> next.upTo, top |-> next.top,
            banner |-> next.banner]
  BY <1>1
<1> QED BY <1>2 DEF before, more, ids, cut, size

(* A page that is fetched, or appended: it is complete for the rows after   *)
(* the cursor it was asked with, if the page before was complete up to it.  *)
LEMMA PageComplete ==
  ASSUME RowsOK, UNCHANGED <<rows, lastId, now>>,
         NEW before \in Nat, NEW filter, NEW limit \in Nat \ {0}, NEW next,
         next = [open |-> next.open, filter |-> next.filter, limit |-> next.limit,
                 before |-> next.before, more |-> next.more, shown |-> next.shown,
                 cuts |-> next.cuts, upTo |-> next.upTo, top |-> next.top, banner |-> next.banner],
         next.open = TRUE, next.filter = filter, next.upTo \in 0..lastId,
         feed' = Page(Fetched(before, filter, limit), limit, next),
         \A r \in rows : /\ r.id <= next.upTo /\ Matches(r, filter) /\ r.time \notin next.cuts
                         /\ ~Older(r, before)
                         => r.id \in next.shown
  PROVE  FeedInv'
<1> DEFINE S == Fetched(before, filter, limit)
<1>1. /\ feed' = [open |-> next.open, filter |-> next.filter, limit |-> LoadMoreLimit(limit),
                  before |-> IF S = {} THEN 0 ELSE LastShown(S).time,
                  more |-> Cardinality(S) >= limit,
                  shown |-> next.shown \cup {r.id : r \in S},
                  cuts |-> next.cuts \cup (IF Cardinality(S) >= limit THEN {LastShown(S).time} ELSE {}),
                  upTo |-> next.upTo, top |-> next.top, banner |-> next.banner]
  BY PageIs
<1>2. S \subseteq rows
  BY DEF Fetched, Newest
<1>3. S # {} => LastShown(S) \in S
  <2>1. Ordered(S) /\ (\A s \in S : s.id <= lastId) /\ lastId \in Nat
    BY <1>2 DEF RowsOK, Ordered
  <2> HIDE DEF S
  <2> QED BY <2>1, LastShownIn
<1>4. ASSUME NEW r \in rows, Older(r, before), Matches(r, filter), r \notin S
      PROVE  Cardinality(S) >= limit /\ S # {} /\ r.time <= LastShown(S).time
  BY <1>4, FetchComplete
<1>5. S = {} => Cardinality(S) = 0
  BY FS_EmptySet
<1> HIDE DEF S
<1> DEFINE full == Cardinality(S) >= limit
           last == LastShown(S).time
<1>6. /\ feed'.open = TRUE /\ feed'.filter = filter /\ feed'.upTo = next.upTo
      /\ feed'.limit = LoadMoreLimit(limit) /\ feed'.more = full
      /\ feed'.before = IF S = {} THEN 0 ELSE last
      /\ feed'.shown = next.shown \cup {r.id : r \in S}
      /\ feed'.cuts = next.cuts \cup (IF full THEN {last} ELSE {})
  <2> HIDE DEF full, last
  <2>1. feed' = [open |-> next.open, filter |-> next.filter, limit |-> LoadMoreLimit(limit),
                  before |-> IF S = {} THEN 0 ELSE last, more |-> full,
                  shown |-> next.shown \cup {r.id : r \in S},
                  cuts |-> next.cuts \cup (IF full THEN {last} ELSE {}),
                  upTo |-> next.upTo, top |-> next.top, banner |-> next.banner]
    BY <1>1 DEF full, last
  <2> QED BY <2>1
<1>7. full \in BOOLEAN /\ (full => S # {})
  BY <1>5
<1>8. RowsOK'
  BY DEF RowsOK, Ordered
<1>9. PageOK'
  <2>1. feed'.before \in Nat /\ feed'.upTo \in 0..lastId'
    BY <1>1, <1>2, <1>3 DEF RowsOK, Ordered
  <2>2. feed'.limit \in Nat \ {0}
    BY <1>1, LimitOK
  <2>3. feed'.more => feed'.before \in feed'.cuts
    <3> HIDE DEF full, last
    <3> QED BY <1>6, <1>7
  <2>4. feed'.open \in BOOLEAN
    BY <1>6
  <2>5. feed' = [open |-> feed'.open, filter |-> feed'.filter, limit |-> feed'.limit,
                 before |-> feed'.before, more |-> feed'.more, shown |-> feed'.shown,
                 cuts |-> feed'.cuts, upTo |-> feed'.upTo, top |-> feed'.top,
                 banner |-> feed'.banner]
    <3> HIDE DEF full, last
    <3> QED BY <1>1
  <2> QED BY <2>1, <2>2, <2>3, <2>4, <2>5 DEF PageOK
<1>10. NoGap'
  <2> SUFFICES ASSUME NEW r \in rows, r.id <= next.upTo, Matches(r, filter),
                      r.time \notin feed'.cuts, ~feed'.more \/ r.time > feed'.before
               PROVE  r.id \in feed'.shown
    BY <1>1 DEF NoGap, Matches, SystemRow
  <2>1. CASE ~Older(r, before)
    BY <1>1, <2>1
  <2>2. CASE Older(r, before)
    <3> SUFFICES ASSUME r \notin S PROVE FALSE
      BY <1>1
    <3>1. Cardinality(S) >= limit /\ S # {} /\ r.time <= LastShown(S).time
      BY <1>4, <2>2
    <3>2. feed'.more /\ feed'.before = LastShown(S).time
      <4>1. full /\ S # {} /\ last = LastShown(S).time
        BY <3>1
      <4> HIDE DEF full, last
      <4> QED BY <1>6, <4>1
    <3>3. r.time \in Nat /\ LastShown(S).time \in Nat
      BY <1>2, <1>3, <3>1 DEF RowsOK, Ordered
    <3> QED BY <3>1, <3>2, <3>3
  <2> QED BY <2>1, <2>2
<1> QED BY <1>8, <1>9, <1>10 DEF FeedInv

LEMMA OpenedIs ==
  ASSUME NEW next, NEW open, NEW filter, NEW upTo, NEW top, NEW opened,
         opened = [next EXCEPT !.open = open, !.filter = filter, !.upTo = upTo, !.top = top],
         next = [open |-> next.open, filter |-> next.filter, limit |-> next.limit,
                 before |-> next.before, more |-> next.more, shown |-> next.shown,
                 cuts |-> next.cuts, upTo |-> next.upTo, top |-> next.top, banner |-> next.banner]
  PROVE  opened =
           [open |-> open, filter |-> filter, limit |-> next.limit, before |-> next.before,
            more |-> next.more, shown |-> next.shown, cuts |-> next.cuts, upTo |-> upTo,
            top |-> top, banner |-> next.banner]
OBVIOUS

LEMMA OpenKeeps ==
  ASSUME FeedInv, NEW filter, NEW limit \in Limits, Open(filter, limit)
  PROVE  FeedInv'
<1>1. limit \in Nat \ {0}
  BY LogFeedAssumption
<1> DEFINE S == Fetched(0, filter, limit)
           next == [open |-> TRUE, filter |-> filter, limit |-> 0, before |-> 0, more |-> FALSE,
                    shown |-> {}, cuts |-> {}, upTo |-> lastId, top |-> TopCycle(S), banner |-> 0]
<1>2. feed' = Page(S, limit, next) /\ UNCHANGED <<rows, lastId, now>>
  <2> DEFINE top == TopCycle(S)
  <2>1. /\ feed' = Page(S, limit, [Closed EXCEPT !.open = TRUE, !.filter = filter,
                                                !.upTo = lastId, !.top = top])
        /\ UNCHANGED <<rows, lastId, now>>
    BY DEF Open
  <2> HIDE DEF top
  <2>2. [Closed EXCEPT !.open = TRUE, !.filter = filter, !.upTo = lastId, !.top = top]
        = [open |-> TRUE, filter |-> filter, limit |-> 0, before |-> 0, more |-> FALSE,
           shown |-> {}, cuts |-> {}, upTo |-> lastId, top |-> top, banner |-> 0]
    <3>1. Closed = [open |-> Closed.open, filter |-> Closed.filter, limit |-> Closed.limit,
                    before |-> Closed.before, more |-> Closed.more, shown |-> Closed.shown,
                    cuts |-> Closed.cuts, upTo |-> Closed.upTo, top |-> Closed.top,
                    banner |-> Closed.banner]
      BY DEF Closed
    <3>2. /\ Closed.limit = 0 /\ Closed.before = 0 /\ Closed.more = FALSE
          /\ Closed.shown = {} /\ Closed.cuts = {} /\ Closed.banner = 0
      BY DEF Closed
    <3>3. PICK opened :
            opened = [Closed EXCEPT !.open = TRUE, !.filter = filter, !.upTo = lastId, !.top = top]
      OBVIOUS
    <3>4. opened =
            [open |-> TRUE, filter |-> filter, limit |-> Closed.limit, before |-> Closed.before,
             more |-> Closed.more, shown |-> Closed.shown, cuts |-> Closed.cuts, upTo |-> lastId,
             top |-> top, banner |-> Closed.banner]
      BY <3>1, <3>3, OpenedIs
    <3> QED BY <3>2, <3>3, <3>4
  <2>3. feed' = Page(S, limit, [open |-> TRUE, filter |-> filter, limit |-> 0, before |-> 0,
                               more |-> FALSE, shown |-> {}, cuts |-> {}, upTo |-> lastId,
                               top |-> top, banner |-> 0])
    BY <2>1, <2>2
  <2> QED BY <2>1, <2>3 DEF top
<1>3. \A r : Older(r, 0)
  BY DEF Older
<1>4. next.open = TRUE /\ next.filter = filter /\ next.upTo \in 0..lastId
  BY DEF FeedInv, RowsOK
<1>5. next = [open |-> next.open, filter |-> next.filter, limit |-> next.limit,
              before |-> next.before, more |-> next.more, shown |-> next.shown,
              cuts |-> next.cuts, upTo |-> next.upTo, top |-> next.top, banner |-> next.banner]
  OBVIOUS
<1> HIDE DEF next
<1> QED BY <1>1, <1>2, <1>3, <1>4, <1>5, PageComplete DEF FeedInv

LEMMA LoadOlderKeeps ==
  ASSUME FeedInv, LoadOlder
  PROVE  FeedInv'
<1>1. /\ feed.open /\ feed.more /\ UNCHANGED <<rows, lastId, now>>
      /\ feed' = Page(Fetched(feed.before, feed.filter, feed.limit), feed.limit, feed)
  BY DEF LoadOlder
<1>2. /\ feed.limit \in Nat \ {0} /\ feed.before \in Nat /\ feed.before \in feed.cuts
      /\ feed.upTo \in 0..lastId
  BY <1>1 DEF FeedInv, PageOK
<1>3. feed = [open |-> feed.open, filter |-> feed.filter, limit |-> feed.limit,
              before |-> feed.before, more |-> feed.more, shown |-> feed.shown, cuts |-> feed.cuts,
              upTo |-> feed.upTo, top |-> feed.top, banner |-> feed.banner]
  BY DEF FeedInv, PageOK
<1>4. ASSUME NEW r \in rows, r.id <= feed.upTo, Matches(r, feed.filter), r.time \notin feed.cuts,
             ~Older(r, feed.before)
      PROVE  r.id \in feed.shown
  <2>1. r.time > feed.before
    BY <1>2, <1>4 DEF Older, FeedInv, RowsOK, Ordered
  <2> QED BY <1>1, <1>4, <2>1 DEF FeedInv, NoGap
<1>5. feed.open = TRUE
  <2>1. feed.open \in BOOLEAN
    BY DEF FeedInv, PageOK
  <2> QED BY <1>1, <2>1
<1> QED BY <1>1, <1>2, <1>3, <1>4, <1>5, PageComplete DEF FeedInv

LEMMA PollHeadKeeps ==
  ASSUME FeedInv, PollHead
  PROVE  FeedInv'
<1> DEFINE count == Cardinality(NewerCycles(feed.top))
<1>1. feed = [open |-> feed.open, filter |-> feed.filter, limit |-> feed.limit,
              before |-> feed.before, more |-> feed.more, shown |-> feed.shown, cuts |-> feed.cuts,
              upTo |-> feed.upTo, top |-> feed.top, banner |-> feed.banner]
  BY DEF FeedInv, PageOK
<1>2. feed' = [feed EXCEPT !.banner = count] /\ UNCHANGED <<rows, lastId, now>>
  BY DEF PollHead
<1> HIDE DEF count
<1>3. feed' = [open |-> feed.open, filter |-> feed.filter, limit |-> feed.limit,
               before |-> feed.before, more |-> feed.more, shown |-> feed.shown,
               cuts |-> feed.cuts, upTo |-> feed.upTo, top |-> feed.top, banner |-> count]
  BY <1>1, <1>2
<1>4. RowsOK'
  BY <1>2 DEF FeedInv, RowsOK, Ordered
<1>5. PageOK'
  BY <1>2, <1>3 DEF FeedInv, PageOK
<1>6. /\ feed'.open = feed.open /\ feed'.filter = feed.filter /\ feed'.before = feed.before
      /\ feed'.more = feed.more /\ feed'.shown = feed.shown /\ feed'.cuts = feed.cuts
      /\ feed'.upTo = feed.upTo
  BY <1>3
<1>7. NoGap'
  BY <1>2, <1>6 DEF FeedInv, NoGap, Matches, SystemRow
<1> QED BY <1>4, <1>5, <1>7 DEF FeedInv

LEMMA FeedStarts ==
  ASSUME LogInit
  PROVE  FeedInv
<1>1. /\ rows = {} /\ lastId = 0 /\ now = 1
      /\ feed = [open |-> FALSE, filter |-> {}, limit |-> 0, before |-> 0, more |-> FALSE,
                 shown |-> {}, cuts |-> {}, upTo |-> 0, top |-> NoCycle, banner |-> 0]
  BY DEF LogInit, Closed
<1> QED BY <1>1 DEF FeedInv, RowsOK, Ordered, PageOK, NoGap

LEMMA FeedGoesOn ==
  ASSUME FeedInv, [LogNext]_logVars
  PROVE  FeedInv'
<1>1. ASSUME NEW s \in Sources, NEW later \in {0, 1}, WriteRow(s, later) PROVE FeedInv'
  BY <1>1, WriteRowKeeps
<1>2. CASE Clear
  BY <1>2, RowsSubset DEF Clear
<1>3. ASSUME NEW c \in 1..MaxNow, Purge(c) PROVE FeedInv'
  BY <1>3, RowsSubset DEF Purge
<1>4. ASSUME NEW i, Orphan(i) PROVE FeedInv'
  BY <1>4, OrphanKeeps
<1>5. ASSUME NEW f \in Filters, NEW l \in Limits, Open(f, l) PROVE FeedInv'
  BY <1>5, OpenKeeps
<1>6. CASE LoadOlder
  BY <1>6, LoadOlderKeeps
<1>7. CASE PollHead
  BY <1>7, PollHeadKeeps
<1>8. CASE UNCHANGED logVars
  BY <1>8, RowsSubset DEF logVars
<1> QED BY <1>1, <1>2, <1>3, <1>4, <1>5, <1>6, <1>7, <1>8 DEF LogNext

(* Whatever rows cycles write, purges and clears delete and deleted         *)
(* instances leave orphaned between two clicks, a row that matched when the *)
(* page was opened is on it once the cursor is past it, unless it shares    *)
(* the timestamp of a cut (log_query.py:226-330).                           *)
THEOREM NoRowIsSkipped == LogSpec => []NoGap
<1>1. FeedInv => NoGap
  BY DEF FeedInv
<1> QED BY FeedStarts, FeedGoesOn, <1>1, PTL DEF LogSpec
=============================================================================
