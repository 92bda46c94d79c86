------------------------ MODULE CooldownReconcileProofs ------------------------
(***************************************************************************)
(* Theorems about CooldownReconcile: what an undisturbed refresh has       *)
(* collected vouches for every row a search would write now.               *)
(***************************************************************************)
EXTENDS CooldownReconcile, TLAPS, FiniteSetTheorems, Functions

Pools == {"exclusion", "library", "series", "cache"}
Before == {"idle", "wait", "snapshot", "missing", "cutoff"}
Later == {"exclusion", "library", "series", "episodes"}

(* A list has been read up to the page to come, or as a whole.              *)
UpTo(k) == \A i \in Listed(k) : Place(k, i) <= (page - 1) * PageSize => i \in got[k]
Fetched(k) == Listed(k) \subseteq got[k]

(* What an undisturbed refresh holds at each place.                         *)
Collected ==
  /\ inst = settings
  /\ pc = "missing" => UpTo("missing")
  /\ pc = "cutoff" => Fetched("missing") /\ UpTo("cutoff")
  /\ pc \in Later => Fetched("missing") /\ Fetched("cutoff")
  /\ pc \in {"exclusion", "library"} /\ Adapter.pool = "exclusion" =>
       seen \cap Listed("upgrade") = {}
  /\ pc = "episodes" => \A i \in Listed("upgrade") : Parent[i] \in seen \/ i \in got["upgrade"]
  /\ pc = "apply" => \/ got = Nothing
                     \/ /\ Fetched("missing") /\ Fetched("cutoff")
                        /\ inst.upgrade => Fetched("upgrade")

Places ==
  /\ pc \in Before => seen = {}
  /\ pc \in {"missing", "cutoff"} => Adapter.pool # "cache"
  /\ pc \in Later => Adapter.pool \in Pools
  /\ pc = "exclusion" => Adapter.pool = "exclusion"

IInv == TypeOK /\ Places /\ (calm /\ pc # "idle" => Collected)
-----------------------------------------------------------------------------
(* Pages.  Places number a list without gaps, so a page that is short is    *)
(* the last one.                                                            *)
LEMMA ListsAreFinite ==
  ASSUME NEW k
  PROVE  Listed(k) \subseteq Items /\ IsFiniteSet(Listed(k)) /\ Cardinality(Listed(k)) \in Nat
<1>1. Listed(k) \subseteq Items
  BY DEF Listed
<1> QED BY <1>1, ItemsAssumption, FS_Subset, FS_CardinalityType

LEMMA PlacesNumber ==
  ASSUME NEW k
  PROVE  /\ \A i \in Listed(k) : Place(k, i) \in 1..Cardinality(Listed(k))
         /\ \A i, j \in Listed(k) : Place(k, i) = Place(k, j) => i = j
<1> DEFINE L == Listed(k)
<1> DEFINE To(i) == {j \in L : j <= i}
<1>1. L \subseteq Nat /\ IsFiniteSet(L) /\ Cardinality(L) \in Nat
  BY ListsAreFinite, ItemsAssumption
<1> HIDE DEF L
<1>2. ASSUME NEW i
      PROVE  IsFiniteSet(To(i)) /\ Cardinality(To(i)) \in Nat /\ Cardinality(To(i)) <= Cardinality(L)
  <2>1. To(i) \in SUBSET L
    OBVIOUS
  <2> HIDE DEF To
  <2> QED BY <1>1, <2>1, FS_Subset, FS_CardinalityType
<1>3. ASSUME NEW i \in L PROVE Cardinality(To(i)) # 0
  <2>1. To(i) # {}
    BY <1>1
  <2> HIDE DEF To
  <2> QED BY <1>2, <2>1, FS_EmptySet
<1>4. ASSUME NEW i \in L, NEW j \in L, i < j PROVE Cardinality(To(i)) # Cardinality(To(j))
  <2>1. To(i) \in SUBSET To(j)
    <3>1. \A h \in L : h <= i => h <= j
      BY <1>1, <1>4
    <3> QED BY <3>1
  <2>2. j \in To(j) /\ j \notin To(i)
    BY <1>1, <1>4
  <2> HIDE DEF To
  <2> QED BY <1>2, <2>1, <2>2, FS_Subset
<1>5. \A i : Place(k, i) = Cardinality(To(i))
  BY DEF Place, L
<1> HIDE DEF To
<1>6. \A i \in L : Place(k, i) \in 1..Cardinality(L)
  BY <1>1, <1>2, <1>3, <1>5
<1>7. ASSUME NEW i \in L, NEW j \in L, Place(k, i) = Place(k, j) PROVE i = j
  BY <1>1, <1>4, <1>5, <1>7
<1> QED BY <1>6, <1>7 DEF L

LEMMA ShortPageIsLast ==
  ASSUME NEW k, page \in Nat \ {0}, Cardinality(WantedPage(k)) < PageSize
  PROVE  \A i \in Listed(k) : Place(k, i) <= page * PageSize
<1> DEFINE L == Listed(k)
<1> DEFINE n == Cardinality(L)
<1> DEFINE a == (page - 1) * PageSize
<1> DEFINE b == page * PageSize
<1> DEFINE f == [i \in L |-> Place(k, i)]
<1> DEFINE W == WantedPage(k)
<1>1. PageSize \in Nat \ {0} /\ a \in Nat /\ b \in Nat /\ b = a + PageSize
  BY BoundsAssumption
<1>2. IsFiniteSet(L) /\ n \in Nat
  BY ListsAreFinite
<1>3. f \in Injection(L, 1..n)
  <2>1. f \in [L -> 1..n]
    BY PlacesNumber
  <2>2. \A i, j \in L : f[i] = f[j] => i = j
    BY PlacesNumber
  <2> QED BY <2>1, <2>2 DEF Injection, IsInjective
<1>4. \A m \in 1..n : \E i \in L : f[i] = m
  <2>1. IsFiniteSet(1..n) /\ Cardinality(1..n) = n
    BY <1>2, FS_Interval
  <2> HIDE DEF f, n
  <2>2. f \in Surjection(L, 1..n)
    BY <1>3, <2>1, FS_Injection DEF n
  <2> QED BY <2>2 DEF Surjection
<1>5. W = {i \in L : a < f[i] /\ f[i] <= b}
  BY DEF WantedPage
<1>6. IsFiniteSet(W)
  <2>1. W \in SUBSET L
    BY <1>5
  <2> QED BY <1>2, <2>1, FS_Subset
<1> HIDE DEF a, b, f, W, n
<1>7. ASSUME NEW x \in L, f[x] > b PROVE FALSE
  <2> DEFINE g == [m \in (a + 1)..b |-> CHOOSE i \in L : f[i] = m]
  <2>1. f[x] \in 1..n
    BY <1>3 DEF Injection
  <2>2. (a + 1)..b \subseteq 1..n
    BY <1>1, <1>2, <1>7, <2>1
  <2>3. \A m \in (a + 1)..b : g[m] \in L /\ f[g[m]] = m
    BY <1>4, <2>2
  <2>4. \A m \in (a + 1)..b : g[m] \in W
    BY <1>1, <1>5, <2>3
  <2>5. g \in [(a + 1)..b -> W]
    BY <2>4
  <2>6. g \in Injection((a + 1)..b, W)
    <3>1. \A m1, m2 \in (a + 1)..b : g[m1] = g[m2] => m1 = m2
      BY <2>3
    <3> HIDE DEF g
    <3> QED BY <2>5, <3>1 DEF Injection, IsInjective
  <2>7. Cardinality((a + 1)..b) <= Cardinality(W)
    BY <1>6, <2>6, FS_Injection
  <2>8. Cardinality((a + 1)..b) = PageSize
    BY <1>1, FS_Interval
  <2>9. Cardinality(W) \in Nat /\ Cardinality(W) < PageSize
    BY <1>6, FS_CardinalityType DEF W
  <2> QED BY <1>1, <2>7, <2>8, <2>9
<1>8. ASSUME NEW i \in L PROVE Place(k, i) <= b
  <2>1. f[i] \in 1..n /\ f[i] = Place(k, i)
    BY <1>3 DEF Injection, f
  <2> QED BY <1>1, <1>2, <1>7, <2>1
<1> QED BY <1>8 DEF b
-----------------------------------------------------------------------------
LEMMA AppFacts ==
  ASSUME app \in Apps
  PROVE  /\ Adapter.pool \in Pools /\ Adapter.first \in 0..1
         /\ Adapter.seasons \/ Adapter.first = 0
<1>1. app \in {"sonarr", "radarr", "lidarr", "readarr", "whisparr_v2", "whisparr_v3"}
  BY BoundsAssumption DEF Adapters
<1> QED BY <1>1 DEF Adapter, Adapters, Sonarr, Radarr, Lidarr, Readarr, WhisparrV2, WhisparrV3, Pools

LEMMA InitHolds == Init => IInv
<1> SUFFICES ASSUME Init PROVE IInv
  OBVIOUS
<1>1. TypeOK
  <2>1. got \in [Kinds -> SUBSET Items] /\ rows \subseteq Kinds \X Int /\ seen \subseteq Nat
    BY DEF Init, Nothing
  <2>2. app \in Apps /\ settings \in Settings /\ cycle = NoRow /\ inst = NoRow /\ pc = "idle"
        /\ status \in [Items -> {"missing", "cutoff", "met", "gone"}]
    BY DEF Init
  <2>3. page = 1 /\ calm \in BOOLEAN /\ failed \in BOOLEAN
    BY DEF Init
  <2>4. MaxEvents \in Nat
    BY BoundsAssumption
  <2>5. events \in 0..MaxEvents
    BY <2>4 DEF Init
  <2> QED BY <2>1, <2>2, <2>3, <2>5 DEF TypeOK
<1>2. Places
  BY DEF Init, Places, Later
<1> QED BY <1>1, <1>2 DEF Init, IInv

(* Searches: neither the *arr nor the refresh moves.                        *)
LEMMA CycleKeeps ==
  ASSUME IInv, Cycle
  PROVE  IInv'
<1>1. /\ UNCHANGED <<app, status, settings, pc, inst, page, got, seen, events, calm, failed>>
      /\ cycle' \in Settings \cup {NoRow}
  BY DEF Cycle, StartCycle, EndCycle, Search, arrVars, IInv, TypeOK
<1>2. rows' \subseteq Kinds \X Int
  <2>1. ASSUME NEW k \in Kinds, NEW i \in Items, Search(k, i)
        PROVE  rows' \subseteq Kinds \X Int
    <3>1. StampId(k, i, cycle) \in Int
      <4>1. i \in Int /\ Parent[i] \in Int /\ Season[i] \in Int
        <5>1. Parent[i] \in Nat /\ Season[i] \in 0..999
          BY ItemsAssumption
        <5>2. i \in Nat
          BY ItemsAssumption
        <5> QED BY <5>1, <5>2
      <4>2. Synthetic(i) \in Int
        <5>1. CASE Adapter.seasons
          BY <4>1, <5>1 DEF Synthetic
        <5>2. CASE ~Adapter.seasons
          BY <4>1, <5>2 DEF Synthetic
        <5> QED BY <5>1, <5>2
      <4> HIDE DEF Synthetic
      <4> QED BY <4>1, <4>2 DEF StampId
    <3>2. <<k, StampId(k, i, cycle)>> \in Kinds \X Int
      BY <3>1
    <3> QED BY <2>1, <3>2 DEF Search, IInv, TypeOK
  <2> QED BY <2>1 DEF Cycle, StartCycle, EndCycle, IInv, TypeOK
<1>3. TypeOK'
  BY <1>1, <1>2 DEF IInv, TypeOK
<1>4. Places' /\ (calm' /\ pc' # "idle" => Collected')
  BY <1>1 DEF IInv, Places, Collected, UpTo, Fetched, Listed, Place, Adapter, Before, Later
<1> QED BY <1>3, <1>4 DEF IInv

(* The *arr moves, the user saves: the refresh is disturbed.                *)
LEMMA OutsideKeeps ==
  ASSUME IInv, Outside
  PROVE  IInv'
<1>1. /\ UNCHANGED <<app, rows, cycle, pc, inst, page, got, seen, failed>>
      /\ calm' = FALSE /\ events' \in 0..MaxEvents
      /\ status' \in [Items -> {"missing", "cutoff", "met", "gone"}] /\ settings' \in Settings
  BY BoundsAssumption DEF Outside, ArrChanges, Save, Event, arrVars, IInv, TypeOK
<1> QED BY <1>1 DEF IInv, TypeOK, Places, Adapter, Before, Later
-----------------------------------------------------------------------------
LEMMA PagesAreItems ==
  ASSUME NEW k
  PROVE  WantedPage(k) \subseteq Listed(k) /\ Listed(k) \subseteq Items
BY DEF WantedPage, Listed

(* A page is read: the list is then read up to the page after it, or as a   *)
(* whole.                                                                   *)
LEMMA PageRead ==
  ASSUME NEW k, TypeOK, UpTo(k)
  PROVE  /\ \A i \in Listed(k) :
              Place(k, i) <= page * PageSize => i \in got[k] \cup WantedPage(k)
         /\ Cardinality(WantedPage(k)) < PageSize =>
              Listed(k) \subseteq got[k] \cup WantedPage(k)
<1>1. page \in Nat \ {0} /\ PageSize \in Nat
  BY BoundsAssumption DEF TypeOK
<1>2. (page - 1) * PageSize \in Nat
  BY <1>1
<1>3. ASSUME NEW i \in Listed(k), Place(k, i) <= page * PageSize
      PROVE  i \in got[k] \cup WantedPage(k)
  <2>1. Place(k, i) \in Nat
    BY PlacesNumber, ListsAreFinite
  <2>2. CASE Place(k, i) <= (page - 1) * PageSize
    BY <2>2 DEF UpTo
  <2>3. CASE (page - 1) * PageSize < Place(k, i)
    BY <1>3, <2>3 DEF WantedPage
  <2> QED BY <1>2, <2>1, <2>2, <2>3
<1> QED BY <1>1, <1>3, ShortPageIsLast

LEMMA FetchPageKeeps ==
  ASSUME IInv, FetchPage
  PROVE  IInv'
<1>1. /\ TypeOK /\ Places /\ pc \in {"missing", "cutoff"} /\ page \in Nat \ {0}
      /\ got \in [Kinds -> SUBSET Items] /\ Adapter.pool \in {"exclusion", "library", "series"}
  <2>1. TypeOK /\ Places /\ pc \in {"missing", "cutoff"}
    BY DEF IInv, FetchPage
  <2>2. Adapter.pool # "cache" /\ Adapter.pool \in Pools
    BY <2>1, AppFacts DEF TypeOK, Places
  <2> QED BY <2>1, <2>2 DEF TypeOK, Pools
<1>2. /\ UNCHANGED <<app, status, settings, rows, cycle, inst, seen, events, calm, failed>>
      /\ got' = [got EXCEPT ![pc] = @ \cup WantedPage(pc)]
      /\ IF Cardinality(WantedPage(pc)) < PageSize
           THEN pc' = (IF pc = "missing" THEN "cutoff" ELSE AfterCutoff) /\ page' = 1
           ELSE page' = page + 1 /\ pc' = pc
  BY DEF FetchPage, Goto, arrVars
<1>3. /\ got' \in [Kinds -> SUBSET Items] /\ got'[pc] = got[pc] \cup WantedPage(pc)
      /\ \A k \in Kinds : k # pc => got'[k] = got[k]
  <2>1. WantedPage(pc) \subseteq Items
    BY PagesAreItems
  <2> QED BY <1>1, <1>2, <2>1 DEF Kinds
<1>4. AfterCutoff = "apply" \/ (AfterCutoff = Adapter.pool /\ inst.upgrade)
  BY DEF AfterCutoff
<1>5. TypeOK'
  <2>1. /\ page' \in Nat \ {0}
        /\ pc' \in {"missing", "cutoff", "exclusion", "library", "series", "apply"}
    BY <1>1, <1>2, <1>4
  <2> QED BY <1>1, <1>2, <1>3, <2>1 DEF TypeOK
<1>6. Places'
  <2>1. seen' = {} /\ Adapter' = Adapter
    BY <1>1, <1>2 DEF Places, Before, Adapter
  <2> QED BY <1>1, <1>2, <1>4, <2>1 DEF Places, Before, Later, Pools
<1>7. ASSUME calm' PROVE Collected'
  <2>0. PICK k \in {"missing", "cutoff"} : k = pc
    BY <1>1
  <2>1. Collected
    BY <1>1, <1>2, <1>7 DEF IInv
  <2>2. UpTo(k) /\ (k = "cutoff" => Fetched("missing")) /\ inst = settings
    BY <2>0, <2>1 DEF Collected
  <2>3. /\ \A i \in Listed(k) : Place(k, i) <= page * PageSize => i \in got'[k]
        /\ Cardinality(WantedPage(k)) < PageSize => Listed(k) \subseteq got'[k]
    BY <1>1, <1>3, <2>0, <2>2, PageRead
  <2>4. \A h : Listed(h)' = Listed(h) /\ \A i : Place(h, i)' = Place(h, i)
    BY <1>2 DEF Listed, Place
  <2>5. seen' = {} /\ inst' = settings' /\ Adapter' = Adapter
    BY <1>1, <1>2, <2>2 DEF Places, Before, Adapter
  <2>6. CASE Cardinality(WantedPage(k)) < PageSize
    <3>1. Listed(k)' \subseteq got'[k] /\ page' = 1
      BY <1>2, <2>0, <2>3, <2>4, <2>6
    <3>2. CASE k = "missing"
      <4>1. pc' = "cutoff" /\ Fetched("missing")'
        BY <1>2, <2>0, <2>6, <3>1, <3>2 DEF Fetched
      <4>2. UpTo("cutoff")'
        <5>1. \A i \in Listed("cutoff") : Place("cutoff", i) >= 1 /\ Place("cutoff", i) \in Nat
          BY PlacesNumber, ListsAreFinite
        <5>2. (page' - 1) * PageSize = 0
          BY <3>1, BoundsAssumption
        <5>3. \A i \in Listed("cutoff") : ~(Place("cutoff", i) <= (page' - 1) * PageSize)
          BY <5>1, <5>2
        <5> QED BY <2>4, <5>3 DEF UpTo
      <4> QED BY <2>5, <4>1, <4>2 DEF Collected, Later
    <3>3. CASE k = "cutoff"
      <4>1. Fetched("cutoff")'
        BY <3>1, <3>3 DEF Fetched
      <4>2. Fetched("missing")'
        BY <1>3, <2>0, <2>2, <2>4, <3>3 DEF Fetched, Kinds
      <4>3. (pc' = "apply" /\ ~inst.upgrade) \/ pc' = Adapter.pool
        BY <1>2, <2>0, <2>6, <3>3 DEF AfterCutoff
      <4>4. inst' = inst
        BY <1>2
      <4> QED BY <1>1, <2>5, <4>1, <4>2, <4>3, <4>4 DEF Collected, Later
    <3> QED BY <3>2, <3>3
  <2>7. CASE ~(Cardinality(WantedPage(k)) < PageSize)
    <3>1. page' - 1 = page /\ pc' = k
      BY <1>1, <1>2, <2>0, <2>7
    <3>2. UpTo(k)'
      BY <2>3, <2>4, <3>1 DEF UpTo
    <3>3. k = "cutoff" => Fetched("missing")'
      BY <1>3, <2>0, <2>2, <2>4 DEF Fetched, Kinds
    <3> QED BY <2>5, <3>1, <3>2, <3>3 DEF Collected, Later
  <2> QED BY <2>6, <2>7
<1> QED BY <1>5, <1>6, <1>7 DEF IInv
-----------------------------------------------------------------------------
(* The steps that only move: the sweep reads the instance, gets its lock,   *)
(* or leaves.                                                               *)
LEMMA StartsKeep ==
  ASSUME IInv, Begin \/ Acquire
  PROVE  IInv'
<1>1. /\ UNCHANGED <<app, status, settings, rows, cycle, page, got, seen, events>>
      /\ pc \in {"idle", "wait"} /\ pc' \in {"wait", "snapshot"}
      /\ inst' \in Settings \cup {NoRow} /\ calm' \in BOOLEAN /\ failed' \in BOOLEAN
      /\ calm' => inst' = settings'
  <2>1. CASE Begin
    BY <2>1 DEF Begin, arrVars, IInv, TypeOK
  <2>2. CASE Acquire
    <3>1. calm => inst = settings
      BY <2>2 DEF Acquire, IInv, Collected
    <3> QED BY <2>2, <3>1 DEF Acquire, arrVars, IInv, TypeOK
  <2> QED BY <2>1, <2>2
<1>2. TypeOK'
  BY <1>1 DEF IInv, TypeOK
<1>3. Places' /\ (calm' => Collected')
  BY <1>1 DEF IInv, Places, Collected, Before, Later
<1> QED BY <1>2, <1>3 DEF IInv

LEMMA LeavesKeep ==
  ASSUME IInv, Reconcile \/ GiveUp
  PROVE  IInv'
<1>1. /\ UNCHANGED <<app, status, settings, cycle, calm, failed>>
      /\ pc' = "idle" /\ inst' = NoRow /\ page' = 1 /\ got' = Nothing /\ seen' = {}
  BY DEF Reconcile, GiveUp, Leave, arrVars
<1>2. rows' \subseteq rows
  BY DEF Reconcile, Reconciled, GiveUp
<1>3. events' \in 0..MaxEvents
  BY BoundsAssumption DEF Reconcile, GiveUp, Event, IInv, TypeOK
<1>4. got' \in [Kinds -> SUBSET Items]
  BY <1>1 DEF Nothing
<1>5. TypeOK'
  BY <1>1, <1>2, <1>3, <1>4 DEF IInv, TypeOK
<1> QED BY <1>1, <1>5 DEF IInv, Places, Before, Later

(* The first page of a list comes after no item of it.                      *)
LEMMA NothingBefore ==
  ASSUME NEW k, NEW i \in Listed(k)
  PROVE  ~(Place(k, i) <= (1 - 1) * PageSize)
<1>1. Place(k, i) >= 1 /\ Place(k, i) \in Nat
  BY PlacesNumber, ListsAreFinite
<1>2. (1 - 1) * PageSize = 0
  BY BoundsAssumption
<1> QED BY <1>1, <1>2

LEMMA SnapshotKeeps ==
  ASSUME IInv, Snapshot
  PROVE  IInv'
<1>1. /\ UNCHANGED <<app, status, settings, rows, cycle, inst, seen, events, calm, failed>>
      /\ pc = "snapshot" /\ page' = 1 /\ seen = {} /\ Adapter' = Adapter
      /\ \/ Adapter.pool = "cache" /\ pc' = "apply" /\ got' = [k \in Kinds |-> Listed(k)]
         \/ Adapter.pool # "cache" /\ pc' = "missing" /\ got' = got
  BY DEF Snapshot, Goto, arrVars, IInv, Places, Before, Adapter
<1>2. \A k : Listed(k)' = Listed(k) /\ \A i : Place(k, i)' = Place(k, i)
  BY <1>1 DEF Listed, Place
<1>3. got' \in [Kinds -> SUBSET Items]
  BY <1>1, PagesAreItems DEF IInv, TypeOK
<1>4. TypeOK'
  BY <1>1, <1>3 DEF IInv, TypeOK
<1>5. Places'
  BY <1>1 DEF Places, Before, Later
<1>6. ASSUME calm' PROVE Collected'
  <2>1. inst' = settings'
    BY <1>1, <1>6 DEF IInv, Collected
  <2>2. CASE pc' = "apply"
    <3>1. \A k \in Kinds : Fetched(k)'
      BY <1>1, <1>2, <2>2 DEF Fetched
    <3>2. Fetched("missing")' /\ Fetched("cutoff")' /\ Fetched("upgrade")'
      BY <3>1 DEF Kinds
    <3> QED BY <2>1, <2>2, <3>2 DEF Collected, Later
  <2>3. CASE pc' = "missing"
    <3>1. UpTo("missing")'
      BY <1>1, <1>2, NothingBefore DEF UpTo
    <3> QED BY <2>1, <2>3, <3>1 DEF Collected, Later
  <2> QED BY <1>1, <2>2, <2>3
<1> QED BY <1>4, <1>5, <1>6 DEF IInv
-----------------------------------------------------------------------------
(* The upgrade pool.                                                        *)
LEMMA OneStatus == Listed("cutoff") \cap Listed("upgrade") = {}
BY DEF Listed, ListOf

LEMMA ExcludeKeeps ==
  ASSUME IInv, Exclude
  PROVE  IInv'
<1>1. /\ UNCHANGED <<app, status, settings, rows, cycle, inst, got, calm>>
      /\ pc = "exclusion" /\ pc' \in {"exclusion", "library"}
      /\ Adapter' = Adapter /\ Adapter.pool = "exclusion"
  BY DEF Exclude, Goto, arrVars, IInv, Places, Adapter
<1>2. seen' \subseteq seen \cup Listed("cutoff")
  BY PagesAreItems DEF Exclude
<1>3. page' \in Nat \ {0}
  BY DEF Exclude, Goto, IInv, TypeOK
<1>4. events' \in 0..MaxEvents /\ failed' \in BOOLEAN
  <2>1. MaxEvents \in Nat /\ events \in 0..MaxEvents /\ failed \in BOOLEAN
    BY BoundsAssumption DEF IInv, TypeOK
  <2>2. \/ events' = events /\ failed' = failed
        \/ events < MaxEvents /\ events' = events + 1 /\ failed' = TRUE
    BY DEF Exclude, Event
  <2>3. events' \in 0..MaxEvents
    BY <2>1, <2>2
  <2>4. failed' \in BOOLEAN
    BY <2>1, <2>2, Zenon
  <2> QED BY <2>3, <2>4
<1>5. seen' \subseteq Nat
  <2>1. Listed("cutoff") \subseteq Nat
    BY PagesAreItems, ItemsAssumption
  <2> QED BY <1>2, <2>1 DEF IInv, TypeOK
<1>6. TypeOK'
  BY <1>1, <1>3, <1>4, <1>5 DEF IInv, TypeOK
<1>7. Places'
  BY <1>1 DEF Places, Before, Later, Pools
<1>8. \A k : Listed(k)' = Listed(k)
  BY <1>1 DEF Listed
<1>9. ASSUME calm' PROVE Collected'
  <2>1. /\ inst = settings /\ Fetched("missing") /\ Fetched("cutoff")
        /\ seen \cap Listed("upgrade") = {}
    BY <1>1, <1>9 DEF IInv, Collected, Later
  <2>2. seen' \cap Listed("upgrade") = {}
    BY <1>2, <2>1, OneStatus
  <2>3. inst' = settings' /\ Fetched("missing")' /\ Fetched("cutoff")'
        /\ seen' \cap Listed("upgrade")' = {}
    BY <1>1, <1>8, <2>1, <2>2 DEF Fetched
  <2> QED BY <1>1, <2>3 DEF Collected
<1> QED BY <1>6, <1>7, <1>9 DEF IInv

(* The library, the list of series and the episodes of one: from "library"  *)
(* or "series" on, the wanted lists have been read as a whole.              *)
LEMMA LibraryKeeps ==
  ASSUME IInv, Library
  PROVE  IInv'
<1>1. /\ UNCHANGED <<app, status, settings, rows, cycle, inst, seen, events, calm, failed>>
      /\ pc = "library" /\ pc' = "apply" /\ page' = 1
      /\ got' = [got EXCEPT !["upgrade"] =
                   IF Adapter.pool = "exclusion"
                     THEN (Listed("cutoff") \cup Listed("upgrade")) \ seen
                     ELSE Listed("upgrade")]
  BY DEF Library, Goto, arrVars
<1>2. got \in [Kinds -> SUBSET Items] /\ "upgrade" \in Kinds
  BY DEF IInv, TypeOK, Kinds
<1>3. got' \in [Kinds -> SUBSET Items]
  BY <1>1, <1>2, PagesAreItems
<1>4. TypeOK'
  BY <1>1, <1>3 DEF IInv, TypeOK
<1>5. Places'
  BY <1>1 DEF Places, Before, Later
<1>6. \A k : Listed(k)' = Listed(k)
  BY <1>1 DEF Listed
<1>7. ASSUME calm' PROVE Collected'
  <2>1. /\ inst = settings /\ Fetched("missing") /\ Fetched("cutoff")
        /\ Adapter.pool = "exclusion" => seen \cap Listed("upgrade") = {}
    BY <1>1, <1>7 DEF IInv, Collected, Later
  <2>2. Listed("upgrade") \subseteq got'["upgrade"]
    BY <1>1, <1>2, <2>1
  <2>3. got'["missing"] = got["missing"] /\ got'["cutoff"] = got["cutoff"]
    BY <1>1, <1>2 DEF Kinds
  <2>4. inst' = settings' /\ Fetched("missing")' /\ Fetched("cutoff")' /\ Fetched("upgrade")'
    BY <1>1, <1>6, <2>1, <2>2, <2>3 DEF Fetched
  <2> QED BY <1>1, <2>4 DEF Collected, Later
<1> QED BY <1>4, <1>5, <1>7 DEF IInv

LEMMA SeriesKeep ==
  ASSUME IInv, GetSeries
  PROVE  IInv'
<1>1. /\ UNCHANGED <<app, status, settings, rows, cycle, inst, got, events, calm, failed>>
      /\ pc = "series" /\ pc' = "episodes" /\ page' = 1 /\ Adapter' = Adapter
      /\ seen' = {Parent[i] : i \in {j \in Items : status[j] # "gone"}}
  BY DEF GetSeries, Goto, arrVars, Adapter
<1>2. seen' \subseteq Nat
  BY <1>1, ItemsAssumption
<1>3. TypeOK'
  BY <1>1, <1>2 DEF IInv, TypeOK
<1>4. Places'
  BY <1>1, AppFacts DEF IInv, TypeOK, Places, Before, Later
<1>5. \A k : Listed(k)' = Listed(k)
  BY <1>1 DEF Listed
<1>6. \A i \in Listed("upgrade") : Parent[i] \in seen'
  BY <1>1 DEF Listed, ListOf
<1>7. ASSUME calm' PROVE Collected'
  <2>1. inst = settings /\ Fetched("missing") /\ Fetched("cutoff")
    BY <1>1, <1>7 DEF IInv, Collected, Later
  <2>2. inst' = settings' /\ Fetched("missing")' /\ Fetched("cutoff")'
    BY <1>1, <1>5, <2>1 DEF Fetched
  <2> QED BY <1>1, <1>5, <1>6, <2>2 DEF Collected, Later
<1> QED BY <1>3, <1>4, <1>7 DEF IInv

LEMMA EpisodesKeep ==
  ASSUME IInv, NEW s, Episodes(s)
  PROVE  IInv'
<1>1. /\ UNCHANGED <<app, status, settings, rows, cycle, pc, inst, page, events, calm, failed>>
      /\ pc = "episodes" /\ seen' = seen \ {s} /\ Adapter' = Adapter
      /\ got' = [got EXCEPT !["upgrade"] = @ \cup {i \in Listed("upgrade") : Parent[i] = s}]
  BY DEF Episodes, arrVars, Adapter
<1>2. got \in [Kinds -> SUBSET Items] /\ "upgrade" \in Kinds
  BY DEF IInv, TypeOK, Kinds
<1>3. got' \in [Kinds -> SUBSET Items]
  <2>1. {i \in Listed("upgrade") : Parent[i] = s} \subseteq Items
    BY PagesAreItems
  <2> QED BY <1>1, <1>2, <2>1
<1>4. TypeOK'
  BY <1>1, <1>3 DEF IInv, TypeOK
<1>5. Places'
  BY <1>1 DEF IInv, Places, Before, Later
<1>6. \A k : Listed(k)' = Listed(k)
  BY <1>1 DEF Listed
<1>7. ASSUME calm' PROVE Collected'
  <2>1. /\ inst = settings /\ Fetched("missing") /\ Fetched("cutoff")
        /\ \A i \in Listed("upgrade") : Parent[i] \in seen \/ i \in got["upgrade"]
    BY <1>1, <1>7 DEF IInv, Collected, Later
  <2>2. got'["upgrade"] = got["upgrade"] \cup {i \in Listed("upgrade") : Parent[i] = s}
    BY <1>1, <1>2
  <2>3. \A i \in Listed("upgrade") : Parent[i] \in seen' \/ i \in got'["upgrade"]
    BY <1>1, <2>1, <2>2
  <2>4. got'["missing"] = got["missing"] /\ got'["cutoff"] = got["cutoff"]
    BY <1>1, <1>2 DEF Kinds
  <2>5. inst' = settings' /\ Fetched("missing")' /\ Fetched("cutoff")'
    BY <1>1, <1>6, <2>1, <2>4 DEF Fetched
  <2> QED BY <1>1, <1>6, <2>3, <2>5 DEF Collected, Later
<1> QED BY <1>4, <1>5, <1>7 DEF IInv

LEMMA AllSeriesKeeps ==
  ASSUME IInv, AllSeries
  PROVE  IInv'
<1>1. /\ UNCHANGED <<app, status, settings, rows, cycle, inst, got, seen, events, calm, failed>>
      /\ pc = "episodes" /\ pc' = "apply" /\ page' = 1 /\ seen = {}
  BY DEF AllSeries, Goto, arrVars
<1>2. TypeOK'
  BY <1>1 DEF IInv, TypeOK
<1>3. Places'
  BY <1>1 DEF Places, Before, Later
<1>4. \A k : Listed(k)' = Listed(k)
  BY <1>1 DEF Listed
<1>5. ASSUME calm' PROVE Collected'
  <2>1. inst = settings /\ Fetched("missing") /\ Fetched("cutoff") /\ Fetched("upgrade")
    BY <1>1, <1>5 DEF IInv, Collected, Later, Fetched
  <2>2. inst' = settings' /\ Fetched("missing")' /\ Fetched("cutoff")' /\ Fetched("upgrade")'
    BY <1>1, <1>4, <2>1 DEF Fetched
  <2> QED BY <1>1, <2>2 DEF Collected, Later
<1> QED BY <1>2, <1>3, <1>5 DEF IInv

(* A failure inside the fetch leaves the empty sets; a series skipped       *)
(* disturbs the refresh.                                                    *)
LEMMA FetchFailsKeeps ==
  ASSUME IInv, FetchFails
  PROVE  IInv'
<1>1. /\ UNCHANGED <<app, status, settings, rows, cycle, inst, seen, calm>>
      /\ pc # "idle" /\ pc' = "apply" /\ page' = 1 /\ got' = Nothing /\ failed' = TRUE
  BY DEF FetchFails, Goto, arrVars
<1>2. events' \in 0..MaxEvents
  BY BoundsAssumption DEF FetchFails, Event, IInv, TypeOK
<1>3. got' \in [Kinds -> SUBSET Items]
  BY <1>1 DEF Nothing
<1>4. TypeOK'
  BY <1>1, <1>2, <1>3 DEF IInv, TypeOK
<1>5. Places'
  BY <1>1 DEF Places, Before, Later
<1>6. ASSUME calm' PROVE Collected'
  <2>1. inst' = settings'
    BY <1>1, <1>6 DEF IInv, Collected
  <2>2. (got = Nothing)'
    BY <1>1 DEF Nothing
  <2> QED BY <1>1, <2>1, <2>2 DEF Collected, Later
<1> QED BY <1>4, <1>5, <1>6 DEF IInv

LEMMA SkipKeeps ==
  ASSUME IInv, NEW s, SkipSeries(s)
  PROVE  IInv'
<1>1. /\ UNCHANGED <<app, status, settings, rows, cycle, pc, inst, page, got>>
      /\ pc = "episodes" /\ seen' = seen \ {s} /\ calm' = FALSE /\ failed' = TRUE
      /\ Adapter' = Adapter
  BY DEF SkipSeries, arrVars, Adapter
<1>2. events' \in 0..MaxEvents
  BY BoundsAssumption DEF SkipSeries, Event, IInv, TypeOK
<1>3. TypeOK'
  BY <1>1, <1>2 DEF IInv, TypeOK
<1> QED BY <1>1, <1>3 DEF IInv, Places, Before, Later
-----------------------------------------------------------------------------
LEMMA Inductive == IInv /\ [Next]_vars => IInv'
<1> SUFFICES ASSUME IInv, [Next]_vars PROVE IInv'
  OBVIOUS
<1>1. CASE Cycle
  BY <1>1, CycleKeeps
<1>2. CASE Refresh
  <2>1. ASSUME NEW i \in Items, Episodes(Parent[i]) PROVE IInv'
    BY <2>1, EpisodesKeep
  <2> QED BY <1>2, <2>1, StartsKeep, SnapshotKeeps, FetchPageKeeps, ExcludeKeeps, LibraryKeeps,
             SeriesKeep, AllSeriesKeeps, LeavesKeep DEF Refresh
<1>3. CASE Faults
  <2>1. ASSUME NEW i \in Items, SkipSeries(Parent[i]) PROVE IInv'
    BY <2>1, SkipKeeps
  <2> QED BY <1>3, <2>1, FetchFailsKeeps, LeavesKeep DEF Faults
<1>4. CASE Outside
  BY <1>4, OutsideKeeps
<1>5. CASE UNCHANGED vars
  <2>1. UNCHANGED <<app, status, settings, rows, cycle, pc, inst, page, got, seen, events,
                    calm, failed>>
    BY <1>5 DEF vars
  <2>2. TypeOK' /\ Places'
    BY <2>1 DEF IInv, TypeOK, Places, Adapter
  <2>3. calm' /\ pc' # "idle" => Collected'
    BY <2>1 DEF IInv, Collected, UpTo, Fetched, Listed, Place, Adapter
  <2> QED BY <2>2, <2>3 DEF IInv
<1> QED BY <1>1, <1>2, <1>3, <1>4, <1>5 DEF Next

(* The variables of a refresh of the cooldown rows keep their types.        *)
THEOREM TypeCorrect == Spec => []TypeOK
<1>1. IInv => TypeOK
  BY DEF IInv
<1> QED BY <1>1, InitHolds, Inductive, PTL DEF Spec
-----------------------------------------------------------------------------
(* Lists read as a whole vouch for every row a search would write: under    *)
(* the item's own id, or under its parent's where the mode says so.         *)
LEMMA SetsVouch ==
  ASSUME TypeOK, Fetched("missing"), Fetched("cutoff"),
         settings.upgrade => Fetched("upgrade")
  PROVE  Wanted \subseteq Valid(got, settings)
<1> SUFFICES ASSUME NEW k \in Kinds, NEW i \in Items, i \in Listed(k),
                    k = "upgrade" => settings.upgrade
             PROVE  <<k, StampId(k, i, settings)>> \in Valid(got, settings)
  BY DEF Wanted
<1>1. k = "missing" \/ k = "cutoff" \/ k = "upgrade"
  BY DEF Kinds
<1>2. CASE k = "missing"
  <2>1. i \in got["missing"]
    BY <1>2 DEF Fetched
  <2>2. StampId("missing", i, settings) = i
        \/ (ByParent("missing", settings)
              /\ StampId("missing", i, settings) \in Parents(got["missing"]))
    <3>1. Season[i] \in Nat /\ Season[i] >= 0
      <4>1. Season \in [Items -> 0..999]
        BY ItemsAssumption
      <4>2. Season[i] \in 0..999
        BY <4>1
      <4> QED BY <4>2
    <3>2. Adapter.first \in 0..1 /\ (Adapter.seasons \/ Adapter.first = 0)
      BY AppFacts DEF TypeOK
    <3>3. ASSUME Adapter.seasons => Season[i] > 0
          PROVE  Season[i] >= Adapter.first
      BY <3>1, <3>2, <3>3
    <3> QED BY <2>1, <3>3 DEF StampId, Parents
  <2> QED BY <1>2, <2>1, <2>2 DEF Valid
<1>3. CASE k = "cutoff"
  <2>1. i \in got["cutoff"]
    BY <1>3 DEF Fetched
  <2>2. StampId("cutoff", i, settings) = i
    BY DEF StampId, ByParent
  <2> QED BY <1>3, <2>1, <2>2 DEF Valid
<1>4. CASE k = "upgrade"
  <2>1. i \in got["upgrade"]
    BY <1>4 DEF Fetched
  <2> QED BY <1>4, <2>1 DEF Valid
<1> QED BY <1>1, <1>2, <1>3, <1>4

(* Only the reconcile deletes rows.                                         *)
LEMMA OnlyReconcileDeletes ==
  ASSUME [Next]_vars, ~Reconcile
  PROVE  rows \subseteq rows'
<1>1. CASE Cycle
  BY <1>1 DEF Cycle, StartCycle, EndCycle, Search
<1>2. CASE Refresh
  BY <1>2 DEF Refresh, Begin, Acquire, Snapshot, FetchPage, Exclude, Library, GetSeries,
              AllSeries, Episodes
<1>3. CASE Faults \/ Outside
  BY <1>3 DEF Faults, FetchFails, GiveUp, SkipSeries, Outside, ArrChanges, Save
<1>4. CASE UNCHANGED vars
  BY <1>4 DEF vars
<1> QED BY <1>1, <1>2, <1>3, <1>4 DEF Next

(* A refresh during which neither the *arr nor the settings moved and no    *)
(* series was skipped deletes no row that a search made now would write,    *)
(* for every library, every search mode and every adapter.                  *)
THEOREM WantedAreKept == Spec => WantedRowsStay
<1> DEFINE Step == calm => (rows \ rows') \cap Wanted = {}
<1>1. IInv /\ [Next]_vars => [Step]_vars
  <2> SUFFICES ASSUME IInv, [Next]_vars, calm PROVE (rows \ rows') \cap Wanted = {}
    OBVIOUS
  <2>1. CASE ~Reconcile
    BY <2>1, OnlyReconcileDeletes
  <2>2. CASE Reconcile
    <3>1. pc = "apply" /\ rows' = Reconciled
      BY <2>2 DEF Reconcile
    <3>2. CASE got = Nothing
      BY <3>1, <3>2 DEF Reconciled
    <3>3. CASE got # Nothing
      <4>1. Collected /\ TypeOK
        BY <3>1 DEF IInv
      <4>2. /\ inst = settings /\ Fetched("missing") /\ Fetched("cutoff")
            /\ inst.upgrade => Fetched("upgrade")
        BY <3>1, <3>3, <4>1 DEF Collected
      <4>3. Wanted \subseteq Valid(got, settings)
        BY <4>1, <4>2, SetsVouch
      <4>4. rows' = rows \cap Valid(got, settings)
        BY <3>1, <3>3, <4>2 DEF Reconciled
      <4> QED BY <4>3, <4>4
    <3> QED BY <3>2, <3>3
  <2> QED BY <2>1, <2>2
<1> QED BY <1>1, InitHolds, Inductive, PTL DEF Spec, WantedRowsStay
================================================================================
