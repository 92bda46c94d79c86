--------------------------- MODULE UpdateCheckProofs ---------------------------
(***************************************************************************)
(* Theorems about UpdateCheck: what the ETag on record vouches for.        *)
(***************************************************************************)
EXTENDS UpdateCheck, TLAPS, SequenceTheorems

Facts == {"version", "url", "published"}
Names == Facts \cup {"at", "error", "etag"}
Pcs == {"idle", "age", "check", "fetch", "write"}

Types ==
  /\ settings \in [enabled : BOOLEAN, version : Nat, url : Nat, published : Nat,
                   at : Nat, error : Nat, etag : Nat]
  /\ check \in [Checks -> [pc : Pcs, prior : Nat, release : Nat, etag : Nat, left : Seq(Names),
                           alone : BOOLEAN]]
  /\ prefs \in BOOLEAN /\ latest \in 1..MaxReleases /\ day \in 1..MaxDay /\ ends \in 0..MaxEnds
  /\ mixed \in BOOLEAN
  /\ settings.etag <= latest
  /\ \A v \in Facts : settings[v] <= latest
  /\ settings.at <= day /\ settings.error <= day

Holds(c) == At(c, "write") /\ check[c].release # Unset
ToDo(c) == {check[c].left[i] : i \in 1..Len(check[c].left)}

(* What a check still writes: the ETag last, and only of a release that has *)
(* one; without a release neither facts nor ETag.                           *)
Shape(c) ==
  /\ At(c, "write") => Len(check[c].left) >= 1
  /\ ~At(c, "write") => check[c].release = Unset
  /\ check[c].release <= latest
  /\ check[c].etag \in {Unset, check[c].release}
  /\ \A i \in 1..Len(check[c].left) :
       /\ check[c].left[i] = "etag" <=> (check[c].etag # Unset /\ i = Len(check[c].left))
       /\ check[c].left[i] \in Facts => check[c].release # Unset

(* A check that is alone, and any check when nothing is mixed up: the       *)
(* others hold the same release, and the facts it has written still stand.  *)
Clean(c) ==
  (Holds(c) /\ (check[c].alone \/ ~mixed)) =>
    /\ \A d \in Checks : Holds(d) => check[d].release = check[c].release
    /\ \A v \in Facts \ ToDo(c) : settings[v] = check[c].release
    /\ ~mixed => settings.etag <= check[c].release

Certified == ~mixed => \A v \in Facts : settings.etag <= settings[v]

IInv == Types /\ (\A c \in Checks : Shape(c) /\ Clean(c)) /\ Certified
-----------------------------------------------------------------------------
LEMMA MinOf ==
  ASSUME NEW x \in Nat, NEW y \in Nat, NEW z \in Nat
  PROVE  LET m == Min({x, y, z}) IN m \in {x, y, z} /\ m <= x /\ m <= y /\ m <= z
<1> DEFINE S == {x, y, z}
<1>1. \E m \in S : \A n \in S : m <= n
  <2>1. CASE x <= y /\ x <= z
    BY <2>1
  <2>2. CASE y <= x /\ y <= z
    BY <2>2
  <2>3. CASE z <= x /\ z <= y
    BY <2>3
  <2> QED BY <2>1, <2>2, <2>3
<1> DEFINE m == CHOOSE n \in S : \A o \in S : n <= o
<1>2. m \in S /\ \A n \in S : m <= n
  BY <1>1
<1> QED BY <1>2 DEF Min

LEMMA StoresShape ==
  ASSUME NEW etag \in Nat
  PROVE  /\ Stores(etag) \in Seq(Names) /\ Len(Stores(etag)) >= 5
         /\ Facts \subseteq {Stores(etag)[i] : i \in 1..Len(Stores(etag))}
         /\ \A i \in 1..Len(Stores(etag)) :
              Stores(etag)[i] = "etag" <=> (etag # Unset /\ i = Len(Stores(etag)))
<1> DEFINE five == <<"version", "url", "published", "at", "error">>
<1>1. CASE etag = Unset
  <2>1. Stores(etag) = five
    BY <1>1 DEF Stores, Unset
  <2>2. five[1] = "version" /\ five[2] = "url" /\ five[3] = "published" /\ Len(five) = 5
    OBVIOUS
  <2>3. five \in Seq(Names)
    BY DEF Names, Facts
  <2>4. \A i \in 1..5 : five[i] # "etag"
    OBVIOUS
  <2>5. Facts \subseteq {five[i] : i \in 1..5}
    BY <2>2 DEF Facts
  <2> HIDE DEF five
  <2> QED BY <1>1, <2>1, <2>2, <2>3, <2>4, <2>5
<1>2. CASE etag # Unset
  <2> DEFINE one == <<"etag">>
  <2> DEFINE six == five \o one
  <2>1. Stores(etag) = six
    BY <1>2 DEF Stores
  <2>2. /\ five \in Seq(Names) /\ Len(five) = 5
        /\ five[1] = "version" /\ five[2] = "url" /\ five[3] = "published"
    BY DEF Names, Facts
  <2>3. one \in Seq(Names) /\ Len(one) = 1 /\ one[1] = "etag"
    BY DEF Names
  <2>4. \A i \in 1..5 : five[i] # "etag"
    OBVIOUS
  <2> HIDE DEF five, one
  <2>5. /\ six \in Seq(Names) /\ Len(six) = 6
        /\ \A i \in 1..6 : six[i] = IF i <= 5 THEN five[i] ELSE one[i - 5]
    <3>1. /\ six \in Seq(Names) /\ Len(six) = Len(five) + Len(one)
          /\ \A i \in 1..(Len(five) + Len(one)) :
               six[i] = IF i <= Len(five) THEN five[i] ELSE one[i - Len(five)]
      BY <2>2, <2>3, ConcatProperties, Zenon
    <3> HIDE DEF six
    <3>2. Len(five) + Len(one) = 6
      BY <2>2, <2>3
    <3> QED BY <2>2, <3>1, <3>2
  <2> HIDE DEF six
  <2>6. \A i \in 1..6 : six[i] = "etag" <=> i = 6
    BY <2>3, <2>4, <2>5
  <2>7. six[1] = "version" /\ six[2] = "url" /\ six[3] = "published"
    BY <2>2, <2>5
  <2>8. Facts \subseteq {six[i] : i \in 1..6}
    BY <2>7 DEF Facts
  <2>9. Len(Stores(etag)) = 6
    BY <2>1, <2>5
  <2> QED BY <1>2, <2>1, <2>5, <2>6, <2>8, <2>9
<1> QED BY <1>1, <1>2

(* A step that leaves the ETag and the facts alone, and what every check    *)
(* that holds a release still writes.                                      *)
LEMMA Kept ==
  ASSUME IInv, Types', \A v \in Facts \cup {"etag"} : settings'[v] = settings[v],
         mixed' = mixed, \A c \in Checks : Shape(c)',
         \A c \in Checks : Holds(c)' =>
           /\ Holds(c) /\ check'[c].release = check[c].release
           /\ check'[c].left = check[c].left /\ check'[c].alone = check[c].alone
  PROVE  IInv'
<1>1. ASSUME NEW c \in Checks PROVE Clean(c)'
  <2> SUFFICES ASSUME Holds(c)', check'[c].alone \/ ~mixed'
               PROVE  /\ \A d \in Checks : Holds(d)' => check'[d].release = check'[c].release
                      /\ \A v \in Facts \ ToDo(c)' : settings'[v] = check'[c].release
                      /\ ~mixed' => settings'.etag <= check'[c].release
    BY DEF Clean
  <2>1. Clean(c) /\ Holds(c) /\ (check[c].alone \/ ~mixed)
    BY DEF IInv
  <2>2. ToDo(c)' = ToDo(c)
    BY DEF ToDo
  <2> QED BY <2>1, <2>2 DEF Clean
<1>2. Certified'
  BY DEF IInv, Certified
<1> QED BY <1>1, <1>2 DEF IInv

LEMMA ShapeKept ==
  ASSUME NEW c \in Checks, Types, Types', Shape(c), latest <= latest',
         At(c, "write")' <=> At(c, "write"), check'[c].release = check[c].release,
         check'[c].etag = check[c].etag, check'[c].left = check[c].left
  PROVE  Shape(c)'
<1>1. check[c].release \in Nat /\ latest \in Nat /\ latest' \in Nat
  BY DEF Types
<1> QED BY <1>1 DEF Shape

LEMMA InitHolds == UpdateInit => IInv
<1> SUFFICES ASSUME UpdateInit PROVE IInv
  OBVIOUS
<1> USE UpdateCheckAssumption
<1>1. Types
  <2>1. settings \in [enabled : BOOLEAN, version : Nat, url : Nat, published : Nat,
                      at : Nat, error : Nat, etag : Nat]
    BY DEF UpdateInit, Unset
  <2>2. Resting \in [pc : Pcs, prior : Nat, release : Nat, etag : Nat, left : Seq(Names),
                     alone : BOOLEAN]
    BY DEF Resting, Unset, Pcs
  <2>3. check \in [Checks -> [pc : Pcs, prior : Nat, release : Nat, etag : Nat,
                              left : Seq(Names), alone : BOOLEAN]]
    BY <2>2 DEF UpdateInit
  <2>4. settings.etag <= latest /\ settings.at <= day /\ settings.error <= day
    BY DEF UpdateInit, Unset
  <2>5. \A v \in Facts : settings[v] <= latest
    BY DEF UpdateInit, Unset, Facts
  <2>6. latest \in 1..MaxReleases /\ day \in 1..MaxDay /\ ends \in 0..MaxEnds
    BY DEF UpdateInit
  <2>7. prefs \in BOOLEAN /\ mixed \in BOOLEAN
    BY DEF UpdateInit
  <2> QED BY <2>1, <2>3, <2>4, <2>5, <2>6, <2>7 DEF Types
<1>2. \A c \in Checks : Shape(c) /\ Clean(c)
  BY DEF UpdateInit, Shape, Clean, Holds, At, Resting, Unset
<1>3. Certified
  BY DEF UpdateInit, Certified, Facts, Unset
<1> QED BY <1>1, <1>2, <1>3 DEF IInv

(* What a step that writes no release does to a check: it keeps what the    *)
(* check still writes, ends it, or has it write that nothing is newer.      *)
Keeps(c) ==
  /\ At(c, "write")' <=> At(c, "write")
  /\ check'[c].release = check[c].release /\ check'[c].etag = check[c].etag
  /\ check'[c].left = check[c].left /\ check'[c].alone = check[c].alone
NothingNewer(c) ==
  /\ check'[c].pc = "write" /\ check'[c].left = <<"at", "error">>
  /\ check'[c].release = Unset /\ check'[c].etag = Unset

LEMMA Quiet ==
  ASSUME IInv, Types', \A v \in Facts \cup {"etag"} : settings'[v] = settings[v],
         mixed' = mixed, latest <= latest',
         \A c \in Checks : check'[c] = Resting \/ Keeps(c) \/ NothingNewer(c)
  PROVE  IInv'
<1>1. ASSUME NEW c \in Checks PROVE Shape(c)'
  <2>1. CASE check'[c] = Resting
    <3>1. latest' \in Nat
      BY UpdateCheckAssumption DEF Types
    <3> QED BY <2>1, <3>1 DEF Shape, At, Resting, Unset
  <2>2. CASE Keeps(c)
    <3>1. Shape(c) /\ Types
      BY DEF IInv
    <3> QED BY <2>2, <3>1, ShapeKept DEF Keeps
  <2>3. CASE NothingNewer(c)
    <3>1. latest' \in Nat
      BY UpdateCheckAssumption DEF Types
    <3>2. Len(check'[c].left) = 2 /\ check'[c].left[1] = "at" /\ check'[c].left[2] = "error"
      BY <2>3 DEF NothingNewer
    <3>3. \A i \in 1..2 : check'[c].left[i] # "etag" /\ check'[c].left[i] \notin Facts
      BY <3>2 DEF Facts
    <3> QED BY <2>3, <3>1, <3>2, <3>3 DEF Shape, At, NothingNewer, Unset
  <2> QED BY <2>1, <2>2, <2>3
<1>2. ASSUME NEW c \in Checks, Holds(c)'
      PROVE  /\ Holds(c) /\ check'[c].release = check[c].release
             /\ check'[c].left = check[c].left /\ check'[c].alone = check[c].alone
  <2>1. check'[c] # Resting /\ ~NothingNewer(c)
    BY <1>2 DEF Holds, Resting, NothingNewer
  <2> QED BY <1>2, <2>1 DEF Keeps, Holds
<1> QED BY <1>1, <1>2, Kept

Record == [pc : Pcs, prior : Nat, release : Nat, etag : Nat, left : Seq(Names), alone : BOOLEAN]

LEMMA RestingIsOne == Resting \in Record
BY DEF Resting, Record, Unset, Pcs

(* The steps of one check that write no fact and no ETag.                   *)
LEMMA QuietCheck ==
  ASSUME IInv, NEW c \in Checks,
         Poll(c) \/ PollAge(c) \/ CheckNow(c) \/ ReadEtag(c) \/ FetchUnchanged(c) \/ FetchFails(c)
  PROVE  IInv'
<1>1. /\ Types /\ Shape(c) /\ day \in Nat /\ settings.etag \in Nat
      /\ check \in [Checks -> Record]
  BY UpdateCheckAssumption DEF IInv, Types, Record
<1>2. ASSUME NEW r \in Record, check' = [check EXCEPT ![c] = r],
             r = Resting \/ (r.pc # "write" /\ ~At(c, "write") /\ r.release = check[c].release
                             /\ r.etag = check[c].etag /\ r.left = check[c].left
                             /\ r.alone = check[c].alone)
                        \/ (r.pc = "write" /\ r.left = <<"at", "error">>
                             /\ r.release = Unset /\ r.etag = Unset),
             settings' = settings \/ settings' = [settings EXCEPT !.error = day],
             UNCHANGED <<prefs, latest, day, ends, mixed>>
      PROVE  IInv'
  <2>1. check' \in [Checks -> Record] /\ check'[c] = r
        /\ \A d \in Checks \ {c} : check'[d] = check[d]
    BY <1>1, <1>2
  <2>2. \A v \in Facts \cup {"etag"} : settings'[v] = settings[v]
    BY <1>1, <1>2 DEF Types, Facts
  <2>3. settings' \in [enabled : BOOLEAN, version : Nat, url : Nat, published : Nat,
                       at : Nat, error : Nat, etag : Nat]
        /\ settings'.at = settings.at /\ settings'.error <= day
    <3>1. CASE settings' = settings
      BY <1>1, <3>1 DEF Types
    <3>2. CASE settings' = [settings EXCEPT !.error = day]
      <4>1. settings \in [enabled : BOOLEAN, version : Nat, url : Nat, published : Nat,
                          at : Nat, error : Nat, etag : Nat]
        BY <1>1 DEF Types
      <4> QED BY <1>1, <3>2, <4>1
    <3> QED BY <1>2, <3>1, <3>2
  <2>4. Types'
    BY <1>1, <1>2, <2>1, <2>2, <2>3 DEF Types, Record
  <2>5. latest <= latest'
    BY <1>1, <1>2, UpdateCheckAssumption DEF Types
  <2>6. \A d \in Checks : check'[d] = Resting \/ Keeps(d) \/ NothingNewer(d)
    BY <1>2, <2>1 DEF Keeps, NothingNewer, At
  <2> QED BY <1>2, <2>2, <2>4, <2>5, <2>6, Quiet
<1>3. CASE Poll(c) \/ CheckNow(c) \/ (PollAge(c) /\ ShouldFetch(settings.at))
  <2>1. PICK p \in {"age", "check"} : Goto(c, p) /\ ~At(c, "write")
    BY <1>3 DEF Poll, CheckNow, PollAge, At
  <2> DEFINE r == [check[c] EXCEPT !.pc = p]
  <2>2. r \in Record /\ check' = [check EXCEPT ![c] = r]
    BY <1>1, <2>1 DEF Goto, Record, Pcs
  <2>3. /\ r.pc # "write" /\ r.release = check[c].release /\ r.etag = check[c].etag
        /\ r.left = check[c].left /\ r.alone = check[c].alone
    BY <1>1, <2>1 DEF Record
  <2>4. UNCHANGED <<settings, prefs, latest, day, ends, mixed>>
    BY <1>3 DEF Poll, CheckNow, PollAge
  <2> HIDE DEF r
  <2> QED BY <1>2, <2>1, <2>2, <2>3, <2>4
<1>4. CASE PollAge(c) /\ ~ShouldFetch(settings.at)
  BY <1>2, <1>4, RestingIsOne DEF PollAge, Rest
<1>5. CASE ReadEtag(c)
  <2> DEFINE r == [check[c] EXCEPT !.pc = "fetch", !.prior = settings.etag]
  <2>1. check' = [check EXCEPT ![c] = r]
    BY <1>5 DEF ReadEtag
  <2>2. r \in Record
    BY <1>1 DEF Record, Pcs
  <2>3. /\ r.pc # "write" /\ r.release = check[c].release /\ r.etag = check[c].etag
        /\ r.left = check[c].left /\ r.alone = check[c].alone /\ ~At(c, "write")
    BY <1>1, <1>5 DEF Record, ReadEtag, At
  <2>4. UNCHANGED <<settings, prefs, latest, day, ends, mixed>>
    BY <1>5 DEF ReadEtag
  <2> HIDE DEF r
  <2> QED BY <1>2, <2>1, <2>2, <2>3, <2>4
<1>6. CASE FetchUnchanged(c)
  <2> DEFINE r == [check[c] EXCEPT !.pc = "write", !.left = <<"at", "error">>]
  <2>1. <<"at", "error">> \in Seq(Names)
    BY DEF Names
  <2>2. r \in Record /\ check' = [check EXCEPT ![c] = r]
    BY <1>1, <1>6, <2>1 DEF FetchUnchanged, Record, Pcs
  <2>3. check[c].release = Unset /\ check[c].etag = Unset
    BY <1>1, <1>6 DEF FetchUnchanged, Shape, At
  <2>4. r.pc = "write" /\ r.left = <<"at", "error">> /\ r.release = Unset /\ r.etag = Unset
    BY <1>1, <2>3 DEF Record
  <2>5. UNCHANGED <<settings, prefs, latest, day, ends, mixed>>
    BY <1>6 DEF FetchUnchanged
  <2> HIDE DEF r
  <2> QED BY <1>2, <2>2, <2>4, <2>5
<1>7. CASE FetchFails(c)
  BY <1>2, <1>7, RestingIsOne DEF FetchFails, Rest
<1> QED BY <1>3, <1>4, <1>5, <1>6, <1>7

(* The steps outside the checks.                                            *)
LEMMA QuietRest ==
  ASSUME IInv, (\E on \in BOOLEAN : SetEnabled(on)) \/ ClearError \/ Publish \/ Day \/ End
               \/ UNCHANGED updateVars
  PROVE  IInv'
<1>1. Types
  BY DEF IInv
<1>2. latest \in Nat /\ day \in Nat
  BY <1>1, UpdateCheckAssumption DEF Types
<1>3. settings' = settings \/ (\E on \in BOOLEAN : settings' = [settings EXCEPT !.enabled = on])
      \/ settings' = [settings EXCEPT !.error = Unset]
  BY DEF SetEnabled, ClearError, Publish, Day, End, updateVars
<1>4. settings' \in [enabled : BOOLEAN, version : Nat, url : Nat, published : Nat,
                     at : Nat, error : Nat, etag : Nat]
      /\ settings'.at = settings.at /\ (settings'.error = settings.error \/ settings'.error = 0)
  <2>1. settings \in [enabled : BOOLEAN, version : Nat, url : Nat, published : Nat,
                      at : Nat, error : Nat, etag : Nat]
    BY <1>1 DEF Types
  <2>2. CASE settings' = settings
    BY <2>1, <2>2
  <2>3. CASE \E on \in BOOLEAN : settings' = [settings EXCEPT !.enabled = on]
    BY <2>1, <2>3
  <2>4. CASE settings' = [settings EXCEPT !.error = Unset]
    BY <2>1, <2>4 DEF Unset
  <2> QED BY <1>3, <2>2, <2>3, <2>4
<1>5. \A v \in Facts \cup {"etag"} : settings'[v] = settings[v]
  BY <1>1, <1>3 DEF Types, Facts
<1>6. check' = check \/ check' = [c \in Checks |-> Resting]
  BY DEF SetEnabled, ClearError, Publish, Day, End, updateVars
<1>7. check' \in [Checks -> Record]
  BY <1>1, <1>6, RestingIsOne DEF Types, Record
<1>8. latest <= latest' /\ day <= day' /\ latest' \in 1..MaxReleases /\ day' \in 1..MaxDay
      /\ ends' \in 0..MaxEnds
  <2>1. /\ latest' = latest \/ (latest < MaxReleases /\ latest' = latest + 1)
        /\ day' = day \/ (day < MaxDay /\ day' = day + 1)
        /\ ends' = ends \/ (ends < MaxEnds /\ ends' = ends + 1)
    BY DEF SetEnabled, ClearError, Publish, Day, End, updateVars
  <2>2. latest \in 1..MaxReleases /\ day \in 1..MaxDay /\ ends \in 0..MaxEnds
    BY <1>1 DEF Types
  <2> QED BY <2>1, <2>2, UpdateCheckAssumption
<1>9. mixed' = mixed /\ mixed \in BOOLEAN /\ prefs' \in BOOLEAN
  BY <1>1 DEF SetEnabled, ClearError, Publish, Day, End, updateVars, Types
<1>10. latest' \in Nat /\ day' \in Nat
  BY <1>8, UpdateCheckAssumption
<1>11. settings'.etag <= latest' /\ \A v \in Facts : settings'[v] <= latest'
  <2>1. /\ settings.etag \in Nat /\ settings.etag <= latest
        /\ \A v \in Facts : settings[v] \in Nat /\ settings[v] <= latest
    BY <1>1 DEF Types, Facts
  <2>2. settings'.etag = settings.etag /\ \A v \in Facts : settings'[v] = settings[v]
    BY <1>5
  <2>3. latest <= latest'
    BY <1>8
  <2> QED BY <1>2, <1>10, <2>1, <2>2, <2>3
<1>12. settings'.at <= day' /\ settings'.error <= day'
  <2>1. /\ settings.at \in Nat /\ settings.at <= day
        /\ settings.error \in Nat /\ settings.error <= day
    BY <1>1 DEF Types
  <2>2. day <= day'
    BY <1>8
  <2> QED BY <1>2, <1>4, <1>10, <2>1, <2>2
<1>13. Types'
  BY <1>4, <1>7, <1>8, <1>9, <1>11, <1>12 DEF Types, Record
<1>14. \A c \in Checks : check'[c] = Resting \/ Keeps(c) \/ NothingNewer(c)
  BY <1>6 DEF Keeps, At
<1> QED BY <1>5, <1>8, <1>9, <1>13, <1>14, Quiet

(* A release arrives: a check that holds another one is no longer alone,    *)
(* and neither is this one.                                                 *)
LEMMA ReleaseArrives ==
  ASSUME IInv, NEW c \in Checks, NEW etag \in {Unset, latest}, FetchRelease(c, etag)
  PROVE  IInv'
<1> DEFINE others == {d \in Checks : At(d, "write") /\ check[d].release \notin {Unset, latest}}
<1>1. /\ Types /\ latest \in Nat /\ latest >= 1 /\ etag \in Nat /\ etag \in {0, latest}
      /\ check \in [Checks -> Record] /\ (\A d \in Checks : Shape(d) /\ Clean(d)) /\ Certified
  BY UpdateCheckAssumption DEF IInv, Types, Record, Unset
<1>2. /\ Stores(etag) \in Seq(Names) /\ Len(Stores(etag)) >= 5
      /\ Facts \subseteq {Stores(etag)[i] : i \in 1..Len(Stores(etag))}
      /\ \A i \in 1..Len(Stores(etag)) :
           Stores(etag)[i] = "etag" <=> (etag # Unset /\ i = Len(Stores(etag)))
  BY <1>1, StoresShape
<1>3. /\ At(c, "fetch") /\ (mixed' <=> (mixed \/ others # {}))
      /\ UNCHANGED <<settings, prefs, latest, day, ends>>
  BY DEF FetchRelease
<1>4. check' = [d \in Checks |->
                 IF d = c THEN [check[c] EXCEPT !.pc = "write", !.release = latest, !.etag = etag,
                                                !.left = Stores(etag), !.alone = (others = {})]
                 ELSE IF d \in others THEN [check[d] EXCEPT !.alone = FALSE] ELSE check[d]]
  BY DEF FetchRelease
<1> HIDE DEF others
<1>5. /\ check'[c] \in Record /\ check'[c].pc = "write" /\ check'[c].release = latest
      /\ check'[c].etag = etag /\ check'[c].left = Stores(etag)
      /\ (check'[c].alone <=> others = {})
  <2>1. check'[c] = [check[c] EXCEPT !.pc = "write", !.release = latest, !.etag = etag,
                                     !.left = Stores(etag), !.alone = (others = {})]
    BY <1>4
  <2>2. (others = {}) \in BOOLEAN /\ "write" \in Pcs /\ check[c] \in Record
    BY <1>1 DEF Pcs
  <2> QED BY <1>1, <1>2, <2>1, <2>2 DEF Record
<1>6. ASSUME NEW d \in Checks, d # c
      PROVE  /\ check'[d] \in Record /\ check'[d].pc = check[d].pc
             /\ check'[d].release = check[d].release /\ check'[d].etag = check[d].etag
             /\ check'[d].left = check[d].left
             /\ check'[d].alone => (check[d].alone /\ d \notin others)
  <2>1. check'[d] = IF d \in others THEN [check[d] EXCEPT !.alone = FALSE] ELSE check[d]
    BY <1>4, <1>6
  <2>2. check[d] \in Record
    BY <1>1
  <2> QED BY <2>1, <2>2 DEF Record
<1>7. Types'
  <2>1. check' \in [Checks -> Record]
    <3>1. \A d \in Checks : check'[d] \in Record
      BY <1>5, <1>6
    <3>2. check' = [d \in Checks |-> check'[d]]
      BY <1>4
    <3> HIDE DEF Record
    <3> QED BY <3>1, <3>2
  <2>2. mixed' \in BOOLEAN
    BY <1>3, <1>1 DEF Types, FetchRelease
  <2> QED BY <1>1, <1>3, <2>1, <2>2 DEF Types, Record
<1>8. ASSUME NEW d \in Checks PROVE Shape(d)'
  <2>1. CASE d = c
    <3>1. \A i \in 1..Len(Stores(etag)) : Stores(etag)[i] \in Facts => latest # Unset
      BY <1>1 DEF Unset
    <3> QED BY <1>1, <1>2, <1>3, <1>5, <2>1, <3>1 DEF Shape, At, Unset
  <2>2. CASE d # c
    <3>1. latest <= latest'
      BY <1>1, <1>3
    <3> QED BY <1>1, <1>6, <1>7, <2>2, <3>1, ShapeKept DEF At
  <2> QED BY <2>1, <2>2
<1>9. \A d \in Checks : d # c => ((Holds(d)' <=> Holds(d)) /\ ToDo(d)' = ToDo(d))
  BY <1>6 DEF Holds, At, ToDo
<1>10. \A d \in Checks : d \in others <=> (Holds(d) /\ check[d].release # latest)
  BY DEF others, Holds
<1>11. ASSUME NEW d \in Checks, Holds(d)', check'[d].alone \/ ~mixed'
       PROVE  /\ \A e \in Checks : Holds(e)' => check'[e].release = check'[d].release
              /\ \A v \in Facts \ ToDo(d)' : settings'[v] = check'[d].release
              /\ ~mixed' => settings'.etag <= check'[d].release
  <2>1. CASE others = {}
    <3>1. \A e \in Checks : Holds(e)' => check'[e].release = latest
      BY <1>5, <1>6, <1>9, <1>10, <2>1
    <3>2. settings'.etag <= check'[d].release
      BY <1>1, <1>3, <1>11, <3>1 DEF Types
    <3>3. CASE d = c
      <4>1. Facts \ ToDo(d)' = {}
        BY <1>2, <1>5, <3>3 DEF ToDo
      <4> QED BY <1>11, <3>1, <3>2, <4>1
    <3>4. CASE d # c
      <4>1. Clean(d) /\ Holds(d) /\ (check[d].alone \/ ~mixed) /\ ToDo(d)' = ToDo(d)
            /\ check'[d].release = check[d].release
        BY <1>1, <1>3, <1>6, <1>9, <1>11, <3>4
      <4>2. \A v \in Facts \ ToDo(d) : settings[v] = check[d].release
        BY <4>1 DEF Clean
      <4> QED BY <1>3, <1>11, <3>1, <3>2, <4>1, <4>2
    <3> QED BY <3>3, <3>4
  <2>2. CASE others # {}
    <3>1. mixed' /\ check'[d].alone /\ d # c
      BY <1>3, <1>5, <1>11, <2>2
    <3>2. Clean(d) /\ Holds(d) /\ check[d].alone /\ d \notin others
      BY <1>1, <1>6, <1>9, <1>11, <3>1
    <3>3. PICK o \in Checks : o \in others
      BY <2>2 DEF others
    <3>4. check[o].release = check[d].release
      BY <1>10, <3>2, <3>3 DEF Clean
    <3>5. FALSE
      BY <1>10, <3>2, <3>3, <3>4
    <3> QED BY <3>5
  <2> QED BY <2>1, <2>2
<1>12. \A d \in Checks : Clean(d)'
  BY <1>11 DEF Clean
<1>13. Certified'
  BY <1>1, <1>3 DEF Certified
<1> QED BY <1>7, <1>8, <1>12, <1>13 DEF IInv

(* A check commits one setting.  Either its write finds everything in       *)
(* order, or it is the last of a release written alone, which puts          *)
(* everything in order.                                                     *)
LEMMA OneCommit ==
  ASSUME IInv, NEW c \in Checks, Store(c)
  PROVE  IInv'
<1> DEFINE left == check[c].left
<1> DEFINE key == Head(left)
<1> DEFINE R == check[c].release
<1>1. /\ Types /\ latest \in Nat /\ day \in Nat /\ mixed \in BOOLEAN
      /\ check \in [Checks -> Record] /\ (\A d \in Checks : Shape(d) /\ Clean(d)) /\ Certified
  BY UpdateCheckAssumption DEF IInv, Types, Record
<1>2. /\ At(c, "write") /\ settings' = [settings EXCEPT ![key] = Stored(c, key)]
      /\ UNCHANGED <<prefs, latest, day, ends>>
      /\ mixed' = (mixed /\ ~(Len(left) = 1 /\ check[c].etag # Unset /\ check[c].alone))
  BY DEF Store
<1>3. IF Len(left) = 1 THEN check' = [check EXCEPT ![c] = Resting]
      ELSE check' = [check EXCEPT ![c].left = Tail(left)]
  BY DEF Store, Rest
<1>4. left \in Seq(Names) /\ Len(left) \in Nat /\ Len(left) >= 1
  BY <1>1, <1>2 DEF Record, Shape
<1>5. /\ key = left[1] /\ key \in Names /\ Tail(left) \in Seq(Names)
      /\ Len(Tail(left)) = Len(left) - 1
      /\ \A i \in 1..(Len(left) - 1) : Tail(left)[i] = left[i + 1]
  BY <1>4
<1>6. /\ R \in Nat /\ check[c].etag \in {0, R} /\ R <= latest
      /\ key = "etag" <=> (check[c].etag # 0 /\ Len(left) = 1)
      /\ key \in Facts => R # 0
      /\ R # 0 => Holds(c)
  <2>1. Shape(c) /\ R \in Nat
    BY <1>1 DEF Record
  <2>2. check[c].etag \in {0, R} /\ R <= latest
    BY <2>1 DEF Shape, Unset
  <2>3. 1 \in 1..Len(left)
    BY <1>4
  <2>4. /\ left[1] = "etag" <=> (check[c].etag # 0 /\ 1 = Len(left))
        /\ left[1] \in Facts => R # 0
    BY <2>1, <2>3 DEF Shape, Unset
  <2>5. R # 0 => Holds(c)
    BY <1>2 DEF Holds, Unset
  <2> QED BY <1>5, <2>1, <2>2, <2>4, <2>5
<1> HIDE DEF left, key, R
<1>7. /\ key \in Facts => Stored(c, key) = R
      /\ key = "etag" => Stored(c, key) = R
      /\ key = "at" => Stored(c, key) = day
      /\ key = "error" => Stored(c, key) = 0
  BY <1>6 DEF Stored, Facts, Unset, R
<1>8. /\ settings' \in [enabled : BOOLEAN, version : Nat, url : Nat, published : Nat,
                         at : Nat, error : Nat, etag : Nat]
      /\ settings'[key] = Stored(c, key)
      /\ \A k \in Names \ {key} : settings'[k] = settings[k]
  <2>1. /\ settings \in [enabled : BOOLEAN, version : Nat, url : Nat, published : Nat,
                          at : Nat, error : Nat, etag : Nat]
    BY <1>1 DEF Types
  <2>2. Stored(c, key) \in Nat
    BY <1>1, <1>5, <1>6, <1>7 DEF Names
  <2>3. key \in {"version", "url", "published", "at", "error", "etag"}
    BY <1>5 DEF Names, Facts
  <2> QED BY <1>2, <2>1, <2>2, <2>3 DEF Names, Facts
<1>9. check' \in [Checks -> Record]
  <2>1. CASE Len(left) = 1
    BY <1>1, <1>3, <2>1, RestingIsOne
  <2>2. CASE Len(left) # 1
    <3>1. [check[c] EXCEPT !.left = Tail(left)] \in Record
      BY <1>1, <1>5 DEF Record
    <3>2. check' = [check EXCEPT ![c] = [check[c] EXCEPT !.left = Tail(left)]]
      BY <1>3, <2>2
    <3> QED BY <1>1, <3>1, <3>2
  <2> QED BY <2>1, <2>2
<1>10. \A d \in Checks \ {c} : check'[d] = check[d]
  BY <1>1, <1>3
<1>11. ASSUME Len(left) # 1
       PROVE  /\ check'[c].pc = "write" /\ check'[c].release = R
              /\ check'[c].etag = check[c].etag /\ check'[c].left = Tail(left)
              /\ check'[c].alone = check[c].alone
  <2>1. check'[c] = [check[c] EXCEPT !.left = Tail(left)]
    BY <1>1, <1>3, <1>11
  <2> QED BY <1>1, <1>2, <2>1 DEF Record, At, R
<1>12. Len(left) = 1 => check'[c] = Resting
  BY <1>1, <1>3
<1>13. Types'
  <2>1. ASSUME NEW k \in Facts \cup {"etag"} PROVE settings'[k] <= latest
    <3>1. settings[k] <= latest /\ k \in Names
      BY <1>1 DEF Types, Names
    <3>2. CASE k = key
      BY <1>6, <1>7, <1>8, <3>2
    <3>3. CASE k # key
      BY <1>8, <3>1, <3>3
    <3> QED BY <3>2, <3>3
  <2>2. settings'.at <= day /\ settings'.error <= day
    <3>1. settings.at <= day /\ settings.error <= day
      BY <1>1 DEF Types
    <3>2. key = "at" => settings'.at = day
      BY <1>7, <1>8
    <3>3. key # "at" => settings'.at = settings.at
      BY <1>8 DEF Names
    <3>4. key = "error" => settings'.error = 0
      BY <1>7, <1>8
    <3>5. key # "error" => settings'.error = settings.error
      BY <1>8 DEF Names
    <3> QED BY <1>1, <3>1, <3>2, <3>3, <3>4, <3>5
  <2> QED BY <1>1, <1>2, <1>8, <1>9, <2>1, <2>2 DEF Types, Record
<1>14. ASSUME NEW d \in Checks PROVE Shape(d)'
  <2>1. CASE d # c
    BY <1>1, <1>2, <1>10, <1>13, <2>1, ShapeKept DEF At
  <2>2. CASE d = c /\ Len(left) = 1
    BY <1>1, <1>2, <1>12, <2>2 DEF Shape, At, Resting, Unset
  <2>3. CASE d = c /\ Len(left) # 1
    <3>1. /\ Len(check'[c].left) = Len(left) - 1
          /\ \A i \in 1..(Len(left) - 1) : check'[c].left[i] = left[i + 1]
      BY <1>5, <1>11, <2>3
    <3>2. \A i \in 1..Len(left) :
            /\ left[i] = "etag" <=> (check[c].etag # Unset /\ i = Len(left))
            /\ left[i] \in Facts => R # Unset
      BY <1>1 DEF Shape, left, R
    <3>3. ASSUME NEW i \in 1..(Len(left) - 1)
          PROVE  /\ check'[c].left[i] = "etag"
                       <=> (check'[c].etag # Unset /\ i = Len(left) - 1)
                 /\ check'[c].left[i] \in Facts => check'[c].release # Unset
      <4>1. i + 1 \in 1..Len(left) /\ (i + 1 = Len(left) <=> i = Len(left) - 1)
        BY <1>4
      <4>2. /\ left[i + 1] = "etag" <=> (check[c].etag # Unset /\ i + 1 = Len(left))
            /\ left[i + 1] \in Facts => R # Unset
        BY <3>2, <4>1
      <4>3. check'[c].left[i] = left[i + 1]
        BY <3>1
      <4>4. check'[c].etag = check[c].etag /\ check'[c].release = R
        BY <1>11, <2>3
      <4> QED BY <4>1, <4>2, <4>3, <4>4
    <3>4. check'[c].release <= latest' /\ check'[c].etag \in {Unset, check'[c].release}
          /\ Len(left) - 1 >= 1
      <4>1. latest' = latest
        BY <1>2
      <4>2. check'[c].etag = check[c].etag /\ check'[c].release = R
        BY <1>11, <2>3
      <4>3. Len(left) - 1 >= 1
        <5>1. \A n \in Nat : n >= 1 /\ n # 1 => n - 1 >= 1
          OBVIOUS
        <5> QED BY <1>4, <2>3, <5>1
      <4>4. R <= latest /\ check[c].etag \in {Unset, R}
        BY <1>6 DEF Unset
      <4>5. check'[c].release <= latest'
        BY <4>1, <4>2, <4>4
      <4> QED BY <4>2, <4>3, <4>4, <4>5
    <3> QED BY <1>11, <2>3, <3>1, <3>3, <3>4 DEF Shape, At
  <2> QED BY <2>1, <2>2, <2>3
<1>15. ASSUME NEW d \in Checks, Holds(d)'
       PROVE  /\ Holds(d) /\ check'[d].release = check[d].release
              /\ check'[d].alone = check[d].alone /\ ToDo(d) \subseteq ToDo(d)' \cup {key}
  <2>1. CASE d # c
    BY <1>10, <1>15, <2>1 DEF Holds, At, ToDo
  <2>2. CASE d = c
    <3>1. Len(left) # 1
      BY <1>12, <1>15, <2>2 DEF Holds, At, Resting
    <3>2. ToDo(c) \subseteq ToDo(c)' \cup {key}
      <4>1. ASSUME NEW i \in 1..Len(left) PROVE left[i] \in ToDo(c)' \cup {key}
        <5>1. CASE i = 1
          BY <1>5, <5>1
        <5>2. CASE i # 1
          <6>1. i - 1 \in 1..(Len(left) - 1) /\ Tail(left)[i - 1] = left[i]
            BY <1>4, <1>5, <5>2
          <6> QED BY <1>5, <1>11, <3>1, <6>1 DEF ToDo
        <5> QED BY <5>1, <5>2
      <4>2. ToDo(c) = {left[i] : i \in 1..Len(left)}
        BY DEF ToDo, left
      <4> QED BY <4>1, <4>2
    <3> QED BY <1>2, <1>11, <1>15, <2>2, <3>1, <3>2 DEF Holds, At, R
  <2> QED BY <2>1, <2>2
<1>16. ASSUME key = "etag", check[c].alone \/ ~mixed
       PROVE  /\ \A v \in Facts : settings'[v] = R
              /\ settings'.etag = R /\ \A d \in Checks : Holds(d) => check[d].release = R
  <2>1. ToDo(c) = {"etag"}
    <3>1. Len(left) = 1 /\ left[1] = "etag"
      BY <1>5, <1>6, <1>16
    <3>2. ToDo(c) = {left[i] : i \in 1..Len(left)}
      BY DEF ToDo, left
    <3> QED BY <3>1, <3>2
  <2>2. Clean(c) /\ Holds(c)
    BY <1>1, <1>6, <1>16
  <2>3. (\A d \in Checks : Holds(d) => check[d].release = R)
        /\ \A v \in Facts \ ToDo(c) : settings[v] = R
    BY <1>16, <2>2 DEF Clean, R
  <2> QED BY <1>7, <1>8, <1>16, <2>1, <2>3 DEF Facts, Names
<1>17. ASSUME mixed, ~mixed' PROVE key = "etag" /\ check[c].alone
  BY <1>2, <1>6, <1>17 DEF Unset
<1>18. ASSUME NEW d \in Checks, Holds(d)', check'[d].alone \/ ~mixed'
       PROVE  /\ \A e \in Checks : Holds(e)' => check'[e].release = check'[d].release
              /\ \A v \in Facts \ ToDo(d)' : settings'[v] = check'[d].release
              /\ ~mixed' => settings'.etag <= check'[d].release
  <2>1. check[d].release \in Nat /\ Holds(d) /\ check'[d].release = check[d].release
    BY <1>1, <1>15, <1>18 DEF Record
  <2>2. CASE check[d].alone \/ ~mixed
    <3>1. Clean(d) /\ Holds(d)
      BY <1>1, <1>15, <1>18
    <3>2. /\ \A e \in Checks : Holds(e) => check[e].release = check[d].release
          /\ \A v \in Facts \ ToDo(d) : settings[v] = check[d].release
          /\ ~mixed => settings.etag <= check[d].release
      BY <2>2, <3>1 DEF Clean
    <3>3. \A e \in Checks : Holds(e)' => check'[e].release = check'[d].release
      BY <1>15, <2>1, <3>2
    <3>4. ASSUME NEW v \in Facts \ ToDo(d)' PROVE settings'[v] = check[d].release
      <4>1. CASE v = key
        BY <1>6, <1>7, <1>8, <3>2, <4>1 DEF R
      <4>2. CASE v # key
        <5>1. v \in Facts \ ToDo(d) /\ v \in Names
          BY <1>15, <1>18, <4>2 DEF Names
        <5> QED BY <1>8, <3>2, <4>2, <5>1
      <4> QED BY <4>1, <4>2
    <3>5. ASSUME ~mixed' PROVE settings'.etag <= check[d].release
      <4>1. CASE key = "etag"
        <5>1. R = check[d].release
          BY <1>6, <3>2, <4>1 DEF R
        <5> QED BY <1>7, <1>8, <2>1, <4>1, <5>1
      <4>2. CASE key # "etag"
        <5>1. ~mixed
          BY <1>17, <3>5, <4>2
        <5> QED BY <1>8, <3>2, <4>2, <5>1 DEF Names
      <4> QED BY <4>1, <4>2
    <3> QED BY <2>1, <3>3, <3>4, <3>5
  <2>3. CASE ~check[d].alone /\ mixed
    <3>1. key = "etag" /\ check[c].alone
      BY <1>15, <1>17, <1>18, <2>3
    <3>2. /\ \A v \in Facts : settings'[v] = R
          /\ settings'.etag = R /\ \A e \in Checks : Holds(e) => check[e].release = R
      BY <1>16, <3>1
    <3> QED BY <1>6, <1>15, <2>1, <3>2
  <2> QED BY <2>2, <2>3
<1>19. \A d \in Checks : Clean(d)'
  BY <1>18 DEF Clean
<1>20. ASSUME ~mixed', NEW v \in Facts PROVE settings'.etag <= settings'[v]
  <2>1. CASE key = "etag"
    <3>1. settings'.etag = R /\ settings'[v] = R
      BY <1>16, <1>17, <1>20, <2>1
    <3> QED BY <1>6, <3>1
  <2>2. CASE key # "etag"
    <3>1. ~mixed /\ settings'.etag = settings.etag
      BY <1>8, <1>17, <1>20, <2>2 DEF Names
    <3>2. CASE v = key
      <4>1. Holds(c) /\ Clean(c)
        BY <1>1, <1>6, <3>2
      <4> QED BY <1>7, <1>8, <3>1, <3>2, <4>1 DEF Clean, R
    <3>3. CASE v # key
      BY <1>1, <1>8, <3>1, <3>3 DEF Certified, Names
    <3> QED BY <3>2, <3>3
  <2> QED BY <2>1, <2>2
<1>21. Certified'
  BY <1>20 DEF Certified
<1> QED BY <1>13, <1>14, <1>19, <1>21 DEF IInv
-----------------------------------------------------------------------------
LEMMA Inductive == UpdateSpec => []IInv
<1>1. IInv /\ [UpdateNext]_updateVars => IInv'
  <2> SUFFICES ASSUME IInv, [UpdateNext]_updateVars PROVE IInv'
    OBVIOUS
  <2>1. CASE \E c \in Checks :
               Poll(c) \/ PollAge(c) \/ CheckNow(c) \/ ReadEtag(c) \/ FetchUnchanged(c) \/ FetchFails(c)
    BY <2>1, QuietCheck
  <2>2. CASE \E c \in Checks : Store(c)
    BY <2>2, OneCommit
  <2>3. CASE \E c \in Checks : \E etag \in {Unset, latest} : FetchRelease(c, etag)
    BY <2>3, ReleaseArrives
  <2>4. CASE (\E on \in BOOLEAN : SetEnabled(on)) \/ ClearError \/ Publish \/ Day \/ End
             \/ UNCHANGED updateVars
    BY <2>4, QuietRest
  <2> QED BY <2>1, <2>2, <2>3, <2>4 DEF UpdateNext
<1> QED BY <1>1, InitHolds, PTL DEF UpdateSpec

(* The settings and the checks have their types: no release is on record    *)
(* that GitHub has not published, no time that has not come                 *)
(* (services/update_check.py, Settings).                                    *)
THEOREM TypeCorrect == UpdateSpec => []UpdateTypeOK
<1>1. IInv => UpdateTypeOK
  <2> SUFFICES ASSUME IInv PROVE UpdateTypeOK
    OBVIOUS
  <2>1. Types /\ latest \in Nat /\ day \in Nat
    BY UpdateCheckAssumption DEF IInv, Types
  <2>2. {settings.version, settings.url, settings.published, settings.etag} \subseteq 0..latest
    BY <2>1 DEF Types, Facts
  <2>3. {settings.at, settings.error} \subseteq 0..day
    BY <2>1 DEF Types
  <2>4. \A c \in Checks : check[c].pc \in {"idle", "age", "check", "fetch", "write"}
    BY <2>1 DEF Types, Pcs
  <2>5. settings.enabled \in BOOLEAN
    BY <2>1 DEF Types
  <2> QED BY <2>1, <2>2, <2>3, <2>4, <2>5 DEF UpdateTypeOK, Types
<1> QED BY <1>1, Inductive, PTL

(* The ETag on record never certifies a release the other settings have not *)
(* reached, wherever the process ended and however many checks ran at once  *)
(* (update_check.py:333-342).                                               *)
THEOREM EtagIsHonest == UpdateSpec => []EtagCertifies
<1>1. IInv => EtagCertifies
  <2> SUFFICES ASSUME IInv, ~mixed
               PROVE  settings.etag <= Min({settings.version, settings.url, settings.published})
    BY DEF EtagCertifies
  <2>1. settings.version \in Nat /\ settings.url \in Nat /\ settings.published \in Nat
    BY DEF IInv, Types
  <2>2. /\ settings.etag <= settings.version /\ settings.etag <= settings.url
        /\ settings.etag <= settings.published
    BY DEF IInv, Certified, Facts
  <2> QED BY <2>1, <2>2, MinOf
<1> QED BY <1>1, Inductive, PTL
================================================================================
