---------------------------- MODULE MCSearchCycle ----------------------------
(* Small instances of SearchCycle for TLC. *)
EXTENDS SearchCycle

PerKind(a, b, d) == [missing |-> a, cutoff |-> b, upgrade |-> d]
PerList(a, b)    == [missing |-> a, cutoff |-> b]

\* Two episodes of a season in the missing list.
CONSTANTS e1, e2, e3, e4, s1
SeasonOf == [i \in Items |-> IF i \in {e1, e2} THEN s1 ELSE NoGroup]
NoSeason == [i \in Items |-> NoGroup]
OneList  == PerKind(<<e1, e2>>, <<>>, <<>>)
OnePage  == PerList(2, 2)
Two      == PerKind(2, 0, 0)
Three    == PerKind(3, 3, 3)

\* Two records of a season on different pages and one on its own between them;
\* the cutoff list and the upgrade pool hold one of each again.
PassLists  == PerKind(<<e1, e3, e2>>, <<e3>>, <<e2>>)
TwoPages   == PerList(2, 2)
TwoOneOne  == PerKind(2, 1, 1)
One        == PerKind(1, 1, 1)
OneUpgrade == PerKind(3, 3, 1)

\* The record in hand is read from its choice to its log row, the rest while a
\* cycle runs: states that differ in them elsewhere behave alike.
LiveView ==
  <<arrVars, logVars, dbVars, deck, pc, pass, owed, gateRows, queueRows,
    IF pc \in {"queue", "sent", "record", "log"} THEN cur ELSE e1,
    IF pc = "idle" THEN <<>> ELSE <<trigger, known, sent>> >>

\* One long list in order, a record a page.
OneEach   == PerList(1, 1)
LongList  == PerKind(<<e1, e2, e3>>, <<>>, <<e4, s1>>)
=============================================================================
