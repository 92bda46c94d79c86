------------------------- MODULE MCCooldownReconcile -------------------------
(* Small instances of CooldownReconcile for TLC. *)
EXTENDS CooldownReconcile

Setting(c, u, e) == [context |-> c, upContext |-> u, upgrade |-> e, read |-> TRUE]

\* Items 1 and 2 are episodes of season 1 of a series; item 3 is a special of another.
SeriesOf == [i \in Items |-> IF i = 3 THEN 2 ELSE 1]
SeasonNo == [i \in Items |-> IF i = 3 THEN 0 ELSE 1]
Switches == {Setting(FALSE, FALSE, TRUE), Setting(TRUE, TRUE, TRUE), Setting(TRUE, FALSE, FALSE)}
=============================================================================
