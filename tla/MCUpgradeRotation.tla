-------------------------- MODULE MCUpgradeRotation --------------------------
\* Instances of UpgradeRotation for TLC: libraries of six series, half of which
\* a window of three holds, of three, and of two, which it holds twice.
EXTENDS UpgradeRotation

SixSeries     == 1 .. 6
SixThreeOrTwo == {SixSeries, {1, 4, 6}, {1, 4}}

\* Two episodes of the first series and one of the fourth: every window holds
\* one, and that of three series a pool of three where the budget is two.
OfSixSeries == [e \in 1 .. 3 |-> IF e = 3 THEN 4 ELSE 1]
=============================================================================
