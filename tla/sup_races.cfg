CONSTANTS
  Instances = {i1}
  Loops = {l1, l2}
  Manuals = {m1,m2}
  Primes = {p1}
  Sweep = s
  Handlers = {h1,h2}
  NoTask = none
  Requests = {"toggle","delete","runNow"}
  DbMayFail = FALSE
  MayCrash = FALSE
  SlowUnwind = TRUE
  StopKinds = {}
SPECIFICATION Spec
CHECK_DEADLOCK FALSE
SYMMETRY SlotSymmetry
CONSTRAINTS SweepAsleep NoErrorRow
VIEW ControlView
INVARIANTS OneTaskOfAKind CycleExclusion
