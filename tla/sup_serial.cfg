CONSTANTS
  Instances = {i1}
  Loops = {l1, l2}
  Manuals = {m1}
  Primes = {p1}
  Sweep = s
  Handlers = {h1}
  NoTask = none
  Requests = {"create", "toggle", "update", "delete", "runNow"}
  DbMayFail = FALSE
  MayCrash = FALSE
  SlowUnwind = FALSE
  StopKinds = {"exit"}
SPECIFICATION Spec
SYMMETRY SlotSymmetry
VIEW ControlView
CHECK_DEADLOCK TRUE
INVARIANTS TypeOK EnabledHasLoop DisabledHasNone StoppedIsQuiet
