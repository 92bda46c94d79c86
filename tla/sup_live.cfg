CONSTANTS
  Instances = {i1}
  Loops = {l1}
  Manuals = {m1}
  Primes = {p1}
  Sweep = s
  Handlers = {h1, h2}
  NoTask = none
  Requests = {"create", "delete"}
  DbMayFail = FALSE
  MayCrash = FALSE
  SlowUnwind = FALSE
  StopKinds = {}
SPECIFICATION FairSpec
CHECK_DEADLOCK FALSE
PROPERTIES DisabledGoesQuiet WaitersServed
VIEW ControlView
