CONSTANTS
  Instances = {i1}
  Loops = {l1}
  Manuals = {m1}
  Primes = {p1}
  Sweep = s
  Handlers = {h1,h2}
  NoTask = none
  Requests = {"runNow"}
  DbMayFail = TRUE
  MayCrash = TRUE
  SlowUnwind = FALSE
  StopKinds = {}
SPECIFICATION ReconnectSpec
CHECK_DEADLOCK FALSE
INVARIANTS LockHasLiveOwner OfflineHasPairer
PROPERTIES RecoveryAnswersError OneErrorPerOutage SuccessAnswersError
