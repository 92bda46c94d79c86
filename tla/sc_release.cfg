CONSTANTS
  e1 = e1
  e2 = e2
  e3 = e3
  e4 = e4
  s1 = s1
  Items = {e1, e2}
  Groups = {s1}
  NoGroup = none
  GroupOf <- SeasonOf
  Lists <- OneList
  Filtered = {}
  Batch <- Two
  PageSize <- OnePage
  Budget <- Three
  Cap <- Two
  Cooled = {"missing", "cutoff", "upgrade"}
  ListPages = 1
  Random = TRUE
  HotRetry = TRUE
  Unaired = {e1, e2}
  Downloads = {e1}
  Leavers = {}
  Triggers = {"scheduled", "run_now"}
  Gates = {"open"}
  MayFail = TRUE
  MayDie = FALSE
  ShortCooldown = TRUE
SPECIFICATION Spec
INVARIANTS TypeOK OncePerCycle GateRowHonest QueueRowHonest
PROPERTIES RetryEarned RetryAfterGrace
VIEW LiveView
