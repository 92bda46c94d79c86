CONSTANTS
  e1 = e1
  e2 = e2
  e3 = e3
  e4 = e4
  s1 = s1
  Items = {e1, e2, e3}
  Groups = {s1}
  NoGroup = none
  GroupOf <- SeasonOf
  Lists <- PassLists
  Filtered = {}
  Batch <- TwoOneOne
  PageSize <- TwoPages
  Budget <- Three
  Cap <- TwoOneOne
  Cooled = {"missing", "cutoff", "upgrade"}
  ListPages = 2
  Random = TRUE
  HotRetry = FALSE
  Unaired = {}
  Downloads = {}
  Leavers = {e1}
  Triggers = {"scheduled"}
  Gates = {"open", "window", "backlog"}
  MayFail = TRUE
  MayDie = TRUE
  ShortCooldown = TRUE
SPECIFICATION Spec
INVARIANTS CapHolds OncePerCycle
PROPERTIES NoPageTwice
VIEW LiveView
