CONSTANTS
  e1 = e1
  e2 = e2
  e3 = e3
  e4 = e4
  s1 = s1
  Items = {e1, e2, e3, e4, s1}
  Groups = {}
  NoGroup = none
  GroupOf <- NoSeason
  Lists <- LongList
  Filtered = {e2}
  Batch <- One
  PageSize <- OneEach
  Budget <- OneUpgrade
  Cap <- One
  Cooled = {"missing", "cutoff", "upgrade"}
  ListPages = 2
  Random = FALSE
  HotRetry = FALSE
  Unaired = {e1}
  Downloads = {}
  Leavers = {}
  Triggers = {"scheduled"}
  Gates = {"open"}
  MayFail = FALSE
  MayDie = FALSE
  ShortCooldown = FALSE
SPECIFICATION FairSpec
PROPERTIES EveryRecordSearched
