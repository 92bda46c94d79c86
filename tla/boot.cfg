CONSTANTS
  Starts = {0,1,4,5,6,8,9,13,14,15,20,21}
  Items = {1, 2}
  Kinds = {"missing", "upgrade"}
  Absent = "none"
  MaxKills = 2
  MaxUses = 1
  Resets = {1, 2}
  MaxKeys = 3
  MaxExits = 2
  MaxReqs = 1
SPECIFICATION BootSpec
CHECK_DEADLOCK FALSE
INVARIANTS CooldownsKept LoopsFollowReset RowsReadable
PROPERTIES AtomicUpgrade ComesUp ComesBack
