CONSTANTS
  Instances = {1}
  Polls = {1}
  Actions = {"searched", "error"}
  MaxEvents = 2
  MaxGathers = 2
  Sources <- TwoCycles
  Filters <- TwoFilters
  Limits = {1, 2}
  ChunkMax = 1
  NoCycle = "none"
  NoInst = 0
  MaxRows = 4
  MaxNow = 3
  Checks = {1, 2}
  MaxReleases = 2
  MaxDay = 2
  MaxEnds = 1
  Requests = {1, 2}
  Ids = {1, 2}
  Forms <- SampleForms
  Remotes <- SampleRemotes
  Hosts = {"arr"}
  BlockedHosts = {"localhost"}
  NoHost = ""
  Unchanged = 0
  LongLabels = {"long"}
  MaxTags = 2
  MaxRanges = 1
  MaxSubmits = 3
SPECIFICATION WebSpec
CHECK_DEADLOCK FALSE
INVARIANTS AnswersFresh CountsAgree NoGap EtagCertifies
PROPERTIES VerifiedPair
