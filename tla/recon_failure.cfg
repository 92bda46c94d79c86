CONSTANTS
  Items = {1, 2, 3}
  Parent <- SeriesOf
  Season <- SeasonNo
  Apps = {"sonarr", "radarr", "lidarr", "whisparr_v2", "whisparr_v3"}
  Settings <- Switches
  PageSize = 1
  MaxRows = 1
  MaxEvents = 1
SPECIFICATION Spec
CHECK_DEADLOCK FALSE
PROPERTIES FailureKeepsRows
