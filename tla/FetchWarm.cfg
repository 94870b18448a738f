SPECIFICATION Spec
CONSTANTS
  Source = {1, 2, 3, 4}
  Worlds <- TwoVersions
  LastN = 2
  Preference <- Languages2
  MaxFetch = 2
  MaxFault = 0
CHECK_DEADLOCK FALSE
PROPERTIES ColdAndWarmAgree
