SPECIFICATION Spec
CONSTANTS
  Source = {1, 2, 3, 4}
  Worlds <- AllWorlds
  LastN = 2
  Preference <- Languages2
  MaxFetch = 2
  MaxFault = 1
CHECK_DEADLOCK FALSE
INVARIANTS TypeOK OkMeansNewest PreviewAgrees ResultAgrees
PROPERTIES WarmKeeps PeriodsStay
