SPECIFICATION Spec
CONSTANTS
  Market = {"CN", "HK", "US"}
  Histories <- SmallHistories
  FileCount = 2
  FileSize = 2
  PageSize = 2
  RowLimit = 2
  LastN = 3
  Budgets = {1, 3, 6}
  Lookback = 3
  MaxRows = 7
  MaxSession = 2
  MaxListing = 3
CHECK_DEADLOCK FALSE
INVARIANTS TypeOK BudgetKept CoverageHonest KeepsNewest SessionSeesNew
