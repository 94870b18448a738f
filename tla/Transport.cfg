SPECIFICATION Spec
CONSTANTS
  Thread = {t1, t2}
  slow = slow
  fast = fast
  Group <- TwoGroups
  Interval <- TwoRates
  MaxRetries = 1
  MaxHops = 1
  BackoffBase = 1
  BackoffCap = 1
  RetryAfter = {3}
  NoGroup = NoGroup
  NoTime = NoTime
  MaxRequest = 2
  MaxTime = 6
CHECK_DEADLOCK FALSE
INVARIANTS TypeOK SlotsApart SentInBudget RateHolds PauseKept
SYMMETRY Symmetry
