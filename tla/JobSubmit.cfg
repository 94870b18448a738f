SPECIFICATION FairSpec
CONSTANTS
  Client = {a, b}
  Key = {k1, k2}
  Request = {q1, q2}
  Size <- OneEach
  NoClient = NoClient
  NoKey = NoKey
  NoRequest = NoRequest
  NoTime = NoTime
  MaxPending = 1
  MaxAttempts = 2
  JobDeadline = 0
  SourceResult = {"ok"}
  MaxTime = 0
  MaxSubmit = 3
  MaxRead = 0
  MaxCrash = 1
  MaxFault = 1
CHECK_DEADLOCK FALSE
INVARIANTS TypeOK RepliesHold NoIntegrityError
PROPERTIES ImplementsJobBoard JobsEnd
