SPECIFICATION Spec
CONSTANTS
  Client = {a}
  Key = {k1}
  Request = {q1}
  Size <- TwoEach
  NoClient = NoClient
  NoKey = NoKey
  NoRequest = NoRequest
  NoTime = NoTime
  MaxPending = 1
  MaxAttempts = 2
  JobDeadline = 1
  SourceResult = {"ok", "partial", "empty", "failed"}
  MaxTime = 2
  MaxSubmit = 1
  MaxRead = 1
  MaxCrash = 2
  MaxFault = 1
CHECK_DEADLOCK FALSE
INVARIANTS StatusMatchesRows DocumentComplete QueuedIsClaimable RunningIsOwned
PROPERTIES DeadlineIsFixed
