SPECIFICATION Spec
CONSTANTS
  Report = {r1}
  Content = {c1, c2}
  Name = {n1}
  NoContent = NoContent
  NoName = NoName
  NoReport = NoReport
  MaxAttempt = 3
  MaxCrash = 1
  MaxFault = 1
  MaxTamper = 0
CHECK_DEADLOCK FALSE
PROPERTIES CommitsInOrder
