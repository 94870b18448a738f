SPECIFICATION Spec
CONSTANTS
  Report = {r1}
  Content = {c1, c2}
  Name = {n1}
  NoContent = NoContent
  NoName = NoName
  NoReport = NoReport
  MaxAttempt = 2
  MaxCrash = 0
  MaxFault = 1
  MaxTamper = 0
SYMMETRY Symmetry
CHECK_DEADLOCK FALSE
INVARIANTS ArchivedStaysServed
