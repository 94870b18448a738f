SPECIFICATION Spec
CONSTANTS
  Key = {k1, k2}
  NoRequest = NoRequest
  MaxPending = 2
  Report = {1, 2, 3}
  Content = {c1, c2}
  NoContent = NoContent
  Limit = 1
  MaxTry = 2
  MaxChange = 3
CHECK_DEADLOCK FALSE
INVARIANTS TypeOK PagesComplete FileIsCurrent WaitTells
SYMMETRY ContentSymmetry
