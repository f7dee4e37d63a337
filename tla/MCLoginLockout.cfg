SPECIFICATION Spec
CONSTANTS
  Calls = {c1, c2, c3}
  None = None
  MaxFailed = 2
  Lockout = 2
  Window = 2
  MaxTime = 8
  MaxLog = 8
INVARIANTS
  RowFollowsTheLog
  GuessesAreBounded
SYMMETRY Symmetry
CHECK_DEADLOCK FALSE
