SPECIFICATION Spec
CONSTANTS
  Keys = {k1, k2, k3}
  Admins = {a1, a2}
  Grants <- MCGrants
  Limits = {1}
  Window = 2
  Crowd = 2
  None = None
SYMMETRY MCSymmetry
INVARIANTS
  TheLastWordCounts
  BurstsAreBounded
CHECK_DEADLOCK FALSE
