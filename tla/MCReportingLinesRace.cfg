SPECIFICATION Spec
CONSTANTS
  Users = {u1, u2, u3}
  Orgs = {o1, o2}
  TenantWide = {u1}
  Calls = {c1, c2}
  Overlap = TRUE
  None = None
  Unsaid = Unsaid
INVARIANTS
  LinesFormTrees
SYMMETRY Symmetry
CHECK_DEADLOCK FALSE
