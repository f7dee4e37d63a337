SPECIFICATION Spec
CONSTANTS
  Users = {u1, u2, u3}
  Orgs = {o1, o2}
  TenantWide = {u1}
  Calls = {c1}
  Overlap = FALSE
  None = None
  Unsaid = Unsaid
INVARIANTS
  LinesFormTrees
  LinesJoinMembers
  MirrorNamesACurrentManager
PROPERTIES
  ImplementsHierarchy
SYMMETRY Symmetry
CHECK_DEADLOCK FALSE
