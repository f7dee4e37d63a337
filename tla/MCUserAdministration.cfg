SPECIFICATION Spec
CONSTANTS
  Users = {u1, u2}
  Orgs = {o1, o2}
  Roles = {sales, other}
  Types = {leadType}
  Shares = {0, 1}
  Full = 1
  LeadRoles = {sales}
  Calls = {c1, c2}
  None = None
  Unsaid = Unsaid
  o1 = o1
  o2 = o2
  sales = sales
  other = other
  leadType = leadType
  Rank <- MCRank
  DeptOf <- MCDeptOf
  Actors <- MCActors
  Updates <- MCUpdates
  Creations <- MCCreations
  Grants <- MCGrants
  MaxRequests = 4
SYMMETRY Symmetry
INVARIANTS
  AccessLossEndsSessions
  LeadsAreHandedOverBeforeTheMove
PROPERTIES
  EditsKeepAMembership
CHECK_DEADLOCK FALSE
