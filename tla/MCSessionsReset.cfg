SPECIFICATION Spec
CONSTANTS
  Users = {u1}
  h = h
  t1 = t1
  Orgs = {h}
  Tenants <- MCTenants
  HomeOrg <- MCHomeOrg
  TenantOf <- MCTenantOf
  PlatformRole <- MCPlatformRole
  Jti = {j1, j2}
  Calls = {c1, c2}
  None = None
  AdminKinds = {"reset"}
  TicksPerSecond = 2
  MaxAge = 4
  MaxTime = 3
  MaxEpoch = 1
  MaxBulk = 1
INVARIANTS
  ResetEndsExistingSessions
SYMMETRY Symmetry
CHECK_DEADLOCK FALSE
