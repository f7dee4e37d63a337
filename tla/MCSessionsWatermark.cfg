SPECIFICATION Spec
CONSTANTS
  Users = {u1}
  h = h
  t1 = t1
  Orgs = {h}
  Tenants <- MCTenants
  HomeOrg <- MCHomeOrg
  TenantOf <- MCTenantOf
  PlatformRole <- MCPlatformRole
  Jti = {j1}
  Calls = {c1, c2}
  None = None
  AdminKinds = {"reset", "role"}
  TicksPerSecond = 2
  MaxAge = 6
  MaxTime = 5
  MaxEpoch = 1
  MaxBulk = 1
INVARIANTS
  WatermarkEndsEarlierLogins
SYMMETRY Symmetry
CHECK_DEADLOCK FALSE
