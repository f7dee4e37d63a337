SPECIFICATION Spec
CONSTANTS
  Users = {u1}
  h = h
  t1 = t1
  Orgs = {h}
  Tenants <- MCTenants
  HomeOrg <- MCHomeOrg
  TenantOf <- MCTenantOf
  PlatformRole <- MCPlatformRole
  Jti = {j1, j2}
  Calls = {c1, c2}
  None = None
  AdminKinds = {"delete", "deactivate", "unmap"}
  TicksPerSecond = 2
  MaxAge = 2
  MaxTime = 3
  MaxEpoch = 1
  MaxBulk = 1
INVARIANTS
  RevocationIsExact
PROPERTIES
  ImplementsTokenRegistry
  ReplacementSurvivesItsOwnRevocation
SYMMETRY Symmetry
CHECK_DEADLOCK FALSE
