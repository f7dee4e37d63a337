SPECIFICATION Spec
CONSTANTS
  Tenants = {t1}
  Calls = {c1, c2}
  None = None
  TTL = 2
  MaxLoad = 1
  MaxVersion = 2
INVARIANTS
  StalenessIsBounded
PROPERTIES
  EveryCheckEnds
  RevocationsTakeEffect
