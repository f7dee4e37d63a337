SPECIFICATION FairSpec
CONSTANTS
  Requests = {r1, r2}
  TTL = 2
  ProxyTimeout = 1
  LongTimeout = 3
  KnownTimeout = 1
  ConnectTimeout = 1
  MaxRead = 2
  Kinds <- MCKinds
  None = None
  r1 = r1
  r2 = r2
INVARIANTS
  OnlyShortPhonesGoUnchecked
PROPERTIES
  EntitlementsAreRecent
  EveryRequestIsAnswered
CHECK_DEADLOCK FALSE
