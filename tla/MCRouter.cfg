CONSTANTS
  Clients = {c1, c2}
  Names = {n1}
  GameIds = {i1, i2}
  Slots = {s1, s2}
  None = None
  ACCESS_EXPIRY = 1
  REFRESH_EXPIRY = 2
  Leeway = 0
  MaxTime = 4
SPECIFICATION FairSpec
INVARIANTS
  TypeOK
  ToldIsKept
  SessionsEnd
PROPERTIES
  RegistrySpec
  RequestsEnd
CHECK_DEADLOCK FALSE
