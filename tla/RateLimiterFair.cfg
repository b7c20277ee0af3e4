SPECIFICATION FairSpec
CONSTANTS
  Requests = {r1, r2}
  Keys = {login, run}
  Limit = 2
  Window = 3
  MaxWindows = 1
  MaxDelay = 1
  Null = Null
INVARIANTS
  TypeOK
  BurstBounded
PROPERTIES
  NobodyStarves
