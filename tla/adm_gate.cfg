SPECIFICATION FairSpec
CONSTANTS
  v4 = v4
  v6 = v6
  proxy = proxy
  Bracket = Bracket
  None = None
  Client <- MCClient
  V6 <- MCV6
  Request = {r1, r2, r3}
  Arrival <- MCArrival
  Window = 2
  Max = 2
  FDLimit = 4
  MaxTime = 2
INVARIANTS
  TypeOK
  WindowBound
PROPERTIES
  RefusedOnlyWhenFull
  BreakerFollows
CHECK_DEADLOCK FALSE
