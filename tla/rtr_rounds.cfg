SPECIFICATION FairRouterSpec
CONSTANTS
  s1 = s1
  s2 = s2
  Session <- MCSession
  RingSize = 3
  MaxBuffers <- OneReplaced
PROPERTIES
  HighFlagged
  LowUnflagged
  HealthyPolled
CHECK_DEADLOCK FALSE
