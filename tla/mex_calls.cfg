SPECIFICATION FairSpec
CONSTANTS
  s1 = s1
  s2 = s2
  c1 = c1
  c2 = c2
  Session <- MCSession
  Caller <- MCCaller
  Mode = {"sync", "async"}
  Link = {"ok", "stuck", "broken"}
  Source <- MCSource
  Targets <- OneOrder
  ReuseSlices = TRUE
  MaxCalls = 2
  MaxChanges = 2
INVARIANTS
  FIFO
  SameOrder
  Accounted
PROPERTY
  CallReturns
CHECK_DEADLOCK FALSE
