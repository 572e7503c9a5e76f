SPECIFICATION FairHandoverSpec
CONSTANTS
  Conn = {c1}
  Peer = {p1}
  MaxSignals = 2
  MaxFaults = 0
PROPERTY
  TermShutsDown
CHECK_DEADLOCK FALSE
