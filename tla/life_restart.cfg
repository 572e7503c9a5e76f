SPECIFICATION FairHandoverSpec
CONSTANTS
  Conn = {c1, c2}
  Peer = {p1, p2}
  MaxSignals = 3
  MaxFaults = 1
INVARIANTS
  HandedComplete
  OneListener
PROPERTIES
  UpdateOffered
  FirstServed
CHECK_DEADLOCK FALSE
