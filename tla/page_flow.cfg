SPECIFICATION FairPageSpec
CONSTANTS
  Session = {1, 2}
  MaxSockets = 1
  MaxFrames = 3
  MaxInputs = 2
  MaxConfirms = 3
  Base = 4
  IdBytes = 2
  LenBytes = 1
  TerminalOutput = 2
  Maintenance = 1
  ConfirmFrame = 3
  SampleBlocks <- MCBlocks
  MaxBlocks = 3
  SampleBytes = {0, 1, 2}
  MaxText = 8
  Wire <- MCWire
INVARIANTS
  
  RequestsAccounted
  AnswersMeant
  WireExact
PROPERTIES
  LocksReleased
CHECK_DEADLOCK FALSE
