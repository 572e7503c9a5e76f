SPECIFICATION FairSpec
CONSTANTS
  Conn = {c1, c2}
  Fragile = {c2}
  Talker = {c2}
  SendCap = 1
  MaxInputs = 1
  Caster = {"router", "graceful"}
  MaxCasts <- MCMaxCasts
INVARIANTS
  AnswersExact
  CastsAccounted
  PanicNeedsFailure
PROPERTY
  InputsAnswered
CHECK_DEADLOCK FALSE
