SPECIFICATION Spec
CONSTANTS
  Command = {"restart", "mkfs"}
  Handler = {p1, p2}
  Loader = {l1, l2}
  Document <- MCDocument
  MaxEdits = 3
  MaxCommands = 1
INVARIANTS
  RulesCurrent
  VerdictSteady
SYMMETRY MCSymmetry
CHECK_DEADLOCK FALSE
