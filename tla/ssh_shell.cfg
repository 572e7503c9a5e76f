SPECIFICATION FairSpec
CONSTANTS
  Host = {h1}
  Caller = {c1, c2}
  Owner = c1
  MaxClients = 2
  Output <- MCOutput
  MaxWrites = 2
  MaxProbes = 1
INVARIANTS
  OrphanNeedsRace
  ClosedEntryLeaves
  ChannelsAccounted
  VerdictJustified
PROPERTY
  ProbeReturns
CHECK_DEADLOCK FALSE
