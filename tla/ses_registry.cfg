SPECIFICATION FairSpec
CONSTANTS
  Session = {s1}
  Client = {c1, c2, c3}
  TTL = 3
  MaxPause = 2
  NoSession = none
INVARIANTS
  TypeOK
  OneOwner
PROPERTIES
  OnlyOverdueReaped
  AbandonedReaped
