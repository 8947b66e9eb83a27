SPECIFICATION FairSpec
CONSTANTS
  c1 = c1
  c2 = c2
  Call <- MCCall
  Capacity = 1
  MaxTime = 2
  None = None
INVARIANTS
  CapacityIsPhysical
  JoinedIsQuiet
  ExpiredIsInterrupted
PROPERTIES
  RevokedCommitsNothing
  JoinReturns
CHECK_DEADLOCK FALSE
