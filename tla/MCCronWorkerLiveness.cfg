SPECIFICATION FairSpec
CONSTANTS
  a = a
  b = b
  Name <- OneName
  Occ <- TwoOccurrences
  Delays <- ShortDelay
  MaxTime = 2
  Horizons <- AnyHorizon
  Poll = 2
  Timeout = 1
  Grace = 0
  Stops <- HandleOnly
  Cooperative = FALSE
  SkipMissed = TRUE
  MaxChanges = 2
  MaxFailures = 1
  MaxRestarts = 0
  MaxGeneration = 2
  Unlimited = Unlimited
  None = None
  NoRow = NoRow
PROPERTIES
  DueIsHandled
  ChangeIsNoticed
  StopCompletes
