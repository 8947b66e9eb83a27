SPECIFICATION Spec
CONSTANTS
  a = a
  b = b
  Name <- OneName
  Occ <- TwoOccurrences
  Delays <- ShortDelay
  MaxTime = 3
  Horizons <- Whole
  Poll = 2
  Timeout = 1
  Grace = 1
  Stops <- HandleOnly
  Cooperative = FALSE
  SkipMissed = FALSE
  MaxChanges = 0
  MaxFailures = 1
  MaxRestarts = 0
  MaxGeneration = 2
  Unlimited = Unlimited
  None = None
  NoRow = NoRow
PROPERTY RebuiltSlotAdvanced
