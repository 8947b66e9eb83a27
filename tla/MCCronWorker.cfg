SPECIFICATION Spec
CONSTANTS
  a = a
  b = b
  Name <- OneName
  Occ <- TwoOccurrences
  Delays <- ShortDelay
  MaxTime = 2
  Horizons <- Whole
  Poll = 2
  Timeout = 1
  Grace = 1
  Stops <- BothStops
  Cooperative = TRUE
  SkipMissed = FALSE
  MaxChanges = 2
  MaxFailures = 1
  MaxRestarts = 1
  MaxGeneration = 2
  Unlimited = Unlimited
  None = None
  NoRow = NoRow
INVARIANTS
  ExhaustedStaysDown
PROPERTIES
  NoReplay
  EndedAfterLastRun
  RunIsCompleted
  UncertainAuthorizesNothing
