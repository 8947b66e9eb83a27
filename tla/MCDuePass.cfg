SPECIFICATION Spec
CONSTANTS
  a = a
  m = m
  Name <- MCName
  Order <- MCOrder
  Monty <- MCMonty
  Occ <- MCOcc
  MaxTime = 2
  MaxCalls = 2
  MaxEvents = 2
  MaxGeneration = 2
  Unlimited = Unlimited
  None = None
  NoRow = NoRow
INVARIANTS
  SerialRunsOnce
  FeedIsAlone
PROPERTIES
  SerialEndsFinal
CHECK_DEADLOCK FALSE
