SPECIFICATION FairSpec
CONSTANTS
  s1 = s1
  s2 = s2
  b1 = b1
  Statement <- MCStatement
  Body <- MCBody
  Capacity = 2
  None = None
INVARIANTS
  JoinedIsDrained
PROPERTIES
  WriteQueueSpec
  AcceptedIsAnswered
CHECK_DEADLOCK FALSE
