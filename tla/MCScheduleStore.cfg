SPECIFICATION Spec
CONSTANTS
  a = a
  b = b
  c = c
  w1 = w1
  w2 = w2
  Name <- MCName
  Exclusive <- MCExclusive
  Writer <- MCWriter
  Limit <- MCLimit
  Time <- MCTime
  MaxGeneration = 2
  Unlimited = Unlimited
  None = None
  NoRow = NoRow
INVARIANTS
  TypeOK
  OutcomeOfGeneration
  RowLimit
  AtMostOneEnabled
PROPERTY LifecycleSpec
