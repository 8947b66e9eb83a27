CONSTANTS
    Statement <- MCStatement
    Verbatim <- MCVerbatim
    Warned <- MCWarned
    Alike <- MCAlike
    Item <- MCItem
    Command <- MCCommand
    Proc = {p1, p2}
    MaxCommands = 4
    MaxTime = 1
SPECIFICATION Spec
INVARIANTS
    ReadableIsValid
    SerialKeepsAcknowledged
    SerialVersionNamesText
    GatePassIsEarned
SYMMETRY Symmetric
CHECK_DEADLOCK FALSE
