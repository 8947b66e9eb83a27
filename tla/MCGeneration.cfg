SPECIFICATION Spec
CONSTANTS
    d1 = d1
    d2 = d2
    person = person
    project = project
    old = old
    current = current
    missing = missing
    Driver <- MCDriver
    Person = person
    Caller <- MCCaller
    Dest <- MCDest
    Version <- MCVersion
    Minimum = current
    PathVersion = missing
    OverrideVersion = current
    Missing = missing
    Arguments <- MCArguments
    Retries <- MCRetries
    MaxKills = 1
    MaxRemovals = 1
    MaxCalls = 1
    MaxElsewhere = 1
SYMMETRY Symmetric
INVARIANTS
    OwnDestination
    FinishedIsWhole
    EndsClean
CHECK_DEADLOCK FALSE
