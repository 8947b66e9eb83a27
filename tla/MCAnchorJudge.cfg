CONSTANTS
    Invocation <- MCInvocation
    Response <- MCResponse
    Threshold = 60
    Cap = 10
    Floor = 2
    MaxCode = 2
    MaxAttempts = 3
SPECIFICATION JudgeSpec
INVARIANTS
    RequestsAreSound
    PassIsEarned
PROPERTIES
    JudgeEnds
CHECK_DEADLOCK FALSE
