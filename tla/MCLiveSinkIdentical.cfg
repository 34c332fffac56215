SPECIFICATION Spec
CONSTANTS
    MaxView = 2
    MaxChunks = 2
    MaxAttempts = 2
    Unparsable = {}
    MaxLost = 1
    MaxRefused = 0
CHECK_DEADLOCK FALSE
INVARIANTS
    NeverIdenticalEdit
