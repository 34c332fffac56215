SPECIFICATION BothSpec
CONSTANTS
    MaxView = 3
    MaxChunks = 2
    MaxAttempts = 2
    Unparsable = {2, 5}
    MaxLost = 2
    MaxRefused = 1
    Lines <- MCLines
    MaxLines = 5
    LogSizes = {0, 1, 4}
    TELEGRAM_LIMIT = 12
CHECK_DEADLOCK FALSE
INVARIANTS
    BelievedIsShown
    
    Lossless
    WholeLinesFit
PROPERTIES
    TurnIsFinished
