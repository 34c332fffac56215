SPECIFICATION BothSpec
CONSTANTS
    Parts = {p1, p2}
    MaxDeltas = 2
    Blank <- LineBreaks
    Calls = {k1, k2}
    NoCall = NoCall
    bash = bash
    Tools = {bash}
    Tool <- OneTool
    Sessions = {root, s1, s2, s3}
    Root = root
    NoParent = NoParent
    Unknown = Unknown
    NotSeen = NotSeen
    Foreign = Foreign
    MAX_PARENT_DEPTH = 2
    MaxFailures = 1
SYMMETRY Alike
CHECK_DEADLOCK FALSE
INVARIANTS
    ReasoningStaysHidden
    AnswerIsWhatCame
    NarrationIsOnce
    MemoIsTrue
    NearIsSurfaced
