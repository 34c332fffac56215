SPECIFICATION BothSpec
CONSTANTS
    c1 = c1
    c2 = c2
    g1 = g1
    g2 = g2
    Chats = {c1, c2}
    NoChat = NoChat
    Gates = {g1, g2}
    NoGate = NoGate
    GateOf <- OwnGates
    SubagentGates = {g2}
    Decisions = {once, reject}
    NoDecision = NoDecision
    MaxTurns = 1
    MaxDrops = 1
    MaxLost = 1
    MaxFaults = 1
    MaxCrashes = 1
    MaxEvents = 3
    MaxNoise = 1
CHECK_DEADLOCK FALSE
INVARIANTS
    DecisionIsTheOwners
    ShownIsAnswerable
    NoneIsSkipped
PROPERTIES
    ShownIsDecided
    WireIsRead
