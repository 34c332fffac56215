SPECIFICATION Spec
CONSTANTS
    c1 = c1
    c2 = c2
    g1 = g1
    g2 = g2
    Chats = {c1}
    NoChat = NoChat
    Gates = {g1, g2}
    NoGate = NoGate
    GateOf <- BothFirst
    SubagentGates = {}
    Decisions = {once, reject}
    NoDecision = NoDecision
    MaxTurns = 1
    MaxLost = 1
    MaxFaults = 0
    MaxCrashes = 0
CHECK_DEADLOCK FALSE
INVARIANTS
    SurvivesALostReply
