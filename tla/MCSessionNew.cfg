SPECIFICATION Spec
CONSTANTS
    Chats = {c1}
    Slots = {s1}
    HasAskRules = TRUE
    QueueDepth = 1
    MaxMessages = 3
    MaxSessions = 3
    MaxFaults = 0
    MaxCommands = 2
CHECK_DEADLOCK FALSE
INVARIANTS
    NewIsFinal
