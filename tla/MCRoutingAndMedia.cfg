SPECIFICATION BothSpec
CONSTANTS
    Chats = {c1, c2}
    Slots = {s1, s2}
    HasAskRules = TRUE
    QueueDepth = 1
    MaxMessages = 2
    MaxSessions = 3
    MaxFaults = 1
    MaxCommands = 2
    Texts = {t1, t2}
    Media = {f1, f2}
    USER_QUEUE_DEPTH = 1
    ttl = 1
    MaxTime = 2
CHECK_DEADLOCK FALSE
INVARIANTS
    SessionsAreNotShared
    EveryPromptIsGated
    FailsOnlyWhenStruck
    NewIsFinalUnlessRaced
    TurnsInSendingOrder
    RefusedForCause
PROPERTIES
    StopIsContained
