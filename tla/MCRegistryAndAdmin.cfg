SPECIFICATION MCSpec
CONSTANTS
    n1 = n1
    u1 = u1
    u2 = u2
    c1 = c1
    a1 = a1
    a2 = a2
    k1 = k1
    k2 = k2
    Names = {n1, n2}
    NoName = NoName
    Urls = {u1, u2}
    NoUrl = NoUrl
    Chats = {c1, c2}
    NoChat = NoChat
    Admins = {a1, a2}
    Declared <- MCDeclared
    MaxTables = 2
    MaxConnects = 2
    MaxFlips = 1
    MaxCrashes = 1
    Daemons = {d1, d2}
    Nobody = Nobody
    Commands = {k1, k2}
    Overlap = FALSE
    Http = TRUE
    MaxFaults = 1
CHECK_DEADLOCK FALSE
INVARIANTS
    FileIsTheTruth
    OutcomeIsTrue
    SocketIsServed
PROPERTIES
    InstanceIsFixed
    OwnersAreServed
    CommandIsSettled
