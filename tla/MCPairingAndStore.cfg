SPECIFICATION BothSpec
CONSTANTS
    Chats = {c1, c2}
    NoChat = NoChat
    Codes = {k1, k2}
    NoCode = NoCode
    Slots = {s1, s2}
    NoSlot = NoSlot
    LiveSlots = {s1}
    Admins = {a1, a2}
    code_ttl_secs = 1
    CODE_GEN_ATTEMPTS = 2
    MaxIssues = 2
    MaxTime = 2
    MaxFaults = 1
    Processes = {p1, p2}
    MaxStarts = 2
SYMMETRY Symmetry
CHECK_DEADLOCK FALSE
INVARIANTS
    BoundByOwnLiveCode
    SingleUseUnlessContended
    SchemaIsTrue
