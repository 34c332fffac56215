SPECIFICATION MCSpec
CONSTANTS
    Ids = {f1, f2}
    Takers = {t1, t2}
    NoTaker = NoTaker
    max_file_bytes = 2
    COPY_CHUNK = 2
    ttl = 1
    MaxSource = 3
    MaxTime = 2
    alice = alice
    bob = bob
    home = home
    work = work
    Nobody = Nobody
    NoSlot = NoSlot
    Calls = {k1}
    MAX_ATTEMPTS = 3
    MaxClock = 2
    ToolStarts = 2
    report = report
    minutes = minutes
    dot = dot
    Chats <- MCChats
    Slots <- MCSlots
    Owner <- MCOwner
    Files <- MCNames
    Hidden <- MCHidden
    MaxVersions <- MCMaxVersions
    MaxChunks <- MCMaxChunks
    Debounce = 2
    MaxPause = 1
    Endless = FALSE
    MaxStarts = 1
    MaxFails = 1
    NoFile = NoFile
CHECK_DEADLOCK FALSE
INVARIANTS
    ServedOnceAndWhole
    ToldIsTrue
    SoleOwnerReceives
    WrittenOnceIsSentWhole
PROPERTIES
    UnfetchedIsReclaimed
    LandedIsUploaded
