SPECIFICATION FairSpec
CONSTANTS
    report = report
    log = log
    Files <- MCNames
    Hidden = {}
    MaxVersions <- MCMaxVersions
    MaxChunks <- MCMaxChunks
    Debounce = 2
    MaxPause = 1
    Endless = TRUE
    MaxStarts = 1
    MaxFails = 1
    NoFile = NoFile
CHECK_DEADLOCK FALSE
PROPERTIES
    SettledIsDelivered
