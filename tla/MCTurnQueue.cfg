SPECIFICATION FairSpec
CONSTANTS
    Chats = {c1, c2}
    Workers = {w1, w2, w3}
    NoWorker = NoWorker
    USER_QUEUE_DEPTH = 2
    MaxArrivals = 4
    MaxPanics = 1
CHECK_DEADLOCK FALSE
PROPERTIES
    ImplementsSerialService
    ShutdownReturns
    AcceptedIsServed
