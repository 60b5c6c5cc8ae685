SPECIFICATION FairSpec

CONSTANTS
    AntiFlood <- Delays
    SendsIn = {"queue", "stop"}
    EmptiesIn = {}
    Drops = TRUE
    SendFails = TRUE
    Deletes = TRUE
    MaxMessages = 3
    MaxBacks = 1
    MaxConnects = 2
    MaxDepth = 2

CHECK_DEADLOCK FALSE
INVARIANTS MessagesKept RedirectsSound
PROPERTIES Throttled QueueDrains
