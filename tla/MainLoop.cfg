SPECIFICATION FairSpec

CONSTANTS
    TimerId = {11, 12}
    Kind <- Kinds
    Fd = {1, 2}
    Stdin = 1
    Skew = 3
    MaxSleep = 2
    Align = 2
    Jumps <- SomeJumps
    MaxJumps = 1
    MaxSlow = 1
    MaxOps = 1
    MaxHooks = 2
    Reopens = FALSE
    ReallocFails = FALSE

CHECK_DEADLOCK FALSE
INVARIANTS OnTime LoopSound
PROPERTIES Served
