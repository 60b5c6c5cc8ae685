SPECIFICATION Spec
CONSTANTS
    Sizes = {3}
    Block = 2
    Room = 2
    AckModulo = 4
    MaxOffers = 2
    MaxCancels = 2
    MaxFaults = 2
CHECK_DEADLOCK FALSE
PROPERTIES EndedStaysEnded
