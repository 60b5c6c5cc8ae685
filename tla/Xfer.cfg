SPECIFICATION FairSpec
CONSTANTS
    Sizes = {0, 3, 5}
    Block = 2
    Room = 3
    AckModulo = 4
    MaxOffers = 2
    MaxCancels = 1
    MaxFaults = 2
CHECK_DEADLOCK FALSE
INVARIANTS TransferSound EndsAgree
PROPERTIES ImplementsTransfer TransfersEnd
