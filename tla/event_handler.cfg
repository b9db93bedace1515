SPECIFICATION FairSpec
CONSTANTS
    Event <- MCEvent
    HandlerQuery <- MCQuery
    Worker = {w1, w2}
    NoWorker = NoWorker
    GivesUp = TRUE
    OnlineReset = FALSE
    MaxEvents = 3
    MaxResets = 1
INVARIANTS
    TypeOK
    NoEventSkipped
PROPERTIES
    HandledInOrder
    CheckpointNeverRegresses
    CatchesUp
    ImplementsDelivery
