SPECIFICATION Spec
CONSTANTS
    Event <- MCEvent
    HandlerQuery <- MCQuery
    Worker = {w1, w2}
    NoWorker = NoWorker
    GivesUp = TRUE
    OnlineReset = TRUE
    MaxEvents = 3
    MaxResets = 1
INVARIANT NoEventSkipped
