SPECIFICATION SystemSpec
CONSTANTS
    User = {u1}
    Todo = {t1}
    Title = {n1, n2}
    Request = {r1}
    NoTitle = NoTitle
    NoCommand = NoCommand
    MaxEvents = 4
    Worker = {w1, w2}
    NoWorker = NoWorker
    NoRow = NoRow
    OnlineReset = FALSE
    MaxResets = 1
SYMMETRY Symmetry
INVARIANTS
    SystemTypeOK
    ListIsOneMoment
PROPERTY ClearDeletesOnceCompleted
