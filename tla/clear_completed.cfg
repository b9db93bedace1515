SPECIFICATION SystemSpec
CONSTANTS
    User = {u1}
    Todo = {t1}
    Title = {n1}
    Request = {r1, r2}
    NoTitle = NoTitle
    NoCommand = NoCommand
    MaxEvents = 4
    Worker = {w1}
    NoWorker = NoWorker
    NoRow = NoRow
    OnlineReset = FALSE
    MaxResets = 0
SYMMETRY Symmetry
PROPERTY ClearDeletesOnlyCompleted
