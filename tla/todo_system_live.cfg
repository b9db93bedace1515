SPECIFICATION FairSystemSpec
CONSTANTS
    User = {u1}
    Todo = {t1}
    Title = {n1}
    Request = {r1}
    NoTitle = NoTitle
    NoCommand = NoCommand
    MaxEvents = 3
    Worker = {w1, w2}
    NoWorker = NoWorker
    NoRow = NoRow
    OnlineReset = FALSE
    MaxResets = 1
PROPERTY ListBecomesCurrent
