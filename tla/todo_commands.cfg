SPECIFICATION Spec
CONSTANTS
    User = {u1, u2}
    Todo = {t1, t2}
    Title = {n1, n2}
    Request = {r1, r2}
    NoTitle = NoTitle
    NoCommand = NoCommand
    NoUser = NoUser
    MaxEvents = 4
SYMMETRY Symmetry
INVARIANTS
    TypeOK
    OwnStream
    NothingAfterDelete
    TogglesAlternate
    RenameChangesTitle
    DecisionsHold
    LatestPerTypeSuffices
PROPERTY ImplementsLifecycle
