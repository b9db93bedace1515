SPECIFICATION FairSystemSpec
CONSTANTS
    User = {u1}
    Username = {a}
    Email = {x}
    n1 = n1
    p1 = p1
    Name = {n1, a}
    NoName = NoName
    Bio = {NoBio, b1}
    Password = {p1, p2}
    NoBio = NoBio
    Request = {r1, deletion}
    Idle = Idle
    Rounds = 2
    NewAccount <- OneAccount
    Mixes <- MCMixes
    MaxEvents = 5
    DeletionWorker = deletion
    Handler <- AllHandlers
    Null = Null
    MaxResets = 1
CHECK_DEADLOCK FALSE
INVARIANTS
    AccountSystemTypeOK
    TablesShowLog
    SignInEndsWithDeletion
PROPERTY DeletionCompletes
