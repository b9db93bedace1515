SPECIFICATION FairProjectionSpec
CONSTANTS
    User = {u1}
    Username = {a}
    Email = {x}
    n1 = n1
    p1 = p1
    Name = {n1, a}
    NoName = NoName
    Bio = {NoBio, b1}
    Password = {p1, p2}
    NoBio = NoBio
    Request = {r1, deletion}
    Idle = Idle
    Rounds = 2
    NewAccount <- OneAccount
    Mixes <- ReplayMixes
    MaxEvents = 5
    DeletionWorker = deletion
    Handler = {"auth_user_projection", "account_deletion"}
    Null = Null
    MaxResets = 1
CHECK_DEADLOCK FALSE
PROPERTY ReplayCatchesUp
