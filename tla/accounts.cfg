SPECIFICATION Spec
CONSTANTS
    User = {u1, u2}
    Username = {a, b}
    Email = {x, y}
    n1 = n1
    x = x
    Name = {n1, a, b}
    NoName = NoName
    Bio = {NoBio, b1}
    Password = {p}
    NoBio = NoBio
    Request = {r1, r2}
    Idle = Idle
    Rounds = 2
    NewAccount <- AllAccounts
    Mixes <- MCMixes
    MaxEvents = 4
SYMMETRY Symmetry
INVARIANTS
    TypeOK
    IdentityTakenOnce
    OncePerSubject
    NewestCodeValidated
    KeysFollowDeletion
    UpdatesChange
    OneLiveCode
    DecisionsHold
PROPERTY ImplementsAccountLifecycle
