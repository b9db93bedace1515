SPECIFICATION Spec
CONSTANTS
    Stream = {s1, s2}
    NoList = NoList
    Nobody = Nobody
    Buffer = 1
    MaxCommits = 1
    MaxOpens = 3
CHECK_DEADLOCK FALSE
INVARIANTS
    TypeOK
    NoCommitMissed
PROPERTIES
    PagesAgree
    PageBecomesCurrent
