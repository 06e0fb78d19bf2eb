CONSTANTS
    NULL = NULL
    Threads = {t1, t2}
    CPUs = {c1, c2}
    Elems = {x1, x2}
    RingSize = 2
    Kinds = {"connect", "accept4"}
    MaxCalls = 3
    MaxOther = 1
SPECIFICATION FairSpec
INVARIANTS
    ShownIsOwnUnlessStolen
    ReportsExact
    NoDeadEntries
PROPERTY
    SentIsShown
CHECK_DEADLOCK FALSE
