CONSTANTS
    NULL = NULL
    CPUs = {c1, c2}
    Sources = {s1, s2}
    UeElems = {u1, u2, u3, u4}
    RateElems = {e1, e2, e3}
    RATE_WINDOW_NS = 1
    RATE_MAX_PER_WIN = 2
    U64 = 64
    EdgesModelled = 2
    MaxTime = 2
    MaxRx = 4
    MaxAged = 1
    MaxPopulates = 2
SYMMETRY MCSymmetry
SPECIFICATION Spec
CONSTRAINT MCBound
INVARIANTS
    EveryPacketCounted
    UeStateFromTable
    QuietSourceNeverDropped
CHECK_DEADLOCK FALSE
