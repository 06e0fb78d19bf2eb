CONSTANTS
    NULL = NULL
    Sources = {s1, s2}
    Packets <- MCPackets
    RATE_WINDOW_NS = 2
    RATE_MAX_PER_WIN = 2
    U64 = 64
    EdgesModelled = 2
    MaxTime = 5
    MaxRx = 5
SYMMETRY MCSymmetry
SPECIFICATION Spec
INVARIANTS
    TypeOK
    WindowLimit
    TwoWindowBound
    OneAdvancePerEntry
PROPERTY DropJustified
CHECK_DEADLOCK FALSE
