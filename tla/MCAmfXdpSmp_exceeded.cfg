CONSTANTS
    NULL = NULL
    CPUs = {c1, c2}
    Sources = {s1}
    UeElems = {u1, u2, u3}
    RateElems = {e1, e2}
    RATE_WINDOW_NS = 1
    RATE_MAX_PER_WIN = 2
    U64 = 64
    EdgesModelled = 1
    MaxTime = 2
    MaxRx = 4
    MaxAged = 0
    MaxPopulates = 1
SYMMETRY MCSymmetry
SPECIFICATION Spec
INVARIANT
    DropMeansExceeded
CHECK_DEADLOCK FALSE
