CONSTANTS
    NULL = NULL
    Pids <- MCPids
    Callers = {1, 2}
    Cgroups = {g1, g2, g3, host}
    Resolvable = {g1, g2, g3}
    SeenMax = 1
    MapMax = 2
    RingSize = 1
    RingWrap = 1
    IovMax = 2
    Iovs <- MCIovs
    ScratchMax = 1
    MaxChanges = 2
    MaxCalls = 2
SYMMETRY MCSymmetry
SPECIFICATION Spec
CONSTRAINT MCBound
INVARIANTS
    SeedCountExact
    TrackedIsNf
    StableIsTraced
    ShownIsOwn
CHECK_DEADLOCK FALSE
