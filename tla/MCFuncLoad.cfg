CONSTANTS
    NULL = NULL
    Goroutines = {g1, g2}
    Threads = {t1, t2}
    Targets <- MCTargets
    Bodies <- MCBodies
    IE_SCAN_MAX = 6
    IE_STR_MAX = 3
    SBI_BODY_MAX = 20
    InflightMax = 1
    RingSize = 1
    Preemptive = TRUE
    MaxCalls = 3
    MaxOther = 1
    MaxFailures = 1
CONSTRAINT MCBound
SPECIFICATION FairSpec
INVARIANTS
    AuthzExactUnlessOrphaned
    EachReportHasItsRequest
    IesExact
PROPERTIES
    DeadAmfNoticed
    StopEnds
CHECK_DEADLOCK FALSE
