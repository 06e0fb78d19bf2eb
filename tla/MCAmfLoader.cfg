CONSTANTS
    NULL = NULL
    UprobeCnt = 3
    TpCnt = 2
    MaxRuns = 3
SPECIFICATION FairSpec
INVARIANTS
    NothingLeftAttached
    TracingIsComplete
    ExitStatusTruthful
PROPERTIES
    PublishedSpec
    StopEnds
CHECK_DEADLOCK FALSE
