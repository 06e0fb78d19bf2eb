CONSTANTS
    MaxEnv = 4
    MaxFaults = 2
    MaxRuns = 2
SPECIFICATION FairSpec
INVARIANTS
    NothingLeftBehind
PROPERTIES
    LeftoverStands
    SettlesOnTruth
    StopEnds
CHECK_DEADLOCK FALSE
