CONSTANTS
    MaxEnv = 3
    MaxFaults = 0
    MaxRuns = 1
SPECIFICATION Spec
INVARIANT DetachesOnlyOwn
CHECK_DEADLOCK FALSE
