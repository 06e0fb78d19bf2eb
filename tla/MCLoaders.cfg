CONSTANTS
    NFs = {"smf", "pcf", "udm", "ausf", "nef", "nrf"}
    RingSize = 1
    MaxInstances = 2
    MaxReuses = 2
    MaxFailures = 2
SPECIFICATION FairSpec
CONSTRAINT MCBound
INVARIANTS
    EventsOfTheFound
    FailureStaysInItsGroup
    ZeroMeansTraced
    CleanupComplete
PROPERTY StopEnds
CHECK_DEADLOCK FALSE
