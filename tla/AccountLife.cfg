SPECIFICATION FairSpec
CONSTANTS
    MaxFaults = 3
    MaxOutages = 2
    MaxRequests = 2
INVARIANTS
    TypeOK
    StateTellsBinding
PROPERTIES
    Reregisters
    RemovedUnregisters
    StopEnds
CHECK_DEADLOCK FALSE
