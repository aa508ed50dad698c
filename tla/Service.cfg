SPECIFICATION Spec
CONSTANTS
    Workers = {w1}
    Requests = {1, 2}
    QueueDepth = 1
    ListenBacklog = 1
    LogCapacity = 1
    RotateAt = 1
    MaxArchives = 1
    KillThreshold = 2
    MaxFaults = 2
INVARIANTS
    TypeOK
PROPERTIES
    NotifiedRowKept
    
CHECK_DEADLOCK FALSE
