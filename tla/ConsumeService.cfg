SPECIFICATION Spec
CONSTANTS
    Last = 2
    Deleted = 1
    BatchSize = 2
    PullThreshold = 1
    MaxQueues = 2
    MaxFaults = 1
INVARIANTS
    TypeOK
    OffsetSafe
    EachCachedOnce
PROPERTIES
    TableKept
    EventuallyCommitted
CHECK_DEADLOCK FALSE
