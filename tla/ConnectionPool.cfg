CONSTANTS
    u1 = u1
    u2 = u2
    User <- TwoUsers
    PoolSize = 1
    MaxConnections = 2
    MaxCreated = 3
    MaxFailures = 3
    FailureThreshold = 2
    SuccessThreshold = 2
SPECIFICATION BoundedSpec
INVARIANTS
    TypeOK
    Exclusive
    TrackedWithinMax
    NoDeadEntries
    Accounted
    BreakerAgrees
PROPERTIES
    HandedOutOpen
    PoolRefills
CHECK_DEADLOCK FALSE
