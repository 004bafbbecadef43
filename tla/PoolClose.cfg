CONSTANTS
    u1 = u1
    u2 = u2
    User <- OneUser
    PoolSize = 2
    MaxConnections = 3
    MaxCreated = 4
    MaxFailures = 1
    FailureThreshold = 1
    SuccessThreshold = 1
SPECIFICATION Spec
INVARIANT CloseClosesAll
CHECK_DEADLOCK FALSE
