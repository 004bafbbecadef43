CONSTANTS
    t1 = t1
    t2 = t2
    k1 = k1
    k2 = k2
    Free = Free
    Task <- TwoTasks
    Key <- TwoKeys
    Ttl = {0, 1}
    MaxSize = 1
    DefaultTtl = 2
    MaxTime = 3
    RetryAttempts = 2
    Threshold = 2
    CanCancel = TRUE
    MaxFailures = 4
SPECIFICATION FairSpec
INVARIANTS
    BreakerAgrees
    SingleConnection
    FallbackCorrect
PROPERTY
    CallsEnd
CHECK_DEADLOCK FALSE
