CONSTANTS
    t1 = t1
    t2 = t2
    k1 = k1
    k2 = k2
    Free = Free
    Task <- OneTask
    Key <- OneKey
    Ttl = {0, 1}
    MaxSize = 1
    DefaultTtl = 2
    MaxTime = 3
    RetryAttempts = 2
    Threshold = 2
    CanCancel = FALSE
    MaxFailures = 4
SPECIFICATION FairSpec
PROPERTY SuccessCloses
CHECK_DEADLOCK FALSE
