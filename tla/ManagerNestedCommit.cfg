CONSTANTS
    t1 = t1
    t2 = t2
    Nobody = Nobody
    Task <- OneTask
    AutoCommit = {TRUE}
    CanFail = FALSE
    CanCancel = FALSE
    MaxTx = 2
    MaxOps = 1
SPECIFICATION Spec
PROPERTY RollbackReachesNested
