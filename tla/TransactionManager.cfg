CONSTANTS
    t1 = t1
    t2 = t2
    Nobody = Nobody
    Task <- TwoTasks
    AutoCommit = {TRUE, FALSE}
    CanFail = TRUE
    CanCancel = TRUE
    MaxTx = 3
    MaxOps = 1
SPECIFICATION Spec
INVARIANTS
    CurrentIsInnermost
    ChildrenFirst
    CountersAgree
    NoneLeftActive
    OutcomeHolds
    ActiveIsOpen
PROPERTY
    RollbackAllReaches
SYMMETRY TaskSymmetry
