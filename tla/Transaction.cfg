CONSTANTS
    t1 = t1
    t2 = t2
    m1 = m1
    m2 = m2
    Unset = Unset
    Task <- TwoTasks
    Kind = {"create", "delete"}
    HasData = {TRUE, FALSE}
    Model <- OneModel
    Key = {"k"}
    Value = {"v"}
    CanFail = TRUE
    CanCancel = TRUE
    Patterns = TRUE
    MaxOps = 2
    MaxSavepoints = 2
    MaxEffects = 2
SPECIFICATION BoundedSpec
INVARIANTS
    TypeOK
    ReverseOrder
    StatusTruthful
    SavepointsWithinLog
    NothingLost
    NoDuplicateRecreation
    CommittedMeansInvalidated
PROPERTIES
    FinalStateStays
    ImplementsAtomic
SYMMETRY TaskSymmetry
CHECK_DEADLOCK FALSE
