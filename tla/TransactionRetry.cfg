CONSTANTS
    t1 = t1
    t2 = t2
    m1 = m1
    m2 = m2
    Unset = Unset
    Task <- OneTask
    Kind = {"update"}
    HasData = {TRUE}
    Model <- OneModel
    Key = {}
    Value = {}
    CanFail = TRUE
    CanCancel = FALSE
    Patterns = TRUE
    MaxOps = 3
    MaxSavepoints = 1
    MaxEffects = 2
SPECIFICATION Spec
INVARIANT RolledBackMeansUndone
CHECK_DEADLOCK FALSE
