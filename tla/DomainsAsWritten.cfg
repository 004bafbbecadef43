CONSTANTS
    t1 = t1
    t2 = t2
    k1 = k1
    k2 = k2
    k3 = k3
    l1 = l1
    l2 = l2
    Task <- TwoTasks
    Policies <- SomePolicies
    PolicyTimeout = 1
    BaseDelay = 1
    MaxDelay = 2
    Window = 3
    MinSamples = 2
    RetryThreshold = 2
    RecoveryTimeout = 1
    MaxCounted = 3
    RetryHorizon = 2
    Operations <- SomeOperations
    Record = {"a", "b", "c", "d", "e"}
    MaxChunkSize = 2
    MaxConcurrency = 1
    Extents <- SomeExtents
    Relation = {"one", "none"}
    RelatedIds <- SomeIds
    MaxLoads = 2
    MaxRows = 2
    MaxPersisted = 2
    CachedKey <- ThreeKeys
    StrategySize = 1
    DefaultTtl = 1
    SweepInterval = 1
    MaxCacheCalls = 3
    CacheHorizon = 1
    FunctionKey = {"k"}
    PromiseLifetime = 1
    CircuitThreshold = 2
    CircuitTimeout = 1
    MaxRequests = 3
    CallHorizon = 1
    Login <- TwoLogins
    Field = {"f"}
    Sought <- SomeSought
    MaxBuilt = 4
    MaxFilters = 2
    MaxCreated = 2
    Server = {"s"}
    MaxAdded = 2
    MaxConnects = 2
    MaxLoops = 3
    Caller = {"c"}
    RateLimit = 2
    RateWindow = 2
    SessionTimeout = 1
    SecurityHorizon = 4
    Features = {"tools", "resources"}
    MaxSignals = 2
    ModelName = {"m"}
    Definition <- SomeFields
    MaxClasses = 3
    MaxChanges = 1
SPECIFICATION ComponentsSpec
INVARIANT
    DomainsAsWritten
CHECK_DEADLOCK FALSE
SYMMETRY TaskSymmetry
