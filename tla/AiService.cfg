CONSTANTS
    Pod = {"p1", "p2"}
    Entry = {"j1", "j2", "j3"}
    TenantOf <- Tenant
    Amount <- Sums
    SpikeLimit = 1
    MaxInsights = 1
    Bundles <- TwoBundles
    Nearest = 2
    Query = {"q1"}
    Scene <- Scenes
    MaxJoins = 2
    MaxCrashes = 1
    MaxFailures = 1
    MaxFaults = 1
SPECIFICATION Spec
INVARIANT TotalIsDelivered
INVARIANT CorpusIsOnce
INVARIANT CorpusIsWhole
INVARIANT AnswerIsOwn
CHECK_DEADLOCK FALSE
