CONSTANTS
    i1 = i1
    i2 = i2
    w1 = w1
    w2 = w2
    w3 = w3
    Instances <- MCOneInstance
    Workers <- MCWorkers
    Home <- MCHomeOne
    Limit = 1
    Window = 2
    ScriptWindowArg = 0
    RedisConfigured = TRUE
    MaxTime = 2
    MaxRequests = 2
SPECIFICATION Spec
INVARIANT FallbackQuotaPerWindow
CHECK_DEADLOCK FALSE
