CONSTANTS
    i1 = i1
    i2 = i2
    w1 = w1
    w2 = w2
    w3 = w3
    Instances <- MCOneInstance
    Workers <- MCWorkers
    Home <- MCHomeOne
    Limit = 2
    Window = 2
    ScriptWindowArg = 0
    RedisConfigured = FALSE
    MaxTime = 4
    MaxRequests = 5
SPECIFICATION Spec
INVARIANT RealWindowBound
CHECK_DEADLOCK FALSE
