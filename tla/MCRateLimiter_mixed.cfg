\* Both backends: each instance keeps or drops its Redis client at startup.
CONSTANTS
    i1 = i1
    i2 = i2
    w1 = w1
    w2 = w2
    w3 = w3
    Instances <- MCInstances
    Workers <- MCWorkers
    Home <- MCHome
    Limit = 2
    Window = 2
    ScriptWindowArg = 0
    RedisConfigured = TRUE
    MaxTime = 3
    MaxRequests = 3
SPECIFICATION Spec
INVARIANT TypeOK
INVARIANT LiveWindowBound
INVARIANT NoFalseDenial
\* The workload is bounded: once every request is decided the server waits.
CHECK_DEADLOCK FALSE
