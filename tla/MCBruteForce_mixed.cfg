\* One instance, with or without a Redis client (chosen at startup), and two
\* concurrent logins of one account.
CONSTANTS
    i1 = i1
    i2 = i2
    w1 = w1
    w2 = w2
    w3 = w3
    a1 = a1
    a2 = a2
    Instances <- MCOneInstance
    Workers <- MCWorkers
    Home <- MCHomeOne
    Ids <- MCIds
    MaxAttempts = 3
    LockTTL = 2
    RedisConfigured = TRUE
    MaxTime = 3
    MaxLogins = 6
SPECIFICATION Spec
INVARIANT TypeOK
INVARIANT LockJustified
INVARIANT ThresholdExact
INVARIANT LockStopsGuesses
INVARIANT StoreCountResets
INVARIANT StoreLockStopsGuesses
PROPERTY MemGuardRefinesSpec
\* The workload is bounded: once every login is answered the server waits.
CHECK_DEADLOCK FALSE
