\* Detail reading snapshots while requests record and a Reset runs.
CONSTANTS
    r1 = r1
    r2 = r2
    q1 = q1
    Recorders <- MCRecorders
    Readers <- MCReaders
    StatusCodes <- MCStatusCodes
    SLATarget <- MCSLATarget
    ResetCalled = TRUE
    MaxRecords = 3
SPECIFICATION Spec
INVARIANT TypeOK
INVARIANT ResetDamageBounded
INVARIANT DetailWithinUnit
\* The workload is bounded: once every request is recorded the service waits.
CHECK_DEADLOCK FALSE
