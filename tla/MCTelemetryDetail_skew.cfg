\* Detail reading snapshots while requests record; no Reset, as deployed.
CONSTANTS
    r1 = r1
    r2 = r2
    q1 = q1
    Recorders <- MCRecorders
    Readers <- MCReaders
    StatusCodes <- MCStatusCodes
    SLATarget <- MCSLATarget
    ResetCalled = FALSE
    MaxRecords = 3
SPECIFICATION Spec
INVARIANT SnapshotConsistent
\* The workload is bounded: once every request is recorded the service waits.
CHECK_DEADLOCK FALSE
