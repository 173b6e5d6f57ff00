\* The scorer and Detail called on every input of MCHealthDetail's sets.
CONSTANT SLATarget <- MCSLATarget
SPECIFICATION Spec
INVARIANT ConsumedWithinHundred
INVARIANT HealthyServiceReportsNoBreach
 
\* Each behaviour is one call of a pure operator, after which the caller stops.
CHECK_DEADLOCK FALSE
