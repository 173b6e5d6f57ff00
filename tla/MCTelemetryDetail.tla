-------------------------- MODULE MCTelemetryDetail --------------------------
EXTENDS TelemetryDetail

CONSTANTS r1, r2, q1

MCRecorders == {r1, r2}
MCReaders   == {q1}

\* One status code of each class Record tells apart.
MCStatusCodes == {200, 429, 503}

MCSLATarget == Rat(999, 1000)     \* main.go: NewErrorBudgetTracker(0.999)
=============================================================================
