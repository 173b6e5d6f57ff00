---------------------------- MODULE QualityScore ----------------------------
(***************************************************************************)
(* The quality scorer of internal/infrastructure/telemetry/quality_score.go *)
(* as pure operators over exact rationals (module ExactRatio).  Every       *)
(* float64 of the code is a rational here; the counts are integers.         *)
(*                                                                          *)
(* An input of Calculate is a record with the fields of QualityScoreInput;  *)
(* Availability and the latencies are rationals.  A score is a record with  *)
(* the five pillars of QualityScore.                                        *)
(***************************************************************************)
EXTENDS Integers, ExactRatio

Pillars == {"Security", "DataIntegrity", "Reliability", "Auditability", "Performance"}

\* The constants of the package: 0.70, 200.0, 500.0, 0.1 and 5.0.
ProductionGate    == Rat(70, 100)
SLOP95LatencyMS   == Int2Q(200)
SLOP99LatencyMS   == Int2Q(500)
SLOErrorRatePct   == Rat(1, 10)
ClientErrSpikePct == Int2Q(5)


clamp01(v) ==
    IF QLt(v, QZero) THEN QZero
    ELSE IF QLt(QOne, v) THEN QOne
    ELSE v

\* Mutant: the quotient is returned without clamp01.
ratioUnclamped(num, den) == IF den <= 0 THEN QOne ELSE Rat(num, den)

\* No data (den <= 0) counts as perfect.
ratio(num, den) == IF den <= 0 THEN QOne ELSE clamp01(Rat(num, den))

latencyScore(observedMS, targetMS) ==
    IF QLeq(targetMS, QZero) THEN QOne
    ELSE clamp01(QSub(QOne, QDiv(observedMS, targetMS)))

Calculate(in) ==
    [Security      |-> ratio(in.AuthChecksPassed, in.AuthChecksTotal),
     DataIntegrity |-> ratio(in.AuditEventsRecorded, in.AuditEventsExpected),
     Reliability   |-> clamp01(in.Availability),
     Auditability  |-> ratio(in.LogsWithCorrelID, in.TotalLogs),
     Performance   |-> latencyScore(in.ObservedP95LatencyMS, Int2Q(500))]


\* Weighted sum over the 0.95 of the weights (5% reserved).
Composite(q) ==
    LET raw == QAdd(QAdd(QAdd(QAdd(
                   QMul(q.Security, Rat(40, 100)), QMul(q.DataIntegrity, Rat(20, 100))),
                   QMul(q.Reliability, Rat(15, 100))), QMul(q.Auditability, Rat(15, 100))),
                   QMul(q.Performance, Rat(5, 100)))
    IN  QDiv(raw, Rat(95, 100))

PassesGate(q) == QLeq(ProductionGate, Composite(q))

\* Mutant: the thresholds are inclusive (>=).
EvaluateSLOInclusive(failed, clientErrors, total, p95MS, p99MS) ==
    LET errRatePct == IF total > 0 THEN QMul(Rat(failed, total), Int2Q(100)) ELSE QZero
        ceRatePct  == IF total > 0 THEN QMul(Rat(clientErrors, total), Int2Q(100)) ELSE QZero
    IN  [P95LatencyBreached |-> QLeq(SLOP95LatencyMS, p95MS),
         P99LatencyBreached |-> QLeq(SLOP99LatencyMS, p99MS),
         ErrorRateBreached  |-> QLeq(SLOErrorRatePct, errRatePct),
         ClientErrorSpike   |-> QLeq(ClientErrSpikePct, ceRatePct)]

\* A rate is 0 when there are no requests.
EvaluateSLO(failed, clientErrors, total, p95MS, p99MS) ==
    LET errRatePct == IF total > 0 THEN QMul(Rat(failed, total), Int2Q(100)) ELSE QZero
        ceRatePct  == IF total > 0 THEN QMul(Rat(clientErrors, total), Int2Q(100)) ELSE QZero
    IN  [P95LatencyBreached |-> QLt(SLOP95LatencyMS, p95MS),
         P99LatencyBreached |-> QLt(SLOP99LatencyMS, p99MS),
         ErrorRateBreached  |-> QLt(SLOErrorRatePct, errRatePct),
         ClientErrorSpike   |-> QLt(ClientErrSpikePct, ceRatePct)]

AnyBreach(a) ==
    a.P95LatencyBreached \/ a.P99LatencyBreached \/ a.ErrorRateBreached
        \/ a.ClientErrorSpike
=============================================================================
