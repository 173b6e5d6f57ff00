---------------------------- MODULE HealthDetail ----------------------------
(***************************************************************************)
(* The Detail handler of internal/api/v1/health.go: it takes a snapshot of *)
(* the error budget and derives from it the quality score and the SLO      *)
(* alert it reports.  DetailOf(s) is the response for snapshot s, without  *)
(* the timestamp and layout.  The handler has no live latency histogram:   *)
(* it passes the SLO thresholds themselves as the observed P95 and P99.    *)
(***************************************************************************)
EXTENDS Integers, BudgetSnapshot, QualityScore

DetailOf(s) ==
    LET total == s.TotalRequests
        score == Calculate(
                   [AuthChecksPassed |-> total - s.FailedRequests,
                    AuthChecksTotal |-> total,
                    AuditEventsRecorded |-> total, AuditEventsExpected |-> total,
                    Availability |-> s.ObservedAvailability,
                    LogsWithCorrelID |-> total, TotalLogs |-> total,
                    ObservedP95LatencyMS |-> SLOP95LatencyMS,
                    ObservedP99LatencyMS |-> SLOP99LatencyMS])
        alert == EvaluateSLO(s.FailedRequests, s.ClientErrors, total,
                             SLOP95LatencyMS, SLOP99LatencyMS)
    IN  [budget |-> s, alert |-> alert, anyBreach |-> AnyBreach(alert),
         score |-> score, composite |-> Composite(score),
         passesGate |-> PassesGate(score)]
=============================================================================
