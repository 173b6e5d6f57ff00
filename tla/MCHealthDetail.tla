--------------------------- MODULE MCHealthDetail ---------------------------
(***************************************************************************)
(* A caller of the scorer and of the Detail handler.  Each step calls one  *)
(* of Calculate, EvaluateSLO or Detail with any input of small, partly     *)
(* malformed sets (negative counts, numerators above denominators,          *)
(* availability outside [0, 1], more failures than requests, which Snapshot *)
(* can load while requests complete) and keeps the call and its           *)
(* result; the variables of the other calls keep the Go zero values.  A   *)
(* behaviour is one call: the operators keep no state between calls.     *)
(* The boundary values of the SLO thresholds are among the inputs, and     *)
(* totals around 1000 requests, where a 0.1 % failure rate is one failure. *)
(***************************************************************************)
EXTENDS HealthDetail

MCSLATarget == Rat(999, 1000)     \* main.go: NewErrorBudgetTracker(0.999)

VARIABLES called, input, score, sloArgs, alert, snap, resp

vars == <<called, input, score, sloArgs, alert, snap, resp>>

Counts == -1..2

Inputs ==
    [AuthChecksPassed : Counts, AuthChecksTotal : Counts,
     AuditEventsRecorded : {2}, AuditEventsExpected : {0, 1},
     Availability : {Rat(-1, 2), Rat(999, 1000), QOne, Rat(3, 2)},
     LogsWithCorrelID : {1}, TotalLogs : {0, 2},
     ObservedP95LatencyMS : {Int2Q(-100), Int2Q(200), Int2Q(750)},
     ObservedP99LatencyMS : {SLOP99LatencyMS}]

SLOInputs ==
    [failed : 0..2, clientErrors : {0, 50, 51}, total : {0, 1, 1000},
     p95 : {Int2Q(200), Int2Q(201)}, p99 : {Int2Q(500), Int2Q(501)}]

\* The zero values of the Go types.
ZeroInput ==
    [AuthChecksPassed |-> 0, AuthChecksTotal |-> 0,
     AuditEventsRecorded |-> 0, AuditEventsExpected |-> 0,
     Availability |-> QZero, LogsWithCorrelID |-> 0, TotalLogs |-> 0,
     ObservedP95LatencyMS |-> QZero, ObservedP99LatencyMS |-> QZero]

ZeroScore == [p \in Pillars |-> QZero]

ZeroSLOArgs == [failed |-> 0, clientErrors |-> 0, total |-> 0, p95 |-> QZero, p99 |-> QZero]

ZeroAlert == [P95LatencyBreached |-> FALSE, P99LatencyBreached |-> FALSE,
              ErrorRateBreached |-> FALSE, ClientErrorSpike |-> FALSE]

Loads == [total : {0, 1, 2, 3, 4, 5, 1000}, failed : 0..3, ce : {0, 1, 2, 50, 51}]

ZeroSnap == SnapshotOf(0, 0, 0)

ZeroResp == DetailOf(ZeroSnap)

Init ==
    /\ called = "none"
    /\ input = ZeroInput /\ score = ZeroScore
    /\ sloArgs = ZeroSLOArgs /\ alert = ZeroAlert
    /\ snap = ZeroSnap /\ resp = ZeroResp

CallCalculate ==
    /\ called = "none"
    /\ \E in \in Inputs :
           /\ called' = "Calculate"
           /\ input' = in
           /\ score' = Calculate(in)
           /\ sloArgs' = ZeroSLOArgs /\ alert' = ZeroAlert
           /\ snap' = ZeroSnap /\ resp' = ZeroResp

CallEvaluateSLO ==
    /\ called = "none"
    /\ \E a \in SLOInputs :
           /\ called' = "EvaluateSLO"
           /\ sloArgs' = a
           /\ alert' = EvaluateSLO(a.failed, a.clientErrors, a.total, a.p95, a.p99)
           /\ input' = ZeroInput /\ score' = ZeroScore
           /\ snap' = ZeroSnap /\ resp' = ZeroResp

CallDetail ==
    /\ called = "none"
    /\ \E l \in Loads :
           /\ called' = "Detail"
           /\ snap' = SnapshotOf(l.total, l.failed, l.ce)
           /\ resp' = DetailOf(snap')
           /\ input' = ZeroInput /\ score' = ZeroScore
           /\ sloArgs' = ZeroSLOArgs /\ alert' = ZeroAlert

Next == CallCalculate \/ CallEvaluateSLO \/ CallDetail

Spec == Init /\ [][Next]_vars

(***************************************************************************)
(* Spec 4.3: the consumed budget Snapshot reports lies in [0, 100] (it is  *)
(* capped at 100 even when the snapshot loaded more failures than          *)
(* requests), and the budget is exhausted exactly when it reaches 100.      *)
(***************************************************************************)
ConsumedWithinHundred ==
    called = "Detail" =>
        /\ QLeq(QZero, resp.budget.BudgetConsumedPct)
        /\ QLeq(resp.budget.BudgetConsumedPct, Hundred)
        /\ resp.budget.BudgetExhausted <=> QEq(resp.budget.BudgetConsumedPct, Hundred)

(***************************************************************************)
(* A service with no failed and no rejected request is reported healthy by *)
(* Detail: it passes the production gate and raises no SLO alert, although *)
(* the handler feeds the latency thresholds themselves as observed values   *)
(* (spec 8: no failures and latencies not above threshold, no breach).      *)
(***************************************************************************)
HealthyServiceReportsNoBreach ==
    called = "Detail" /\ resp.budget.FailedRequests = 0 /\ resp.budget.ClientErrors = 0 =>
        resp.passesGate /\ ~resp.anyBreach
=============================================================================
