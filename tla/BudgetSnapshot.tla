--------------------------- MODULE BudgetSnapshot ---------------------------
(***************************************************************************)
(* The derived fields of ErrorBudgetTracker.Snapshot                        *)
(* (internal/infrastructure/telemetry/error_budget.go): what Snapshot      *)
(* returns for the three values it loaded, as exact rationals.              *)
(***************************************************************************)
EXTENDS Integers, ExactRatio

CONSTANT SLATarget   \* the slaTarget of NewErrorBudgetTracker, a rational

Hundred == Int2Q(100)

\* Mutant: the consumed budget is not capped at 100.
SnapshotOfUncapped(total, failed, ce) ==
    IF total = 0
    THEN [SLATarget |-> SLATarget, TotalRequests |-> 0, FailedRequests |-> 0,
          ClientErrors |-> 0, ObservedAvailability |-> QOne,
          BudgetConsumedPct |-> QZero, BudgetExhausted |-> FALSE]
    ELSE LET availability == Rat(total - failed, total)
             allowedRate  == QSub(QOne, SLATarget)
             consumed ==
                 IF QLt(QZero, allowedRate)
                    THEN QRoundTo(QMul(QDiv(Rat(failed, total), allowedRate), Hundred), 1000)
                    ELSE IF failed > 0 THEN Hundred ELSE QZero
         IN  [SLATarget |-> SLATarget, TotalRequests |-> total,
              FailedRequests |-> failed, ClientErrors |-> ce,
              ObservedAvailability |-> QRoundTo(availability, 1000000),
              BudgetConsumedPct |-> consumed,
              BudgetExhausted |-> QLeq(Hundred, consumed)]

SnapshotOf(total, failed, ce) ==
    IF total = 0
    THEN [SLATarget |-> SLATarget, TotalRequests |-> 0, FailedRequests |-> 0,
          ClientErrors |-> 0, ObservedAvailability |-> QOne,
          BudgetConsumedPct |-> QZero, BudgetExhausted |-> FALSE]
    ELSE LET availability == Rat(total - failed, total)
             allowedRate  == QSub(QOne, SLATarget)
             raw == QMul(QDiv(Rat(failed, total), allowedRate), Hundred)
             consumed ==
                 IF QLt(QZero, allowedRate)
                    THEN IF QLt(Hundred, QRoundTo(raw, 1000)) THEN Hundred
                                                             ELSE QRoundTo(raw, 1000)
                    ELSE IF failed > 0 THEN Hundred ELSE QZero
         IN  [SLATarget |-> SLATarget, TotalRequests |-> total,
              FailedRequests |-> failed, ClientErrors |-> ce,
              ObservedAvailability |-> QRoundTo(availability, 1000000),
              BudgetConsumedPct |-> consumed,
              BudgetExhausted |-> QLeq(Hundred, consumed)]
=============================================================================
