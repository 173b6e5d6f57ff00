--------------------------- MODULE TelemetryDetail ---------------------------
(***************************************************************************)
(* The error budget tracker and the Detail handler together: requests      *)
(* Record their status while a Detail request takes a Snapshot (its three  *)
(* loads are the reader steps of ErrorBudget) and derives its response     *)
(* from the values it loaded.  The behaviour is that of ErrorBudget; the   *)
(* response of a reader is a function of its last snapshot.                *)
(***************************************************************************)
EXTENDS ErrorBudget, HealthDetail

\* The Snapshot that reader q last returned (the zero snapshot before any).
LastSnapshot(q) == SnapshotOf(seen[q].total, seen[q].failed, seen[q].ce)

\* Reader q is not inside Snapshot or Reset.
Answered(q) == qpc[q] = "idle"

(***************************************************************************)
(* Every quality score Detail reports, on whatever snapshot the atomic     *)
(* loads of a busy service produce, has its pillars and its composite in   *)
(* [0, 1] (spec 4.4): a snapshot that loaded more failures than requests   *)
(* is clamped, not reported as a negative security or reliability score.   *)
(***************************************************************************)
DetailWithinUnit ==
    \A q \in Readers :
        Answered(q) =>
            LET r == DetailOf(LastSnapshot(q))
            IN  (\A p \in Pillars : InUnit(r.score[p])) /\ InUnit(r.composite)

(***************************************************************************)
(* Spec 3 and 5: total >= failed + clientErrors, and a snapshot is          *)
(* internally consistent, so every Snapshot returns at most as many failed  *)
(* and client-error responses as requests, and an availability in [0, 1].   *)
(***************************************************************************)
SnapshotConsistent ==
    \A q \in Readers :
        Answered(q) =>
            LET s == LastSnapshot(q)
            IN  /\ s.FailedRequests + s.ClientErrors <= s.TotalRequests
                /\ InUnit(s.ObservedAvailability)
=============================================================================
