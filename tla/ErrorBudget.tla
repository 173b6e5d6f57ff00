---------------------------- MODULE ErrorBudget ----------------------------
(***************************************************************************)
(* The error budget tracker of                                             *)
(* internal/infrastructure/telemetry/error_budget.go: three atomic.Int64   *)
(* counters and the three operations on them.                              *)
(*                                                                         *)
(* Each atomic operation is one step, and nothing else is atomic:          *)
(*   Record   total.Add(1), then failed.Add(1) or clientErrors.Add(1);     *)
(*   Snapshot total.Load(), failed.Load(), clientErrors.Load(), then the   *)
(*            derived fields;                                              *)
(*   Reset    total.Store(0), failed.Store(0), clientErrors.Store(0).      *)
(* Record is called by the CorrelationID middleware after every request,   *)
(* Snapshot by the health Detail handler; Reset has no caller in the       *)
(* service and is called between tests.                                    *)
(***************************************************************************)
EXTENDS Integers, FiniteSets

CONSTANTS
    Recorders,      \* request goroutines calling Record
    Readers,        \* goroutines calling Snapshot or Reset
    StatusCodes,    \* response codes the requests end with
    ResetCalled,    \* whether any caller uses Reset
    MaxRecords      \* bound on the number of Record calls

ASSUME StatusCodes \subseteq 100..599 /\ ResetCalled \in BOOLEAN

VARIABLES
    total, failed, clientErrors,   \* the atomic counters
    rpc,            \* rpc[r]: step of Record in recorder r
    code,           \* code[r]: status code being recorded
    qpc,            \* qpc[q]: step of Snapshot or Reset in reader q
    seen,           \* seen[q]: the values Snapshot loaded (so far, or last)
    started,        \* number of Record calls started
    straddle        \* Records in flight when the last Reset stored total

vars == <<total, failed, clientErrors, rpc, code, qpc, seen, started, straddle>>

RecordSteps == {"idle", "class"}
ReaderSteps == {"idle", "loadFailed", "loadCE", "storeFailed", "storeCE"}

Loaded == [total : Nat, failed : Nat, ce : Nat]

TypeOK ==
    /\ {total, failed, clientErrors} \subseteq Nat
    /\ rpc \in [Recorders -> RecordSteps] /\ code \in [Recorders -> StatusCodes]
    /\ qpc \in [Readers -> ReaderSteps] /\ seen \in [Readers -> Loaded]
    /\ started \in 0..MaxRecords
    /\ straddle \in Nat

\* The switch of Record: which counter, after total, a status code adds to.
IsFailed(c) == c >= 500
IsClientError(c) == c >= 400 /\ ~IsFailed(c)

Init ==
    /\ total = 0 /\ failed = 0 /\ clientErrors = 0
    /\ rpc = [r \in Recorders |-> "idle"]
    /\ code \in [Recorders -> StatusCodes]
    /\ qpc = [q \in Readers |-> "idle"]
    /\ seen = [q \in Readers |-> [total |-> 0, failed |-> 0, ce |-> 0]]
    /\ started = 0
    /\ straddle = 0

-----------------------------------------------------------------------------
(* Record(statusCode).                                                     *)

RecordTotal(r, c) ==
    /\ rpc[r] = "idle"
    /\ started < MaxRecords
    /\ started' = started + 1
    /\ total' = total + 1
    /\ code' = [code EXCEPT ![r] = c]
    /\ rpc' = [rpc EXCEPT ![r] = "class"]
    /\ UNCHANGED <<failed, clientErrors, qpc, seen, straddle>>

RecordClass(r) ==
    LET c == code[r]
    IN  /\ rpc[r] = "class"
        /\ failed' = IF IsFailed(c) THEN failed + 1 ELSE failed
        /\ clientErrors' = IF IsClientError(c) THEN clientErrors + 1 ELSE clientErrors
        /\ rpc' = [rpc EXCEPT ![r] = "idle"]
        /\ UNCHANGED <<total, code, qpc, seen, started, straddle>>

-----------------------------------------------------------------------------
(* Snapshot(): three loads; the derived fields are a function of them.     *)

LoadTotal(q) ==
    /\ qpc[q] = "idle"
    /\ seen' = [seen EXCEPT ![q].total = total]
    /\ qpc' = [qpc EXCEPT ![q] = "loadFailed"]
    /\ UNCHANGED <<total, failed, clientErrors, rpc, code, started, straddle>>

LoadFailed(q) ==
    /\ qpc[q] = "loadFailed"
    /\ seen' = [seen EXCEPT ![q].failed = failed]
    /\ qpc' = [qpc EXCEPT ![q] = "loadCE"]
    /\ UNCHANGED <<total, failed, clientErrors, rpc, code, started, straddle>>

LoadClientErrors(q) ==
    /\ qpc[q] = "loadCE"
    /\ seen' = [seen EXCEPT ![q].ce = clientErrors]
    /\ qpc' = [qpc EXCEPT ![q] = "idle"]
    /\ UNCHANGED <<total, failed, clientErrors, rpc, code, started, straddle>>

-----------------------------------------------------------------------------
(* Reset(): three stores.                                                  *)

\* Mutant: Reset drains total by the value the reader last loaded.
StoreTotalSubtracts(q) ==
    /\ ResetCalled
    /\ qpc[q] = "idle"
    /\ total' = total - seen[q].total
    /\ straddle' = Cardinality({r \in Recorders : rpc[r] = "class"})
    /\ qpc' = [qpc EXCEPT ![q] = "storeFailed"]
    /\ UNCHANGED <<failed, clientErrors, rpc, code, seen, started>>

StoreTotal(q) ==
    /\ ResetCalled
    /\ qpc[q] = "idle"
    /\ total' = 0
    /\ straddle' = Cardinality({r \in Recorders : rpc[r] = "class"})
    /\ qpc' = [qpc EXCEPT ![q] = "storeFailed"]
    /\ UNCHANGED <<failed, clientErrors, rpc, code, seen, started>>

\* Mutant: Reset forgets the failed counter.
StoreFailedForgotten(q) ==
    /\ qpc[q] = "storeFailed"
    /\ qpc' = [qpc EXCEPT ![q] = "storeCE"]
    /\ UNCHANGED <<total, failed, clientErrors, rpc, code, seen, started, straddle>>

StoreFailed(q) ==
    /\ qpc[q] = "storeFailed"
    /\ failed' = 0
    /\ qpc' = [qpc EXCEPT ![q] = "storeCE"]
    /\ UNCHANGED <<total, clientErrors, rpc, code, seen, started, straddle>>

StoreClientErrors(q) ==
    /\ qpc[q] = "storeCE"
    /\ clientErrors' = 0
    /\ qpc' = [qpc EXCEPT ![q] = "idle"]
    /\ UNCHANGED <<total, failed, rpc, code, seen, started, straddle>>

Next ==
    \/ \E r \in Recorders, c \in StatusCodes : RecordTotal(r, c)
    \/ \E r \in Recorders : RecordClass(r)
    \/ \E q \in Readers :
          \/ LoadTotal(q) \/ LoadFailed(q) \/ LoadClientErrors(q)
          \/ StoreTotal(q) \/ StoreFailed(q) \/ StoreClientErrors(q)

Spec == Init /\ [][Next]_vars

-----------------------------------------------------------------------------
Quiescent == \A r \in Recorders : rpc[r] = "idle"

(***************************************************************************)
(* What a Reset racing the request path can do is bounded: once no Reset   *)
(* and no Record is half done, failed + clientErrors exceeds total by at   *)
(* most the number of Record calls that had added to total, but not yet   *)
(* to failed or clientErrors, when Reset stored total = 0.                 *)
(***************************************************************************)
ResetDamageBounded ==
    (Quiescent /\ \A q \in Readers : qpc[q] \notin {"storeFailed", "storeCE"})
        => failed + clientErrors <= total + straddle
=============================================================================
