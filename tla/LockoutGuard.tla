---------------------------- MODULE LockoutGuard ----------------------------
(***************************************************************************)
(* What the lockout guard promises (spec 4.2), for one guard state: each   *)
(* identifier has a failure counter and a lock expiry.  recordFailure      *)
(* counts a failure; the failure that brings the counter to MaxAttempts    *)
(* locks the identifier for LockTTL and sets the counter back to 0.  clear *)
(* removes both.  check only reads (the identifier is locked while now is  *)
(* before the expiry), so it is no step of this specification.  Each      *)
(* operation is one atomic step: concurrent calls serialize.               *)
(***************************************************************************)
EXTENDS Integers

CONSTANTS Ids, MaxAttempts, LockTTL

VARIABLES now, failures, lockedUntil

vars == <<now, failures, lockedUntil>>

NoLock == -1

Locked(id) == now < lockedUntil[id]

Init ==
    /\ now = 0
    /\ failures = [id \in Ids |-> 0]
    /\ lockedUntil = [id \in Ids |-> NoLock]

Tick ==
    /\ now' = now + 1
    /\ UNCHANGED <<failures, lockedUntil>>

RecordFailure(id) ==
    IF failures[id] + 1 >= MaxAttempts
    THEN /\ failures' = [failures EXCEPT ![id] = 0]
         /\ lockedUntil' = [lockedUntil EXCEPT ![id] = now + LockTTL]
         /\ UNCHANGED now
    ELSE /\ failures' = [failures EXCEPT ![id] = @ + 1]
         /\ UNCHANGED <<now, lockedUntil>>

Clear(id) ==
    /\ failures' = [failures EXCEPT ![id] = 0]
    /\ lockedUntil' = [lockedUntil EXCEPT ![id] = NoLock]
    /\ UNCHANGED now

Next == Tick \/ \E id \in Ids : RecordFailure(id) \/ Clear(id)

Spec == Init /\ [][Next]_vars
=============================================================================
