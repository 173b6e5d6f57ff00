-------------------------------- MODULE MCAuth --------------------------------
(***************************************************************************)
(* The user endpoints behind their middleware: two handlers, two e-mail   *)
(* addresses, two user ids, registrations of admins and of viewers, and   *)
(* two logins or refreshes.  An access token lives one tick, a refresh    *)
(* token two: within MaxTime both expire, and a refresh token outlives    *)
(* the access token of its pair.                                           *)
(***************************************************************************)
EXTENDS Auth

CONSTANTS w1, w2, e1, e2, n1

MCWorkers == {w1, w2}
MCEmails  == {e1, e2}
MCNames   == {n1}
MCRoles   == {"admin"}

\* Handlers are interchangeable, and so are e-mail addresses.
Symmetry == Permutations(MCWorkers) \cup Permutations(MCEmails)
=============================================================================
