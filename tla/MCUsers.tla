------------------------------- MODULE MCUsers -------------------------------
(***************************************************************************)
(* Two handlers, two e-mail addresses, one full name, two user ids, four  *)
(* requests, and registrations of admins and of viewers: enough for two   *)
(* creates of one address to race, for an update to race a delete, and    *)
(* for an update to move a user onto the address of another.              *)
(***************************************************************************)
EXTENDS Users

CONSTANTS w1, w2, e1, e2, n1

MCWorkers == {w1, w2}
MCEmails  == {e1, e2}
MCNames   == {n1}
\* A registration asks for admin or for no role (a viewer).
MCRoles   == {"admin"}

\* Handlers are interchangeable, and so are e-mail addresses.
Symmetry == Permutations(MCWorkers) \cup Permutations(MCEmails)
=============================================================================
