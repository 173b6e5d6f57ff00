--------------------------- MODULE MCRateLimiter ---------------------------
(* Instantiates RateLimiter for TLC: two instances, each with workers.     *)
EXTENDS RateLimiter, TLC

CONSTANTS i1, i2, w1, w2, w3

MCInstances == {i1, i2}
MCWorkers == {w1, w2, w3}
MCHome == (w1 :> i1) @@ (w2 :> i1) @@ (w3 :> i2)

\* The Redis-only question needs one instance with two concurrent workers.
MCOneInstance == {i1}
MCHomeOne == [w \in MCWorkers |-> i1]
=============================================================================
