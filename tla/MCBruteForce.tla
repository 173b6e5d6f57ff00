--------------------------- MODULE MCBruteForce ---------------------------
(* Instantiates BruteForce for TLC.                                        *)
EXTENDS BruteForce, TLC

CONSTANTS i1, i2, w1, w2, w3, a1, a2

MCOneInstance == {i1}
MCTwoInstances == {i1, i2}
MCWorkers == {w1, w2}
MCHomeOne == [w \in MCWorkers |-> i1]
MCHomeTwo == (w1 :> i1) @@ (w2 :> i2)
MCIds == {a1}
=============================================================================
