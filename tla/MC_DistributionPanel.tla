------------------------- MODULE MC_DistributionPanel -------------------------
(* DistributionPanel for TLC: two designs, each with a table of its own.     *)
EXTENDS DistributionPanel

CONSTANTS w1, d1, d2, m1, m2, near, far, f

MCWorkers == {w1}
MCDesigns == {d1, d2}
MCMatrices == {m1, m2}
MCPresent == [d \in Designs |-> IF d = d1 THEN m1 ELSE m2]
MCOptions == {near, far}
MCFiles == {f}
=============================================================================
