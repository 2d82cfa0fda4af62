---------------------------- MODULE MC_MainWindow ----------------------------
(* MainWindow for TLC. *)
EXTENDS MainWindow, TLC

CONSTANTS w1, w2, d0, d1, c0, c1, f1, f2

MCWorkers == {w1, w2}
MCDesigns == {d0, d1}
MCColours == {c0, c1}
MCOneFile == {f1}
MCTwoFiles == {f1, f2}

Symmetry == Permutations(MCWorkers)
=============================================================================
