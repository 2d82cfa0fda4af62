---------------------------- MODULE MC_EngineSweep ----------------------------
(* EngineSweep for TLC: one port, given once or twice, that needs a layer,   *)
(* so that two processes write the same receipt and the same entries.        *)
EXTENDS EngineSweep

CONSTANTS p1, p2, d1, d2, a1, l1, s1

MCProcs == {p1, p2}
MCDesigns == {d1, d2}
MCLayers == {l1}
MCStamps == {s1}
OnePort == {a1}
MCNeed == [a \in Ports |-> {l1}]
OneList == {<<a1>>}
MCLists == {<<a1>>, <<a1, a1>>}
=============================================================================
