--------------------------- MODULE MC_EngineAdapter ---------------------------
(* EngineAdapter for TLC: three rails with a port and one without.  In the   *)
(* scenario the decaps of a1 are moved off it, disabled, cut and of another  *)
(* model, and a decap was moved onto a3.                                     *)
EXTENDS EngineAdapter, TLC

CONSTANTS p1, p2, d1, d2, a1, a2, a3, b, x1, x2, x3, x4, x5, m1, m2

MCProcs == {p1, p2}
MCDesigns == {d1, d2}
MCPorts == {a1, a2, a3}
MCLayers == {}
MCNeed == [a \in Ports |-> {}]
MCRails == {a1, a2, a3, b}
MCRefdes == {x1, x2, x3, x4, x5}
MCModels == {m1, m2}
MCHome == [x \in {x1, x2, x3, x4} |-> a1] @@ x5 :> b
MCSpdModel == [x \in Refdes |-> m1]

MCEdited ==
  [Original EXCEPT ![x1].rail = b, ![x2].enabled = FALSE, ![x3].gap = TRUE,
                   ![x4].model = m2, ![x5].rail = a3]

MCScenarios == {[source |-> d1, decaps |-> MCEdited]}
=============================================================================
