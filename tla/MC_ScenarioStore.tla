--------------------------- MODULE MC_ScenarioStore ---------------------------
(* ScenarioStore for TLC: three scenarios, so that the file, its backup and  *)
(* the save that runs can all differ.                                        *)
EXTENDS ScenarioStore, TLC

CONSTANTS s1, s2, s3

MCScenarios == {s1, s2, s3}

Symmetry == Permutations(MCScenarios)
=============================================================================
