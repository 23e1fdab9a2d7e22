------------------------------ MODULE MCAgent ------------------------------
(* AgentExtraction on small sets for TLC: batches, files and results are    *)
(* interchangeable, so runs of safety properties may use their symmetry.    *)
EXTENDS AgentExtraction, TLC

Symmetric == Permutations(Batches) \cup Permutations(Files) \cup Permutations(Results)
=============================================================================
