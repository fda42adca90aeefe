--------------------------- MODULE MCMeshTopology ---------------------------
(* Three agents are enough for a chain, a cycle of any length up to three,  *)
(* and a chain that leads into a cycle it is not part of.                   *)
EXTENDS MeshTopology, TLC

CONSTANTS a1, a2, a3

MCAgents == {a1, a2, a3}
MCSymmetry == Permutations(MCAgents)
=============================================================================
