---------------------------- MODULE MCPolicyLoop ----------------------------
(* Constants for the model-checking runs of PolicyLoop.                     *)
EXTENDS PolicyLoop, TLC

CONSTANTS us, eu

\* Regions are interchangeable: the order in which a tick visits them is left open.
Symmetry == Permutations(Regions)
=============================================================================
