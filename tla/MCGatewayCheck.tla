--------------------------- MODULE MCGatewayCheck ---------------------------
(* Constants for the model-checking runs of GatewayCheck.                   *)
EXTENDS GatewayCheck, TLC

CONSTANTS q1, q2

\* Requests in progress are interchangeable.
Symmetry == Permutations(Requests)
=============================================================================
