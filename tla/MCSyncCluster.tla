--------------------------- MODULE MCSyncCluster ---------------------------
(* Constants for the model-checking runs of SyncCluster.                    *)
EXTENDS SyncCluster, TLC

CONSTANTS us, eu, u1, u2

\* Regions and users are interchangeable in the code and in the safety properties.
Symmetry == Permutations(Users)
=============================================================================
