--------------------------- MODULE MCOverrideCache ---------------------------
(* Constants for the model-checking runs of OverrideCache.                  *)
EXTENDS OverrideCache

CONSTANTS c1, c2, c3
=============================================================================
