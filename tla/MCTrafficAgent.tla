--------------------------- MODULE MCTrafficAgent ---------------------------
(* Constants for the model-checking runs of TrafficAgent.                   *)
EXTENDS TrafficAgent
=============================================================================
