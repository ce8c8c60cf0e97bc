---------------------------- MODULE MCLocalLimiter ----------------------------
(* Constants for the model-checking runs of LocalLimiter.                   *)
EXTENDS LocalLimiter

\* A token bucket, a tighter one that an empty burst closes, and two sliding windows.
MCPolicies == {[algorithm |-> "token_bucket",   limit |-> 2, burst |-> 2],
               [algorithm |-> "token_bucket",   limit |-> 1, burst |-> 0],
               [algorithm |-> "sliding_window", limit |-> 2, burst |-> 2],
               [algorithm |-> "sliding_window", limit |-> 1, burst |-> 2]}
=============================================================================
