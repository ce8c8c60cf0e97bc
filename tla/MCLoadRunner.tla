---------------------------- MODULE MCLoadRunner ----------------------------
(* Constants for the model-checking run of LoadRunner.                      *)
EXTENDS LoadRunner

CONSTANTS us, eu

MCPlans == {Steady(2, {us}), SteadyDiurnal(3, {us}), Spike(1, 1, 3, us), Spike(2, 1, 1, us),
            ProductLaunch(1, 1, 1, us), Failover(1, 2, us)}
=============================================================================
