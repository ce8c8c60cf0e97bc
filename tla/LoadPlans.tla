----------------------------- MODULE LoadPlans -----------------------------
(***************************************************************************)
(* What the commands and scenarios of the traffic simulator consist of:    *)
(* sequences of load phases, each one a run of the request loop, and of    *)
(* docker commands.  A phase is known by its length, by how many requests  *)
(* it has under way at most and by the regions it picks targets from; the  *)
(* rate is left to LoadRunner, where arrivals are arbitrary, and the mix   *)
(* of users is not followed.                                               *)
(***************************************************************************)
EXTENDS Integers, Sequences

CONSTANTS Regions, \* REGIONS
          Normal,  \* the default concurrency of the request loop, 50
          Peak     \* its concurrency in a spike, 200

ASSUME PlansAssumption == Normal \in Nat \ {0} /\ Peak \in Nat \ {0}

Load(length, concurrency, targets) ==
    [kind |-> "load", length |-> length, concurrency |-> concurrency, targets |-> targets]

Diurnal(length, targets) == [Load(length, Normal, targets) EXCEPT !.kind = "diurnal"]

Docker(command, region) == [kind |-> command, region |-> region]

\* What the steps of a scenario may be.
Phases == [kind : {"load", "diurnal"}, length : Int, concurrency : Nat \ {0}, targets : SUBSET Regions]
Commands == [kind : {"stop", "start"}, region : Regions]

AtLeast0(n) == IF n > 0 THEN n ELSE 0

Lesser(m, n) == IF m < n THEN m ELSE n

-----------------------------------------------------------------------------
\* steady and noisy: one phase, at a steady or at a diurnal rate.
Steady(duration, targets) == <<Load(duration, Normal, targets)>>

SteadyDiurnal(duration, targets) == <<Diurnal(duration, targets)>>

Burst(at, spike, duration) == Lesser(spike, AtLeast0(duration - at))

\* spike: base, burst and, when time remains, base again.  The first phase takes its full
\* length even when that is longer than the whole run.
Spike(at, spike, duration, region) ==
    LET remaining == duration - at - Burst(at, spike, duration)
    IN  <<Load(at, Normal, {region}), Load(Burst(at, spike, duration), Peak, {region})>>
        \o (IF remaining > 0 THEN <<Load(remaining, Normal, {region})>> ELSE <<>>)

\* product_launch: warm-up, spike, cool-down.
ProductLaunch(warmup, spike, cooldown, region) ==
    <<Load(warmup, Normal, {region}), Load(spike, Peak, {region}), Load(cooldown, Normal, {region})>>

FaultyFailover(at, duration, killed) ==
    <<Load(at, Normal, Regions), Docker("stop", killed),
      Load(duration - at, Normal, Regions), Docker("start", killed)>>

\* region_failover: all regions; then, with the gateway of one stopped, the others.
Failover(at, duration, killed) ==
    <<Load(at, Normal, Regions), Docker("stop", killed),
      Load(duration - at, Normal, Regions \ {killed}), Docker("start", killed)>>
=============================================================================
