---------------------------- MODULE TrafficAgent ----------------------------
(***************************************************************************)
(* The agent's loop from the metrics to the decision, for the free tier of *)
(* one region: extract, predict, decide, sleep.  Regions and tiers do not  *)
(* interact.  Nothing the agent reads changes during a tick but whether    *)
(* Prometheus answers, so that a tick is one step; what becomes of the     *)
(* decision in Redis and in the gateways is PolicyLoop's matter.           *)
(***************************************************************************)
EXTENDS Telemetry, Forecast

CONSTANT TickLengths \* from one tick to the next, 10 s of sleep included

ASSUME TickAssumption == TickLengths \subseteq Nat \ {0}

VARIABLES
    decider, \* the _TierState of the free tier
    asleep,  \* the tick is done
    settled  \* history: the last tick was past the hysteresis

vars == <<telemetryVars, forecastVars, decider, asleep, settled>>

Init ==
    /\ TelemetryInit
    /\ ForecastInit
    /\ decider = Fresh
    /\ asleep = FALSE
    /\ settled = FALSE

\* extract, update, decide (rules 1 and 2).
Tick ==
    /\ ~asleep
    /\ \E first \in Answers : Extract(first)
    /\ \E fits \in BOOLEAN, level \in Levels, anomaly \in BOOLEAN :
          /\ Update(features'.rps, fits, level, anomaly)
          /\ decider' = Decided(decider, level, anomaly)
    /\ settled' = Settled(decider)
    /\ asleep' = TRUE

Sleep ==
    /\ asleep
    /\ \E d \in TickLengths :
          /\ TelemetryElapse(d)
          /\ decider' = [decider EXCEPT !.age = Later(@, d, Hysteresis)]
    /\ asleep' = FALSE
    /\ UNCHANGED <<forecastVars, settled>>

Next == Tick \/ Sleep

\* The loop goes on: asyncio.sleep returns, queries end.
Fairness == WF_vars(Next)

Spec == Init /\ [][Next]_vars

FairSpec == Spec /\ Fairness

-----------------------------------------------------------------------------
\* Every component stays in its domain.
TypeOK ==
    /\ TelemetryTypeOK
    /\ ForecastTypeOK
    /\ decider \in TierState
    /\ asleep \in BOOLEAN
    /\ settled \in BOOLEAN

\* failure-modes.md, Prometheus unreachable: what the agent works on is never older than
\* the 120 s for which cached features serve, and synthetic figures that were taken for
\* live do not outlive them; nor does the agent fall back to zeros while the cache is good.
Freshness ==
    asleep => /\ features.from = "real" => cacheAge < Stale
              /\ features.from = "synthetic" => connected /\ sinceLive < Recent + Stale
              /\ features.from = "static" => ~connected \/ cacheAge = Stale \/ cache = NoFeatures

\* Silence is no spike: a tick whose rate is 0, really or for want of an answer, does not cut
\* a limit of its own, although the detector may well flag the fall to 0 and the threshold is
\* then 60 % in place of 80 % (feature_extractor.py: zeros "avoid over-throttling when we
\* have no data at all").  What it may cut was due by the average of the tick before, and
\* withheld by the hysteresis.  Said of two ticks in a row that the EWMA serves.
SilenceIsNoSpike ==
    [][(/\ Tick /\ features'.rps = 0
        /\ served.by = "ewma" /\ served'.by = "ewma"
        /\ ~decider.throttled /\ decider'.throttled)
          => ~settled /\ served.level = "high"]_vars

\* A throttle does not outlive its cause: once Prometheus really reports silence for good,
\* it is lifted for good, unless Holt-Winters goes on to forecast anything but calm.
ThrottleLifted ==
    <>[](asleep => /\ features = [rps |-> 0, from |-> "real"]
                   /\ served.by = "holt-winters" => served.level = "calm")
        => <>[]~decider.throttled

\* failure-modes.md: while Prometheus is unreachable the agent works on "stale-but-real"
\* data.  Here: in a tick without an answer, after there have been answers.
StaleButReal == (asleep /\ connected /\ sinceLive > 0) => features.from # "synthetic"
=============================================================================
