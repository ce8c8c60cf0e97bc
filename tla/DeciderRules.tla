---------------------------- MODULE DeciderRules ----------------------------
(***************************************************************************)
(* The decider's rules 1 and 2 for the free tier of a region: when a       *)
(* forecast cuts the limit and when it restores it.  PolicyLoop applies    *)
(* them to arbitrary forecasts and follows what is written; TrafficAgent   *)
(* applies them to the forecasts the agent derives from its telemetry.     *)
(* Both count the age of a decision in a time unit of their own.           *)
(***************************************************************************)
EXTENDS Naturals

CONSTANTS Hysteresis,   \* HYSTERESIS_SECONDS, in the module's time unit
          DefaultLimit  \* DEFAULT_LIMITS["free"]

ASSUME RulesAssumption == Hysteresis \in Nat \ {0} /\ DefaultLimit \in Nat \ {0}

\* A forecast below 50 %, 60 % or 80 % of capacity, or above.
Levels == {"calm", "mid", "warm", "high"}

TierState == [limit : Nat, age : 0 .. Hysteresis, throttled : BOOLEAN]

Fresh == [limit |-> DefaultLimit, age |-> 0, throttled |-> FALSE]

\* A throttle cuts the limit by 30 %, to no less than 10.
Cut(limit) == IF limit * 7 < 100 THEN 10 ELSE (limit * 7) \div 10

FaultySpike(s, level, anomaly) == level = "high" \/ (anomaly /\ level = "warm")

\* Too much is predicted for a tier that is not throttled yet.
Spike(s, level, anomaly) == ~s.throttled /\ (level = "high" \/ (anomaly /\ level = "warm"))

Recovered(s, level) == s.throttled /\ level = "calm"

FaultySettled(s) == s.age + 1 >= Hysteresis

\* The last decision is old enough: age > HYSTERESIS_SECONDS.
Settled(s) == s.age >= Hysteresis

FaultyDecision(limit, throttled) == [limit |-> limit, age |-> 0, throttled |-> TRUE]

Decision(limit, throttled) == [limit |-> limit, age |-> 0, throttled |-> throttled]

\* The state of the tier after the rules: another one when a rule applies.
Decided(s, level, anomaly) ==
    IF Settled(s) /\ Spike(s, level, anomaly) THEN Decision(Cut(s.limit), TRUE)
    ELSE IF Settled(s) /\ Recovered(s, level) THEN Decision(DefaultLimit, FALSE)
    ELSE s

\* Ages are counted as far as they matter.
Older(n, cap) == IF n < cap THEN n + 1 ELSE n

Later(n, d, cap) == IF n + d < cap THEN n + d ELSE cap
=============================================================================
