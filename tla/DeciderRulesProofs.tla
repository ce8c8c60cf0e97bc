------------------------- MODULE DeciderRulesProofs -------------------------
(***************************************************************************)
(* What the decider's rules preserve and bound, for any hysteresis and any *)
(* default limit.  The proofs about PolicyLoop and TrafficAgent cite it.   *)
(***************************************************************************)
EXTENDS DeciderRules, TLAPS

\* The limit of a tier is the default, or one cut of it when the tier is throttled.
OneCut(s) == s.limit = IF s.throttled THEN Cut(DefaultLimit) ELSE DefaultLimit

\* An age counted as far as it matters stays within its cap.
LEMMA LaterBounds ==
    ASSUME NEW cap \in Nat, NEW n \in 0 .. cap, NEW d \in Nat
    PROVE  /\ Later(n, d, cap) \in 0 .. cap
           /\ Later(n, d, cap) <= n + d
           /\ Later(n, d, cap) < cap => Later(n, d, cap) = n + d
  BY DEF Later

\* A cut limit is a positive limit.
LEMMA CutType ==
    ASSUME NEW limit \in Nat
    PROVE  Cut(limit) \in Nat \ {0}
<1>1. limit * 7 >= 100 => (limit * 7) \div 10 \in Nat \ {0}
  OBVIOUS
<1> QED  BY <1>1 DEF Cut

\* The rules give a state of the tier.
LEMMA DecidedType ==
    ASSUME NEW s \in TierState, NEW level, NEW anomaly
    PROVE  Decided(s, level, anomaly) \in TierState
<1>1. Cut(s.limit) \in Nat
  BY CutType DEF TierState
<1>2. \A l \in Nat, b \in BOOLEAN : Decision(l, b) \in TierState
  BY RulesAssumption DEF Decision, TierState
<1> QED  BY <1>1, <1>2, RulesAssumption DEF Decided

\* A decision is made only when the last one is old enough, and its age is zero.
LEMMA DecidedFresh ==
    ASSUME NEW s \in TierState, NEW level, NEW anomaly, Decided(s, level, anomaly) # s
    PROVE  Settled(s) /\ Decided(s, level, anomaly).age = 0
  BY DEF Decided, Decision

\* Cuts do not add up: only a tier that is not throttled is cut.
LEMMA DecidedOneCut ==
    ASSUME NEW s \in TierState, NEW level, NEW anomaly, OneCut(s)
    PROVE  OneCut(Decided(s, level, anomaly))
<1>1. CASE Settled(s) /\ Spike(s, level, anomaly)
  <2>1. s.limit = DefaultLimit
    BY <1>1 DEF Spike, OneCut
  <2> QED  BY <1>1, <2>1 DEF Decided, Decision, OneCut
<1>2. CASE ~(Settled(s) /\ Spike(s, level, anomaly))
  BY <1>2 DEF Decided, Decision, OneCut
<1> QED  BY <1>1, <1>2

\* Who gets throttled was due: past the hysteresis, and above a threshold.
LEMMA DecidedCuts ==
    ASSUME NEW s \in TierState, NEW level, NEW anomaly,
           ~s.throttled, Decided(s, level, anomaly).throttled
    PROVE  Settled(s) /\ level \in {"warm", "high"}
  BY DEF Decided, Decision, Spike, Recovered

\* Past the hysteresis, a forecast above 80 % of capacity leaves the tier throttled.
LEMMA DecidedHigh ==
    ASSUME NEW s \in TierState, NEW anomaly, Settled(s)
    PROVE  Decided(s, "high", anomaly).throttled
<1>1. CASE s.throttled
  BY <1>1 DEF Decided, Decision, Spike, Recovered
<1>2. CASE ~s.throttled
  BY <1>2 DEF Decided, Decision, Spike
<1> QED  BY <1>1, <1>2 DEF TierState
=============================================================================
