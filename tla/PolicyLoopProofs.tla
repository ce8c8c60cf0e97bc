-------------------------- MODULE PolicyLoopProofs --------------------------
(***************************************************************************)
(* Proofs about the agent's control loop, for any regions, times, limits   *)
(* and faults.                                                             *)
(***************************************************************************)
EXTENDS PolicyLoop, DeciderRulesProofs, TLAPS

-----------------------------------------------------------------------------
(* Types.                                                                   *)

\* The hysteresis and the limits are those the rules assume.
LEMMA Times == /\ Hysteresis \in Nat \ {0} /\ DefaultLimit \in Nat \ {0}
               /\ PolicyTTL \in Nat /\ PolicyTTL > Hysteresis
               /\ OverrideTTL \in Nat /\ OverrideTTL > Hysteresis
               /\ StaticLimit \in Nat \ {0}
  BY RulesAssumption, TimesAssumption

LEMMA FreshType == Fresh \in TierState /\ OneCut(Fresh)
  BY RulesAssumption DEF Fresh, TierState, OneCut

LEMMA WrittenType ==
    ASSUME NEW s \in TierState
    PROVE  Written(s) \in Policy /\ Written(s).left = PolicyTTL /\ Written(s).limit = s.limit
  BY Times DEF Written, Policy, TierState

\* No live policy is mistaken for an absent one.
LEMMA NoKeyFields == NoKey.left = 0 /\ NoKey.limit = 0
  BY Zenon DEF NoKey

\* A key that ages keeps what it says, or goes.
LEMMA AgedType ==
    ASSUME NEW p \in Policy \union {NoKey}
    PROVE  /\ Aged(p) \in Policy \union {NoKey}
           /\ Aged(p) # NoKey => /\ p # NoKey
                                 /\ Aged(p).limit = p.limit
                                 /\ Aged(p).left = p.left - 1
<1>1. CASE p.left <= 1
  BY <1>1 DEF Aged
<1>2. CASE ~(p.left <= 1)
  <2>6. p # NoKey
    <3>1. p = NoKey => p.left = 0
      BY NoKeyFields
    <3> QED  BY <1>2, <3>1
  <2>1. p \in Policy
    BY <2>6
  <2>2. p.left \in 1 .. PolicyTTL /\ p.left - 1 \in 1 .. PolicyTTL
    <3>1. p.left \in 1 .. PolicyTTL
      BY <2>1 DEF Policy
    <3> QED  BY <1>2, <3>1, Times
  <2>3. Aged(p) = [p EXCEPT !.left = p.left - 1]
    BY <1>2 DEF Aged
  <2>4. Aged(p) \in Policy
    BY <2>1, <2>2, <2>3 DEF Policy
  <2>5. Aged(p).limit = p.limit /\ Aged(p).left = p.left - 1
    BY <2>1, <2>3 DEF Policy
  <2> QED  BY <2>4, <2>5, <2>6
<1> QED  BY <1>1, <1>2

LEMMA TypeInit == Init => TypeOK
<1> SUFFICES ASSUME Init PROVE TypeOK
  OBVIOUS
<1>1. running \in BOOLEAN /\ seen \in BOOLEAN /\ redisUp \in [Regions -> BOOLEAN]
  BY DEF Init
<1>2. clients \subseteq Regions /\ todo \subseteq Regions /\ refreshed \subseteq Regions
  BY DEF Init
<1>3. decider \in [Regions -> TierState]
  BY FreshType DEF Init
<1>4. overrode \in 0 .. Hysteresis /\ noisy \in 0 .. Hysteresis + 1
  BY Times DEF Init
<1>5. policy \in [Regions -> Policy \union {NoKey}]
  BY DEF Init
<1>6. override \in [Regions -> 0 .. OverrideTTL] /\ store \in [Regions -> Nat \ {0}]
  BY Times DEF Init
<1> QED  BY <1>1, <1>2, <1>3, <1>4, <1>5, <1>6 DEF TypeOK

\* What rule 3 does to the override and to its time.
LEMMA NoisyType ==
    ASSUME TypeOK, NEW over \in BOOLEAN, NoisyNeighbor(over)
    PROVE  /\ seen' \in BOOLEAN
           /\ overrode' \in 0 .. Hysteresis
           /\ override' \in [Regions -> 0 .. OverrideTTL]
<1>1. seen' \in BOOLEAN
  BY DEF NoisyNeighbor, TypeOK
<1>2. overrode' \in 0 .. Hysteresis
  BY Times DEF NoisyNeighbor, TypeOK
<1>3. override' \in [Regions -> 0 .. OverrideTTL]
  BY Times DEF NoisyNeighbor, TypeOK
<1> QED  BY <1>1, <1>2, <1>3

LEMMA DecideType ==
    ASSUME TypeOK, NEW r \in Regions, NEW level, NEW anomaly, NEW over \in BOOLEAN,
           Decide(r, level, anomaly, over)
    PROVE  TypeOK'
<1> DEFINE s == Decided(decider[r], level, anomaly)
<1>1. s \in TierState
  BY DecidedType DEF TypeOK
<1>2. policy' \in [Regions -> Policy \union {NoKey}]
  BY <1>1, WrittenType DEF Decide, TypeOK
<1>3. decider' \in [Regions -> TierState]
  BY <1>1 DEF Decide, TypeOK
<1>4. refreshed' \subseteq Regions /\ todo' \subseteq Regions
  BY DEF Decide, TypeOK
<1>5. seen' \in BOOLEAN /\ overrode' \in 0 .. Hysteresis /\ override' \in [Regions -> 0 .. OverrideTTL]
  BY NoisyType DEF Decide
<1> QED  BY <1>2, <1>3, <1>4, <1>5 DEF Decide, TypeOK

LEMMA GoneType ==
    ASSUME Gone
    PROVE  /\ running' \in BOOLEAN /\ clients' \subseteq Regions /\ todo' \subseteq Regions
           /\ decider' \in [Regions -> TierState] /\ overrode' \in 0 .. Hysteresis
           /\ seen' \in BOOLEAN /\ noisy' \in 0 .. Hysteresis + 1
<1>1. running' \in BOOLEAN /\ seen' \in BOOLEAN
  BY DEF Gone
<1>2. overrode' \in 0 .. Hysteresis /\ noisy' \in 0 .. Hysteresis + 1
  BY Times DEF Gone
<1>3. decider' \in [Regions -> TierState]
  BY FreshType DEF Gone
<1> QED  BY <1>1, <1>2, <1>3 DEF Gone

LEMMA DecideRaisesType ==
    ASSUME TypeOK, NEW r \in Regions, NEW level, NEW anomaly, DecideRaises(r, level, anomaly)
    PROVE  TypeOK'
<1>1. Decided(decider[r], level, anomaly) \in TierState
  BY DecidedType DEF TypeOK
<1>2. policy' \in [Regions -> Policy \union {NoKey}]
  BY <1>1, WrittenType DEF DecideRaises, TypeOK
<1>3. refreshed' \subseteq Regions
  BY DEF DecideRaises, TypeOK
<1> QED  BY <1>2, <1>3, GoneType DEF DecideRaises, TypeOK

LEMMA RefreshType ==
    ASSUME TypeOK, NEW r \in Regions, Refresh(r)
    PROVE  TypeOK'
<1>1. policy[r].limit \in Nat
  <2>1. policy[r] \in Policy \union {NoKey}
    BY DEF TypeOK
  <2>2. policy[r] \in Policy => policy[r].limit \in Nat
    BY DEF Policy
  <2> QED  BY <2>1, <2>2, NoKeyFields
<1>2. store' \in [Regions -> Nat \ {0}]
  BY <1>1, Times DEF Refresh, Valid, TypeOK
<1>3. refreshed' \subseteq Regions
  BY DEF Refresh, TypeOK
<1> QED  BY <1>2, <1>3 DEF Refresh, agentVars, keyVars, history, TypeOK

LEMMA RedisType ==
    ASSUME TypeOK, NEW r \in Regions, RedisDown(r) \/ RedisRecover(r)
    PROVE  TypeOK'
<1>1. redisUp' \in [Regions -> BOOLEAN] /\ seen' \in BOOLEAN
  BY DEF RedisDown, RedisRecover, TypeOK
<1>2. noisy' \in 0 .. Hysteresis + 1
  BY Times DEF RedisDown, RedisRecover
<1>3. policy' \in [Regions -> Policy \union {NoKey}]
  BY DEF RedisDown, RedisRecover, TypeOK
<1>4. override' \in [Regions -> 0 .. OverrideTTL]
  BY Times DEF RedisDown, RedisRecover, TypeOK
<1>5. refreshed' \subseteq Regions
  BY DEF RedisDown, RedisRecover, storeVars, TypeOK
<1>6. UNCHANGED <<agentVars, store>>
  BY DEF RedisDown, RedisRecover, storeVars
<1> QED  BY <1>1, <1>2, <1>3, <1>4, <1>5, <1>6 DEF agentVars, TypeOK

LEMMA ElapseType ==
    ASSUME TypeOK, Elapse
    PROVE  TypeOK'
<1>1. decider' \in [Regions -> TierState]
  <2>1. ASSUME NEW r \in Regions
        PROVE  [decider[r] EXCEPT !.age = Older(@, Hysteresis)] \in TierState
    BY Times DEF TypeOK, TierState, Older
  <2> QED  BY <2>1 DEF Elapse, TypeOK
<1>2. policy' \in [Regions -> Policy \union {NoKey}]
  BY AgedType DEF Elapse, TypeOK
<1>3. override' \in [Regions -> 0 .. OverrideTTL]
  BY Times DEF Elapse, TypeOK
<1>4. overrode' \in 0 .. Hysteresis
  BY Times DEF Elapse, Older, TypeOK
<1>5. noisy' \in 0 .. Hysteresis + 1
  <2>1. noisy' = 0 \/ noisy' = Older(noisy, Hysteresis + 1)
    BY DEF Elapse
  <2> QED  BY <2>1, Times DEF Older, TypeOK
<1>6. seen' \in BOOLEAN /\ todo' \subseteq Regions /\ refreshed' \subseteq Regions
  BY DEF Elapse
<1> QED  BY <1>1, <1>2, <1>3, <1>4, <1>5, <1>6 DEF Elapse, TypeOK

LEMMA TypeStep == TypeOK /\ [Next]_vars => TypeOK'
<1> SUFFICES ASSUME TypeOK, [Next]_vars PROVE TypeOK'
  OBVIOUS
<1>1. CASE Tick
  BY <1>1, DecideType, DecideRaisesType DEF Tick
<1>2. CASE Start
  BY <1>2 DEF Start, keyVars, storeVars, history, TypeOK
<1>3. CASE Stop
  BY <1>3, GoneType DEF Stop, keyVars, storeVars, TypeOK
<1>4. ASSUME NEW r \in Regions, Refresh(r) \/ RedisDown(r) \/ RedisRecover(r)
      PROVE  TypeOK'
  BY <1>4, RefreshType, RedisType
<1>5. CASE Elapse
  BY <1>5, ElapseType
<1>6. CASE UNCHANGED vars
  BY <1>6 DEF vars, agentVars, keyVars, storeVars, history, TypeOK
<1> QED  BY <1>1, <1>2, <1>3, <1>4, <1>5, <1>6 DEF Next

\* Every reachable state is well-typed: no key outlives its TTL, and no gateway works
\* with a limit of 0.
THEOREM TypeCorrect == Spec => []TypeOK
<1> QED  BY TypeInit, TypeStep, PTL DEF Spec

-----------------------------------------------------------------------------
(* What the agent believes and what the keys say.                           *)

\* A stopped agent has nothing under way and believes nothing.
Stopped == ~running => /\ todo = {} /\ clients = {}
                       /\ \A r \in Regions : decider[r] = Fresh

\* The decider believes in the default or in one cut of it; and it has not decided
\* before the key it may have written.
BeliefOK == \A r \in Regions :
    /\ OneCut(decider[r])
    /\ policy[r] # NoKey => decider[r].age <= PolicyTTL - policy[r].left

LoopInv == Stopped /\ BeliefOK /\ NoCompounding /\ BeliefMatchesKey

\* A policy that is written is one of the two, and it is young.
LEMMA WrittenOK ==
    ASSUME TypeOK, NEW r \in Regions, OneCut(decider[r]), NEW level, NEW anomaly,
           Decided(decider[r], level, anomaly) # decider[r]
    PROVE  LET s == Decided(decider[r], level, anomaly)
           IN  /\ s \in TierState /\ OneCut(s) /\ s.age = 0
               /\ Written(s).limit = s.limit /\ Written(s).left = PolicyTTL
               /\ s.limit \in {DefaultLimit, Cut(DefaultLimit)}
               /\ s.throttled => s.limit = Cut(DefaultLimit)
<1> DEFINE s == Decided(decider[r], level, anomaly)
<1>1. s \in TierState /\ OneCut(s) /\ s.age = 0
  BY DecidedType, DecidedOneCut, DecidedFresh DEF TypeOK
<1> QED  BY <1>1, WrittenType DEF OneCut

LEMMA LoopInit == Init => LoopInv
<1> SUFFICES ASSUME Init PROVE LoopInv
  OBVIOUS
<1>1. Stopped
  BY DEF Init, Stopped
<1>2. BeliefOK /\ NoCompounding /\ BeliefMatchesKey
  BY FreshType DEF Init, BeliefOK, NoCompounding, BeliefMatchesKey
<1> QED  BY <1>1, <1>2 DEF LoopInv

LEMMA DecideLoop ==
    ASSUME TypeOK, LoopInv, NEW r \in Regions, NEW level, NEW anomaly, NEW over \in BOOLEAN,
           Decide(r, level, anomaly, over)
    PROVE  LoopInv'
<1> DEFINE s == Decided(decider[r], level, anomaly)
<1>1. running' = running /\ running
  BY DEF Decide, LoopInv, Stopped
<1>2. clients' = clients
  BY DEF Decide
<1>3. decider' = [decider EXCEPT ![r] = s] /\ policy' \in {policy, [policy EXCEPT ![r] = Written(s)]}
  BY DEF Decide
<1>4. OneCut(decider[r])
  BY DEF LoopInv, BeliefOK
<1>5. ASSUME NEW p \in Regions
      PROVE  /\ OneCut(decider'[p])
             /\ policy'[p] # NoKey => decider'[p].age <= PolicyTTL - policy'[p].left
             /\ policy'[p] # NoKey => policy'[p].limit \in {DefaultLimit, Cut(DefaultLimit)}
             /\ (p \in clients /\ decider'[p].throttled /\ policy'[p] # NoKey)
                   => policy'[p].limit = Cut(DefaultLimit)
  <2>1. CASE p # r \/ s = decider[r]
    <3>1. decider'[p] = decider[p] /\ policy'[p] = policy[p]
      BY <2>1 DEF Decide, TypeOK
    <3> QED  BY <1>1, <3>1 DEF LoopInv, BeliefOK, NoCompounding, BeliefMatchesKey
  <2>2. CASE p = r /\ s # decider[r]
    <3>1. decider'[p] = s
      BY <2>2, <1>3 DEF TypeOK
    <3>2. /\ OneCut(s) /\ s.age = 0
          /\ Written(s).limit = s.limit /\ Written(s).left = PolicyTTL
          /\ s.limit \in {DefaultLimit, Cut(DefaultLimit)}
          /\ s.throttled => s.limit = Cut(DefaultLimit)
      BY <1>4, <2>2, WrittenOK
    <3>3. CASE r \in clients
      <4>1. policy'[p] = Written(s)
        BY <2>2, <3>3 DEF Decide, TypeOK
      <4> HIDE DEF s
      <4> QED  BY <3>1, <3>2, <4>1, Times
    <3>4. CASE r \notin clients
      <4>1. policy'[p] = policy[p]
        BY <2>2, <3>4 DEF Decide, TypeOK
      <4>2. policy[p] # NoKey => policy[p].left \in 1 .. PolicyTTL
        BY DEF TypeOK, Policy
      <4>3. policy[p] # NoKey => policy[p].limit \in {DefaultLimit, Cut(DefaultLimit)}
        BY DEF LoopInv, NoCompounding
      <4> HIDE DEF s
      <4> QED  BY <2>2, <3>1, <3>2, <3>4, <4>1, <4>2, <4>3, Times
    <3> QED  BY <3>3, <3>4
  <2> QED  BY <2>1, <2>2
<1>6. Stopped'
  BY <1>1 DEF Stopped
<1>7. BeliefOK' /\ NoCompounding' /\ BeliefMatchesKey'
  BY <1>2, <1>5 DEF BeliefOK, NoCompounding, BeliefMatchesKey
<1> QED  BY <1>6, <1>7 DEF LoopInv

LEMMA DecideRaisesLoop ==
    ASSUME TypeOK, LoopInv, NEW r \in Regions, NEW level, NEW anomaly,
           DecideRaises(r, level, anomaly)
    PROVE  LoopInv'
<1> DEFINE s == Decided(decider[r], level, anomaly)
<1>1. ~running' /\ todo' = {} /\ clients' = {} /\ decider' = [p \in Regions |-> Fresh]
  BY DEF DecideRaises, Gone
<1>2. Written(s).left = PolicyTTL /\ Written(s).limit \in {DefaultLimit, Cut(DefaultLimit)}
  BY WrittenOK DEF DecideRaises, LoopInv, BeliefOK
<1>3. ASSUME NEW p \in Regions
      PROVE  /\ OneCut(decider'[p])
             /\ policy'[p] # NoKey => decider'[p].age <= PolicyTTL - policy'[p].left
             /\ policy'[p] # NoKey => policy'[p].limit \in {DefaultLimit, Cut(DefaultLimit)}
  <2>1. decider'[p] = Fresh /\ Fresh.age = 0
    BY <1>1 DEF Fresh
  <2>2. policy'[p] \in {policy[p], Written(s)}
    BY DEF DecideRaises, TypeOK
  <2>3. policy[p] # NoKey => policy[p].left \in 1 .. PolicyTTL
    BY DEF TypeOK, Policy
  <2>4. policy[p] # NoKey => policy[p].limit \in {DefaultLimit, Cut(DefaultLimit)}
    BY DEF LoopInv, NoCompounding
  <2> HIDE DEF s
  <2> QED  BY <1>2, <2>1, <2>2, <2>3, <2>4, FreshType, Times
<1>4. Stopped'
  BY <1>1 DEF Stopped
<1>5. BeliefOK' /\ NoCompounding' /\ BeliefMatchesKey'
  BY <1>1, <1>3 DEF BeliefOK, NoCompounding, BeliefMatchesKey
<1> QED  BY <1>4, <1>5 DEF LoopInv

\* The agent starts, believing nothing, or stops.
LEMMA RestartLoop ==
    ASSUME TypeOK, LoopInv, Start \/ Stop
    PROVE  LoopInv'
<1>1. policy' = policy
  BY DEF Start, Stop, keyVars
<1>2. \A p \in Regions : decider'[p] = Fresh
  BY DEF Start, Stop, Gone, LoopInv, Stopped
<1>3. Stopped'
  BY DEF Start, Stop, Gone, Stopped
<1>4. Fresh.age = 0 /\ Fresh.throttled = FALSE
  BY DEF Fresh
<1>5. BeliefOK'
  <2>1. \A p \in Regions : policy[p] # NoKey => policy[p].left \in 1 .. PolicyTTL
    BY DEF TypeOK, Policy
  <2> QED  BY <1>1, <1>2, <1>4, <2>1, FreshType, Times DEF BeliefOK
<1>6. NoCompounding'
  BY <1>1 DEF LoopInv, NoCompounding
<1>7. BeliefMatchesKey'
  BY <1>2, <1>4 DEF BeliefMatchesKey
<1> QED  BY <1>3, <1>5, <1>6, <1>7 DEF LoopInv

\* Gateways and Redis take no part in what the agent believes; a key may be lost.
LEMMA OutsideLoop ==
    ASSUME TypeOK, LoopInv, NEW r \in Regions, Refresh(r) \/ RedisDown(r) \/ RedisRecover(r)
    PROVE  LoopInv'
<1>1. UNCHANGED agentVars
  BY DEF Refresh, RedisDown, RedisRecover
<1>2. \A p \in Regions : policy'[p] # NoKey => policy'[p] = policy[p]
  BY DEF Refresh, RedisDown, RedisRecover, keyVars, TypeOK
<1>3. Stopped'
  BY <1>1 DEF agentVars, LoopInv, Stopped
<1>4. BeliefOK' /\ NoCompounding' /\ BeliefMatchesKey'
  BY <1>1, <1>2 DEF agentVars, LoopInv, BeliefOK, NoCompounding, BeliefMatchesKey
<1> QED  BY <1>3, <1>4 DEF LoopInv

LEMMA ElapseLoop ==
    ASSUME TypeOK, LoopInv, Elapse
    PROVE  LoopInv'
<1>1. UNCHANGED <<running, clients>>
  BY DEF Elapse
<1>2. Stopped'
  BY <1>1 DEF Elapse, LoopInv, Stopped
<1>3. ASSUME NEW p \in Regions
      PROVE  /\ decider'[p].limit = decider[p].limit
             /\ decider'[p].throttled = decider[p].throttled
             /\ decider[p].age \in Nat /\ decider'[p].age \in {decider[p].age, decider[p].age + 1}
             /\ policy'[p] # NoKey => /\ policy[p] # NoKey
                                      /\ policy'[p].limit = policy[p].limit
                                      /\ policy'[p].left = policy[p].left - 1
                                      /\ policy[p].left \in 1 .. PolicyTTL
  <2>1. decider[p] \in TierState
    BY DEF TypeOK
  <2>2. decider'[p] \in {decider[p], [decider[p] EXCEPT !.age = Older(@, Hysteresis)]}
    BY DEF Elapse, TypeOK
  <2>3. Older(decider[p].age, Hysteresis) \in {decider[p].age, decider[p].age + 1}
    BY DEF Older
  <2>4. policy[p] \in Policy \union {NoKey} /\ policy'[p] = Aged(policy[p])
    BY DEF Elapse, TypeOK
  <2>5. policy[p] # NoKey => policy[p].left \in 1 .. PolicyTTL
    BY <2>4 DEF Policy
  <2>6. /\ decider'[p].limit = decider[p].limit
        /\ decider'[p].throttled = decider[p].throttled
        /\ decider[p].age \in Nat /\ decider'[p].age \in {decider[p].age, decider[p].age + 1}
    BY <2>1, <2>2, <2>3, Times DEF TierState
  <2> QED  BY <2>4, <2>5, <2>6, AgedType
<1>4. BeliefOK'
  BY <1>3, Times DEF LoopInv, BeliefOK, OneCut
<1>5. NoCompounding' /\ BeliefMatchesKey'
  BY <1>1, <1>3 DEF LoopInv, NoCompounding, BeliefMatchesKey
<1> QED  BY <1>2, <1>4, <1>5 DEF LoopInv

LEMMA LoopStep == TypeOK /\ LoopInv /\ [Next]_vars => LoopInv'
<1> SUFFICES ASSUME TypeOK, LoopInv, [Next]_vars PROVE LoopInv'
  OBVIOUS
<1>1. CASE Tick
  BY <1>1, DecideLoop, DecideRaisesLoop DEF Tick
<1>2. CASE UNCHANGED vars
  BY <1>2 DEF vars, agentVars, keyVars, LoopInv, Stopped, BeliefOK, NoCompounding, BeliefMatchesKey
<1> QED  BY <1>1, <1>2, RestartLoop, OutsideLoop, ElapseLoop DEF Next

LEMMA LoopIsInvariant == Spec => []LoopInv
<1> QED  BY LoopInit, LoopStep, TypeCorrect, PTL DEF Spec

\* Throttles never add up, over any number of restarts and lost keys.
THEOREM ThrottlesDoNotCompound == Spec => []NoCompounding
<1>1. LoopInv => NoCompounding
  BY DEF LoopInv
<1> QED  BY <1>1, LoopIsInvariant, PTL

\* Behind a throttle the decider believes in, there never is the default.
THEOREM BeliefsMatch == Spec => []BeliefMatchesKey
<1>1. LoopInv => BeliefMatchesKey
  BY DEF LoopInv
<1> QED  BY <1>1, LoopIsInvariant, PTL

\* A policy in Redis is replaced only when it is past the hysteresis.
THEOREM DecisionsDoNotFlap == Spec => NoFlapping
<1> DEFINE Calmly ==
      \A r \in Regions :
          (policy'[r] # policy[r] /\ policy'[r].left = PolicyTTL /\ policy[r] # NoKey)
              => PolicyTTL - policy[r].left >= Hysteresis
<1>1. ASSUME TypeOK, LoopInv, [Next]_vars PROVE Calmly
  <2> SUFFICES ASSUME NEW p \in Regions, policy'[p] # policy[p], policy'[p].left = PolicyTTL,
                      policy[p] # NoKey
               PROVE  PolicyTTL - policy[p].left >= Hysteresis
    OBVIOUS
  <2>1. policy[p].left \in 1 .. PolicyTTL /\ decider[p] \in TierState
    BY <1>1 DEF TypeOK, Policy
  <2>2. decider[p].age <= PolicyTTL - policy[p].left
    BY <1>1 DEF LoopInv, BeliefOK
  <2>3. NoKey.left # PolicyTTL
    BY Times, NoKeyFields
  <2>4. ASSUME NEW r \in Regions, NEW level, NEW anomaly,
               (\E over \in BOOLEAN : Decide(r, level, anomaly, over))
                  \/ DecideRaises(r, level, anomaly)
        PROVE  PolicyTTL - policy[p].left >= Hysteresis
    <3>1. p = r /\ Decided(decider[p], level, anomaly) # decider[p]
      BY <1>1, <2>4 DEF Decide, DecideRaises, TypeOK
    <3>2. decider[p].age >= Hysteresis
      BY <2>1, <3>1, DecidedFresh DEF Settled
    <3>3. decider[p].age \in Nat
      BY <2>1, Times DEF TierState
    <3> QED  BY <2>1, <2>2, <3>2, <3>3, Times
  <2>5. ASSUME NEW r \in Regions, RedisRecover(r)
        PROVE  PolicyTTL - policy[p].left >= Hysteresis
    <3>1. policy'[p] \in {policy[p], NoKey}
      BY <1>1, <2>5 DEF RedisRecover, TypeOK
    <3> QED  BY <2>3, <3>1
  <2>6. CASE Elapse
    <3>1. policy'[p] = Aged(policy[p]) /\ policy[p] \in Policy \union {NoKey}
      BY <1>1, <2>6 DEF Elapse, TypeOK
    <3>2. policy'[p] = NoKey \/ policy'[p].left = policy[p].left - 1
      BY <3>1, AgedType
    <3> QED  BY <2>1, <2>3, <3>2, Times
  <2>7. policy' # policy
    OBVIOUS
  <2> QED
    BY <1>1, <2>4, <2>5, <2>6, <2>7
    DEF Next, Tick, Start, Stop, Refresh, RedisDown, vars, keyVars
<1>2. TypeOK /\ LoopInv /\ [Next]_vars => [Calmly]_vars
  BY <1>1
<1> QED  BY <1>2, TypeCorrect, LoopIsInvariant, PTL DEF Spec, NoFlapping

-----------------------------------------------------------------------------
(* Overrides.                                                               *)

\* The override is as young as the decider thinks, in every region it reaches.
Covered == \A r \in clients : override[r] + overrode >= OverrideTTL

\* While the user is noisy and nothing fails, either the override is as young as the
\* decider thinks, or it was last written before the user became noisy.
OverrideInv ==
    /\ ~running => noisy = 0 /\ ~seen
    /\ seen => overrode < Hysteresis
    /\ noisy > 0 => \A r \in clients : redisUp[r]
    /\ Covered \/ overrode >= noisy

LEMMA OverrideInit == Init => OverrideInv
<1> SUFFICES ASSUME Init PROVE OverrideInv
  OBVIOUS
<1>1. noisy = 0 /\ ~seen /\ overrode = Hysteresis
  BY DEF Init
<1> QED  BY <1>1, Times DEF OverrideInv

LEMMA DecideOverride ==
    ASSUME TypeOK, OverrideInv, Stopped, NEW r \in Regions, NEW level, NEW anomaly,
           NEW over \in BOOLEAN, Decide(r, level, anomaly, over)
    PROVE  OverrideInv'
<1>1. UNCHANGED <<running, clients, redisUp, noisy>> /\ NoisyNeighbor(over)
  BY DEF Decide
<1>2. running
  BY DEF Decide, Stopped
<1>3. overrode \in 0 .. Hysteresis /\ noisy \in 0 .. Hysteresis + 1
  BY DEF TypeOK
<1>4. seen' => overrode' < Hysteresis
  <2>1. CASE over /\ OverrideDue
    <3>1. overrode' = 0
      BY <1>1, <2>1 DEF NoisyNeighbor
    <3> QED  BY <3>1, Times
  <2>2. CASE over /\ ~OverrideDue
    <3>1. overrode' = overrode /\ overrode # Hysteresis
      BY <1>1, <2>2 DEF NoisyNeighbor, OverrideDue
    <3> QED  BY <1>3, <3>1, Times
  <2>3. CASE ~over
    <3>1. overrode' = overrode /\ (seen' => seen)
      BY <1>1, <2>3 DEF NoisyNeighbor
    <3> QED  BY <3>1 DEF OverrideInv
  <2> QED  BY <2>1, <2>2, <2>3
<1>5. Covered' \/ overrode' >= noisy'
  <2>1. CASE over /\ OverrideDue
    <3>1. CASE noisy = 0
      <4>1. overrode' = 0 /\ noisy' = 0
        BY <1>1, <2>1, <3>1 DEF NoisyNeighbor
      <4> QED  BY <4>1
    <3>2. CASE noisy > 0
      <4>1. ASSUME NEW p \in clients PROVE override'[p] = OverrideTTL
        BY <1>1, <2>1, <3>2 DEF NoisyNeighbor, OverrideInv, TypeOK
      <4>2. overrode' = 0 /\ clients' = clients
        BY <1>1, <2>1 DEF NoisyNeighbor
      <4> QED  BY <4>1, <4>2, Times DEF Covered
    <3> QED  BY <1>3, <3>1, <3>2
  <2>2. CASE ~(over /\ OverrideDue)
    <3>1. UNCHANGED <<overrode, override, clients, noisy>>
      BY <1>1, <2>2 DEF NoisyNeighbor
    <3> QED  BY <3>1 DEF OverrideInv, Covered
  <2> QED  BY <2>1, <2>2
<1>6. noisy' > 0 => \A p \in clients' : redisUp'[p]
  BY <1>1 DEF OverrideInv
<1>7. running'
  BY <1>1, <1>2
<1> QED  BY <1>4, <1>5, <1>6, <1>7 DEF OverrideInv

\* Whatever disturbs the tick, or begins or ends the agent, starts the count over.
LEMMA DisturbedOverride ==
    ASSUME TypeOK', noisy' = 0, ~seen'
    PROVE  OverrideInv'
<1>1. overrode' >= noisy'
  BY Times DEF TypeOK
<1>2. ~(noisy' > 0)
  OBVIOUS
<1> QED  BY <1>1, <1>2 DEF OverrideInv

LEMMA ElapseOverride ==
    ASSUME TypeOK, OverrideInv, Elapse
    PROVE  OverrideInv'
<1>1. /\ UNCHANGED <<running, clients, redisUp>> /\ ~seen'
      /\ overrode' = Older(overrode, Hysteresis)
      /\ override' = [r \in Regions |-> IF override[r] = 0 THEN 0 ELSE override[r] - 1]
  BY DEF Elapse
<1>2. overrode \in 0 .. Hysteresis /\ noisy \in 0 .. Hysteresis + 1
  BY DEF TypeOK
<1>3. TypeOK'
  BY ElapseType
<1>4. CASE ~(seen /\ \A r \in clients : redisUp[r])
  <2>1. noisy' = 0
    BY <1>4 DEF Elapse
  <2> QED  BY <1>1, <1>3, <2>1, DisturbedOverride
<1>5. CASE seen /\ \A r \in clients : redisUp[r]
  <2>1. overrode < Hysteresis
    BY <1>5 DEF OverrideInv
  <2>2. overrode' = overrode + 1
    BY <1>1, <1>2, <2>1, Times DEF Older
  <2>3. noisy' = Older(noisy, Hysteresis + 1)
    BY <1>5 DEF Elapse
  <2>4. noisy' <= noisy + 1
    BY <1>2, <2>3, Times DEF Older
  <2>5. ASSUME Covered PROVE Covered'
    <3>1. ASSUME NEW p \in clients PROVE override'[p] + overrode' >= OverrideTTL
      <4>1. override[p] + overrode >= OverrideTTL /\ override[p] \in Nat
        BY <2>5 DEF Covered, TypeOK
      <4>2. override[p] # 0
        BY <1>2, <2>1, <4>1, Times
      <4>3. override'[p] = override[p] - 1
        BY <1>1, <4>2 DEF TypeOK
      <4> QED  BY <1>2, <2>2, <4>1, <4>3, Times
    <3>2. clients' = clients
      BY <1>1
    <3>3. Covered'
      BY <3>1, <3>2 DEF Covered
    <3> QED  BY <3>3
  <2>6. ASSUME overrode >= noisy PROVE overrode' >= noisy'
    <3>1. noisy' \in Nat /\ overrode \in Nat /\ noisy \in Nat
      BY <1>2, <1>3 DEF TypeOK
    <3>2. overrode' >= noisy'
      BY <2>2, <2>4, <2>6, <3>1
    <3> QED  BY <3>2
  <2>7. Covered' \/ overrode' >= noisy'
    BY <2>5, <2>6 DEF OverrideInv
  <2>8. running
    BY <1>5 DEF OverrideInv
  <2>9. running' /\ \A r \in clients' : redisUp'[r]
    BY <1>1, <1>5, <2>8
  <2> QED  BY <1>1, <2>7, <2>9 DEF OverrideInv
<1> QED  BY <1>4, <1>5

LEMMA OverrideStep == TypeOK /\ Stopped /\ OverrideInv /\ [Next]_vars => OverrideInv'
<1> SUFFICES ASSUME TypeOK, Stopped, OverrideInv, [Next]_vars PROVE OverrideInv'
  OBVIOUS
<1>1. TypeOK'
  BY TypeStep
<1>2. CASE \E r \in Regions, level \in Levels, anomaly \in BOOLEAN, over \in BOOLEAN :
              Decide(r, level, anomaly, over)
  BY <1>2, DecideOverride
<1>3. ASSUME NEW r \in Regions, NEW level, NEW anomaly,
             DecideRaises(r, level, anomaly) \/ RedisDown(r) \/ RedisRecover(r) \/ Stop
      PROVE  OverrideInv'
  <2>1. noisy' = 0 /\ ~seen'
    BY <1>3 DEF DecideRaises, Stop, Gone, RedisDown, RedisRecover
  <2> QED  BY <1>1, <2>1, DisturbedOverride
<1>4. CASE Start
  <2>1. noisy' = 0 /\ ~seen'
    BY <1>4 DEF Start, history, OverrideInv
  <2> QED  BY <1>1, <2>1, DisturbedOverride
<1>5. CASE Stop
  <2>1. noisy' = 0 /\ ~seen'
    BY <1>5 DEF Stop, Gone
  <2> QED  BY <1>1, <2>1, DisturbedOverride
<1>6. CASE Elapse
  BY <1>6, ElapseOverride
<1>7. CASE UNCHANGED vars \/ \E r \in Regions : Refresh(r)
  <2>1. UNCHANGED <<running, clients, overrode, override, redisUp, seen, noisy>>
    BY <1>7 DEF Refresh, vars, agentVars, keyVars, history
  <2> QED  BY <2>1 DEF OverrideInv, Covered
<1> QED  BY <1>2, <1>3, <1>4, <1>5, <1>6, <1>7 DEF Next, Tick

\* The override of a user that stays noisy never lapses.
THEOREM OverridesHaveNoGap == Spec => []NoOverrideGap
<1>1. TypeOK /\ OverrideInv => NoOverrideGap
  <2> SUFFICES ASSUME TypeOK, OverrideInv, noisy > Hysteresis, NEW r \in clients
               PROVE  override[r] > 0
    BY DEF NoOverrideGap
  <2>1. overrode \in 0 .. Hysteresis /\ noisy \in 0 .. Hysteresis + 1 /\ override[r] \in Nat
    BY DEF TypeOK
  <2>2. Covered
    BY <2>1, Times DEF OverrideInv
  <2> QED  BY <2>1, <2>2, Times DEF Covered
<1>2. LoopInv => Stopped
  BY DEF LoopInv
<1> QED  BY <1>1, <1>2, OverrideInit, OverrideStep, TypeCorrect, LoopIsInvariant, PTL DEF Spec
=============================================================================
