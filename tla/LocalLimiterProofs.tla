------------------------- MODULE LocalLimiterProofs -------------------------
(***************************************************************************)
(* Proofs about the local limiters, for every window, life of the key,     *)
(* lag, set of policies, and order of the stamps.                          *)
(***************************************************************************)
EXTENDS LocalLimiter, FiniteSetTheorems, TLAPS

Passes == 1 .. Len(allowed)

\* A key expires later, but in no more than its TTL; a request let through renewed it.
LifeInv ==
    /\ kind = "none" => tokens = 0
    /\ kind # "none" => now < expires /\ expires <= now + TTL
    /\ kind # "log" => entries = {}
    /\ kind = "bucket" => refilled + TTL <= expires
    /\ \A i \in Passes : /\ allowed[i].at <= now
                         /\ allowed[i].stamp <= allowed[i].at
                         /\ allowed[i].at <= allowed[i].stamp + Lag
                         /\ allowed[i].at + TTL <= IF kind = "none" THEN now ELSE expires

\* Only requests in progress at the change can have renewed a key of the old type.
OutageInv == kind \notin {"none", KindOf(policy)} => expires <= changed + Lag + TTL

\* Unless there is a bucket, whoever was let through lately is in the log.
LogInv == kind # "bucket" =>
              \A i \in Passes : allowed[i].at + Minute - Lag > now => i \in entries

\* A promise holds for all the time that comes.
PromiseInv == promise # Never =>
                  \A s \in Nat : s >= promise => Usable(policy) /\ Admits(policy, s)

LimiterInv == LifeInv /\ OutageInv /\ LogInv /\ WindowBound /\ PromiseInv

-----------------------------------------------------------------------------
(* Arithmetic.                                                              *)

\* A product of naturals is one, and grows with its factors.
LEMMA ProductType == ASSUME NEW a \in Nat, NEW b \in Nat PROVE a * b \in Nat
  BY SMT

LEMMA ProductGrows ==
    ASSUME NEW a \in Int, NEW b \in Int, NEW c \in Nat, a <= b
    PROVE  c * a <= c * b
<1>1. (b - a) \in Nat /\ c * (b - a) >= 0
  BY ProductType
<1>2. c * (b - a) = c * b - c * a
  BY SMT
<1> QED  BY <1>1, <1>2

\* Whoever waits Wait units at a limit has earned what is missing.
LEMMA WaitSuffices ==
    ASSUME NEW missing \in Nat, NEW limit \in Nat \ {0}
    PROVE  Wait(missing, limit) \in Nat /\ Wait(missing, limit) * limit >= missing
  BY Z3 DEF Wait

-----------------------------------------------------------------------------
(* Types.                                                                   *)

LEMMA Numbers == /\ Minute \in Nat \ {0} /\ Lag \in Nat /\ Lag < Minute /\ TTL \in Nat
                 /\ TTL > Minute /\ MaxTime \in Nat /\ MaxAllowed \in Nat
                 /\ Never \in Nat /\ Never > MaxTime
<1>1. Minute * (Minute + 1) \in Nat /\ Minute * (Minute + 1) > 0
  BY TimesAssumption
<1> QED  BY <1>1, TimesAssumption DEF Never

LEMMA PolicyType ==
    ASSUME NEW p \in Policies
    PROVE  /\ p.limit \in Nat \ {0} /\ p.burst \in Nat /\ p.burst * Minute \in Nat
           /\ KindOf(p) \in {"bucket", "log"}
  BY PoliciesAssumption, Numbers, ProductType DEF KindOf

\* A call carries a policy, and a stamp that is no later than now and late by no more than
\* the lag.
LEMMA CallType ==
    ASSUME TypeOK, NEW p \in Carried, NEW s \in Stamps
    PROVE  /\ p \in Policies /\ s \in Nat /\ s <= now /\ now <= s + Lag
           /\ p # policy => now <= changed + Lag
  BY Numbers DEF TypeOK, Carried, Stamps

\* A refill keeps a bucket within its depth, whatever it starts from.
LEMMA RefilledType ==
    ASSUME TypeOK, NEW p \in Policies, NEW s \in Nat
    PROVE  /\ Refilled(p, s) \in Nat /\ Refilled(p, s) <= p.burst * Minute
           /\ s <= now => Advanced(LastRefill(s), s) \in 0 .. now
<1>1. LastRefill(s) \in Nat /\ now \in Nat /\ (s <= now => LastRefill(s) <= now)
  BY DEF TypeOK, LastRefill
<1>2. Higher(0, s - LastRefill(s)) \in Nat /\ (s <= now => Advanced(LastRefill(s), s) \in 0 .. now)
  BY <1>1 DEF Higher, Advanced
<1>3. Higher(0, s - LastRefill(s)) * p.limit \in Nat
  BY <1>2, PolicyType, ProductType
<1>4. (IF kind = "none" THEN p.burst * Minute ELSE tokens) \in Nat
  BY PolicyType DEF TypeOK
<1> QED  BY <1>1, <1>2, <1>3, <1>4, PolicyType DEF Refilled, Capped, Lower

LEMMA LiveType ==
    ASSUME TypeOK, NEW s \in Nat
    PROVE  /\ Live(s) \subseteq entries /\ Live(s) \subseteq Passes
           /\ IsFiniteSet(Live(s)) /\ Cardinality(Live(s)) \in Nat
<1>1. Len(allowed) \in Nat /\ IsFiniteSet(Passes)
  BY FS_Interval DEF TypeOK, Passes
<1>2. Live(s) \subseteq entries /\ Live(s) \subseteq Passes
  BY DEF Live, TypeOK, Passes
<1> QED  BY <1>1, <1>2, FS_Subset, FS_CardinalityType

LEMMA PassType ==
    ASSUME TypeOK, NEW i \in Passes
    PROVE  /\ Len(allowed) \in Nat /\ i \in Nat
           /\ allowed[i].at \in Nat /\ allowed[i].stamp \in Nat /\ allowed[i].limit \in Nat
           /\ allowed[i].kind \in {"bucket", "log"}
<1>1. allowed \in Seq(Pass) /\ i \in 1 .. Len(allowed)
  BY DEF TypeOK, Passes
<1>2. allowed[i] \in Pass /\ Len(allowed) \in Nat /\ i \in Nat
  BY <1>1
<1> QED  BY <1>2 DEF Pass

\* A request let through comes after the others.
LEMMA AllowPass ==
    ASSUME TypeOK, NEW p \in Carried, NEW s \in Stamps, Allow(p, s)
    PROVE  /\ allowed' \in Seq(Pass) /\ Len(allowed) \in Nat
           /\ Passes' = Passes \union {Len(allowed) + 1} /\ Len(allowed') = Len(allowed) + 1
           /\ \A i \in Passes : allowed'[i] = allowed[i]
           /\ allowed'[Len(allowed) + 1].at = now /\ allowed'[Len(allowed) + 1].stamp = s
           /\ allowed'[Len(allowed) + 1].limit = p.limit /\ allowed'[Len(allowed) + 1].kind = KindOf(p)
<1> DEFINE new == [at |-> now, stamp |-> s, limit |-> p.limit, kind |-> KindOf(p)]
<1>1. new \in Pass /\ allowed \in Seq(Pass) /\ allowed' = Append(allowed, new)
  <2>1. p \in Policies /\ s \in Nat /\ now \in Nat
    BY CallType DEF TypeOK
  <2> QED  BY <2>1, PolicyType DEF Pass, TypeOK, Allow
<1> HIDE DEF new
<1>2. Len(allowed) \in Nat /\ Len(allowed') = Len(allowed) + 1 /\ allowed' \in Seq(Pass)
  BY <1>1
<1>3. \A i \in Passes : allowed'[i] = allowed[i]
  BY <1>1 DEF Passes
<1>4. allowed'[Len(allowed) + 1] = new
  BY <1>1
<1>5. Passes' = Passes \union {Len(allowed) + 1}
  BY <1>2 DEF Passes
<1> QED  BY <1>2, <1>3, <1>4, <1>5 DEF new

\* The wait of a denied request, and the promise made with it.
LEMMA OldestLive ==
    ASSUME TypeOK, NEW s \in Nat, NEW S \in SUBSET Live(s), S # {}
    PROVE  \E i \in S : \A j \in S : allowed[i].stamp <= allowed[j].stamp
<1> DEFINE stamps == {allowed[i].stamp : i \in S}
<1>1. \A i \in S : allowed[i].stamp \in Nat
  BY LiveType, PassType
<1>2. stamps \subseteq Nat /\ stamps # {}
  BY <1>1
<1>3. PICK m \in stamps : \A k \in stamps : <<k, m>> \notin OpToRel(<, Nat)
  BY <1>2, WFMin, NatLessThanWellFounded, Zenon
<1>4. \A k \in stamps : ~(k < m)
  BY <1>2, <1>3, Zenon DEF OpToRel
<1>5. PICK i \in S : m = allowed[i].stamp
  BY <1>3
<1>6. ASSUME NEW j \in S PROVE allowed[i].stamp <= allowed[j].stamp
  <2>1. allowed[j].stamp \in stamps
    OBVIOUS
  <2>2. ~(allowed[j].stamp < m)
    BY <1>4, <2>1
  <2> HIDE DEF stamps
  <2> QED  BY <1>1, <1>5, <2>2
<1> QED  BY <1>6

LEMMA RetryType ==
    ASSUME TypeOK, NEW p \in Carried, NEW s \in Stamps, ~Admits(p, s), Usable(p)
    PROVE  /\ RetryAfter(p, s) \in Nat
           /\ KindOf(p) = "log" => \E i \in Live(s) :
                 RetryAfter(p, s) = allowed[i].stamp + Minute - s
<1>1. p \in Policies /\ s \in Nat /\ s <= now
  BY CallType
<1>2. CASE KindOf(p) = "bucket"
  <2>1. Refilled(p, s) \in Nat /\ Refilled(p, s) < Minute
    BY <1>1, <1>2, RefilledType, Numbers DEF Admits
  <2>2. Minute - Refilled(p, s) \in Nat
    BY <2>1, Numbers
  <2> QED  BY <1>1, <1>2, <2>2, PolicyType, WaitSuffices DEF RetryAfter
<1>3. CASE KindOf(p) = "log"
  <2> DEFINE Oldest(i) == \A j \in Live(s) : allowed[i].stamp <= allowed[j].stamp
  <2>1. Cardinality(Live(s)) # 0 /\ IsFiniteSet(Live(s))
    BY <1>1, <1>3, LiveType, PolicyType DEF Admits, Full
  <2>2. Live(s) # {}
    BY <2>1, FS_EmptySet
  <2>3. \E i \in Live(s) : Oldest(i)
    BY <1>1, <2>2, OldestLive
  <2>4. PICK i \in Live(s) : i = CHOOSE k \in Live(s) : Oldest(k)
    BY <2>3
  <2>5. RetryAfter(p, s) = allowed[i].stamp + Minute - s
    BY <1>3, <2>4 DEF RetryAfter
  <2>6. allowed[i].stamp \in Nat /\ allowed[i].stamp > s - Minute
    BY <1>1, LiveType, PassType DEF Live
  <2> QED  BY <1>1, <2>5, <2>6, Numbers
<1> QED  BY <1>1, <1>2, <1>3, PolicyType

LEMMA TypeInit == Init => TypeOK
  BY Numbers DEF Init, TypeOK, Pass

LEMMA TypeStep == TypeOK /\ [Next]_vars => TypeOK'
<1> SUFFICES ASSUME TypeOK, [Next]_vars PROVE TypeOK'
  OBVIOUS
<1>1. ASSUME NEW p \in Carried, NEW s \in Stamps, Allow(p, s)
      PROVE  TypeOK'
  <2>1. /\ p \in Policies /\ s \in Nat /\ s <= now
        /\ UNCHANGED <<now, policyVars>> /\ kind' = KindOf(p) /\ expires' = now + TTL /\ promise' = Never
    BY <1>1, CallType DEF Allow, Expiry
  <2>2. tokens' \in Nat /\ (tokens' = 0 \/ \E q \in Policies : tokens' <= q.burst * Minute) /\ refilled' \in 0 .. now
    <3>1. CASE KindOf(p) = "bucket"
      <4>1. /\ tokens' = Refilled(p, s) - Minute /\ refilled' = Advanced(LastRefill(s), s)
            /\ Refilled(p, s) >= Minute
        BY <1>1, <3>1 DEF Allow, Admits
      <4>2. tokens' \in Nat /\ tokens' <= p.burst * Minute
        BY <2>1, <4>1, RefilledType, PolicyType, Numbers
      <4> QED  BY <2>1, <4>1, <4>2, RefilledType
    <3> QED  BY <1>1, <3>1 DEF Allow, TypeOK
  <2>3. entries' \subseteq Passes'
    <3>1. CASE KindOf(p) = "bucket"
      BY <1>1, <3>1, AllowPass DEF Allow, TypeOK, Passes
    <3>2. CASE KindOf(p) # "bucket"
      <4>1. entries' = Live(s) \union {Len(allowed) + 1} /\ Live(s) \subseteq Passes
        BY <1>1, <2>1, <3>2, LiveType DEF Allow
      <4> QED  BY <1>1, <4>1, AllowPass
    <3> QED  BY <3>1, <3>2
  <2>4. expires' \in Nat /\ promise' \in Nat /\ kind' \in {"bucket", "log"}
    BY <2>1, Numbers, PolicyType DEF TypeOK
  <2> QED  BY <1>1, <2>1, <2>2, <2>3, <2>4, AllowPass DEF TypeOK, Passes, policyVars
<1>2. ASSUME NEW p \in Carried, NEW s \in Stamps, Deny(p, s)
      PROVE  TypeOK'
  <2>1. /\ p \in Policies /\ s \in Nat /\ s <= now
        /\ UNCHANGED <<now, policyVars, allowed>> /\ kind' = KindOf(p) /\ expires' = now + TTL
        /\ promise' = Promised(p, s)
    BY <1>2, CallType DEF Deny, Expiry
  <2>2. tokens' \in Nat /\ (tokens' = 0 \/ \E q \in Policies : tokens' <= q.burst * Minute) /\ refilled' \in 0 .. now
    <3>1. CASE KindOf(p) = "bucket"
      <4>1. tokens' = Refilled(p, s) /\ refilled' = Advanced(LastRefill(s), s)
        BY <1>2, <3>1 DEF Deny
      <4> QED  BY <2>1, <4>1, RefilledType
    <3> QED  BY <1>2, <3>1 DEF Deny, TypeOK
  <2>3. entries' \subseteq Passes
    BY <1>2, <2>1, LiveType DEF Deny, TypeOK, Passes
  <2>4. expires' \in Nat /\ kind' \in {"bucket", "log"}
    BY <2>1, Numbers, PolicyType DEF TypeOK
  <2>5. promise' \in Nat
    <3>1. RetryAfter(p, s) \in Nat
      BY <1>2, RetryType DEF Deny
    <3> QED  BY <2>1, <3>1, Numbers DEF Promised, Lower, TypeOK
  <2> QED  BY <2>1, <2>2, <2>3, <2>4, <2>5 DEF TypeOK, Passes, policyVars
<1>3. ASSUME NEW p \in Policies, ChangePolicy(p)
      PROVE  TypeOK'
  BY <1>3, Numbers DEF ChangePolicy, TypeOK, keyVars
<1>4. CASE Elapse
  <2>1. now \in Nat /\ now' \in 0 .. MaxTime /\ now' = now + 1
    BY <1>4, Numbers DEF Elapse, TypeOK
  <2>2. changed' \in 0 .. now' /\ refilled' \in 0 .. now'
    BY <1>4, <2>1 DEF Elapse, TypeOK, keyVars, policyVars
  <2>3. entries' \subseteq 1 .. Len(allowed')
    BY <1>4 DEF Elapse, TypeOK, keyVars
  <2>4. /\ kind' \in {"none", "bucket", "log"} /\ expires' \in Nat
        /\ tokens' \in Nat /\ (tokens' = 0 \/ \E p \in Policies : tokens' <= p.burst * Minute)
    BY <1>4 DEF Elapse, TypeOK, keyVars
  <2> QED  BY <1>4, <2>1, <2>2, <2>3, <2>4 DEF Elapse, TypeOK, policyVars
<1>5. CASE UNCHANGED vars
  BY <1>5 DEF TypeOK, vars, policyVars, keyVars
<1> QED  BY <1>1, <1>2, <1>3, <1>4, <1>5 DEF Next, Call

\* Every component stays in its domain: whatever the order of the stamps, the bucket holds
\* no negative tokens and never refills from the future, and a promise is a time.
THEOREM TypeCorrect == Spec => []TypeOK
  BY TypeInit, TypeStep, PTL DEF Spec

-----------------------------------------------------------------------------
(* The invariant.                                                           *)

LEMMA LimiterInit == Init => LimiterInv
<1> SUFFICES ASSUME Init PROVE LimiterInv
  OBVIOUS
<1>1. Passes = {}
  BY DEF Init, Passes
<1>2. KindOf(policy) \in {"bucket", "log"}
  BY PolicyType DEF Init
<1> QED  BY <1>1, <1>2 DEF Init, LimiterInv, LifeInv, OutageInv, LogInv, WindowBound, PromiseInv, Passes

\* A call makes the key live on for its TTL.
LEMMA CallLife ==
    ASSUME TypeOK, LifeInv, NEW p \in Carried, NEW s \in Stamps, Allow(p, s) \/ Deny(p, s)
    PROVE  LifeInv'
<1>1. /\ p \in Policies /\ s \in Nat /\ s <= now /\ now <= s + Lag /\ now \in Nat
      /\ now' = now /\ kind' = KindOf(p) /\ kind' \in {"bucket", "log"} /\ expires' = now + TTL
      /\ kind \in {"none", kind'}
  BY CallType, PolicyType DEF Allow, Deny, Expiry, Usable, TypeOK
<1>2. kind' # "log" => entries' = {}
  BY <1>1 DEF LifeInv, Allow, Deny
<1>3. kind' = "bucket" => refilled' + TTL <= expires'
  <2>1. kind' = "bucket" => refilled' \in 0 .. now
    BY <1>1, RefilledType DEF Allow, Deny
  <2> QED  BY <1>1, <2>1, Numbers
<1>4. ASSUME NEW i \in Passes
      PROVE  /\ allowed[i].at <= now' /\ allowed[i].stamp <= allowed[i].at
             /\ allowed[i].at <= allowed[i].stamp + Lag /\ allowed[i].at + TTL <= expires'
  BY <1>1, PassType, Numbers DEF LifeInv
<1>5. CASE Allow(p, s)
  <2>2. ASSUME NEW i \in Passes'
        PROVE  /\ allowed'[i].at <= now' /\ allowed'[i].stamp <= allowed'[i].at
               /\ allowed'[i].at <= allowed'[i].stamp + Lag /\ allowed'[i].at + TTL <= expires'
    <3>1. \/ i \in Passes /\ allowed'[i] = allowed[i]
          \/ allowed'[i].at = now /\ allowed'[i].stamp = s
      BY <1>5, AllowPass
    <3> QED  BY <1>1, <1>4, <3>1, Numbers
  <2> QED  BY <1>1, <1>2, <1>3, <2>2, Numbers DEF LifeInv
<1>6. CASE Deny(p, s)
  <2>1. allowed' = allowed /\ Passes' = Passes
    BY <1>6 DEF Deny, Passes
  <2> QED  BY <1>1, <1>2, <1>3, <1>4, <2>1, Numbers DEF LifeInv
<1> QED  BY <1>5, <1>6

\* Only a call renews a key, and only while the policy that it carries may be in use.
LEMMA CallOutage ==
    ASSUME TypeOK, OutageInv, NEW p \in Carried, NEW s \in Stamps, Allow(p, s) \/ Deny(p, s)
    PROVE  OutageInv'
<1>1. kind' = KindOf(p) /\ expires' = now + TTL /\ UNCHANGED <<now, policy, changed>>
  BY DEF Allow, Deny, Expiry, policyVars
<1>2. now \in Nat /\ changed \in Nat /\ (p # policy => now <= changed + Lag)
  BY CallType DEF TypeOK
<1> QED  BY <1>1, <1>2, Numbers DEF OutageInv, KindOf

\* A call prunes nothing that is younger than the minute without the lag, and counts itself.
LEMMA CallLog ==
    ASSUME TypeOK, LifeInv, LogInv, NEW p \in Carried, NEW s \in Stamps, Allow(p, s) \/ Deny(p, s)
    PROVE  LogInv'
<1> SUFFICES ASSUME KindOf(p) = "log" PROVE LogInv'
  BY DEF LogInv, Allow, Deny, KindOf
<1>1. s \in Nat /\ s <= now /\ now' = now /\ now \in Nat /\ kind \in {"none", "log"}
  BY CallType DEF Allow, Deny, Usable, TypeOK
<1>2. ASSUME NEW i \in Passes, allowed[i].at + Minute - Lag > now
      PROVE  i \in Live(s)
  <2>1. i \in entries
    BY <1>1, <1>2 DEF LogInv
  <2>2. allowed[i].stamp > s - Minute
    <3>1. allowed[i].at <= allowed[i].stamp + Lag
      BY DEF LifeInv
    <3>2. allowed[i].at \in Nat /\ allowed[i].stamp \in Nat
      BY PassType
    <3> QED  BY <1>1, <1>2, <3>1, <3>2, Numbers
  <2> QED  BY <2>1, <2>2 DEF Live
<1>3. CASE Allow(p, s)
  BY <1>1, <1>2, <1>3, AllowPass DEF LogInv, Allow
<1>4. CASE Deny(p, s)
  BY <1>1, <1>2, <1>4 DEF LogInv, Deny, Passes
<1> QED  BY <1>3, <1>4

\* A log lets a request through only while it holds less than the limit, and it holds all
\* that were let through lately.
LEMMA AllowWindow ==
    ASSUME TypeOK, LifeInv, LogInv, WindowBound, NEW p \in Carried, NEW s \in Stamps, Allow(p, s)
    PROVE  WindowBound'
<1> DEFINE last == Len(allowed) + 1
           Recent(a, j) == {i \in 1 .. j : a[i].at + Minute - Lag > a[j].at}
<1>1. /\ s \in Nat /\ now \in Nat /\ p \in Policies /\ last \in Nat
      /\ Passes' = Passes \union {last} /\ Len(allowed') = last
      /\ \A i \in Passes : allowed'[i] = allowed[i]
      /\ allowed'[last].at = now /\ allowed'[last].limit = p.limit /\ allowed'[last].kind = KindOf(p)
  BY CallType, AllowPass DEF TypeOK
<1>2. ASSUME NEW j \in Passes, allowed'[j].kind = "log"
      PROVE  Cardinality(Recent(allowed', j)) <= allowed'[j].limit
  <2>1. allowed'[j] = allowed[j] /\ 1 .. j \subseteq Passes
    BY <1>1 DEF Passes
  <2>2. Recent(allowed', j) = Recent(allowed, j)
    BY <1>1, <2>1
  <2> QED  BY <1>2, <2>1, <2>2 DEF WindowBound, Passes
<1>3. ASSUME KindOf(p) = "log"
      PROVE  Cardinality(Recent(allowed', last)) <= p.limit
  <2>1. /\ kind \in {"none", "log"} /\ IsFiniteSet(Live(s)) /\ Cardinality(Live(s)) \in Nat
        /\ Cardinality(Live(s)) < p.limit
    <3>1. ~(Cardinality(Live(s)) >= p.limit) /\ kind \in {"none", "log"}
      BY <1>3 DEF Allow, Admits, Full, Usable
    <3>2. IsFiniteSet(Live(s)) /\ Cardinality(Live(s)) \in Nat
      BY <1>1, LiveType
    <3> QED  BY <1>1, <3>1, <3>2, PolicyType
  <2>2. ASSUME NEW i \in Recent(allowed', last), i # last
        PROVE  i \in Live(s)
    <3>1. i \in Passes /\ allowed[i].at + Minute - Lag > now
      BY <1>1, <2>2 DEF Passes
    <3>2. i \in entries
      BY <2>1, <3>1 DEF LogInv
    <3>3. allowed[i].stamp > s - Minute
      <4>1. allowed[i].at <= allowed[i].stamp + Lag /\ s <= now
        BY <3>1, CallType DEF LifeInv
      <4> QED  BY <1>1, <3>1, <4>1, PassType, Numbers
    <3> QED  BY <3>2, <3>3 DEF Live
  <2>3. Recent(allowed', last) \subseteq Live(s) \union {last}
    BY <2>2
  <2>4. IsFiniteSet(Live(s) \union {last}) /\ Cardinality(Live(s) \union {last}) <= Cardinality(Live(s)) + 1
    <3>1. /\ IsFiniteSet(Live(s) \union {last})
          /\ Cardinality(Live(s) \union {last}) =
                IF last \in Live(s) THEN Cardinality(Live(s)) ELSE Cardinality(Live(s)) + 1
      <4> HIDE DEF last
      <4> QED  BY <2>1, FS_AddElement
    <3> QED  BY <2>1, <3>1
  <2>5. /\ Cardinality(Recent(allowed', last)) <= Cardinality(Live(s) \union {last})
        /\ IsFiniteSet(Recent(allowed', last))
    <3> HIDE DEF Recent
    <3> QED  BY <2>3, <2>4, FS_Subset
  <2>6. Cardinality(Recent(allowed', last)) \in Nat /\ Cardinality(Live(s) \union {last}) \in Nat
    BY <2>4, <2>5, FS_CardinalityType
  <2> QED  BY <1>1, <2>1, <2>4, <2>5, <2>6, PolicyType
<1> QED  BY <1>1, <1>2, <1>3 DEF WindowBound, Passes

\* To refill at s0 and then at s is to refill at s.
LEMMA RefillTwice ==
    ASSUME NEW last \in Nat, NEW s0 \in Nat, NEW s \in Nat, s0 <= s, NEW limit \in Nat
    PROVE  Higher(0, s0 - last) * limit + Higher(0, s - Higher(last, s0)) * limit
              = Higher(0, s - last) * limit
<1>1. CASE s0 <= last
  BY <1>1 DEF Higher
<1>2. CASE last < s0
  <2>1. /\ Higher(0, s0 - last) = s0 - last /\ Higher(0, s - Higher(last, s0)) = s - s0
        /\ Higher(0, s - last) = s - last
    BY <1>2 DEF Higher
  <2>2. (s0 - last) * limit + (s - s0) * limit = (s - last) * limit
    BY SMT
  <2> QED  BY <2>1, <2>2
<1> QED  BY <1>1, <1>2

\* A bucket that denied a request lets the next through at every stamp at which it would
\* have without that, and after the wait that it told.
LEMMA DenyBucket ==
    ASSUME TypeOK, NEW p \in Policies, NEW s0 \in Nat, s0 <= now, KindOf(p) = "bucket", Deny(p, s0),
           NEW s \in Nat,
           \/ s0 <= s /\ Admits(p, s)
           \/ p.burst # 0 /\ s >= now + RetryAfter(p, s0)
    PROVE  Admits(p, s)'
<1> DEFINE full == p.burst * Minute
           missing == Minute - Refilled(p, s0)
           more == Higher(0, s - Higher(refilled, s0)) * p.limit
<1>1. /\ kind' = "bucket" /\ kind \in {"none", "bucket"} /\ tokens' = Refilled(p, s0)
      /\ refilled' = Advanced(LastRefill(s0), s0)
  BY DEF Deny, Usable
<1>2. /\ Refilled(p, s0) \in Nat /\ Refilled(p, s0) < Minute
      /\ Minute \in Nat \ {0} /\ full \in Nat /\ p.burst \in Nat /\ p.limit \in Nat \ {0}
      /\ tokens \in Nat /\ refilled \in Nat /\ now \in Nat
  <2>1. tokens \in Nat /\ refilled \in Nat /\ now \in Nat
    BY Numbers DEF TypeOK
  <2>2. Refilled(p, s0) \in Nat /\ ~(Refilled(p, s0) >= Minute)
    BY RefilledType DEF Deny, Admits
  <2>3. p.burst \in Nat /\ p.limit \in Nat \ {0} /\ Minute \in Nat \ {0}
    BY PolicyType, Numbers
  <2>4. full \in Nat
    BY <2>3, ProductType
  <2> QED  BY <2>1, <2>2, <2>3, <2>4
<1>3. missing \in Nat
  BY <1>2
<1>4. s0 <= s
  <2>1. Wait(missing, p.limit) \in Nat
    BY <1>2, <1>3, WaitSuffices
  <2> QED  BY <1>2, <2>1 DEF RetryAfter
<1>5. full >= Minute
  <2>1. CASE p.burst # 0
    BY <1>2, <2>1, ProductGrows
  <2>2. CASE Admits(p, s)
    BY <1>2, <2>2, RefilledType DEF Admits
  <2> QED  BY <2>1, <2>2
<1>6. /\ Higher(0, s0 - refilled) \in Nat /\ Higher(refilled, s0) \in Nat
      /\ Higher(0, s - Higher(refilled, s0)) \in Nat /\ Higher(0, s - refilled) \in Nat
  BY <1>2 DEF Higher
<1>7. /\ Higher(0, s0 - refilled) * p.limit \in Nat /\ more \in Nat
      /\ Higher(0, s - refilled) * p.limit \in Nat
  BY <1>2, <1>6, ProductType
<1>8. kind = "bucket"
  <2>1. SUFFICES ASSUME kind = "none" PROVE FALSE
    BY <1>1
  <2>2. Refilled(p, s0) = Capped(full + Higher(0, 0) * p.limit, p)
    BY <1>2, <2>1 DEF Refilled, LastRefill
  <2>3. Higher(0, 0) * p.limit = 0
    BY <1>2 DEF Higher
  <2> QED  BY <1>2, <1>5, <2>2, <2>3 DEF Capped, Lower
<1>9. Refilled(p, s0) = tokens + Higher(0, s0 - refilled) * p.limit
  BY <1>2, <1>5, <1>7, <1>8 DEF Refilled, LastRefill, Capped, Lower
<1>10. Refilled(p, s)' = Capped(Refilled(p, s0) + more, p)
  BY <1>1, <1>8 DEF Refilled, LastRefill, Advanced, Capped
<1>11. Refilled(p, s0) + more >= Minute
  <2>1. CASE Admits(p, s)
    <3>1. tokens + Higher(0, s - refilled) * p.limit >= Minute
      BY <1>2, <1>5, <1>7, <1>8, <2>1 DEF Admits, Refilled, LastRefill, Capped, Lower
    <3>2. Higher(0, s0 - refilled) * p.limit + more = Higher(0, s - refilled) * p.limit
      BY <1>2, <1>4, RefillTwice
    <3> HIDE DEF more
    <3> QED  BY <1>2, <1>7, <1>9, <3>1, <3>2
  <2>2. CASE s >= now + RetryAfter(p, s0)
    <3>1. RetryAfter(p, s0) = Wait(missing, p.limit)
      BY DEF RetryAfter
    <3>2. Wait(missing, p.limit) \in Nat /\ Wait(missing, p.limit) * p.limit >= missing
      BY <1>2, <1>3, WaitSuffices
    <3>3. Higher(0, s - Higher(refilled, s0)) >= Wait(missing, p.limit)
      <4>1. refilled <= now
        BY DEF TypeOK
      <4> QED  BY <1>2, <2>2, <3>1, <3>2, <4>1 DEF Higher
    <3>4. p.limit * Higher(0, s - Higher(refilled, s0)) >= p.limit * Wait(missing, p.limit)
      BY <1>2, <1>6, <3>2, <3>3, ProductGrows
    <3>5. more >= missing
      BY <1>2, <1>6, <3>2, <3>4
    <3> QED  BY <1>2, <1>7, <3>5
  <2> QED  BY <2>1, <2>2
<1> HIDE DEF more
<1> QED  BY <1>2, <1>5, <1>7, <1>10, <1>11 DEF Admits, Capped, Lower

\* So does a log, as no entry comes back; and when the oldest of as many as the limit has
\* left it.
LEMMA DenyLog ==
    ASSUME TypeOK, NEW p \in Policies, NEW s0 \in Nat, KindOf(p) = "log", Deny(p, s0),
           NEW s \in Nat,
           \/ Admits(p, s)
           \/ /\ Cardinality(Live(s0)) <= p.limit
              /\ \E i \in Live(s0) : s >= allowed[i].stamp + Minute
    PROVE  Admits(p, s)'
<1>1. /\ kind' = "log" /\ entries' = Live(s0) /\ allowed' = allowed
      /\ p.limit \in Nat \ {0} /\ Minute \in Nat
  BY PolicyType, Numbers DEF Deny
<1>2. /\ Live(s0) \subseteq entries /\ IsFiniteSet(Live(s0)) /\ Cardinality(Live(s0)) \in Nat
      /\ IsFiniteSet(Live(s)) /\ Cardinality(Live(s)) \in Nat
  BY LiveType
<1>3. Live(s)' = {i \in Live(s0) : allowed[i].stamp > s - Minute}
  BY <1>1 DEF Live
<1>4. CASE Admits(p, s)
  <2>1. Live(s)' \subseteq Live(s)
    BY <1>2, <1>3 DEF Live
  <2>2. Cardinality(Live(s)') <= Cardinality(Live(s)) /\ Cardinality(Live(s)') \in Nat
    BY <1>2, <2>1, FS_Subset, FS_CardinalityType
  <2>3. ~(Cardinality(Live(s)) >= p.limit)
    BY <1>4 DEF Admits, Full
  <2>4. ~(Cardinality(Live(s)') >= p.limit)
    BY <1>1, <1>2, <2>2, <2>3
  <2> QED  BY <2>4 DEF Admits, Full
<1>5. ASSUME NEW i \in Live(s0), Cardinality(Live(s0)) <= p.limit, s >= allowed[i].stamp + Minute
      PROVE  Admits(p, s)'
  <2>1. i \notin Live(s)'
    <3>1. allowed[i].stamp \in Nat
      BY LiveType, PassType
    <3> QED  BY <1>1, <1>3, <1>5, <3>1
  <2>2. Live(s)' \subseteq Live(s0) \ {i}
    BY <1>3, <2>1
  <2>3. IsFiniteSet(Live(s0) \ {i}) /\ Cardinality(Live(s0) \ {i}) = Cardinality(Live(s0)) - 1
    BY <1>2, FS_RemoveElement
  <2>4. Cardinality(Live(s)') <= Cardinality(Live(s0)) - 1 /\ Cardinality(Live(s)') \in Nat
    BY <2>2, <2>3, FS_Subset, FS_CardinalityType
  <2>5. ~(Cardinality(Live(s)') >= p.limit)
    BY <1>1, <1>2, <1>5, <2>4
  <2> QED  BY <2>5 DEF Admits, Full
<1> QED  BY <1>4, <1>5

LEMMA DenyPromise ==
    ASSUME TypeOK, PromiseInv, NEW p \in Carried, NEW s0 \in Stamps, Deny(p, s0)
    PROVE  PromiseInv'
<1> SUFFICES ASSUME promise' # Never, NEW s \in Nat, s >= promise'
             PROVE  Usable(policy)' /\ Admits(policy, s)'
  BY DEF PromiseInv, Never
<1>1. /\ p \in Policies /\ s0 \in Nat /\ s0 <= now /\ now \in Nat
      /\ policy' = policy /\ kind' = KindOf(p) /\ promise' = Promised(p, s0) /\ ~Admits(p, s0)
      /\ promise \in Nat /\ RetryAfter(p, s0) \in Nat /\ Minute \in Nat
  BY CallType, RetryType, Numbers DEF Deny, policyVars, TypeOK
<1>2. p = policy
  BY <1>1 DEF Promised
<1>3. Usable(policy)'
  BY <1>1, <1>2 DEF Usable, KindOf
<1>4. ASSUME promise # Never, s >= promise PROVE Admits(p, s) /\ s0 <= s
  <2>1. Admits(p, s) /\ ~(s0 >= promise)
    BY <1>1, <1>2, <1>4 DEF PromiseInv
  <2> QED  BY <1>1, <1>4, <2>1
<1>5. CASE KindOf(p) = "bucket"
  <2>1. \/ promise # Never /\ s >= promise
        \/ p.burst # 0 /\ s >= now + RetryAfter(p, s0)
    BY <1>1, <1>2, <1>5 DEF Promised, Lower
  <2>2. Admits(p, s)'
    BY <1>1, <1>4, <1>5, <2>1, DenyBucket
  <2> QED  BY <1>1, <1>2, <1>3, <2>2
<1>6. CASE KindOf(p) = "log"
  <2>1. \/ promise # Never /\ s >= promise
        \/ ~(Cardinality(Live(s0)) > p.limit) /\ s >= now + RetryAfter(p, s0)
    BY <1>1, <1>2, <1>6 DEF Promised, Lower
  <2>2. ASSUME ~(Cardinality(Live(s0)) > p.limit), s >= now + RetryAfter(p, s0)
        PROVE  /\ Cardinality(Live(s0)) <= p.limit
               /\ \E i \in Live(s0) : s >= allowed[i].stamp + Minute
    <3>1. PICK i \in Live(s0) : RetryAfter(p, s0) = allowed[i].stamp + Minute - s0
      BY <1>6, RetryType DEF Deny
    <3>2. allowed[i].stamp \in Nat /\ Cardinality(Live(s0)) \in Nat
      BY <1>1, LiveType, PassType
    <3>3. s >= allowed[i].stamp + Minute
      BY <1>1, <2>2, <3>1, <3>2
    <3> QED  BY <1>1, <2>2, <3>2, <3>3, PolicyType
  <2>3. Admits(p, s)'
    BY <1>1, <1>4, <1>6, <2>1, <2>2, DenyLog
  <2> QED  BY <1>1, <1>2, <1>3, <2>3
<1> QED  BY <1>1, <1>5, <1>6, PolicyType

\* Time only adds to a bucket and takes from a log, and a key that expires is like new.
LEMMA ElapsePromise ==
    ASSUME TypeOK, PromiseInv, Elapse
    PROVE  PromiseInv'
<1> SUFFICES ASSUME promise' # Never, NEW s \in Nat, s >= promise'
             PROVE  Usable(policy)' /\ Admits(policy, s)'
  BY DEF PromiseInv, Never
<1>1. policy' = policy /\ promise' = promise /\ allowed' = allowed /\ policy \in Policies
  BY DEF Elapse, policyVars, TypeOK
<1>2. Usable(policy) /\ Admits(policy, s)
  BY <1>1 DEF PromiseInv
<1>3. CASE UNCHANGED keyVars
  BY <1>1, <1>2, <1>3 DEF Usable, Admits, Refilled, LastRefill, Live, keyVars
<1>4. CASE kind' = "none" /\ tokens' = 0 /\ entries' = {}
  <2>1. Usable(policy)'
    BY <1>4 DEF Usable
  <2>2. ASSUME KindOf(policy) = "log" PROVE Admits(policy, s)'
    <3>1. Live(s)' = {}
      BY <1>4 DEF Live
    <3>2. Cardinality(Live(s)') = 0
      BY <3>1, FS_EmptySet
    <3>3. ~(Cardinality(Live(s)') >= policy.limit)
      BY <1>1, <3>2, PolicyType
    <3>4. KindOf(policy)' = "log"
      BY <1>1, <2>2 DEF KindOf
    <3> QED  BY <1>1, <3>3, <3>4 DEF Admits, Full
  <2>3. ASSUME KindOf(policy) = "bucket" PROVE Admits(policy, s)'
    <3>1. policy.burst * Minute >= Minute /\ policy.burst * Minute \in Nat
      BY <1>1, <1>2, <2>3, RefilledType, PolicyType, Numbers DEF Admits
    <3>2. Refilled(policy, s)' = Capped(policy.burst * Minute + Higher(0, s - s) * policy.limit, policy)
      BY <1>1, <1>4 DEF Refilled, LastRefill, Capped
    <3>3. Higher(0, s - s) * policy.limit = 0
      BY <1>1, PolicyType DEF Higher
    <3>4. Refilled(policy, s)' >= Minute
      BY <3>1, <3>2, <3>3, Numbers DEF Capped, Lower
    <3>5. KindOf(policy)' = "bucket"
      BY <1>1, <2>3 DEF KindOf
    <3> QED  BY <3>4, <3>5 DEF Admits
  <2> QED  BY <1>1, <2>1, <2>2, <2>3, PolicyType
<1> QED  BY <1>3, <1>4 DEF Elapse

LEMMA LimiterStep == TypeOK /\ LimiterInv /\ [Next]_vars => LimiterInv'
<1> SUFFICES ASSUME TypeOK, LimiterInv, [Next]_vars PROVE LimiterInv'
  OBVIOUS
<1> USE DEF LimiterInv
<1>1. ASSUME NEW p \in Carried, NEW s \in Stamps, Allow(p, s)
      PROVE  LimiterInv'
  <2>1. PromiseInv'
    BY <1>1 DEF PromiseInv, Allow, Never
  <2> QED  BY <1>1, <2>1, CallLife, CallOutage, CallLog, AllowWindow
<1>2. ASSUME NEW p \in Carried, NEW s \in Stamps, Deny(p, s)
      PROVE  LimiterInv'
  <2>1. WindowBound'
    BY <1>2 DEF WindowBound, Deny
  <2> QED  BY <1>2, <2>1, CallLife, CallOutage, CallLog, DenyPromise
<1>3. ASSUME NEW p \in Policies, ChangePolicy(p)
      PROVE  LimiterInv'
  <2>1. UNCHANGED <<now, keyVars, allowed>> /\ changed' = now /\ policy' = p /\ promise' = Never
    BY <1>3 DEF ChangePolicy
  <2>2. OutageInv'
    <3>1. kind # "none" => expires <= now + TTL
      BY DEF LifeInv
    <3>2. now \in Nat /\ expires \in Nat
      BY DEF TypeOK
    <3> QED  BY <2>1, <3>1, <3>2, Numbers DEF OutageInv, keyVars
  <2> QED  BY <2>1, <2>2 DEF LifeInv, LogInv, WindowBound, PromiseInv, Passes, Never, keyVars
<1>4. CASE Elapse
  <2>1. /\ now' = now + 1 /\ UNCHANGED <<policyVars, allowed>> /\ Passes' = Passes
        /\ now \in Nat /\ expires \in Nat /\ changed \in Nat
    BY <1>4 DEF Elapse, TypeOK, Passes
  <2>2. \A i \in Passes : allowed[i].at \in Nat /\ allowed[i].stamp \in Nat
    BY PassType
  <2>3. LifeInv'
    <3>1. CASE UNCHANGED keyVars /\ (kind = "none" \/ expires > now + 1)
      BY <2>1, <2>2, <3>1, Numbers DEF LifeInv, keyVars
    <3>2. CASE kind # "none" /\ expires <= now + 1 /\ kind' = "none" /\ tokens' = 0 /\ entries' = {}
      BY <2>1, <2>2, <3>2, Numbers DEF LifeInv
    <3> QED  BY <1>4, <2>1, <3>1, <3>2 DEF Elapse
  <2>4. OutageInv'
    BY <1>4, <2>1 DEF Elapse, OutageInv, KindOf, keyVars, policyVars
  <2>5. LogInv'
    <3> SUFFICES ASSUME kind' # "bucket", NEW i \in Passes, allowed[i].at + Minute - Lag > now + 1
                 PROVE  i \in entries'
      BY <2>1 DEF LogInv
    <3>1. CASE UNCHANGED keyVars
      BY <2>1, <2>2, <3>1, Numbers DEF LogInv, keyVars
    <3>2. CASE kind # "none" /\ expires <= now + 1
      <4>1. allowed[i].at + TTL <= expires
        BY <3>2 DEF LifeInv
      <4> QED  BY <2>1, <2>2, <3>2, <4>1, Numbers
    <3> QED  BY <1>4, <3>1, <3>2 DEF Elapse
  <2>6. WindowBound'
    BY <2>1 DEF WindowBound
  <2> QED  BY <1>4, <2>3, <2>4, <2>5, <2>6, ElapsePromise
<1>5. CASE UNCHANGED vars
  BY <1>5 DEF LifeInv, OutageInv, LogInv, WindowBound, PromiseInv, Passes, Never,
              KindOf, Usable, Admits, Refilled, LastRefill, Live, vars, keyVars, policyVars
<1> QED  BY <1>1, <1>2, <1>3, <1>4, <1>5 DEF Next, Call

LEMMA Invariance == Spec => [](TypeOK /\ LimiterInv)
  BY TypeInit, LimiterInit, TypeStep, LimiterStep, PTL DEF Spec

\* No log lets through more than its limit in a minute (less the lag), although calls run
\* out of the order of their stamps, keys expire and change their type, and limits change.
THEOREM WindowIsBounded == Spec => []WindowBound
  BY Invariance, PTL DEF LimiterInv

\* A client that waits as long as it was told is let through, if nobody else was since.
THEOREM RetriesAreHonest == Spec => []RetryHonest
<1>1. TypeOK /\ LimiterInv => RetryHonest
  <2> SUFFICES ASSUME TypeOK, PromiseInv, NEW s \in Stamps, s >= promise
               PROVE  Usable(policy) /\ Admits(policy, s)
    BY DEF LimiterInv, RetryHonest
  <2>1. s \in Nat /\ s <= now /\ now <= MaxTime /\ now \in Nat
    BY Numbers DEF Stamps, TypeOK
  <2>2. promise # Never
    BY <2>1, Numbers
  <2> QED  BY <2>1, <2>2 DEF PromiseInv
<1> QED  BY <1>1, Invariance, PTL

\* The refusals that a change of the algorithm causes end with the life of the old key.
THEOREM OutagesAreBounded == Spec => []OutageBounded
<1>1. TypeOK /\ LimiterInv => OutageBounded
  <2> SUFFICES ASSUME TypeOK, LifeInv, OutageInv, ~Usable(policy)
               PROVE  now < changed + Lag + TTL
    BY DEF LimiterInv, OutageBounded
  <2>1. kind \notin {"none", KindOf(policy)}
    BY DEF Usable
  <2>2. now < expires /\ expires <= changed + Lag + TTL
    BY <2>1 DEF LifeInv, OutageInv
  <2>3. now \in Nat /\ expires \in Nat /\ changed \in Nat
    BY Numbers DEF TypeOK
  <2> QED  BY <2>2, <2>3, Numbers
<1> QED  BY <1>1, Invariance, PTL

-----------------------------------------------------------------------------
(* The rate of the bucket.                                                  *)

\* The limit of a bucket earns its burst within the life of the key, less the lag: a key
\* that expires, and so fills the bucket, gives nothing that time would not have given.
EarnsBurst == \A p \in Policies : KindOf(p) = "bucket" => p.burst * Minute <= p.limit * (TTL - Lag)

\* The requests that a bucket has let through since the i-th.
Spent(i) == {n \in i .. Len(allowed) : allowed[n].kind = "bucket"}

\* What some burst and some limit give in that time.
Within(count, time) == \E p, q \in Policies : count <= p.burst * Minute + q.limit * time

\* While there is a bucket its tokens are counted as spent, and the time stops at the last
\* refill; after it, at the end of the last bucket that can have lived.
RateInv ==
    /\ kind = "bucket" => \A i \in Passes :
          /\ allowed[i].at <= refilled + Lag
          /\ Within(Cardinality(Spent(i)) * Minute + tokens, refilled - allowed[i].at + Lag)
    /\ kind # "bucket" => \A i \in Passes : Spent(i) # {} =>
          Within(Cardinality(Spent(i)) * Minute, now - TTL - allowed[i].at + Lag)

LEMMA WithinFresh ==
    ASSUME NEW p \in Policies, NEW count \in Int, count <= p.burst * Minute, NEW time \in Nat
    PROVE  Within(count, time)
<1>1. p.limit * time \in Nat /\ p.burst * Minute \in Nat
  BY PolicyType, ProductType
<1> QED  BY <1>1 DEF Within

LEMMA WithinLater ==
    ASSUME NEW count \in Int, NEW time \in Int, Within(count, time),
           NEW fewer \in Int, fewer <= count, NEW later \in Int, time <= later
    PROVE  Within(fewer, later)
<1>1. PICK p, q \in Policies : count <= p.burst * Minute + q.limit * time
  BY DEF Within
<1>2. p.burst * Minute \in Nat /\ q.limit \in Nat
  BY PolicyType
<1>3. q.limit * time <= q.limit * later /\ q.limit * time \in Int /\ q.limit * later \in Int
  BY <1>2, ProductGrows
<1>4. fewer <= p.burst * Minute + q.limit * later
  BY <1>1, <1>2, <1>3
<1> QED  BY <1>4 DEF Within

\* What a limit has refilled since then is within the highest limit.
LEMMA WithinGrows ==
    ASSUME NEW count \in Int, NEW time \in Nat, Within(count, time),
           NEW r \in Policies, NEW later \in Nat, time <= later,
           NEW more \in Int, more <= count + r.limit * (later - time)
    PROVE  Within(more, later)
<1>1. PICK p, q \in Policies : count <= p.burst * Minute + q.limit * time
  BY DEF Within
<1>2. PICK h \in Policies : q.limit <= h.limit /\ r.limit <= h.limit
  <2>1. q.limit \in Nat /\ r.limit \in Nat
    BY PolicyType
  <2> QED  BY <2>1
<1>3. /\ p.burst * Minute \in Nat /\ q.limit \in Nat /\ h.limit \in Nat /\ r.limit \in Nat
      /\ later - time \in Nat
  BY PolicyType
<1>4. /\ time * q.limit <= time * h.limit
      /\ (later - time) * r.limit <= (later - time) * h.limit
  BY <1>2, <1>3, ProductGrows
<1>5. q.limit * time + r.limit * (later - time) <= h.limit * later
  <2>1. time * h.limit + (later - time) * h.limit = h.limit * later
    BY <1>3, SMT
  <2>2. time * q.limit = q.limit * time /\ (later - time) * r.limit = r.limit * (later - time)
    BY <1>3, SMT
  <2>3. /\ time * q.limit \in Int /\ time * h.limit \in Int /\ h.limit * later \in Int
        /\ (later - time) * r.limit \in Int /\ (later - time) * h.limit \in Int
    BY <1>3
  <2> QED  BY <1>4, <2>1, <2>2, <2>3
<1>6. more <= p.burst * Minute + h.limit * later
  <2>1. q.limit * time \in Int /\ r.limit * (later - time) \in Int /\ h.limit * later \in Int
    BY <1>3
  <2> QED  BY <1>1, <1>3, <1>5, <2>1
<1> QED  BY <1>6 DEF Within

LEMMA SpentType ==
    ASSUME TypeOK, NEW i \in Passes
    PROVE  /\ IsFiniteSet(Spent(i)) /\ Cardinality(Spent(i)) \in Nat
           /\ Cardinality(Spent(i)) * Minute \in Nat
           /\ Spent(i) = {} => Cardinality(Spent(i)) = 0
<1>1. IsFiniteSet(i .. Len(allowed))
  BY PassType, FS_Interval
<1>2. Spent(i) \subseteq i .. Len(allowed)
  BY DEF Spent
<1> QED  BY <1>1, <1>2, FS_Subset, FS_CardinalityType, FS_EmptySet, Numbers, ProductType

\* A request that the bucket lets through has been spent since every earlier one and itself.
LEMMA SpentAllow ==
    ASSUME TypeOK, NEW p \in Carried, NEW s \in Stamps, Allow(p, s)
    PROVE  \A i \in Passes' :
              /\ KindOf(p) = "bucket" =>
                    Cardinality(Spent(i)') = IF i \in Passes THEN Cardinality(Spent(i)) + 1 ELSE 1
              /\ KindOf(p) = "log" => Spent(i)' = IF i \in Passes THEN Spent(i) ELSE {}
<1> DEFINE last == Len(allowed) + 1
<1>1. /\ Len(allowed') = last /\ Len(allowed) \in Nat /\ last \in Nat
      /\ \A i \in Passes : allowed'[i] = allowed[i]
      /\ allowed'[last].kind = KindOf(p) /\ Passes' = Passes \union {last} /\ last \notin Passes
  BY AllowPass DEF Passes
<1>2. ASSUME NEW i \in Passes
      PROVE  /\ Spent(i)' = IF KindOf(p) = "bucket" THEN Spent(i) \union {last} ELSE Spent(i)
             /\ last \notin Spent(i)
  BY <1>1 DEF Spent, Passes
<1> HIDE DEF last
<1>3. ASSUME NEW i, i = last
      PROVE  Spent(i)' = IF KindOf(p) = "bucket" THEN {i} ELSE {}
  <2>1. i .. Len(allowed') = {i}
    BY <1>1, <1>3
  <2> QED  BY <1>1, <1>3, <2>1 DEF Spent
<1>4. ASSUME NEW i \in Passes, KindOf(p) = "bucket"
      PROVE  Cardinality(Spent(i)') = Cardinality(Spent(i)) + 1
  BY <1>2, <1>4, SpentType, FS_AddElement
<1>5. \A i : Cardinality({i}) = 1
  BY FS_Singleton
<1> QED  BY <1>1, <1>2, <1>3, <1>4, <1>5

\* A bucket that is used gains no more than its limit since the last refill, or a burst that
\* the time without it has earned.
LEMMA RefillRate ==
    ASSUME EarnsBurst, TypeOK, LifeInv, RateInv, NEW p \in Carried, NEW s \in Stamps,
           Allow(p, s) \/ Deny(p, s), KindOf(p) = "bucket", NEW i \in Passes
    PROVE  /\ allowed[i].at <= refilled' + Lag
           /\ Within(Cardinality(Spent(i)) * Minute + Refilled(p, s), refilled' - allowed[i].at + Lag)
<1> DEFINE count == Cardinality(Spent(i)) * Minute
           later == refilled' - allowed[i].at + Lag
<1>1. /\ p \in Policies /\ s \in Nat /\ s <= now /\ now <= s + Lag /\ now \in Nat
      /\ refilled' = Advanced(LastRefill(s), s) /\ kind \in {"none", "bucket"} /\ refilled' \in Nat
      /\ refilled \in Nat /\ tokens \in Nat
  <2>1. p \in Policies /\ s \in Nat /\ s <= now /\ now <= s + Lag
    BY CallType
  <2>2. refilled' = Advanced(LastRefill(s), s) /\ kind \in {"none", "bucket"}
    BY DEF Allow, Deny, Usable
  <2>3. now \in Nat /\ refilled \in Nat /\ tokens \in Nat
    BY DEF TypeOK
  <2>4. refilled' \in 0 .. now
    BY <2>1, <2>2, RefilledType
  <2> QED  BY <2>1, <2>2, <2>3, <2>4
<1>2. /\ allowed[i].at \in Nat /\ count \in Nat /\ p.limit \in Nat /\ p.burst * Minute \in Nat
      /\ Refilled(p, s) \in Nat /\ Refilled(p, s) <= p.burst * Minute
  BY <1>1, PassType, SpentType, PolicyType, RefilledType
<1> HIDE DEF count
<1>3. CASE kind = "bucket"
  <2> DEFINE time == refilled - allowed[i].at + Lag
  <2>1. refilled' = Higher(refilled, s) /\ LastRefill(s) = refilled
    BY <1>1, <1>3 DEF LastRefill, Advanced
  <2>2. allowed[i].at <= refilled + Lag /\ Within(count + tokens, time)
    BY <1>3 DEF RateInv, count
  <2>3. time \in Nat /\ later \in Nat /\ time <= later /\ later - time = Higher(0, s - refilled)
    BY <1>1, <1>2, <2>1, <2>2, Numbers DEF Higher
  <2>4. Higher(0, s - refilled) * p.limit \in Nat
    BY <1>2, <2>3, ProductType
  <2>5. Refilled(p, s) <= tokens + Higher(0, s - refilled) * p.limit
    BY <1>1, <1>2, <1>3, <2>1, <2>4 DEF Refilled, Capped, Lower
  <2>6. p.limit * (later - time) = Higher(0, s - refilled) * p.limit
    BY <1>2, <2>3
  <2>7. count + Refilled(p, s) <= (count + tokens) + p.limit * (later - time)
    <3> HIDE DEF time, later
    <3> QED  BY <1>1, <1>2, <2>4, <2>5, <2>6
  <2>8. Within(count + Refilled(p, s), later)
    <3> HIDE DEF time, later
    <3> QED  BY <1>1, <1>2, <2>2, <2>3, <2>7, WithinGrows
  <2> QED  BY <1>1, <1>2, <2>2, <2>3, <2>8, Numbers DEF count
<1>4. CASE kind = "none"
  <2> DEFINE time == now - TTL - allowed[i].at + Lag
  <2>1. refilled' = s /\ allowed[i].at + TTL <= now
    BY <1>1, <1>4 DEF LastRefill, Advanced, Higher, LifeInv
  <2>2. /\ time \in Nat /\ later \in Nat /\ time <= later /\ TTL - Lag <= later - time
        /\ TTL - Lag \in Nat /\ later - time \in Nat
    BY <1>1, <1>2, <2>1, Numbers
  <2>3. CASE Spent(i) = {}
    <3>1. count = 0
      BY <2>3, SpentType, Numbers DEF count
    <3> HIDE DEF later
    <3>2. Within(count + Refilled(p, s), later)
      BY <1>1, <1>2, <2>2, <3>1, WithinFresh
    <3> QED  BY <1>1, <1>2, <2>1, <3>2, Numbers DEF count, later
  <2>4. CASE Spent(i) # {}
    <3>1. Within(count, time)
      BY <1>4, <2>4 DEF RateInv, count
    <3>2. p.burst * Minute <= p.limit * (TTL - Lag)
      BY <1>1 DEF EarnsBurst
    <3>3. p.limit * (TTL - Lag) <= p.limit * (later - time)
      <4> HIDE DEF time, later
      <4> QED  BY <1>2, <2>2, ProductGrows
    <3>4. p.limit * (TTL - Lag) \in Int /\ p.limit * (later - time) \in Int
      <4> HIDE DEF time, later
      <4> QED  BY <1>2, <2>2
    <3>5. count + Refilled(p, s) <= count + p.limit * (later - time)
      <4> HIDE DEF time, later
      <4> QED  BY <1>2, <3>2, <3>3, <3>4
    <3>6. Within(count + Refilled(p, s), later)
      <4> HIDE DEF time, later
      <4> QED  BY <1>1, <1>2, <2>2, <3>1, <3>5, WithinGrows
    <3> QED  BY <1>1, <1>2, <2>1, <3>6, Numbers DEF count
  <2> QED  BY <2>3, <2>4
<1> QED  BY <1>1, <1>3, <1>4

LEMMA AllowRate ==
    ASSUME EarnsBurst, TypeOK, LifeInv, RateInv, NEW p \in Carried, NEW s \in Stamps, Allow(p, s)
    PROVE  RateInv'
<1>1. /\ p \in Policies /\ s \in Nat /\ s <= now /\ now <= s + Lag /\ now \in Nat
      /\ kind' = KindOf(p) /\ now' = now /\ Passes' = Passes \union {Len(allowed) + 1}
      /\ \A i \in Passes : allowed'[i] = allowed[i]
      /\ \A i \in Passes' \ Passes : allowed'[i].at = now
  <2>1. \A i \in Passes' \ Passes : allowed'[i].at = now
    BY AllowPass
  <2>2. Passes' = Passes \union {Len(allowed) + 1} /\ \A i \in Passes : allowed'[i] = allowed[i]
    BY AllowPass
  <2>3. p \in Policies /\ s \in Nat /\ s <= now /\ now <= s + Lag
    BY CallType
  <2>4. now \in Nat /\ now' = now /\ kind' = KindOf(p)
    BY DEF Allow, TypeOK
  <2> QED  BY <2>1, <2>2, <2>3, <2>4
<1>2. CASE KindOf(p) = "bucket"
  <2>1. /\ tokens' = Refilled(p, s) - Minute /\ refilled' = Advanced(LastRefill(s), s)
        /\ Refilled(p, s) \in Nat /\ Refilled(p, s) <= p.burst * Minute /\ p.burst * Minute \in Nat
    BY <1>1, <1>2, RefilledType, PolicyType DEF Allow
  <2>2. refilled' \in Nat /\ refilled' >= s
    <3>1. LastRefill(s) \in Nat
      BY <1>1 DEF LastRefill, TypeOK
    <3> QED  BY <1>1, <2>1, <3>1 DEF Advanced, Higher
  <2>3. ASSUME NEW i \in Passes
        PROVE  /\ allowed[i].at <= refilled' + Lag
               /\ Within((Cardinality(Spent(i)) + 1) * Minute + tokens', refilled' - allowed[i].at + Lag)
    <3>1. Cardinality(Spent(i)) \in Nat
      BY SpentType
    <3>2. (Cardinality(Spent(i)) + 1) * Minute + tokens' = Cardinality(Spent(i)) * Minute + Refilled(p, s)
      BY <2>1, <3>1, Numbers
    <3> QED  BY <1>2, <3>2, RefillRate
  <2>4. now <= refilled' + Lag /\ Within(1 * Minute + tokens', refilled' - now + Lag)
    <3>1. 1 * Minute + tokens' = Refilled(p, s) /\ refilled' - now + Lag \in Nat
      BY <1>1, <2>1, <2>2, Numbers
    <3>2. Within(Refilled(p, s), refilled' - now + Lag)
      BY <1>1, <2>1, <3>1, WithinFresh
    <3>3. now <= refilled' + Lag
      <4>1. \A a, b, c, d \in Int : a <= b + c /\ b <= d => a <= d + c
        OBVIOUS
      <4>2. now \in Int /\ s \in Int /\ Lag \in Int /\ refilled' \in Int
        BY <1>1, <2>2, Numbers
      <4>3. now <= s + Lag /\ s <= refilled'
        BY <1>1, <2>2
      <4> QED  BY <4>1, <4>2, <4>3, Zenon
    <3> QED  BY <3>1, <3>2, <3>3
  <2>5. \A i \in Passes' :
           Cardinality(Spent(i)') = IF i \in Passes THEN Cardinality(Spent(i)) + 1 ELSE 1
    BY <1>2, SpentAllow
  <2>6. ASSUME NEW i \in Passes'
        PROVE  /\ allowed'[i].at <= refilled' + Lag
               /\ Within(Cardinality(Spent(i)') * Minute + tokens', refilled' - allowed'[i].at + Lag)
    BY <1>1, <2>3, <2>4, <2>5
  <2> QED  BY <1>1, <1>2, <2>6 DEF RateInv, Within
<1>3. CASE KindOf(p) = "log"
  <2>1. kind # "bucket"
    BY <1>3 DEF Allow, Usable
  <2>2. \A i \in Passes' : Spent(i)' = IF i \in Passes THEN Spent(i) ELSE {}
    BY <1>3, SpentAllow
  <2>3. ASSUME NEW i \in Passes', Spent(i)' # {}
        PROVE  Within(Cardinality(Spent(i)') * Minute, now' - TTL - allowed'[i].at + Lag)
    <3>1. i \in Passes /\ Spent(i)' = Spent(i) /\ allowed'[i] = allowed[i] /\ Spent(i) # {}
      BY <1>1, <2>2, <2>3
    <3>2. Within(Cardinality(Spent(i)) * Minute, now - TTL - allowed[i].at + Lag)
      BY <2>1, <3>1 DEF RateInv
    <3> QED  BY <1>1, <3>1, <3>2
  <2> QED  BY <1>1, <1>3, <2>3 DEF RateInv, Within
<1> QED  BY <1>1, <1>2, <1>3, PolicyType

LEMMA DenyRate ==
    ASSUME EarnsBurst, TypeOK, LifeInv, RateInv, NEW p \in Carried, NEW s \in Stamps, Deny(p, s)
    PROVE  RateInv'
<1>1. /\ p \in Policies /\ kind' = KindOf(p) /\ now' = now /\ Passes' = Passes /\ allowed' = allowed
      /\ \A i \in Passes : Spent(i)' = Spent(i)
  BY CallType DEF Deny, Passes, Spent
<1>2. CASE KindOf(p) = "bucket"
  <2>1. tokens' = Refilled(p, s)
    BY <1>2 DEF Deny
  <2>2. ASSUME NEW i \in Passes
        PROVE  /\ allowed[i].at <= refilled' + Lag
               /\ Within(Cardinality(Spent(i)) * Minute + tokens', refilled' - allowed[i].at + Lag)
    BY <1>2, <2>1, RefillRate
  <2> QED  BY <1>1, <1>2, <2>2 DEF RateInv, Within
<1>3. CASE KindOf(p) = "log"
  <2>1. kind # "bucket"
    BY <1>3 DEF Deny, Usable
  <2> QED  BY <1>1, <1>3, <2>1 DEF RateInv, Within
<1> QED  BY <1>1, <1>2, <1>3, PolicyType

\* Once the key has expired, the time since its last refill is more than its life.
LEMMA ElapseRate ==
    ASSUME TypeOK, LifeInv, RateInv, Elapse
    PROVE  RateInv'
<1>1. /\ now' = now + 1 /\ allowed' = allowed /\ Passes' = Passes
      /\ \A i \in Passes : Spent(i)' = Spent(i)
      /\ now \in Nat /\ refilled \in Nat /\ tokens \in Nat /\ expires \in Nat
  BY DEF Elapse, Passes, Spent, TypeOK
<1>2. ASSUME NEW i \in Passes
      PROVE  Cardinality(Spent(i)) * Minute \in Nat /\ allowed[i].at \in Nat
  BY SpentType, PassType
<1>3. CASE kind = "bucket" /\ UNCHANGED keyVars
  BY <1>1, <1>3 DEF RateInv, Within, keyVars
<1>4. CASE kind # "bucket" /\ kind' # "bucket"
  <2>1. ASSUME NEW i \in Passes, Spent(i) # {}
        PROVE  Within(Cardinality(Spent(i)) * Minute, now' - TTL - allowed[i].at + Lag)
    <3>1. Within(Cardinality(Spent(i)) * Minute, now - TTL - allowed[i].at + Lag)
      BY <1>4, <2>1 DEF RateInv
    <3>2. /\ now - TTL - allowed[i].at + Lag \in Int /\ now' - TTL - allowed[i].at + Lag \in Int
          /\ now - TTL - allowed[i].at + Lag <= now' - TTL - allowed[i].at + Lag
      BY <1>1, <1>2, Numbers
    <3> QED  BY <1>2, <3>1, <3>2, WithinLater
  <2> QED  BY <1>1, <1>4, <2>1 DEF RateInv, Within
<1>5. CASE kind = "bucket" /\ expires <= now + 1 /\ kind' = "none"
  <2>1. refilled + TTL <= now'
    BY <1>1, <1>5, Numbers DEF LifeInv
  <2>2. ASSUME NEW i \in Passes
        PROVE  Within(Cardinality(Spent(i)) * Minute, now' - TTL - allowed[i].at + Lag)
    <3>1. Within(Cardinality(Spent(i)) * Minute + tokens, refilled - allowed[i].at + Lag)
      BY <1>5 DEF RateInv
    <3>2. /\ refilled - allowed[i].at + Lag \in Int /\ now' - TTL - allowed[i].at + Lag \in Int
          /\ refilled - allowed[i].at + Lag <= now' - TTL - allowed[i].at + Lag
          /\ Cardinality(Spent(i)) * Minute + tokens \in Int
          /\ Cardinality(Spent(i)) * Minute <= Cardinality(Spent(i)) * Minute + tokens
      BY <1>1, <1>2, <2>1, Numbers
    <3> QED  BY <1>2, <3>1, <3>2, WithinLater
  <2> QED  BY <1>1, <1>5, <2>2 DEF RateInv, Within
<1> QED  BY <1>3, <1>4, <1>5 DEF Elapse, keyVars

LEMMA RateStep ==
    ASSUME EarnsBurst, TypeOK, LifeInv, RateInv, [Next]_vars
    PROVE  RateInv'
<1>1. ASSUME NEW p \in Policies, ChangePolicy(p)
      PROVE  RateInv'
  <2>1. UNCHANGED <<now, kind, tokens, refilled, allowed>>
    BY <1>1 DEF ChangePolicy, keyVars
  <2> QED  BY <2>1 DEF RateInv, Within, Spent, Passes
<1>2. CASE UNCHANGED vars
  BY <1>2 DEF vars, keyVars, RateInv, Within, Spent, Passes
<1> QED  BY <1>1, <1>2, AllowRate, DenyRate, ElapseRate DEF Next, Call

\* What BucketRate says of two requests.
Between(i, j) == {n \in i .. j : allowed[n].kind = "bucket"}

RatedInv == \A i, j \in Passes : Between(i, j) # {} =>
                Within(Cardinality(Between(i, j)) * Minute, allowed[j].at - allowed[i].at + Lag)

LEMMA Rated == BucketRate <=> RatedInv
  BY DEF BucketRate, RatedInv, Between, Within, Passes

\* Since any request, up to now, the bucket has let through no more than a burst and what the
\* time gives.
RateSoFar == \A i \in Passes : Spent(i) # {} =>
                 Within(Cardinality(Spent(i)) * Minute, now - allowed[i].at + Lag)

LEMMA RateNow == TypeOK /\ LifeInv /\ RateInv => RateSoFar
<1> SUFFICES ASSUME TypeOK, LifeInv, RateInv, NEW i \in Passes, Spent(i) # {}
             PROVE  Within(Cardinality(Spent(i)) * Minute, now - allowed[i].at + Lag)
  BY DEF RateSoFar
<1>1. /\ Cardinality(Spent(i)) * Minute \in Nat /\ allowed[i].at \in Nat
      /\ now \in Nat /\ refilled \in Nat /\ refilled <= now /\ tokens \in Nat
  BY SpentType, PassType DEF TypeOK
<1>2. CASE kind = "bucket"
  <2>1. Within(Cardinality(Spent(i)) * Minute + tokens, refilled - allowed[i].at + Lag)
    BY <1>2 DEF RateInv
  <2>2. /\ refilled - allowed[i].at + Lag \in Int /\ now - allowed[i].at + Lag \in Int
        /\ refilled - allowed[i].at + Lag <= now - allowed[i].at + Lag
        /\ Cardinality(Spent(i)) * Minute + tokens \in Int
        /\ Cardinality(Spent(i)) * Minute <= Cardinality(Spent(i)) * Minute + tokens
    BY <1>1, Numbers
  <2> QED  BY <1>1, <2>1, <2>2, WithinLater
<1>3. CASE kind # "bucket"
  <2>1. Within(Cardinality(Spent(i)) * Minute, now - TTL - allowed[i].at + Lag)
    BY <1>3 DEF RateInv
  <2>2. /\ now - TTL - allowed[i].at + Lag \in Int /\ now - allowed[i].at + Lag \in Int
        /\ now - TTL - allowed[i].at + Lag <= now - allowed[i].at + Lag
    BY <1>1, Numbers
  <2> QED  BY <1>1, <2>1, <2>2, WithinLater
<1> QED  BY <1>2, <1>3

LEMMA AllowRated ==
    ASSUME TypeOK, RateSoFar', RatedInv, NEW p \in Carried, NEW s \in Stamps, Allow(p, s)
    PROVE  RatedInv'
<1> DEFINE Bound(i, j) == Between(i, j) # {} =>
               Within(Cardinality(Between(i, j)) * Minute, allowed[j].at - allowed[i].at + Lag)
<1>1. /\ Len(allowed) \in Nat /\ Len(allowed') = Len(allowed) + 1 /\ now' = now
      /\ \A i \in Passes : allowed'[i] = allowed[i]
      /\ allowed'[Len(allowed')].at = now
  BY AllowPass DEF Allow
<1>2. ASSUME NEW i \in Passes, NEW j \in Passes
      PROVE  Bound(i, j)'
  <2>1. Bound(i, j)
    BY DEF RatedInv
  <2>2. Between(i, j)' = Between(i, j)
    BY <1>1 DEF Passes, Between
  <2> QED  BY <1>1, <2>1, <2>2
<1>3. ASSUME NEW i \in Passes', NEW j, j = Len(allowed')
      PROVE  Bound(i, j)'
  <2>1. Between(i, j)' = Spent(i)'
    BY <1>3 DEF Spent, Between
  <2>2. Spent(i)' # {} => Within(Cardinality(Spent(i)') * Minute, now' - allowed'[i].at + Lag)
    BY DEF RateSoFar
  <2> QED  BY <1>1, <1>3, <2>1, <2>2
<1>4. ASSUME NEW i, i = Len(allowed'), NEW j \in Passes
      PROVE  Bound(i, j)'
  <2>1. i .. j = {}
    BY <1>1, <1>4 DEF Passes
  <2> QED  BY <2>1 DEF Between
<1>5. Passes' = Passes \union {Len(allowed')}
  BY <1>1 DEF Passes
<1>6. \A i, j \in Passes' : Bound(i, j)'
  <2> HIDE DEF Bound
  <2> QED  BY <1>2, <1>3, <1>4, <1>5
<1> QED  BY <1>6 DEF RatedInv

\* Between any two requests the bucket lets through no more than a burst and what the limit
\* refills in that time, whatever the order of the stamps and although keys and policies
\* change, if the limits earn the bursts within the life of a key.
THEOREM BucketRateIsBounded ==
    ASSUME EarnsBurst
    PROVE  Spec => []BucketRate
<1>1. Init => RateInv /\ RatedInv
  BY DEF Init, RateInv, RatedInv, Passes
<1>2. TypeOK /\ LimiterInv /\ RateInv /\ [Next]_vars => RateInv'
  BY RateStep DEF LimiterInv
<1>3. TypeOK /\ LimiterInv /\ RateInv => RateSoFar
  BY RateNow DEF LimiterInv
<1>4. TypeOK /\ RateSoFar' /\ RatedInv /\ [Next]_vars => RatedInv'
  <2> SUFFICES ASSUME TypeOK, RateSoFar', RatedInv, [Next]_vars PROVE RatedInv'
    OBVIOUS
  <2>1. ASSUME allowed' = allowed PROVE RatedInv'
    <3>1. Passes' = Passes /\ \A i, j : Between(i, j)' = Between(i, j)
      BY <2>1 DEF Passes, Between
    <3> QED  BY <2>1, <3>1 DEF RatedInv
  <2>2. allowed' = allowed \/ \E p \in Carried, s \in Stamps : Allow(p, s)
    BY DEF Next, Call, Deny, ChangePolicy, Elapse, vars
  <2> QED  BY <2>1, <2>2, AllowRated
<1>5. RatedInv => BucketRate
  BY Rated
<1> QED  BY <1>1, <1>2, <1>3, <1>4, <1>5, Invariance, PTL DEF Spec

=============================================================================
