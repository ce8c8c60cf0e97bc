------------------------ MODULE OverrideCacheProofs ------------------------
(***************************************************************************)
(* Proofs about the override cache, for any number of callers, any ttl and *)
(* timeout, and any history of the key.                                    *)
(***************************************************************************)
EXTENDS OverrideCache, FiniteSetTheorems, TLAPS

\* The caller that does the lookup in flight, and nobody else, has a GET under way; and
\* none is begun while the entry is good.
FlightInv ==
    /\ \A c \in Callers : pc[c] \in {"sent", "got"} <=> flight = c
    /\ flight # NoCaller => ~Hit

\* A lookup that was stored and not yet announced is what the entry says.
StoredInv ==
    \A c \in Callers : (pc[c] = "stored" /\ result[c] # Error)
        => entry = [value |-> result[c], expires |-> now + TTL]

\* Who waits has not been answered, and the lookup it waits for is not over.
WaitInv ==
    \A c \in Callers :
        /\ leader[c] # NoCaller <=> pc[c] = "waiting"
        /\ pc[c] = "waiting" => pc[leader[c]] \in {"sent", "got", "stored"}

\* Nothing newer than Redis has been answered, and no call began with more than that.
NewestInv ==
    /\ newest <= version
    /\ \A c \in Callers : least[c] <= newest
    /\ \A v \in Versions : v >= version => ended[v] = MaxTime + 1

\* What may still be answered, out of the entry or by a GET under way, is at least as new as
\* what has been.
OrderInv ==
    /\ Hit => entry.value # Error /\ entry.value >= newest
    /\ \A c \in Callers : (pc[c] = "got" /\ result[c] # Error)
                             => newest <= result[c] /\ result[c] <= version

\* ... and was in Redis no longer ago than a timeout and, in the entry, the ttl.
AgeInv ==
    /\ entry.expires <= now + TTL
    /\ entry.value # Error => /\ entry.value <= version
                              /\ entry.expires <= ended[entry.value] + TTL + Timeout
    /\ \A c \in Callers : pc[c] \in {"sent", "got"} =>
          /\ start[c] <= now /\ now <= start[c] + Timeout
          /\ (pc[c] = "got" /\ result[c] # Error) => start[c] <= ended[result[c]]

CacheInv == FlightInv /\ StoredInv /\ WaitInv /\ NewestInv /\ OrderInv /\ AgeInv

-----------------------------------------------------------------------------
(* Types.                                                                   *)

LEMMA Constants == /\ TTL \in Nat \ {0} /\ Timeout \in Nat \ {0}
                   /\ MaxTime \in Nat /\ MaxVersion \in Nat
                   /\ NoCaller \notin Callers /\ Error \notin Nat
                   /\ Error \in Answer /\ Error \notin Versions /\ Versions \subseteq Nat
  BY TimesAssumption DEF Answer, Versions

\* One flight is one GET under way.
LEMMA OneGet ==
    ASSUME NEW f, NEW steps, \A c \in Callers : steps[c] \in {"sent", "got"} <=> f = c
    PROVE  Cardinality({c \in Callers : steps[c] \in {"sent", "got"}}) <= 1
<1> DEFINE G == {c \in Callers : steps[c] \in {"sent", "got"}}
<1>1. G \in SUBSET {f}
  OBVIOUS
<1>2. IsFiniteSet({f}) /\ Cardinality({f}) = 1
  BY FS_Singleton
<1>3. Cardinality(G) <= Cardinality({f}) /\ Cardinality(G) \in Nat
  BY <1>1, <1>2, FS_Subset, FS_CardinalityType
<1> QED  BY <1>2, <1>3

\* What answering some callers does to the types.
LEMMA AnsweredType ==
    ASSUME TypeOK, NEW S, NEW value \in Answer, Answered(S, value)
    PROVE  /\ pc' \in [Callers -> Steps]
           /\ result' \in [Callers -> Answer]
           /\ leader' \in [Callers -> Callers \union {NoCaller}]
           /\ newest' \in Versions
<1>1. pc' \in [Callers -> Steps]
  BY DEF Answered, TypeOK, Steps
<1>2. result' \in [Callers -> Answer] /\ leader' \in [Callers -> Callers \union {NoCaller}]
  BY DEF Answered, TypeOK
<1>3. newest' \in Versions
  BY DEF Answered, TypeOK, Answer
<1> QED  BY <1>1, <1>2, <1>3

LEMMA TypeInit == Init => TypeOK
<1> SUFFICES ASSUME Init PROVE TypeOK
  OBVIOUS
<1>1. Cardinality({c \in Callers : pc[c] \in {"sent", "got"}}) <= 1
  <2>1. {c \in Callers : pc[c] \in {"sent", "got"}} = {}
    BY DEF Init
  <2> QED  BY <2>1, FS_EmptySet
<1>2. pc \in [Callers -> Steps]
  BY DEF Init, Steps
<1> QED  BY <1>1, <1>2, Constants DEF Init, TypeOK, Answer, Versions

LEMMA TypeStep ==
    ASSUME TypeOK, [Next]_vars, FlightInv'
    PROVE  TypeOK'
<1>1. Cardinality({c \in Callers : pc'[c] \in {"sent", "got"}}) <= 1
  BY OneGet DEF FlightInv
<1>2. ASSUME NEW c \in Callers, Call(c)
      PROVE  TypeOK'
  <2>1. CASE Hit
    BY <1>1, <1>2, <2>1, AnsweredType DEF Call, TypeOK, redisVars, cacheVars
  <2>2. CASE ~Hit
    BY <1>1, <1>2, <2>2, Constants DEF Call, TypeOK, redisVars, cacheVars, Steps
  <2> QED  BY <2>1, <2>2
<1>3. ASSUME NEW c \in Callers, Enter(c)
      PROVE  TypeOK'
  <2>1. CASE Answered({c}, entry.value) /\ UNCHANGED <<flight, start>>
    BY <1>1, <1>3, <2>1, AnsweredType DEF Enter, TypeOK, redisVars
  <2>2. CASE pc' = [pc EXCEPT ![c] = "waiting"] /\ leader' = [leader EXCEPT ![c] = flight]
             /\ UNCHANGED <<flight, start, result, newest>>
    BY <1>1, <1>3, <2>2 DEF Enter, TypeOK, redisVars, Steps
  <2>3. CASE pc' = [pc EXCEPT ![c] = "sent"] /\ flight' = c
             /\ start' = [start EXCEPT ![c] = now] /\ UNCHANGED <<leader, result, newest>>
    BY <1>1, <1>3, <2>3 DEF Enter, TypeOK, redisVars, Steps
  <2> QED  BY <1>3, <2>1, <2>2, <2>3 DEF Enter
<1>4. ASSUME NEW c \in Callers, Fetch(c) \/ FetchFails(c)
      PROVE  TypeOK'
  BY <1>1, <1>4, Constants DEF Fetch, FetchFails, TypeOK, redisVars, cacheVars, Steps, Answer
<1>5. ASSUME NEW c \in Callers, Store(c)
      PROVE  TypeOK'
  <2>1. entry' \in [value : Answer, expires : Nat]
    BY <1>5, Constants DEF Store, TypeOK, Lifetime
  <2> QED  BY <1>1, <1>5, <2>1, Constants DEF Store, TypeOK, redisVars, Steps
<1>6. ASSUME NEW c \in Callers, Close(c)
      PROVE  TypeOK'
  <2>1. result[c] \in Answer
    BY DEF TypeOK
  <2>2. /\ pc' \in [Callers -> Steps]
        /\ result' \in [Callers -> Answer]
        /\ leader' \in [Callers -> Callers \union {NoCaller}]
        /\ newest' \in Versions
    BY <1>6, <2>1, AnsweredType DEF Close
  <2> QED  BY <1>1, <1>6, <2>2 DEF Close, TypeOK, redisVars, cacheVars
<1>7. CASE Change
  BY <1>1, <1>7, Constants DEF Change, TypeOK, cacheVars, callVars, Versions
<1>8. CASE Elapse
  <2>1. pc' \in [Callers -> Steps]
    BY <1>8 DEF Elapse, TypeOK, Steps
  <2>2. result' \in [Callers -> Answer] /\ least' \in [Callers -> Versions]
    BY <1>8, Constants DEF Elapse, TypeOK, Versions
  <2> QED  BY <1>1, <1>8, <2>1, <2>2, Constants DEF Elapse, TypeOK, redisVars, cacheVars
<1>9. CASE UNCHANGED vars
  BY <1>1, <1>9 DEF vars, redisVars, cacheVars, callVars, TypeOK
<1> QED  BY <1>2, <1>3, <1>4, <1>5, <1>6, <1>7, <1>8, <1>9 DEF Next, Lookup

-----------------------------------------------------------------------------
(* The invariant.                                                           *)

LEMMA CacheInit == Init => CacheInv
<1> SUFFICES ASSUME Init PROVE CacheInv
  OBVIOUS
<1>1. ~Hit /\ flight = NoCaller /\ version = 0
  BY DEF Init, Hit
<1>2. FlightInv /\ StoredInv /\ WaitInv
  BY <1>1, Constants DEF Init, FlightInv, StoredInv, WaitInv
<1>3. NewestInv
  BY Constants DEF Init, NewestInv
<1>4. OrderInv /\ AgeInv
  BY <1>1, Constants DEF Init, OrderInv, AgeInv
<1> QED  BY <1>2, <1>3, <1>4 DEF CacheInv

\* Callers that are answered out of a good entry, or with what it says, or with an error.
LEMMA AnsweredInv ==
    ASSUME TypeOK, CacheInv, NEW S \in SUBSET Callers, NEW value \in Answer,
           Answered(S, value),
           value # Error => Hit /\ value = entry.value,
           \A c \in S : flight # c,
           \A c \in Callers \ S : leader[c] # NoCaller => leader[c] \notin S,
           UNCHANGED <<now, redisVars, cacheVars, start>>,
           \A c \in Callers : least'[c] \in {least[c], newest}
    PROVE  CacheInv'
<1>1. newest' \in Versions /\ newest <= newest' /\ newest' <= version
  BY Constants DEF CacheInv, AgeInv, NewestInv, Answered, TypeOK, Answer
<1>2. Hit => newest' <= entry.value
  BY Constants DEF CacheInv, OrderInv, Answered, TypeOK, Answer
<1>3. \A c \in Callers : pc'[c] = IF c \in S THEN "done" ELSE pc[c]
  BY DEF Answered
<1>4. \A c \in Callers \ S : result'[c] = result[c] /\ leader'[c] = leader[c]
  BY DEF Answered
<1>5. \A c \in S : leader'[c] = NoCaller
  BY DEF Answered
<1>6. Hit' = Hit
  BY DEF Hit, cacheVars
<1>7. FlightInv'
  BY <1>3, <1>6 DEF CacheInv, FlightInv, cacheVars
<1>8. StoredInv'
  BY <1>3, <1>4 DEF CacheInv, StoredInv, cacheVars
<1>9. WaitInv'
  BY <1>3, <1>4, <1>5, Constants DEF CacheInv, WaitInv, TypeOK
<1>10. NewestInv'
  BY <1>1, Constants DEF CacheInv, NewestInv, redisVars, TypeOK
<1>11. OrderInv'
  <2>1. ASSUME NEW c \in Callers, pc'[c] = "got", result'[c] # Error
        PROVE  newest' <= result'[c] /\ result'[c] <= version'
    <3>1. c \notin S /\ pc[c] = "got" /\ result'[c] = result[c]
      BY <1>3, <1>4, <2>1
    <3>2. ~Hit
      BY <3>1, Constants DEF CacheInv, FlightInv
    <3>3. newest' = newest
      BY <3>2 DEF Answered
    <3> QED  BY <2>1, <3>1, <3>3 DEF CacheInv, OrderInv, redisVars
  <2> QED  BY <1>2, <1>6, <2>1, Constants DEF CacheInv, OrderInv, cacheVars, TypeOK, Answer
<1>12. AgeInv'
  BY <1>3, <1>4 DEF CacheInv, AgeInv, cacheVars, redisVars
<1> QED  BY <1>7, <1>8, <1>9, <1>10, <1>11, <1>12 DEF CacheInv

LEMMA CallInv ==
    ASSUME TypeOK, CacheInv, NEW c \in Callers, Call(c)
    PROVE  CacheInv'
<1>1. pc[c] \in {"idle", "done"} /\ UNCHANGED <<now, redisVars, cacheVars, start>>
  BY DEF Call
<1>2. \A d \in Callers : least'[d] \in {least[d], newest}
  BY DEF Call, TypeOK
<1>3. flight # c /\ \A d \in Callers : leader[d] # c
  BY <1>1, Constants DEF CacheInv, FlightInv, WaitInv, TypeOK
<1>4. CASE Hit
  <2>1. entry.value \in Answer
    BY DEF TypeOK
  <2>2. Answered({c}, entry.value)
    BY <1>4 DEF Call
  <2>3. {c} \in SUBSET Callers /\ \A d \in {c} : flight # d
    BY <1>3
  <2>4. \A d \in Callers \ {c} : leader[d] # NoCaller => leader[d] \notin {c}
    BY <1>3
  <2> QED  BY <1>1, <1>2, <1>4, <2>1, <2>2, <2>3, <2>4, AnsweredInv
<1>5. CASE ~Hit
  <2>1. /\ pc' = [pc EXCEPT ![c] = "missed"] /\ result' = [result EXCEPT ![c] = Error]
        /\ UNCHANGED <<leader, newest>>
    BY <1>5 DEF Call
  <2>2. Hit' = Hit
    BY <1>1 DEF Hit, cacheVars
  <2>3. FlightInv' /\ StoredInv'
    BY <1>1, <1>3, <2>1, <2>2 DEF CacheInv, FlightInv, StoredInv, cacheVars, TypeOK
  <2>4. WaitInv'
    BY <1>1, <1>3, <2>1 DEF CacheInv, WaitInv, TypeOK
  <2>5. NewestInv'
    BY <1>1, <1>2, <2>1, Constants DEF CacheInv, NewestInv, redisVars, TypeOK
  <2>6. OrderInv' /\ AgeInv'
    BY <1>1, <2>1, <2>2 DEF CacheInv, OrderInv, AgeInv, cacheVars, redisVars, TypeOK
  <2> QED  BY <2>3, <2>4, <2>5, <2>6 DEF CacheInv
<1> QED  BY <1>4, <1>5

LEMMA EnterInv ==
    ASSUME TypeOK, CacheInv, NEW c \in Callers, Enter(c)
    PROVE  CacheInv'
<1>1. pc[c] = "missed" /\ UNCHANGED <<now, redisVars, entry, least>>
  BY DEF Enter
<1>2. Hit' = Hit
  BY <1>1 DEF Hit
<1>3. flight # c /\ \A d \in Callers : leader[d] # c
  BY <1>1, Constants DEF CacheInv, FlightInv, WaitInv, TypeOK
<1>4. CASE Hit
  <2>1. entry.value \in Answer
    BY DEF TypeOK
  <2>2. Answered({c}, entry.value) /\ UNCHANGED <<flight, start>>
    BY <1>4 DEF Enter
  <2> QED  BY <1>1, <1>3, <1>4, <2>1, <2>2, AnsweredInv DEF cacheVars
<1>5. CASE ~Hit /\ Shared
  <2>1. /\ pc' = [pc EXCEPT ![c] = "waiting"] /\ leader' = [leader EXCEPT ![c] = flight]
        /\ UNCHANGED <<flight, start, result, newest>>
    BY <1>5 DEF Enter
  <2>2. flight \in Callers /\ pc[flight] \in {"sent", "got"}
    BY <1>5 DEF Shared, CacheInv, FlightInv, TypeOK
  <2>3. FlightInv' /\ StoredInv'
    BY <1>1, <1>2, <1>3, <2>1 DEF CacheInv, FlightInv, StoredInv, TypeOK
  <2>4. WaitInv'
    BY <1>1, <1>3, <2>1, <2>2, Constants DEF CacheInv, WaitInv, TypeOK
  <2>5. NewestInv' /\ OrderInv' /\ AgeInv'
    BY <1>1, <1>2, <2>1 DEF CacheInv, NewestInv, OrderInv, AgeInv, redisVars, TypeOK
  <2> QED  BY <2>3, <2>4, <2>5 DEF CacheInv
<1>6. CASE ~Hit /\ ~Shared
  <2>1. /\ pc' = [pc EXCEPT ![c] = "sent"] /\ flight' = c /\ start' = [start EXCEPT ![c] = now]
        /\ UNCHANGED <<leader, result, newest>>
    BY <1>5, <1>6 DEF Enter
  <2>2. \A d \in Callers : pc[d] \notin {"sent", "got"}
    BY <1>6, Constants DEF Shared, CacheInv, FlightInv
  <2>3. FlightInv' /\ StoredInv'
    BY <1>1, <1>2, <1>6, <2>1, <2>2 DEF CacheInv, FlightInv, StoredInv, TypeOK
  <2>4. WaitInv'
    BY <1>1, <1>3, <2>1, <2>2 DEF CacheInv, WaitInv, TypeOK
  <2>5. NewestInv' /\ OrderInv'
    BY <1>1, <1>2, <2>1, <2>2 DEF CacheInv, NewestInv, OrderInv, redisVars, TypeOK
  <2>6. AgeInv'
    BY <1>1, <2>1, <2>2, Constants DEF CacheInv, AgeInv, redisVars, TypeOK
  <2> QED  BY <2>3, <2>4, <2>5, <2>6 DEF CacheInv
<1> QED  BY <1>4, <1>5, <1>6

LEMMA FetchInv ==
    ASSUME TypeOK, CacheInv, NEW c \in Callers, Fetch(c) \/ FetchFails(c)
    PROVE  CacheInv'
<1>1. /\ pc[c] \in {"sent", "got"} /\ pc' = [pc EXCEPT ![c] = "got"]
      /\ UNCHANGED <<now, redisVars, cacheVars, leader, start, newest, least>>
  BY DEF Fetch, FetchFails
<1>2. PICK got \in {version, Error} : result' = [result EXCEPT ![c] = got]
  BY DEF Fetch, FetchFails
<1>3. Hit' = Hit
  BY <1>1 DEF Hit, cacheVars
<1>4. FlightInv' /\ StoredInv'
  BY <1>1, <1>2, <1>3 DEF CacheInv, FlightInv, StoredInv, cacheVars, TypeOK
<1>5. WaitInv'
  BY <1>1 DEF CacheInv, WaitInv, TypeOK
<1>6. NewestInv'
  BY <1>1 DEF CacheInv, NewestInv, redisVars
<1>7. OrderInv'
  BY <1>1, <1>2, <1>3, Constants DEF CacheInv, OrderInv, NewestInv, cacheVars, redisVars, TypeOK
<1>8. AgeInv'
  <2>1. version \in Versions /\ ended[version] = MaxTime + 1 /\ start[c] <= MaxTime + 1
    BY <1>1, Constants DEF CacheInv, NewestInv, AgeInv, TypeOK
  <2> QED  BY <1>1, <1>2, <2>1 DEF CacheInv, AgeInv, cacheVars, redisVars, TypeOK
<1> QED  BY <1>4, <1>5, <1>6, <1>7, <1>8 DEF CacheInv

LEMMA StoreInv ==
    ASSUME TypeOK, CacheInv, NEW c \in Callers, Store(c)
    PROVE  CacheInv'
<1>1. /\ pc[c] = "got" /\ pc' = [pc EXCEPT ![c] = "stored"] /\ flight' = NoCaller
      /\ entry' = [value |-> result[c], expires |-> now + Lifetime(result[c])]
      /\ start' = [start EXCEPT ![c] = 0]
      /\ UNCHANGED <<now, redisVars, leader, result, newest, least>>
  BY DEF Store
<1>2. flight = c /\ ~Hit /\ result[c] \in Answer
  BY <1>1, Constants DEF CacheInv, FlightInv, TypeOK
<1>3. \A d \in Callers \ {c} : pc'[d] = pc[d] /\ pc[d] \notin {"sent", "got"} /\ start'[d] = start[d]
  BY <1>1, <1>2 DEF CacheInv, FlightInv, TypeOK
<1>4. pc'[c] = "stored"
  BY <1>1 DEF TypeOK
<1>5. entry'.value = result[c]
      /\ entry'.expires = IF result[c] = Error THEN now ELSE now + TTL
  BY <1>1, Constants DEF Lifetime, TypeOK
\* Nothing else was stored and not announced: its entry would still be good.
<1>6. \A d \in Callers : pc[d] = "stored" => result[d] = Error
  <2>1. ASSUME NEW d \in Callers, pc[d] = "stored", result[d] # Error PROVE Hit
    BY <2>1, Constants DEF CacheInv, StoredInv, Hit, TypeOK
  <2> QED  BY <1>2, <2>1
<1>7. FlightInv'
  BY <1>1, <1>3, <1>4, Constants DEF FlightInv
<1>8. StoredInv'
  <2>1. result[c] # Error => entry' = [value |-> result[c], expires |-> now + TTL]
    BY <1>1 DEF Lifetime
  <2> QED  BY <1>1, <1>3, <1>6, <2>1 DEF StoredInv
<1>9. WaitInv'
  BY <1>1, <1>3, <1>4 DEF CacheInv, WaitInv, TypeOK
<1>10. NewestInv'
  BY <1>1 DEF CacheInv, NewestInv, redisVars
<1>11. OrderInv'
  <2>1. Hit' => result[c] # Error
    BY <1>1, <1>5, Constants DEF Hit, TypeOK
  <2>2. result[c] # Error => newest <= result[c]
    BY <1>1 DEF CacheInv, OrderInv
  <2> QED  BY <1>1, <1>3, <1>4, <1>5, <2>1, <2>2 DEF OrderInv
<1>12. AgeInv'
  <2>1. entry'.expires <= now + TTL
    BY <1>5, Constants DEF TypeOK
  <2>2. ASSUME result[c] # Error
        PROVE  result[c] <= version /\ now + TTL <= ended[result[c]] + TTL + Timeout
    <3>1. result[c] \in Versions /\ ended[result[c]] \in Nat
      BY <1>2, <2>2 DEF Answer, TypeOK
    <3>2. start[c] <= ended[result[c]] /\ now <= start[c] + Timeout /\ result[c] <= version
      BY <1>1, <2>2 DEF CacheInv, AgeInv, OrderInv
    <3> QED  BY <3>1, <3>2, Constants DEF TypeOK
  <2> QED  BY <1>1, <1>3, <1>4, <1>5, <2>1, <2>2 DEF AgeInv, redisVars
<1> QED  BY <1>7, <1>8, <1>9, <1>10, <1>11, <1>12 DEF CacheInv

LEMMA CloseInv ==
    ASSUME TypeOK, CacheInv, NEW c \in Callers, Close(c)
    PROVE  CacheInv'
<1> DEFINE S == {c} \union {d \in Callers : leader[d] = c}
<1>1. pc[c] = "stored" /\ Answered(S, result[c])
      /\ UNCHANGED <<now, redisVars, cacheVars, start, least>>
  BY DEF Close
<1>2. result[c] \in Answer
  BY DEF TypeOK
<1>3. result[c] # Error => Hit /\ result[c] = entry.value
  BY <1>1, Constants DEF CacheInv, StoredInv, Hit, TypeOK
<1>4. \A d \in S : flight # d
  <2>1. \A d \in S : pc[d] \in {"stored", "waiting"}
    BY <1>1, Constants DEF CacheInv, WaitInv
  <2> QED  BY <2>1 DEF CacheInv, FlightInv
<1>5. \A d \in Callers \ S : leader[d] # NoCaller => leader[d] \notin S
  <2>1. ASSUME NEW d \in Callers \ S, leader[d] # NoCaller, leader[d] \in S PROVE FALSE
    <3>1. leader[d] # c /\ pc[d] = "waiting" /\ pc[leader[d]] \in {"sent", "got", "stored"}
      BY <2>1 DEF CacheInv, WaitInv
    <3>2. leader[leader[d]] = c
      BY <2>1, <3>1
    <3>3. pc[leader[d]] = "waiting"
      BY <2>1, <3>2, Constants DEF CacheInv, WaitInv
    <3> QED  BY <3>1, <3>3
  <2> QED  BY <2>1
<1>6. S \in SUBSET Callers
  OBVIOUS
<1> HIDE DEF S
<1> QED  BY <1>1, <1>2, <1>3, <1>4, <1>5, <1>6, AnsweredInv

LEMMA ChangeInv ==
    ASSUME TypeOK, CacheInv, Change
    PROVE  CacheInv'
<1>1. /\ version' = version + 1 /\ ended' = [ended EXCEPT ![version] = now]
      /\ UNCHANGED <<now, cacheVars, callVars>>
  BY DEF Change
<1>2. Hit' = Hit
  BY <1>1 DEF Hit, cacheVars
<1>3. FlightInv' /\ StoredInv' /\ WaitInv'
  BY <1>1, <1>2 DEF CacheInv, FlightInv, StoredInv, WaitInv, cacheVars, callVars
<1>4. NewestInv' /\ OrderInv'
  <2>1. version \in Nat /\ newest \in Nat /\ newest <= version'
    BY <1>1, Constants DEF CacheInv, NewestInv, TypeOK
  <2>2. ASSUME NEW v \in Versions, v >= version'
        PROVE  ended'[v] = MaxTime + 1
    <3>1. v \in Nat /\ v >= version /\ v # version
      BY <1>1, <2>1, <2>2, Constants
    <3> QED  BY <1>1, <3>1 DEF CacheInv, NewestInv, TypeOK
  <2>3. NewestInv'
    BY <1>1, <2>1, <2>2 DEF CacheInv, NewestInv, callVars
  <2>4. ASSUME NEW c \in Callers, pc[c] = "got", result[c] # Error
        PROVE  result[c] <= version'
    <3>1. result[c] <= version
      BY <2>4 DEF CacheInv, OrderInv
    <3>2. result[c] \in Answer
      BY DEF TypeOK
    <3>3. result[c] \in Versions
      BY <2>4, <3>2 DEF Answer
    <3>4. result[c] \in Nat
      BY <3>3, Constants
    <3> QED  BY <1>1, <2>1, <3>1, <3>4
  <2> QED  BY <1>1, <1>2, <2>3, <2>4 DEF CacheInv, OrderInv, cacheVars, callVars
<1>5. AgeInv'
  <2>1. \A v \in Versions : ended'[v] = IF v = version THEN now ELSE ended[v]
    BY <1>1 DEF TypeOK
  <2>2. entry.value # Error => entry.value <= version' /\ entry.expires <= ended'[entry.value] + TTL + Timeout
    <3> SUFFICES ASSUME entry.value # Error
                 PROVE  entry.value <= version' /\ entry.expires <= ended'[entry.value] + TTL + Timeout
      OBVIOUS
    <3>1. entry.value \in Versions /\ entry.value \in Nat /\ version \in Nat /\ entry.expires \in Nat
          /\ now \in Nat
      <4>1. entry.value \in Answer /\ entry.expires \in Nat /\ version \in Versions
            /\ now \in 0 .. MaxTime
        BY DEF TypeOK
      <4>2. entry.value \in Versions
        BY <4>1 DEF Answer
      <4>3. entry.value \in Nat /\ version \in Nat
        BY <4>1, <4>2, Constants
      <4>4. now \in Nat
        BY <4>1, Constants
      <4> QED  BY <4>1, <4>2, <4>3, <4>4
    <3>2. /\ entry.expires <= now + TTL /\ entry.value <= version
          /\ entry.expires <= ended[entry.value] + TTL + Timeout
      BY DEF CacheInv, AgeInv
    <3>3. ended'[entry.value] \in {now, ended[entry.value]}
      BY <2>1, <3>1
    <3> QED  BY <1>1, <3>1, <3>2, <3>3, Constants
  <2>3. ASSUME NEW c \in Callers, pc[c] \in {"sent", "got"}
        PROVE  (pc[c] = "got" /\ result[c] # Error) => start[c] <= ended'[result[c]]
    BY <1>1, <2>1, <2>3, Constants DEF CacheInv, AgeInv, TypeOK, Answer
  <2> QED  BY <1>1, <2>2, <2>3 DEF CacheInv, AgeInv, cacheVars, callVars
<1> QED  BY <1>3, <1>4, <1>5 DEF CacheInv

LEMMA ElapseInv ==
    ASSUME TypeOK, CacheInv, Elapse
    PROVE  CacheInv'
<1>1. now' = now + 1 /\ UNCHANGED <<redisVars, cacheVars, leader, start, newest>>
  BY DEF Elapse
<1>2. \A c \in Callers : /\ pc'[c] = IF pc[c] = "done" THEN "idle" ELSE pc[c]
                         /\ pc[c] # "done" => result'[c] = result[c]
                         /\ least'[c] = IF pc[c] = "done" THEN 0 ELSE least[c]
  BY DEF Elapse
<1>3. \A c \in Callers : pc[c] \in {"idle", "waiting", "done", "sent", "got"}
  BY DEF Elapse
<1>4. Hit' => Hit
  BY <1>1 DEF Hit, cacheVars, TypeOK
<1>5. FlightInv'
  BY <1>1, <1>2, <1>4 DEF CacheInv, FlightInv, cacheVars
<1>6. StoredInv'
  BY <1>2, <1>3 DEF StoredInv
<1>7. WaitInv'
  BY <1>1, <1>2, Constants DEF CacheInv, WaitInv, TypeOK
<1>8. NewestInv'
  <2>1. newest \in Nat
    BY Constants DEF TypeOK
  <2>2. \A c \in Callers : least'[c] <= newest
    BY <1>2, <2>1 DEF CacheInv, NewestInv
  <2> QED  BY <1>1, <2>2 DEF CacheInv, NewestInv, redisVars
<1>9. OrderInv'
  BY <1>1, <1>2, <1>4 DEF CacheInv, OrderInv, cacheVars, redisVars
<1>10. AgeInv'
  <2>1. \A c \in Callers : pc[c] \in {"sent", "got"} => now < start[c] + Timeout
    BY DEF Elapse
  <2>2. now' \in Nat /\ now' = now + 1 /\ entry.expires \in Nat
    BY <1>1 DEF TypeOK
  <2>3. ASSUME NEW c \in Callers, pc[c] \in {"sent", "got"}
        PROVE  start[c] <= now' /\ now' <= start[c] + Timeout
    BY <2>1, <2>2, <2>3, Constants DEF CacheInv, AgeInv, TypeOK
  <2>4. entry.expires <= now' + TTL
    BY <2>2, Constants DEF CacheInv, AgeInv, TypeOK
  <2> QED  BY <1>1, <1>2, <2>3, <2>4 DEF CacheInv, AgeInv, cacheVars, redisVars
<1> QED  BY <1>5, <1>6, <1>7, <1>8, <1>9, <1>10 DEF CacheInv

LEMMA CacheStep == TypeOK /\ CacheInv /\ [Next]_vars => CacheInv'
<1> SUFFICES ASSUME TypeOK, CacheInv, [Next]_vars PROVE CacheInv'
  OBVIOUS
<1>1. CASE UNCHANGED vars
  BY <1>1 DEF vars, redisVars, cacheVars, callVars, CacheInv, FlightInv, StoredInv, WaitInv,
              NewestInv, OrderInv, AgeInv, Hit
<1> QED
  BY <1>1, CallInv, EnterInv, FetchInv, StoreInv, CloseInv, ChangeInv, ElapseInv DEF Next, Lookup

LEMMA Invariance == Spec => [](TypeOK /\ CacheInv)
<1>1. TypeOK /\ CacheInv /\ [Next]_vars => TypeOK' /\ CacheInv'
  BY CacheStep, TypeStep DEF CacheInv
<1> QED  BY <1>1, TypeInit, CacheInit, PTL DEF Spec

-----------------------------------------------------------------------------
(* The promises of the cache.                                               *)

\* Every reachable state is well-typed, and never are two GETs under way for a user.
THEOREM TypeCorrect == Spec => []TypeOK
<1> QED  BY Invariance, PTL

\* Whom a step answers, and with what.
LEMMA AnswersOf ==
    ASSUME TypeOK, CacheInv, [Next]_vars, NEW c \in Callers, pc'[c] = "done", result'[c] # Error
    PROVE  \/ pc[c] = "done" /\ result'[c] = result[c] /\ least'[c] = least[c]
           \/ Hit /\ result'[c] = entry.value /\ least'[c] <= newest /\ ended' = ended
<1>1. \A d \in Callers : least[d] <= newest /\ newest \in Nat /\ least[d] \in Nat
  BY Constants DEF CacheInv, NewestInv, TypeOK
<1>2. ASSUME NEW d \in Callers, Call(d) PROVE least'[c] <= newest /\ ended' = ended
  BY <1>1, <1>2 DEF Call, redisVars, TypeOK
<1>3. ASSUME NEW d \in Callers, Call(d)
      PROVE  (pc[c] = "done" /\ result'[c] = result[c] /\ least'[c] = least[c])
             \/ (Hit /\ result'[c] = entry.value)
  BY <1>3 DEF Call, Answered, TypeOK
<1>4. ASSUME NEW d \in Callers, Enter(d)
      PROVE  /\ least' = least /\ ended' = ended
             /\ (pc[c] = "done" /\ result'[c] = result[c]) \/ (Hit /\ result'[c] = entry.value)
  BY <1>4 DEF Enter, Answered, redisVars, TypeOK
<1>5. ASSUME NEW d \in Callers, Fetch(d) \/ FetchFails(d) \/ Store(d)
      PROVE  pc[c] = "done" /\ result'[c] = result[c] /\ least'[c] = least[c]
  BY <1>5 DEF Fetch, FetchFails, Store, TypeOK
<1>6. ASSUME NEW d \in Callers, Close(d)
      PROVE  /\ least' = least /\ ended' = ended
             /\ (pc[c] = "done" /\ result'[c] = result[c]) \/ (Hit /\ result'[c] = entry.value)
  <2> DEFINE S == {d} \union {e \in Callers : leader[e] = d}
  <2>1. CASE c \in S
    <3>1. result'[c] = result[d] /\ pc[d] = "stored"
      BY <1>6, <2>1 DEF Close, Answered
    <3>2. Hit /\ result[d] = entry.value
      BY <3>1, Constants DEF CacheInv, StoredInv, Hit, TypeOK
    <3> QED  BY <1>6, <3>1, <3>2 DEF Close, redisVars
  <2>2. CASE c \notin S
    BY <1>6, <2>2 DEF Close, Answered, redisVars
  <2> QED  BY <2>1, <2>2
<1>7. CASE Change \/ UNCHANGED vars
  BY <1>7 DEF Change, vars, callVars
<1>8. CASE Elapse
  BY <1>8 DEF Elapse
<1> QED  BY <1>1, <1>2, <1>3, <1>4, <1>5, <1>6, <1>7, <1>8 DEF Next, Lookup

\* Nobody is answered with an override older than one answered before the call.
THEOREM ReadsAreMonotone == Spec => []MonotoneReads
<1>1. Init => MonotoneReads
  BY DEF Init, MonotoneReads
<1>2. TypeOK /\ CacheInv /\ MonotoneReads /\ [Next]_vars => MonotoneReads'
  <2> SUFFICES ASSUME TypeOK, CacheInv, MonotoneReads, [Next]_vars,
                      NEW c \in Callers, pc'[c] = "done", result'[c] # Error
               PROVE  result'[c] >= least'[c]
    BY DEF MonotoneReads
  <2>1. CASE pc[c] = "done" /\ result'[c] = result[c] /\ least'[c] = least[c]
    BY <2>1 DEF MonotoneReads
  <2>2. CASE Hit /\ result'[c] = entry.value /\ least'[c] <= newest
    <3>1. entry.value \in Nat /\ entry.value >= newest
      BY <2>2, Constants DEF CacheInv, OrderInv, TypeOK, Answer
    <3>2. TypeOK'
      BY TypeStep, CacheStep DEF CacheInv
    <3>3. least'[c] \in Nat /\ newest \in Nat
      BY <3>2, Constants DEF TypeOK
    <3> QED  BY <2>2, <3>1, <3>3
  <2> QED  BY <2>1, <2>2, AnswersOf
<1> QED  BY <1>1, <1>2, Invariance, PTL DEF Spec

\* An override is answered no longer than ttl and a timeout after it was replaced.
THEOREM StalenessIsBounded == Spec => BoundedStaleness
<1> DEFINE Fresh == \A c \in Callers : (pc[c] # "done" /\ pc'[c] = "done" /\ result'[c] # Error)
                        => now < ended[result'[c]] + TTL + Timeout
<1>1. ASSUME TypeOK, CacheInv, [Next]_vars, NEW c \in Callers,
             pc[c] # "done", pc'[c] = "done", result'[c] # Error
      PROVE  now < ended[result'[c]] + TTL + Timeout
  <2>1. Hit /\ result'[c] = entry.value
    BY <1>1, AnswersOf
  <2>2. entry.value \in Versions /\ ended[entry.value] \in Nat
    BY <1>1, <2>1 DEF TypeOK, Answer
  <2>3. now < entry.expires /\ entry.expires <= ended[entry.value] + TTL + Timeout
    BY <1>1, <2>1 DEF Hit, CacheInv, AgeInv
  <2> QED  BY <1>1, <2>1, <2>2, <2>3, Constants DEF TypeOK
<1>2. TypeOK /\ CacheInv /\ [Next]_vars => [Fresh]_vars
  BY <1>1
<1> QED  BY <1>2, Invariance, PTL DEF Spec, BoundedStaleness
=============================================================================
