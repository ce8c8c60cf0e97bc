------------------------- MODULE GatewayCheckProofs -------------------------
(***************************************************************************)
(* Machine-checked theorems about GatewayCheck, for every number of        *)
(* concurrent requests, every set of limits and every bound.               *)
(***************************************************************************)
EXTENDS GatewayCheck, FiniteSetTheorems, TLAPS

-----------------------------------------------------------------------------
(* Types.                                                                   *)

LEMMA KeyType == \A k \in Keys : k[2] \in Nat /\ k[2] \in 0 .. LastWindow
BY LimitsAssumption DEF Keys

LEMMA NoRequestType == NoRequest \in Request
<1>1. <<user, 0>> \in Keys
  BY LimitsAssumption DEF Keys
<1> QED  BY <1>1, LimitsAssumption DEF NoRequest, Request, Regions

LEMMA AnsweredType ==
    ASSUME req \in [Requests -> Request], NEW q \in Requests
    PROVE  Answered(q) \in [Requests -> Request]
BY NoRequestType DEF Answered

\* The types of the three history variables.
HistoryTypes == /\ admitted \in [Regions -> [Keys -> SUBSET Nat]]
                /\ uncounted \in [Regions -> [Keys -> Nat]]
                /\ errors \in [Regions -> [Keys -> Nat]]

LEMMA TypeInit == Init => TypeOK
<1> SUFFICES ASSUME Init PROVE TypeOK
  OBVIOUS
<1>1. now \in 0 .. LastWindow
  BY LimitsAssumption DEF Init, Views!Init
<1>2. count \in [Regions -> [Keys -> Nat]] /\ view \in [Regions -> [Keys -> [Regions -> Nat]]]
  BY DEF Init, Views!Init, Views!Nothing
<1>3. policy \in [Regions -> Limits]
  BY LimitsAssumption DEF Init
<1>4. req \in [Requests -> Request]
  BY NoRequestType DEF Init
<1>5. HistoryTypes
  BY DEF Init, HistoryTypes
<1> QED  BY <1>1, <1>2, <1>3, <1>4, <1>5 DEF TypeOK, HistoryTypes

\* What the steps of RegionalViews do to the types of the three variables they own.
ViewTypes == /\ now \in 0 .. LastWindow
             /\ count \in [Regions -> [Keys -> Nat]]
             /\ view \in [Regions -> [Keys -> [Regions -> Nat]]]

LEMMA CountType ==
    ASSUME ViewTypes, NEW r \in Regions, NEW k \in Keys, Views!Count(r, k)
    PROVE  ViewTypes'
BY DEF ViewTypes, Views!Count

LEMMA ReplicateType == ViewTypes /\ Replicate => ViewTypes'
<1> SUFFICES ASSUME ViewTypes, Replicate PROVE ViewTypes'
  OBVIOUS
<1>1. ASSUME NEW r \in Busy, NEW o \in Regions, NEW k \in Keys, NEW v \in 1 .. count[o][k],
             Views!Learn(r, o, k, v)
      PROVE  ViewTypes'
  <2>1. count[o][k] \in Nat /\ v \in Nat
    BY DEF ViewTypes
  <2> QED  BY <1>1, <2>1, RegionsAssumption DEF ViewTypes, Views!Learn
<1>2. ASSUME NEW r \in Regions, NEW k \in Keys, Views!Forget(r, {k})
      PROVE  ViewTypes'
  BY <1>2 DEF ViewTypes, Views!Forget, Views!Nothing
<1> QED  BY <1>1, <1>2 DEF Replicate

LEMMA LocalAnswerType ==
    ASSUME TypeOK, NEW q \in Requests, AnsweredLocally(q)
    PROVE  /\ req' \in [Requests -> Request]
           /\ admitted' \in [Regions -> [Keys -> SUBSET Nat]]
<1>1. req[q].region \in Regions /\ req[q].key \in Keys /\ req[q].slot \in Nat
  BY DEF TypeOK, Request
<1> QED  BY <1>1, AnsweredType DEF TypeOK, AnsweredLocally

\* What every step has to keep, beside the three variables of RegionalViews.
Others == /\ policy \in [Regions -> Limits]
          /\ req \in [Requests -> Request]
          /\ HistoryTypes

LEMMA HandlerType ==
    ASSUME TypeOK, NEW q \in Requests, Handler(q)
    PROVE  ViewTypes' /\ Others'
<1>0. /\ ViewTypes /\ Others
      /\ req[q] \in Request /\ req[q].region \in Regions /\ req[q].key \in Keys
  BY DEF TypeOK, ViewTypes, Others, HistoryTypes, Request
<1> USE DEF TypeOK
<1>1. ASSUME NEW r \in Busy, Arrive(q, r)
      PROVE  req' \in [Requests -> Request]
  <2>1. policy[r] \in Limits
    BY RegionsAssumption
  <2> QED  BY <1>1, <2>1, NoRequestType, RegionsAssumption DEF Arrive, Request
<1>2. ASSUME NEW a \in BOOLEAN, Limiter(q, a)
      PROVE  req' \in [Requests -> Request]
  <2>1. [req[q] EXCEPT !.pc = "global", !.local = a] \in Request
    BY <1>0 DEF Request
  <2> QED  BY <1>2, <2>1 DEF Limiter
<1>3. ASSUME NEW k \in Keys, Counted(q, k)
      PROVE  ViewTypes' /\ req' \in [Requests -> Request]
  <2>2. OwnSlot(req[q].region, k) \in Nat
    BY <1>0 DEF OwnSlot
  <2>3. ViewTypes'
    BY <1>0, <1>3, CountType DEF Counted
  <2>5. [req[q] EXCEPT !.pc = "counted", !.key = k, !.slot = OwnSlot(req[q].region, k)] \in Request
    BY <2>2, <1>0 DEF Request
  <2>6. req' = [req EXCEPT ![q] = [req[q] EXCEPT !.pc = "counted", !.key = k,
                                              !.slot = OwnSlot(req[q].region, k)]]
    BY <1>3 DEF Counted
  <2> QED  BY <2>3, <2>5, <2>6
<1>4. ASSUME NEW k \in Keys, CountFails(q, k)
      PROVE  ViewTypes' /\ Others'
  <2>1. ViewTypes'
    <3>1. CASE Views!Count(req[q].region, k)
      BY <1>0, <3>1, CountType
    <3>2. CASE UNCHANGED viewVars
      BY <1>0, <3>2 DEF viewVars, ViewTypes
    <3> QED  BY <1>4, <3>1, <3>2 DEF CountFails
  <2>2. req' \in [Requests -> Request]
    BY <1>4, AnsweredType DEF CountFails
  <2>3. errors' \in [Regions -> [Keys -> Nat]] /\ uncounted' \in [Regions -> [Keys -> Nat]]
    BY <1>0, <1>4 DEF CountFails, ReportsError
  <2> QED  BY <1>0, <1>4, <2>1, <2>2, <2>3 DEF CountFails, Others, HistoryTypes
<1>5. ASSUME Deny(q)
      PROVE  req' \in [Requests -> Request]
  <2>1. [req[q] EXCEPT !.pc = "denied"] \in Request
    BY <1>0 DEF Request
  <2> QED  BY <1>5, <2>1 DEF Deny
<1>6. CASE \E r \in Busy : Arrive(q, r)
  BY <1>0, <1>1, <1>6 DEF Arrive, viewVars, ViewTypes, history, HistoryTypes, Others
<1>7. CASE \E a \in BOOLEAN : Limiter(q, a)
  BY <1>0, <1>2, <1>7 DEF Limiter, viewVars, ViewTypes, history, HistoryTypes, Others
<1>8. CASE LimiterFails(q)
  BY <1>0, <1>8, AnsweredType DEF LimiterFails, viewVars, ViewTypes, history, HistoryTypes, Others
<1>9. CASE \E k \in Keys : Counted(q, k)
  BY <1>0, <1>3, <1>9 DEF Counted, history, HistoryTypes, Others
<1>10. CASE \E k \in Keys : CountFails(q, k)
  BY <1>4, <1>10
<1>11. CASE Deny(q)
  BY <1>0, <1>5, <1>11 DEF Deny, viewVars, ViewTypes, history, HistoryTypes, Others
<1>12. CASE Pass(q)
  BY <1>0, <1>12, LocalAnswerType DEF Pass, viewVars, ViewTypes, HistoryTypes, Others
<1>13. CASE DecideFails(q)
  <2>1. errors' \in [Regions -> [Keys -> Nat]]
    BY <1>0, <1>13 DEF DecideFails, ReportsError
  <2> QED  BY <1>0, <1>13, <2>1, LocalAnswerType DEF DecideFails, viewVars, ViewTypes, HistoryTypes, Others
<1> QED  BY <1>6, <1>7, <1>8, <1>9, <1>10, <1>11, <1>12, <1>13 DEF Handler

LEMMA TypeStep == TypeOK /\ [Next]_vars => TypeOK'
<1> SUFFICES ASSUME TypeOK, [Next]_vars PROVE TypeOK'
  OBVIOUS
<1>0. ViewTypes /\ Others
  BY DEF TypeOK, ViewTypes, Others, HistoryTypes
<1>v. SUFFICES ViewTypes' /\ Others'
  BY DEF TypeOK, ViewTypes, Others, HistoryTypes
<1>1. CASE \E q \in Requests : Handler(q)
  BY <1>1, HandlerType
<1>2. CASE \E r \in Busy, l \in Limits \union {0} : PolicyChange(r, l)
  <2>1. PICK r \in Busy, l \in Limits \union {0} : PolicyChange(r, l)
    BY <1>2
  <2>2. policy' \in [Regions -> Limits]
    BY <1>0, <2>1, LimitsAssumption, RegionsAssumption DEF PolicyChange, Valid, Others
  <2> QED  BY <1>0, <2>1, <2>2 DEF PolicyChange, viewVars, ViewTypes, history, HistoryTypes, Others
<1>3. CASE Replicate
  BY <1>0, <1>3, ReplicateType DEF Replicate, history, HistoryTypes, Others
<1>4. CASE NextMinute
  <2>1. ViewTypes'
    BY <1>0, <1>4, LimitsAssumption DEF NextMinute, Views!NextMinute, ViewTypes
  <2> QED  BY <1>0, <1>4, <2>1 DEF NextMinute, history, HistoryTypes, Others
<1>5. CASE UNCHANGED vars
  BY <1>0, <1>5 DEF vars, ViewTypes, HistoryTypes, Others
<1> QED  BY <1>1, <1>2, <1>3, <1>4, <1>5 DEF Next

-----------------------------------------------------------------------------
(* What a step does to the counts, the views and the time.                  *)

\* Counts rise, no view exceeds its count, and a view rises unless its window is over.
ViewsRise ==
    /\ \A o \in Regions, k \in Keys : count[o][k] <= count'[o][k]
    /\ ViewsTrue'
    /\ \A r, o \in Regions, k \in Keys : ~Views!Over(k) => view[r][k][o] <= view'[r][k][o]

LEMMA CountRises ==
    ASSUME ViewTypes, ViewsTrue, NEW r \in Regions, NEW k \in Keys, Views!Count(r, k)
    PROVE  ViewsRise
<1>1. \A o \in Regions, j \in Keys :
         count'[o][j] = IF o = r /\ j = k THEN count[o][j] + 1 ELSE count[o][j]
  BY DEF ViewTypes, Views!Count
<1>2. \A p, o \in Regions, j \in Keys :
         view'[p][j][o] = IF p = r /\ j = k /\ o = r THEN view[p][j][o] + 1 ELSE view[p][j][o]
  BY DEF ViewTypes, Views!Count
<1>3. \A p, o \in Regions, j \in Keys : view[p][j][o] \in Nat /\ count[o][j] \in Nat
  BY DEF ViewTypes
<1> QED  BY <1>1, <1>2, <1>3 DEF ViewsRise, ViewsTrue

LEMMA ReplicateRises == ViewTypes /\ ViewsTrue /\ Replicate => ViewsRise
<1> SUFFICES ASSUME ViewTypes, ViewsTrue, Replicate PROVE ViewsRise
  OBVIOUS
<1>0. \A p, o \in Regions, j \in Keys : view[p][j][o] \in Nat /\ count[o][j] \in Nat
  BY DEF ViewTypes
<1>1. ASSUME NEW r \in Busy, NEW o \in Regions, NEW k \in Keys, NEW v \in 1 .. count[o][k],
             Views!Learn(r, o, k, v)
      PROVE  ViewsRise
  <2>1. v \in Nat /\ v <= count[o][k] /\ r \in Regions
    BY <1>0, RegionsAssumption
  <2>2. \A p, s \in Regions, j \in Keys :
           view'[p][j][s] = IF p = r /\ j = k /\ s = o THEN v ELSE view[p][j][s]
    BY <1>1, <2>1 DEF ViewTypes, Views!Learn
  <2>3. view[r][k][o] < v /\ UNCHANGED count
    BY <1>1 DEF Views!Learn
  <2> QED  BY <1>0, <2>1, <2>2, <2>3 DEF ViewsRise, ViewsTrue
<1>2. ASSUME NEW r \in Regions, NEW k \in Keys, Views!Forget(r, {k})
      PROVE  ViewsRise
  <2>1. Views!Over(k) /\ UNCHANGED count
    BY <1>2 DEF Views!Forget
  <2>2. \A p, s \in Regions, j \in Keys :
           view'[p][j][s] = IF p = r /\ j = k THEN 0 ELSE view[p][j][s]
    BY <1>2 DEF ViewTypes, Views!Forget, Views!Nothing
  <2> QED  BY <1>0, <2>1, <2>2 DEF ViewsRise, ViewsTrue
<1> QED  BY <1>1, <1>2 DEF Replicate

LEMMA StillRises ==
    ASSUME ViewTypes, ViewsTrue, UNCHANGED <<count, view>>
    PROVE  ViewsRise
BY DEF ViewTypes, ViewsTrue, ViewsRise

LEMMA ViewStep == TypeOK /\ ViewsTrue /\ [Next]_vars => ViewsRise
<1> SUFFICES ASSUME TypeOK, ViewsTrue, [Next]_vars PROVE ViewsRise
  OBVIOUS
<1>0. ViewTypes
  BY DEF TypeOK, ViewTypes
<1>1. ASSUME NEW q \in Requests, Handler(q) PROVE ViewsRise
  <2>1. req[q].region \in Regions
    BY DEF TypeOK, Request
  <2>2. CASE \E k \in Keys : Counted(q, k)
    BY <1>0, <2>1, <2>2, CountRises DEF Counted
  <2>3. CASE \E k \in Keys : CountFails(q, k)
    <3>1. PICK k \in Keys : CountFails(q, k)
      BY <2>3
    <3>2. Views!Count(req[q].region, k) \/ UNCHANGED <<count, view>>
      BY <3>1 DEF CountFails, viewVars
    <3> QED  BY <1>0, <2>1, <3>2, CountRises, StillRises
  <2>4. CASE \/ \E r \in Busy : Arrive(q, r)
             \/ \E a \in BOOLEAN : Limiter(q, a)
             \/ LimiterFails(q) \/ Deny(q) \/ Pass(q) \/ DecideFails(q)
    <3>1. UNCHANGED <<count, view>>
      BY <2>4 DEF Arrive, Limiter, LimiterFails, Deny, Pass, DecideFails, viewVars
    <3> QED  BY <1>0, <3>1, StillRises
  <2> QED  BY <1>1, <2>2, <2>3, <2>4 DEF Handler
<1>2. ASSUME NEW r \in Busy, NEW l \in Limits \union {0}, PolicyChange(r, l) PROVE ViewsRise
  BY <1>0, <1>2, StillRises DEF PolicyChange, viewVars
<1>3. CASE NextMinute
  BY <1>0, <1>3, StillRises DEF NextMinute, Views!NextMinute
<1>4. CASE UNCHANGED vars
  BY <1>0, <1>4, StillRises DEF vars
<1> QED  BY <1>0, <1>1, <1>2, <1>3, <1>4, ReplicateRises DEF Next

\* A window that is over stays over.
LEMMA OverStays ==
    ASSUME TypeOK, now' \in {now, now + 1}, NEW k \in Keys, Views!Over(k)
    PROVE  Views!Over(k)'
BY KeyType, LimitsAssumption DEF TypeOK, Views!Over

LEMMA UsableNotOver ==
    ASSUME TypeOK, NEW k \in Keys, Views!Usable(k)
    PROVE  ~Views!Over(k)
BY KeyType, LimitsAssumption DEF TypeOK, Views!Over, Views!Usable

LEMMA TimeStep == TypeOK /\ [Next]_vars => now' \in {now, now + 1} /\ (now' # now => NextMinute)
<1> SUFFICES ASSUME TypeOK, [Next]_vars
             PROVE  now' \in {now, now + 1} /\ (now' # now => NextMinute)
  OBVIOUS
<1>1. ASSUME NEW q \in Requests, Handler(q) PROVE now' = now
  BY <1>1 DEF Handler, Arrive, Limiter, LimiterFails, Counted, CountFails, Deny, Pass, DecideFails,
              viewVars, Views!Count
<1>2. ASSUME NEW r \in Busy, NEW l \in Limits \union {0}, PolicyChange(r, l) PROVE now' = now
  BY <1>2 DEF PolicyChange, viewVars
<1>3. CASE Replicate
  BY <1>3 DEF Replicate, Views!Learn, Views!Forget
<1>4. CASE NextMinute
  BY <1>4 DEF NextMinute, Views!NextMinute
<1> QED  BY <1>1, <1>2, <1>3, <1>4 DEF Next, vars

-----------------------------------------------------------------------------
(* What a step does to the requests and to the record of those let through. *)

LEMMA RequestStep ==
    ASSUME TypeOK, [Next]_vars, NEW q \in Requests
    PROVE  \/ req'[q] = req[q]
           \/ \E k \in Keys : Counted(q, k)
           \/ Deny(q)
           \/ req'[q].pc \notin {"counted", "denied"}
<1>1. ASSUME NEW p \in Requests, Handler(p), p # q PROVE req'[q] = req[q]
  BY <1>1 DEF TypeOK, Handler, Arrive, Limiter, LimiterFails, Counted, CountFails, Deny, Pass,
              DecideFails, AnsweredLocally, Answered
<1>2. ASSUME Handler(q)
      PROVE  \/ \E k \in Keys : Counted(q, k)
             \/ Deny(q)
             \/ req'[q].pc \notin {"counted", "denied"}
  <2>1. req[q] \in Request
    BY DEF TypeOK
  <2>2. CASE LimiterFails(q) \/ (\E k \in Keys : CountFails(q, k)) \/ Pass(q) \/ DecideFails(q)
    <3>1. req' = Answered(q)
      BY <2>2 DEF LimiterFails, CountFails, Pass, DecideFails, AnsweredLocally
    <3> QED  BY <3>1 DEF TypeOK, Answered, NoRequest
  <2>3. CASE \E r \in Busy : Arrive(q, r)
    <3>1. PICK r \in Busy : req'[q] = [NoRequest EXCEPT !.pc = "limiter", !.region = r, !.limit = policy[r]]
      BY <2>3 DEF TypeOK, Arrive
    <3>2. req'[q].pc = "limiter"
      BY <3>1 DEF NoRequest
    <3> QED  BY <3>2
  <2>4. CASE \E a \in BOOLEAN : Limiter(q, a)
    <3>1. PICK a \in BOOLEAN : req'[q] = [req[q] EXCEPT !.pc = "global", !.local = a]
      BY <2>4 DEF TypeOK, Limiter
    <3>2. req'[q].pc = "global"
      BY <2>1, <3>1 DEF Request
    <3> QED  BY <3>2
  <2> QED  BY <1>2, <2>2, <2>3, <2>4 DEF Handler
<1>3. CASE UNCHANGED req
  BY <1>3
<1>4. CASE \E p \in Requests : Handler(p)
  BY <1>1, <1>2, <1>4
<1> QED  BY <1>3, <1>4 DEF Next, PolicyChange, Replicate, NextMinute, vars

\* Requests are let through by a verdict, or by an error.
LetThrough(q) == Pass(q) \/ DecideFails(q)

LEMMA AdmittedStep ==
    ASSUME TypeOK, [Next]_vars
    PROVE  \/ UNCHANGED history
           \/ \E q \in Requests : LetThrough(q)
           \/ \E q \in Requests, k \in Keys : CountFails(q, k)
<1>1. ASSUME NEW q \in Requests, Handler(q)
      PROVE  UNCHANGED history \/ LetThrough(q) \/ \E k \in Keys : CountFails(q, k)
  BY <1>1 DEF Handler, Arrive, Limiter, LimiterFails, Counted, Deny, LetThrough
<1> QED  BY <1>1 DEF Next, PolicyChange, Replicate, NextMinute, vars, history

\* The record of a request answered by what the local limiter said.
LEMMA RecordStep ==
    ASSUME TypeOK, NEW q \in Requests, LetThrough(q)
    PROVE  /\ req[q].pc = "counted" /\ req'[q].pc = "idle" /\ UNCHANGED <<view, uncounted>>
           /\ req[q].region \in Regions /\ req[q].key \in Keys
           /\ req[q].slot \in Nat /\ req[q].limit \in Limits
           /\ \A r \in Regions, k \in Keys :
                 admitted'[r][k] = IF req[q].local /\ r = req[q].region /\ k = req[q].key
                                   THEN admitted[r][k] \union {req[q].slot} ELSE admitted[r][k]
<1>1. /\ req[q].region \in Regions /\ req[q].key \in Keys
      /\ req[q].slot \in Nat /\ req[q].limit \in Limits
  BY DEF TypeOK, Request
<1>2. req[q].pc = "counted" /\ AnsweredLocally(q) /\ UNCHANGED <<view, uncounted>>
  BY DEF LetThrough, Pass, DecideFails, viewVars
<1>3. req'[q].pc = "idle"
  BY <1>2 DEF TypeOK, AnsweredLocally, Answered, NoRequest
<1>4. admitted' = IF req[q].local
                  THEN [admitted EXCEPT ![req[q].region][req[q].key] = @ \union {req[q].slot}]
                  ELSE admitted
  BY <1>2 DEF AnsweredLocally
<1> QED  BY <1>1, <1>2, <1>3, <1>4 DEF TypeOK

-----------------------------------------------------------------------------
(* The inductive invariant, one part at a time.                             *)

LEMMA CheckInit == Init => CheckInv
<1> SUFFICES ASSUME Init PROVE CheckInv
  OBVIOUS
<1>1. TypeOK
  BY TypeInit
<1>2. ViewsTrue
  BY DEF Init, Views!Init, Views!Nothing, ViewsTrue
<1>3. CountedReached /\ OneRequestPerSlot /\ NoFalseDenial
  BY DEF Init, NoRequest, CountedReached, OneRequestPerSlot, NoFalseDenial
<1>4. \A r \in Regions, k \in Keys : admitted[r][k] = {} /\ uncounted[r][k] = 0 /\ errors[r][k] = 0
  BY DEF Init
<1>5. AdmittedReached /\ AdmissionBounded /\ ErrorsAccount
  <2>1. IsFiniteSet({}) /\ Cardinality({}) = 0 /\ StaticLimit \in Limits /\ StaticLimit \in Nat
    BY FS_EmptySet, LimitsAssumption
  <2>2. ASSUME NEW r \in Regions, NEW k \in Keys
        PROVE  /\ admitted[r][k] \subseteq 1 .. view[r][k][r]
               /\ IsFiniteSet(admitted[r][k]) /\ uncounted[r][k] <= errors[r][k]
    <3>1. admitted[r][k] = {} /\ uncounted[r][k] = 0 /\ errors[r][k] = 0
      BY <1>4
    <3> QED  BY <2>1, <3>1
  <2>3. ASSUME NEW r \in Regions, NEW k \in Keys
        PROVE  Cardinality(admitted[r][k]) + uncounted[r][k] <= StaticLimit + errors[r][k]
    <3>1. Cardinality(admitted[r][k]) = 0 /\ uncounted[r][k] = 0 /\ errors[r][k] = 0
      BY <1>4, <2>1
    <3> QED  BY <2>1, <3>1
  <2> QED  BY <2>1, <2>2, <2>3 DEF AdmittedReached, AdmissionBounded, ErrorsAccount
<1>6. DeniedStands
  BY DEF Init, NoRequest, DeniedStands
<1> QED  BY <1>1, <1>2, <1>3, <1>5, <1>6 DEF CheckInv

\* HINCRBY returns the value just reached, in a window in use.
LEMMA CountedSlot ==
    ASSUME TypeOK, NEW q \in Requests, NEW k \in Keys, Counted(q, k)
    PROVE  LET r == req[q].region
           IN  /\ r \in Regions
               /\ req'[q].pc = "counted" /\ req'[q].region = r /\ req'[q].key = k
               /\ req'[q].slot = view[r][k][r] + 1
               /\ view'[r][k][r] = view[r][k][r] + 1
               /\ view[r][k][r] \in Nat
               /\ Views!Usable(k) /\ now' = now /\ UNCHANGED admitted
               /\ \A p \in Requests \ {q} : req'[p] = req[p]
<1>1. req[q] \in Request /\ req[q].region \in Regions
  BY DEF TypeOK, Request
<1>2. view' = [view EXCEPT ![req[q].region][k][req[q].region] = @ + 1]
  BY DEF Counted, Views!Count
<1>3. req'[q] = [req[q] EXCEPT !.pc = "counted", !.key = k, !.slot = OwnSlot(req[q].region, k)]
  BY DEF TypeOK, Counted
<1>4. \A p \in Requests \ {q} : req'[p] = req[p]
  BY DEF TypeOK, Counted
<1>5. /\ req'[q].pc = "counted" /\ req'[q].region = req[q].region /\ req'[q].key = k
      /\ req'[q].slot = view[req[q].region][k][req[q].region] + 1
  BY <1>1, <1>3 DEF Request, OwnSlot
<1> QED  BY <1>1, <1>2, <1>4, <1>5 DEF TypeOK, Counted, history, Views!Count

LEMMA CountedReachedStep == CheckInv /\ [Next]_vars => CountedReached'
<1> SUFFICES ASSUME CheckInv, [Next]_vars, NEW q \in Requests, (req[q].pc = "counted")'
             PROVE  /\ Views!Usable(req[q].key)'
                    /\ (req[q].slot \in 1 .. view[req[q].region][req[q].key][req[q].region])'
  BY DEF CountedReached
<1> DEFINE r == req[q].region
           k == req[q].key
<1>1. TypeOK /\ TypeOK' /\ ViewsRise
  BY TypeStep, ViewStep DEF CheckInv
<1>2. CASE req'[q] = req[q]
  <2>1. r \in Regions /\ k \in Keys /\ req[q].slot \in Nat /\ req[q].pc = "counted"
    BY <1>1, <1>2 DEF TypeOK, Request
  <2>2. Views!Usable(k) /\ req[q].slot \in 1 .. view[r][k][r]
    BY <2>1 DEF CheckInv, CountedReached
  <2>3. view[r][k][r] <= view'[r][k][r] /\ view[r][k][r] \in Nat /\ view'[r][k][r] \in Nat
    <3>1. ~Views!Over(k)
      BY <1>1, <2>1, <2>2, UsableNotOver
    <3>2. view[r][k][r] <= view'[r][k][r]
      BY <1>1, <2>1, <3>1 DEF ViewsRise
    <3> QED  BY <1>1, <2>1, <3>2 DEF TypeOK
  <2>4. now' = now \/ (now' = now + 1 /\ k[2] = now)
    BY <1>1, <2>1, TimeStep DEF NextMinute, Views!NextMinute
  <2>5. k[2] \in {now' - 1, now'}
    BY <1>1, <2>1, <2>2, <2>4, KeyType DEF Views!Usable, TypeOK
  <2> QED  BY <1>2, <2>1, <2>2, <2>3, <2>5 DEF Views!Usable
<1>3. CASE \E j \in Keys : Counted(q, j)
  <2>1. PICK j \in Keys : Counted(q, j)
    BY <1>3
  <2>2. /\ r \in Regions /\ req'[q].region = r /\ req'[q].key = j
        /\ req'[q].slot = view[r][j][r] + 1 /\ view'[r][j][r] = view[r][j][r] + 1
        /\ view[r][j][r] \in Nat /\ Views!Usable(j) /\ now' = now
    BY <1>1, <2>1, CountedSlot
  <2>3. (Views!Usable(req[q].key))'
    BY <2>2 DEF Views!Usable
  <2>4. req'[q].slot \in 1 .. view'[r][j][r]
    BY <2>2
  <2> QED  BY <2>2, <2>3, <2>4
<1>4. CASE Deny(q)
  BY <1>1, <1>4 DEF Deny, TypeOK
<1> QED  BY <1>1, <1>2, <1>3, <1>4, RequestStep

LEMMA AdmittedReachedStep == CheckInv /\ [Next]_vars => AdmittedReached'
<1> SUFFICES ASSUME CheckInv, [Next]_vars, NEW r \in Regions, NEW k \in Keys, ~Views!Over(k)'
             PROVE  admitted'[r][k] \subseteq 1 .. view'[r][k][r]
  BY DEF AdmittedReached
<1>1. TypeOK /\ TypeOK' /\ ViewsRise /\ now' \in {now, now + 1}
  BY TypeStep, ViewStep, TimeStep DEF CheckInv
<1>2. /\ admitted[r][k] \subseteq 1 .. view[r][k][r]
      /\ view[r][k][r] <= view'[r][k][r]
      /\ view[r][k][r] \in Nat /\ view'[r][k][r] \in Nat
  BY <1>1, OverStays DEF CheckInv, AdmittedReached, ViewsRise, TypeOK
<1>3. CASE admitted'[r][k] = admitted[r][k]
  BY <1>2, <1>3
<1>4. ASSUME NEW q \in Requests, LetThrough(q), req[q].region = r, req[q].key = k,
             admitted'[r][k] = admitted[r][k] \union {req[q].slot}
      PROVE  admitted'[r][k] \subseteq 1 .. view'[r][k][r]
  <2>1. req[q].slot \in 1 .. view[r][k][r]
    BY <1>1, <1>4, RecordStep DEF CheckInv, CountedReached
  <2> QED  BY <1>2, <1>4, <2>1
<1>5. ASSUME NEW q \in Requests, LetThrough(q)
      PROVE  \/ admitted'[r][k] = admitted[r][k]
             \/ /\ req[q].region = r /\ req[q].key = k
                /\ admitted'[r][k] = admitted[r][k] \union {req[q].slot}
  <2>1. admitted'[r][k] = IF req[q].local /\ r = req[q].region /\ k = req[q].key
                             THEN admitted[r][k] \union {req[q].slot} ELSE admitted[r][k]
    BY <1>1, <1>5, RecordStep DEF LetThrough
  <2> QED  BY <2>1
<1>6. CASE UNCHANGED history \/ \E q \in Requests, j \in Keys : CountFails(q, j)
  BY <1>3, <1>6 DEF history, CountFails
<1> QED  BY <1>1, <1>3, <1>4, <1>5, <1>6, AdmittedStep

\* The members of 1..n are at most n.
LEMMA AtMost ==
    ASSUME NEW n \in Nat, NEW S, S \subseteq 1 .. n
    PROVE  IsFiniteSet(S) /\ Cardinality(S) \in Nat /\ Cardinality(S) <= n
<1>1. IsFiniteSet(1 .. n) /\ Cardinality(1 .. n) = n
  BY FS_Interval
<1>2. IsFiniteSet(S) /\ Cardinality(S) <= Cardinality(1 .. n)
  BY <1>1, FS_Subset
<1> QED  BY <1>1, <1>2, FS_CardinalityType

\* A step adds at most one request to the record of a window.
LEMMA OneMore ==
    ASSUME NEW S, IsFiniteSet(S), NEW x
    PROVE  /\ IsFiniteSet(S \union {x}) /\ Cardinality(S) \in Nat
           /\ Cardinality(S \union {x}) \in Nat /\ Cardinality(S \union {x}) <= Cardinality(S) + 1
<1>1. IsFiniteSet(S \union {x})
      /\ (Cardinality(S \union {x}) = Cardinality(S) \/ Cardinality(S \union {x}) = Cardinality(S) + 1)
  BY FS_AddElement
<1>2. Cardinality(S) \in Nat /\ Cardinality(S \union {x}) \in Nat
  BY <1>1, FS_CardinalityType
<1> QED  BY <1>1, <1>2

\* The record of one window, before and after a step that an error let a request through by.
LEMMA ErrorStep ==
    ASSUME CheckInv, [Next]_vars, NEW r \in Regions, NEW k \in Keys, NEW q \in Requests,
           DecideFails(q) \/ \E j \in Keys : CountFails(q, j)
    PROVE  /\ IsFiniteSet(admitted'[r][k]) /\ Cardinality(admitted'[r][k]) \in Nat
           /\ Cardinality(admitted[r][k]) \in Nat
           /\ uncounted[r][k] \in Nat /\ uncounted'[r][k] \in Nat
           /\ errors[r][k] \in Nat /\ errors'[r][k] \in Nat
           /\ Cardinality(admitted'[r][k]) + uncounted'[r][k] - errors'[r][k]
                 <= Cardinality(admitted[r][k]) + uncounted[r][k] - errors[r][k]
           /\ uncounted'[r][k] <= errors'[r][k]
<1>1. TypeOK /\ TypeOK'
  BY TypeStep DEF CheckInv
<1>2. /\ IsFiniteSet(admitted[r][k]) /\ uncounted[r][k] <= errors[r][k]
      /\ uncounted[r][k] \in Nat /\ uncounted'[r][k] \in Nat
      /\ errors[r][k] \in Nat /\ errors'[r][k] \in Nat
  BY <1>1 DEF CheckInv, ErrorsAccount, TypeOK
<1>3. CASE DecideFails(q)
  <2>1. /\ uncounted'[r][k] = uncounted[r][k]
        /\ req[q].region \in Regions /\ req[q].key \in Keys
        /\ admitted'[r][k] = IF req[q].local /\ r = req[q].region /\ k = req[q].key
                             THEN admitted[r][k] \union {req[q].slot} ELSE admitted[r][k]
    BY <1>1, <1>3, RecordStep DEF LetThrough
  <2>2. errors'[r][k] = IF r = req[q].region /\ k = req[q].key THEN errors[r][k] + 1 ELSE errors[r][k]
    BY <1>1, <1>3, <2>1 DEF TypeOK, DecideFails, ReportsError
  <2>3. CASE admitted'[r][k] = admitted[r][k]
    BY <1>2, <2>1, <2>2, <2>3, FS_CardinalityType
  <2>4. CASE /\ r = req[q].region /\ k = req[q].key
             /\ admitted'[r][k] = admitted[r][k] \union {req[q].slot}
    <3> DEFINE S == admitted[r][k]
               T == S \union {req[q].slot}
    <3>a. /\ IsFiniteSet(T) /\ Cardinality(S) \in Nat
          /\ Cardinality(T) \in Nat /\ Cardinality(T) <= Cardinality(S) + 1
      <4> HIDE DEF S
      <4>1. IsFiniteSet(S)
        BY <1>2 DEF S
      <4> QED  BY <4>1, OneMore
    <3>1. /\ IsFiniteSet(admitted'[r][k]) /\ Cardinality(admitted'[r][k]) \in Nat
          /\ Cardinality(admitted[r][k]) \in Nat
          /\ Cardinality(admitted'[r][k]) <= Cardinality(admitted[r][k]) + 1
      BY <2>4, <3>a
    <3>2. errors'[r][k] = errors[r][k] + 1
      BY <2>2, <2>4
    <3> QED  BY <1>2, <2>1, <3>1, <3>2
  <2> QED  BY <2>1, <2>3, <2>4
<1>4. ASSUME NEW j \in Keys, CountFails(q, j)
      PROVE  /\ admitted'[r][k] = admitted[r][k]
             /\ uncounted'[r][k] - errors'[r][k] <= uncounted[r][k] - errors[r][k]
  <2>1. req[q].region \in Regions
    BY <1>1 DEF TypeOK, Request
  <2>2. errors'[r][k] = IF r = req[q].region /\ k = j THEN errors[r][k] + 1 ELSE errors[r][k]
    BY <1>1, <1>4, <2>1 DEF TypeOK, CountFails, ReportsError
  <2>3. uncounted'[r][k] = IF req[q].local /\ r = req[q].region /\ k = j
                           THEN uncounted[r][k] + 1 ELSE uncounted[r][k]
    BY <1>1, <1>4, <2>1 DEF TypeOK, CountFails
  <2>4. admitted' = admitted
    BY <1>4 DEF CountFails
  <2> QED  BY <1>2, <2>2, <2>3, <2>4
<1>5. CASE \E j \in Keys : CountFails(q, j)
  <2>1. /\ admitted'[r][k] = admitted[r][k]
        /\ uncounted'[r][k] - errors'[r][k] <= uncounted[r][k] - errors[r][k]
    BY <1>4, <1>5
  <2>2. Cardinality(admitted[r][k]) \in Nat
    BY <1>2, FS_CardinalityType
  <2> QED  BY <1>2, <2>1, <2>2
<1> QED  BY <1>3, <1>5

\* A request passes only while the slot values reached are within its limit.
LEMMA PassStep ==
    ASSUME CheckInv, [Next]_vars, NEW q \in Requests, Pass(q), req[q].local
    PROVE  LET r == req[q].region  k == req[q].key
           IN  IsFiniteSet(admitted'[r][k]) /\ Cardinality(admitted'[r][k]) <= req[q].limit
<1> DEFINE r == req[q].region
           k == req[q].key
<1>1. TypeOK
  BY DEF CheckInv
<1>2. /\ req[q].pc = "counted" /\ r \in Regions /\ k \in Keys /\ req[q].limit \in Nat
      /\ admitted'[r][k] = admitted[r][k] \union {req[q].slot}
  BY <1>1, LimitsAssumption, RecordStep DEF LetThrough
<1>3. view[r][k][us] \in Nat /\ view[r][k][eu] \in Nat /\ view[r][k][asia] \in Nat
  BY <1>1, <1>2 DEF TypeOK, Regions
<1>4. view[r][k][r] <= Sum(view[r][k], r) /\ Sum(view[r][k], r) \in Nat /\ view[r][k][r] \in Nat
  <2>1. r = us \/ r = eu \/ r = asia
    BY <1>2 DEF Regions
  <2>2. Sum(view[r][k], r) = view[r][k][us] + view[r][k][eu] + view[r][k][asia]
    BY DEF Sum
  <2>3. view[r][k][r] \in {view[r][k][us], view[r][k][eu], view[r][k][asia]}
    BY <2>1
  <2> HIDE DEF r, k
  <2> QED  BY <1>3, <2>2, <2>3
<1>5. Sum(view[r][k], r) <= req[q].limit
  BY <1>2, <1>4 DEF Pass, OverGlobalLimit, Exceeds
<1>6. \A n \in 1 .. view[r][k][r] : n \in 1 .. req[q].limit
  BY <1>2, <1>4, <1>5
<1>7. Views!Usable(k) /\ req[q].slot \in 1 .. view[r][k][r]
  BY <1>2 DEF CheckInv, CountedReached
<1>8. admitted[r][k] \subseteq 1 .. view[r][k][r]
  BY <1>1, <1>2, <1>7, UsableNotOver DEF CheckInv, AdmittedReached
<1>9. admitted'[r][k] \subseteq 1 .. req[q].limit
  BY <1>2, <1>6, <1>7, <1>8
<1> QED  BY <1>2, <1>9, AtMost

LEMMA BoundedStep == CheckInv /\ [Next]_vars => ErrorsAccount' /\ AdmissionBounded'
<1> SUFFICES ASSUME CheckInv, [Next]_vars, NEW r \in Regions, NEW k \in Keys
             PROVE  /\ IsFiniteSet(admitted'[r][k]) /\ uncounted'[r][k] <= errors'[r][k]
                    /\ \E l \in Limits :
                          Cardinality(admitted'[r][k]) + uncounted'[r][k] <= l + errors'[r][k]
  BY DEF ErrorsAccount, AdmissionBounded
<1>1. TypeOK /\ TypeOK'
  BY TypeStep DEF CheckInv
<1>2. /\ IsFiniteSet(admitted[r][k]) /\ uncounted[r][k] <= errors[r][k]
      /\ uncounted[r][k] \in Nat /\ errors[r][k] \in Nat
  BY <1>1 DEF CheckInv, ErrorsAccount, TypeOK
<1>3. PICK l \in Limits : Cardinality(admitted[r][k]) + uncounted[r][k] <= l + errors[r][k]
  BY DEF CheckInv, AdmissionBounded
<1>4. CASE admitted'[r][k] = admitted[r][k] /\ UNCHANGED <<uncounted, errors>>
  BY <1>2, <1>3, <1>4
<1>5. ASSUME NEW q \in Requests, Pass(q), req[q].local, req[q].region = r, req[q].key = k
      PROVE  /\ IsFiniteSet(admitted'[r][k]) /\ uncounted'[r][k] <= errors'[r][k]
             /\ \E m \in Limits :
                   Cardinality(admitted'[r][k]) + uncounted'[r][k] <= m + errors'[r][k]
  <2>1. /\ IsFiniteSet(admitted'[r][k]) /\ Cardinality(admitted'[r][k]) <= req[q].limit
        /\ Cardinality(admitted'[r][k]) \in Nat
    BY <1>5, PassStep, FS_CardinalityType
  <2>2. req[q].limit \in Limits /\ req[q].limit \in Nat
    BY <1>1, LimitsAssumption DEF TypeOK, Request
  <2>3. UNCHANGED <<uncounted, errors>>
    BY <1>5 DEF Pass
  <2>4. Cardinality(admitted'[r][k]) + uncounted'[r][k] <= req[q].limit + errors'[r][k]
    BY <1>2, <2>1, <2>2, <2>3
  <2> QED  BY <1>2, <2>1, <2>2, <2>3, <2>4
<1>6. ASSUME NEW q \in Requests, Pass(q), ~(req[q].local /\ req[q].region = r /\ req[q].key = k)
      PROVE  admitted'[r][k] = admitted[r][k] /\ UNCHANGED <<uncounted, errors>>
  <2>1. admitted'[r][k] = admitted[r][k]
    <3>1. admitted'[r][k] = IF req[q].local /\ r = req[q].region /\ k = req[q].key
                             THEN admitted[r][k] \union {req[q].slot} ELSE admitted[r][k]
      BY <1>1, <1>6, RecordStep DEF LetThrough
    <3> QED  BY <1>6, <3>1
  <2> QED  BY <1>6, <2>1 DEF Pass
<1>7. ASSUME NEW q \in Requests, DecideFails(q) \/ \E j \in Keys : CountFails(q, j)
      PROVE  /\ IsFiniteSet(admitted'[r][k]) /\ uncounted'[r][k] <= errors'[r][k]
             /\ \E m \in Limits :
                   Cardinality(admitted'[r][k]) + uncounted'[r][k] <= m + errors'[r][k]
  <2>1. /\ IsFiniteSet(admitted'[r][k]) /\ Cardinality(admitted'[r][k]) \in Nat
        /\ Cardinality(admitted[r][k]) \in Nat
        /\ uncounted'[r][k] \in Nat /\ errors'[r][k] \in Nat
        /\ Cardinality(admitted'[r][k]) + uncounted'[r][k] - errors'[r][k]
              <= Cardinality(admitted[r][k]) + uncounted[r][k] - errors[r][k]
        /\ uncounted'[r][k] <= errors'[r][k]
    BY <1>7, ErrorStep
  <2>2. l \in Nat
    BY LimitsAssumption
  <2>3. Cardinality(admitted'[r][k]) + uncounted'[r][k] <= l + errors'[r][k]
    BY <1>2, <1>3, <2>1, <2>2
  <2> QED  BY <2>1, <2>3
<1>8. CASE UNCHANGED history
  BY <1>4, <1>8 DEF history
<1>9. CASE \E q \in Requests : Pass(q)
  BY <1>4, <1>5, <1>6, <1>9
<1> QED  BY <1>1, <1>7, <1>8, <1>9, AdmittedStep DEF LetThrough

LEMMA OneRequestStep == CheckInv /\ [Next]_vars => OneRequestPerSlot'
<1> SUFFICES ASSUME CheckInv, [Next]_vars, NEW q \in Requests, (req[q].pc = "counted")'
             PROVE  (/\ req[q].slot \notin admitted[req[q].region][req[q].key]
                     /\ \A p \in Requests \ {q} :
                           (req[p].pc = "counted" /\ req[p].region = req[q].region /\ req[p].key = req[q].key)
                               => req[p].slot # req[q].slot)'
  BY DEF OneRequestPerSlot
<1>1. TypeOK /\ TypeOK'
  BY TypeStep DEF CheckInv
<1>n. \A p \in Requests : req[p].region \in Regions /\ req[p].key \in Keys /\ req[p].slot \in Nat
  BY <1>1 DEF TypeOK, Request
\* A slot value just taken is above all that the region has reached.
<1>f. ASSUME NEW p \in Requests, NEW k \in Keys, Counted(p, k)
      PROVE  /\ req'[p].slot \notin admitted'[req'[p].region][req'[p].key]
             /\ \A m \in Requests \ {p} :
                  (req'[m].pc = "counted" /\ req'[m].region = req'[p].region /\ req'[m].key = req'[p].key)
                      => req'[m].slot # req'[p].slot
  <2> DEFINE r == req[p].region
  <2>1. /\ r \in Regions /\ req'[p].region = r /\ req'[p].key = k
        /\ req'[p].slot = view[r][k][r] + 1 /\ view[r][k][r] \in Nat
        /\ Views!Usable(k) /\ UNCHANGED admitted
        /\ \A m \in Requests \ {p} : req'[m] = req[m]
    BY <1>1, <1>f, CountedSlot
  <2>2. admitted[r][k] \subseteq 1 .. view[r][k][r]
    BY <1>1, <2>1, UsableNotOver DEF CheckInv, AdmittedReached
  <2>3. \A m \in Requests : (req[m].pc = "counted" /\ req[m].region = r /\ req[m].key = k)
                                => req[m].slot \in 1 .. view[r][k][r]
    BY DEF CheckInv, CountedReached
  <2>4. view[r][k][r] + 1 \notin 1 .. view[r][k][r]
    BY <2>1
  <2> QED  BY <2>1, <2>2, <2>3, <2>4
<1>2. CASE \E k \in Keys : Counted(q, k)
  BY <1>2, <1>f
<1>3. CASE Deny(q)
  BY <1>1, <1>3 DEF Deny, TypeOK
<1>4. CASE req'[q] = req[q]
  <2>0. req[q].pc = "counted"
    BY <1>4
  <2>1. req'[q].slot \notin admitted'[req'[q].region][req'[q].key]
    <3>1. CASE admitted' = admitted
      BY <1>4, <2>0, <3>1 DEF CheckInv, OneRequestPerSlot
    <3>2. ASSUME NEW p \in Requests, LetThrough(p)
          PROVE  req'[q].slot \notin admitted'[req'[q].region][req'[q].key]
      <4>1. /\ req[p].pc = "counted" /\ req'[p].pc = "idle"
            /\ admitted'[req[q].region][req[q].key] \subseteq
                  admitted[req[q].region][req[q].key] \union
                      (IF req[q].region = req[p].region /\ req[q].key = req[p].key
                       THEN {req[p].slot} ELSE {})
        <5>1. /\ req[p].pc = "counted" /\ req'[p].pc = "idle"
              /\ admitted'[req[q].region][req[q].key] =
                    IF req[p].local /\ req[q].region = req[p].region /\ req[q].key = req[p].key
                    THEN admitted[req[q].region][req[q].key] \union {req[p].slot}
                    ELSE admitted[req[q].region][req[q].key]
          BY <1>1, <1>n, <3>2, RecordStep
        <5> QED  BY <5>1
      <4>2. p # q
        BY <1>4, <2>0, <4>1
      <4>3. req[q].slot \notin admitted[req[q].region][req[q].key]
        BY <2>0 DEF CheckInv, OneRequestPerSlot
      <4>4. (req[p].region = req[q].region /\ req[p].key = req[q].key) => req[p].slot # req[q].slot
        BY <2>0, <4>1, <4>2 DEF CheckInv, OneRequestPerSlot
      <4> QED  BY <1>4, <4>1, <4>3, <4>4
    <3> QED  BY <1>1, <3>1, <3>2, AdmittedStep DEF history, CountFails
  <2>2. ASSUME NEW p \in Requests \ {q},
               req'[p].pc = "counted", req'[p].region = req'[q].region, req'[p].key = req'[q].key
        PROVE  req'[p].slot # req'[q].slot
    <3>1. CASE \E k \in Keys : Counted(p, k)
      BY <2>2, <1>f, <3>1, <1>4, <2>0
    <3>2. CASE req'[p] = req[p]
      BY <1>4, <2>0, <2>2, <3>2 DEF CheckInv, OneRequestPerSlot
    <3>3. CASE Deny(p)
      BY <1>1, <2>2, <3>3 DEF Deny, TypeOK
    <3> QED  BY <1>1, <2>2, <3>1, <3>2, <3>3, RequestStep
  <2> QED  BY <2>1, <2>2
<1> QED  BY <1>1, <1>2, <1>3, <1>4, RequestStep

LEMMA NoFalseDenialStep == CheckInv /\ [Next]_vars => NoFalseDenial'
<1> SUFFICES ASSUME CheckInv, [Next]_vars, NEW q \in Requests, (req[q].pc = "denied")'
             PROVE  (count[us][req[q].key] + count[eu][req[q].key] + count[asia][req[q].key]
                        > req[q].limit)'
  BY DEF NoFalseDenial
<1>1. TypeOK /\ TypeOK' /\ ViewsRise
  BY TypeStep, ViewStep DEF CheckInv
<1>2. req[q].region \in Regions /\ req[q].key \in Keys /\ req[q].limit \in Nat
  BY <1>1, LimitsAssumption DEF TypeOK, Request
<1> DEFINE k == req[q].key
           r == req[q].region
<1>3. /\ \A o \in Regions : count[o][k] <= count'[o][k] /\ view[r][k][o] <= count[o][k]
      /\ \A o \in Regions : count[o][k] \in Nat /\ count'[o][k] \in Nat /\ view[r][k][o] \in Nat
  BY <1>1, <1>2 DEF ViewsRise, CheckInv, ViewsTrue, TypeOK
<1>4. us \in Regions /\ eu \in Regions /\ asia \in Regions
  BY DEF Regions
<1>5. CASE req'[q] = req[q]
  <2>1. count[us][k] + count[eu][k] + count[asia][k] > req[q].limit
    BY <1>5 DEF CheckInv, NoFalseDenial
  <2> QED  BY <1>2, <1>3, <1>4, <1>5, <2>1
<1>6. CASE Deny(q)
  <2>1. view[r][k][us] + view[r][k][eu] + view[r][k][asia] > req[q].limit
    BY <1>6 DEF Deny, OverGlobalLimit, Exceeds, Sum
  <2>2. req'[q].key = k /\ req'[q].limit = req[q].limit
    BY <1>1, <1>6 DEF Deny, TypeOK, Request
  <2> QED  BY <1>2, <1>3, <1>4, <2>1, <2>2
<1>7. CASE \E j \in Keys : Counted(q, j)
  BY <1>1, <1>7, CountedSlot
<1> QED  BY <1>1, <1>5, <1>6, <1>7, RequestStep

\* A sum that exceeds a limit goes on exceeding it, as long as its window is in use.
LEMMA SumStays ==
    ASSUME CheckInv, [Next]_vars, NEW r \in Regions, NEW k \in Keys, NEW l \in Nat,
           ~Views!Over(k), Exceeds(Sum(view[r][k], r), l)
    PROVE  Exceeds(Sum(view'[r][k], r), l)
<1>1. TypeOK /\ TypeOK' /\ ViewsRise
  BY TypeStep, ViewStep DEF CheckInv
<1>2. us \in Regions /\ eu \in Regions /\ asia \in Regions
  BY DEF Regions
<1>3. \A o \in Regions : /\ view[r][k][o] <= view'[r][k][o]
                         /\ view[r][k][o] \in Nat /\ view'[r][k][o] \in Nat
  BY <1>1 DEF ViewsRise, TypeOK
<1>4. view[r][k][us] + view[r][k][eu] + view[r][k][asia] > l
  BY DEF Exceeds, Sum
<1>5. view'[r][k][us] + view'[r][k][eu] + view'[r][k][asia] > l
  BY <1>2, <1>3, <1>4
<1> QED  BY <1>5 DEF Exceeds, Sum

LEMMA DeniedStandsStep == CheckInv /\ [Next]_vars => DeniedStands'
<1> SUFFICES ASSUME CheckInv, [Next]_vars, NEW p \in Requests,
                    req'[p].pc = "denied", ~Views!Over(req[p].key)'
             PROVE  Exceeds(Sum(view'[req'[p].region][req'[p].key], req'[p].region), req'[p].limit)
  BY DEF DeniedStands
<1>1. TypeOK /\ TypeOK' /\ now' \in {now, now + 1}
  BY TypeStep, TimeStep DEF CheckInv
<1>2. req[p].region \in Regions /\ req[p].key \in Keys /\ req[p].limit \in Nat
  BY <1>1, LimitsAssumption DEF TypeOK, Request
<1>3. CASE req'[p] = req[p]
  <2>1. ~Views!Over(req[p].key)
    BY <1>1, <1>2, <1>3, OverStays DEF Views!Over
  <2>2. Exceeds(Sum(view[req[p].region][req[p].key], req[p].region), req[p].limit)
    BY <1>3, <2>1 DEF CheckInv, DeniedStands
  <2> QED  BY <1>2, <1>3, <2>1, <2>2, SumStays
<1>4. CASE Deny(p)
  <2>1. /\ Exceeds(Sum(view[req[p].region][req[p].key], req[p].region), req[p].limit)
        /\ UNCHANGED view
    BY <1>4 DEF Deny, OverGlobalLimit, viewVars
  <2>2. req'[p].region = req[p].region /\ req'[p].key = req[p].key /\ req'[p].limit = req[p].limit
    BY <1>1, <1>4 DEF Deny, TypeOK, Request
  <2> QED  BY <2>1, <2>2
<1>5. CASE \E j \in Keys : Counted(p, j)
  BY <1>1, <1>5, CountedSlot
<1> QED  BY <1>1, <1>3, <1>4, <1>5, RequestStep

LEMMA CheckStep == CheckInv /\ [Next]_vars => CheckInv'
<1> SUFFICES ASSUME CheckInv, [Next]_vars PROVE CheckInv'
  OBVIOUS
<1>1. TypeOK' /\ ViewsTrue'
  BY TypeStep, ViewStep DEF CheckInv, ViewsRise
<1> QED  BY <1>1, CountedReachedStep, AdmittedReachedStep, BoundedStep, OneRequestStep,
            NoFalseDenialStep, DeniedStandsStep DEF CheckInv

LEMMA CheckAlways == Spec => []CheckInv
BY CheckInit, CheckStep, PTL DEF Spec

-----------------------------------------------------------------------------
\* The store only ever serves valid limits, and the handler's bookkeeping is well-formed.
THEOREM TypeCorrect == Spec => []TypeOK
BY TypeInit, TypeStep, PTL DEF Spec

\* However many requests run at once, whichever commands fail and however late peers are
\* heard of, a region lets through no more requests of a window than the largest limit in
\* force and one for each request whose global check failed.
THEOREM AdmissionIsBounded == Spec => []AdmissionBounded
<1>1. CheckInv => AdmissionBounded
  BY DEF CheckInv
<1> QED  BY <1>1, CheckAlways, PTL

\* No two requests are ever counted as one.
THEOREM SlotsAreUnique == Spec => []OneRequestPerSlot
<1>1. CheckInv => OneRequestPerSlot
  BY DEF CheckInv
<1> QED  BY <1>1, CheckAlways, PTL

\* A denial by the global check is always backed by real requests.
THEOREM DenialsAreBacked == Spec => []NoFalseDenial
<1>1. CheckInv => NoFalseDenial
  BY DEF CheckInv
<1> QED  BY <1>1, CheckAlways, PTL

\* Once the global check has denied a request, it lets no other through in that window that
\* does not have a larger limit, whatever the order they were counted in.
THEOREM DenialsAreFinal == Spec => DenialIsFinal
<1>1. CheckInv /\ [Next]_vars =>
         [\A p, q \in Requests :
             (/\ req[p].pc = "denied" /\ Pass(q)
              /\ req[p].region = req[q].region /\ req[p].key = req[q].key)
                 => req[q].limit > req[p].limit]_vars
  <2> SUFFICES ASSUME CheckInv, NEW p \in Requests, NEW q \in Requests,
                      req[p].pc = "denied", Pass(q),
                      req[p].region = req[q].region, req[p].key = req[q].key
               PROVE  req[q].limit > req[p].limit
    OBVIOUS
  <2> DEFINE r == req[q].region
             k == req[q].key
  <2>1. TypeOK /\ req[q].pc = "counted"
    BY DEF CheckInv, Pass
  <2>2. r \in Regions /\ k \in Keys /\ req[p].limit \in Nat /\ req[q].limit \in Nat
    BY <2>1, LimitsAssumption DEF TypeOK, Request
  <2>3. ~Views!Over(k)
    BY <2>1, <2>2, UsableNotOver DEF CheckInv, CountedReached
  <2>4. Sum(view[r][k], r) > req[p].limit
    BY <2>3 DEF CheckInv, DeniedStands, Exceeds
  <2>5. ~(Sum(view[r][k], r) > req[q].limit)
    BY DEF Pass, OverGlobalLimit, Exceeds
  <2>6. Sum(view[r][k], r) \in Nat
    <3>1. view[r][k][us] \in Nat /\ view[r][k][eu] \in Nat /\ view[r][k][asia] \in Nat
      BY <2>1, <2>2 DEF TypeOK, Regions
    <3> QED  BY <3>1 DEF Sum
  <2> QED  BY <2>2, <2>4, <2>5, <2>6
<1> QED  BY <1>1, CheckAlways, PTL DEF Spec, DenialIsFinal
=============================================================================
