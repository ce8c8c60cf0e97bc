------------------------- MODULE SyncClusterProofs -------------------------
(***************************************************************************)
(* Machine-checked theorems about SyncCluster, for every set of regions    *)
(* and users, every bound, and every set of faults unless stated.          *)
(***************************************************************************)
EXTENDS SyncCluster, TLAPS

-----------------------------------------------------------------------------
(* Types.                                                                   *)

\* The reconciler's bookkeeping between steps stays well-formed.
LEMMA AdvanceType ==
    ASSUME NEW c \in ReconState, c.left # <<>>
    PROVE  /\ Advance(c) \in ReconState
           /\ Advance(c).todo # {} \/ Advance(c).chunk # NoSlots => Advance(c).left # <<>>
<1>1. Tail(c.left) \in Seq(Windows)
  BY DEF ReconState
<1>2. CASE c.todo = {} /\ c.chunk = NoSlots
  <2>1. Advance(c) = [c EXCEPT !.left = Tail(c.left)]
    BY <1>2 DEF Advance
  <2> QED  BY <1>1, <1>2, <2>1 DEF ReconState
<1>3. CASE ~(c.todo = {} /\ c.chunk = NoSlots)
  BY <1>3 DEF Advance
<1> QED  BY <1>2, <1>3

LEMMA NoSlotsType == NoSlots \in [Users -> Nat]
BY DEF NoSlots

LEMMA IdleType == Idle \in ReconState
BY NoSlotsType DEF Idle, ReconState

LEMMA PassType ==
    ASSUME NEW t \in Windows
    PROVE  PassWindows(t) \in Seq(Windows) /\ PassWindows(t) # <<>>
<1>1. CASE t = 0
  BY <1>1 DEF PassWindows
<1>2. CASE t # 0
  <2>1. t - 1 \in Windows
    BY <1>2, BoundsAssumption DEF Windows
  <2> QED  BY <1>2, <2>1 DEF PassWindows
<1> QED  BY <1>1, <1>2

\* What a publication does to the subscriptions' queues.
LEMMA PublishType ==
    ASSUME TypeOK, NEW o \in Regions, NEW e \in Envelope, PublishAt(o, e)
    PROVE  wire' \in [Regions -> [Regions -> Seq(Envelope)]]
BY DEF TypeOK, PublishAt

LEMMA WritesType ==
    ASSUME NEW e \in Envelope
    PROVE  Writes(e) \subseteq SlotWrite
BY DEF Writes, Envelope, SlotWrite, Carried, Keys

LEMMA MergedType ==
    ASSUME TypeOK, NEW r \in Regions, NEW w \in SlotWrite
    PROVE  Merged(r, w) \in [Regions -> [Keys -> [Regions -> Nat]]]
<1>1. w.key \in Keys /\ w.origin \in Regions /\ w.value \in Nat
  BY DEF SlotWrite
<1>2. global[r][w.key][w.origin] \in Nat
  BY <1>1 DEF TypeOK
<1>3. MaxMerge(global[r][w.key][w.origin], w.value) \in Nat
  BY <1>1, <1>2 DEF MaxMerge
<1> QED  BY <1>1, <1>3 DEF Merged, TypeOK

LEMMA PushedType ==
    ASSUME NEW q \in Seq(SlotWrite), Len(q) <= BufferCap, NEW w \in SlotWrite
    PROVE  Pushed(q, w) \in Seq(SlotWrite) /\ Len(Pushed(q, w)) <= BufferCap
<1>1. CASE Len(q) >= BufferCap
  <2>1. q # <<>> /\ Len(q) = BufferCap
    BY <1>1, BoundsAssumption
  <2>2. Tail(q) \in Seq(SlotWrite) /\ Len(Tail(q)) = Len(q) - 1
    BY <2>1
  <2> QED  BY <1>1, <2>1, <2>2, BoundsAssumption DEF Pushed
<1>2. CASE ~(Len(q) >= BufferCap)
  BY <1>2, BoundsAssumption DEF Pushed
<1> QED  BY <1>1, <1>2

LEMMA TypeInit == Init => TypeOK /\ PassHasWindow
<1> SUFFICES ASSUME Init PROVE TypeOK /\ PassHasWindow
  OBVIOUS
<1>1. now \in Windows /\ redisUp \in [Regions -> BOOLEAN]
  BY BoundsAssumption DEF Init, Windows
<1>2. global \in [Regions -> [Keys -> [Regions -> Nat]]]
  BY DEF Init, Nothing
<1>3. /\ issued \in [Regions -> [Keys -> Nat]]
      /\ pending \in [Regions -> SUBSET Envelope]
      /\ subscribed \in [Regions -> [Regions -> BOOLEAN]]
      /\ wire \in [Regions -> [Regions -> Seq(Envelope)]]
      /\ blocked \in [Regions -> SUBSET Regions]
      /\ relay \in [Regions -> SUBSET SlotWrite]
  BY DEF Init
<1>4. /\ buffer \in [Regions -> Seq(SlotWrite)]
      /\ \A r \in Regions : Len(buffer[r]) <= BufferCap
  BY BoundsAssumption DEF Init
<1>5. recon \in [Regions -> ReconState]
  BY IdleType DEF Init
<1>6. PassHasWindow
  BY DEF Init, Idle, PassHasWindow
<1> QED  BY <1>6, <1>1, <1>2, <1>3, <1>4, <1>5 DEF TypeOK

LEMMA TypeStep == TypeOK /\ PassHasWindow /\ [Next]_vars => TypeOK' /\ PassHasWindow'
<1> SUFFICES ASSUME TypeOK, PassHasWindow, [Next]_vars PROVE TypeOK' /\ PassHasWindow'
  OBVIOUS
<1> USE DEF TypeOK, PassHasWindow
<1>1. ASSUME NEW r \in Regions, NEW k \in Keys, GatewayCount(r, k)
      PROVE  TypeOK' /\ PassHasWindow'
  <2>1. global[r][k][r] \in Nat /\ global[r][k][r] + 1 \in Nat /\ issued[r][k] + 1 \in Nat
    OBVIOUS
  <2>2. global' \in [Regions -> [Keys -> [Regions -> Nat]]]
    BY <1>1, <2>1 DEF GatewayCount
  <2>3. issued' \in [Regions -> [Keys -> Nat]]
    BY <1>1, <2>1 DEF GatewayCount
  <2>4. [origin |-> r, window |-> k[2], slots |-> [NoSlots EXCEPT ![k[1]] = global[r][k][r] + 1]]
           \in Envelope
    BY <2>1, NoSlotsType DEF Envelope, Keys
  <2>5. pending' \in [Regions -> SUBSET Envelope]
    BY <1>1, <2>4 DEF GatewayCount
  <2> QED  BY <1>1, <2>2, <2>3, <2>5 DEF GatewayCount, netVars, syncVars
<1>2. ASSUME NEW r \in Regions, NEW e \in pending[r], GatewayPublish(r, e)
      PROVE  TypeOK' /\ PassHasWindow'
  <2>1. wire' \in [Regions -> [Regions -> Seq(Envelope)]]
    BY <1>2, PublishType DEF GatewayPublish
  <2>2. pending' \in [Regions -> SUBSET Envelope]
    BY <1>2 DEF GatewayPublish
  <2> QED  BY <1>2, <2>1, <2>2 DEF GatewayPublish, syncVars
<1>3. ASSUME NEW r \in Regions, NEW e \in pending[r], GatewayLose(r, e)
      PROVE  TypeOK' /\ PassHasWindow'
  BY <1>3 DEF GatewayLose, netVars, syncVars
<1>4. ASSUME NEW r \in Regions, NEW o \in Regions, RelayTake(r, o)
      PROVE  TypeOK' /\ PassHasWindow'
  <2>1. Head(wire[o][r]) \in Envelope /\ Tail(wire[o][r]) \in Seq(Envelope)
    BY <1>4 DEF RelayTake
  <2>2. relay' \in [Regions -> SUBSET SlotWrite]
    BY <1>4, <2>1, WritesType DEF RelayTake
  <2>3. wire' \in [Regions -> [Regions -> Seq(Envelope)]]
    BY <1>4, <2>1 DEF RelayTake
  <2> QED  BY <1>4, <2>2, <2>3 DEF RelayTake, gatewayVars
<1>5. ASSUME NEW r \in Regions, NEW w \in relay[r], RelayApply(r, w)
      PROVE  TypeOK' /\ PassHasWindow'
  <2>1. global' \in [Regions -> [Keys -> [Regions -> Nat]]]
    BY <1>5, MergedType DEF RelayApply
  <2> QED  BY <1>5, <2>1 DEF RelayApply, gatewayVars, netVars
<1>6. ASSUME NEW r \in Regions, NEW w \in relay[r], RelayFail(r, w)
      PROVE  TypeOK' /\ PassHasWindow'
  <2>1. Pushed(buffer[r], w) \in Seq(SlotWrite) /\ Len(Pushed(buffer[r], w)) <= BufferCap
    BY PushedType
  <2> QED  BY <1>6, <2>1 DEF RelayFail, gatewayVars, netVars
<1>7. ASSUME NEW r \in Regions, NEW w \in relay[r], RelayTimeout(r, w)
      PROVE  TypeOK' /\ PassHasWindow'
  <2>1. Pushed(buffer[r], w) \in Seq(SlotWrite) /\ Len(Pushed(buffer[r], w)) <= BufferCap
    BY PushedType
  <2>2. global' \in [Regions -> [Keys -> [Regions -> Nat]]]
    BY <1>7, MergedType DEF RelayTimeout
  <2> QED  BY <1>7, <2>1, <2>2 DEF RelayTimeout, gatewayVars, netVars
<1>8. ASSUME NEW r \in Regions, NEW c \in ReconState, recon' = [recon EXCEPT ![r] = c],
             c.todo # {} \/ c.chunk # NoSlots => c.left # <<>>
      PROVE  recon' \in [Regions -> ReconState] /\ PassHasWindow'
  BY <1>8
<1>9. ASSUME NEW r \in Regions, ReconTick(r)
      PROVE  TypeOK' /\ PassHasWindow'
  <2> DEFINE c == [recon[r] EXCEPT !.left = PassWindows(now)]
  <2>1. c \in ReconState /\ c.left # <<>>
    BY PassType DEF ReconState
  <2>2. recon' = [recon EXCEPT ![r] = c]
    BY <1>9 DEF ReconTick
  <2>3. recon' \in [Regions -> ReconState] /\ PassHasWindow'
    BY <1>8, <2>1, <2>2
  <2> QED  BY <1>9, <2>3 DEF ReconTick, gatewayVars, netVars
<1>10. ASSUME NEW r \in Regions, ReconScan(r)
       PROVE  TypeOK' /\ PassHasWindow'
  <2> DEFINE c == [recon[r] EXCEPT !.todo =
                     {u \in Users : global[r][<<u, Head(recon[r].left)>>] # Nothing}]
  <2>1. c \in ReconState /\ c.left # <<>>
    BY <1>10 DEF ReconScan, Scanning, ReconState
  <2>2. recon' = [recon EXCEPT ![r] = Advance(c)]
    BY <1>10 DEF ReconScan
  <2> HIDE DEF c
  <2>3. recon' \in [Regions -> ReconState] /\ PassHasWindow'
    BY <1>8, <2>1, <2>2, AdvanceType
  <2> QED  BY <1>10, <2>3 DEF ReconScan, gatewayVars, netVars
<1>11. ASSUME NEW r \in Regions, NEW u \in Users, ReconRead(r, u)
       PROVE  TypeOK' /\ PassHasWindow'
  <2> DEFINE v == global[r][<<u, Head(recon[r].left)>>][r]
             c == [recon[r] EXCEPT !.todo = @ \ {u}, !.chunk[u] = v]
  <2>1. recon[r].left # <<>> /\ recon[r] \in ReconState
    BY <1>11 DEF ReconRead
  <2>2. Head(recon[r].left) \in Windows
    BY <2>1 DEF ReconState
  <2>3. v \in Nat
    BY <2>2 DEF Keys
  <2>4. c \in ReconState /\ c.left # <<>>
    <3> HIDE DEF v
    <3> QED  BY <2>1, <2>3 DEF ReconState
  <2>5. recon' = [recon EXCEPT ![r] = Advance(c)]
    BY <1>11 DEF ReconRead
  <2> HIDE DEF c
  <2>6. recon' \in [Regions -> ReconState] /\ PassHasWindow'
    BY <1>8, <2>4, <2>5, AdvanceType
  <2> QED  BY <1>11, <2>6 DEF ReconRead, gatewayVars, netVars
<1>12. ASSUME NEW r \in Regions, ReconPublish(r)
       PROVE  TypeOK' /\ PassHasWindow'
  <2> DEFINE c == [recon[r] EXCEPT !.chunk = NoSlots]
             e == [origin |-> r, window |-> Head(recon[r].left), slots |-> recon[r].chunk]
  <2>1. recon[r].left # <<>> /\ recon[r] \in ReconState
    BY <1>12 DEF ReconPublish
  <2>2. c \in ReconState /\ c.left # <<>>
    BY <2>1, NoSlotsType DEF ReconState
  <2>3. e \in Envelope
    BY <2>1 DEF ReconState, Envelope
  <2>4. recon' = [recon EXCEPT ![r] = Advance(c)] /\ PublishAt(r, e)
    BY <1>12 DEF ReconPublish
  <2> HIDE DEF c, e
  <2>5. recon' \in [Regions -> ReconState] /\ PassHasWindow'
    BY <1>8, <2>2, <2>4, AdvanceType
  <2>6. wire' \in [Regions -> [Regions -> Seq(Envelope)]]
    BY <2>3, <2>4, PublishType
  <2> QED  BY <1>12, <2>5, <2>6 DEF ReconPublish, gatewayVars
<1>13. ASSUME NEW r \in Regions, ReconFail(r)
       PROVE  TypeOK' /\ PassHasWindow'
  <2>1. Abandon(recon[r]) \in ReconState
    <3>1. recon[r] \in ReconState /\ recon[r].left # <<>>
      BY <1>13 DEF ReconFail
    <3> QED  BY <3>1, NoSlotsType DEF Abandon, ReconState
  <2>2. recon' = [recon EXCEPT ![r] = Abandon(recon[r])]
    BY <1>13 DEF ReconFail
  <2>3. Abandon(recon[r]).todo = {} /\ Abandon(recon[r]).chunk = NoSlots
    BY DEF Abandon
  <2>4. recon' \in [Regions -> ReconState] /\ PassHasWindow'
    BY <1>8, <2>1, <2>2, <2>3
  <2> QED  BY <1>13, <2>4 DEF ReconFail, gatewayVars, netVars
<1>14. ASSUME NEW r \in Regions, NEW o \in Regions, Partition(r, o)
       PROVE  TypeOK' /\ PassHasWindow'
  BY <1>14 DEF Partition, gatewayVars, netVars
<1>15. ASSUME NEW r \in Regions, NEW S \in SUBSET blocked[r], Heal(r, S)
       PROVE  TypeOK' /\ PassHasWindow'
  BY <1>15 DEF Heal, gatewayVars, netVars
<1>16. ASSUME NEW o \in Regions, NEW r \in Regions, Subscribe(o, r)
       PROVE  TypeOK' /\ PassHasWindow'
  BY <1>16 DEF Subscribe, gatewayVars, syncVars
<1>17. ASSUME NEW o \in Regions, NEW r \in Regions, Disconnect(o, r)
       PROVE  TypeOK' /\ PassHasWindow'
  <2>1. \A n \in 0 .. Len(wire[o][r]) : SubSeq(wire[o][r], 1, n) \in Seq(Envelope)
    OBVIOUS
  <2> QED  BY <1>17, <2>1 DEF Disconnect, gatewayVars, syncVars
<1>18. ASSUME NEW r \in Regions, RedisDown(r) \/ RedisRecover(r)
       PROVE  TypeOK' /\ PassHasWindow'
  BY <1>18 DEF RedisDown, RedisRecover, gatewayVars, netVars, syncVars
<1>19. ASSUME NEW r \in Regions, RedisWipe(r)
       PROVE  TypeOK' /\ PassHasWindow'
  BY <1>19 DEF RedisWipe, gatewayVars, syncVars, Nothing
<1>20. ASSUME NEW r \in Regions, SyncRestart(r)
       PROVE  TypeOK' /\ PassHasWindow'
  <2>1. recon' \in [Regions -> ReconState] /\ PassHasWindow'
    BY <1>8, <1>20, IdleType DEF SyncRestart, Idle
  <2>2. \A q \in Regions : Len(buffer'[q]) <= BufferCap
    BY <1>20, BoundsAssumption DEF SyncRestart
  <2> QED  BY <1>20, <2>1, <2>2 DEF SyncRestart, gatewayVars
<1>21. ASSUME NEW r \in Regions, NEW k \in Keys, Expire(r, k)
       PROVE  TypeOK' /\ PassHasWindow'
  BY <1>21 DEF Expire, gatewayVars, netVars, syncVars, Nothing
<1>22. ASSUME NextMinute
       PROVE  TypeOK' /\ PassHasWindow'
  BY <1>22, BoundsAssumption DEF NextMinute, gatewayVars, netVars, syncVars, Windows
<1>23. ASSUME UNCHANGED vars
       PROVE  TypeOK' /\ PassHasWindow'
  BY <1>23 DEF vars, gatewayVars, netVars, syncVars
<1>24. ASSUME NEW r \in Regions, Gateway(r) \/ Admin(r)
       PROVE  TypeOK' /\ PassHasWindow'
  <2>1. CASE Gateway(r)
    BY <1>1, <1>2, <1>3, <2>1 DEF Gateway
  <2>2. CASE Admin(r)
    BY <1>14, <1>15, <2>2, BoundsAssumption DEF Admin
  <2> QED  BY <1>24, <2>1, <2>2
<1>25. ASSUME NEW r \in Regions, Sync(r)
       PROVE  TypeOK' /\ PassHasWindow'
  <2>1. CASE RelayStep(r)
    BY <1>5, <1>6, <1>7, <2>1 DEF RelayStep
  <2>2. CASE ReconStep(r)
    BY <1>10, <1>11, <1>12, <1>13, <2>2 DEF ReconStep
  <2> QED  BY <1>4, <1>9, <1>16, <1>25, <2>1, <2>2, BoundsAssumption DEF Sync
<1>26. ASSUME NEW r \in Regions, Environment(r)
       PROVE  TypeOK' /\ PassHasWindow'
  BY <1>17, <1>18, <1>19, <1>20, <1>21, <1>26 DEF Environment
<1> HIDE DEF TypeOK, PassHasWindow
<1> QED  BY <1>22, <1>23, <1>24, <1>25, <1>26 DEF Next

\* Every variable keeps the type TypeOK gives it, the failover buffer stays within
\* its cap, and a reconcile pass with work left has a window.
THEOREM TypeCorrect == Spec => [](TypeOK /\ PassHasWindow)
BY TypeInit, TypeStep, PTL DEF Spec

-----------------------------------------------------------------------------
(* Replication invents nothing.  Counts only grow, so what is truthful stays *)
(* so; each step moves truthful values from one place to another.            *)

CountsGrow == \A o \in Regions, k \in Keys : issued[o][k] <= issued'[o][k]

LEMMA TruthfulKept ==
    ASSUME TypeOK, CountsGrow, NEW e \in Envelope, Truthful(e, issued), TypeOK'
    PROVE  Truthful(e, issued')
BY DEF TypeOK, CountsGrow, Truthful, Envelope, Keys

LEMMA PendingKept ==
    ASSUME TypeOK, TypeOK', CountsGrow, PendingTruthful, \A r \in Regions : pending'[r] \subseteq pending[r]
    PROVE  PendingTruthful'
BY TruthfulKept DEF PendingTruthful, TypeOK

LEMMA WireKept ==
    ASSUME TypeOK, TypeOK', CountsGrow, WireTruthful, UNCHANGED wire
    PROVE  WireTruthful'
<1> SUFFICES ASSUME NEW o \in Regions, NEW r \in Regions, NEW i \in 1 .. Len(wire[o][r])
             PROVE  Truthful(wire[o][r][i], issued')
  BY DEF WireTruthful
<1>1. wire[o][r][i] \in Envelope
  BY DEF TypeOK
<1>2. Truthful(wire[o][r][i], issued)
  BY DEF WireTruthful
<1> QED  BY <1>1, <1>2, TruthfulKept

LEMMA RelayKept ==
    ASSUME TypeOK, TypeOK', CountsGrow, RelayTruthful, \A r \in Regions : relay'[r] \subseteq relay[r]
    PROVE  RelayTruthful'
<1> SUFFICES ASSUME NEW r \in Regions, NEW w \in relay'[r]
             PROVE  w.value <= issued'[w.origin][w.key]
  BY DEF RelayTruthful
<1>1. w \in relay[r] /\ w \in SlotWrite
  BY DEF TypeOK
<1>2. w.origin \in Regions /\ w.key \in Keys /\ w.value \in Nat
  BY <1>1 DEF SlotWrite
<1>3. w.value <= issued[w.origin][w.key]
  BY <1>1 DEF RelayTruthful
<1>4. issued[w.origin][w.key] \in Nat /\ issued'[w.origin][w.key] \in Nat
  BY <1>2 DEF TypeOK
<1>5. issued[w.origin][w.key] <= issued'[w.origin][w.key]
  BY <1>2 DEF CountsGrow
<1> QED  BY <1>2, <1>3, <1>4, <1>5

LEMMA ChunkKept ==
    ASSUME TypeOK, TypeOK', CountsGrow, ChunkTruthful, UNCHANGED recon
    PROVE  ChunkTruthful'
<1> SUFFICES ASSUME NEW r \in Regions, recon[r].left # <<>>, NEW u \in Users
             PROVE  recon[r].chunk[u] <= issued'[r][<<u, Head(recon[r].left)>>]
  BY DEF ChunkTruthful
<1>1. recon[r] \in ReconState
  BY DEF TypeOK
<1>2. Head(recon[r].left) \in Windows /\ recon[r].chunk[u] \in Nat
  BY <1>1 DEF ReconState
<1> DEFINE k == <<u, Head(recon[r].left)>>
<1>3. k \in Keys
  BY <1>2 DEF Keys
<1>4. recon[r].chunk[u] <= issued[r][k]
  BY DEF ChunkTruthful
<1>5. issued[r][k] <= issued'[r][k] /\ issued[r][k] \in Nat /\ issued'[r][k] \in Nat
  BY <1>3 DEF CountsGrow, TypeOK
<1> HIDE DEF k
<1>6. recon[r].chunk[u] <= issued'[r][k]
  BY <1>2, <1>4, <1>5
<1> QED  BY <1>6 DEF k

LEMMA GlobalKept ==
    ASSUME TypeOK, TypeOK', CountsGrow, NoInvention, UNCHANGED global
    PROVE  NoInvention'
<1> SUFFICES ASSUME NEW r \in Regions, NEW o \in Regions, NEW k \in Keys
             PROVE  global[r][k][o] <= issued'[o][k]
  BY DEF NoInvention
<1>1. global[r][k][o] \in Nat /\ issued[o][k] \in Nat /\ issued'[o][k] \in Nat
  BY DEF TypeOK
<1>2. global[r][k][o] <= issued[o][k] /\ issued[o][k] <= issued'[o][k]
  BY DEF NoInvention, CountsGrow
<1> QED  BY <1>1, <1>2

\* Publishing a truthful envelope keeps the subscriptions truthful.
LEMMA PublishTruthful ==
    ASSUME TypeOK, TypeOK', UNCHANGED issued, WireTruthful,
           NEW o \in Regions, NEW e \in Envelope, Truthful(e, issued), PublishAt(o, e)
    PROVE  WireTruthful'
<1> SUFFICES ASSUME NEW p \in Regions, NEW r \in Regions, NEW i \in 1 .. Len(wire'[p][r])
             PROVE  Truthful(wire'[p][r][i], issued')
  BY DEF WireTruthful
<1>1. CASE p = o /\ subscribed[o][r]
  <2>1. wire'[p][r] = Append(wire[o][r], e)
    BY <1>1 DEF PublishAt, TypeOK
  <2>2. wire[o][r] \in Seq(Envelope)
    BY DEF TypeOK
  <2>3. CASE i = Len(wire[o][r]) + 1
    BY <2>1, <2>2, <2>3 DEF Truthful
  <2>4. CASE i # Len(wire[o][r]) + 1
    <3>1. i \in 1 .. Len(wire[o][r]) /\ wire'[p][r][i] = wire[o][r][i]
      BY <2>1, <2>2, <2>4
    <3>2. Truthful(wire[o][r][i], issued)
      BY <3>1 DEF WireTruthful
    <3> QED  BY <3>1, <3>2 DEF Truthful
  <2> QED  BY <2>3, <2>4
<1>2. CASE ~(p = o /\ subscribed[o][r])
  <2>1. wire'[p][r] = wire[p][r]
    BY <1>2 DEF PublishAt, TypeOK
  <2>2. Truthful(wire[p][r][i], issued)
    BY <2>1 DEF WireTruthful
  <2> QED  BY <2>1, <2>2 DEF Truthful
<1> QED  BY <1>1, <1>2

\* Merging a truthful write invents nothing.
LEMMA MergeTruthful ==
    ASSUME TypeOK, NoInvention, NEW r \in Regions, NEW w \in SlotWrite,
           w.value <= issued[w.origin][w.key], UNCHANGED issued,
           global' = global \/ global' = Merged(r, w)
    PROVE  NoInvention'
<1> USE DEF TypeOK
<1>1. w.key \in Keys /\ w.origin \in Regions /\ w.value \in Nat
  BY DEF SlotWrite
<1>2. CASE global' = global
  BY <1>2 DEF NoInvention
<1>3. CASE global' = Merged(r, w)
  <2> SUFFICES ASSUME NEW p \in Regions, NEW o \in Regions, NEW k \in Keys
               PROVE  global'[p][k][o] <= issued[o][k]
    BY DEF NoInvention
  <2>1. CASE p = r /\ k = w.key /\ o = w.origin
    <3>1. global'[p][k][o] = MaxMerge(global[r][w.key][w.origin], w.value)
      BY <1>1, <1>3, <2>1 DEF Merged
    <3> QED  BY <1>1, <2>1, <3>1 DEF MaxMerge, NoInvention
  <2>2. CASE ~(p = r /\ k = w.key /\ o = w.origin)
    <3> DEFINE v == MaxMerge(global[r][w.key][w.origin], w.value)
    <3>0. global' = [global EXCEPT ![r][w.key][w.origin] = v]
      BY <1>1, <1>3 DEF Merged
    <3> HIDE DEF v
    <3>1. global'[p][k][o] = global[p][k][o]
      <4>1. CASE p # r
        BY <3>0, <4>1
      <4>2. CASE p = r /\ k # w.key
        BY <1>1, <3>0, <4>2
      <4>3. CASE p = r /\ k = w.key /\ o # w.origin
        BY <1>1, <3>0, <4>3
      <4> QED  BY <2>2, <4>1, <4>2, <4>3
    <3> QED  BY <3>1 DEF NoInvention
  <2> QED  BY <2>1, <2>2
<1> QED  BY <1>2, <1>3

LEMMA WritesTruthful ==
    ASSUME TypeOK, NEW e \in Envelope, Truthful(e, issued), NEW w \in Writes(e)
    PROVE  w.value <= issued[w.origin][w.key]
BY DEF Writes, Truthful, Carried

LEMMA AdvanceTruthful ==
    ASSUME TypeOK, NEW r \in Regions, NEW c \in ReconState, c.left # <<>>,
           \A u \in Users : c.chunk[u] <= issued[r][<<u, Head(c.left)>>]
    PROVE  LET d == Advance(c) IN
           d.left # <<>> => \A u \in Users : d.chunk[u] <= issued[r][<<u, Head(d.left)>>]
<1>1. CASE c.todo = {} /\ c.chunk = NoSlots
  <2>1. Advance(c) = [c EXCEPT !.left = Tail(c.left)]
    BY <1>1 DEF Advance
  <2>2. Advance(c).chunk = NoSlots /\ Advance(c).left = Tail(c.left) /\ Tail(c.left) \in Seq(Windows)
    BY <1>1, <2>1 DEF ReconState
  <2>3. Tail(c.left) # <<>> => Head(Tail(c.left)) \in Windows
    BY <2>2
  <2>4. \A u \in Users : NoSlots[u] = 0
    BY DEF NoSlots
  <2>5. \A u \in Users, t \in Windows : 0 <= issued[r][<<u, t>>]
    BY DEF TypeOK, Keys
  <2> QED  BY <2>2, <2>3, <2>4, <2>5
<1>2. CASE ~(c.todo = {} /\ c.chunk = NoSlots)
  BY <1>2 DEF Advance
<1> QED  BY <1>1, <1>2

LEMMA TruthInit == Init => NoInvention /\ InFlightTruthful
<1> SUFFICES ASSUME Init PROVE NoInvention /\ InFlightTruthful
  OBVIOUS
<1>1. NoInvention
  BY DEF Init, NoInvention, Nothing
<1>2. PendingTruthful /\ WireTruthful /\ RelayTruthful
  BY DEF Init, PendingTruthful, WireTruthful, RelayTruthful
<1>3. ChunkTruthful
  BY DEF Init, ChunkTruthful, Idle
<1> QED  BY <1>1, <1>2, <1>3 DEF InFlightTruthful

LEMMA TruthStep ==
    ASSUME TruthInv, [Next]_vars
    PROVE  NoInvention' /\ InFlightTruthful'
<1>1. TypeOK /\ TypeOK' /\ PassHasWindow /\ NoInvention
  BY TypeStep DEF TruthInv
<1>2. PendingTruthful /\ WireTruthful /\ RelayTruthful /\ ChunkTruthful
  BY DEF TruthInv, InFlightTruthful
<1> USE DEF InFlightTruthful
<1>3. UNCHANGED issued => CountsGrow
  BY <1>1 DEF CountsGrow, TypeOK
<1>4. ASSUME NEW r \in Regions, NEW c \in ReconState, recon' = [recon EXCEPT ![r] = c], UNCHANGED issued,
             c.left # <<>> => \A u \in Users : c.chunk[u] <= issued[r][<<u, Head(c.left)>>]
      PROVE  ChunkTruthful'
  BY <1>1, <1>2, <1>4 DEF ChunkTruthful, TypeOK
<1>5. ASSUME NEW r \in Regions, NEW k \in Keys, GatewayCount(r, k)
      PROVE  NoInvention' /\ InFlightTruthful'
  <2> DEFINE e == [origin |-> r, window |-> k[2],
                   slots |-> [NoSlots EXCEPT ![k[1]] = global[r][k][r] + 1]]
  <2>1. /\ issued' = [issued EXCEPT ![r][k] = issued[r][k] + 1]
        /\ global' = [global EXCEPT ![r][k][r] = global[r][k][r] + 1]
        /\ pending' = [pending EXCEPT ![r] = pending[r] \union {e}]
        /\ UNCHANGED <<wire, relay, recon>>
    BY <1>5 DEF GatewayCount, netVars, syncVars
  <2>2. global[r][k][r] \in Nat /\ issued[r][k] \in Nat /\ global[r][k][r] <= issued[r][k]
    BY <1>1 DEF TypeOK, NoInvention
  <2>3. CountsGrow
    <3> SUFFICES ASSUME NEW o \in Regions, NEW j \in Keys
                 PROVE  issued[o][j] <= issued'[o][j]
      BY DEF CountsGrow
    <3>1. issued[o][j] \in Nat
      BY <1>1 DEF TypeOK
    <3>2. CASE o = r /\ j = k
      BY <1>1, <2>1, <3>1, <3>2 DEF TypeOK
    <3>3. CASE ~(o = r /\ j = k)
      <4>1. issued'[o][j] = issued[o][j]
        BY <1>1, <2>1, <3>3 DEF TypeOK
      <4> QED  BY <3>1, <4>1
    <3> QED  BY <3>2, <3>3
  <2>4. NoInvention'
    <3> SUFFICES ASSUME NEW p \in Regions, NEW o \in Regions, NEW j \in Keys
                 PROVE  global'[p][j][o] <= issued'[o][j]
      BY DEF NoInvention
    <3>1. CASE p = r /\ j = k /\ o = r
      BY <1>1, <2>1, <2>2, <3>1 DEF TypeOK
    <3>2. CASE ~(p = r /\ j = k /\ o = r)
      <4>1. global'[p][j][o] = global[p][j][o]
        <5>1. CASE p # r
          BY <1>1, <2>1, <5>1 DEF TypeOK
        <5>2. CASE p = r /\ j # k
          BY <1>1, <2>1, <5>2 DEF TypeOK
        <5>3. CASE p = r /\ j = k /\ o # r
          BY <1>1, <2>1, <5>3 DEF TypeOK
        <5> QED  BY <3>2, <5>1, <5>2, <5>3
      <4>2. global[p][j][o] \in Nat /\ issued[o][j] \in Nat /\ issued'[o][j] \in Nat
        BY <1>1 DEF TypeOK
      <4>3. global[p][j][o] <= issued[o][j] /\ issued[o][j] <= issued'[o][j]
        BY <1>1, <2>3 DEF NoInvention, CountsGrow
      <4> QED  BY <4>1, <4>2, <4>3
    <3> QED  BY <3>1, <3>2
  <2>5. e \in Envelope /\ Truthful(e, issued')
    <3>1. k[1] \in Users /\ k[2] \in Windows /\ k = <<k[1], k[2]>>
      BY DEF Keys
    <3>2. e \in Envelope
      BY <2>2, <3>1, NoSlotsType DEF Envelope
    <3>3. issued'[r][k] = issued[r][k] + 1
      BY <1>1, <2>1 DEF TypeOK
    <3>4. ASSUME NEW u \in Users PROVE e.slots[u] <= issued'[r][<<u, k[2]>>]
      <4>1. CASE u = k[1]
        BY <2>2, <3>1, <3>3, <4>1, NoSlotsType
      <4>2. CASE u # k[1]
        <5>1. e.slots[u] = 0
          BY <4>2, NoSlotsType DEF NoSlots
        <5>2. issued'[r][<<u, k[2]>>] \in Nat
          BY <1>1, <3>1 DEF TypeOK, Keys
        <5> QED  BY <5>1, <5>2
      <4> QED  BY <4>1, <4>2
    <3> QED  BY <3>2, <3>4 DEF Truthful
  <2> HIDE DEF e
  <2>6. PendingTruthful'
    <3> SUFFICES ASSUME NEW p \in Regions, NEW d \in pending'[p]
                 PROVE  Truthful(d, issued')
      BY DEF PendingTruthful
    <3>1. d = e \/ d \in pending[p]
      BY <1>1, <2>1 DEF TypeOK
    <3>2. d \in pending[p] => d \in Envelope /\ Truthful(d, issued)
      BY <1>1, <1>2 DEF TypeOK, PendingTruthful
    <3> QED  BY <1>1, <2>3, <2>5, <3>1, <3>2, TruthfulKept
  <2>7. WireTruthful' /\ RelayTruthful' /\ ChunkTruthful'
    BY <1>1, <1>2, <2>1, <2>3, WireKept, RelayKept, ChunkKept
  <2> QED  BY <2>4, <2>6, <2>7
<1>6. ASSUME NEW r \in Regions, NEW e \in pending[r], GatewayPublish(r, e)
      PROVE  NoInvention' /\ InFlightTruthful'
  <2>1. UNCHANGED <<issued, global, relay, recon>> /\ PublishAt(r, e)
    BY <1>6 DEF GatewayPublish, syncVars
  <2>2. e \in Envelope /\ Truthful(e, issued)
    BY <1>1, <1>2 DEF TypeOK, PendingTruthful
  <2>3. \A p \in Regions : pending'[p] \subseteq pending[p]
    BY <1>1, <1>6 DEF GatewayPublish, TypeOK
  <2>4. PendingTruthful' /\ RelayTruthful' /\ ChunkTruthful' /\ NoInvention'
    BY <1>1, <1>2, <1>3, <2>1, <2>3, PendingKept, RelayKept, ChunkKept, GlobalKept
  <2>5. WireTruthful'
    BY <1>1, <1>2, <2>1, <2>2, PublishTruthful
  <2> QED  BY <2>4, <2>5
<1>7. ASSUME NEW r \in Regions, NEW e \in pending[r], GatewayLose(r, e)
      PROVE  NoInvention' /\ InFlightTruthful'
  <2>1. UNCHANGED <<issued, global, wire, relay, recon>>
    BY <1>7 DEF GatewayLose, netVars, syncVars
  <2>2. \A p \in Regions : pending'[p] \subseteq pending[p]
    BY <1>1, <1>7 DEF GatewayLose, TypeOK
  <2> QED  BY <1>1, <1>2, <1>3, <2>1, <2>2, PendingKept, WireKept, RelayKept, ChunkKept, GlobalKept
<1>8. ASSUME NEW r \in Regions, NEW o \in Regions, RelayTake(r, o)
      PROVE  NoInvention' /\ InFlightTruthful'
  <2> DEFINE e == Head(wire[o][r])
  <2>1. UNCHANGED <<issued, global, pending, recon>>
    BY <1>8 DEF RelayTake, gatewayVars
  <2>2. wire[o][r] \in Seq(Envelope) /\ wire[o][r] # <<>>
    BY <1>1, <1>8 DEF RelayTake, TypeOK
  <2>3. e \in Envelope /\ Truthful(e, issued)
    BY <1>2, <2>2 DEF WireTruthful
  <2>4. wire' = [wire EXCEPT ![o][r] = Tail(wire[o][r])]
    BY <1>8 DEF RelayTake
  <2>5. relay' = [relay EXCEPT ![r] = {}] \/ relay' = [relay EXCEPT ![r] = Writes(e)]
    BY <1>8 DEF RelayTake
  <2> HIDE DEF e
  <2>6. WireTruthful'
    <3> SUFFICES ASSUME NEW p \in Regions, NEW q \in Regions, NEW i \in 1 .. Len(wire'[p][q])
                 PROVE  Truthful(wire'[p][q][i], issued)
      BY <2>1 DEF WireTruthful
    <3>1. CASE p = o /\ q = r
      <4>1. wire'[p][q] = Tail(wire[o][r])
        BY <1>1, <2>4, <3>1 DEF TypeOK
      <4>2. i + 1 \in 1 .. Len(wire[o][r]) /\ wire'[p][q][i] = wire[o][r][i + 1]
        BY <2>2, <4>1
      <4> QED  BY <1>2, <4>2 DEF WireTruthful
    <3>2. CASE ~(p = o /\ q = r)
      <4>1. wire'[p][q] = wire[p][q]
        BY <1>1, <2>4, <3>2 DEF TypeOK
      <4> QED  BY <1>2, <4>1 DEF WireTruthful
    <3> QED  BY <3>1, <3>2
  <2>7. RelayTruthful'
    <3> SUFFICES ASSUME NEW p \in Regions, NEW w \in relay'[p]
                 PROVE  w.value <= issued[w.origin][w.key]
      BY <2>1 DEF RelayTruthful
    <3>1. w \in relay[p] \/ w \in Writes(e)
      BY <1>1, <2>5 DEF TypeOK
    <3> QED  BY <1>1, <1>2, <2>3, <3>1, WritesTruthful DEF RelayTruthful
  <2>8. PendingTruthful' /\ ChunkTruthful' /\ NoInvention'
    BY <1>1, <1>2, <1>3, <2>1, PendingKept, ChunkKept, GlobalKept
  <2> QED  BY <2>6, <2>7, <2>8
<1>9. ASSUME NEW r \in Regions, NEW w \in relay[r], RelayApply(r, w) \/ RelayFail(r, w) \/ RelayTimeout(r, w)
      PROVE  NoInvention' /\ InFlightTruthful'
  <2>1. UNCHANGED <<issued, pending, wire, recon>>
    BY <1>9 DEF RelayApply, RelayFail, RelayTimeout, gatewayVars, netVars
  <2>2. global' = global \/ global' = Merged(r, w)
    BY <1>9 DEF RelayApply, RelayFail, RelayTimeout
  <2>3. \A p \in Regions : relay'[p] \subseteq relay[p]
    <3>1. relay' = [relay EXCEPT ![r] = relay[r] \ {w}]
      BY <1>9 DEF RelayApply, RelayFail, RelayTimeout
    <3> QED  BY <1>1, <3>1 DEF TypeOK
  <2>4. w \in SlotWrite /\ w.value <= issued[w.origin][w.key]
    BY <1>1, <1>2 DEF TypeOK, RelayTruthful
  <2>5. NoInvention'
    BY <1>1, <2>1, <2>2, <2>4, MergeTruthful
  <2> QED  BY <1>1, <1>2, <1>3, <2>1, <2>3, <2>5, PendingKept, WireKept, RelayKept, ChunkKept
<1>10. ASSUME NEW r \in Regions, ReconTick(r)
       PROVE  NoInvention' /\ InFlightTruthful'
  <2> DEFINE c == [recon[r] EXCEPT !.left = PassWindows(now)]
  <2>1. UNCHANGED <<issued, pending, wire, relay, global>> /\ recon' = [recon EXCEPT ![r] = c]
    BY <1>10 DEF ReconTick, gatewayVars, netVars
  <2>2. recon[r].chunk = NoSlots
    BY <1>1, <1>10 DEF ReconTick, PassHasWindow
  <2>3. c \in ReconState /\ c.left # <<>> /\ c.chunk = NoSlots
    <3>1. recon[r] \in ReconState /\ PassWindows(now) \in Seq(Windows) /\ PassWindows(now) # <<>>
      BY <1>1, PassType DEF TypeOK
    <3> QED  BY <2>2, <3>1 DEF ReconState
  <2> HIDE DEF c
  <2>4. \A u \in Users : c.chunk[u] <= issued[r][<<u, Head(c.left)>>]
    <3>1. Head(c.left) \in Windows
      BY <2>3 DEF ReconState
    <3>2. \A u \in Users : issued[r][<<u, Head(c.left)>>] \in Nat
      BY <1>1, <3>1 DEF TypeOK, Keys
    <3>3. \A u \in Users : c.chunk[u] = 0
      BY <2>3 DEF NoSlots
    <3> QED  BY <3>2, <3>3
  <2>5. ChunkTruthful'
    BY <1>4, <2>1, <2>3, <2>4
  <2> QED  BY <1>1, <1>2, <1>3, <2>1, <2>5, PendingKept, WireKept, RelayKept, GlobalKept
<1>11. ASSUME NEW r \in Regions, ReconScan(r)
       PROVE  NoInvention' /\ InFlightTruthful'
  <2> DEFINE c == [recon[r] EXCEPT !.todo =
                     {u \in Users : global[r][<<u, Head(recon[r].left)>>] # Nothing}]
  <2>1. UNCHANGED <<issued, pending, wire, relay, global>> /\ recon' = [recon EXCEPT ![r] = Advance(c)]
    BY <1>11 DEF ReconScan, gatewayVars, netVars
  <2>2. c \in ReconState /\ c.left # <<>> /\ c.chunk = recon[r].chunk /\ c.left = recon[r].left
    <3>1. recon[r] \in ReconState /\ recon[r].left # <<>>
      BY <1>1, <1>11 DEF ReconScan, Scanning, TypeOK
    <3> QED  BY <3>1 DEF ReconState
  <2> HIDE DEF c
  <2>3. \A u \in Users : c.chunk[u] <= issued[r][<<u, Head(c.left)>>]
    BY <1>2, <2>2 DEF ChunkTruthful
  <2>4. ChunkTruthful'
    BY <1>1, <1>4, <2>1, <2>2, <2>3, AdvanceTruthful, AdvanceType
  <2> QED  BY <1>1, <1>2, <1>3, <2>1, <2>4, PendingKept, WireKept, RelayKept, GlobalKept
<1>12. ASSUME NEW r \in Regions, NEW u \in Users, ReconRead(r, u)
       PROVE  NoInvention' /\ InFlightTruthful'
  <2> DEFINE t == Head(recon[r].left)
             v == global[r][<<u, t>>][r]
             c == [recon[r] EXCEPT !.todo = @ \ {u}, !.chunk[u] = v]
  <2>1. UNCHANGED <<issued, pending, wire, relay, global>> /\ recon' = [recon EXCEPT ![r] = Advance(c)]
    BY <1>12 DEF ReconRead, gatewayVars, netVars
  <2>2. recon[r] \in ReconState /\ recon[r].left # <<>>
    BY <1>1, <1>12 DEF ReconRead, TypeOK, PassHasWindow
  <2>3. t \in Windows
    BY <2>2 DEF ReconState
  <2>4. v \in Nat /\ v <= issued[r][<<u, t>>]
    BY <1>1, <2>3 DEF TypeOK, Keys, NoInvention
  <2>5. c \in ReconState /\ c.left = recon[r].left /\ c.chunk = [recon[r].chunk EXCEPT ![u] = v]
    <3> HIDE DEF v
    <3> QED  BY <2>2, <2>4 DEF ReconState
  <2> HIDE DEF c, v
  <2>6. \A x \in Users : c.chunk[x] <= issued[r][<<x, t>>]
    BY <1>2, <2>2, <2>4, <2>5 DEF ChunkTruthful, ReconState
  <2>7. ChunkTruthful'
    BY <1>1, <1>4, <2>1, <2>2, <2>5, <2>6, AdvanceTruthful, AdvanceType
  <2> QED  BY <1>1, <1>2, <1>3, <2>1, <2>7, PendingKept, WireKept, RelayKept, GlobalKept
<1>13. ASSUME NEW r \in Regions, ReconPublish(r)
       PROVE  NoInvention' /\ InFlightTruthful'
  <2> DEFINE c == [recon[r] EXCEPT !.chunk = NoSlots]
             e == [origin |-> r, window |-> Head(recon[r].left), slots |-> recon[r].chunk]
  <2>1. /\ UNCHANGED <<issued, pending, relay, global>> /\ PublishAt(r, e)
        /\ recon' = [recon EXCEPT ![r] = Advance(c)]
    BY <1>13 DEF ReconPublish, gatewayVars
  <2>2. recon[r] \in ReconState /\ recon[r].left # <<>>
    BY <1>1, <1>13 DEF ReconPublish, TypeOK, PassHasWindow
  <2>3. e \in Envelope /\ Truthful(e, issued)
    BY <1>2, <2>2 DEF ReconState, Envelope, Truthful, ChunkTruthful
  <2>4. c \in ReconState /\ c.left = recon[r].left /\ c.chunk = NoSlots
    BY <2>2, NoSlotsType DEF ReconState
  <2> HIDE DEF c, e
  <2>5. \A u \in Users : c.chunk[u] <= issued[r][<<u, Head(c.left)>>]
    <3>1. Head(c.left) \in Windows
      BY <2>2, <2>4 DEF ReconState
    <3>2. \A u \in Users : issued[r][<<u, Head(c.left)>>] \in Nat
      BY <1>1, <3>1 DEF TypeOK, Keys
    <3>3. \A u \in Users : c.chunk[u] = 0
      BY <2>4 DEF NoSlots
    <3> QED  BY <3>2, <3>3
  <2>6. ChunkTruthful'
    BY <1>1, <1>4, <2>1, <2>2, <2>4, <2>5, AdvanceTruthful, AdvanceType
  <2>7. WireTruthful'
    BY <1>1, <1>2, <2>1, <2>3, PublishTruthful
  <2> QED  BY <1>1, <1>2, <1>3, <2>1, <2>6, <2>7, PendingKept, RelayKept, GlobalKept
<1>14. ASSUME NEW r \in Regions, ReconFail(r)
       PROVE  NoInvention' /\ InFlightTruthful'
  <2> DEFINE c == Abandon(recon[r])
  <2>1. UNCHANGED <<issued, pending, wire, relay, global>> /\ recon' = [recon EXCEPT ![r] = c]
    BY <1>14 DEF ReconFail, gatewayVars, netVars
  <2>2. recon[r] \in ReconState /\ recon[r].left # <<>>
    BY <1>1, <1>14 DEF ReconFail, TypeOK
  <2>3. c \in ReconState /\ c.chunk = NoSlots
    BY <2>2, NoSlotsType DEF Abandon, ReconState
  <2> HIDE DEF c
  <2>4. c.left # <<>> => \A u \in Users : c.chunk[u] <= issued[r][<<u, Head(c.left)>>]
    <3>1. c.left # <<>> => Head(c.left) \in Windows
      BY <2>3 DEF ReconState
    <3>2. c.left # <<>> => \A u \in Users : issued[r][<<u, Head(c.left)>>] \in Nat
      BY <1>1, <3>1 DEF TypeOK, Keys
    <3>3. \A u \in Users : c.chunk[u] = 0
      BY <2>3 DEF NoSlots
    <3> QED  BY <3>2, <3>3
  <2>5. ChunkTruthful'
    BY <1>4, <2>1, <2>3, <2>4
  <2> QED  BY <1>1, <1>2, <1>3, <2>1, <2>5, PendingKept, WireKept, RelayKept, GlobalKept
<1>15. ASSUME NEW r \in Regions,
              \/ \E o \in Regions : Partition(r, o) \/ Subscribe(o, r)
              \/ \E S \in SUBSET blocked[r] : Heal(r, S)
              \/ RedisDown(r) \/ RedisRecover(r)
       PROVE  NoInvention' /\ InFlightTruthful'
  <2>1. UNCHANGED <<issued, pending, wire, relay, recon, global>>
    BY <1>15 DEF Partition, Subscribe, Heal, RedisDown, RedisRecover, gatewayVars, netVars, syncVars
  <2> QED  BY <1>1, <1>2, <1>3, <2>1, PendingKept, WireKept, RelayKept, ChunkKept, GlobalKept
<1>16. ASSUME NEW o \in Regions, NEW r \in Regions, Disconnect(o, r)
       PROVE  NoInvention' /\ InFlightTruthful'
  <2>1. UNCHANGED <<issued, pending, relay, recon, global>>
    BY <1>16 DEF Disconnect, gatewayVars, syncVars
  <2>2. PICK n \in 0 .. Len(wire[o][r]) : wire' = [wire EXCEPT ![o][r] = SubSeq(wire[o][r], 1, n)]
    BY <1>16 DEF Disconnect
  <2>3. wire[o][r] \in Seq(Envelope)
    BY <1>1 DEF TypeOK
  <2>4. WireTruthful'
    <3> SUFFICES ASSUME NEW p \in Regions, NEW q \in Regions, NEW i \in 1 .. Len(wire'[p][q])
                 PROVE  Truthful(wire'[p][q][i], issued)
      BY <2>1 DEF WireTruthful
    <3>1. CASE p = o /\ q = r
      <4>1. wire'[p][q] = SubSeq(wire[o][r], 1, n)
        BY <1>1, <2>2, <3>1 DEF TypeOK
      <4>2. i \in 1 .. Len(wire[o][r]) /\ wire'[p][q][i] = wire[o][r][i]
        BY <2>3, <4>1
      <4> QED  BY <1>2, <4>2 DEF WireTruthful
    <3>2. CASE ~(p = o /\ q = r)
      <4>1. wire'[p][q] = wire[p][q]
        BY <1>1, <2>2, <3>2 DEF TypeOK
      <4> QED  BY <1>2, <4>1 DEF WireTruthful
    <3> QED  BY <3>1, <3>2
  <2> QED  BY <1>1, <1>2, <1>3, <2>1, <2>4, PendingKept, RelayKept, ChunkKept, GlobalKept
<1>17. ASSUME NEW r \in Regions, RedisWipe(r) \/ \E k \in Keys : Expire(r, k)
       PROVE  NoInvention' /\ InFlightTruthful'
  <2>1. UNCHANGED <<issued, pending, wire, relay, recon>>
    BY <1>17 DEF RedisWipe, Expire, gatewayVars, netVars, syncVars
  <2>2. \A p, o \in Regions, k \in Keys : global'[p][k][o] = 0 \/ global'[p][k][o] = global[p][k][o]
    <3>1. CASE RedisWipe(r)
      BY <1>1, <3>1 DEF RedisWipe, Nothing, TypeOK
    <3>2. ASSUME NEW k \in Keys, Expire(r, k)
          PROVE  \A p, o \in Regions, j \in Keys :
                    global'[p][j][o] = 0 \/ global'[p][j][o] = global[p][j][o]
      <4>1. global' = [global EXCEPT ![r][k] = Nothing]
        BY <3>2 DEF Expire
      <4> QED  BY <1>1, <4>1 DEF Nothing, TypeOK
    <3> QED  BY <1>17, <3>1, <3>2
  <2>3. NoInvention'
    <3> SUFFICES ASSUME NEW p \in Regions, NEW o \in Regions, NEW k \in Keys
                 PROVE  global'[p][k][o] <= issued[o][k]
      BY <2>1 DEF NoInvention
    <3>1. issued[o][k] \in Nat /\ global[p][k][o] <= issued[o][k]
      BY <1>1 DEF TypeOK, NoInvention
    <3> QED  BY <2>2, <3>1
  <2> QED  BY <1>1, <1>2, <1>3, <2>1, <2>3, PendingKept, WireKept, RelayKept, ChunkKept
<1>18. ASSUME NEW r \in Regions, SyncRestart(r)
       PROVE  NoInvention' /\ InFlightTruthful'
  <2>1. UNCHANGED <<issued, pending, global>>
    BY <1>18 DEF SyncRestart, gatewayVars
  <2>2. \A p \in Regions : relay'[p] \subseteq relay[p]
    BY <1>1, <1>18 DEF SyncRestart, TypeOK
  <2>3. WireTruthful'
    <3>1. \A o, p \in Regions : wire'[o][p] = <<>> \/ wire'[o][p] = wire[o][p]
      BY <1>1, <1>18 DEF SyncRestart, TypeOK
    <3> QED  BY <1>2, <2>1, <3>1 DEF WireTruthful
  <2>4. ChunkTruthful'
    <3>1. recon' = [recon EXCEPT ![r] = Idle]
      BY <1>18 DEF SyncRestart
    <3>2. Idle \in ReconState /\ Idle.left = <<>>
      BY IdleType DEF Idle
    <3> QED  BY <1>4, <2>1, <3>1, <3>2
  <2> QED  BY <1>1, <1>2, <1>3, <2>1, <2>2, <2>3, <2>4, PendingKept, RelayKept, GlobalKept
<1>19. ASSUME NextMinute \/ UNCHANGED vars
       PROVE  NoInvention' /\ InFlightTruthful'
  <2>1. UNCHANGED <<issued, pending, wire, relay, recon, global>>
    BY <1>19 DEF NextMinute, vars, gatewayVars, netVars, syncVars
  <2> QED  BY <1>1, <1>2, <1>3, <2>1, PendingKept, WireKept, RelayKept, ChunkKept, GlobalKept
<1>20. ASSUME NEW r \in Regions, Gateway(r)
       PROVE  NoInvention' /\ InFlightTruthful'
  BY <1>5, <1>6, <1>7, <1>20 DEF Gateway
<1>21. ASSUME NEW r \in Regions, Sync(r)
       PROVE  NoInvention' /\ InFlightTruthful'
  <2>1. CASE RelayStep(r)
    BY <1>9, <2>1 DEF RelayStep
  <2>2. CASE ReconStep(r)
    BY <1>11, <1>12, <1>13, <1>14, <2>2 DEF ReconStep
  <2> QED  BY <1>8, <1>10, <1>15, <1>21, <2>1, <2>2, BoundsAssumption DEF Sync
<1>22. ASSUME NEW r \in Regions, Admin(r)
       PROVE  NoInvention' /\ InFlightTruthful'
  BY <1>15, <1>22, BoundsAssumption DEF Admin
<1>23. ASSUME NEW r \in Regions, Environment(r)
       PROVE  NoInvention' /\ InFlightTruthful'
  BY <1>15, <1>16, <1>17, <1>18, <1>23 DEF Environment
<1> QED  BY <1>19, <1>20, <1>21, <1>22, <1>23 DEF Next

\* Whatever is stored or under way in any region speaks the truth: no value exceeds what
\* its gateway counted, under every fault of the model.
THEOREM AlwaysTruthful == Spec => []TruthInv
<1>1. Init => TruthInv
  BY TypeInit, TruthInit DEF TruthInv
<1>2. TruthInv /\ [Next]_vars => TruthInv'
  BY TypeStep, TruthStep DEF TruthInv
<1> QED  BY <1>1, <1>2, PTL DEF Spec

\* Replication never invents requests: no slot of any region's hash exceeds what the
\* gateway of that slot counted.
THEOREM NeverInvents == Spec => []NoInvention
<1>1. TruthInv => NoInvention
  BY DEF TruthInv
<1> QED  BY <1>1, AlwaysTruthful, PTL

-----------------------------------------------------------------------------
(* What a step does to the slots.  The rest of the theorems need no more.    *)

Counts(r, k) == /\ Views!Usable(k)
                /\ issued[r][k] < MaxCount
                /\ issued' = [issued EXCEPT ![r][k] = @ + 1]
                /\ global' = [global EXCEPT ![r][k][r] = @ + 1]
                /\ UNCHANGED now

Merges(r, w) == /\ w.origin # r
                /\ global' = Merged(r, w)
                /\ UNCHANGED <<now, issued>>

Expires(r, k) == /\ MayExpire(k)
                 /\ global' = [global EXCEPT ![r][k] = Nothing]
                 /\ UNCHANGED <<now, issued>>

Wipes(r) == /\ "wipe" \in Faults
            /\ global' = [global EXCEPT ![r] = [k \in Keys |-> Nothing]]
            /\ UNCHANGED <<now, issued>>

Rolls == now < LastWindow /\ now' = now + 1 /\ UNCHANGED <<global, issued>>

LEMMA StepEffect ==
    ASSUME TypeOK, [Next]_vars
    PROVE  \/ \E r \in Regions, k \in Keys : Counts(r, k)
           \/ \E r \in Regions : \E w \in relay[r] : Merges(r, w)
           \/ \E r \in Regions, k \in Keys : Expires(r, k)
           \/ \E r \in Regions : Wipes(r)
           \/ Rolls
           \/ UNCHANGED <<now, global, issued>>
<1> DEFINE Goal == \/ \E r \in Regions, k \in Keys : Counts(r, k)
                   \/ \E r \in Regions : \E w \in relay[r] : Merges(r, w)
                   \/ \E r \in Regions, k \in Keys : Expires(r, k)
                   \/ \E r \in Regions : Wipes(r)
                   \/ Rolls
                   \/ UNCHANGED <<now, global, issued>>
<1>1. ASSUME NEW r \in Regions, Gateway(r) PROVE Goal
  <2>1. ASSUME NEW k \in Keys, GatewayCount(r, k) PROVE Counts(r, k)
    BY <2>1 DEF GatewayCount, Counts, Views!Usable
  <2>2. ASSUME NEW e \in pending[r], GatewayPublish(r, e) \/ GatewayLose(r, e)
        PROVE  UNCHANGED <<now, global, issued>>
    BY <2>2 DEF GatewayPublish, GatewayLose
  <2> QED  BY <1>1, <2>1, <2>2 DEF Gateway
<1>2. ASSUME NEW r \in Regions, Sync(r) PROVE Goal
  <2>1. CASE RelayStep(r)
    <3>1. PICK w \in relay[r] : RelayApply(r, w) \/ RelayFail(r, w) \/ RelayTimeout(r, w)
      BY <2>1 DEF RelayStep
    <3>2. Merges(r, w) \/ UNCHANGED <<now, global, issued>>
      BY <3>1 DEF RelayApply, RelayFail, RelayTimeout, Merges, gatewayVars
    <3> QED  BY <3>2
  <2>2. CASE ReconStep(r)
    BY <2>2 DEF ReconStep, ReconScan, ReconRead, ReconPublish, ReconFail, gatewayVars
  <2>3. CASE ReconTick(r) \/ (\E o \in Regions : RelayTake(r, o)) \/ (\E o \in Sources : Subscribe(o, r))
    BY <2>3 DEF ReconTick, RelayTake, Subscribe, gatewayVars
  <2> QED  BY <1>2, <2>1, <2>2, <2>3 DEF Sync
<1>3. ASSUME NEW r \in Regions, Admin(r) PROVE Goal
  BY <1>3 DEF Admin, Partition, Heal, gatewayVars
<1>4. ASSUME NEW r \in Regions, Environment(r) PROVE Goal
  <2>1. CASE RedisWipe(r)
    BY <2>1 DEF RedisWipe, Wipes, gatewayVars
  <2>2. ASSUME NEW k \in Keys, Expire(r, k) PROVE Expires(r, k)
    BY <2>2 DEF Expire, Expires, gatewayVars
  <2>3. CASE (\E o \in Regions : Disconnect(o, r)) \/ RedisDown(r) \/ RedisRecover(r) \/ SyncRestart(r)
    BY <2>3 DEF Disconnect, RedisDown, RedisRecover, SyncRestart, gatewayVars
  <2> QED  BY <1>4, <2>1, <2>2, <2>3 DEF Environment
<1>5. CASE NextMinute
  BY <1>5 DEF NextMinute, Rolls, gatewayVars
<1>6. CASE UNCHANGED vars
  BY <1>6 DEF vars, gatewayVars
<1> QED  BY <1>1, <1>2, <1>3, <1>4, <1>5, <1>6 DEF Next

\* A max-merge lowers no slot, and touches only the slot it names.
LEMMA MergeRaises ==
    ASSUME TypeOK, NEW r \in Regions, NEW w \in relay[r], Merges(r, w)
    PROVE  /\ \A p, o \in Regions, k \in Keys : global[p][k][o] <= global'[p][k][o]
           /\ \A p, o \in Regions, k \in Keys :
                 (p = r /\ k = w.key /\ o = w.origin) \/ global'[p][k][o] = global[p][k][o]
<1> DEFINE v == MaxMerge(global[r][w.key][w.origin], w.value)
<1>1. w.key \in Keys /\ w.origin \in Regions /\ w.value \in Nat
  BY DEF TypeOK, SlotWrite
<1>2. v \in Nat /\ global[r][w.key][w.origin] <= v
  <2>1. global[r][w.key][w.origin] \in Nat
    BY <1>1 DEF TypeOK
  <2>2. ASSUME NEW m \in Nat, NEW n \in Nat
        PROVE  MaxMerge(m, n) \in Nat /\ m <= MaxMerge(m, n)
    BY DEF MaxMerge
  <2> QED  BY <1>1, <2>1, <2>2
<1>3. global' = [global EXCEPT ![r][w.key][w.origin] = v]
  BY DEF Merges, Merged
<1> HIDE DEF v
<1>4. ASSUME NEW p \in Regions, NEW o \in Regions, NEW k \in Keys
      PROVE  IF p = r /\ k = w.key /\ o = w.origin THEN global'[p][k][o] = v
             ELSE global'[p][k][o] = global[p][k][o]
  <2>1. CASE p # r
    BY <1>3, <2>1 DEF TypeOK
  <2>2. CASE p = r /\ k # w.key
    BY <1>1, <1>3, <2>2 DEF TypeOK
  <2>3. CASE p = r /\ k = w.key
    BY <1>1, <1>3, <2>3 DEF TypeOK
  <2> QED  BY <2>1, <2>2, <2>3
<1>5. \A p, o \in Regions, k \in Keys : global[p][k][o] \in Nat
  BY DEF TypeOK
<1> QED  BY <1>2, <1>4, <1>5

LEMMA CountRaises ==
    ASSUME TypeOK, NEW r \in Regions, NEW k \in Keys, Counts(r, k)
    PROVE  \A p, o \in Regions, j \in Keys :
              global'[p][j][o] = IF p = r /\ j = k /\ o = r THEN global[p][j][o] + 1
                                 ELSE global[p][j][o]
<1> SUFFICES ASSUME NEW p \in Regions, NEW o \in Regions, NEW j \in Keys
             PROVE  global'[p][j][o] = IF p = r /\ j = k /\ o = r THEN global[p][j][o] + 1
                                       ELSE global[p][j][o]
  OBVIOUS
<1>1. global' = [global EXCEPT ![r][k][r] = global[r][k][r] + 1]
  BY DEF Counts
<1>2. CASE p # r
  BY <1>1, <1>2 DEF TypeOK
<1>3. CASE p = r /\ j # k
  BY <1>1, <1>3 DEF TypeOK
<1>4. CASE p = r /\ j = k
  BY <1>1, <1>4 DEF TypeOK
<1> QED  BY <1>2, <1>3, <1>4

\* No slot of a window in use ever decreases, except where a Redis restarts empty.
THEOREM SlotsAreMonotone == Spec => MonotoneSlots
<1> DEFINE Monotone ==
             \A r \in Regions :
                \/ "wipe" \in Faults /\ global'[r] = [k \in Keys |-> Nothing]
                \/ \A o \in Regions, k \in Keys :
                      k[2] \in {now - 1, now} => global[r][k][o] <= global'[r][k][o]
<1>1. ASSUME TypeOK, [Next]_vars PROVE Monotone
  <2> SUFFICES ASSUME NEW p \in Regions,
                      ~("wipe" \in Faults /\ global'[p] = [k \in Keys |-> Nothing]),
                      NEW o \in Regions, NEW j \in Keys, j[2] \in {now - 1, now}
               PROVE  global[p][j][o] <= global'[p][j][o]
    OBVIOUS
  <2>1. global[p][j][o] \in Nat
    BY <1>1 DEF TypeOK
  <2>2. ASSUME NEW r \in Regions, NEW k \in Keys, Counts(r, k)
        PROVE  global[p][j][o] <= global'[p][j][o]
    BY <1>1, <2>1, <2>2, CountRaises
  <2>3. ASSUME NEW r \in Regions, NEW w \in relay[r], Merges(r, w)
        PROVE  global[p][j][o] <= global'[p][j][o]
    BY <1>1, <2>3, MergeRaises
  <2>4. ASSUME NEW r \in Regions, NEW k \in Keys, Expires(r, k)
        PROVE  global[p][j][o] <= global'[p][j][o]
    <3>1. now \in Nat /\ k[2] \in Nat /\ j # k
      <4>1. now \in Nat /\ k[2] \in Nat
        BY <1>1, BoundsAssumption DEF TypeOK, Windows, Keys
      <4> QED  BY <2>4, <4>1 DEF Expires, MayExpire
    <3>2. global'[p][j] = global[p][j]
      BY <1>1, <2>4, <3>1 DEF Expires, TypeOK
    <3> QED  BY <2>1, <3>2
  <2>5. ASSUME NEW r \in Regions, Wipes(r)
        PROVE  global[p][j][o] <= global'[p][j][o]
    <3>1. r # p
      <4>1. CASE r = p
        BY <1>1, <2>5, <4>1 DEF Wipes, TypeOK
      <4> QED  BY <4>1
    <3>2. global'[p] = global[p]
      BY <1>1, <2>5, <3>1 DEF Wipes, TypeOK
    <3> QED  BY <2>1, <3>2
  <2>6. CASE Rolls \/ UNCHANGED <<now, global, issued>>
    BY <2>1, <2>6 DEF Rolls
  <2> QED  BY <1>1, <2>2, <2>3, <2>4, <2>5, <2>6, StepEffect
<1>2. TypeOK /\ [Next]_vars => [Monotone]_vars
  BY <1>1
<1> QED  BY <1>2, TypeCorrect, PTL DEF Spec, MonotoneSlots

\* The invariant behind OwnSlotExact also speaks of windows to come, which no
\* request has been counted in yet.
OwnInv == \A r \in Regions, k \in Keys : k[2] + 1 >= now => global[r][k][r] = issued[r][k]

\* Without data loss in Redis, the own slot is exactly what the gateway counted for
\* as long as the window is in use: sync never writes it, and it does not expire.
THEOREM OwnSlotHolds ==
    ASSUME "wipe" \notin Faults
    PROVE  Spec => []OwnSlotExact
<1>1. Init => OwnInv
  BY DEF Init, OwnInv, Nothing
<1>2. TypeOK /\ OwnInv /\ [Next]_vars => OwnInv'
  <2> SUFFICES ASSUME TypeOK, OwnInv, [Next]_vars, NEW p \in Regions, NEW j \in Keys, j[2] + 1 >= now'
               PROVE  global'[p][j][p] = issued'[p][j]
    BY DEF OwnInv
  <2>1. now \in Nat /\ j[2] \in Nat
    BY BoundsAssumption DEF TypeOK, Windows, Keys
  <2>2. j[2] + 1 >= now => global[p][j][p] = issued[p][j]
    BY DEF OwnInv
  <2>3. ASSUME NEW r \in Regions, NEW k \in Keys, Counts(r, k)
        PROVE  global'[p][j][p] = issued'[p][j]
    <3>1. issued'[p][j] = IF p = r /\ j = k THEN issued[p][j] + 1 ELSE issued[p][j]
      BY <2>3 DEF Counts, TypeOK
    <3>2. global'[p][j][p] = IF p = r /\ j = k THEN global[p][j][p] + 1 ELSE global[p][j][p]
      BY <2>3, CountRaises
    <3>3. now' = now
      BY <2>3 DEF Counts
    <3> QED  BY <2>2, <3>1, <3>2, <3>3
  <2>4. ASSUME NEW r \in Regions, NEW w \in relay[r], Merges(r, w)
        PROVE  global'[p][j][p] = issued'[p][j]
    BY <2>2, <2>4, MergeRaises DEF Merges
  <2>5. ASSUME NEW r \in Regions, NEW k \in Keys, Expires(r, k)
        PROVE  global'[p][j][p] = issued'[p][j]
    <3>1. j # k /\ UNCHANGED <<now, issued>>
      BY <2>1, <2>5 DEF Expires, MayExpire
    <3>2. global'[p][j] = global[p][j]
      BY <2>5, <3>1 DEF Expires, TypeOK
    <3> QED  BY <2>2, <3>1, <3>2
  <2>6. ASSUME NEW r \in Regions, Wipes(r)
        PROVE  global'[p][j][p] = issued'[p][j]
    BY <2>6 DEF Wipes
  <2>7. CASE Rolls \/ UNCHANGED <<now, global, issued>>
    BY <2>1, <2>2, <2>7 DEF Rolls
  <2> QED  BY <2>3, <2>4, <2>5, <2>6, <2>7, StepEffect
<1>3. TypeOK /\ OwnInv => OwnSlotExact
  BY BoundsAssumption DEF OwnInv, OwnSlotExact, TypeOK, Windows, Keys
<1> QED  BY <1>1, <1>2, <1>3, TypeCorrect, PTL DEF Spec

\* A partition rule drains what it blocks: while o is blocked at r, the writes r owes to
\* slots of o only get fewer.
THEOREM BlockedDrains == Spec => BlockedOriginDrains
<1> DEFINE Drains == \A r \in Regions : \A o \in blocked[r] :
                        {w \in relay'[r] : w.origin = o} \subseteq relay[r]
<1>1. ASSUME TypeOK, [Next]_vars PROVE Drains
  <2> SUFFICES ASSUME NEW p \in Regions, NEW o \in blocked[p], NEW w \in relay'[p],
                      w.origin = o
               PROVE  w \in relay[p]
    OBVIOUS
  <2>1. relay \in [Regions -> SUBSET SlotWrite]
    BY <1>1 DEF TypeOK
  <2>2. ASSUME NEW r \in Regions, NEW q \in Regions, RelayTake(r, q)
        PROVE  w \in relay[p]
    <3>1. CASE r # p
      BY <2>1, <2>2, <3>1 DEF RelayTake
    <3>2. CASE r = p
      <4> DEFINE e == Head(wire[q][r])
      <4>1. relay'[r] = IF Drops(r, e) THEN {} ELSE Writes(e)
        BY <2>1, <2>2 DEF RelayTake
      <4>2. ~Drops(r, e) /\ w \in Writes(e)
        BY <3>2, <4>1
      <4>3. w.origin = e.origin
        BY <4>2 DEF Writes
      <4> QED  BY <3>2, <4>2, <4>3 DEF Drops
    <3> QED  BY <3>1, <3>2
  <2>3. ASSUME NEW r \in Regions, RelayStep(r)
        PROVE  w \in relay[p]
    <3>1. PICK v \in relay[r] : relay' = [relay EXCEPT ![r] = @ \ {v}]
      BY <2>3 DEF RelayStep, RelayApply, RelayFail, RelayTimeout
    <3> QED  BY <2>1, <3>1
  <2>4. ASSUME NEW r \in Regions, SyncRestart(r)
        PROVE  w \in relay[p]
    BY <2>1, <2>4 DEF SyncRestart
  <2>5. CASE relay' = relay
    BY <2>5
  <2>6. ASSUME NEW r \in Regions, Gateway(r) \/ Admin(r)
        PROVE  relay' = relay
    BY <2>6 DEF Gateway, Admin, GatewayCount, GatewayPublish, GatewayLose, Partition, Heal, syncVars
  <2>7. ASSUME NEW r \in Regions, ReconTick(r) \/ ReconStep(r) \/ (\E q \in Sources : Subscribe(q, r))
        PROVE  relay' = relay
    BY <2>7 DEF ReconTick, ReconStep, ReconScan, ReconRead, ReconPublish, ReconFail, Subscribe, syncVars
  <2>8. ASSUME NEW r \in Regions, Environment(r), ~SyncRestart(r)
        PROVE  relay' = relay
    BY <2>8 DEF Environment, Disconnect, RedisDown, RedisRecover, RedisWipe, Expire, syncVars
  <2>9. CASE NextMinute \/ UNCHANGED vars
    BY <2>9 DEF NextMinute, vars, syncVars
  <2>10. ASSUME NEW r \in Regions, Sync(r)
         PROVE  w \in relay[p]
    BY <2>2, <2>3, <2>5, <2>7, <2>10 DEF Sync
  <2>11. ASSUME NEW r \in Regions, Environment(r)
         PROVE  w \in relay[p]
    BY <2>4, <2>5, <2>8, <2>11
  <2> QED  BY <1>1, <2>5, <2>6, <2>9, <2>10, <2>11 DEF Next
<1>2. TypeOK /\ [Next]_vars => [Drains]_vars
  BY <1>1
<1> QED  BY <1>2, TypeCorrect, PTL DEF Spec, BlockedOriginDrains

\* The whole protocol, with its losses, restarts, partitions and half-finished
\* passes, implements the replication promise.
THEOREM Refinement == Spec => ImplementsViews
<1>1. Init => Views!Init
  BY DEF Init, Views!Init, Nothing, Views!Nothing
<1>2. TruthInv /\ [Next]_vars => [Views!Next]_Views!vars
  <2> SUFFICES ASSUME TruthInv, [Next]_vars PROVE Views!Next \/ UNCHANGED Views!vars
    OBVIOUS
  <2>1. TypeOK /\ RelayTruthful
    BY DEF TruthInv, InFlightTruthful
  <2>2. ASSUME NEW r \in Regions, NEW k \in Keys, Counts(r, k)
        PROVE  Views!Next
    <3>1. Views!Count(r, k)
      BY <2>2 DEF Counts, Views!Count
    <3> QED  BY <3>1 DEF Views!Next
  <2>3. ASSUME NEW r \in Regions, NEW w \in relay[r], Merges(r, w)
        PROVE  Views!Next \/ UNCHANGED Views!vars
    <3>0. w \in SlotWrite
      BY <2>1 DEF TypeOK
    <3>1. w.key \in Keys /\ w.origin \in Regions /\ w.value \in Nat
      BY <3>0 DEF SlotWrite
    <3> DEFINE cur == global[r][w.key][w.origin]
    <3>2. cur \in Nat /\ w.value <= issued[w.origin][w.key]
      BY <2>1, <3>1 DEF TypeOK, RelayTruthful
    <3>3. CASE cur < w.value
      <4>1. global' = [global EXCEPT ![r][w.key][w.origin] = w.value]
        BY <2>3, <3>3 DEF Merges, Merged, MaxMerge
      <4>2. w.value \in 1 .. issued[w.origin][w.key]
        BY <2>1, <3>1, <3>2, <3>3 DEF TypeOK
      <4>3. Views!Learn(r, w.origin, w.key, w.value)
        BY <2>3, <3>3, <4>1 DEF Views!Learn, Merges
      <4> QED  BY <3>1, <4>2, <4>3 DEF Views!Next
    <3>4. CASE ~(cur < w.value)
      <4>1. global' = [global EXCEPT ![r][w.key][w.origin] = cur]
        BY <2>3, <3>4 DEF Merges, Merged, MaxMerge
      <4>2. global' = global
        <5>1. global \in [Regions -> [Keys -> [Regions -> Nat]]]
          BY <2>1 DEF TypeOK
        <5>2. [global[r][w.key] EXCEPT ![w.origin] = cur] = global[r][w.key]
          BY <3>1, <5>1
        <5>3. [global[r] EXCEPT ![w.key] = global[r][w.key]] = global[r]
          BY <3>1, <5>1
        <5>4. [global EXCEPT ![r] = global[r]] = global
          BY <5>1
        <5> QED  BY <4>1, <5>2, <5>3, <5>4
      <4> QED  BY <2>3, <4>2 DEF Merges, Views!vars
    <3> QED  BY <3>3, <3>4
  <2>4. ASSUME NEW r \in Regions, NEW k \in Keys, Expires(r, k)
        PROVE  Views!Next
    <3>1. Views!Over(k)
      BY <2>4 DEF Expires, MayExpire, Views!Over
    <3>2. global' = [global EXCEPT ![r] = [j \in Keys |->
                        IF j \in {k} THEN Views!Nothing ELSE global[r][j]]]
      BY <2>1, <2>4 DEF Expires, TypeOK, Nothing, Views!Nothing
    <3>3. Views!Forget(r, {k})
      BY <2>4, <3>1, <3>2 DEF Views!Forget, Expires
    <3> QED  BY <3>3 DEF Views!Next
  <2>5. ASSUME NEW r \in Regions, Wipes(r)
        PROVE  Views!Next
    <3>1. global' = [global EXCEPT ![r] = [j \in Keys |->
                        IF j \in Keys THEN Views!Nothing ELSE global[r][j]]]
      BY <2>5 DEF Wipes, Nothing, Views!Nothing
    <3>2. Views!Forget(r, Keys)
      BY <2>5, <3>1 DEF Views!Forget, Wipes
    <3> QED  BY <3>2 DEF Views!Next
  <2>6. CASE Rolls
    BY <2>6 DEF Rolls, Views!Next, Views!NextMinute
  <2>7. CASE UNCHANGED <<now, global, issued>>
    BY <2>7 DEF Views!vars
  <2> QED  BY <2>1, <2>2, <2>3, <2>4, <2>5, <2>6, <2>7, StepEffect
<1> QED  BY <1>1, <1>2, AlwaysTruthful, PTL DEF Spec, ImplementsViews, Views!Spec
=============================================================================
