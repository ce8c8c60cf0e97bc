---------------------------- MODULE SyncCluster ----------------------------
(***************************************************************************)
(* Counter replication between the regions.  Each region has a gateway     *)
(* that counts requests in its own slot of a hash in the local Redis and   *)
(* publishes the new value; and a sync process that relays what every      *)
(* region publishes into the local hash by max-merge, and periodically     *)
(* re-publishes the whole of its own region's slots.                       *)
(*                                                                         *)
(* One sync process is an asyncio program: each await is a step boundary.  *)
(* The two kinds of envelope differ only in how many users they carry.     *)
(* The tier is folded into the user: both are opaque parts of the key.     *)
(***************************************************************************)
EXTENDS Naturals, Sequences, FiniteSets

CONSTANTS Regions,
          Users,       \* users (with their tier)
          LastWindow,  \* bound: the minutes modelled are 0..LastWindow
          Sources,     \* bound: the regions that get traffic.  Nothing is ever published
                       \* at the others, so that passes of their reconcilers,
                       \* subscriptions to them and rules against them are left out
          MaxCount,    \* bound: requests a gateway counts per user and window
          MaxWire,     \* bound: envelopes on one subscription
          ChunkSize,   \* Reconciler.chunk_size
          BufferCap,   \* FailoverBuffer.max_entries_per_kind
          Faults       \* the faults a run allows, a subset of FaultKinds

FaultKinds == {"gateway", "redis", "wipe", "link", "sync", "timeout", "partition"}

ASSUME BoundsAssumption == /\ Sources \subseteq Regions
                           /\ LastWindow \in Nat /\ MaxCount \in Nat
                           /\ MaxWire \in Nat \ {0} /\ ChunkSize \in Nat \ {0}
                           /\ BufferCap \in Nat \ {0}
                           /\ Faults \subseteq FaultKinds

VARIABLES
    now,        \* the current window_id
    redisUp,    \* redisUp[r]: the local Redis of r answers
    global,     \* global[r][k][o]: field o of rl:global:k in the Redis of r, 0 if absent
    issued,     \* history: issued[r][k], the HINCRBYs gateway r made on k
    pending,    \* pending[r]: envelopes gateway r has yet to PUBLISH
    subscribed, \* subscribed[o][r]: sync r holds a live subscription at the Redis of o
    wire,       \* wire[o][r]: envelopes of that subscription r has yet to handle
    blocked,    \* blocked[r]: origins the partition table of sync r drops
    relay,      \* relay[r]: slot writes left of the envelope the relay handles
    buffer,     \* buffer[r]: the failover buffer, kind relay_apply
    recon       \* recon[r]: where the reconciler of r is

gatewayVars == <<issued, pending>>
netVars     == <<subscribed, wire>>
syncVars    == <<blocked, relay, buffer, recon>>
vars == <<now, redisUp, global, gatewayVars, netVars, syncVars>>

Windows == 0 .. LastWindow
Keys    == Users \X Windows

\* What travels: the region it speaks for, a window, and a value per user (0: none).
Envelope == [origin : Regions, window : Windows, slots : [Users -> Nat]]

\* One max-merge the relay owes.
SlotWrite == [key : Keys, origin : Regions, value : Nat]

NoSlots == [u \in Users |-> 0]
Nothing == [o \in Regions |-> 0]

\* left: windows of this pass still to do, the one being scanned first; todo: users
\* of it not read yet; chunk: values read and not published.
ReconState == [left : Seq(Windows), todo : SUBSET Users, chunk : [Users -> Nat]]
Idle == [left |-> <<>>, todo |-> {}, chunk |-> NoSlots]

Carried(slots) == {u \in Users : slots[u] > 0}

Init ==
    /\ now = 0
    /\ redisUp = [r \in Regions |-> TRUE]
    /\ global = [r \in Regions |-> [k \in Keys |-> Nothing]]
    /\ issued = [r \in Regions |-> [k \in Keys |-> 0]]
    /\ pending = [r \in Regions |-> {}]
    /\ subscribed = [o \in Regions |-> [r \in Regions |-> FALSE]]
    /\ wire = [o \in Regions |-> [r \in Regions |-> <<>>]]
    /\ blocked = [r \in Regions |-> {}]
    /\ relay = [r \in Regions |-> {}]
    /\ buffer = [r \in Regions |-> <<>>]
    /\ recon = [r \in Regions |-> Idle]

-----------------------------------------------------------------------------
(* Definitions whose name begins with Faulty are plausible bugs, put in the *)
(* place of the definition after them to see that a property notices.       *)

(* Publishing.  Redis pub/sub delivers to whoever is subscribed right now.  *)

Room(o) == \A r \in Regions : Len(wire[o][r]) < MaxWire

PublishAt(o, e) ==
    wire' = [wire EXCEPT ![o] = [r \in Regions |->
                IF subscribed[o][r] THEN Append(wire[o][r], e) ELSE wire[o][r]]]

-----------------------------------------------------------------------------
(* The gateway's part of a /check: HINCRBY of its own slot, and, as a later *)
(* command, the PUBLISH of the value it got back.  Concurrent requests may  *)
(* publish in another order than they counted.                              *)

\* The window is taken from the gateway's clock before the command runs.  (A set of
\* envelopes is enough: after a wipe two requests may get the same value, and the
\* second of two equal envelopes changes nothing.)
GatewayCount(r, k) ==
    /\ redisUp[r]
    /\ k[2] \in {now - 1, now}
    /\ issued[r][k] < MaxCount
    /\ global' = [global EXCEPT ![r][k][r] = @ + 1]
    /\ issued' = [issued EXCEPT ![r][k] = @ + 1]
    /\ pending' = [pending EXCEPT ![r] = @ \union
                      {[origin |-> r, window |-> k[2],
                        slots |-> [NoSlots EXCEPT ![k[1]] = global[r][k][r] + 1]]}]
    /\ UNCHANGED <<now, redisUp, netVars, syncVars>>

GatewayPublish(r, e) ==
    /\ e \in pending[r]
    /\ redisUp[r]
    /\ Room(r)
    /\ PublishAt(r, e)
    /\ pending' = [pending EXCEPT ![r] = @ \ {e}]
    /\ UNCHANGED <<now, redisUp, global, issued, subscribed, syncVars>>

\* The error of the PUBLISH is ignored; or the gateway stopped before it.
GatewayLose(r, e) ==
    /\ e \in pending[r]
    /\ ~redisUp[r] \/ "gateway" \in Faults
    /\ pending' = [pending EXCEPT ![r] = @ \ {e}]
    /\ UNCHANGED <<now, redisUp, global, issued, netVars, syncVars>>

-----------------------------------------------------------------------------
(* The relay of sync r.                                                     *)

FaultyDropsOwnOnly(r, e) == e.origin = r

\* Envelopes dropped on receipt: the partition table is asked about the region the
\* envelope speaks for, and an envelope of one's own region is never applied.
Drops(r, e) == e.origin \in blocked[r] \/ e.origin = r

FaultyWritesNow(e) == {[key |-> <<u, now>>, origin |-> e.origin, value |-> e.slots[u]] :
                          u \in Carried(e.slots)}

Writes(e) == {[key |-> <<u, e.window>>, origin |-> e.origin, value |-> e.slots[u]] :
                 u \in Carried(e.slots)}

RelayTake(r, o) ==
    /\ relay[r] = {}
    /\ wire[o][r] # <<>>
    /\ relay' = [relay EXCEPT ![r] = IF Drops(r, Head(wire[o][r])) THEN {}
                                     ELSE Writes(Head(wire[o][r]))]
    /\ wire' = [wire EXCEPT ![o][r] = Tail(@)]
    /\ UNCHANGED <<now, redisUp, global, gatewayVars, subscribed, blocked, buffer, recon>>

FaultyAdd(cur, v) == cur + v
FaultyOverwrite(cur, v) == v

\* The Lua script: HSET only if the field is absent or smaller.
MaxMerge(cur, v) == IF cur < v THEN v ELSE cur

Merged(r, w) == [global EXCEPT ![r][w.key][w.origin] = MaxMerge(@, w.value)]

FaultyPushedUnbounded(q, w) == Append(q, w)

\* At the cap the oldest entry makes room for the new one.
Pushed(q, w) == Append(IF Len(q) >= BufferCap THEN Tail(q) ELSE q, w)

\* apply_remote_slot refuses the own region (counter.py), then runs the script.
RelayApply(r, w) ==
    /\ w \in relay[r]
    /\ redisUp[r]
    /\ global' = IF w.origin = r THEN global ELSE Merged(r, w)
    /\ relay' = [relay EXCEPT ![r] = @ \ {w}]
    /\ UNCHANGED <<now, redisUp, gatewayVars, netVars, blocked, buffer, recon>>

\* The script fails: the write is kept in the failover buffer, the relay goes on.
RelayFail(r, w) ==
    /\ w \in relay[r]
    /\ ~redisUp[r]
    /\ buffer' = [buffer EXCEPT ![r] = Pushed(@, w)]
    /\ relay' = [relay EXCEPT ![r] = @ \ {w}]
    /\ UNCHANGED <<now, redisUp, global, gatewayVars, netVars, blocked, recon>>

\* The script runs but its reply misses the 1 s socket timeout.
RelayTimeout(r, w) ==
    /\ "timeout" \in Faults
    /\ w \in relay[r]
    /\ redisUp[r]
    /\ global' = IF w.origin = r THEN global ELSE Merged(r, w)
    /\ buffer' = [buffer EXCEPT ![r] = Pushed(@, w)]
    /\ relay' = [relay EXCEPT ![r] = @ \ {w}]
    /\ UNCHANGED <<now, redisUp, gatewayVars, netVars, blocked, recon>>

-----------------------------------------------------------------------------
(* The reconciler of sync r.                                                *)

FaultyPassCurrentOnly(t) == <<t>>

\* The windows of a pass, in order; window -1 has no keys.
PassWindows(t) == IF t = 0 THEN <<t>> ELSE <<t, t - 1>>

\* The pass goes to its next window when this one has nothing left.
Advance(c) == IF c.todo = {} /\ c.chunk = NoSlots THEN [c EXCEPT !.left = Tail(@)] ELSE c

\* An exception ends this window's pass only; what was read of it is lost.
Abandon(c) == [left |-> Tail(c.left), todo |-> {}, chunk |-> NoSlots]

Scanning(c) == c.left # <<>> /\ c.todo = {} /\ c.chunk = NoSlots

ChunkFull(c) == Cardinality(Carried(c.chunk)) >= ChunkSize

\* On start-up, then every period_s.
ReconTick(r) ==
    /\ recon[r].left = <<>>
    /\ recon' = [recon EXCEPT ![r].left = PassWindows(now)]
    /\ UNCHANGED <<now, redisUp, global, gatewayVars, netVars, blocked, relay, buffer>>

\* SCAN finds the window's keys.
ReconScan(r) ==
    /\ Scanning(recon[r])
    /\ redisUp[r]
    /\ recon' = [recon EXCEPT ![r] = Advance([@ EXCEPT !.todo =
                    {u \in Users : global[r][<<u, Head(recon[r].left)>>] # Nothing}])]
    /\ UNCHANGED <<now, redisUp, global, gatewayVars, netVars, blocked, relay, buffer>>

\* HGETALL of one of them; a key without the own slot is skipped.
ReconRead(r, u) ==
    /\ u \in recon[r].todo
    /\ ~ChunkFull(recon[r])
    /\ redisUp[r]
    /\ recon' = [recon EXCEPT ![r] = Advance(
                    [recon[r] EXCEPT !.todo = @ \ {u},
                                     !.chunk[u] = global[r][<<u, Head(recon[r].left)>>][r]])]
    /\ UNCHANGED <<now, redisUp, global, gatewayVars, netVars, blocked, relay, buffer>>

\* A full chunk, or the last one, is published on the local Redis.
ReconPublish(r) ==
    /\ recon[r].chunk # NoSlots
    /\ ChunkFull(recon[r]) \/ recon[r].todo = {}
    /\ redisUp[r]
    /\ Room(r)
    /\ PublishAt(r, [origin |-> r, window |-> Head(recon[r].left), slots |-> recon[r].chunk])
    /\ recon' = [recon EXCEPT ![r] = Advance([@ EXCEPT !.chunk = NoSlots])]
    /\ UNCHANGED <<now, redisUp, global, gatewayVars, subscribed, blocked, relay, buffer>>

ReconFail(r) ==
    /\ recon[r].left # <<>>
    /\ ~redisUp[r]
    /\ recon' = [recon EXCEPT ![r] = Abandon(@)]
    /\ UNCHANGED <<now, redisUp, global, gatewayVars, netVars, blocked, relay, buffer>>

-----------------------------------------------------------------------------
(* The operator: POST /admin/partition and /admin/heal on sync r.  A rule   *)
(* (from, to) matters only on the process of region "to".                   *)

Partition(r, o) ==
    /\ "partition" \in Faults
    /\ blocked' = [blocked EXCEPT ![r] = @ \union {o}]
    /\ UNCHANGED <<now, redisUp, global, gatewayVars, netVars, relay, buffer, recon>>

\* One rule, or all of them when "from" or "to" is missing.
Heal(r, S) ==
    /\ S \in {{o} : o \in blocked[r]} \union {blocked[r]}
    /\ blocked' = [blocked EXCEPT ![r] = @ \ S]
    /\ UNCHANGED <<now, redisUp, global, gatewayVars, netVars, relay, buffer, recon>>

-----------------------------------------------------------------------------
(* Connections, Redis, processes and time.                                  *)

\* The pump of sync r (re)subscribes at o.
Subscribe(o, r) ==
    /\ redisUp[o]
    /\ ~subscribed[o][r]
    /\ subscribed' = [subscribed EXCEPT ![o][r] = TRUE]
    /\ UNCHANGED <<now, redisUp, global, gatewayVars, wire, syncVars>>

\* The connection breaks: what had not reached the relay's queue is lost.
Disconnect(o, r) ==
    /\ "link" \in Faults \/ ~redisUp[o]
    /\ subscribed[o][r] \/ wire[o][r] # <<>>
    /\ subscribed' = [subscribed EXCEPT ![o][r] = FALSE]
    /\ \E n \in 0 .. Len(wire[o][r]) :
          wire' = [wire EXCEPT ![o][r] = SubSeq(@, 1, n)]
    /\ UNCHANGED <<now, redisUp, global, gatewayVars, syncVars>>

RedisDown(r) ==
    /\ "redis" \in Faults
    /\ redisUp[r]
    /\ redisUp' = [redisUp EXCEPT ![r] = FALSE]
    /\ UNCHANGED <<now, global, gatewayVars, netVars, syncVars>>

RedisRecover(r) ==
    /\ ~redisUp[r]
    /\ redisUp' = [redisUp EXCEPT ![r] = TRUE]
    /\ UNCHANGED <<now, global, gatewayVars, netVars, syncVars>>

\* The Redis of r restarts empty: its container has neither a volume nor AOF.
RedisWipe(r) ==
    /\ "wipe" \in Faults
    /\ global' = [global EXCEPT ![r] = [k \in Keys |-> Nothing]]
    /\ redisUp' = [redisUp EXCEPT ![r] = TRUE]
    /\ subscribed' = [subscribed EXCEPT ![r] = [p \in Regions |-> FALSE]]
    /\ UNCHANGED <<now, gatewayVars, wire, syncVars>>

\* Sync r restarts: everything it held was in memory.
SyncRestart(r) ==
    /\ "sync" \in Faults
    /\ subscribed' = [o \in Regions |-> [subscribed[o] EXCEPT ![r] = FALSE]]
    /\ wire' = [o \in Regions |-> [wire[o] EXCEPT ![r] = <<>>]]
    /\ blocked' = [blocked EXCEPT ![r] = {}]
    /\ relay' = [relay EXCEPT ![r] = {}]
    /\ buffer' = [buffer EXCEPT ![r] = <<>>]
    /\ recon' = [recon EXCEPT ![r] = Idle]
    /\ UNCHANGED <<now, redisUp, global, gatewayVars>>

FaultyExpireWithWindow(k) == k[2] < now

\* A key lives 120 s after the last HINCRBY and 300 s after the last merge, so it
\* outlives the window after its own.
MayExpire(k) == k[2] + 1 < now

Expire(r, k) ==
    /\ MayExpire(k)
    /\ global[r][k] # Nothing
    /\ global' = [global EXCEPT ![r][k] = Nothing]
    /\ UNCHANGED <<now, redisUp, gatewayVars, netVars, syncVars>>

NextMinute ==
    /\ now < LastWindow
    /\ now' = now + 1
    /\ UNCHANGED <<redisUp, global, gatewayVars, netVars, syncVars>>

-----------------------------------------------------------------------------
Gateway(r) == \/ r \in Sources /\ \E k \in Keys : GatewayCount(r, k)
              \/ \E e \in pending[r] : GatewayPublish(r, e) \/ GatewayLose(r, e)

RelayStep(r) == \E w \in relay[r] : \/ RelayApply(r, w)
                                    \/ RelayFail(r, w)
                                    \/ RelayTimeout(r, w)

ReconStep(r) == \/ ReconScan(r)
                \/ \E u \in Users : ReconRead(r, u)
                \/ ReconPublish(r)
                \/ ReconFail(r)

Sync(r) == \/ \E o \in Regions : RelayTake(r, o)
           \/ RelayStep(r)
           \/ r \in Sources /\ ReconTick(r)
           \/ ReconStep(r)
           \/ \E o \in Sources : Subscribe(o, r)

Admin(r) == \/ \E o \in Sources \ {r} : Partition(r, o)
            \/ \E S \in SUBSET blocked[r] \ {{}} : Heal(r, S)

Environment(r) == \/ \E o \in Regions : Disconnect(o, r)
                  \/ RedisDown(r) \/ RedisRecover(r) \/ RedisWipe(r)
                  \/ SyncRestart(r)
                  \/ \E k \in Keys : Expire(r, k)

Next == \/ \E r \in Regions : Gateway(r) \/ Sync(r) \/ Admin(r) \/ Environment(r)
        \/ NextMinute

Spec == Init /\ [][Next]_vars

-----------------------------------------------------------------------------
TypeOK ==
    /\ now \in Windows
    /\ redisUp \in [Regions -> BOOLEAN]
    /\ global \in [Regions -> [Keys -> [Regions -> Nat]]]
    /\ issued \in [Regions -> [Keys -> Nat]]
    /\ pending \in [Regions -> SUBSET Envelope]
    /\ subscribed \in [Regions -> [Regions -> BOOLEAN]]
    /\ wire \in [Regions -> [Regions -> Seq(Envelope)]]
    /\ blocked \in [Regions -> SUBSET Regions]
    /\ relay \in [Regions -> SUBSET SlotWrite]
    /\ buffer \in [Regions -> Seq(SlotWrite)]
    /\ \A r \in Regions : Len(buffer[r]) <= BufferCap
    /\ recon \in [Regions -> ReconState]

\* No slot, in any region, exceeds what the gateway of that slot counted: whatever
\* is lost, repeated, reordered or read half-way through a pass, replication
\* never invents requests.  (A gateway denies on the sum of the slots, so an
\* inflated slot would turn users away.)
NoInvention ==
    \A r, o \in Regions, k \in Keys : global[r][k][o] <= issued[o][k]

\* The parts of the inductive invariant behind NoInvention.  A pass that has keys to
\* read or values to publish has a window; and every value under way, whether about
\* to be published, on a subscription, in the relay's hands or in a half-read chunk,
\* is at most what its gateway counted.
PassHasWindow ==
    \A r \in Regions : recon[r].todo # {} \/ recon[r].chunk # NoSlots => recon[r].left # <<>>

Truthful(e, counts) == \A u \in Users : e.slots[u] <= counts[e.origin][<<u, e.window>>]

PendingTruthful == \A r \in Regions : \A e \in pending[r] : Truthful(e, issued)
WireTruthful == \A o, r \in Regions : \A i \in 1 .. Len(wire[o][r]) : Truthful(wire[o][r][i], issued)
RelayTruthful == \A r \in Regions : \A w \in relay[r] : w.value <= issued[w.origin][w.key]
ChunkTruthful == \A r \in Regions : recon[r].left # <<>> =>
    \A u \in Users : recon[r].chunk[u] <= issued[r][<<u, Head(recon[r].left)>>]

InFlightTruthful == PendingTruthful /\ WireTruthful /\ RelayTruthful /\ ChunkTruthful

\* NoInvention with the strengthening that makes it inductive.
TruthInv == TypeOK /\ PassHasWindow /\ NoInvention /\ InFlightTruthful

\* As long as requests can still be counted in a window, the own slot holds
\* exactly what the gateway counted: the sync process never writes it and the key
\* does not expire under it (sync-constitution III 6).
OwnSlotExact ==
    \A r \in Regions, k \in Keys : k[2] \in {now - 1, now} => global[r][k][r] = issued[r][k]

\* A replicated slot never decreases while its window can still be counted in,
\* however late or out of order envelopes arrive (sync-constitution II 3), unless the
\* whole Redis restarts empty.
MonotoneSlots ==
    [][\A r \in Regions :
          \/ "wipe" \in Faults /\ global'[r] = [k \in Keys |-> Nothing]
          \/ \A o \in Regions, k \in Keys :
                k[2] \in {now - 1, now} => global[r][k][o] <= global'[r][k][o]]_vars

\* A partition rule takes effect at once except for the envelope in hand: while o
\* is blocked at r, the writes r still owes to slots of o only get fewer.
BlockedOriginDrains ==
    [][\A r \in Regions : \A o \in blocked[r] :
          {w \in relay'[r] : w.origin = o} \subseteq relay[r]]_vars

\* The replication promise, with the slots as the views and the history of
\* increments as the counts.
Views == INSTANCE RegionalViews WITH count <- issued, view <- global,
                                     Durable <- "wipe" \notin Faults

ImplementsViews == Views!Spec

-----------------------------------------------------------------------------
(* Liveness.  The relay's queue is FIFO, so that no origin waits for ever    *)
(* (strong fairness: taking is disabled while another envelope is in hand);  *)
(* the asyncio tasks run on (weak fairness); the period elapses again and    *)
(* again.  Nothing is assumed of gateways, the operator or the faults.       *)

Fairness == \A r \in Regions :
    /\ \A o \in Sources : SF_vars(RelayTake(r, o)) /\ WF_vars(Subscribe(o, r))
    /\ WF_vars(RelayStep(r))
    /\ r \in Sources => WF_vars(ReconTick(r))
    /\ WF_vars(ReconStep(r))

FairSpec == Spec /\ Fairness

\* Every Redis answers and no partition rule is left.
Calm == \A r \in Regions : redisUp[r] /\ blocked[r] = {}

\* Every region agrees with every peer about the two windows in use.
Converged == \A r, o \in Regions, k \in Keys :
                k[2] \in {now - 1, now} => global[r][k][o] = global[o][k][o]

\* Once faults end (Redis answers, partitions are healed, connections hold and
\* processes stay up), all views agree, although publishes, buffered writes and
\* envelopes were lost: the reconcile pass is the correctness mechanism
\* (sync-constitution III 3).
Convergence ==
    (<>[]Calm /\ <>[][\A o, r \in Regions : subscribed[o][r] => subscribed'[o][r]]_vars)
        => <>[]Converged
=============================================================================
