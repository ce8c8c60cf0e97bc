----------------------------- MODULE PolicyLoop -----------------------------
(***************************************************************************)
(* The AI agent's control loop around the free tier: every tick the        *)
(* decider turns the predictions of each region into policy writes, and a  *)
(* noisy neighbour into override writes; keys live in the Redis of each    *)
(* region for their TTL, and the gateway's policy store reads them.  The   *)
(* agent can be stopped, or stop itself, at any time; so can every Redis.  *)
(*                                                                         *)
(* The rules are those of DeciderRules.  Time is counted in agent ticks:   *)
(* 10 s of sleep and the work of the tick, so that n ticks take a little   *)
(* more than 10n s.  Forecasts are arbitrary here, reduced to what the     *)
(* decider asks of them; TrafficAgent follows where they come from.  One   *)
(* user is followed; users are independent in the decider.                 *)
(***************************************************************************)
EXTENDS DeciderRules, FiniteSets

CONSTANTS Regions,
          PolicyTTL,    \* _POLICY_TTL, in ticks
          OverrideTTL,  \* _OVERRIDE_TTL, in ticks
          StaticLimit,  \* the gateway's static limit for the tier
          Faults        \* the faults a run allows: "agent" stops, "redis" goes down

ASSUME TimesAssumption ==
    /\ PolicyTTL \in Nat /\ PolicyTTL > Hysteresis
    /\ OverrideTTL \in Nat /\ OverrideTTL > Hysteresis
    /\ StaticLimit \in Nat \ {0}
    /\ Faults \subseteq {"agent", "redis"}

VARIABLES
    running,   \* the agent process is up
    clients,   \* regions whose Redis answered when the agent started
    todo,      \* regions the current tick has yet to decide about
    decider,   \* decider[r]: the _TierState of the free tier
    overrode,  \* ticks since the decider last overrode the user, Hysteresis if longer
    redisUp,   \* redisUp[r]: the Redis of r answers
    policy,    \* policy[r]: the key policy:{r}:free, NoKey if absent
    override,  \* override[r]: ticks the key override:{user} has left, 0 if absent
    store,     \* store[r]: the limit in force in the gateway of r
    refreshed, \* gateways that refreshed in this tick, after its last write
    seen,      \* history: the current tick saw the user over the share
    noisy      \* history: complete ticks in a row that did, and that no fault disturbed

agentVars == <<running, clients, todo, decider, overrode>>
keyVars   == <<redisUp, policy, override>>
storeVars == <<store, refreshed>>
history   == <<seen, noisy>>
vars == <<agentVars, keyVars, storeVars, history>>

\* Policies as JSON; a missing "algorithm" is read as "".  left: ticks to live.
Policy == [limit : Nat, algorithm : {"", "token_bucket"}, left : 1 .. PolicyTTL]
NoKey == [limit |-> 0, algorithm |-> "", left |-> 0]

Init ==
    /\ running = FALSE
    /\ clients = {}
    /\ todo = {}
    /\ decider = [r \in Regions |-> Fresh]
    /\ overrode = Hysteresis
    /\ redisUp = [r \in Regions |-> TRUE]
    /\ policy = [r \in Regions |-> NoKey]
    /\ override = [r \in Regions |-> 0]
    /\ store = [r \in Regions |-> StaticLimit]
    /\ refreshed = {}
    /\ seen = FALSE
    /\ noisy = 0

-----------------------------------------------------------------------------
(* The decider's writes.  Definitions whose name begins with Faulty are     *)
(* plausible bugs, put in the place of the definition after them to see     *)
(* that a property notices.                                                 *)

\* What write_policy puts at policy:{region}:free.  It has no "algorithm".
Written(s) == [limit |-> s.limit, algorithm |-> "", left |-> PolicyTTL]

FaultyOverrideDue == overrode = Hysteresis /\ \A r \in Regions : override[r] = 0

OverrideDue == overrode = Hysteresis

\* Rule 3: the top user of a tier of region r exceeds the share.  The override goes to
\* every region that can be reached; the time is kept even when none can.
NoisyNeighbor(over) ==
    /\ seen' = (seen \/ over)
    /\ IF over /\ OverrideDue
       THEN /\ overrode' = 0
            /\ override' = [r \in Regions |-> IF r \in clients /\ redisUp[r] THEN OverrideTTL
                                              ELSE override[r]]
       ELSE UNCHANGED <<overrode, override>>

\* One region of a tick.  Without a client the policy is only logged.
Decide(r, level, anomaly, over) ==
    LET s == Decided(decider[r], level, anomaly)
        writes == s # decider[r] /\ r \in clients
    IN  /\ r \in todo
        /\ writes => redisUp[r]
        /\ policy' = IF writes THEN [policy EXCEPT ![r] = Written(s)] ELSE policy
        /\ refreshed' = IF writes THEN refreshed \ {r} ELSE refreshed
        /\ decider' = [decider EXCEPT ![r] = s]
        /\ NoisyNeighbor(over)
        /\ todo' = todo \ {r}
        /\ UNCHANGED <<running, clients, redisUp, store, noisy>>

\* The agent is gone, with all it knew.
Gone ==
    /\ running' = FALSE
    /\ clients' = {}
    /\ todo' = {}
    /\ decider' = [r \in Regions |-> Fresh]
    /\ overrode' = Hysteresis
    /\ seen' = FALSE
    /\ noisy' = 0

\* SETEX of a policy raises: nothing catches it, and the agent ends.  When the
\* connection broke before the reply the policy was written all the same.
DecideRaises(r, level, anomaly) ==
    LET s == Decided(decider[r], level, anomaly)
    IN  /\ r \in todo
        /\ s # decider[r] /\ r \in clients
        /\ \/ ~redisUp[r] /\ UNCHANGED <<policy, refreshed>>
           \/ /\ "redis" \in Faults
              /\ redisUp[r]
              /\ policy' = [policy EXCEPT ![r] = Written(s)]
              /\ refreshed' = refreshed \ {r}
        /\ Gone
        /\ UNCHANGED <<redisUp, override, store>>

\* The agent starts: it pings every Redis once, and ticks at once.
Start ==
    /\ ~running
    /\ running' = TRUE
    /\ clients' = {r \in Regions : redisUp[r]}
    /\ todo' = Regions
    /\ UNCHANGED <<decider, overrode, keyVars, storeVars, history>>

Stop ==
    /\ "agent" \in Faults
    /\ running
    /\ Gone
    /\ UNCHANGED <<keyVars, storeVars>>

-----------------------------------------------------------------------------
(* The policy store of the gateway.                                         *)

FaultyValid(p) == TRUE

Valid(p) == p.limit > 0 /\ p.algorithm \in {"token_bucket", "sliding_window"}

\* Every 5 s: whatever cannot be read or is not valid means the static policy.
Refresh(r) ==
    /\ r \notin refreshed
    /\ store' = [store EXCEPT ![r] = IF redisUp[r] /\ Valid(policy[r]) THEN policy[r].limit
                                     ELSE StaticLimit]
    /\ refreshed' = refreshed \union {r}
    /\ UNCHANGED <<agentVars, keyVars, history>>

-----------------------------------------------------------------------------
(* Redis and time.                                                          *)

RedisDown(r) ==
    /\ "redis" \in Faults
    /\ redisUp[r]
    /\ redisUp' = [redisUp EXCEPT ![r] = FALSE]
    /\ seen' = FALSE /\ noisy' = 0
    /\ UNCHANGED <<agentVars, policy, override, storeVars>>

\* It comes back with its data or, having restarted, without.
RedisRecover(r) ==
    /\ ~redisUp[r]
    /\ redisUp' = [redisUp EXCEPT ![r] = TRUE]
    /\ \/ UNCHANGED <<policy, override>>
       \/ /\ policy' = [policy EXCEPT ![r] = NoKey]
          /\ override' = [override EXCEPT ![r] = 0]
    /\ refreshed' = refreshed \ {r}
    /\ seen' = FALSE /\ noisy' = 0
    /\ UNCHANGED <<agentVars, store>>

Aged(p) == IF p.left <= 1 THEN NoKey ELSE [p EXCEPT !.left = @ - 1]

\* The next tick begins: the last one is over and every gateway has refreshed since.
Elapse ==
    /\ todo = {}
    /\ refreshed = Regions
    /\ todo' = IF running THEN Regions ELSE {}
    /\ decider' = IF running THEN [r \in Regions |-> [decider[r] EXCEPT !.age = Older(@, Hysteresis)]]
                  ELSE decider
    /\ overrode' = Older(overrode, Hysteresis)
    /\ policy' = [r \in Regions |-> Aged(policy[r])]
    /\ override' = [r \in Regions |-> IF override[r] = 0 THEN 0 ELSE override[r] - 1]
    /\ refreshed' = {}
    /\ seen' = FALSE
    /\ noisy' = IF seen /\ \A r \in clients : redisUp[r] THEN Older(noisy, Hysteresis + 1) ELSE 0
    /\ UNCHANGED <<running, clients, redisUp, store>>

-----------------------------------------------------------------------------
Tick == \E r \in Regions, level \in Levels, anomaly \in BOOLEAN :
           \/ \E over \in BOOLEAN : Decide(r, level, anomaly, over)
           \/ DecideRaises(r, level, anomaly)

Next == \/ Tick
        \/ Start
        \/ Stop
        \/ \E r \in Regions : Refresh(r) \/ RedisDown(r) \/ RedisRecover(r)
        \/ Elapse

Spec == Init /\ [][Next]_vars

-----------------------------------------------------------------------------
\* Every component stays in its domain: no key outlives its TTL, and whatever the keys
\* hold or lose no gateway ever works with a limit of 0.
TypeOK ==
    /\ running \in BOOLEAN
    /\ clients \subseteq Regions
    /\ todo \subseteq Regions
    /\ decider \in [Regions -> TierState]
    /\ overrode \in 0 .. Hysteresis
    /\ redisUp \in [Regions -> BOOLEAN]
    /\ policy \in [Regions -> Policy \union {NoKey}]
    /\ override \in [Regions -> 0 .. OverrideTTL]
    /\ store \in [Regions -> Nat \ {0}]
    /\ refreshed \subseteq Regions
    /\ seen \in BOOLEAN
    /\ noisy \in 0 .. Hysteresis + 1

\* No flapping: a policy in Redis is replaced only when it is past the hysteresis, also
\* when the agent was restarted in between or ended in the middle of a write
\* (test_decider.py: neither the same decision nor its reversal can fire again).
NoFlapping ==
    [][\A r \in Regions :
          (policy'[r] # policy[r] /\ policy'[r].left = PolicyTTL /\ policy[r] # NoKey)
              => PolicyTTL - policy[r].left >= Hysteresis]_vars

\* Throttles never add up: whatever the agent forgets, a policy is the default or one
\* cut of it.
NoCompounding ==
    \A r \in Regions : policy[r] # NoKey => policy[r].limit \in {DefaultLimit, Cut(DefaultLimit)}

\* While the decider takes a tier for throttled, Redis has its throttle or, after the TTL
\* or a loss, nothing: never the default.  (Else it would not throttle again.)
BeliefMatchesKey ==
    \A r \in Regions : (running /\ r \in clients /\ decider[r].throttled /\ policy[r] # NoKey)
                           => policy[r].limit = Cut(DefaultLimit)

\* An override never lapses under a user that stays noisy: as the hysteresis is shorter
\* than the TTL it is written again in time, in every region the agent reaches.
NoOverrideGap ==
    noisy > Hysteresis => \A r \in clients : override[r] > 0

\* README: the agent "writes policies that the gateways adopt on a refresh loop".
PolicyAdopted ==
    \A r \in Regions : (r \in refreshed /\ redisUp[r] /\ policy[r] # NoKey)
                           => store[r] = policy[r].limit
=============================================================================
