# A verification project for gdrl, the geo-distributed rate limiter

gdrl limits the requests of users in three regions.  This directory holds TLA+
models of its parts, the TLC runs that check them on small instances, and
theorems proved with TLAPS for every value of the constants.  `PROJECT.json`
lists all of it: components, runs, the source lines behind every definition,
hazards, findings and theorems.

## 1. The system

| Component | Source | State it keeps | Operations |
|---|---|---|---|
| Gateway `/check` | `gateway/internal/handler` | none of its own; hash `rl:global:{tier}:{user}:{window}` (one field per region) in the local Redis | resolve policy and override, ask the local limiter, `HINCRBY` the own slot, `PUBLISH` it, `HGETALL` and compare the sum with the global limit |
| Local limiters | `gateway/internal/limiter` | `rl:local:...`: a hash (token bucket) or a sorted set (sliding window log) | one atomic Lua script per decision |
| Policy store | `gateway/internal/policy` | one policy per tier in memory | refresh every 5 s from `policy:{region}:{tier}`, validate, fall back to the static policy |
| Override cache | `gateway/internal/override` | one entry and one in-flight marker per user | `Lookup`: hit, join a lookup in flight, or do one |
| Relay | `sync/relay.py`, `sync/transport.py` | subscriptions to every Redis, one queue | take an envelope, ask the partition table, max-merge its slots into the local hash |
| Reconciler | `sync/reconciler.py` | where a pass is | every period: scan two windows, read the own slots, publish them in chunks |
| Failover buffer | `sync/buffer.py` | bounded FIFO of failed merges | push; drain, which nothing calls |
| Partition table, admin API | `sync/partition_table.py`, `sync/admin.py` | rules (from, to) | partition, heal, set the period, read state |
| Agent: decider and policy writer | `agent/decider.py`, `agent/policy_writer.py`, `agent/main.py` | per region and tier: limit, time of the last decision, throttled; per user: time of the last override | every 10 s: throttle, recover, override; `SETEX` of policies (300 s) and overrides (120 s) |
| Agent: telemetry and features | `agent/metrics_client.py`, `agent/feature_extractor.py` | time of the last answer; last live features and when they were taken | three queries a tick, each with a synthetic fallback; live features, cached ones, or zeros |
| Agent: predictor | `agent/predictor.py` | history, forecasts left of the last fit, EWMA, anomaly detector, a tick counter | `warm_up`; `update`: refit, serve a forecast, or smooth |
| Simulator | `simulator/cli.py`, `simulator/scenarios.py`, `simulator/runner.py` | the phase of a scenario, tasks, semaphore, connections, `Stats`, verdict counters | request loop at a Poisson, steady or diurnal rate; scenarios with spikes and a gateway stopped by docker |
| Populations, CLI tools, metrics, infrastructure | `simulator/populations.py`, `sync/dev/`, `infra/` | | lists of users, demonstration, dashboards |

How they meet: the gateway and the sync process of a region share the region's
Redis.  The gateway is the only writer of the region's own slot; the sync process
the only writer of the slots of the peers.  What a gateway publishes on its Redis
reaches the sync processes of all regions, by Redis pub/sub: at most once, and only
those that are subscribed at the moment.  The agent writes policies and overrides
into the same Redises; gateways poll them.  The agent sees traffic only through Prometheus.  The
simulator talks to the gateways over HTTP, through one client with a pool of connections.

What is hard about it:

- *Interleaving.* Gateways serve requests concurrently and every request issues several Redis
  commands; a sync process is an asyncio program that may be interrupted at each `await`.
- *Delivery.* Envelopes are lost, repeated (a reconcile pass repeats everything) and reordered
  (two requests publish in another order than they counted).
- *Failure.* Redis answers, answers late, is down, or comes back empty; processes restart with
  nothing but what Redis kept.
- *Time.* Windows turn while requests and passes are under way; keys expire; the clock a script
  is given was read earlier than the script runs; hysteresis, TTLs and periods race.
- *Belief.* The agent remembers what it wrote, Redis may have forgotten it, and the reverse; and it works on
  figures that may be old, made up, or absent.

What makes the parts correct, in a line each: replication never invents or loses counts it cannot get
back (relay, reconciler); the global check never denies without cause, does not take a denial back, and lets no region
past the limit but by its own failures (handler); rates and hints of the limiters hold whatever the order of the stamps
(limiters); an override is as fresh as the cache promises (override cache); decisions neither flap nor
compound, and what the agent believes is what Redis holds (decider, policy writer); features are as old as
they are said to be and silence is not taken for a spike (telemetry, predictor); every request of a scenario is accounted for, and the scenario ends
(simulator).

## 2. The modules

| Module | What it is |
|---|---|
| `RegionalViews` | what replication promises a gateway, with no process, message or failure in it |
| `SyncCluster` | the replication protocol: gateways' counting and publishing, relays, reconcilers, pub/sub, Redis, faults; **implements `RegionalViews`** |
| `SyncClusterProofs` | theorems about it |
| `GatewayCheck` | the `/check` handler, command by command, **on top of `RegionalViews`** |
| `GatewayCheckProofs` | theorems about it |
| `LocalLimiter` | the two Lua limiters over their shared key, under changing policies |
| `LocalLimiterProofs` | theorems about it |
| `OverrideCache` | `Cache.Lookup` and its shared lookups |
| `OverrideCacheProofs` | theorems about it |
| `DeciderRules` | rules 1 and 2 of the decider, as operators on the state of a tier; with `DeciderRulesProofs` |
| `PolicyLoop` | the agent's decider and policy writer, the keys they write, the gateways' policy store; **uses `DeciderRules`** with arbitrary forecasts |
| `PolicyLoopProofs` | theorems about it |
| `Telemetry` | Prometheus client and feature extractor |
| `Forecast` | the predictor of one series |
| `TrafficAgent` | the agent's loop from query to decision: **composes `Telemetry`, `Forecast`, `DeciderRules`** |
| `TrafficAgentProofs` | theorems about it |
| `LoadPlans` | the simulator's commands and scenarios, as sequences of phases |
| `LoadRunner` | the coroutine that runs them, its request loop, and the tasks: **executes `LoadPlans`** |
| `LoadRunnerProofs` | theorems about it and about the scenarios |
| `MC...` | constants for TLC |

### RegionalViews and SyncCluster

`RegionalViews` has three variables: the minute `now`, `count[o][k]` (requests region *o* counted
for key *k*, a user in a window) and `view[r][k][o]` (what region *r* believes of it).  `Count`, `Learn`,
`Forget` and `NextMinute` are all that may happen: a view rises, never past the count, and is forgotten
only once the window is over (or, when a Redis is not durable, with the whole Redis).  It is the
G-Counter of `sync/crdt.py` with one replica per region.

`SyncCluster` is the code.  `global` is the hash in each Redis; `pending` what a gateway has counted and
not published; `wire[o][r]` one subscription, from the socket to the relay's queue; `relay[r]` the writes
left of the envelope in hand; `recon[r]` where a pass is; `blocked`, `buffer` the partition table and
the failover buffer.  Each `await` of the code is a step boundary: `RelayTake` is `_handle` up to the
first merge, `RelayApply`, `RelayFail`, `RelayTimeout` are one `apply_remote_slot` (done; refused; done but reported as
failed), `ReconTick`, `ReconScan`, `ReconRead`, `ReconPublish`, `ReconFail` are the reconcile pass. The two envelope
kinds differ in how many users they carry, and are one kind here.  The partition rule is asked once per
envelope, as in the code, so that an envelope in hand goes on after a rule is added.

Abstracted: JSON and its validation (only the repository's own producers publish), the
tier (part of the key), metrics, lengths of back-offs and of the reconcile period (a pass may begin at any time
after the last; so `/admin/config` needs no action), `SCAN`'s guarantees (a key present at the scan is
found), user ids with a colon (which a scan skips, `counter.py:86`). The relay's queue and the socket are one FIFO per peer.

### GatewayCheck

A request goes through `Arrive` (policy taken), `Limiter` or `LimiterFails`, `Counted` or `CountFails`, and
`Deny`, `Pass` or `DecideFails`; between any two of them other requests, replication, policy refreshes and the turn of the
minute take place.  The handler fails open: when `HINCRBY` (`CountFails`, which may have run all the same) or `HGETALL` (`DecideFails`) reports
an error, what the local limiter lets through goes through past the cap.  Three history variables keep the account of it, per region and window:
`admitted`, the slot values let through, by a verdict or by a failing `HGETALL`; `uncounted`, the requests let through without one; `errors`, the requests whose check
failed.  The local limiter is an arbitrary
answer here, which is sound for the global check: the handler counts and judges whatever it says.  The
publishing half of the handler is in `SyncCluster`; that `view` behaves as `RegionalViews` allows
is what `SyncCluster` is proved to implement.

### LocalLimiter

A script is atomic in Redis, but its `now_ms` is read in the gateway before, so that calls arrive out of the
order of their stamps: a call at `now` carries any stamp of `now - Lag .. now` and, shortly after a change, the
old policy. Tokens are counted in parts of which `Minute` make one, so that refill is exact in integers
(the script has doubles).  A call that meets the other script's key type fails before it changes anything.

### OverrideCache

The steps are the critical sections of `Lookup`: `Call` (read lock), `Enter` (write lock: hit, join or lead), `Fetch`/`FetchFails`
(the GET, which runs under the leader's own context), `Store` (entry replaced, marker removed), `Close` (`close(fl.done)`).  Every state
of the Redis key (present, absent, unreadable) is a version.

### PolicyLoop

Time is counted in agent ticks.  `Decide` is one region of a tick with all three rules, `DecideRaises` the uncaught
exception of `SETEX` (which may have taken effect), `Start`, `Stop`, `RedisDown`, `RedisRecover` (with or without data) the
faults, `Refresh` the policy store, `Elapse` the end of a tick. Forecasts are arbitrary, reduced to the four levels
the thresholds tell apart.  Only the free tier is decided about in the code.  The rules themselves are in `DeciderRules`, which
`TrafficAgent` applies to the forecasts the agent really makes.

### Telemetry, Forecast and TrafficAgent

One series is followed, the free tier of one region; series do not interact.  `Tick` is `extract`, `update`, `decide`, and
`Sleep` the time to the next tick, of any of a set of lengths, since queries that hang make a tick longer.  `served` (level and maker of the last forecast)
and `settled` (whether the last tick was past the hysteresis) are histories.

`Telemetry` keeps what decides which figures are used: whether a query ever succeeded (`connected`), for how long none
has (`sinceLive`), the cache and its age.  Each of the three queries of a tick fails on its own; a failed rate query yields the
synthetic rate, which is kept apart by its mark `from`, and the code's test for live figures looks at the age of the last answer of *any*
query.  `Answers` names the query that succeeded first, as those after it change neither the age nor what is served.  `Forecast` computes the EWMA, in integers, from the rates.  What a Holt-Winters fit forecasts and what an isolation
forest flags is arbitrary; what is followed is *which* forecast is served when: `hw` says of every forecast left in how many ticks the window
it was made for comes.  Rates are multiples of 3 rps, so that the tier's capacity of 60 is 20; ages are tens of seconds.

### LoadPlans and LoadRunner

`LoadPlans` gives each command (`steady`, `spike`, `noisy`, flat or diurnal) and scenario (`product_launch`, `region_failover`) as the sequence of
its phases, computed from its parameters as the code does.  In `LoadRunner`, `Begin`, `Spawn`, `Wake`, `EndLoop`, `Return` and
`DockerCommand` are the coroutine of the scenario between its awaits; `Start`, `Connect`, `Answer` and `Fail` those of a task.  asyncio runs one
coroutine at a time, hence no task step while the loop is `awake`: a loop behind its schedule starves its own tasks.  Interrupting the
program cancels what is under way.  A gateway answers, refuses, or hangs until the timeout; those down at the start stay down.

## 3. The runs

All runs finish in one to three minutes on two cores.  A run's bounds are the constants of its `.cfg`.

| Run | Checks | Bounds, and why they suffice |
|---|---|---|
| `SyncFaults` | `TypeOK`, `TruthInv`, `NoInvention`, `MonotoneSlots`, `BlockedOriginDrains` | two regions of which one counts, two requests, two envelopes per subscription: enough for two values of one slot to overtake, repeat and miss each other; every fault, a Redis that comes back empty included |
| `SyncRollover` | `OwnSlotExact`, `ImplementsViews` | three windows: a pass over two windows, late requests, and one window that is over and expires |
| `SyncConvergence` | `Convergence` | two windows, so that the previous one has only the pass to rely on |
| `GatewayAdmission` | `TypeOK`, `AdmissionBounded`, `NoFalseDenial` | two busy regions, two concurrent requests, a limit of 2 with three requests counted per region, so that one region alone and both together exceed it; one failed check per region, so that a third request does get through; policies found valid and invalid. A limit that changes while a request is checked is in `GatewayMinutes` and in the proofs |
| `GatewayMinutes` | `OneRequestPerSlot`, `DenialIsFinal` | three windows, one busy region, two concurrent requests, limits of 1 and 2; no failing commands, which are in `GatewayAdmission` and in the proofs |
| `LocalLimits` | `TypeOK`, `BucketRate`, `WindowBound`, `RetryHonest`, `OutageBounded` | a minute of 3 units, TTL of 6, clock of 7: one life of a key under a replaced algorithm from first call to expiry; stamps one unit late; four requests let through, more than any limit |
| `OverrideLookups` | `TypeOK`, `MonotoneReads`, `BoundedStaleness`, `NoLostWaiter` | three callers: a leader, one who waits, one who overtakes; ttl 2, timeout 1, three versions |
| `PolicyControl` | `TypeOK`, `NoCompounding`, `BeliefMatchesKey`, `NoOverrideGap`, `NoFlapping` | two regions; hysteresis 2, TTLs 3 ticks (in the code 6, 30 and 12: only their order matters to the properties) |
| `PolicyAdoption` | `PolicyAdopted` — **violated** | no faults at all |
| `AgentTelemetry` | `TypeOK`, `ForecastAligned`, `Freshness`, `SilenceIsNoSpike`, `ThrottleLifted` | ticks of 10 s, a cache of 3 of them and a hysteresis of 3 (12 and 6 in the code), so that an outage spends the cache; ticks that take longer are in `OutageFeatures` and in the proofs. Real rates far below and far above the thresholds (0 and 72 rps), the synthetic rate between (54), and a warm-up average of 300 rps, still above the threshold when the hysteresis ends, so that a cut on zeros does happen. Refits every 2 ticks (5 in the code) and 2 samples for a fit (60): forecasts are left over, used up, and replaced early |
| `OutageFeatures` | `StaleButReal` — **violated** | `Stale` 6 and `Hysteresis` 3, in the ratio of the code's 120 s and 60 s; ticks of 10 or 20 s |
| `LoadScenarios` | `TypeOK`, `Accounted`, `NoneStranded`, `PoolSuffices`, `Finishes` | one of every kind of plan; concurrency 2 in general and 3 in a spike on 2 connections (50, 200 and 100 in the code); three requests a phase, more than a phase's concurrency and than the connections; a timeout of 2, waking up to 1 late |

Deadlock is checked in the runs of `TrafficAgent` and in `LoadScenarios` (a finished scenario stays finished); the other models stop where
their clock or counters reach their bound.  Symmetry is used for
users, requests and regions where the specification treats them alike, and never in a run with a liveness
property.  Each module also defines, next to some definitions, a `Faulty...` variant: a plausible bug.
Putting it in the place of the definition makes the property fail that `PROJECT.json` pairs it with.

### What the passing runs show

Losses, repetitions and reorderings never inflate or lower a slot; the reconcile pass alone brings views together after
faults end; a region admits no more requests of a window than the (largest) limit and one for each request whose check failed,
and the regions together no more than three times that, when they cannot hear each other.  The excess is real: the handler fails open, and `GatewayAdmission` has
a region let three requests through on a limit of 2 by one failing command (`sync-constitution.md` has over-admission as the side to err on).  A denial by the global check is always
backed by requests that were made, and stands: nobody passes the check after it under the same limit.  The limiters keep their rates and hints with late stamps; note what the bounds say: the log's
minute is shorter by the lag, and the bucket's rate is for policies whose burst the refill earns in the 120 s
the key lives (not an override of 5 with a burst of 20).  An override that was
removed is applied for at most ttl and one timeout more.  The agent neither flaps nor compounds, also over its own
restarts: a new decider waits out the hysteresis first.  A forecast is always served in the
window it was made for, because a failing fit does not stop the serving of what is left and a successful one replaces it.

`SilenceIsNoSpike` says less than that silence cuts nothing, because silence may: an average warmed up above some 583 rps is still above
48 when the hysteresis of a new decider ends (0.7^7), whatever was seen since; and an average that stood still while Holt-Winters served may be acted on when it resumes.
In both cases the zeros only let a cut happen that was due before, and that is what it says: the fall to 0 itself, which the detector may well flag and
for which the threshold is then 60 %, never cuts, as 0.7 of 80 % is less than 60 %.  Nor is an outage the same as silence: the synthetic 36 to 54 rps that a first tick caches
(`StaleButReal`) reach the threshold of 48 and do cut a limit while they are served.  `ThrottleLifted` is about silence that Prometheus reports, and takes of
Holt-Winters, of whose extrapolation nothing is known, only that it forecasts calm when it serves.  In the simulator, only a
spike makes requests wait for connections, and `region_failover` never sends to the gateway it stopped.

### Where code and documents disagree

- `PolicyAdoption`: the agent's policies have no `algorithm`, and `store.go:173` rejects them: no policy of the agent
  is ever in force.  Properties of policies in force would hold for that reason alone; none is stated here.
- `OutageFeatures`: an outage begins with a tick 10 s after the last answer, which `seconds_since_live() < 15` takes for answered. The
  synthetic figures of that tick are used as live and cached, and it is they that serve for the 120 s for which
  `failure-modes.md:16` promises stale but real ones.  `Freshness` says what does hold.

Further observations, which no run carries:

- *Buffer.* Nothing calls `FailoverBuffer.drain` but tests; `buffer.py:11` speaks of a watchdog that does. Replication does
  not depend on it (`Convergence` holds), and the buffer is bounded (`TypeOK`).
- *Unguarded write.* `failure-modes.md:39` says that exceptions of `setex` are caught; that of `write_policy` (`policy_writer.py:57`) is not, and
  the agent ends: this is `DecideRaises`.
- *Empty Redis.* `Convergence` does not hold when a Redis may come back empty (add `"wipe"` to the faults of
  `SyncConvergence.cfg`): a region that lost its own slot is the only one that could have published it, and counts again from 1 below
  what its peers hold, until the minute is over.
- *Zeros of an outage.* After the 120 s of the cache the zeros are forecast like any rate.  The average falls below 50 % of capacity, and a throttle made for real
  traffic is lifted by a new policy (`decider.py:101`) while Prometheus is still unreachable; `failure-modes.md:17` says that the decider stops writing and that the policies stay until their TTL.
- *Denied requests.* The handler counts and publishes them too (`handler.go:137`), where Contract 2 (`contracts.md:69`) speaks of
  allowed ones.
- *Warm-up.* A limit may be cut before one live figure was seen, by the warm-up history alone: see `SilenceIsNoSpike` above.
- *Average.* The EWMA is not updated while Holt-Winters serves, and resumes from where it stood.  `is_spike`, which is only logged,
  compares with the forecast itself.
- *Simulator.* The first phase of `spike` takes its full length even if the run is shorter; a region stopped by
  `region_failover` stays down when the run is interrupted or `docker start` fails, whose result nobody looks at; the summaries of its phases
  divide by the nominal length; `http_errors` is printed and never incremented; the retry in the next region of `project-brief.md:457` is not done.
- *Limiters.* A burst of 0 is a valid policy that denies everything for ever; a bucket idle for 120 s comes back full.
- *Override cache.* A shared GET runs under its first caller's context: if that client hangs up, all who joined are told that
  there is no override.

## 4. Fairness

`SyncCluster.FairSpec`: weak fairness of the relay's and the reconciler's steps (asyncio tasks that are always runnable; the
Redis client's timeouts end every wait), of `ReconTick` (the period elapses again and again) and of `Subscribe` (the
pump retries for ever); strong fairness of `RelayTake` per origin, as all pumps feed one FIFO queue, so that no origin's
envelope waits for ever although taking is disabled while another is in hand.  Nothing is assumed of gateways, the
operator or faults.  `Convergence` has its premise in the formula: eventually Redis answers, partitions are healed and
connections hold (a generous premise: a subscription on which nothing is said for longer than the client's socket timeout of 1 s is given up and made again, and
needs only be up when a pass publishes).  `OverrideCache.FairSpec`: weak fairness of each caller's steps; goroutines run, and a GET ends by its 500 ms.
`TrafficAgent.FairSpec`: weak fairness of its next step; `asyncio.sleep` returns, and a query that hangs is ended by its timeout.  Nothing makes a
query or a fit succeed.  `LoadRunner.FairSpec`: weak fairness of the scenario's coroutine, of a task that may start, connect or whose timer has
run out, and of time; no gateway has to answer and docker need not succeed, but the call that starts it is blocking and has to return.  The other modules state no liveness.

## 5. What is proved

For any constants that satisfy the named assumptions, with TLAPS:

| Theorem | Says |
|---|---|
| `SyncClusterProofs!TypeCorrect` | `TypeOK`: among other things the buffer stays within its cap |
| `SyncClusterProofs!NeverInvents` | `NoInvention`, with every fault allowed |
| `SyncClusterProofs!AlwaysTruthful` | `TruthInv`, the inductive invariant itself |
| `SyncClusterProofs!SlotsAreMonotone` | `MonotoneSlots`, whatever the faults: a slot falls only where a Redis comes back empty |
| `SyncClusterProofs!BlockedDrains` | `BlockedOriginDrains` |
| `SyncClusterProofs!OwnSlotHolds` | `OwnSlotExact`, when no Redis loses its data |
| `SyncClusterProofs!Refinement` | `SyncCluster` implements `RegionalViews` |
| `GatewayCheckProofs!TypeCorrect` | `TypeOK`: no gateway works with an invalid limit |
| `GatewayCheckProofs!AdmissionIsBounded` | `AdmissionBounded`, with any number of failing commands |
| `GatewayCheckProofs!SlotsAreUnique` | `OneRequestPerSlot` |
| `GatewayCheckProofs!DenialsAreBacked` | `NoFalseDenial` |
| `GatewayCheckProofs!DenialsAreFinal` | `DenialIsFinal` |
| `PolicyLoopProofs!TypeCorrect` | `TypeOK`: no key outlives its TTL, no gateway works with a limit of 0 |
| `PolicyLoopProofs!ThrottlesDoNotCompound` | `NoCompounding` |
| `PolicyLoopProofs!BeliefsMatch` | `BeliefMatchesKey` |
| `PolicyLoopProofs!DecisionsDoNotFlap` | `NoFlapping` |
| `PolicyLoopProofs!OverridesHaveNoGap` | `NoOverrideGap` |
| `TrafficAgentProofs!TypeCorrect` | `TypeOK` |
| `TrafficAgentProofs!ForecastsAreAligned` | `ForecastAligned` |
| `TrafficAgentProofs!FeaturesAreFresh` | `Freshness` |
| `TrafficAgentProofs!SilenceCutsNothing` | `SilenceIsNoSpike`, for a capacity of more than 10 units |
| `LocalLimiterProofs!TypeCorrect` | `TypeOK` |
| `LocalLimiterProofs!WindowIsBounded` | `WindowBound` |
| `LocalLimiterProofs!RetriesAreHonest` | `RetryHonest` |
| `LocalLimiterProofs!OutagesAreBounded` | `OutageBounded` |
| `LocalLimiterProofs!BucketRateIsBounded` | `BucketRate`, for policies that satisfy `EarnsBurst` |
| `OverrideCacheProofs!TypeCorrect` | `TypeOK`: one GET at a time for a user |
| `OverrideCacheProofs!ReadsAreMonotone` | `MonotoneReads` |
| `OverrideCacheProofs!StalenessIsBounded` | `BoundedStaleness` |
| `LoadRunnerProofs!TypeCorrect` | `TypeOK` |
| `LoadRunnerProofs!RequestsAreAccounted` | `Accounted` |
| `LoadRunnerProofs!PoolIsEnough` | `PoolSuffices` |
| `LoadRunnerProofs!NoneIsStranded` | `NoneStranded`, for the scenarios of the code |

*SyncCluster.* `NoInvention` is not inductive: a merge may write any value under way.  `TruthInv` adds that every such
value is truthful, in the four places it can be: about to be published, on a subscription, in the relay's hands, in a half-read
chunk; the last needs to know that a pass with keys to read has a window (`PassHasWindow`).  Counts only rise, so that what was truthful
stays so; reads take a slot, which is truthful by `NoInvention` itself.  `SyncFaults` checks `TruthInv` first.
The refinement maps counts to increments and views to slots: counting is `Count`; a merge is `Learn` or a
stutter, by `RelayTruthful`; expiry and wipes are `Forget`; all the rest stutters.

`MonotoneSlots` needs no invariant but types, as every write of a slot is a maximum or an increment, and keys expire only when their window
is over. `BlockedOriginDrains` follows from `RelayTake` alone: it asks the rules for the envelope's origin before it takes on a write, and no
other step adds to what is owed.

*GatewayCheck.* `CheckInv` adds to the properties that no view exceeds its count and that a request that was counted, or let through
in a window not yet over, carries a slot value its region has reached.  Hence the next `HINCRBY` returns a value
nobody carries (uniqueness); a sum over the limit is a sum of true counts (backed denials); and when a request passes, all slot values let through so far are
part of a sum within its limit, so that there are at most that many, and beside them only requests that an error let through (`ErrorsAccount`).  An error adds one to
what was let through and one to the bound (`ErrorStep`).  `DeniedStands` remembers of a denied request that its sum still exceeds its limit,
since views only rise while their window is in use; a request judged after it reads such a sum, and `CountedReached` says that its window is in use (final denials).

*PolicyLoop.* `DeciderRulesProofs` shows of the rules that a state they return has exactly the default or one cut of it
(`OneCut`) and, if it is another one, age 0 and a predecessor past the hysteresis.  `BeliefOK` ties the decider to the key: the
key is never younger than the decision, `age <= PolicyTTL - left`.  A restarted decider has age 0, which makes this hold again without any memory:
hence no flapping over restarts.  `Stopped` says that a stopped agent believes nothing.  `OverrideInv` ties the override to the decider's
time: while nothing fails, either `override + overrode >= OverrideTTL` in every region reached, or the user has been noisy for no longer
than the last write is old; at the hysteresis the second is used up.

*TrafficAgent.* `CacheInv` says what cache and ages have to do with each other: what is cached was fetched, and while it may be served the last
answer is less than `Recent` older than it.  `ForecastAligned` is inductive by itself: a fit starts it over, and serving shifts it by one.
`DueInv` says that what the average called for in a tick past the hysteresis was done; with `SilenceCools`, that an average above 60 % after a rate of 0 was above 80 % before,
`SilenceIsNoSpike` follows.  That needs a capacity of more than 10 units of the rates (20 in the runs), as the average is rounded to the unit; the code has doubles.

*LocalLimiter.* `LimiterInv` has five parts. `LifeInv` says how a key lives: for no longer than its TTL, and at least a TTL from any request
let through. Hence a log that is there still has everybody of the last minute, and a log that is gone had nobody (`LogInv`), as a member is
pruned only by a stamp a minute later, which is at most the lag ahead of the member's own time; `WindowBound` follows when a request is counted, and is part of the
invariant because it speaks of the past. `OutageInv`: only requests under way at the change of policy may have renewed a key of the other type.
`PromiseInv` strengthens `RetryHonest` to all stamps to come, since the present ones move on; that refill and pruning only go forward makes it
inductive (`WaitSuffices`, `RefillTwice`, `OldestLive`).  `BucketRate` is not inductive, as it counts no tokens. `RateInv` counts, from any past request on, the
tokens still there as if they were spent; time stops at the last refill and the lag covers a stamp that came too late to move it.  When the key goes and the
bucket is full again, that burst must have been earned by the time the key lived: `EarnsBurst`, `burst * Minute <= limit * (TTL - Lag)`.
It holds for the static policies (5 of 10 a minute is earned in 30 s) and for what the agent writes (`max(5, limit // 5)`, earned in 30 s at most); an override of 5 with
the premium burst of 20 would take 240 s, the key lives for 120 s, and the theorem says nothing of it.

*OverrideCache.* `FlightInv` ties the in-flight marker to the one caller whose GET is under way, and says that none is begun while the entry
is good; `StoredInv` that between storing and announcing the entry is the announced answer; `WaitInv` that who waits is not answered
and has a live leader. `OrderInv` is `MonotoneReads` for answers to come: what is in the entry or was brought by a GET is no older than the newest answer given. It is
inductive because of `FlightInv`: two GETs at once could be stored in the wrong order.  `AgeInv` is the same for staleness, measured from the
version's end to the GET's start, the entry's expiry and the answer.

*LoadRunner.* `RunInv` says that requests ask only the regions of the current phase, and that outside of a run none is left (`gather`).  `SemaphoreInv`
bounds what is under way by the phase's concurrency, from which `PoolSuffices` follows by counting: who has to wait for a connection has all of them against him.
`AccountInv` adds the tasks not yet done to the sums of `Accounted`.  `StopInv` remembers which scenario is run and how far it is, so that a stopped gateway was stopped by
an earlier step of it. `ScenarioSpares` shows of each command and scenario, with any parameters, negative and contradictory ones included, that no phase after a stop asks the region
that was stopped; `IsScenario`, the hypothesis of `NoneIsStranded`, is the list of these. The constant `Plans` is only assumed to hold sequences of phases and commands
(`ScenariosAssumption`), which `ScenarioType` shows of every scenario on the list.

Only model-checked:

- liveness: `Convergence`, `NoLostWaiter`, `ThrottleLifted`, `Finishes`; fairness and `ENABLED` are out of the prover's reach;
- the two violated statements of documents, `StaleButReal` and `PolicyAdopted`, of which a run shows one counterexample each.

In the runs an envelope carries one user, so that a chunk of a pass that mixes values of different moments is covered by the theorems about `SyncCluster` only.

Assumptions on constants are the named `ASSUME`s of the modules: bounds are naturals, capacities positive, the
three regions differ, TTLs exceed the hysteresis, the limiters' TTL exceeds the minute and the minute the lag, limits are positive (`store.go` rejects others),
scenarios consist of phases and commands.  The bounds `MaxTime`, `MaxAllowed`, `MaxVersion`, `MaxTasks` and `MaxLate` are arbitrary in the theorems.

## 6. What is not modelled

The numbers behind a Holt-Winters fit and an isolation forest (arbitrary in `Forecast`); rejection rates and top users, which are followed as
queries that succeed or fail, and as `over` in `PolicyLoop`; the decision log (appended to, never read); which user a simulated request
is of and the populations they come from; metrics; the developer tools of the sync service (`sync_cli`, `gateway_stub`), which keep no state; start-up
code and wiring; and the internals of Redis, which appears as atomic commands, pub/sub, expiry and failure.

## 7. Plan

1. The rate of a bucket without `EarnsBurst`: one more burst for each life of the key.
2. `TrafficAgent` as an implementation of the decider of `PolicyLoop` (a refinement, forecasts no longer arbitrary).
3. The handler as a whole: `GatewayCheck` with the limiter of `LocalLimiter` and the policies of `PolicyLoop` through abstract specifications of each.
4. The wipe as a documented limit of `Convergence`, with the weaker property that does hold.
