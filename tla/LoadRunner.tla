----------------------------- MODULE LoadRunner -----------------------------
(***************************************************************************)
(* The traffic simulator: the coroutine that runs a scenario, its request  *)
(* loop run_at_rate, and the tasks that loop creates.  A task waits for    *)
(* the semaphore, then for a connection of the HTTP client, then for the   *)
(* gateway.  asyncio runs one coroutine at a time, up to its next await:   *)
(* while the loop is behind its schedule no task runs.                     *)
(*                                                                         *)
(* Times are relative to the present moment.  Inter-arrival times are      *)
(* arbitrary, as those of a Poisson process.                               *)
(***************************************************************************)
EXTENDS LoadPlans, FiniteSets

CONSTANTS Plans,          \* the scenarios a run considers
          Gaps,           \* inter-arrival times
          Segment,        \* segment of run_with_diurnal
          Timeout,        \* timeout of the HTTP client: for a connection, for an answer
          MaxConnections, \* connections the HTTP client opens (its default, 100)
          MaxTasks,       \* bound: requests of a phase
          MaxLate         \* bound: how late the loop wakes

ASSUME RunnerAssumption ==
    /\ Gaps \subseteq Nat
    /\ Segment \in Nat \ {0} /\ Timeout \in Nat \ {0} /\ MaxConnections \in Nat \ {0}
    /\ MaxTasks \in Nat \ {0} /\ MaxLate \in Nat
ASSUME ScenariosAssumption == \A plan \in Plans : plan \in Seq(Phases \union Commands)

VARIABLES
    todo,     \* steps of the scenario left, the current one first
    stage,    \* where the scenario is
    left,     \* time to end_time of the current run
    rest,     \* time to the end of a diurnal phase, 0 in others
    due,      \* time to next_tick, negative when it has passed
    tasks,    \* tasks of the current run, in the order they were created
    stats,    \* Stats of the current run
    total,    \* Stats of the runs that have returned
    counters, \* the counters of _send
    gateways, \* up, down since before the run, or stopped by the scenario
    spawned   \* history: tasks created in all

loopVars == <<todo, stage, left, rest, due, total>>
vars == <<loopVars, tasks, stats, counters, gateways, spawned>>

Stages == {"idle", "awake", "waiting", "gathering", "done", "interrupted"}

NoStats == [sent |-> 0, errors |-> 0]

\* A task; which region it asks is decided when it gets past the semaphore.
Task == [at : {"queued", "pool", "sent", "done"}, region : Regions \union {"none"}, age : 0 .. Timeout]
Queued == [at |-> "queued", region |-> "none", age |-> 0]
Finished == [at |-> "done", region |-> "none", age |-> 0]

Init ==
    /\ todo \in Plans
    /\ stage = "idle"
    /\ left = 0 /\ rest = 0 /\ due = 0
    /\ tasks = <<>>
    /\ stats = NoStats /\ total = NoStats
    /\ counters = [allowed |-> 0, denied |-> 0]
    /\ gateways \in [Regions -> {"up", "down"}]
    /\ spawned = 0

Step == Head(todo)

-----------------------------------------------------------------------------
(* The scenario and the request loop.                                       *)

FaultySegmentLength(whole) == Segment

\* min(segment, end - now)
SegmentLength(whole) == Lesser(Segment, whole)

\* run_at_rate is entered; run_with_diurnal enters it once per segment.
Begin ==
    /\ stage = "idle" /\ todo # <<>> /\ Step.kind \in {"load", "diurnal"}
    /\ LET whole == IF rest > 0 THEN rest ELSE AtLeast0(Step.length)
       IN  IF Step.kind = "diurnal" THEN rest' = whole /\ left' = SegmentLength(whole)
           ELSE left' = whole /\ UNCHANGED rest
    /\ due' = 0
    /\ tasks' = <<>>
    /\ stage' = "awake"
    /\ UNCHANGED <<todo, total, stats, counters, gateways, spawned>>

\* One turn of the loop: a task, the next arrival and, unless that has passed, a sleep.
\* The bound on tasks puts the next arrival after the end.
Spawn ==
    /\ stage = "awake" /\ left > 0
    /\ tasks' = Append(tasks, Queued)
    /\ \E gap \in IF Len(tasks') < MaxTasks THEN Gaps ELSE {left + MaxLate} :
          /\ due' = due + gap
          /\ stage' = IF due + gap > 0 THEN "waiting" ELSE "awake"
    /\ spawned' = spawned + 1
    /\ UNCHANGED <<todo, left, rest, total, stats, counters, gateways>>

Wake ==
    /\ stage = "waiting" /\ due <= 0
    /\ stage' = "awake"
    /\ UNCHANGED <<todo, left, rest, due, total, tasks, stats, counters, gateways, spawned>>

EndLoop ==
    /\ stage = "awake" /\ left = 0
    /\ stage' = "gathering"
    /\ due' = 0
    /\ UNCHANGED <<todo, left, rest, total, tasks, stats, counters, gateways, spawned>>

FaultyGathered == TRUE

\* asyncio.gather: every task of the run is done.
Gathered == \A i \in DOMAIN tasks : tasks[i] = Finished

\* The run returns its statistics; the scenario goes on, or the diurnal phase does.
Return ==
    /\ stage = "gathering" /\ Gathered
    /\ total' = [sent |-> total.sent + stats.sent, errors |-> total.errors + stats.errors]
    /\ stats' = NoStats
    /\ todo' = IF rest > 0 THEN todo ELSE Tail(todo)
    /\ stage' = "idle"
    /\ UNCHANGED <<left, rest, due, tasks, counters, gateways, spawned>>

\* docker stop and docker start; either may fail, and the scenario goes on.
DockerCommand ==
    /\ stage = "idle" /\ todo # <<>> /\ Step.kind \in {"stop", "start"}
    /\ \/ gateways' = [gateways EXCEPT ![Step.region] = IF Step.kind = "stop" THEN "stopped" ELSE "up"]
       \/ UNCHANGED gateways
    /\ todo' = Tail(todo)
    /\ UNCHANGED <<stage, left, rest, due, total, tasks, stats, counters, spawned>>

Finish ==
    /\ stage = "idle" /\ todo = <<>>
    /\ stage' = "done"
    /\ UNCHANGED <<todo, left, rest, due, total, tasks, stats, counters, gateways, spawned>>

\* The user interrupts the program: its tasks are cancelled, nothing is restored.
Interrupt ==
    /\ stage \notin {"done", "interrupted"}
    /\ stage' = "interrupted"
    /\ tasks' = <<>>
    /\ UNCHANGED <<todo, left, rest, due, total, stats, counters, gateways, spawned>>

-----------------------------------------------------------------------------
(* The tasks.  They run when the loop awaits.                               *)

At(place) == {i \in DOMAIN tasks : tasks[i].at = place}

UnderWay == At("pool") \union At("sent")

FaultyHolders == At("sent")

FaultyHoldersForGood == DOMAIN tasks \ At("queued")

\* The tasks inside "async with sem".
Holders == UnderWay

\* The first in the queue of the semaphore gets past it and picks its target.
Start(i) ==
    /\ stage \in {"waiting", "gathering"}
    /\ tasks[i] = Queued /\ \A j \in 1 .. i - 1 : tasks[j] # Queued
    /\ Cardinality(Holders) < Step.concurrency
    /\ \E r \in Step.targets : tasks' = [tasks EXCEPT ![i] = [at |-> "pool", region |-> r, age |-> 0]]
    /\ UNCHANGED <<loopVars, stats, counters, gateways, spawned>>

Connectable(i) == tasks[i].at = "pool" /\ Cardinality(At("sent")) < MaxConnections

Connect(i) ==
    /\ stage \in {"waiting", "gathering"}
    /\ Connectable(i)
    /\ tasks' = [tasks EXCEPT ![i].at = "sent", ![i].age = 0]
    /\ UNCHANGED <<loopVars, stats, counters, gateways, spawned>>

\* A 200 with a verdict: counted twice, by _send and by the loop.
Answer(i, verdict) ==
    /\ stage \in {"waiting", "gathering"}
    /\ tasks[i].at = "sent" /\ gateways[tasks[i].region] = "up"
    /\ counters' = [counters EXCEPT ![verdict] = @ + 1]
    /\ stats' = [stats EXCEPT !.sent = @ + 1]
    /\ tasks' = [tasks EXCEPT ![i] = Finished]
    /\ UNCHANGED <<loopVars, gateways, spawned>>

\* The request raises: no connection or no answer in time, or the gateway refuses or
\* answers with anything else.
Raises(i) == tasks[i].at = "sent" \/ (tasks[i].at = "pool" /\ tasks[i].age = Timeout)

Fail(i) ==
    /\ stage \in {"waiting", "gathering"}
    /\ Raises(i)
    /\ stats' = [stats EXCEPT !.errors = @ + 1]
    /\ tasks' = [tasks EXCEPT ![i] = Finished]
    /\ UNCHANGED <<loopVars, counters, gateways, spawned>>

\* Time passes; timers and free connections are not kept waiting.
Elapse ==
    /\ stage \in {"awake", "waiting", "gathering"}
    /\ stage # "gathering" => due > -MaxLate
    /\ \A i \in UnderWay : tasks[i].age < Timeout /\ ~Connectable(i)
    /\ left' = AtLeast0(left - 1)
    /\ rest' = AtLeast0(rest - 1)
    /\ due' = IF stage = "gathering" THEN 0 ELSE due - 1
    /\ tasks' = [i \in DOMAIN tasks |-> IF i \in UnderWay THEN [tasks[i] EXCEPT !.age = @ + 1]
                                        ELSE tasks[i]]
    /\ UNCHANGED <<todo, stage, total, stats, counters, gateways, spawned>>

-----------------------------------------------------------------------------
Scenario == Begin \/ Spawn \/ Wake \/ EndLoop \/ Return \/ DockerCommand \/ Finish

TaskStep(i) == Start(i) \/ Connect(i) \/ Fail(i)

\* A finished run stays finished.
Ended == stage \in {"done", "interrupted"} /\ UNCHANGED vars

Next ==
    \/ Scenario
    \/ \E i \in DOMAIN tasks : TaskStep(i) \/ \E verdict \in {"allowed", "denied"} : Answer(i, verdict)
    \/ Elapse
    \/ Interrupt
    \/ Ended

Spec == Init /\ [][Next]_vars

\* asyncio runs what is ready and time passes; no gateway has to answer.
Fairness ==
    /\ WF_vars(Scenario)
    /\ WF_vars(\E i \in DOMAIN tasks : Start(i) \/ Connect(i) \/ (Fail(i) /\ tasks[i].age = Timeout))
    /\ WF_vars(Elapse)

FairSpec == Spec /\ Fairness

-----------------------------------------------------------------------------
\* Every component stays in its domain; no segment is meant to outlast its diurnal phase.
TypeOK ==
    /\ \E plan \in Plans : \E k \in 0 .. Len(plan) : todo = SubSeq(plan, k + 1, Len(plan))
    /\ stage \in Stages
    /\ left \in Nat /\ rest \in Nat /\ due \in Int
    /\ rest > 0 => left <= rest
    /\ tasks \in Seq(Task)
    /\ stats \in [sent : Nat, errors : Nat] /\ total \in [sent : Nat, errors : Nat]
    /\ counters \in [allowed : Nat, denied : Nat]
    /\ gateways \in [Regions -> {"up", "down", "stopped"}]
    /\ spawned \in Nat

\* The summary tells what happened: what is reported as sent has a verdict each and, when
\* the scenario is over, every request is either sent or an error.
Accounted ==
    /\ counters.allowed + counters.denied = total.sent + stats.sent
    /\ stage = "done" => total.sent + total.errors = spawned

\* region_failover stops a gateway only between two runs and spares it in the next one: it
\* never is the scenario itself that makes a request fail.
NoneStranded == \A i \in UnderWay : gateways[tasks[i].region] # "stopped"

\* A request waits for a connection only in a phase that has more requests under way than
\* the client has connections (the spikes).
PoolSuffices ==
    \A i \in At("pool") : tasks[i].age > 0 => Step.concurrency > MaxConnections

\* Every scenario comes to its end, whatever the gateways leave unanswered.
Finishes == <>(stage \in {"done", "interrupted"})
=============================================================================
