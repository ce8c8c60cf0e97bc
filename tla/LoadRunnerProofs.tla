-------------------------- MODULE LoadRunnerProofs --------------------------
(***************************************************************************)
(* Proofs about the traffic simulator, for every scenario, any number of   *)
(* requests and connections, and any timeouts.                             *)
(***************************************************************************)
EXTENDS LoadRunner, FiniteSetTheorems, SequenceTheorems, TLAPS

Running == stage \in {"awake", "waiting", "gathering"}

\* A run has a phase, and its requests under way ask the regions of it; outside a run no
\* request is left.
RunInv ==
    /\ Running => /\ todo # <<>> /\ Step \in Phases
                  /\ \A i \in UnderWay : tasks[i].region \in Step.targets
    /\ ~Running => Gathered

\* The semaphore: no more requests are under way than the phase allows.
SemaphoreInv == Running => Cardinality(UnderWay) <= Step.concurrency

Unfinished == {i \in DOMAIN tasks : tasks[i] # Finished}

\* Every task is an answer, an error, or still to come.
AccountInv ==
    /\ counters.allowed + counters.denied = total.sent + stats.sent
    /\ stage # "interrupted" =>
          spawned = total.sent + total.errors + stats.sent + stats.errors + Cardinality(Unfinished)
    /\ stage \in {"idle", "done"} => stats = NoStats

\* What is left of a scenario, and that the stopped gateways were stopped before.
Left(plan, k) == todo = SubSeq(plan, k + 1, Len(plan))

StopInv ==
    \E plan \in Plans : \E k \in 0 .. Len(plan) :
        /\ Left(plan, k)
        /\ \A r \in Regions : gateways[r] = "stopped" =>
              \E i \in 1 .. k : plan[i].kind = "stop" /\ plan[i].region = r

RunnerInv == RunInv /\ SemaphoreInv /\ AccountInv /\ PoolSuffices

-----------------------------------------------------------------------------
(* Types.                                                                   *)

LEMMA Numbers == /\ Gaps \subseteq Nat /\ Segment \in Nat \ {0} /\ Timeout \in Nat \ {0}
                 /\ MaxConnections \in Nat \ {0} /\ MaxTasks \in Nat \ {0} /\ MaxLate \in Nat
  BY RunnerAssumption

LEMMA TaskType ==
    /\ Queued \in Task /\ Finished \in Task /\ Queued # Finished
    /\ Queued.at = "queued" /\ Finished.at = "done"
    /\ \A r \in Regions, age \in 0 .. Timeout, place \in {"queued", "pool", "sent"} :
           /\ [at |-> place, region |-> r, age |-> age] \in Task
           /\ [at |-> place, region |-> r, age |-> age] # Finished
  BY Numbers DEF Task, Queued, Finished

\* What is left of a scenario begins with the step that comes next in it.
LEMMA StepLeft ==
    ASSUME NEW plan \in Plans, NEW k \in 0 .. Len(plan), Left(plan, k), todo # <<>>
    PROVE  /\ k + 1 \in 1 .. Len(plan) /\ Step = plan[k + 1] /\ Step \in Phases \union Commands
           /\ Tail(todo) = SubSeq(plan, k + 2, Len(plan))
<1>1. plan \in Seq(Phases \union Commands) /\ Len(plan) \in Nat
  BY ScenariosAssumption
<1>2. k < Len(plan)
  <2>1. k = Len(plan) => todo = <<>>
    BY <1>1, SubSeqEmpty DEF Left
  <2> QED  BY <1>1, <2>1
<1>3. k + 1 \in 1 .. Len(plan) /\ Len(plan) \in k + 1 .. Len(plan)
  BY <1>1, <1>2
<1>4. Head(SubSeq(plan, k + 1, Len(plan))) = plan[k + 1]
      /\ Tail(SubSeq(plan, k + 1, Len(plan))) = SubSeq(plan, (k + 1) + 1, Len(plan))
  BY <1>1, <1>3, HeadTailOfSubSeq
<1>5. plan[k + 1] \in Phases \union Commands
  BY <1>1, <1>3
<1> QED  BY <1>3, <1>4, <1>5 DEF Left, Step

LEMMA StepType ==
    ASSUME TypeOK, todo # <<>>
    PROVE  /\ Step.kind \in {"load", "diurnal"} => Step \in Phases
           /\ Step.kind \in {"stop", "start"} => Step \in Commands
           /\ \E plan \in Plans : \E k \in 0 .. Len(plan) : Tail(todo) = SubSeq(plan, k + 1, Len(plan))
<1>1. PICK plan \in Plans : \E k \in 0 .. Len(plan) : Left(plan, k)
  BY DEF TypeOK, Left
<1> PICK k \in 0 .. Len(plan) : Left(plan, k)
  BY <1>1
<1>2. /\ k + 1 \in 0 .. Len(plan) /\ Tail(todo) = SubSeq(plan, (k + 1) + 1, Len(plan))
      /\ Step \in Phases \union Commands
  <2>1. /\ k + 1 \in 1 .. Len(plan) /\ Step \in Phases \union Commands
        /\ Tail(todo) = SubSeq(plan, k + 2, Len(plan))
    BY StepLeft
  <2>2. Len(plan) \in Nat
    BY ScenariosAssumption
  <2> QED  BY <2>1, <2>2
<1>3. \A step \in Phases : step.kind \in {"load", "diurnal"}
  BY DEF Phases
<1>4. \A step \in Commands : step.kind \in {"stop", "start"}
  BY DEF Commands
<1> QED  BY <1>2, <1>3, <1>4

\* One task moves on, the others stay.
LEMMA OneTask ==
    ASSUME TypeOK, NEW i \in DOMAIN tasks, NEW t \in Task, tasks' = [tasks EXCEPT ![i] = t]
    PROVE  /\ tasks' \in Seq(Task) /\ DOMAIN tasks' = DOMAIN tasks
           /\ tasks'[i] = t /\ \A j \in DOMAIN tasks \ {i} : tasks'[j] = tasks[j]
<1>1. tasks \in Seq(Task)
  BY DEF TypeOK
<1>2. i \in 1 .. Len(tasks)
  BY <1>1
<1> QED  BY <1>1, <1>2, ExceptSeq

LEMMA TasksFinite ==
    ASSUME TypeOK
    PROVE  /\ Len(tasks) \in Nat /\ DOMAIN tasks = 1 .. Len(tasks) /\ IsFiniteSet(DOMAIN tasks)
           /\ \A i \in DOMAIN tasks : tasks[i] \in Task
<1>1. tasks \in Seq(Task)
  BY DEF TypeOK
<1>2. Len(tasks) \in Nat /\ DOMAIN tasks = 1 .. Len(tasks) /\ \A i \in DOMAIN tasks : tasks[i] \in Task
  BY <1>1
<1> QED  BY <1>2, FS_Interval

\* A new task comes after the others.
LEMMA SpawnTasks ==
    ASSUME TypeOK, Spawn
    PROVE  /\ tasks' \in Seq(Task) /\ DOMAIN tasks' = DOMAIN tasks \union {Len(tasks) + 1}
           /\ Len(tasks) + 1 \notin DOMAIN tasks
           /\ tasks'[Len(tasks) + 1] = Queued /\ \A i \in DOMAIN tasks : tasks'[i] = tasks[i]
<1>1. tasks \in Seq(Task) /\ Queued \in Task /\ tasks' = Append(tasks, Queued)
  BY TaskType DEF TypeOK, Spawn
<1> HIDE DEF Queued
<1>2. /\ tasks' \in Seq(Task) /\ Len(tasks') = Len(tasks) + 1 /\ tasks'[Len(tasks) + 1] = Queued
      /\ \A i \in 1 .. Len(tasks) : tasks'[i] = tasks[i]
  BY <1>1, AppendProperties
<1> QED  BY <1>1, <1>2

\* The tasks get older.
LEMMA ElapseTasks ==
    ASSUME TypeOK, Elapse
    PROVE  /\ tasks' \in Seq(Task) /\ DOMAIN tasks' = DOMAIN tasks
           /\ \A i \in UnderWay : /\ tasks'[i].at = tasks[i].at /\ tasks'[i].region = tasks[i].region
                                 /\ tasks'[i] # Finished
           /\ \A i \in DOMAIN tasks \ UnderWay : tasks'[i] = tasks[i]
<1>1. /\ Len(tasks) \in Nat /\ DOMAIN tasks = 1 .. Len(tasks)
      /\ \A i \in DOMAIN tasks : tasks[i] \in Task
  BY TasksFinite
<1>2. ASSUME NEW i \in UnderWay
      PROVE  /\ i \in DOMAIN tasks /\ [tasks[i] EXCEPT !.age = @ + 1] \in Task
             /\ [tasks[i] EXCEPT !.age = @ + 1].at = tasks[i].at
             /\ [tasks[i] EXCEPT !.age = @ + 1].region = tasks[i].region
             /\ tasks[i].at \in {"pool", "sent"}
  <2>1. i \in DOMAIN tasks /\ tasks[i].age < Timeout /\ tasks[i].at \in {"pool", "sent"} /\ tasks[i] \in Task
    BY <1>1 DEF Elapse, UnderWay, At
  <2> QED  BY <2>1, Numbers DEF Task
<1> DEFINE older == [i \in DOMAIN tasks |-> IF i \in UnderWay THEN [tasks[i] EXCEPT !.age = @ + 1] ELSE tasks[i]]
<1>3. tasks' = older
  BY DEF Elapse
<1>4. \A i \in DOMAIN tasks : older[i] = IF i \in UnderWay THEN [tasks[i] EXCEPT !.age = @ + 1] ELSE tasks[i]
  OBVIOUS
<1>5. older \in [1 .. Len(tasks) -> Task] /\ DOMAIN older = DOMAIN tasks
  BY <1>1, <1>2
<1> HIDE DEF older
<1>6. older \in Seq(Task)
  BY <1>1, <1>5, SeqDef
<1>7. \A i \in UnderWay : older[i] # Finished
  <2> SUFFICES ASSUME NEW i \in UnderWay PROVE older[i].at \in {"pool", "sent"}
    BY TaskType
  <2>1. older[i] = [tasks[i] EXCEPT !.age = @ + 1]
    BY <1>2, <1>4
  <2> QED  BY <1>2, <2>1
<1> QED  BY <1>2, <1>3, <1>4, <1>5, <1>6, <1>7

LEMMA TypeInit == Init => TypeOK
<1> SUFFICES ASSUME Init PROVE TypeOK
  OBVIOUS
<1>1. \E plan \in Plans : \E k \in 0 .. Len(plan) : todo = SubSeq(plan, k + 1, Len(plan))
  <2>1. todo \in Plans /\ todo \in Seq(Phases \union Commands) /\ Len(todo) \in Nat
    BY ScenariosAssumption DEF Init
  <2>2. todo = SubSeq(todo, 0 + 1, Len(todo)) /\ 0 \in 0 .. Len(todo)
    BY <2>1, SubSeqFull
  <2> QED  BY <2>1, <2>2
<1> QED  BY <1>1 DEF Init, TypeOK, Stages, NoStats

\* A turn of the loop, or a step of the scenario, keeps the components in their domains.
LEMMA BeginType ==
    ASSUME TypeOK, Begin
    PROVE  TypeOK'
<1>1. Step \in Phases /\ Step.length \in Int
  BY StepType DEF Begin, Phases
<1>2. left' \in Nat /\ rest' \in Nat /\ (rest' > 0 => left' <= rest')
  <2> DEFINE whole == IF rest > 0 THEN rest ELSE AtLeast0(Step.length)
  <2>1. whole \in Nat /\ (rest > 0 => whole = rest) /\ rest \in Nat
    BY <1>1 DEF AtLeast0, TypeOK
  <2>2. IF Step.kind = "diurnal" THEN rest' = whole /\ left' = SegmentLength(whole)
        ELSE left' = whole /\ rest' = rest
    BY DEF Begin
  <2> HIDE DEF whole
  <2>3. CASE Step.kind = "diurnal"
    <3>1. SegmentLength(whole) \in Nat /\ SegmentLength(whole) <= whole
      BY <2>1, Numbers DEF SegmentLength, Lesser
    <3> QED  BY <2>1, <2>2, <2>3, <3>1
  <2>4. CASE Step.kind # "diurnal"
    <3>1. left' = whole /\ rest' = rest
      BY <2>2, <2>4
    <3>2. rest > 0 => left' <= rest
      BY <2>1, <3>1
    <3> QED  BY <2>1, <3>1, <3>2
  <2> QED  BY <2>3, <2>4
<1>3. tasks' \in Seq(Task) /\ due' \in Int /\ stage' \in Stages
  BY DEF Begin, Stages
<1>4. UNCHANGED <<todo, total, stats, counters, gateways, spawned>>
  BY DEF Begin
<1> QED  BY <1>2, <1>3, <1>4 DEF TypeOK

LEMMA LoopType ==
    ASSUME TypeOK, Spawn \/ Wake \/ EndLoop \/ Finish \/ Interrupt
    PROVE  TypeOK'
<1>1. CASE Spawn
  <2>1. due' \in Int /\ stage' \in Stages
    BY <1>1, Numbers DEF Spawn, TypeOK, Stages
  <2>2. tasks' \in Seq(Task)
    BY <1>1, SpawnTasks
  <2> QED  BY <1>1, <2>1, <2>2 DEF Spawn, TypeOK
<1>2. CASE Wake
  BY <1>2 DEF Wake, TypeOK, Stages
<1>3. CASE EndLoop
  BY <1>3 DEF EndLoop, TypeOK, Stages
<1>4. CASE Finish
  BY <1>4 DEF Finish, TypeOK, Stages
<1>5. CASE Interrupt
  BY <1>5 DEF Interrupt, TypeOK, Stages
<1> QED  BY <1>1, <1>2, <1>3, <1>4, <1>5

LEMMA ReturnType ==
    ASSUME TypeOK, Return, todo # <<>>
    PROVE  TypeOK'
<1>1. \E plan \in Plans : \E k \in 0 .. Len(plan) : todo' = SubSeq(plan, k + 1, Len(plan))
  BY StepType DEF Return, TypeOK
<1>2. total' \in [sent : Nat, errors : Nat] /\ stats' \in [sent : Nat, errors : Nat]
  <2>1. total \in [sent : Nat, errors : Nat] /\ stats \in [sent : Nat, errors : Nat]
    BY DEF TypeOK
  <2>2. total' = [sent |-> total.sent + stats.sent, errors |-> total.errors + stats.errors]
        /\ stats' = NoStats
    BY DEF Return
  <2> QED  BY <2>1, <2>2 DEF NoStats
<1> QED  BY <1>1, <1>2 DEF Return, TypeOK, Stages

LEMMA DockerType ==
    ASSUME TypeOK, DockerCommand
    PROVE  TypeOK'
<1>1. \E plan \in Plans : \E k \in 0 .. Len(plan) : todo' = SubSeq(plan, k + 1, Len(plan))
  BY StepType DEF DockerCommand
<1>2. gateways' \in [Regions -> {"up", "down", "stopped"}]
  BY DEF DockerCommand, TypeOK
<1> QED  BY <1>1, <1>2 DEF DockerCommand, TypeOK

\* What a step of a task leaves in its place.
LEMMA StartTask ==
    ASSUME TypeOK, RunInv, NEW i \in DOMAIN tasks, Start(i)
    PROVE  \E t \in Task : /\ t.at = "pool" /\ t.age = 0 /\ t.region \in Step.targets /\ t # Finished
                           /\ tasks' = [tasks EXCEPT ![i] = t]
<1>1. Step.targets \subseteq Regions
  BY DEF RunInv, Start, Running, Phases
<1>2. PICK r \in Step.targets : tasks' = [tasks EXCEPT ![i] = [at |-> "pool", region |-> r, age |-> 0]]
  BY DEF Start
<1>3. r \in Regions /\ 0 \in 0 .. Timeout
  BY <1>1, Numbers
<1> QED  BY <1>2, <1>3, TaskType

LEMMA ConnectTask ==
    ASSUME TypeOK, NEW i \in DOMAIN tasks, Connect(i)
    PROVE  \E t \in Task : /\ t.at = "sent" /\ t.age = 0 /\ t.region = tasks[i].region /\ t # Finished
                           /\ tasks' = [tasks EXCEPT ![i] = t]
<1>1. tasks[i] \in Task /\ i \in 1 .. Len(tasks) /\ tasks \in Seq(Task)
  BY TasksFinite DEF TypeOK
<1> DEFINE t == [tasks[i] EXCEPT !.at = "sent", !.age = 0]
<1>2. /\ t.at = "sent" /\ t.age = 0 /\ t.region = tasks[i].region /\ t \in Task
  <2>1. tasks[i] \in [at : {"queued", "pool", "sent", "done"}, region : Regions \union {"none"}, age : 0 .. Timeout]
        /\ 0 \in 0 .. Timeout
    BY <1>1, Numbers DEF Task
  <2> DEFINE u == [tasks[i] EXCEPT !.at = "sent"]
  <2>2. /\ u \in [at : {"queued", "pool", "sent", "done"}, region : Regions \union {"none"}, age : 0 .. Timeout]
        /\ u.at = "sent" /\ u.region = tasks[i].region
    BY <2>1
  <2>3. t = [u EXCEPT !.age = 0]
    OBVIOUS
  <2> HIDE DEF u, t
  <2>4. t.at = "sent" /\ t.age = 0 /\ t.region = tasks[i].region
    BY <2>2, <2>3
  <2>5. t \in Task
    BY <2>1, <2>2, <2>3 DEF Task
  <2> QED  BY <2>4, <2>5
<1>3. tasks' = [tasks EXCEPT ![i] = t]
  BY <1>1 DEF Connect
<1> HIDE DEF t
<1>4. t # Finished
  BY <1>2, TaskType
<1> QED  BY <1>2, <1>3, <1>4

\* One more in a statistic.
LEMMA StatsType ==
    ASSUME NEW r \in [sent : Nat, errors : Nat]
    PROVE  /\ [r EXCEPT !.sent = r.sent + 1] \in [sent : Nat, errors : Nat]
           /\ [r EXCEPT !.sent = r.sent + 1] = [sent |-> r.sent + 1, errors |-> r.errors]
           /\ [r EXCEPT !.errors = r.errors + 1] \in [sent : Nat, errors : Nat]
           /\ [r EXCEPT !.errors = r.errors + 1] = [sent |-> r.sent, errors |-> r.errors + 1]
<1>1. r.sent \in Nat /\ r.errors \in Nat /\ r = [sent |-> r.sent, errors |-> r.errors]
  OBVIOUS
<1>2. /\ [r EXCEPT !.sent = r.sent + 1] = [sent |-> r.sent + 1, errors |-> r.errors]
      /\ [r EXCEPT !.errors = r.errors + 1] = [sent |-> r.sent, errors |-> r.errors + 1]
  BY <1>1
<1> QED  BY <1>1, <1>2

LEMMA CountersType ==
    ASSUME NEW r \in [allowed : Nat, denied : Nat], NEW verdict \in {"allowed", "denied"}
    PROVE  /\ [r EXCEPT ![verdict] = r[verdict] + 1] \in [allowed : Nat, denied : Nat]
           /\ [r EXCEPT ![verdict] = r[verdict] + 1].allowed + [r EXCEPT ![verdict] = r[verdict] + 1].denied
                 = r.allowed + r.denied + 1
<1> DEFINE more == [r EXCEPT ![verdict] = r[verdict] + 1]
<1>1. r \in [{"allowed", "denied"} -> Nat]
  OBVIOUS
<1>2. more \in [{"allowed", "denied"} -> Nat]
  BY <1>1
<1>3. more["allowed"] + more["denied"] = r["allowed"] + r["denied"] + 1
  <2>1. CASE verdict = "allowed"
    BY <1>1, <2>1
  <2>2. CASE verdict = "denied"
    BY <1>1, <2>2
  <2> QED  BY <2>1, <2>2
<1> HIDE DEF more
<1>4. more \in [allowed : Nat, denied : Nat]
  BY <1>2
<1> QED  BY <1>3, <1>4 DEF more

LEMMA TaskStepType ==
    ASSUME TypeOK, RunInv, NEW i \in DOMAIN tasks,
           TaskStep(i) \/ \E verdict \in {"allowed", "denied"} : Answer(i, verdict)
    PROVE  TypeOK'
<1>1. tasks' \in Seq(Task)
  <2>1. CASE Start(i)
    BY <2>1, StartTask, OneTask
  <2>2. CASE Connect(i)
    BY <2>2, ConnectTask, OneTask
  <2>3. CASE tasks' = [tasks EXCEPT ![i] = Finished]
    BY <2>3, TaskType, OneTask
  <2> QED  BY <2>1, <2>2, <2>3 DEF TaskStep, Fail, Answer
<1>2. CASE Start(i) \/ Connect(i)
  BY <1>1, <1>2 DEF Start, Connect, loopVars, TypeOK
<1>3. CASE Fail(i)
  <2>1. stats' \in [sent : Nat, errors : Nat]
    BY <1>3, StatsType DEF Fail, TypeOK
  <2> QED  BY <1>1, <1>3, <2>1 DEF Fail, loopVars, TypeOK
<1>4. ASSUME NEW verdict \in {"allowed", "denied"}, Answer(i, verdict)
      PROVE  TypeOK'
  <2>1. counters' \in [allowed : Nat, denied : Nat] /\ stats' \in [sent : Nat, errors : Nat]
    BY <1>4, StatsType, CountersType DEF Answer, TypeOK
  <2> QED  BY <1>1, <1>4, <2>1 DEF Answer, loopVars, TypeOK
<1> QED  BY <1>2, <1>3, <1>4 DEF TaskStep

LEMMA ElapseType ==
    ASSUME TypeOK, Elapse
    PROVE  TypeOK'
<1>1. left' \in Nat /\ rest' \in Nat /\ due' \in Int /\ (rest' > 0 => left' <= rest')
  <2>1. left \in Nat /\ rest \in Nat /\ due \in Int /\ (rest > 0 => left <= rest)
    BY DEF TypeOK
  <2>2. left' = AtLeast0(left - 1) /\ rest' = AtLeast0(rest - 1)
        /\ due' = IF stage = "gathering" THEN 0 ELSE due - 1
    BY DEF Elapse
  <2> QED  BY <2>1, <2>2 DEF AtLeast0
<1>2. tasks' \in Seq(Task)
  BY ElapseTasks
<1> QED  BY <1>1, <1>2 DEF Elapse, TypeOK

LEMMA TypeStep == TypeOK /\ RunInv /\ [Next]_vars => TypeOK'
<1> SUFFICES ASSUME TypeOK, RunInv, [Next]_vars PROVE TypeOK'
  OBVIOUS
<1>1. CASE Return
  <2>1. todo # <<>>
    BY <1>1 DEF Return, RunInv, Running
  <2> QED  BY <1>1, <2>1, ReturnType
<1>2. CASE UNCHANGED vars
  BY <1>2 DEF vars, loopVars, TypeOK
<1> QED  BY <1>1, <1>2, BeginType, LoopType, DockerType, TaskStepType, ElapseType
         DEF Next, Scenario, Ended

-----------------------------------------------------------------------------
(* The invariant.                                                           *)

LEMMA SetsFinite ==
    ASSUME TypeOK
    PROVE  /\ IsFiniteSet(UnderWay) /\ Cardinality(UnderWay) \in Nat /\ UnderWay \subseteq Unfinished
           /\ IsFiniteSet(At("sent")) /\ Cardinality(At("sent")) \in Nat
           /\ IsFiniteSet(Unfinished) /\ Cardinality(Unfinished) \in Nat
<1>1. UnderWay \subseteq DOMAIN tasks /\ Unfinished \subseteq DOMAIN tasks /\ At("sent") \subseteq DOMAIN tasks
  BY DEF UnderWay, Unfinished, At
<1>2. UnderWay \subseteq Unfinished
  BY TaskType DEF UnderWay, Unfinished, At
<1> QED  BY <1>1, <1>2, TasksFinite, FS_Subset, FS_CardinalityType

\* When all are gathered nothing is under way.
LEMMA NoneLeft ==
    ASSUME Gathered
    PROVE  UnderWay = {} /\ At("pool") = {} /\ Unfinished = {} /\ Cardinality(Unfinished) = 0
<1>1. UnderWay = {} /\ At("pool") = {} /\ Unfinished = {}
  BY TaskType DEF Gathered, UnderWay, At, Unfinished
<1> QED  BY <1>1, FS_EmptySet

LEMMA OneTaskSets ==
    ASSUME TypeOK, NEW i \in DOMAIN tasks, NEW t \in Task, tasks' = [tasks EXCEPT ![i] = t]
    PROVE  /\ UnderWay' = IF t.at \in {"pool", "sent"} THEN UnderWay \union {i} ELSE UnderWay \ {i}
           /\ Unfinished' = IF t # Finished THEN Unfinished \union {i} ELSE Unfinished \ {i}
           /\ At("pool")' = IF t.at = "pool" THEN At("pool") \union {i} ELSE At("pool") \ {i}
<1>1. /\ DOMAIN tasks' = DOMAIN tasks /\ tasks'[i] = t
      /\ \A j \in DOMAIN tasks \ {i} : tasks'[j] = tasks[j]
  BY OneTask
<1> QED  BY <1>1 DEF UnderWay, At, Unfinished

\* A request that gets past the semaphore found it open.
LEMMA StartInv ==
    ASSUME TypeOK, RunnerInv, NEW i \in DOMAIN tasks, Start(i)
    PROVE  RunnerInv'
<1>1. /\ Running /\ UNCHANGED <<loopVars, stats, counters, gateways, spawned>> /\ Running' /\ Step' = Step
      /\ tasks[i] = Queued /\ Cardinality(UnderWay) < Step.concurrency /\ Step \in Phases
      /\ Step.concurrency \in Nat
  BY DEF Start, Running, loopVars, Step, Holders, RunnerInv, RunInv, Phases
<1>2. PICK t \in Task : /\ t.at = "pool" /\ t.age = 0 /\ t.region \in Step.targets /\ t # Finished
                        /\ tasks' = [tasks EXCEPT ![i] = t]
  BY StartTask DEF RunnerInv
<1>3. /\ UnderWay' = UnderWay \union {i} /\ Unfinished' = Unfinished \union {i}
      /\ At("pool")' = At("pool") \union {i}
      /\ tasks'[i] = t /\ \A j \in DOMAIN tasks \ {i} : tasks'[j] = tasks[j]
  BY <1>2, OneTaskSets, OneTask
<1>4. i \in Unfinished /\ Unfinished' = Unfinished
  BY <1>1, <1>3, TaskType DEF Unfinished
<1>5. RunInv'
  <2>1. \A j \in UnderWay' : tasks'[j].region \in Step.targets
    BY <1>1, <1>2, <1>3 DEF RunnerInv, RunInv, UnderWay, At
  <2> QED  BY <1>1, <2>1 DEF RunInv, RunnerInv, loopVars
<1>6. SemaphoreInv'
  <2>1. Cardinality(UnderWay \union {i}) = Cardinality(UnderWay) + 1
    <3>1. i \notin UnderWay
      BY <1>1, TaskType DEF UnderWay, At
    <3> QED  BY <3>1, SetsFinite, FS_AddElement
  <2>2. Cardinality(UnderWay \union {i}) \in Nat
    BY SetsFinite, FS_AddElement, FS_CardinalityType
  <2> QED  BY <1>1, <1>3, <2>1, <2>2, SetsFinite DEF SemaphoreInv
<1>7. AccountInv'
  BY <1>1, <1>4 DEF AccountInv, RunnerInv, loopVars
<1>8. PoolSuffices'
  BY <1>1, <1>2, <1>3 DEF PoolSuffices, RunnerInv, At
<1> QED  BY <1>5, <1>6, <1>7, <1>8 DEF RunnerInv

LEMMA ConnectInv ==
    ASSUME TypeOK, RunnerInv, NEW i \in DOMAIN tasks, Connect(i)
    PROVE  RunnerInv'
<1>1. /\ Running /\ UNCHANGED <<loopVars, stats, counters, gateways, spawned>> /\ Running' /\ Step' = Step
      /\ tasks[i].at = "pool" /\ Step \in Phases
  BY DEF Connect, Connectable, Running, loopVars, Step, RunnerInv, RunInv
<1>2. PICK t \in Task : /\ t.at = "sent" /\ t.age = 0 /\ t.region = tasks[i].region /\ t # Finished
                        /\ tasks' = [tasks EXCEPT ![i] = t]
  BY ConnectTask
<1>3. /\ UnderWay' = UnderWay \union {i} /\ Unfinished' = Unfinished \union {i}
      /\ At("pool")' = At("pool") \ {i}
      /\ tasks'[i] = t /\ \A j \in DOMAIN tasks \ {i} : tasks'[j] = tasks[j]
  BY <1>2, OneTaskSets, OneTask
<1>4. i \in UnderWay /\ UnderWay' = UnderWay /\ Unfinished' = Unfinished
  BY <1>1, <1>3, SetsFinite DEF UnderWay, At
<1>5. RunInv'
  <2>1. \A j \in UnderWay' : tasks'[j].region \in Step.targets
    BY <1>1, <1>2, <1>3, <1>4 DEF RunnerInv, RunInv, UnderWay, At
  <2> QED  BY <1>1, <2>1 DEF RunInv, RunnerInv, loopVars
<1>6. SemaphoreInv' /\ AccountInv'
  BY <1>1, <1>4 DEF SemaphoreInv, AccountInv, RunnerInv, loopVars
<1>7. PoolSuffices'
  BY <1>1, <1>3 DEF PoolSuffices, RunnerInv, At
<1> QED  BY <1>5, <1>6, <1>7 DEF RunnerInv

\* A request that ends is an answer or an error, and leaves the semaphore.
LEMMA EndInv ==
    ASSUME TypeOK, RunnerInv, NEW i \in DOMAIN tasks,
           Fail(i) \/ \E verdict \in {"allowed", "denied"} : Answer(i, verdict)
    PROVE  RunnerInv'
<1>1. /\ Running /\ UNCHANGED <<loopVars, gateways, spawned>> /\ Running' /\ Step' = Step
      /\ tasks[i].at \in {"pool", "sent"} /\ Step \in Phases /\ Step.concurrency \in Nat
      /\ tasks' = [tasks EXCEPT ![i] = Finished]
  BY DEF Fail, Raises, Answer, Running, loopVars, Step, RunnerInv, RunInv, Phases
<1>2. /\ UnderWay' = UnderWay \ {i} /\ Unfinished' = Unfinished \ {i}
      /\ At("pool")' = At("pool") \ {i}
      /\ \A j \in DOMAIN tasks \ {i} : tasks'[j] = tasks[j]
  BY <1>1, TaskType, OneTaskSets, OneTask
<1>3. i \in UnderWay /\ i \in Unfinished
  BY <1>1, SetsFinite DEF UnderWay, At
<1>4. Cardinality(Unfinished') = Cardinality(Unfinished) - 1 /\ Cardinality(UnderWay') = Cardinality(UnderWay) - 1
  BY <1>2, <1>3, SetsFinite, FS_RemoveElement
<1>5. RunInv'
  <2>1. \A j \in UnderWay' : tasks'[j].region \in Step.targets
    BY <1>1, <1>2 DEF RunnerInv, RunInv, UnderWay, At
  <2> QED  BY <1>1, <2>1 DEF RunInv, RunnerInv, loopVars
<1>6. SemaphoreInv'
  BY <1>1, <1>4, SetsFinite DEF SemaphoreInv, RunnerInv
<1>7. AccountInv'
  <2>1. /\ stats \in [sent : Nat, errors : Nat] /\ total.sent \in Nat /\ total.errors \in Nat
        /\ counters \in [allowed : Nat, denied : Nat] /\ counters.allowed \in Nat /\ counters.denied \in Nat
        /\ stats.sent \in Nat /\ stats.errors \in Nat
    BY DEF TypeOK
  <2>2. total' = total /\ spawned' = spawned /\ stage' = stage /\ stage \notin {"idle", "done", "interrupted"}
    BY <1>1 DEF loopVars, Running
  <2>3. /\ counters.allowed + counters.denied = total.sent + stats.sent
        /\ spawned = total.sent + total.errors + stats.sent + stats.errors + Cardinality(Unfinished)
    BY <2>2 DEF RunnerInv, AccountInv
  <2>4. CASE Fail(i)
    <3>1. counters' = counters /\ stats'.sent = stats.sent /\ stats'.errors = stats.errors + 1
      BY <2>1, <2>4, StatsType DEF Fail
    <3> QED  BY <1>4, <2>1, <2>2, <2>3, <3>1, SetsFinite DEF AccountInv
  <2>5. ASSUME NEW verdict \in {"allowed", "denied"}, Answer(i, verdict)
        PROVE  AccountInv'
    <3>1. stats'.sent = stats.sent + 1 /\ stats'.errors = stats.errors
      BY <2>1, <2>5, StatsType DEF Answer
    <3>2. counters'.allowed + counters'.denied = counters.allowed + counters.denied + 1
      BY <2>1, <2>5, CountersType DEF Answer
    <3> QED  BY <1>4, <2>1, <2>2, <2>3, <3>1, <3>2, SetsFinite DEF AccountInv
  <2> QED  BY <2>4, <2>5
<1>8. PoolSuffices'
  BY <1>1, <1>2 DEF PoolSuffices, RunnerInv, At
<1> QED  BY <1>5, <1>6, <1>7, <1>8 DEF RunnerInv

\* A request gets older without a connection only while all connections are taken: with it,
\* more requests are under way than there are connections.
LEMMA ElapseInv ==
    ASSUME TypeOK, RunnerInv, Elapse
    PROVE  RunnerInv'
<1>1. /\ Running /\ UNCHANGED <<todo, stage, total, stats, counters, gateways, spawned>> /\ Running' /\ Step' = Step
      /\ Step \in Phases /\ Step.concurrency \in Nat
  BY DEF Elapse, Running, Step, RunnerInv, RunInv, Phases
<1>2. /\ DOMAIN tasks' = DOMAIN tasks
      /\ \A i \in UnderWay : /\ tasks'[i].at = tasks[i].at /\ tasks'[i].region = tasks[i].region
                            /\ tasks'[i] # Finished
      /\ \A i \in DOMAIN tasks \ UnderWay : tasks'[i] = tasks[i]
  BY ElapseTasks
<1>3. UnderWay' = UnderWay /\ At("pool")' = At("pool")
  BY <1>2 DEF UnderWay, At
<1>4. Unfinished' = Unfinished
  <2>1. \A i \in DOMAIN tasks : tasks'[i] # Finished <=> tasks[i] # Finished
    BY <1>2, SetsFinite DEF Unfinished
  <2> QED  BY <1>2, <2>1 DEF Unfinished
<1>5. RunInv'
  BY <1>1, <1>2, <1>3 DEF RunInv, RunnerInv
<1>6. SemaphoreInv' /\ AccountInv'
  BY <1>1, <1>3, <1>4 DEF SemaphoreInv, AccountInv, RunnerInv
<1>7. ASSUME NEW i \in At("pool")
      PROVE  Step.concurrency > MaxConnections
  <2>1. i \in UnderWay /\ i \notin At("sent") /\ At("sent") \subseteq UnderWay
    BY DEF UnderWay, At
  <2>2. ~(Cardinality(At("sent")) < MaxConnections)
    BY <2>1 DEF Elapse, Connectable, At
  <2>3. IsFiniteSet(At("sent") \union {i}) /\ Cardinality(At("sent") \union {i}) = Cardinality(At("sent")) + 1
    BY <2>1, SetsFinite, FS_AddElement
  <2>4. At("sent") \union {i} \subseteq UnderWay
    BY <2>1
  <2>5. Cardinality(At("sent") \union {i}) <= Cardinality(UnderWay)
    BY <2>4, SetsFinite, FS_Subset
  <2>6. Cardinality(UnderWay) <= Step.concurrency
    BY <1>1 DEF RunnerInv, SemaphoreInv
  <2> QED  BY <1>1, <2>2, <2>3, <2>5, <2>6, SetsFinite, Numbers
<1>8. PoolSuffices'
  BY <1>1, <1>3, <1>7 DEF PoolSuffices
<1> QED  BY <1>5, <1>6, <1>8 DEF RunnerInv

\* A run begins when no task of the last one is left, with a list of its own.
LEMMA BeginInv ==
    ASSUME TypeOK, RunnerInv, Begin
    PROVE  RunnerInv'
<1>1. /\ stage = "idle" /\ stage' = "awake" /\ todo' = todo /\ todo # <<>> /\ tasks' = <<>>
      /\ UNCHANGED <<total, stats, counters, spawned>> /\ Step \in Phases /\ Step' = Step
      /\ Step.concurrency \in Nat
  BY StepType DEF Begin, Step, Phases
<1>2. DOMAIN tasks' = {}
  BY <1>1
<1>3. UnderWay' = {} /\ Unfinished' = {} /\ At("pool")' = {} /\ Cardinality({}) = 0
  BY <1>2, FS_EmptySet DEF UnderWay, Unfinished, At
<1>4. Gathered /\ Cardinality(Unfinished) = 0
  BY <1>1, NoneLeft DEF RunnerInv, RunInv, Running
<1>5. RunInv' /\ SemaphoreInv' /\ PoolSuffices'
  BY <1>1, <1>3 DEF RunInv, SemaphoreInv, PoolSuffices, Running
<1>6. AccountInv'
  BY <1>1, <1>3, <1>4 DEF AccountInv, RunnerInv
<1> QED  BY <1>5, <1>6 DEF RunnerInv

LEMMA SpawnInv ==
    ASSUME TypeOK, RunnerInv, Spawn
    PROVE  RunnerInv'
<1>1. /\ Running /\ Running' /\ todo' = todo /\ Step' = Step /\ spawned' = spawned + 1
      /\ stage' \in {"waiting", "awake"} /\ stage = "awake"
      /\ UNCHANGED <<total, stats, counters>>
  BY DEF Spawn, Running, Step
<1>2. /\ DOMAIN tasks' = DOMAIN tasks \union {Len(tasks) + 1} /\ Len(tasks) + 1 \notin DOMAIN tasks
      /\ tasks'[Len(tasks) + 1] = Queued /\ \A i \in DOMAIN tasks : tasks'[i] = tasks[i]
  BY SpawnTasks
<1>3. UnderWay' = UnderWay /\ At("pool")' = At("pool") /\ Unfinished' = Unfinished \union {Len(tasks) + 1}
  BY <1>2, TaskType DEF UnderWay, At, Unfinished
<1>4. Cardinality(Unfinished') = Cardinality(Unfinished) + 1
  <2>1. Len(tasks) + 1 \notin Unfinished
    BY <1>2 DEF Unfinished
  <2> QED  BY <1>3, <2>1, SetsFinite, FS_AddElement
<1>5. RunInv' /\ SemaphoreInv' /\ PoolSuffices'
  BY <1>1, <1>2, <1>3 DEF RunInv, SemaphoreInv, PoolSuffices, RunnerInv, UnderWay, At
<1>6. AccountInv'
  <2>1. /\ stats.sent \in Nat /\ stats.errors \in Nat /\ total.sent \in Nat /\ total.errors \in Nat
        /\ spawned \in Nat
    BY DEF TypeOK
  <2> QED  BY <1>1, <1>4, <2>1, SetsFinite DEF AccountInv, RunnerInv
<1> QED  BY <1>5, <1>6 DEF RunnerInv

\* The run returns its statistics when everyone is gathered.
LEMMA ReturnInv ==
    ASSUME TypeOK, RunnerInv, Return
    PROVE  RunnerInv'
<1>1. /\ stage = "gathering" /\ stage' = "idle" /\ Gathered /\ tasks' = tasks /\ stats' = NoStats
      /\ total'.sent = total.sent + stats.sent /\ total'.errors = total.errors + stats.errors
      /\ counters' = counters /\ spawned' = spawned
  BY DEF Return
<1>2. Gathered' /\ Unfinished' = Unfinished /\ At("pool")' = {} /\ Cardinality(Unfinished) = 0
  BY <1>1, NoneLeft DEF Gathered, Unfinished, At
<1>3. AccountInv'
  <2>1. /\ stats.sent \in Nat /\ stats.errors \in Nat /\ total.sent \in Nat /\ total.errors \in Nat
        /\ stats'.sent = 0 /\ stats'.errors = 0
    BY <1>1 DEF TypeOK, NoStats
  <2> QED  BY <1>1, <1>2, <2>1 DEF AccountInv, RunnerInv
<1>4. RunInv' /\ SemaphoreInv' /\ PoolSuffices'
  BY <1>1, <1>2 DEF RunInv, SemaphoreInv, PoolSuffices, Running
<1> QED  BY <1>3, <1>4 DEF RunnerInv

\* Between the runs, and at the end, nothing is under way.
LEMMA BetweenInv ==
    ASSUME TypeOK, RunnerInv, DockerCommand \/ Finish
    PROVE  RunnerInv'
<1>1. /\ stage = "idle" /\ stage' \in {"idle", "done"} /\ UNCHANGED <<total, tasks, stats, counters, spawned>>
  BY DEF DockerCommand, Finish
<1>2. Gathered' /\ Unfinished' = Unfinished /\ At("pool")' = {}
  <2>1. Gathered
    BY <1>1 DEF RunnerInv, RunInv, Running
  <2> QED  BY <1>1, <2>1, NoneLeft DEF Gathered, Unfinished, At
<1>3. RunInv' /\ SemaphoreInv' /\ PoolSuffices'
  BY <1>1, <1>2 DEF RunInv, SemaphoreInv, PoolSuffices, Running
<1>4. AccountInv'
  BY <1>1, <1>2 DEF AccountInv, RunnerInv
<1> QED  BY <1>3, <1>4 DEF RunnerInv

LEMMA WaitInv ==
    ASSUME TypeOK, RunnerInv, Wake \/ EndLoop
    PROVE  RunnerInv'
<1>1. /\ Running /\ Running' /\ stage' \in {"awake", "gathering"} /\ stage \in {"awake", "waiting"}
      /\ UNCHANGED <<todo, total, tasks, stats, counters, spawned>>
  BY DEF Wake, EndLoop, Running
<1>2. /\ UnderWay' = UnderWay /\ Unfinished' = Unfinished /\ At("pool")' = At("pool") /\ Step' = Step
  BY <1>1 DEF UnderWay, Unfinished, At, Step
<1> QED  BY <1>1, <1>2 DEF RunnerInv, RunInv, SemaphoreInv, AccountInv, PoolSuffices

LEMMA InterruptInv ==
    ASSUME TypeOK, RunnerInv, Interrupt
    PROVE  RunnerInv'
<1>1. stage' = "interrupted" /\ tasks' = <<>> /\ UNCHANGED <<total, stats, counters>>
  BY DEF Interrupt
<1>2. DOMAIN tasks' = {}
  BY <1>1
<1> QED  BY <1>1, <1>2 DEF RunnerInv, RunInv, SemaphoreInv, AccountInv, PoolSuffices, Running, Gathered, At

LEMMA RunnerInit == Init => RunnerInv
<1> SUFFICES ASSUME Init PROVE RunnerInv
  OBVIOUS
<1>1. tasks = <<>> /\ DOMAIN tasks = {} /\ stage = "idle"
  BY DEF Init
<1>2. Unfinished = {} /\ Cardinality(Unfinished) = 0
  BY <1>1, FS_EmptySet DEF Unfinished
<1>3. AccountInv
  BY <1>1, <1>2 DEF Init, AccountInv, NoStats
<1> QED  BY <1>1, <1>3 DEF RunnerInv, RunInv, SemaphoreInv, PoolSuffices, Running, Gathered, At

LEMMA RunnerStep == TypeOK /\ RunnerInv /\ [Next]_vars => RunnerInv'
<1> SUFFICES ASSUME TypeOK, RunnerInv, [Next]_vars PROVE RunnerInv'
  OBVIOUS
<1>1. CASE UNCHANGED vars
  <2>1. UNCHANGED <<todo, stage, total, tasks, stats, counters, spawned>>
    BY <1>1 DEF vars, loopVars
  <2>2. /\ UnderWay' = UnderWay /\ Unfinished' = Unfinished /\ At("pool")' = At("pool") /\ Step' = Step
        /\ Running' = Running /\ Gathered' = Gathered
    BY <2>1 DEF UnderWay, Unfinished, At, Step, Running, Gathered
  <2> QED  BY <2>1, <2>2 DEF RunnerInv, RunInv, SemaphoreInv, AccountInv, PoolSuffices
<1> QED  BY <1>1, BeginInv, SpawnInv, WaitInv, ReturnInv, BetweenInv, StartInv, ConnectInv, EndInv,
            ElapseInv, InterruptInv
         DEF Next, Scenario, TaskStep, Ended

LEMMA Invariance == Spec => [](TypeOK /\ RunnerInv)
<1>1. RunnerInv => RunInv
  BY DEF RunnerInv
<1> QED  BY <1>1, TypeInit, RunnerInit, TypeStep, RunnerStep, PTL DEF Spec

\* Every component stays in its domain; no diurnal segment is meant to outlast its phase.
THEOREM TypeCorrect == Spec => []TypeOK
  BY Invariance, PTL

\* Every request is accounted for: it is a verdict and counted as sent, or an error; when a
\* scenario is over the totals of its runs add up to the requests made.
THEOREM RequestsAreAccounted == Spec => []Accounted
<1>1. TypeOK /\ RunnerInv => Accounted
  <2> SUFFICES ASSUME TypeOK, RunnerInv PROVE Accounted
    OBVIOUS
  <2>1. stage = "done" => total.sent + total.errors = spawned
    <3> SUFFICES ASSUME stage = "done" PROVE total.sent + total.errors = spawned
      OBVIOUS
    <3>1. Cardinality(Unfinished) = 0
      BY NoneLeft DEF RunnerInv, RunInv, Running
    <3>2. spawned = total.sent + total.errors + stats.sent + stats.errors + Cardinality(Unfinished)
          /\ stats.sent = 0 /\ stats.errors = 0
      BY DEF RunnerInv, AccountInv, NoStats
    <3>3. total.sent \in Nat /\ total.errors \in Nat
      BY DEF TypeOK
    <3> QED  BY <3>1, <3>2, <3>3
  <2> QED  BY <2>1 DEF Accounted, RunnerInv, AccountInv
<1> QED  BY <1>1, Invariance, PTL

\* A request waits for a connection only in a phase that lets more requests past the
\* semaphore than the client has connections.
THEOREM PoolIsEnough == Spec => []PoolSuffices
  BY Invariance, PTL DEF RunnerInv

-----------------------------------------------------------------------------
(* The scenarios spare the gateways they stop.                              *)

\* The scenarios that the commands run, with whatever parameters.
IsScenario(plan) ==
    \/ \E length \in Int, targets \in SUBSET Regions :
          plan \in {Steady(length, targets), SteadyDiurnal(length, targets)}
    \/ \E a, b, c \in Int, region \in Regions :
          plan \in {Spike(a, b, c, region), ProductLaunch(a, b, c, region), Failover(a, b, region)}

\* No phase asks a region whose gateway was to be stopped before.
Spares(plan) ==
    \A i, k \in 1 .. Len(plan) :
        i < k /\ plan[i].kind = "stop" /\ plan[k].kind \in {"load", "diurnal"}
            => plan[i].region \notin plan[k].targets

LEMMA ScenarioSpares ==
    ASSUME NEW plan, IsScenario(plan)
    PROVE  Spares(plan)
<1>1. ASSUME NEW length, NEW targets, plan \in {Steady(length, targets), SteadyDiurnal(length, targets)}
      PROVE  Spares(plan)
  <2>1. Len(plan) = 1
    BY <1>1 DEF Steady, SteadyDiurnal
  <2> QED  BY <2>1 DEF Spares
<1>2. ASSUME NEW a, NEW b, NEW c, NEW region, plan = Spike(a, b, c, region)
      PROVE  Spares(plan)
  <2> DEFINE first == Load(a, Normal, {region})
             second == Load(Burst(a, b, c), Peak, {region})
             third == Load(c - a - Burst(a, b, c), Normal, {region})
  <2>1. first.kind = "load" /\ second.kind = "load" /\ third.kind = "load"
    BY DEF Load
  <2>2. plan = <<first, second>> \o <<third>> \/ plan = <<first, second>> \o <<>>
    BY <1>2 DEF Spike
  <2> HIDE DEF first, second, third
  <2>3. plan = <<first, second, third>> \/ plan = <<first, second>>
    BY <2>2
  <2>4. \A i \in 1 .. Len(plan) : plan[i].kind = "load"
    <3>1. CASE plan = <<first, second, third>>
      BY <2>1, <3>1
    <3>2. CASE plan = <<first, second>>
      BY <2>1, <3>2
    <3> QED  BY <2>3, <3>1, <3>2
  <2> QED  BY <2>4 DEF Spares
<1>3. ASSUME NEW a, NEW b, NEW c, NEW region, plan = ProductLaunch(a, b, c, region)
      PROVE  Spares(plan)
  <2>1. \A i \in 1 .. Len(plan) : plan[i].kind = "load"
    BY <1>3 DEF ProductLaunch, Load
  <2> QED  BY <2>1 DEF Spares
<1>4. ASSUME NEW a, NEW b, NEW region, plan = Failover(a, b, region)
      PROVE  Spares(plan)
  <2>1. /\ Len(plan) = 4 /\ plan[1].kind = "load" /\ plan[2].kind = "stop" /\ plan[2].region = region
        /\ plan[3].kind = "load" /\ plan[3].targets = Regions \ {region} /\ plan[4].kind = "start"
    BY <1>4 DEF Failover, Load, Docker
  <2>2. ASSUME NEW i \in 1 .. Len(plan), NEW k \in 1 .. Len(plan), i < k, plan[i].kind = "stop",
               plan[k].kind \in {"load", "diurnal"}
        PROVE  plan[i].region \notin plan[k].targets
    <3>1. i = 2
      BY <2>1, <2>2
    <3>2. k = 3
      BY <2>1, <2>2, <3>1
    <3> QED  BY <2>1, <3>1, <3>2
  <2> QED  BY <2>2 DEF Spares
<1> QED  BY <1>1, <1>2, <1>3, <1>4 DEF IsScenario

\* ScenariosAssumption asks no more of the scenarios than they are.
LEMMA ScenarioType ==
    ASSUME NEW plan, IsScenario(plan)
    PROVE  plan \in Seq(Phases \union Commands)
<1> DEFINE S == Phases \union Commands
<1>1. ASSUME NEW length \in Int, NEW c \in {Normal, Peak}, NEW targets \in SUBSET Regions
      PROVE  Load(length, c, targets) \in S
  BY PlansAssumption DEF Load, Phases
<1>2. ASSUME NEW length \in Int, NEW targets \in SUBSET Regions
      PROVE  Diurnal(length, targets) \in S
  <2>1. Diurnal(length, targets) =
          [kind |-> "diurnal", length |-> length, concurrency |-> Normal, targets |-> targets]
    BY DEF Diurnal, Load
  <2> QED  BY <2>1, PlansAssumption DEF Phases
<1>3. ASSUME NEW command \in {"stop", "start"}, NEW region \in Regions
      PROVE  Docker(command, region) \in S
  BY DEF Docker, Commands
<1> HIDE DEF S
<1>4. ASSUME NEW length \in Int, NEW targets \in SUBSET Regions
      PROVE  Steady(length, targets) \in Seq(S) /\ SteadyDiurnal(length, targets) \in Seq(S)
  <2>1. Load(length, Normal, targets) \in S
    BY <1>1
  <2>2. Diurnal(length, targets) \in S
    BY <1>2
  <2> QED  BY <2>1, <2>2 DEF Steady, SteadyDiurnal
<1>5. ASSUME NEW a \in Int, NEW b \in Int, NEW c \in Int, NEW region \in Regions
      PROVE  /\ Spike(a, b, c, region) \in Seq(S) /\ ProductLaunch(a, b, c, region) \in Seq(S)
             /\ Failover(a, b, region) \in Seq(S)
  <2>1. {region} \in SUBSET Regions /\ Regions \ {region} \in SUBSET Regions /\ Burst(a, b, c) \in Int
        /\ c - a - Burst(a, b, c) \in Int /\ b - a \in Int
    BY DEF Burst, Lesser, AtLeast0
  <2>2. Spike(a, b, c, region) \in Seq(S)
    BY <1>1, <2>1 DEF Spike
  <2>3. ProductLaunch(a, b, c, region) \in Seq(S)
    BY <1>1, <2>1 DEF ProductLaunch
  <2>4. Failover(a, b, region) \in Seq(S)
    BY <1>1, <1>3, <2>1 DEF Failover
  <2> QED  BY <2>2, <2>3, <2>4
<1>6. plan \in Seq(S)
  <2>1. CASE \E length \in Int, targets \in SUBSET Regions :
               plan \in {Steady(length, targets), SteadyDiurnal(length, targets)}
    BY <1>4, <2>1
  <2>2. CASE \E a \in Int, b \in Int, c \in Int, region \in Regions :
               plan \in {Spike(a, b, c, region), ProductLaunch(a, b, c, region), Failover(a, b, region)}
    BY <1>5, <2>2
  <2> QED  BY <2>1, <2>2 DEF IsScenario
<1> QED  BY <1>6 DEF S

LEMMA StopInit == Init => StopInv
<1> SUFFICES ASSUME Init PROVE StopInv
  OBVIOUS
<1>1. todo \in Plans /\ todo \in Seq(Phases \union Commands) /\ Len(todo) \in Nat
  BY ScenariosAssumption DEF Init
<1>2. Left(todo, 0) /\ 0 \in 0 .. Len(todo)
  BY <1>1, SubSeqFull DEF Left
<1>3. \A r \in Regions : gateways[r] # "stopped"
  BY DEF Init
<1> QED  BY <1>1, <1>2, <1>3 DEF StopInv

LEMMA StopStep == TypeOK /\ RunInv /\ StopInv /\ [Next]_vars => StopInv'
<1> SUFFICES ASSUME TypeOK, RunInv, StopInv, [Next]_vars PROVE StopInv'
  OBVIOUS
<1>1. PICK plan \in Plans : \E k \in 0 .. Len(plan) :
          /\ Left(plan, k)
          /\ \A r \in Regions : gateways[r] = "stopped" =>
                \E i \in 1 .. k : plan[i].kind = "stop" /\ plan[i].region = r
  BY DEF StopInv
<1> PICK k \in 0 .. Len(plan) :
          /\ Left(plan, k)
          /\ \A r \in Regions : gateways[r] = "stopped" =>
                \E i \in 1 .. k : plan[i].kind = "stop" /\ plan[i].region = r
  BY <1>1
<1>2. Len(plan) \in Nat /\ k \in Nat
  BY ScenariosAssumption
<1>3. ASSUME UNCHANGED <<todo, gateways>> PROVE StopInv'
  <2>1. Left(plan, k)'
    BY <1>3 DEF Left
  <2> QED  BY <1>3, <2>1 DEF StopInv
<1>4. ASSUME todo # <<>>, todo' = Tail(todo),
             \A r \in Regions : gateways'[r] = "stopped" =>
                 gateways[r] = "stopped" \/ (Step.kind = "stop" /\ Step.region = r)
      PROVE  StopInv'
  <2>1. k + 1 \in 1 .. Len(plan) /\ Step = plan[k + 1] /\ Tail(todo) = SubSeq(plan, k + 2, Len(plan))
    BY <1>4, StepLeft
  <2>2. k + 1 \in 0 .. Len(plan) /\ (k + 1) + 1 = k + 2
    BY <1>2, <2>1
  <2>3. Left(plan, k + 1)'
    BY <1>4, <2>1, <2>2 DEF Left
  <2>4. ASSUME NEW r \in Regions, gateways'[r] = "stopped"
        PROVE  \E i \in 1 .. k + 1 : plan[i].kind = "stop" /\ plan[i].region = r
    <3>1. CASE gateways[r] = "stopped"
      <4>1. PICK i \in 1 .. k : plan[i].kind = "stop" /\ plan[i].region = r
        BY <3>1
      <4>2. i \in 1 .. k + 1
        BY <1>2
      <4> QED  BY <4>1, <4>2
    <3>2. CASE Step.kind = "stop" /\ Step.region = r
      BY <1>2, <2>1, <3>2
    <3> QED  BY <1>4, <2>4, <3>1, <3>2
  <2> DEFINE n == k + 1
  <2>5. n \in 0 .. Len(plan) /\ Left(plan, n)'
    BY <2>2, <2>3
  <2>6. \A r \in Regions : gateways'[r] = "stopped" =>
            \E i \in 1 .. n : plan[i].kind = "stop" /\ plan[i].region = r
    BY <2>4
  <2> HIDE DEF n
  <2> QED  BY <2>5, <2>6 DEF StopInv
<1>5. CASE Return
  <2>1. todo # <<>> /\ gateways' = gateways /\ (todo' = todo \/ todo' = Tail(todo))
    BY <1>5 DEF Return, RunInv, Running
  <2> QED  BY <1>3, <1>4, <2>1
<1>6. CASE DockerCommand
  <2>1. todo # <<>> /\ todo' = Tail(todo)
    BY <1>6 DEF DockerCommand
  <2>2. \A r \in Regions : gateways'[r] = "stopped" =>
            gateways[r] = "stopped" \/ (Step.kind = "stop" /\ Step.region = r)
    <3>1. gateways \in [Regions -> {"up", "down", "stopped"}]
      BY DEF TypeOK
    <3> QED  BY <1>6, <3>1 DEF DockerCommand
  <2> QED  BY <1>4, <2>1, <2>2
<1>7. CASE ~Return /\ ~DockerCommand
  <2>1. UNCHANGED <<todo, gateways>>
    BY <1>7 DEF Next, Scenario, TaskStep, Begin, Spawn, Wake, EndLoop, Finish, Start, Connect, Fail,
                Answer, Elapse, Interrupt, Ended, vars, loopVars
  <2> QED  BY <1>3, <2>1
<1> QED  BY <1>5, <1>6, <1>7

\* No request is under way to a gateway that the scenario itself has stopped, whichever of
\* the scenarios is run, with whatever parameters.
THEOREM NoneIsStranded ==
    ASSUME \A plan \in Plans : IsScenario(plan)
    PROVE  Spec => []NoneStranded
<1>1. TypeOK /\ RunnerInv /\ StopInv => NoneStranded
  <2> SUFFICES ASSUME TypeOK, RunInv, StopInv, NEW j \in UnderWay, gateways[tasks[j].region] = "stopped"
               PROVE  FALSE
    BY DEF RunnerInv, NoneStranded
  <2>1. Running
    BY NoneLeft DEF RunInv
  <2>2. todo # <<>> /\ Step \in Phases /\ tasks[j].region \in Step.targets
    BY <2>1 DEF RunInv
  <2>3. PICK plan \in Plans : \E k \in 0 .. Len(plan) :
          /\ Left(plan, k)
          /\ \A r \in Regions : gateways[r] = "stopped" =>
                \E i \in 1 .. k : plan[i].kind = "stop" /\ plan[i].region = r
    BY DEF StopInv
  <2> PICK k \in 0 .. Len(plan) :
          /\ Left(plan, k)
          /\ \A r \in Regions : gateways[r] = "stopped" =>
                \E i \in 1 .. k : plan[i].kind = "stop" /\ plan[i].region = r
    BY <2>3
  <2>4. k + 1 \in 1 .. Len(plan) /\ Step = plan[k + 1] /\ Len(plan) \in Nat
    BY <2>2, StepLeft, ScenariosAssumption
  <2>5. Step.targets \subseteq Regions /\ Step.kind \in {"load", "diurnal"}
    BY <2>2 DEF Phases
  <2>6. PICK i \in 1 .. k : plan[i].kind = "stop" /\ plan[i].region = tasks[j].region
    BY <2>2, <2>5
  <2>7. i \in 1 .. Len(plan) /\ i < k + 1
    BY <2>4
  <2>8. plan[i].region \notin plan[k + 1].targets
    BY <2>4, <2>5, <2>6, <2>7, ScenarioSpares DEF Spares
  <2> QED  BY <2>2, <2>4, <2>6, <2>8
<1>2. RunnerInv => RunInv
  BY DEF RunnerInv
<1> QED  BY <1>1, <1>2, Invariance, StopInit, StopStep, PTL DEF Spec

=============================================================================
