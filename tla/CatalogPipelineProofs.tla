----------------------- MODULE CatalogPipelineProofs -----------------------
(***************************************************************************)
(* Theorems about CatalogPipeline, for any input, any number of tasks at a *)
(* time and any faults: the bound on the tasks, the rows of the database,  *)
(* and that no item is lost before the pipeline is stopped.                *)
(***************************************************************************)
EXTENDS CatalogPipeline, FiniteSetTheorems, SequenceTheorems, TLAPS

-----------------------------------------------------------------------------
(* Lemmas about ids, batches and the room for tasks *)

LEMMA MinOfTwo ==
  ASSUME NEW a \in Int, NEW b \in Int
  PROVE  Min({a, b}) \in {a, b} /\ Min({a, b}) <= a /\ Min({a, b}) <= b
<1>1. \E x \in {a, b} : \A y \in {a, b} : x <= y
  <2>1. CASE a <= b
    BY <2>1
  <2>2. CASE ~(a <= b)
    BY <2>2
  <2> QED BY <2>1, <2>2
<1> QED BY <1>1 DEF Min

LEMMA BlockFacts ==
  /\ \A i \in Items : \A k \in 1..NumSplits[i] : <<i, k>> \in Blocks
  /\ \A b \in Blocks : b[1] \in Items /\ b[2] \in 1..NumSplits[b[1]] /\ b = <<b[1], b[2]>>
BY DEF Blocks

LEMMA TaskIdsType ==
  /\ Cardinality(Items) \in Nat
  /\ TaskIds = 1..Cardinality(Items) /\ IsFiniteSet(TaskIds) /\ TaskIds \subseteq Nat
<1>1. Cardinality(Items) \in Nat
  BY FS_CardinalityType, PipelineAssumption
<1>2. IsFiniteSet(1..Cardinality(Items))
  BY <1>1, FS_Interval
<1> QED BY <1>1, <1>2 DEF TaskIds

LEMMA NextIdType == NextId \in Nat \ {0}
<1> DEFINE U == {t \in TaskIds : stats[t] # "none"}
<1>1. IsFiniteSet(U)
  BY TaskIdsType, FS_Subset
<1>2. Cardinality(U) \in Nat
  BY <1>1, FS_CardinalityType
<1> QED BY <1>2 DEF NextId

LEMMA NewOnesType ==
  ASSUME NEW batch \in Seq(Items), NEW new \in NewOnes(batch)
  PROVE  /\ new \in Seq(Items) /\ Len(batch) - Len(new) \in Nat
<1>1. PICK n \in 0..Len(batch) :
        \E place \in [1..n -> DOMAIN batch] : new = [j \in DOMAIN place |-> batch[place[j]]]
  BY DEF NewOnes
<1>7. PICK place \in [1..n -> DOMAIN batch] : new = [j \in DOMAIN place |-> batch[place[j]]]
  BY <1>1
<1>2. Len(batch) \in Nat /\ n \in Nat /\ n <= Len(batch)
  BY <1>1, LenProperties
<1>3. new = [j \in 1..n |-> batch[place[j]]]
  BY <1>7
<1>4. \A j \in 1..n : batch[place[j]] \in Items
  BY <1>1, ElementOfSeq
<1>5. new \in [1..n -> Items]
  BY <1>3, <1>4
<1>6. new \in Seq(Items) /\ Len(new) = n
  BY <1>2, <1>5, SeqDef, LenProperties
<1> QED BY <1>2, <1>6

LEMMA StartableType ==
  ASSUME pending \in Seq(Items), IsFiniteSet(results_refs)
  PROVE  /\ Startable \in 0..Len(pending)
         /\ Startable = 0 \/ Cardinality(results_refs) + Startable <= MaxExecutingTasks
<1> DEFINE room == MaxExecutingTasks - Cardinality(results_refs)
<1>1. Cardinality(results_refs) \in Nat /\ Len(pending) \in Nat /\ MaxExecutingTasks \in Nat
  BY FS_CardinalityType, LenProperties, PipelineAssumption
<1>2. room \in Int
  BY <1>1
<1>3. Startable = IF is_running /\ Cardinality(results_refs) < MaxExecutingTasks
                  THEN Min({Len(pending), room}) ELSE 0
  BY DEF Startable
<1> DEFINE m == Min({Len(pending), room})
<1>4. m \in {Len(pending), room} /\ m <= Len(pending) /\ m <= room
  <2> DEFINE len == Len(pending)
  <2>1. len \in Int
    BY <1>1
  <2> HIDE DEF len, room
  <2>2. Min({len, room}) \in {len, room} /\ Min({len, room}) <= len /\ Min({len, room}) <= room
    BY <1>2, <2>1, MinOfTwo
  <2> QED BY <2>2 DEF len
<1>5. \/ Startable = 0
      \/ Cardinality(results_refs) < MaxExecutingTasks /\ Startable = m
  BY <1>3
<1> HIDE DEF m
<1> QED BY <1>1, <1>4, <1>5

(* What AddTasks starts are the next ids, each for one of the first        *)
(* pending items.                                                          *)
LEMMA StartedType ==
  ASSUME pending \in Seq(Items), NEW n \in 0..Len(pending), NEW first \in Nat
  PROVE  /\ IsFiniteSet(NextIds(first, n)) /\ Cardinality(NextIds(first, n)) = n
         /\ NextIds(first, n) \subseteq Nat
         /\ \A t \in NextIds(first, n) : pending[t - first + 1] \in Items
         /\ SubSeq(pending, n + 1, Len(pending)) \in Seq(Items)
<1>1. Len(pending) \in Nat /\ n \in Nat /\ n <= Len(pending)
  BY LenProperties
<1>2. NextIds(first, n) = first..(first + n - 1)
  BY DEF NextIds
<1>3. /\ IsFiniteSet(first..(first + n - 1)) /\ Cardinality(first..(first + n - 1)) = n
  <2> DEFINE last == first + n - 1
  <2>1. last \in Int /\ last = first + n - 1
    BY <1>1
  <2> HIDE DEF last
  <2>2. IsFiniteSet(first..last)
        /\ Cardinality(first..last) = IF first > last THEN 0 ELSE last - first + 1
    BY <2>1, FS_Interval
  <2>3. (first > last => n = 0) /\ (~(first > last) => last - first + 1 = n)
    BY <1>1, <2>1
  <2>4. Cardinality(first..last) = n
    BY <2>2, <2>3
  <2> QED BY <2>2, <2>4 DEF last
<1>4. \A t \in first..(first + n - 1) : t \in Nat /\ t - first + 1 \in 1..Len(pending)
  BY <1>1
<1>5. \A i \in 1..Len(pending) : pending[i] \in Items
  BY ElementOfSeq
<1>6. SubSeq(pending, n + 1, Len(pending)) \in Seq(Items)
  BY <1>1, <1>5, SubSeqProperties
<1> QED BY <1>2, <1>3, <1>4, <1>5, <1>6

-----------------------------------------------------------------------------
(* Type correctness.  A task that runs has an item.                        *)

TypeInv ==
  /\ TypeOK
  /\ \A t \in TaskIds : stage[t] # "none" => task[t] \in Items

LEMMA InitType == Init => TypeInv
<1> SUFFICES ASSUME Init PROVE TypeInv
  OBVIOUS
<1>1. <<>> \in Seq(Items) /\ <<>> \in Seq(Seq(Items))
  BY EmptySeq
<1>2. Len(Input) \in Nat
  BY PipelineAssumption, LenProperties
<1> QED BY <1>1, <1>2, PipelineAssumption DEF Init, Fresh, TypeInv, TypeOK, Statuses, Stages, Waiters

LEMMA RunnerType ==
  ASSUME TypeInv, RunnerStep \/ Poll
  PROVE  TypeInv'
<1>1. /\ UNCHANGED <<is_running, stats, results_refs, schedVars, awaited, taskVars, reports, rows,
                     storeVars, faultVars>>
  BY DEF RunnerStep, PipeInput, CallWaitToFinish, RunnerReturns, Poll, waitVars, queueVars
<1>2. /\ runner' \in {"piping", "finishing", "ended"} /\ poller' \in {"polling", "ended", "dead"}
      /\ waiter' \in [Waiters -> {"idle", "queue", "await", "blocked", "ended"}]
  BY DEF RunnerStep, PipeInput, CallWaitToFinish, RunnerReturns, Poll, waitVars, runnerVars, TypeInv,
         TypeOK
<1>3. piped' \in 0..Len(Input) /\ input_queue' \in Seq(Seq(Items))
  <2>1. CASE PipeInput
    <3>1. Len(Input) \in Nat /\ piped' \in 1..Len(Input)
      BY <2>1, PipelineAssumption, LenProperties DEF PipeInput, TypeInv, TypeOK
    <3>2. Input[piped'] \in Seq(Items)
      BY <3>1, PipelineAssumption, ElementOfSeq
    <3> QED BY <2>1, <3>1, <3>2, AppendProperties DEF PipeInput, TypeInv, TypeOK
  <2>2. CASE UNCHANGED <<piped, input_queue>>
    BY <2>2 DEF TypeInv, TypeOK
  <2> QED BY <2>1, <2>2 DEF RunnerStep, CallWaitToFinish, RunnerReturns, Poll, queueVars
<1> QED BY <1>1, <1>2, <1>3 DEF TypeInv, TypeOK, schedVars, taskVars, storeVars, faultVars

LEMMA AddTasksType ==
  ASSUME TypeInv, NEW done \in Nat, NEW n \in 0..Len(pending), AddTasks(done, n)
  PROVE  /\ stats' \in [TaskIds -> Statuses] /\ task' \in [TaskIds -> Items \cup {None}]
         /\ stage' \in [TaskIds -> Stages] /\ results_refs' \subseteq Nat
         /\ pending' \in Seq(Items)
         /\ \A t \in TaskIds : stage'[t] # "none" => task'[t] \in Items
<1> DEFINE first == NextId + done
<1>1. first \in Nat
  BY NextIdType
<1>2. /\ NextIds(first, n) \subseteq Nat
      /\ \A t \in NextIds(first, n) : pending[t - first + 1] \in Items
      /\ SubSeq(pending, n + 1, Len(pending)) \in Seq(Items)
  <2> HIDE DEF first
  <2> QED BY <1>1, StartedType DEF TypeInv, TypeOK
<1>3. /\ task'  = [t \in TaskIds |-> IF t \in NextIds(first, n) THEN pending[t - first + 1] ELSE task[t]]
      /\ stage' = [t \in TaskIds |-> IF t \in NextIds(first, n) THEN "load" ELSE stage[t]]
      /\ results_refs' = results_refs \cup NextIds(first, n)
      /\ pending' = SubSeq(pending, n + 1, Len(pending))
  BY DEF AddTasks
<1>4. stats' \in [TaskIds -> Statuses]
  BY DEF AddTasks, TypeInv, TypeOK, Statuses
<1> HIDE DEF first
<1> QED BY <1>2, <1>3, <1>4 DEF TypeInv, TypeOK, Stages

LEMMA SchedulerType ==
  ASSUME TypeInv, IsFiniteSet(results_refs), SchedulerStep \/ SchedulerRaises
  PROVE  TypeInv'
<1>1. /\ UNCHANGED <<runnerVars, is_running, waitVars, made, storing, reports, rows, storeVars, late,
                     runs>>
      /\ faults' \in 0..MaxFaults
  BY PipelineAssumption
  DEF SchedulerStep, SchedulerRaises, TakeBatch, FilterBatch, ScheduleTasks, Fault, queueVars, taskVars,
      faultVars, TypeInv, TypeOK
<1>2. /\ scheduler' \in {"poll", "filter", "metadata", "throttle", "ended", "dead"}
  BY DEF SchedulerStep, SchedulerRaises, TakeBatch, FilterBatch, ScheduleTasks, TypeInv, TypeOK
<1>3. /\ input_queue' \in Seq(Seq(Items)) /\ pending' \in Seq(Items) /\ old' \in Nat
      /\ stats' \in [TaskIds -> Statuses] /\ results_refs' \subseteq Nat
      /\ task' \in [TaskIds -> Items \cup {None}] /\ stage' \in [TaskIds -> Stages]
      /\ \A t \in TaskIds : stage'[t] # "none" => task'[t] \in Items
  <2>1. CASE TakeBatch
    <3>1. input_queue # <<>> => Head(input_queue) \in Seq(Items) /\ Tail(input_queue) \in Seq(Seq(Items))
      BY HeadTailProperties DEF TypeInv, TypeOK
    <3> QED BY <2>1, <3>1 DEF TakeBatch, TypeInv, TypeOK, taskVars
  <2>2. CASE FilterBatch
    <3>1. pending' \in Seq(Items) /\ Len(pending) - Len(pending') \in Nat
      BY <2>2, NewOnesType DEF FilterBatch, TypeInv, TypeOK
    <3>2. old' \in Nat /\ stats' \in [TaskIds -> Statuses]
      BY <2>2, <3>1 DEF FilterBatch, TypeInv, TypeOK, Statuses
    <3> QED BY <2>2, <3>1, <3>2 DEF FilterBatch, TypeInv, TypeOK, taskVars, queueVars
  <2>3. CASE ScheduleTasks
    <3>1. Startable \in 0..Len(pending)
      BY StartableType DEF TypeInv, TypeOK
    <3>2. \E done \in Nat : AddTasks(done, Startable)
      BY <2>3 DEF ScheduleTasks, TypeInv, TypeOK
    <3>3. UNCHANGED input_queue /\ old' = 0
      BY <2>3 DEF ScheduleTasks, queueVars
    <3> QED BY <3>1, <3>2, <3>3, AddTasksType DEF TypeInv, TypeOK
  <2>4. CASE SchedulerRaises
    BY <2>4 DEF SchedulerRaises, TypeInv, TypeOK, taskVars, queueVars
  <2> QED BY <2>1, <2>2, <2>3, <2>4 DEF SchedulerStep
<1> QED BY <1>1, <1>2, <1>3 DEF TypeInv, TypeOK, runnerVars, waitVars, storeVars

LEMMA WaiterType ==
  ASSUME TypeInv, NEW w \in Waiters, WaiterStep(w)
  PROVE  TypeInv'
<1>1. /\ UNCHANGED <<runnerVars, input_queue, stats, schedVars, taskVars, reports, rows, storeVars,
                     faultVars>>
      /\ is_running' \in BOOLEAN
  BY DEF WaiterStep, ProcessResults, StopPipeline, ProcessOne, Unblock, queueVars, TypeInv, TypeOK
<1>2. results_refs' \subseteq results_refs
  BY DEF WaiterStep, ProcessResults, StopPipeline, ProcessOne, Unblock, TakeResult
<1>3. ASSUME NEW v \in Waiters, NEW refs \in SUBSET Nat, Await(v, refs)
      PROVE  /\ waiter' \in [Waiters -> {"idle", "queue", "await", "blocked", "ended"}]
             /\ awaited' \in [Waiters -> SUBSET Nat]
  BY <1>3 DEF Await, TypeInv, TypeOK
<1>4. /\ waiter' \in [Waiters -> {"idle", "queue", "await", "blocked", "ended"}]
      /\ awaited' \in [Waiters -> SUBSET Nat]
  <2>1. results_refs \subseteq Nat /\ results_refs' \subseteq Nat
    BY <1>2 DEF TypeInv, TypeOK
  <2>2. CASE \/ \E refs \in SUBSET Nat : Await(w, refs)
             \/ \E refs \in SUBSET Nat : Await("process", refs)
             \/ \E refs \in SUBSET Nat : Await("finish", refs)
    BY <1>3, <2>2 DEF Waiters
  <2>3. CASE waiter' = [waiter EXCEPT ![w] = "blocked"] /\ UNCHANGED awaited
    BY <2>3 DEF TypeInv, TypeOK
  <2>4. TakeResult(w) => \E refs \in SUBSET Nat : Await(w, refs)
    BY <2>1 DEF TakeResult
  <2>5. CASE ProcessResults \/ StopPipeline
    BY <2>1, <2>2, <2>5 DEF ProcessResults, StopPipeline
  <2>6. CASE ProcessOne(w)
    <3>1. CASE TakeResult(w)
      BY <2>2, <2>4, <3>1
    <3>2. CASE Await(w, {})
      BY <1>3, <3>2
    <3> QED BY <2>3, <2>6, <3>1, <3>2 DEF ProcessOne
  <2>7. CASE Unblock(w)
    BY <2>2, <2>4, <2>7 DEF Unblock
  <2> QED BY <2>5, <2>6, <2>7 DEF WaiterStep
<1> QED BY <1>1, <1>2, <1>4 DEF TypeInv, TypeOK, runnerVars, schedVars, taskVars, storeVars, faultVars

LEMMA TaskType ==
  ASSUME TypeInv, NEW t \in TaskIds, TaskStep(t) \/ UpdateStats(t) \/ RestartTask(t)
  PROVE  TypeInv'
<1>1. UNCHANGED <<runnerVars, queueVars, results_refs, schedVars, waitVars, task, late, runs>>
  BY DEF TaskStep, UpdateStats, RestartTask, LoadFile, Split, StoreBlock, SendRows, WriteRows,
         ReturnResult, TaskRaises, OnlyTasks, taskVars, faultVars
<1>2. faults' \in 0..MaxFaults
  <2>1. Fault \/ UNCHANGED faults
    BY DEF TaskStep, UpdateStats, RestartTask, LoadFile, Split, StoreBlock, SendRows, WriteRows,
           ReturnResult, TaskRaises, faultVars
  <2> QED BY <2>1, PipelineAssumption DEF Fault, TypeInv, TypeOK
<1>3. /\ stats' \in [TaskIds -> Statuses] /\ reports' \subseteq TaskIds
      /\ stage' \in [TaskIds -> Stages]
      /\ \A u \in TaskIds : stage'[u] # "none" => stage[u] # "none"
  BY DEF TaskStep, UpdateStats, RestartTask, LoadFile, Split, StoreBlock, SendRows, WriteRows,
         ReturnResult, TaskRaises, OnlyTasks, taskVars, Executing, TypeInv, TypeOK, Stages, Statuses
<1>4. /\ made' \in [TaskIds -> Nat] /\ storing' \in [TaskIds -> SUBSET Blocks]
      /\ files' \subseteq Blocks /\ unstored' \subseteq Blocks
  <2>1. CASE Split(t)
    <3>1. task[t] \in Items /\ made[t] \in Nat /\ NumSplits[task[t]] \in Nat
      BY <2>1, PipelineAssumption DEF Split, TypeInv, TypeOK
    <3>2. made[t] + 1 \in 1..NumSplits[task[t]]
      BY <2>1, <3>1 DEF Split
    <3>3. <<task[t], made[t] + 1>> \in Blocks
      BY <3>1, <3>2, BlockFacts
    <3> DEFINE b == <<task[t], made[t] + 1>>
    <3>4. /\ made' = [made EXCEPT ![t] = made[t] + 1]
          /\ storing' = [storing EXCEPT ![t] = storing[t] \cup {b}]
      BY <2>1 DEF Split
    <3>5. made[t] + 1 \in Nat /\ b \in Blocks
      BY <3>1, <3>3
    <3> HIDE DEF b
    <3>6. storing[t] \cup {b} \in SUBSET Blocks
      BY <3>5 DEF TypeInv, TypeOK
    <3>7. made' \in [TaskIds -> Nat]
      BY <3>4, <3>5 DEF TypeInv, TypeOK
    <3>8. storing' \in [TaskIds -> SUBSET Blocks]
      BY <3>4, <3>6 DEF TypeInv, TypeOK
    <3> QED BY <2>1, <3>7, <3>8 DEF Split, storeVars, TypeInv, TypeOK
  <2>2. CASE StoreBlock(t)
    BY <2>2 DEF StoreBlock, TypeInv, TypeOK
  <2>3. CASE RestartTask(t)
    BY <2>3 DEF RestartTask, storeVars, TypeInv, TypeOK
  <2>4. CASE UNCHANGED <<made, storing, files, unstored>>
    BY <2>4 DEF TypeInv, TypeOK
  <2> QED BY <2>1, <2>2, <2>3, <2>4 DEF TaskStep, UpdateStats, LoadFile, SendRows, WriteRows,
          ReturnResult, TaskRaises, taskVars, storeVars
<1>5. rows' \in [Blocks -> Nat]
  <2>1. UNCHANGED rows \/ rows' = Recorded(task[t])
    BY DEF TaskStep, UpdateStats, RestartTask, LoadFile, Split, StoreBlock, SendRows, WriteRows,
           ReturnResult, TaskRaises
  <2>2. \A b \in Blocks : rows[b] + 1 \in Nat
    BY DEF TypeInv, TypeOK
  <2>3. Recorded(task[t]) \in [Blocks -> Nat]
    BY <2>2 DEF Recorded, TypeInv, TypeOK
  <2> QED BY <2>1, <2>3 DEF TypeInv, TypeOK
<1> QED BY <1>1, <1>2, <1>3, <1>4, <1>5 DEF TypeInv, TypeOK, runnerVars, queueVars, schedVars, waitVars

LEMMA RestType ==
  ASSUME TypeInv, RunnerDies \/ WriteLate \/ RunAgain
  PROVE  TypeInv'
<1>1. CASE RunnerDies
  <2>1. late' \subseteq Items
    BY <1>1 DEF RunnerDies, TypeInv, TypeOK
  <2>2. faults' \in 0..MaxFaults
    BY <1>1, PipelineAssumption DEF RunnerDies, Fault, TypeInv, TypeOK
  <2> QED BY <1>1, <2>1, <2>2 DEF RunnerDies, Fresh, TypeInv, TypeOK, queueVars, schedVars, storeVars,
                                  Stages
<1>2. CASE WriteLate
  <2>1. rows' \in [Blocks -> Nat] /\ late' \subseteq Items
    BY <1>2 DEF WriteLate, Recorded, TypeInv, TypeOK
  <2> QED BY <1>2, <2>1 DEF WriteLate, TypeInv, TypeOK, runnerVars, queueVars, schedVars, waitVars,
                            taskVars, storeVars
<1>3. CASE RunAgain
  <2>1. <<>> \in Seq(Items) /\ <<>> \in Seq(Seq(Items)) /\ Len(Input) \in Nat
    BY EmptySeq, PipelineAssumption, LenProperties
  <2>2. runs' \in 1..MaxRuns
    BY <1>3, PipelineAssumption DEF RunAgain, TypeInv, TypeOK
  <2> QED BY <1>3, <2>1, <2>2 DEF RunAgain, Fresh, TypeInv, TypeOK, storeVars, Statuses, Stages, Waiters
<1> QED BY <1>1, <1>2, <1>3

LEMMA StepType ==
  ASSUME TypeInv, IsFiniteSet(results_refs), [Next]_vars
  PROVE  TypeInv'
<1>1. CASE UNCHANGED vars
  BY <1>1 DEF vars, TypeInv, TypeOK, runnerVars, queueVars, schedVars, waitVars, taskVars, storeVars,
              faultVars
<1> QED BY <1>1, RunnerType, SchedulerType, WaiterType, TaskType, RestType DEF Next

-----------------------------------------------------------------------------
(* The bound on the tasks.  Every id that is added to results_refs has its *)
(* own room, and only what has finished leaves it.                         *)

BoundInv ==
  /\ IsFiniteSet(results_refs) /\ Cardinality(results_refs) <= MaxExecutingTasks
  /\ Executing \subseteq results_refs

LEMMA StartBound ==
  ASSUME TypeInv, BoundInv, NEW done \in Nat, AddTasks(done, Startable)
  PROVE  BoundInv'
<1> DEFINE started == NextIds(NextId + done, Startable)
<1>1. /\ Startable \in 0..Len(pending)
      /\ Startable = 0 \/ Cardinality(results_refs) + Startable <= MaxExecutingTasks
  BY StartableType DEF TypeInv, TypeOK, BoundInv
<1>2. IsFiniteSet(started) /\ Cardinality(started) = Startable
  <2>1. NextId + done \in Nat
    BY NextIdType
  <2> QED BY <1>1, <2>1, StartedType DEF TypeInv, TypeOK
<1>3. /\ results_refs' = results_refs \cup started
      /\ \A t \in TaskIds : t \notin started => stage'[t] = stage[t]
  BY DEF AddTasks
<1>4. /\ IsFiniteSet(results_refs \cup started)
      /\ Cardinality(results_refs \cup started) <= MaxExecutingTasks
  <2> HIDE DEF started
  <2>1. /\ IsFiniteSet(results_refs \cup started) /\ IsFiniteSet(results_refs \cap started)
        /\ Cardinality(results_refs \cup started)
             = Cardinality(results_refs) + Cardinality(started) - Cardinality(results_refs \cap started)
    BY <1>2, FS_Union, FS_Intersection DEF BoundInv
  <2>2. /\ Cardinality(results_refs) \in Nat /\ Cardinality(started) \in Nat
        /\ Cardinality(results_refs \cap started) \in Nat
    BY <1>2, <2>1, FS_CardinalityType DEF BoundInv
  <2> QED BY <1>1, <1>2, <2>1, <2>2, PipelineAssumption DEF BoundInv
<1>5. Executing' \subseteq results_refs'
  BY <1>3 DEF BoundInv, Executing
<1> QED BY <1>3, <1>4, <1>5 DEF BoundInv

LEMMA StepBound ==
  ASSUME TypeInv, BoundInv, [Next]_vars
  PROVE  BoundInv'
<1>1. ASSUME UNCHANGED results_refs, Executing' \subseteq Executing
      PROVE  BoundInv'
  BY <1>1 DEF BoundInv
<1>2. CASE RunnerStep \/ Poll \/ UNCHANGED vars \/ WriteLate
  BY <1>1, <1>2 DEF RunnerStep, PipeInput, CallWaitToFinish, RunnerReturns, Poll, WriteLate, vars,
                    taskVars, Executing
<1>3. CASE SchedulerStep \/ SchedulerRaises
  <2>1. CASE ScheduleTasks
    <3>1. \E done \in Nat : AddTasks(done, Startable)
      BY <2>1 DEF ScheduleTasks, TypeInv, TypeOK
    <3> QED BY <3>1, StartBound
  <2>2. CASE TakeBatch \/ FilterBatch \/ SchedulerRaises
    BY <1>1, <2>2 DEF TakeBatch, FilterBatch, SchedulerRaises, taskVars, Executing
  <2> QED BY <1>3, <2>1, <2>2 DEF SchedulerStep
<1>4. ASSUME NEW w \in Waiters, WaiterStep(w)
      PROVE  BoundInv'
  <2>1. Executing' = Executing
    BY <1>4 DEF WaiterStep, ProcessResults, StopPipeline, ProcessOne, Unblock, taskVars, Executing
  <2>2. \/ UNCHANGED results_refs
        \/ \E t \in results_refs : Finished(t) /\ results_refs' = results_refs \ {t}
    BY <1>4 DEF WaiterStep, ProcessResults, StopPipeline, ProcessOne, Unblock, TakeResult
  <2>3. ASSUME NEW t \in results_refs, Finished(t), results_refs' = results_refs \ {t}
        PROVE  BoundInv'
    <3>1. t \notin Executing
      BY <2>3 DEF Finished, Executing
    <3>2. /\ IsFiniteSet(results_refs \ {t})
          /\ Cardinality(results_refs \ {t}) = Cardinality(results_refs) - 1
      BY FS_RemoveElement DEF BoundInv
    <3>3. Cardinality(results_refs) \in Nat
      BY FS_CardinalityType DEF BoundInv
    <3> QED BY <2>1, <2>3, <3>1, <3>2, <3>3, PipelineAssumption DEF BoundInv
  <2> QED BY <1>1, <2>1, <2>2, <2>3
<1>5. ASSUME NEW t \in TaskIds, TaskStep(t) \/ UpdateStats(t) \/ RestartTask(t)
      PROVE  BoundInv'
  <2>1. UNCHANGED results_refs
    BY <1>5 DEF TaskStep, UpdateStats, RestartTask, LoadFile, Split, StoreBlock, SendRows, WriteRows,
                ReturnResult, TaskRaises, OnlyTasks
  <2>2. \/ UNCHANGED stage
        \/ /\ t \in Executing
           /\ \A u \in TaskIds : u # t => stage'[u] = stage[u]
    BY <1>5 DEF TaskStep, UpdateStats, RestartTask, LoadFile, Split, StoreBlock, SendRows, WriteRows,
                ReturnResult, TaskRaises, taskVars, Executing, TypeInv, TypeOK
  <2> QED BY <1>1, <2>1, <2>2 DEF Executing
<1>6. CASE RunnerDies \/ RunAgain
  <2>1. results_refs' = {} /\ Executing' = {}
    BY <1>6 DEF RunnerDies, RunAgain, Fresh, Executing
  <2> QED BY <2>1, FS_EmptySet, PipelineAssumption DEF BoundInv
<1> QED BY <1>2, <1>3, <1>4, <1>5, <1>6 DEF Next

LEMMA InitBound == Init => BoundInv
<1> SUFFICES ASSUME Init PROVE BoundInv
  OBVIOUS
<1>1. results_refs = {} /\ Executing = {}
  BY DEF Init, Fresh, Executing
<1> QED BY <1>1, FS_EmptySet, PipelineAssumption DEF BoundInv

LEMMA TypeAndBound == Spec => [](TypeInv /\ BoundInv)
<1>1. Init => TypeInv /\ BoundInv
  BY InitType, InitBound
<1>2. TypeInv /\ BoundInv /\ [Next]_vars => (TypeInv /\ BoundInv)'
  BY StepType, StepBound DEF BoundInv
<1> QED BY <1>1, <1>2, PTL DEF Spec

(* The variables keep their types, whatever is ingested and whatever fails *)
(* (pipeline.py:107-252).                                                  *)
THEOREM TypeCorrect == Spec => []TypeOK
<1>1. TypeInv => TypeOK
  BY DEF TypeInv
<1> QED BY <1>1, TypeAndBound, PTL

(* At most max_executing_tasks tasks execute, and the actor waits for each *)
(* of them (pipeline.py:157-196).                                          *)
THEOREM NeverTooMany == Spec => []ExecutingBounded
<1>1. BoundInv => ExecutingBounded
  <2> SUFFICES ASSUME BoundInv PROVE ExecutingBounded
    OBVIOUS
  <2>1. IsFiniteSet(Executing) /\ Cardinality(Executing) <= Cardinality(results_refs)
    BY FS_Subset DEF BoundInv
  <2>2. Cardinality(Executing) \in Nat /\ Cardinality(results_refs) \in Nat
    BY <2>1, FS_CardinalityType DEF BoundInv
  <2> QED BY <2>1, <2>2, PipelineAssumption DEF BoundInv, ExecutingBounded
<1> QED BY <1>1, TypeAndBound, PTL

-----------------------------------------------------------------------------
(* The rows.  That a row follows its files is an argument about one task   *)
(* from its first block to its rows; it needs that a task starts with no   *)
(* block made, so that an id is given once: the ids in the stats are an    *)
(* initial part of all.                                                    *)

Kept == files \cup unstored

FirstIds == \E m \in 0..Cardinality(Items) : \A t \in TaskIds : stats[t] # "none" <=> t <= m

IdsInv ==
  /\ FirstIds
  /\ \A t \in TaskIds : stats[t] = "none" => stage[t] = "none" /\ made[t] = 0
  /\ \A t \in reports : stats[t] # "none"

TaskFiles(t) ==
  /\ stage[t] = "load" => made[t] = 0
  /\ stage[t] = "split" =>
       \A b \in BlocksOf(task[t]) : b[2] <= made[t] => b \in Kept \cup storing[t]
  /\ stage[t] = "write" => BlocksOf(task[t]) \subseteq Kept

FilesInv ==
  /\ RowsHaveFiles
  /\ \A i \in late : BlocksOf(i) \subseteq Kept
  /\ \A t \in TaskIds : TaskFiles(t)

RowInv == TypeInv /\ BoundInv /\ IdsInv /\ FilesInv /\ RowsUnique

(* The next id comes after those that are taken.                           *)
LEMMA NextIdIs ==
  ASSUME NEW m \in 0..Cardinality(Items), \A t \in TaskIds : stats[t] # "none" <=> t <= m
  PROVE  NextId = m + 1
<1>1. Cardinality(Items) \in Nat /\ m \in Nat /\ TaskIds = 1..Cardinality(Items)
  BY TaskIdsType
<1>2. {t \in TaskIds : stats[t] # "none"} = 1..m
  BY <1>1
<1>3. Cardinality(1..m) = m
  BY <1>1, FS_Interval
<1> QED BY <1>2, <1>3 DEF NextId

LEMMA NextAreFree ==
  ASSUME FirstIds, NEW k \in Nat, NEW n \in Nat, NEW t \in TaskIds, t \in NextIds(NextId + k, n)
  PROVE  stats[t] = "none"
<1>1. PICK m \in 0..Cardinality(Items) : \A u \in TaskIds : stats[u] # "none" <=> u <= m
  BY DEF FirstIds
<1>2. NextId = m + 1
  BY <1>1, NextIdIs
<1>3. m \in Nat /\ t \in Nat /\ ~(t <= m)
  BY <1>2, TaskIdsType DEF NextIds
<1> QED BY <1>1, <1>3

LEMMA IdsGrow ==
  ASSUME FirstIds, NEW n \in Nat,
         \A t \in TaskIds : stats'[t] # "none" <=> stats[t] # "none" \/ t \in NextIds(NextId, n)
  PROVE  FirstIds'
<1>1. PICK m \in 0..Cardinality(Items) : \A u \in TaskIds : stats[u] # "none" <=> u <= m
  BY DEF FirstIds
<1>2. NextId = m + 1
  BY <1>1, NextIdIs
<1>3. Cardinality(Items) \in Nat /\ m \in Nat /\ TaskIds = 1..Cardinality(Items)
  BY TaskIdsType
<1>4. \A t \in TaskIds : t \in NextIds(NextId, n) <=> m < t /\ t <= m + n
  BY <1>2, <1>3 DEF NextIds
<1>5. \A t \in TaskIds : stats'[t] # "none" <=> t <= m + n
  BY <1>1, <1>3, <1>4
<1>6. CASE m + n <= Cardinality(Items)
  <2>1. m + n \in 0..Cardinality(Items)
    BY <1>3, <1>6
  <2> QED BY <1>5, <2>1 DEF FirstIds, TaskIds
<1>7. CASE ~(m + n <= Cardinality(Items))
  <2>1. \A t \in TaskIds : stats'[t] # "none" <=> t <= Cardinality(Items)
    BY <1>3, <1>5, <1>7
  <2>2. Cardinality(Items) \in 0..Cardinality(Items)
    BY <1>3
  <2> QED BY <2>1, <2>2 DEF FirstIds, TaskIds
<1> QED BY <1>6, <1>7

LEMMA InitRows == Init => IdsInv /\ FilesInv /\ RowsUnique
<1> SUFFICES ASSUME Init PROVE IdsInv /\ FilesInv /\ RowsUnique
  OBVIOUS
<1>1. Cardinality(Items) \in Nat /\ \A t \in TaskIds : t \in Nat /\ ~(t <= 0)
  BY TaskIdsType
<1>2. 0 \in 0..Cardinality(Items) /\ \A t \in TaskIds : stats[t] = "none"
  BY <1>1 DEF Init, Fresh
<1>3. IdsInv
  BY <1>1, <1>2 DEF Init, Fresh, IdsInv, FirstIds
<1> QED BY <1>3 DEF Init, Fresh, FilesInv, TaskFiles, RowsHaveFiles, RowsUnique

(* Steps of the runner, of those who wait, and of a batch that is filtered *)
(* leave the tasks and the rows alone.                                     *)
LEMMA FilesAlone ==
  ASSUME FilesInv, RowsUnique, UNCHANGED <<taskVars, rows, storeVars, late>>
  PROVE  FilesInv' /\ RowsUnique'
BY DEF taskVars, storeVars, FilesInv, TaskFiles, Kept, RowsHaveFiles, RowsUnique

LEMMA IdsAlone ==
  ASSUME IdsInv, UNCHANGED <<stats, stage, made, reports>>
  PROVE  IdsInv'
BY DEF IdsInv, FirstIds, TaskIds

LEMMA AddTasksRows ==
  ASSUME RowInv, NEW done \in Nat, AddTasks(done, Startable),
         UNCHANGED <<made, storing, reports, rows, storeVars, late>>
  PROVE  IdsInv' /\ FilesInv' /\ RowsUnique'
<1> DEFINE started == NextIds(NextId + done, Startable)
<1>1. Startable \in Nat
  <2>1. Startable \in 0..Len(pending) /\ Len(pending) \in Nat
    BY StartableType, LenProperties DEF RowInv, TypeInv, TypeOK, BoundInv
  <2> QED BY <2>1
<1>2. \A t \in TaskIds : t \in started => stats[t] = "none" /\ made[t] = 0
  BY <1>1, NextAreFree DEF RowInv, IdsInv
<1>3. \A t \in TaskIds :
        /\ t \in started => stage'[t] = "load"
        /\ t \notin started => stage'[t] = stage[t] /\ task'[t] = task[t]
  BY DEF AddTasks
<1>4. FilesInv' /\ RowsUnique'
  BY <1>2, <1>3 DEF RowInv, FilesInv, TaskFiles, Kept, RowsHaveFiles, RowsUnique, storeVars
<1>5. \A t \in TaskIds :
        stats'[t] # "none" <=> stats[t] # "none" \/ t \in NextIds(NextId, done + Startable)
  <2>1. \A t \in TaskIds :
          stats'[t] # "none" <=> stats[t] # "none" \/ t \in NextIds(NextId, done) \/ t \in started
    BY DEF AddTasks
  <2>2. \A t \in TaskIds :
          t \in NextIds(NextId, done + Startable) <=> t \in NextIds(NextId, done) \/ t \in started
    BY <1>1, NextIdType, TaskIdsType DEF NextIds
  <2> QED BY <2>1, <2>2
<1>6. FirstIds'
  <2>1. done + Startable \in Nat
    BY <1>1
  <2> HIDE DEF started
  <2> QED BY <1>5, <2>1, IdsGrow DEF RowInv, IdsInv
<1>7. \A t \in TaskIds : stats[t] # "none" \/ t \in started => stats'[t] # "none"
  BY DEF AddTasks
<1>8. /\ \A t \in TaskIds : stats'[t] = "none" => stage'[t] = "none" /\ made'[t] = 0
      /\ \A t \in reports' : stats'[t] # "none"
  BY <1>3, <1>7 DEF RowInv, IdsInv, TypeInv, TypeOK
<1> QED BY <1>4, <1>6, <1>8 DEF IdsInv

LEMMA SchedulerRows ==
  ASSUME RowInv, SchedulerStep \/ SchedulerRaises
  PROVE  IdsInv' /\ FilesInv' /\ RowsUnique'
<1>1. CASE TakeBatch \/ SchedulerRaises
  BY <1>1, FilesAlone, IdsAlone DEF TakeBatch, SchedulerRaises, RowInv, taskVars, faultVars
<1>2. CASE FilterBatch
  <2>1. FilesInv' /\ RowsUnique'
    BY <1>2, FilesAlone DEF FilterBatch, RowInv, faultVars
  <2>2. UNCHANGED <<stage, made, reports>>
    BY <1>2 DEF FilterBatch, taskVars
  <2>3. CASE UNCHANGED stats
    BY <2>1, <2>2, <2>3, IdsAlone DEF RowInv
  <2>4. CASE stats' # stats
    <3> DEFINE n == Len(pending) - Len(pending')
    <3>1. n \in Nat
      BY <1>2, NewOnesType DEF FilterBatch, RowInv, TypeInv, TypeOK
    <3>2. stats' = [t \in TaskIds |-> IF t \in NextIds(NextId, n) THEN "done" ELSE stats[t]]
      BY <1>2, <2>4 DEF FilterBatch
    <3> HIDE DEF n
    <3>3. \A t \in TaskIds : stats'[t] # "none" <=> stats[t] # "none" \/ t \in NextIds(NextId, n)
      BY <3>2
    <3>4. FirstIds'
      BY <3>1, <3>3, IdsGrow DEF RowInv, IdsInv
    <3> QED BY <2>1, <2>2, <3>3, <3>4 DEF RowInv, IdsInv, TypeInv, TypeOK
  <2> QED BY <2>3, <2>4
<1>3. CASE ScheduleTasks
  <2>1. UNCHANGED <<made, storing, reports, rows, storeVars, late>>
    BY <1>3 DEF ScheduleTasks, faultVars
  <2>2. \E done \in Nat : AddTasks(done, Startable)
    BY <1>3 DEF ScheduleTasks, RowInv, TypeInv, TypeOK
  <2> QED BY <2>1, <2>2, AddTasksRows
<1> QED BY <1>1, <1>2, <1>3 DEF SchedulerStep

(* Recording the rows of an item whose blocks are kept                     *)
LEMMA RecordedRows ==
  ASSUME RowInv, NEW i \in Items, BlocksOf(i) \subseteq Kept, rows' = Recorded(i), UNCHANGED storeVars
  PROVE  RowsHaveFiles' /\ RowsUnique'
<1>1. \A b \in Blocks : rows[b] \in Nat /\ rows[b] <= 1 /\ (rows[b] > 0 => b \in Kept)
  BY DEF RowInv, RowsUnique, FilesInv, RowsHaveFiles, Kept, TypeInv, TypeOK
<1>2. \A b \in Blocks : b \in BlocksOf(i) \ RowsOf(i) => rows[b] = 0 /\ b \in Kept
  BY <1>1 DEF RowsOf
<1>3. \A b \in Blocks : rows'[b] = IF b \in BlocksOf(i) \ RowsOf(i) THEN rows[b] + 1 ELSE rows[b]
  BY DEF Recorded
<1>4. \A b \in Blocks : rows'[b] <= 1 /\ (rows'[b] > 0 => b \in Kept)
  BY <1>1, <1>2, <1>3
<1> QED BY <1>4 DEF RowsHaveFiles, RowsUnique, Kept, storeVars

LEMMA TaskIdsKept ==
  ASSUME RowInv, NEW t \in TaskIds, TaskStep(t) \/ UpdateStats(t) \/ RestartTask(t)
  PROVE  IdsInv'
<1>1. CASE UpdateStats(t)
  <2>1. stats[t] # "none" /\ stats' = [stats EXCEPT ![t] = "done"]
    BY <1>1 DEF UpdateStats, RowInv, IdsInv
  <2>2. \A u \in TaskIds : stats'[u] = "none" <=> stats[u] = "none"
    BY <2>1 DEF RowInv, TypeInv, TypeOK
  <2>3. FirstIds'
    BY <2>2 DEF FirstIds, TaskIds, RowInv, IdsInv
  <2> QED BY <1>1, <2>2, <2>3 DEF UpdateStats, taskVars, RowInv, IdsInv, TypeInv, TypeOK
<1>2. CASE TaskStep(t) \/ RestartTask(t)
  <2>1. UNCHANGED stats
    BY <1>2 DEF TaskStep, RestartTask, LoadFile, Split, StoreBlock, SendRows, WriteRows, ReturnResult,
                TaskRaises, OnlyTasks
  <2>2. /\ stage[t] # "none" \/ UNCHANGED <<stage, made, reports>>
        /\ \A u \in TaskIds : u # t => stage'[u] = stage[u] /\ made'[u] = made[u]
        /\ reports' \subseteq reports \cup {t}
    BY <1>2 DEF TaskStep, RestartTask, LoadFile, Split, StoreBlock, SendRows, WriteRows, ReturnResult,
                TaskRaises, Executing, RowInv, TypeInv, TypeOK
  <2>3. FirstIds'
    BY <2>1 DEF FirstIds, TaskIds, RowInv, IdsInv
  <2> QED BY <2>1, <2>2, <2>3 DEF RowInv, IdsInv
<1> QED BY <1>1, <1>2

LEMMA TaskRows ==
  ASSUME RowInv, NEW t \in TaskIds, TaskStep(t) \/ UpdateStats(t) \/ RestartTask(t)
  PROVE  FilesInv' /\ RowsUnique'
<1>1. CASE UpdateStats(t)
  BY <1>1, FilesAlone DEF UpdateStats, RowInv, faultVars
<1>2. CASE WriteRows(t)
  <2>1. task[t] \in Items /\ BlocksOf(task[t]) \subseteq Kept
    BY <1>2 DEF WriteRows, RowInv, TypeInv, FilesInv, TaskFiles
  <2>2. rows' = Recorded(task[t]) /\ UNCHANGED <<storeVars, task, late, made, storing>>
    BY <1>2 DEF WriteRows, OnlyTasks, faultVars
  <2>3. RowsHaveFiles' /\ RowsUnique'
    BY <2>1, <2>2, RecordedRows
  <2>4. \A u \in TaskIds : TaskFiles(u)'
    BY <1>2, <2>2 DEF WriteRows, RowInv, FilesInv, TaskFiles, Kept, storeVars, TypeInv, TypeOK
  <2> QED BY <2>2, <2>3, <2>4 DEF RowInv, FilesInv, Kept, storeVars
<1>3. CASE ~UpdateStats(t) /\ ~WriteRows(t)
  <2>1. UNCHANGED <<task, rows, late>>
    BY <1>3 DEF TaskStep, RestartTask, LoadFile, Split, StoreBlock, SendRows, ReturnResult, TaskRaises,
                OnlyTasks, faultVars
  <2>2. Kept \subseteq Kept'
    BY <1>3 DEF TaskStep, RestartTask, LoadFile, Split, StoreBlock, SendRows, ReturnResult, TaskRaises,
                Kept, storeVars
  <2>3. RowsHaveFiles' /\ RowsUnique' /\ \A i \in late' : BlocksOf(i) \subseteq Kept'
    BY <2>1, <2>2 DEF RowInv, FilesInv, RowsHaveFiles, RowsUnique, Kept
  <2>4. ASSUME NEW u \in TaskIds, u # t
        PROVE  TaskFiles(u)'
    <3>1. stage'[u] = stage[u] /\ made'[u] = made[u] /\ storing'[u] = storing[u]
      BY <1>3, <2>4 DEF TaskStep, RestartTask, LoadFile, Split, StoreBlock, SendRows, ReturnResult,
                        TaskRaises, RowInv, TypeInv, TypeOK
    <3> QED BY <2>1, <2>2, <3>1 DEF RowInv, FilesInv, TaskFiles
  <2>5. TaskFiles(t)'
    <3>1. CASE LoadFile(t)
      <4>1. stage[t] = "load" /\ stage'[t] = "split" /\ made'[t] = 0
        BY <3>1 DEF LoadFile, RowInv, FilesInv, TaskFiles, TypeInv, TypeOK
      <4>2. \A b \in Blocks : ~(b[2] <= 0)
        BY BlockFacts, PipelineAssumption
      <4> QED BY <4>1, <4>2 DEF TaskFiles, BlocksOf
    <3>2. CASE Split(t)
      <4>1. /\ stage'[t] = "split" /\ made'[t] = made[t] + 1
            /\ storing'[t] = storing[t] \cup {<<task[t], made[t] + 1>>}
        BY <3>2 DEF Split, RowInv, TypeInv, TypeOK
      <4>2. made[t] \in Nat /\ \A b \in BlocksOf(task[t]) : b[2] <= made[t] => b \in Kept \cup storing[t]
        BY <3>2 DEF Split, RowInv, FilesInv, TaskFiles, TypeInv, TypeOK
      <4>3. ASSUME NEW b \in BlocksOf(task[t]), b[2] <= made[t] + 1
            PROVE  b \in Kept \cup storing'[t]
        <5>1. b[2] \in Nat /\ b = <<task[t], b[2]>>
          BY BlockFacts, PipelineAssumption DEF BlocksOf
        <5>2. CASE b[2] <= made[t]
          BY <4>1, <4>2, <5>2
        <5>3. CASE b[2] = made[t] + 1
          BY <4>1, <5>1, <5>3
        <5> QED BY <4>2, <4>3, <5>1, <5>2, <5>3
      <4> QED BY <2>1, <2>2, <4>1, <4>3 DEF TaskFiles
    <3>3. CASE StoreBlock(t)
      <4>1. PICK b \in storing[t] :
              /\ storing' = [storing EXCEPT ![t] = @ \ {b}]
              /\ b \in Kept' /\ UNCHANGED <<stage, made>>
        BY <3>3 DEF StoreBlock, Kept
      <4>2. storing'[t] = storing[t] \ {b}
        BY <4>1 DEF RowInv, TypeInv, TypeOK
      <4> QED BY <2>1, <2>2, <4>1, <4>2 DEF RowInv, FilesInv, TaskFiles
    <3>4. CASE SendRows(t)
      <4>1. /\ stage[t] = "split" /\ made[t] = NumSplits[task[t]] /\ storing[t] = {}
            /\ stage'[t] = "write"
        BY <3>4 DEF SendRows, RowInv, TypeInv, TypeOK
      <4>2. \A b \in BlocksOf(task[t]) : b[2] <= made[t]
        BY <4>1 DEF BlocksOf, Blocks
      <4>3. BlocksOf(task[t]) \subseteq Kept
        BY <4>1, <4>2 DEF RowInv, FilesInv, TaskFiles
      <4> QED BY <2>1, <2>2, <4>1, <4>3 DEF TaskFiles
    <3>5. CASE ReturnResult(t) \/ TaskRaises(t)
      <4>1. stage'[t] \in {"done", "failed"}
        BY <3>5 DEF ReturnResult, TaskRaises, RowInv, TypeInv, TypeOK
      <4> QED BY <4>1 DEF TaskFiles
    <3>6. CASE RestartTask(t)
      <4>1. stage'[t] = "load" /\ made'[t] = 0
        BY <3>6 DEF RestartTask, RowInv, TypeInv, TypeOK
      <4> QED BY <4>1 DEF TaskFiles
    <3> QED BY <1>3, <3>1, <3>2, <3>3, <3>4, <3>5, <3>6 DEF TaskStep
  <2> QED BY <2>3, <2>4, <2>5 DEF FilesInv
<1> QED BY <1>1, <1>2, <1>3

LEMMA RestRows ==
  ASSUME RowInv, RunnerDies \/ WriteLate \/ RunAgain
  PROVE  IdsInv' /\ FilesInv' /\ RowsUnique'
<1>1. CASE RunnerDies
  <2>1. /\ UNCHANGED <<stats, made, rows, storeVars>> /\ reports' = {}
        /\ \A t \in TaskIds : stage'[t] = "none"
        /\ \A i \in late' : i \in late \/ \E t \in TaskIds : stage[t] = "write" /\ i = task[t]
    BY <1>1 DEF RunnerDies, Fresh
  <2>2. \A i \in late' : BlocksOf(i) \subseteq Kept
    BY <2>1 DEF RowInv, FilesInv, TaskFiles
  <2>3. IdsInv'
    BY <2>1 DEF RowInv, IdsInv, FirstIds, TaskIds
  <2> QED BY <2>1, <2>2, <2>3 DEF RowInv, FilesInv, TaskFiles, RowsHaveFiles, RowsUnique, Kept, storeVars
<1>2. CASE WriteLate
  <2>1. PICK i \in late : late' = late \ {i} /\ rows' = Recorded(i)
    BY <1>2 DEF WriteLate
  <2>2. UNCHANGED <<stats, taskVars, reports, storeVars>>
    BY <1>2 DEF WriteLate
  <2>3. i \in Items /\ BlocksOf(i) \subseteq Kept
    BY DEF RowInv, TypeInv, TypeOK, FilesInv
  <2>4. RowsHaveFiles' /\ RowsUnique'
    BY <2>1, <2>2, <2>3, RecordedRows
  <2>5. IdsInv'
    BY <2>2, IdsAlone DEF RowInv, taskVars
  <2> QED BY <2>1, <2>2, <2>4, <2>5 DEF RowInv, FilesInv, TaskFiles, Kept, taskVars, storeVars
<1>3. CASE RunAgain
  <2>1. /\ UNCHANGED <<rows, storeVars, late>> /\ reports' = {}
        /\ \A t \in TaskIds : stats'[t] = "none" /\ stage'[t] = "none" /\ made'[t] = 0
    BY <1>3 DEF RunAgain, Fresh
  <2>2. FirstIds'
    <3>1. 0 \in 0..Cardinality(Items) /\ \A t \in TaskIds : ~(t <= 0)
      BY TaskIdsType
    <3> QED BY <2>1, <3>1 DEF FirstIds, TaskIds
  <2> QED BY <2>1, <2>2 DEF RowInv, IdsInv, FilesInv, TaskFiles, RowsHaveFiles, RowsUnique, Kept, storeVars
<1> QED BY <1>1, <1>2, <1>3

LEMMA StepRows ==
  ASSUME RowInv, [Next]_vars
  PROVE  IdsInv' /\ FilesInv' /\ RowsUnique'
<1>1. CASE UNCHANGED vars \/ RunnerStep \/ Poll
  BY <1>1, FilesAlone, IdsAlone
  DEF vars, RunnerStep, PipeInput, CallWaitToFinish, RunnerReturns, Poll, RowInv, taskVars, faultVars
<1>2. ASSUME NEW w \in Waiters, WaiterStep(w)
      PROVE  IdsInv' /\ FilesInv' /\ RowsUnique'
  BY <1>2, FilesAlone, IdsAlone
  DEF WaiterStep, ProcessResults, StopPipeline, ProcessOne, Unblock, RowInv, taskVars, faultVars
<1> QED BY <1>1, <1>2, SchedulerRows, TaskIdsKept, TaskRows, RestRows DEF Next

LEMMA RowInvariant == Spec => []RowInv
<1>1. Init => RowInv
  BY InitType, InitBound, InitRows DEF RowInv
<1>2. RowInv /\ [Next]_vars => RowInv'
  BY StepType, StepBound, StepRows DEF RowInv, BoundInv
<1> QED BY <1>1, <1>2, PTL DEF Spec

(* However often an item is ingested again, and however late its rows      *)
(* come, a block has one row (sql/client.py:18-36).                        *)
THEOREM OneRowForEachBlock == Spec => []RowsUnique
<1>1. RowInv => RowsUnique
  BY DEF RowInv
<1> QED BY <1>1, RowInvariant, PTL

(* A row is written when all blocks of its item are in the store, or       *)
(* storing one has raised (tasks.py:94-96).                                *)
THEOREM RowsFollowFiles == Spec => []RowsHaveFiles
<1>1. RowInv => RowsHaveFiles
  BY DEF RowInv, FilesInv
<1> QED BY <1>1, RowInvariant, PTL

-----------------------------------------------------------------------------
(* No item is lost on its way to its task, and what the progress bars say. *)
(* An entry of the stats stands for one item, so the entries that are taken*)
(* and the items that have none yet are never more than the items: an item *)
(* always finds a free id, and when all entries are done no item is left.  *)

AllRows(i) == \A b \in BlocksOf(i) : rows[b] > 0

(* The batches that _schedule_tasks has taken from the queue, and the items*)
(* of the others                                                           *)
Taken    == piped - Len(input_queue)
Upcoming == UNION {ToSet(Input[k]) : k \in (Taken + 1)..Len(Input)}

BatchInv ==
  /\ Len(input_queue) <= piped
  /\ \A j \in 1..Len(input_queue) : input_queue[j] = Input[Taken + j]
  /\ scheduler = "poll" => pending = <<>>

CountInv ==
  NextId + old + Len(pending) + Cardinality(Upcoming) <= Cardinality(Items) + 1

HandedInv ==
  /\ \A t \in TaskIds : task[t] # None => stats[t] # "none"
  /\ \A k \in 1..Taken : \A i \in ToSet(Input[k]) :
       i \in ToSet(pending) \/ (\E t \in TaskIds : task[t] = i) \/ AllRows(i)

Reported(t) == stats[t] = "done" \/ stage[t] \in {"wrote", "done"} \/ t \in reports

ReportInv ==
  /\ \A t \in TaskIds : task[t] # None /\ Reported(t) => AllRows(task[t])
  /\ poller = "ended" => \A i \in Items : AllRows(i)

LEMMA CountDistinct ==
  ASSUME NEW S, NEW n \in Nat, NEW f \in [1..n -> S],
         \A j, k \in 1..n : f[j] = f[k] => j = k, \A x \in S : \E j \in 1..n : f[j] = x
  PROVE  IsFiniteSet(S) /\ Cardinality(S) = n
<1>1. f \in Bijection(1..n, S)
  BY DEF Bijection, Injection, Surjection, IsInjective
<1>2. ExistsBijection(1..n, S)
  BY <1>1 DEF ExistsBijection
<1> QED BY <1>2, FS_CountingElements, FS_NatBijection

LEMMA BlocksCounted ==
  ASSUME NEW i \in Items
  PROVE  IsFiniteSet(BlocksOf(i)) /\ Cardinality(BlocksOf(i)) = NumSplits[i]
<1>1. NumSplits[i] \in Nat
  BY PipelineAssumption
<1> DEFINE f == [k \in 1..NumSplits[i] |-> <<i, k>>]
<1>2. \A k \in 1..NumSplits[i] : <<i, k>> \in BlocksOf(i)
  BY BlockFacts DEF BlocksOf
<1>3. \A b \in BlocksOf(i) : b[2] \in 1..NumSplits[i] /\ b = <<i, b[2]>>
  BY BlockFacts DEF BlocksOf
<1>4. f \in [1..NumSplits[i] -> BlocksOf(i)]
  BY <1>2
<1>5. /\ \A j, k \in 1..NumSplits[i] : f[j] = f[k] => j = k
      /\ \A b \in BlocksOf(i) : \E k \in 1..NumSplits[i] : f[k] = b
  BY <1>3
<1> DEFINE S == BlocksOf(i)
           n == NumSplits[i]
<1>6. /\ n \in Nat /\ f \in [1..n -> S] /\ \A j, k \in 1..n : f[j] = f[k] => j = k
      /\ \A x \in S : \E j \in 1..n : f[j] = x
  BY <1>1, <1>4, <1>5
<1> HIDE DEF f, S, n
<1>7. IsFiniteSet(S) /\ Cardinality(S) = n
  BY <1>6, CountDistinct
<1> QED BY <1>7 DEF S, n

(* An item is not new when all its rows are there.                         *)
LEMMA NotNew ==
  ASSUME NEW i \in Items
  PROVE  ~IsNew(i) <=> AllRows(i)
<1>1. RowsOf(i) \subseteq BlocksOf(i)
  BY DEF RowsOf
<1>2. Cardinality(RowsOf(i)) = NumSplits[i] <=> RowsOf(i) = BlocksOf(i)
  <2>1. IsFiniteSet(BlocksOf(i)) /\ Cardinality(BlocksOf(i)) = NumSplits[i]
    BY BlocksCounted
  <2>2. Cardinality(BlocksOf(i)) = Cardinality(RowsOf(i)) => BlocksOf(i) = RowsOf(i)
    BY <1>1, <2>1, FS_Subset
  <2> QED BY <2>1, <2>2
<1> QED BY <1>2 DEF IsNew, AllRows, RowsOf

LEMMA BatchCounted ==
  ASSUME NEW k \in 1..Len(Input)
  PROVE  /\ Input[k] \in Seq(Items) /\ ToSet(Input[k]) \subseteq Items
         /\ IsFiniteSet(ToSet(Input[k])) /\ Cardinality(ToSet(Input[k])) = Len(Input[k])
<1>1. k \in DOMAIN Input /\ Input[k] \in Seq(Items)
  BY PipelineAssumption, ElementOfSeq, LenProperties
<1>2. /\ Len(Input[k]) \in Nat /\ DOMAIN Input[k] = 1..Len(Input[k])
      /\ Input[k] \in [1..Len(Input[k]) -> ToSet(Input[k])]
      /\ \A j \in 1..Len(Input[k]) : Input[k][j] \in Items
  BY <1>1, LenProperties, ElementOfSeq DEF ToSet
<1>3. \A j, l \in 1..Len(Input[k]) : Input[k][j] = Input[k][l] => j = l
  BY <1>1, <1>2, InputAssumption
<1>4. \A x \in ToSet(Input[k]) : \E j \in 1..Len(Input[k]) : Input[k][j] = x
  BY <1>2 DEF ToSet
<1>5. IsFiniteSet(ToSet(Input[k])) /\ Cardinality(ToSet(Input[k])) = Len(Input[k])
  <2> DEFINE f == Input[k]
             S == ToSet(Input[k])
             n == Len(Input[k])
  <2>1. /\ n \in Nat /\ f \in [1..n -> S] /\ \A j, l \in 1..n : f[j] = f[l] => j = l
        /\ \A x \in S : \E j \in 1..n : f[j] = x
    BY <1>2, <1>3, <1>4
  <2> HIDE DEF f, S, n
  <2>2. IsFiniteSet(S) /\ Cardinality(S) = n
    BY <2>1, CountDistinct
  <2> QED BY <2>2 DEF S, n
<1>6. ToSet(Input[k]) \subseteq Items
  BY <1>2 DEF ToSet
<1> QED BY <1>1, <1>5, <1>6

(* The items of a batch are not in a later one.                            *)
LEMMA BatchesApart ==
  ASSUME NEW j \in 1..Len(Input), NEW k \in 1..Len(Input), j # k
  PROVE  ToSet(Input[j]) \cap ToSet(Input[k]) = {}
<1>1. DOMAIN Input = 1..Len(Input)
  BY PipelineAssumption, LenProperties
<1> QED BY <1>1, InputAssumption DEF ToSet

LEMMA UpcomingFinite ==
  ASSUME NEW n \in Nat
  PROVE  LET U == UNION {ToSet(Input[k]) : k \in (n + 1)..Len(Input)}
         IN U \subseteq Items /\ IsFiniteSet(U) /\ Cardinality(U) \in Nat
<1> DEFINE U == UNION {ToSet(Input[k]) : k \in (n + 1)..Len(Input)}
<1>1. Len(Input) \in Nat
  BY PipelineAssumption, LenProperties
<1>2. \A k \in (n + 1)..Len(Input) : k \in 1..Len(Input)
  BY <1>1
<1>3. U \subseteq Items
  BY <1>2, BatchCounted
<1> HIDE DEF U
<1>4. IsFiniteSet(U) /\ Cardinality(U) \in Nat
  BY <1>3, PipelineAssumption, FS_Subset, FS_CardinalityType
<1> QED BY <1>3, <1>4 DEF U

(* Taking the next batch                                                   *)
LEMMA UpcomingShrinks ==
  ASSUME NEW n \in Nat, n < Len(Input)
  PROVE  LET U(m) == UNION {ToSet(Input[k]) : k \in (m + 1)..Len(Input)}
         IN Len(Input[n + 1]) + Cardinality(U(n + 1)) = Cardinality(U(n))
<1> DEFINE U(m) == UNION {ToSet(Input[k]) : k \in (m + 1)..Len(Input)}
<1>1. Len(Input) \in Nat /\ n + 1 \in 1..Len(Input) /\ n + 1 \in Nat
  BY PipelineAssumption, LenProperties
<1>2. /\ \A k \in (n + 1)..Len(Input) : k = n + 1 \/ k \in (n + 1 + 1)..Len(Input)
      /\ \A k \in (n + 1 + 1)..Len(Input) : k \in 1..Len(Input) /\ k # n + 1
                                            /\ k \in (n + 1)..Len(Input)
      /\ n + 1 \in (n + 1)..Len(Input)
  BY <1>1
<1>3. U(n) = ToSet(Input[n + 1]) \cup U(n + 1)
  BY <1>2
<1>4. ToSet(Input[n + 1]) \cap U(n + 1) = {}
  BY <1>1, <1>2, BatchesApart
<1>5. IsFiniteSet(U(n + 1)) /\ Cardinality(U(n + 1)) \in Nat
  BY <1>1, UpcomingFinite
<1>6. /\ IsFiniteSet(ToSet(Input[n + 1])) /\ Cardinality(ToSet(Input[n + 1])) = Len(Input[n + 1])
      /\ Len(Input[n + 1]) \in Nat
  BY <1>1, BatchCounted, LenProperties
<1> DEFINE A == ToSet(Input[n + 1])
           B == U(n + 1)
<1>7. Cardinality(A \cup B) = Cardinality(A) + Cardinality(B)
  <2>1. IsFiniteSet(A) /\ IsFiniteSet(B) /\ A \cap B = {} /\ Cardinality(A) \in Nat /\ Cardinality(B) \in Nat
    BY <1>4, <1>5, <1>6
  <2> HIDE DEF A, B
  <2>2. Cardinality(A \cup B) = Cardinality(A) + Cardinality(B) - Cardinality(A \cap B)
    BY <2>1, FS_Union
  <2>3. Cardinality(A \cap B) = 0
    BY <2>1, FS_EmptySet
  <2> QED BY <2>1, <2>2, <2>3
<1> QED BY <1>3, <1>6, <1>7

(* Where the next batch is                                                 *)
LEMMA TakenType ==
  ASSUME TypeInv, BatchInv
  PROVE  /\ Taken \in 0..Len(Input) /\ Len(Input) \in Nat /\ Len(input_queue) \in Nat
         /\ piped = Taken + Len(input_queue) /\ piped \in 0..Len(Input)
<1>1. Len(Input) \in Nat /\ Len(input_queue) \in Nat /\ piped \in 0..Len(Input)
  BY PipelineAssumption, LenProperties DEF TypeInv, TypeOK
<1> QED BY <1>1 DEF Taken, BatchInv

LEMMA UpcomingType ==
  ASSUME TypeInv, BatchInv
  PROVE  Upcoming \subseteq Items /\ IsFiniteSet(Upcoming) /\ Cardinality(Upcoming) \in Nat
<1>1. Taken \in Nat
  BY TakenType
<1> QED BY <1>1, UpcomingFinite DEF Upcoming

LEMMA CountTypes ==
  ASSUME TypeInv, BatchInv
  PROVE  /\ NextId \in Nat /\ old \in Nat /\ Len(pending) \in Nat /\ Cardinality(Upcoming) \in Nat
         /\ Cardinality(Items) \in Nat
BY NextIdType, UpcomingType, TaskIdsType, LenProperties DEF TypeInv, TypeOK

(* The rows of an item that is recorded stay.                              *)
RowsKept == \A i \in Items : AllRows(i) => AllRows(i)'

LEMMA RecordedKeeps ==
  ASSUME TypeInv, NEW i \in Items, rows' = Recorded(i)
  PROVE  RowsKept /\ AllRows(i)'
<1>1. \A b \in Blocks :
        /\ rows[b] \in Nat
        /\ rows'[b] = IF b \in BlocksOf(i) \ RowsOf(i) THEN rows[b] + 1 ELSE rows[b]
  BY DEF Recorded, TypeInv, TypeOK
<1>2. \A b \in Blocks : rows[b] > 0 => rows'[b] > 0
  BY <1>1
<1>3. \A b \in BlocksOf(i) : rows'[b] > 0
  BY <1>1, <1>2 DEF BlocksOf, RowsOf
<1> QED BY <1>2, <1>3 DEF RowsKept, AllRows, BlocksOf

LEMMA StepKeepsRows ==
  ASSUME TypeInv, [Next]_vars
  PROVE  RowsKept
<1>1. UNCHANGED rows => RowsKept
  BY DEF RowsKept, AllRows
<1>2. ASSUME NEW t \in TaskIds, TaskStep(t)
      PROVE  RowsKept
  <2>1. CASE WriteRows(t)
    BY <2>1, RecordedKeeps DEF WriteRows, TypeInv
  <2> QED BY <1>1, <1>2, <2>1 DEF TaskStep, LoadFile, Split, StoreBlock, SendRows, ReturnResult, TaskRaises
<1>3. CASE WriteLate
  BY <1>3, RecordedKeeps DEF WriteLate, TypeInv, TypeOK
<1>4. ASSUME NEW w \in Waiters, WaiterStep(w)
      PROVE  RowsKept
  BY <1>1, <1>4 DEF WaiterStep, ProcessResults, StopPipeline, ProcessOne, Unblock
<1>5. CASE RunnerStep \/ Poll \/ SchedulerStep \/ SchedulerRaises \/ RunnerDies \/ RunAgain \/ UNCHANGED vars
  BY <1>1, <1>5 DEF RunnerStep, PipeInput, CallWaitToFinish, RunnerReturns, Poll, SchedulerStep, TakeBatch,
                    FilterBatch, ScheduleTasks, SchedulerRaises, RunnerDies, RunAgain, vars
<1>6. ASSUME NEW t \in TaskIds, UpdateStats(t) \/ RestartTask(t)
      PROVE  RowsKept
  BY <1>1, <1>6 DEF UpdateStats, RestartTask
<1> QED BY <1>2, <1>3, <1>4, <1>5, <1>6 DEF Next

(* What n more entries make of the next id                                 *)
LEMMA NextIdGrows ==
  ASSUME FirstIds, NEW n \in Nat, NextId + n <= Cardinality(Items) + 1,
         \A t \in TaskIds : stats'[t] # "none" <=> stats[t] # "none" \/ t \in NextIds(NextId, n)
  PROVE  NextId' = NextId + n
<1>1. PICK m \in 0..Cardinality(Items) : \A u \in TaskIds : stats[u] # "none" <=> u <= m
  BY DEF FirstIds
<1>2. NextId = m + 1
  BY <1>1, NextIdIs
<1>3. Cardinality(Items) \in Nat /\ m \in Nat /\ TaskIds = 1..Cardinality(Items) /\ m + n \in Nat
      /\ m + n <= Cardinality(Items)
  BY <1>2, TaskIdsType
<1>4. \A t \in TaskIds : t \in NextIds(NextId, n) <=> m < t /\ t <= m + n
  BY <1>2, <1>3 DEF NextIds
<1>5. {t \in TaskIds : stats'[t] # "none"} = 1..(m + n)
  BY <1>1, <1>3, <1>4
<1>6. Cardinality(1..(m + n)) = m + n
  BY <1>3, FS_Interval
<1>7. NextId' = Cardinality({t \in TaskIds : stats'[t] # "none"}) + 1
  BY DEF NextId, TaskIds
<1>8. NextId' = Cardinality(1..(m + n)) + 1
  BY <1>5, <1>7
<1> QED BY <1>2, <1>3, <1>6, <1>8

LEMMA NextIdAlone ==
  ASSUME \A t \in TaskIds : stats'[t] = "none" <=> stats[t] = "none"
  PROVE  NextId' = NextId
BY DEF NextId, TaskIds

(* Steps that neither move a batch nor start a task                        *)
FlowInv == BatchInv /\ CountInv /\ HandedInv

LEMMA FlowKept ==
  ASSUME TypeInv, FlowInv, RowsKept, UNCHANGED <<piped, input_queue, pending, old, task>>,
         scheduler' = "poll" => scheduler = "poll",
         \A t \in TaskIds : stats'[t] = "none" <=> stats[t] = "none"
  PROVE  FlowInv'
<1>1. Taken' = Taken /\ Upcoming' = Upcoming
  BY DEF Taken, Upcoming
<1>2. BatchInv'
  BY <1>1 DEF FlowInv, BatchInv
<1>3. CountInv'
  BY <1>1, NextIdAlone DEF FlowInv, CountInv
<1>4. \A k \in 1..Taken : ToSet(Input[k]) \subseteq Items
  BY TakenType, BatchCounted DEF FlowInv
<1>5. HandedInv'
  BY <1>1, <1>4 DEF FlowInv, HandedInv, RowsKept, TaskIds
<1> QED BY <1>2, <1>3, <1>5 DEF FlowInv

LEMMA ReportKept ==
  ASSUME TypeInv, ReportInv, RowsKept, UNCHANGED task, poller' = "ended" => poller = "ended",
         \A t \in TaskIds : task[t] # None /\ Reported(t)' => Reported(t)
  PROVE  ReportInv'
<1>1. \A t \in TaskIds : task[t] # None => task[t] \in Items
  BY DEF TypeInv, TypeOK
<1>2. ASSUME NEW t \in TaskIds, task'[t] # None, Reported(t)'
      PROVE  AllRows(task[t])'
  <2>1. task[t] \in Items /\ AllRows(task[t])
    BY <1>1, <1>2 DEF ReportInv
  <2>2. \A b \in BlocksOf(task[t]) : rows'[b] > 0
    BY <2>1 DEF RowsKept, AllRows
  <2> QED BY <2>2 DEF AllRows
<1>3. poller' = "ended" => \A i \in Items : AllRows(i)'
  BY DEF ReportInv, RowsKept
<1> QED BY <1>2, <1>3 DEF ReportInv, TaskIds

(* Piping and taking a batch                                               *)
LEMMA PipeFlow ==
  ASSUME TypeInv, FlowInv, PipeInput
  PROVE  FlowInv'
<1>1. /\ Taken \in 0..Len(Input) /\ Len(Input) \in Nat /\ Len(input_queue) \in Nat
      /\ piped = Taken + Len(input_queue) /\ piped \in 0..Len(Input)
  BY TakenType DEF FlowInv
<1>2. /\ piped' = piped + 1 /\ piped' <= Len(Input) /\ input_queue' = Append(input_queue, Input[piped'])
      /\ UNCHANGED <<stats, schedVars, task, rows>>
  BY <1>1 DEF PipeInput, taskVars
<1>3. input_queue \in Seq(Seq(Items)) /\ Input[piped'] \in Seq(Items)
  <2>1. piped' \in 1..Len(Input)
    BY <1>1, <1>2
  <2> QED BY <2>1, BatchCounted DEF TypeInv, TypeOK
<1>4. /\ Len(input_queue') = Len(input_queue) + 1
      /\ \A j \in 1..Len(input_queue) : input_queue'[j] = input_queue[j]
      /\ input_queue'[Len(input_queue) + 1] = Input[piped']
  BY <1>2, <1>3, AppendProperties
<1>5. Taken' = Taken
  BY <1>1, <1>2, <1>4 DEF Taken
<1>6. Upcoming' = Upcoming
  BY <1>5 DEF Upcoming
<1>7. BatchInv'
  <2>1. ASSUME NEW j \in 1..Len(input_queue')
        PROVE  input_queue'[j] = Input[Taken' + j]
    <3>1. CASE j \in 1..Len(input_queue)
      BY <1>4, <1>5, <3>1 DEF FlowInv, BatchInv
    <3>2. CASE j = Len(input_queue) + 1
      <4>1. Taken' + j = piped'
        BY <1>1, <1>2, <1>5, <3>2
      <4> QED BY <1>4, <3>2, <4>1
    <3> QED BY <1>1, <1>4, <2>1, <3>1, <3>2
  <2>2. Len(input_queue') <= piped'
    BY <1>1, <1>2, <1>4
  <2> QED BY <1>2, <2>1, <2>2 DEF FlowInv, BatchInv, schedVars
<1>8. CountInv'
  BY <1>2, <1>6, NextIdAlone DEF FlowInv, CountInv, schedVars
<1>9. HandedInv'
  <2>1. UNCHANGED rows
    BY <1>2
  <2> QED BY <1>2, <1>5, <2>1 DEF FlowInv, HandedInv, AllRows, TaskIds, schedVars
<1> QED BY <1>7, <1>8, <1>9 DEF FlowInv

LEMMA TakeFlow ==
  ASSUME TypeInv, FlowInv, TakeBatch, is_running
  PROVE  FlowInv'
<1>1. /\ Taken \in 0..Len(Input) /\ Len(Input) \in Nat /\ Len(input_queue) \in Nat
      /\ piped = Taken + Len(input_queue) /\ piped \in 0..Len(Input)
  BY TakenType DEF FlowInv
<1>2. /\ input_queue # <<>> /\ input_queue' = Tail(input_queue) /\ pending' = Head(input_queue)
      /\ scheduler = "poll" /\ scheduler' = "filter" /\ UNCHANGED <<piped, old, stats, task, rows>>
  BY DEF TakeBatch, runnerVars, taskVars
<1>3. /\ Len(input_queue) > 0 /\ Len(input_queue') = Len(input_queue) - 1
      /\ Head(input_queue) = input_queue[1]
      /\ \A j \in 1..Len(input_queue') : input_queue'[j] = input_queue[j + 1]
  <2>1. input_queue \in Seq(Seq(Items))
    BY DEF TypeInv, TypeOK
  <2> QED BY <1>2, <2>1
<1>4. Taken' = Taken + 1 /\ Taken < Len(Input) /\ Taken + 1 \in 1..Len(Input)
  BY <1>1, <1>2, <1>3 DEF Taken
<1>5. pending' = Input[Taken + 1] /\ pending = <<>>
  BY <1>1, <1>2, <1>3 DEF FlowInv, BatchInv
<1>6. BatchInv'
  <2>1. ASSUME NEW j \in 1..Len(input_queue')
        PROVE  input_queue'[j] = Input[Taken' + j]
    <3>1. j + 1 \in 1..Len(input_queue) /\ Taken + (j + 1) = Taken' + j
      BY <1>1, <1>3, <1>4
    <3> QED BY <1>3, <3>1 DEF FlowInv, BatchInv
  <2>2. Len(input_queue') <= piped'
    BY <1>1, <1>2, <1>3
  <2> QED BY <1>2, <2>1, <2>2 DEF BatchInv
<1>7. Len(pending') + Cardinality(Upcoming') = Cardinality(Upcoming)
  BY <1>1, <1>4, <1>5, UpcomingShrinks DEF Upcoming
<1>8. CountInv'
  <2>1. NextId' = NextId /\ Len(pending) = 0
    BY <1>2, <1>5, NextIdAlone
  <2>2. NextId + old + Cardinality(Upcoming) <= Cardinality(Items) + 1
    BY <2>1, CountTypes DEF FlowInv, CountInv
  <2>3. Len(pending') \in Nat /\ Cardinality(Upcoming') \in Nat
    <3>1. Input[Taken + 1] \in Seq(Items)
      BY <1>4, BatchCounted
    <3>2. Taken' \in Nat
      BY <1>1, <1>4
    <3> QED BY <1>5, <3>1, <3>2, LenProperties, UpcomingFinite DEF Upcoming
  <2>4. NextId + old + (Len(pending') + Cardinality(Upcoming')) <= Cardinality(Items) + 1
    BY <1>7, <2>2
  <2>5. NextId + old + Len(pending') + Cardinality(Upcoming') <= Cardinality(Items) + 1
    BY <2>3, <2>4, CountTypes DEF FlowInv
  <2> QED BY <1>2, <2>1, <2>5 DEF CountInv
<1>9. HandedInv'
  <2>1. ASSUME NEW k \in 1..Taken', NEW i \in ToSet(Input[k])
        PROVE  i \in ToSet(pending') \/ (\E t \in TaskIds : task'[t] = i) \/ AllRows(i)'
    <3>1. CASE k = Taken + 1
      BY <1>5, <2>1, <3>1
    <3>2. CASE k \in 1..Taken
      <4>1. i \notin ToSet(pending)
        BY <1>5 DEF ToSet
      <4>2. (\E t \in TaskIds : task[t] = i) \/ AllRows(i)
        BY <2>1, <3>2, <4>1 DEF FlowInv, HandedInv
      <4>3. AllRows(i) => AllRows(i)'
        BY <1>2 DEF AllRows
      <4> QED BY <1>2, <4>2, <4>3
    <3> QED BY <1>1, <1>4, <3>1, <3>2
  <2>2. \A t \in TaskIds : task'[t] # None => stats'[t] # "none"
    BY <1>2 DEF FlowInv, HandedInv
  <2> QED BY <2>1, <2>2 DEF HandedInv, TaskIds
<1> QED BY <1>6, <1>8, <1>9 DEF FlowInv

(* The filter keeps every item that is new.                                *)
LEMMA NewOnesKeep ==
  ASSUME NEW batch \in Seq(Items), NEW new \in NewOnes(batch), NEW i \in ToSet(batch), IsNew(i)
  PROVE  i \in ToSet(new)
<1>1. PICK place \in UNION {[1..n -> DOMAIN batch] : n \in 0..Len(batch)} :
        /\ Range(place) = {j \in DOMAIN batch : IsNew(batch[j])}
        /\ new = [j \in DOMAIN place |-> batch[place[j]]]
  BY DEF NewOnes
<1>2. PICK j \in DOMAIN batch : batch[j] = i
  BY DEF ToSet
<1>3. j \in Range(place)
  BY <1>1, <1>2
<1>4. PICK k \in DOMAIN place : place[k] = j
  BY <1>3 DEF Range
<1>5. k \in DOMAIN new /\ new[k] = i
  BY <1>1, <1>2, <1>4
<1> QED BY <1>5 DEF ToSet

LEMMA FilterFlow ==
  ASSUME RowInv, FlowInv, ReportInv, FilterBatch
  PROVE  FlowInv' /\ ReportInv'
<1> DEFINE n == Len(pending) - Len(pending')
<1>1. pending \in Seq(Items) /\ pending' \in NewOnes(pending)
  BY DEF FilterBatch, RowInv, TypeInv, TypeOK
<1>2. pending' \in Seq(Items) /\ n \in Nat /\ Len(pending) \in Nat /\ Len(pending') \in Nat
  BY <1>1, NewOnesType, LenProperties
<1>3. UNCHANGED <<piped, input_queue, task, stage, reports, rows, poller>>
  BY DEF FilterBatch, runnerVars, queueVars, taskVars
<1>4. Taken' = Taken /\ Upcoming' = Upcoming
  BY <1>3 DEF Taken, Upcoming
<1>5. Len(pending) = n + Len(pending')
  BY <1>2
<1>6. scheduler' = "poll" => pending' = <<>>
  BY DEF FilterBatch
<1>7. BatchInv'
  BY <1>3, <1>4, <1>6 DEF FlowInv, BatchInv
<1>8. \/ old' = n /\ UNCHANGED stats
      \/ /\ pending' = <<>> /\ old' = 0
         /\ stats' = [t \in TaskIds |-> IF t \in NextIds(NextId, n) THEN "done" ELSE stats[t]]
  BY DEF FilterBatch
<1> HIDE DEF n
<1>9. NextId + n <= Cardinality(Items) + 1
  BY <1>2, <1>5, CountTypes DEF FlowInv, CountInv, RowInv
<1>10. CountInv'
  <2>1. NextId + n + Len(pending') + Cardinality(Upcoming) <= Cardinality(Items) + 1
    BY <1>2, <1>5, CountTypes DEF FlowInv, CountInv, RowInv
  <2>2. CASE old' = n /\ UNCHANGED stats
    BY <1>4, <2>1, <2>2, NextIdAlone DEF CountInv
  <2>3. CASE /\ pending' = <<>> /\ old' = 0
             /\ stats' = [t \in TaskIds |-> IF t \in NextIds(NextId, n) THEN "done" ELSE stats[t]]
    <3>1. \A t \in TaskIds : stats'[t] # "none" <=> stats[t] # "none" \/ t \in NextIds(NextId, n)
      BY <2>3
    <3>2. NextId' = NextId + n
      BY <1>2, <1>9, <3>1, NextIdGrows DEF RowInv, IdsInv
    <3> QED BY <1>2, <1>4, <2>1, <2>3, <3>2, CountTypes DEF CountInv, FlowInv, RowInv
  <2> QED BY <1>8, <2>2, <2>3
<1>11. \A t \in TaskIds : stats'[t] = stats[t] \/ (stats'[t] = "done" /\ stats[t] = "none")
  <2>1. \A t \in TaskIds : t \in NextIds(NextId + 0, n) => stats[t] = "none"
    BY <1>2, NextAreFree DEF RowInv, IdsInv
  <2>2. NextId + 0 = NextId
    BY NextIdType
  <2> QED BY <1>8, <2>1, <2>2
<1>12. HandedInv'
  <2>1. ASSUME NEW k \in 1..Taken, NEW i \in ToSet(Input[k])
        PROVE  i \in ToSet(pending') \/ (\E t \in TaskIds : task[t] = i) \/ AllRows(i)
    <3>1. CASE i \in ToSet(pending)
      <4>1. i \in Items
        BY <2>1, TakenType, BatchCounted DEF RowInv, FlowInv
      <4>2. CASE IsNew(i)
        BY <1>1, <3>1, <4>2, NewOnesKeep
      <4>3. CASE ~IsNew(i)
        BY <4>1, <4>3, NotNew
      <4> QED BY <4>2, <4>3
    <3> QED BY <2>1, <3>1 DEF FlowInv, HandedInv
  <2>2. \A t \in TaskIds : task'[t] # None => stats'[t] # "none"
    BY <1>3, <1>11 DEF FlowInv, HandedInv
  <2>3. UNCHANGED rows
    BY <1>3
  <2> QED BY <1>3, <1>4, <2>1, <2>2, <2>3 DEF HandedInv, TaskIds, AllRows
<1>13. ReportInv'
  <2>1. RowsKept
    BY <1>3 DEF RowsKept, AllRows
  <2>2. \A t \in TaskIds : task[t] # None /\ Reported(t)' => Reported(t)
    BY <1>3, <1>11 DEF FlowInv, HandedInv, Reported
  <2> QED BY <1>3, <2>1, <2>2, ReportKept DEF RowInv
<1> QED BY <1>7, <1>10, <1>12, <1>13 DEF FlowInv

(* The pending items that get a task find free ids.                        *)
LEMMA AddTasksFlow ==
  ASSUME RowInv, FlowInv, ReportInv, NEW done \in Nat, done <= old, AddTasks(done, Startable),
         old' = 0, scheduler' = "poll" => pending' = <<>>,
         UNCHANGED <<piped, input_queue, reports, rows, poller>>
  PROVE  FlowInv' /\ ReportInv'
<1> DEFINE n == Startable
           first == NextId + done
           started == NextIds(first, n)
<1>1. /\ pending \in Seq(Items) /\ Len(pending) \in Nat
      /\ n \in 0..Len(pending) /\ n \in Nat /\ first \in Nat
  <2>1. pending \in Seq(Items) /\ IsFiniteSet(results_refs)
    BY DEF RowInv, TypeInv, TypeOK, BoundInv
  <2>2. Startable \in 0..Len(pending) /\ Len(pending) \in Nat
    BY <2>1, StartableType, LenProperties
  <2> QED BY <2>1, <2>2, NextIdType
<1>2. /\ \A t \in TaskIds :
           /\ task'[t] = IF t \in started THEN pending[t - first + 1] ELSE task[t]
           /\ stage'[t] = IF t \in started THEN "load" ELSE stage[t]
           /\ stats'[t] = IF t \in NextIds(NextId, done) THEN "done"
                          ELSE IF t \in started THEN "scheduled" ELSE stats[t]
      /\ pending' = SubSeq(pending, n + 1, Len(pending))
  BY DEF AddTasks
<1> HIDE DEF n, first
<1>3. /\ first = NextId + done /\ NextId \in Nat /\ old \in Nat /\ Cardinality(Upcoming) \in Nat
      /\ Cardinality(Items) \in Nat /\ TaskIds = 1..Cardinality(Items)
      /\ NextId + old + Len(pending) + Cardinality(Upcoming) <= Cardinality(Items) + 1
  BY CountTypes, TaskIdsType DEF first, FlowInv, CountInv, RowInv
<1>4. /\ \A t \in TaskIds : t \in NextIds(NextId, done) <=> NextId <= t /\ t < first
      /\ \A t \in TaskIds : t \in started <=> first <= t /\ t < first + n
      /\ \A t \in TaskIds : t \in NextIds(NextId, done + n) <=> NextId <= t /\ t < first + n
  BY <1>1, <1>3, TaskIdsType DEF NextIds
<1>5. \A t \in TaskIds : NextId <= t /\ t < first + n => stats[t] = "none"
  <2>1. \A t \in TaskIds : t \in NextIds(NextId + 0, done + n) => stats[t] = "none"
    BY <1>1, NextAreFree DEF RowInv, IdsInv
  <2>2. NextId + 0 = NextId
    BY <1>3
  <2> QED BY <1>4, <2>1, <2>2
<1>6. Taken' = Taken /\ Upcoming' = Upcoming
  BY DEF Taken, Upcoming
<1>7. BatchInv'
  BY <1>6 DEF FlowInv, BatchInv
<1>8. /\ Len(pending') = Len(pending) - n
      /\ \A j \in 1..(Len(pending) - n) : pending'[j] = pending[n + j]
  <2>1. Len(SubSeq(pending, n + 1, Len(pending))) = Len(pending) - n
    BY <1>1
  <2>2. \A j \in 1..(Len(pending) - n) : SubSeq(pending, n + 1, Len(pending))[j] = pending[n + j]
    BY <1>1
  <2> QED BY <1>2, <2>1, <2>2
<1>9. CountInv'
  <2>1. done + n \in Nat /\ NextId + (done + n) <= Cardinality(Items) + 1
    BY <1>1, <1>3
  <2>2. \A t \in TaskIds : stats'[t] # "none" <=> stats[t] # "none" \/ t \in NextIds(NextId, done + n)
    BY <1>1, <1>2, <1>3, <1>4, TaskIdsType
  <2>3. NextId' = NextId + (done + n)
    BY <2>1, <2>2, NextIdGrows DEF RowInv, IdsInv
  <2>4. NextId + (done + n) + 0 + (Len(pending) - n) + Cardinality(Upcoming) <= Cardinality(Items) + 1
    BY <1>1, <1>3
  <2> QED BY <1>6, <1>8, <2>3, <2>4 DEF CountInv
<1>10. \A t \in TaskIds : t \in started => stats'[t] = "scheduled" /\ stats[t] = "none" /\ task[t] = None
  BY <1>1, <1>2, <1>3, <1>4, <1>5, TaskIdsType DEF FlowInv, HandedInv
<1>11. \A t \in TaskIds : t \notin started => task'[t] = task[t] /\ (task[t] # None => stats'[t] = stats[t])
  BY <1>1, <1>2, <1>3, <1>4, <1>5, TaskIdsType DEF FlowInv, HandedInv
<1>12. HandedInv'
  <2>1. ASSUME NEW k \in 1..Taken, NEW i \in ToSet(Input[k])
        PROVE  i \in ToSet(pending') \/ (\E t \in TaskIds : task'[t] = i) \/ AllRows(i)
    <3>1. i \in Items
      BY <2>1, TakenType, BatchCounted DEF RowInv, FlowInv
    <3>2. CASE i \in ToSet(pending)
      <4>1. PICK j \in 1..Len(pending) : pending[j] = i
        BY <1>1, <3>2 DEF ToSet
      <4>2. CASE j <= n
        <5>1. first + j - 1 \in TaskIds /\ first + j - 1 \in started /\ (first + j - 1) - first + 1 = j
          BY <1>1, <1>3, <1>4, <4>1, <4>2, NextIdType
        <5> QED BY <1>2, <4>1, <5>1
      <4>3. CASE n < j
        <5>1. j - n \in 1..(Len(pending) - n) /\ n + (j - n) = j
          BY <1>1, <4>1, <4>3
        <5>2. pending'[j - n] = i /\ j - n \in DOMAIN pending'
          <6>1. pending' \in Seq(Items)
            BY <1>1, <1>2, StartedType
          <6> QED BY <1>8, <4>1, <5>1, <6>1
        <5> QED BY <5>2 DEF ToSet
      <4> QED BY <1>1, <4>1, <4>2, <4>3
    <3>3. CASE \E t \in TaskIds : task[t] = i
      BY <1>10, <1>11, <3>1, <3>3, PipelineAssumption
    <3> QED BY <2>1, <3>2, <3>3 DEF FlowInv, HandedInv
  <2>2. \A t \in TaskIds : task'[t] # None => stats'[t] # "none"
    BY <1>10, <1>11 DEF FlowInv, HandedInv
  <2> QED BY <1>6, <2>1, <2>2 DEF HandedInv, TaskIds, AllRows
<1>13. ReportInv'
  <2>1. ASSUME NEW t \in TaskIds, task'[t] # None, Reported(t)'
        PROVE  AllRows(task[t]) /\ task'[t] = task[t]
    <3>1. t \notin started
      <4>1. t \in started => t \notin reports /\ stage'[t] = "load" /\ stats'[t] = "scheduled"
        BY <1>2, <1>10 DEF RowInv, IdsInv
      <4> QED BY <2>1, <4>1 DEF Reported
    <3>2. task'[t] = task[t] /\ stats'[t] = stats[t] /\ stage'[t] = stage[t]
      BY <1>2, <1>11, <2>1, <3>1
    <3> QED BY <2>1, <3>2 DEF Reported, ReportInv
  <2>2. ASSUME NEW t \in TaskIds, task'[t] # None, Reported(t)'
        PROVE  \A b \in BlocksOf(task'[t]) : rows'[b] > 0
    BY <2>1, <2>2 DEF AllRows
  <2>3. poller' = "ended" => \A i \in Items : AllRows(i)'
    BY DEF ReportInv, AllRows
  <2>4. \A t \in TaskIds : task'[t] # None /\ Reported(t)' => AllRows(task[t])'
    BY <2>2 DEF AllRows
  <2> QED BY <2>3, <2>4 DEF ReportInv, TaskIds
<1> QED BY <1>7, <1>9, <1>12, <1>13 DEF FlowInv

LEMMA SchedulerFlow ==
  ASSUME RowInv, FlowInv, ReportInv, RowsKept, SchedulerStep \/ SchedulerRaises
  PROVE  FlowInv' /\ ReportInv'
<1>1. CASE TakeBatch
  <2>1. UNCHANGED <<piped, poller, old, stats, task, stage, reports>>
    BY <1>1 DEF TakeBatch, runnerVars, taskVars
  <2>2. ReportInv'
    BY <2>1, ReportKept DEF RowInv, Reported
  <2>3. CASE is_running
    BY <1>1, <2>2, <2>3, TakeFlow DEF RowInv
  <2>4. CASE ~is_running
    <3>1. UNCHANGED <<input_queue, pending>> /\ scheduler' = "ended"
      BY <1>1, <2>4 DEF TakeBatch
    <3> QED BY <2>1, <2>2, <3>1, FlowKept DEF RowInv
  <2> QED BY <2>3, <2>4
<1>2. CASE FilterBatch
  BY <1>2, FilterFlow
<1>3. CASE ScheduleTasks
  <2>1. \E done \in Nat : done <= old /\ AddTasks(done, Startable)
    <3>1. old \in Nat /\ 0 \in Nat /\ 0 <= old /\ old <= old
      BY DEF RowInv, TypeInv, TypeOK
    <3> QED BY <1>3, <3>1 DEF ScheduleTasks
  <2>2. /\ old' = 0 /\ UNCHANGED <<piped, input_queue, reports, rows, poller>>
    BY <1>3 DEF ScheduleTasks, runnerVars, queueVars
  <2>3. scheduler' = "poll" => pending' = <<>>
    BY <1>3 DEF ScheduleTasks
  <2> QED BY <2>1, <2>2, <2>3, AddTasksFlow
<1>4. CASE SchedulerRaises
  <2>1. /\ UNCHANGED <<piped, poller, input_queue, pending, old, stats, task, stage, reports>>
        /\ scheduler' = "dead"
    BY <1>4 DEF SchedulerRaises, runnerVars, queueVars, taskVars
  <2> QED BY <2>1, FlowKept, ReportKept DEF RowInv, Reported
<1> QED BY <1>1, <1>2, <1>3, <1>4 DEF SchedulerStep

LEMMA TaskFlow ==
  ASSUME RowInv, FlowInv, ReportInv, RowsKept, NEW t \in TaskIds,
         TaskStep(t) \/ UpdateStats(t) \/ RestartTask(t)
  PROVE  FlowInv' /\ ReportInv'
<1>1. UNCHANGED <<piped, poller, input_queue, scheduler, pending, old, task>>
  BY DEF TaskStep, UpdateStats, RestartTask, LoadFile, Split, StoreBlock, SendRows, WriteRows,
         ReturnResult, TaskRaises, OnlyTasks, runnerVars, queueVars, schedVars, taskVars
<1>2. \A u \in TaskIds : stats'[u] = "none" <=> stats[u] = "none"
  <2>1. CASE UpdateStats(t)
    BY <2>1 DEF UpdateStats, RowInv, IdsInv, TypeInv, TypeOK
  <2>2. CASE UNCHANGED stats
    BY <2>2
  <2> QED BY <2>1, <2>2 DEF TaskStep, RestartTask, LoadFile, Split, StoreBlock, SendRows, WriteRows,
             ReturnResult, TaskRaises, OnlyTasks
<1>3. FlowInv'
  BY <1>1, <1>2, FlowKept DEF RowInv
<1>4. CASE WriteRows(t)
  <2>1. task[t] \in Items /\ rows' = Recorded(task[t])
    BY <1>4 DEF WriteRows, RowInv, TypeInv
  <2>2. \A b \in BlocksOf(task[t]) : rows'[b] > 0
    <3>1. \A b \in BlocksOf(task[t]) : rows[b] \in Nat
      BY DEF RowInv, TypeInv, TypeOK, BlocksOf
    <3> QED BY <2>1, <3>1 DEF Recorded, RowsOf, BlocksOf
  <2>3. \A u \in TaskIds : u # t /\ Reported(u)' => Reported(u)
    BY <1>4 DEF WriteRows, OnlyTasks, Reported, RowInv, TypeInv, TypeOK
  <2>4. ASSUME NEW u \in TaskIds, task'[u] # None, Reported(u)'
        PROVE  AllRows(task[u])'
    <3>1. CASE u = t
      BY <1>1, <2>2, <3>1 DEF AllRows
    <3>2. CASE u # t
      <4>1. task[u] \in Items /\ AllRows(task[u])
        BY <1>1, <2>3, <2>4, <3>2 DEF ReportInv, RowInv, TypeInv, TypeOK
      <4>2. \A b \in BlocksOf(task[u]) : rows'[b] > 0
        BY <4>1 DEF RowsKept, AllRows
      <4> QED BY <1>1, <4>2 DEF AllRows
    <3> QED BY <3>1, <3>2
  <2>5. poller' = "ended" => \A i \in Items : AllRows(i)'
    BY <1>1 DEF ReportInv, RowsKept
  <2> QED BY <1>3, <2>4, <2>5 DEF ReportInv, TaskIds
<1>5. CASE ~WriteRows(t)
  <2>1. \A u \in TaskIds : Reported(u)' => Reported(u)
    BY <1>5 DEF TaskStep, UpdateStats, RestartTask, LoadFile, Split, StoreBlock, SendRows, ReturnResult,
                TaskRaises, OnlyTasks, taskVars, Reported, RowInv, TypeInv, TypeOK
  <2> QED BY <1>1, <1>3, <2>1, ReportKept DEF RowInv
<1> QED BY <1>4, <1>5

(* All entries are done: no id is free, so no item is left.                *)
LEMMA AllDone ==
  ASSUME RowInv, FlowInv, ReportInv, \A t \in TaskIds : stats[t] = "done"
  PROVE  \A i \in Items : AllRows(i)
<1>1. Cardinality(Items) \in 0..Cardinality(Items) /\ Cardinality(Items) \in Nat
  BY TaskIdsType
<1>2. \A t \in TaskIds : stats[t] # "none" <=> t <= Cardinality(Items)
  BY <1>1, TaskIdsType
<1>3. NextId = Cardinality(Items) + 1
  BY <1>1, <1>2, NextIdIs
<1>4. Len(pending) = 0 /\ Cardinality(Upcoming) = 0
  BY <1>3, CountTypes DEF RowInv, FlowInv, CountInv
<1>5. Upcoming = {} /\ ToSet(pending) = {}
  <2>1. Upcoming = {}
    BY <1>4, UpcomingType, FS_EmptySet DEF RowInv, FlowInv
  <2>2. pending \in Seq(Items) /\ DOMAIN pending = {}
    BY <1>4, LenProperties DEF RowInv, TypeInv, TypeOK
  <2> QED BY <2>1, <2>2 DEF ToSet
<1> SUFFICES ASSUME NEW i \in Items PROVE AllRows(i)
  OBVIOUS
<1>6. PICK k \in 1..Len(Input) : i \in ToSet(Input[k])
  <2>1. DOMAIN Input = 1..Len(Input)
    BY PipelineAssumption, LenProperties
  <2> QED BY <2>1 DEF Items
<1>7. Taken \in Nat /\ Len(Input) \in Nat
  BY TakenType DEF RowInv, FlowInv
<1>8. k <= Taken
  <2>1. ~(k <= Taken) => k \in (Taken + 1)..Len(Input)
    BY <1>6, <1>7
  <2>2. k \in (Taken + 1)..Len(Input) => i \in Upcoming
    BY <1>6 DEF Upcoming
  <2> QED BY <1>5, <2>1, <2>2
<1>9. (\E t \in TaskIds : task[t] = i) \/ AllRows(i)
  <2>1. k \in 1..Taken
    BY <1>6, <1>7, <1>8
  <2> QED BY <1>5, <1>6, <2>1 DEF FlowInv, HandedInv
<1>10. ASSUME NEW t \in TaskIds, task[t] = i PROVE AllRows(i)
  <2>1. task[t] # None /\ Reported(t)
    BY <1>10, PipelineAssumption DEF Reported
  <2> QED BY <1>10, <2>1 DEF ReportInv
<1> QED BY <1>9, <1>10

FreshActor ==
  /\ piped = 0 /\ input_queue = <<>> /\ pending = <<>> /\ old = 0 /\ poller = "polling"
  /\ \A t \in TaskIds : stats[t] = "none" /\ task[t] = None

LEMMA FreshFlow == FreshActor => FlowInv /\ ReportInv
<1> SUFFICES ASSUME FreshActor PROVE FlowInv /\ ReportInv
  OBVIOUS
<1> USE DEF FreshActor
<1>1. Len(input_queue) = 0 /\ Len(pending) = 0 /\ Taken = 0
  <2>1. Len(input_queue) = 0
    OBVIOUS
  <2>2. Len(pending) = 0
    OBVIOUS
  <2>3. piped = 0 /\ Taken = piped - Len(input_queue)
    BY DEF Taken
  <2> HIDE DEF FreshActor
  <2> QED BY <2>1, <2>2, <2>3
<1>2. BatchInv
  BY <1>1 DEF BatchInv
<1>3. CountInv
  <2>1. 0 \in 0..Cardinality(Items) /\ \A t \in TaskIds : stats[t] # "none" <=> t <= 0
    BY TaskIdsType
  <2>2. NextId = 1
    BY <2>1, NextIdIs
  <2>3. Upcoming \subseteq Items
    <3>1. \A k \in (0 + 1)..Len(Input) : k \in 1..Len(Input)
      BY PipelineAssumption, LenProperties
    <3> QED BY <1>1, <3>1, BatchCounted DEF Upcoming
  <2>4. Cardinality(Upcoming) \in Nat /\ Cardinality(Upcoming) <= Cardinality(Items)
    BY <2>3, PipelineAssumption, FS_Subset, FS_CardinalityType
  <2> QED BY <1>1, <2>2, <2>4, TaskIdsType DEF CountInv
<1>4. HandedInv
  BY <1>1 DEF HandedInv
<1> QED BY <1>2, <1>3, <1>4 DEF FlowInv, ReportInv

LEMMA FreshFlowNext == FreshActor' => FlowInv' /\ ReportInv'
BY FreshFlow, PTL

LEMMA StepFlow ==
  ASSUME RowInv, FlowInv, ReportInv, [Next]_vars
  PROVE  FlowInv' /\ ReportInv'
<1>1. RowsKept
  BY StepKeepsRows DEF RowInv
<1>2. CASE PipeInput
  <2>1. UNCHANGED <<poller, stats, task, stage, reports>>
    BY <1>2 DEF PipeInput, taskVars
  <2> QED BY <1>1, <1>2, <2>1, PipeFlow, ReportKept DEF RowInv, Reported
<1>3. CASE \/ CallWaitToFinish \/ RunnerReturns \/ UNCHANGED vars \/ WriteLate
  <2>1. UNCHANGED <<piped, poller, input_queue, scheduler, pending, old, stats, task, stage, reports>>
    BY <1>3 DEF CallWaitToFinish, RunnerReturns, WriteLate, vars, runnerVars, queueVars, schedVars, taskVars
  <2> QED BY <1>1, <2>1, FlowKept, ReportKept DEF RowInv, Reported
<1>4. CASE Poll
  <2>1. UNCHANGED <<piped, input_queue, scheduler, pending, old, stats, task, stage, reports, rows>>
    BY <1>4 DEF Poll, queueVars, schedVars, taskVars
  <2>2. FlowInv'
    BY <1>1, <2>1, FlowKept DEF RowInv
  <2>3. poller' = "ended" => \A i \in Items : AllRows(i)
    BY <1>4, AllDone DEF Poll
  <2> QED BY <2>1, <2>2, <2>3 DEF ReportInv, Reported, AllRows, TaskIds
<1>5. ASSUME NEW w \in Waiters, WaiterStep(w)
      PROVE  FlowInv' /\ ReportInv'
  <2>1. UNCHANGED <<piped, poller, input_queue, scheduler, pending, old, stats, task, stage, reports>>
    BY <1>5 DEF WaiterStep, ProcessResults, StopPipeline, ProcessOne, Unblock, runnerVars, queueVars,
                schedVars, taskVars
  <2> QED BY <1>1, <2>1, FlowKept, ReportKept DEF RowInv, Reported
<1>6. CASE RunnerDies
  <2>1. /\ UNCHANGED <<piped, poller, input_queue, scheduler, pending, old, stats, task>>
        /\ reports' = {} /\ \A t \in TaskIds : stage'[t] = "none"
    BY <1>6 DEF RunnerDies, Fresh, queueVars, schedVars
  <2>2. \A t \in TaskIds : Reported(t)' => Reported(t)
    BY <2>1 DEF Reported
  <2> QED BY <1>1, <2>1, <2>2, FlowKept, ReportKept DEF RowInv
<1>7. CASE RunAgain
  <2>1. FreshActor'
    BY <1>7 DEF RunAgain, Fresh, FreshActor, TaskIds
  <2> QED BY <2>1, FreshFlowNext
<1> QED BY <1>1, <1>2, <1>3, <1>4, <1>5, <1>6, <1>7, SchedulerFlow, TaskFlow DEF Next, RunnerStep

LEMMA FlowInvariant == Spec => [](RowInv /\ FlowInv /\ ReportInv)
<1>1. Init => FlowInv /\ ReportInv
  BY FreshFlow DEF Init, Fresh, FreshActor
<1>2. RowInv /\ FlowInv /\ ReportInv /\ [Next]_vars => (FlowInv /\ ReportInv)'
  BY StepFlow
<1> QED BY <1>1, <1>2, RowInvariant, PTL DEF Spec

(* While the actor runs and _schedule_tasks has not raised, an item that   *)
(* was piped is in the queue, pending, in a task, or recorded              *)
(* (pipeline.py:131-179).                                                  *)
THEOREM NoItemLost == Spec => []ItemsAccounted
<1>1. RowInv /\ FlowInv => ItemsAccounted
  <2> SUFFICES ASSUME RowInv, FlowInv, NEW i \in Piped
               PROVE  \/ i \in InQueue \cup ToSet(pending)
                      \/ \E t \in TaskIds : task[t] = i
                      \/ ~IsNew(i)
    BY DEF ItemsAccounted
  <2>1. PICK k \in 1..piped : i \in ToSet(Input[k])
    BY DEF Piped
  <2>2. /\ Taken \in 0..Len(Input) /\ Len(Input) \in Nat /\ Len(input_queue) \in Nat
        /\ piped = Taken + Len(input_queue) /\ piped \in 0..Len(Input)
    BY TakenType DEF RowInv, FlowInv
  <2>3. i \in Items
    BY <2>1, <2>2, BatchCounted
  <2>4. CASE k <= Taken
    <3>1. k \in 1..Taken
      BY <2>1, <2>2, <2>4
    <3>2. i \in ToSet(pending) \/ (\E t \in TaskIds : task[t] = i) \/ AllRows(i)
      BY <2>1, <3>1 DEF FlowInv, HandedInv
    <3> QED BY <2>3, <3>2, NotNew
  <2>5. CASE ~(k <= Taken)
    <3>1. k - Taken \in 1..Len(input_queue) /\ Taken + (k - Taken) = k
      BY <2>1, <2>2, <2>5
    <3>2. input_queue[k - Taken] = Input[k]
      BY <3>1 DEF FlowInv, BatchInv
    <3>3. DOMAIN input_queue = 1..Len(input_queue)
      BY LenProperties DEF RowInv, TypeInv, TypeOK
    <3>4. i \in InQueue
      BY <2>1, <3>1, <3>2, <3>3 DEF InQueue
    <3> QED BY <3>4
  <2> QED BY <2>4, <2>5
<1> QED BY <1>1, FlowInvariant, PTL

(* When the progress bars are complete, every item of the input has all    *)
(* its rows (pipeline.py:99, sql/client.py:40-62).                         *)
THEOREM PollEndIsTrue == Spec => []PollEndsRecorded
<1>1. ReportInv => PollEndsRecorded
  <2>1. \A b \in Blocks : b[1] \in Items /\ b \in BlocksOf(b[1])
    BY DEF Blocks, BlocksOf
  <2> QED BY <2>1 DEF ReportInv, AllRows, PollEndsRecorded
<1> QED BY <1>1, FlowInvariant, PTL

=============================================================================
