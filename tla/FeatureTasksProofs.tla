------------------------- MODULE FeatureTasksProofs -------------------------
(***************************************************************************)
(* Theorems about FeatureTasks, for any task graph, any parallelism and    *)
(* any faults and deletes: the bound on executing nodes, the rows and the  *)
(* files of blocks, what a run that ended has stored, and the cache.       *)
(***************************************************************************)
EXTENDS FeatureTasks, FiniteSetTheorems, SequenceTheorems, TLAPS

-----------------------------------------------------------------------------
(* Type correctness.  Only blocks that are to be stored come to the steps  *)
(* that store.                                                             *)

TypeInv ==
  /\ TypeOK
  /\ \A t \in Tasks : at[t] \in {"exists", "store", "row"} => t[2] \in ToStore

LEMMA TaskFacts ==
  ASSUME NEW t \in Tasks
  PROVE  t[1] \in Roots /\ t[2] \in Blocks
BY DEF Tasks

LEMMA InitType == Init => TypeInv
<1> SUFFICES ASSUME Init PROVE TypeInv
  OBVIOUS
<1>1. /\ executor = "schedule" /\ scheduled \in 0..Len(Nodes)
      /\ runs \in 1..MaxRuns /\ faults \in 0..MaxFaults /\ deletes \in 0..MaxDeletes
  <2>1. Len(Nodes) \in Nat
    BY FeatureTasksAssumption, LenProperties
  <2> QED BY <2>1, FeatureTasksAssumption DEF Init
<1>2. /\ root \in [Roots -> RootStates] /\ at \in [Tasks -> TaskStates]
      /\ should_cache \in [Tasks -> BOOLEAN]
  BY DEF Init, RootStates, TaskStates, Finished
<1>3. ref_counter \in [Blocks -> Nat \ {0}] /\ rows \in [FeatureBlocks -> Nat]
  BY FeatureTasksAssumption DEF Init
<1>4. \A t \in Tasks : at[t] = "none"
  BY DEF Init
<1>5. /\ executing = {} /\ results = {} /\ load = {} /\ counted \in BOOLEAN /\ obj_ref = {}
      /\ files = {} /\ late = {} /\ deleter = "idle" /\ paths = {} /\ restarted = {} /\ bare = {}
  BY DEF Init
<1> QED BY <1>1, <1>2, <1>3, <1>4, <1>5 DEF TypeInv, TypeOK

LEMMA NextNode ==
  ASSUME TypeOK, scheduled < Len(Nodes)
  PROVE  /\ Nodes[scheduled + 1] \in Roots /\ scheduled + 1 \in 1..Len(Nodes)
         /\ DOMAIN Nodes = 1..Len(Nodes) /\ scheduled + 1 \in 0..Len(Nodes)
<1>1. /\ Nodes \in Seq(Roots) /\ Len(Nodes) \in Nat /\ DOMAIN Nodes = 1..Len(Nodes)
  BY FeatureTasksAssumption, LenProperties
<1>2. scheduled \in Nat /\ scheduled + 1 \in 1..Len(Nodes) /\ scheduled + 1 \in 0..Len(Nodes)
  BY <1>1 DEF TypeOK
<1> QED BY <1>1, <1>2, ElementOfSeq

LEMMA ExecutorType ==
  ASSUME TypeInv, ExecutorStep
  PROVE  TypeInv'
<1> USE DEF TypeInv, cacheVars, storeVars, delVars, pastVars, taskVars
<1>1. CASE ScheduleNode
  <2>1. UNCHANGED <<results, load, should_cache, cacheVars, storeVars, delVars, pastVars>>
        /\ executor' = "collect"
    BY <1>1 DEF ScheduleNode
  <2>2. CASE UNCHANGED <<executing, root, at, scheduled>>
    BY <2>1, <2>2 DEF TypeOK
  <2>3. CASE HasRoom /\ scheduled' = scheduled + 1
    <3> DEFINE r == Nodes[scheduled + 1]
    <3>1. r \in Roots /\ scheduled' \in 0..Len(Nodes)
      BY <1>1, <2>3, NextNode DEF ScheduleNode
    <3>2. /\ executing' = executing \cup {r}
          /\ root' = [root EXCEPT ![r] = "running"]
          /\ at' = [t \in Tasks |->
                      IF t[1] = r /\ t[2] \in Below(r, load) THEN "check" ELSE at[t]]
      BY <1>1, <2>3, NextNode DEF ScheduleNode, TypeOK
    <3> HIDE DEF r
    <3>3. /\ executing' \subseteq Roots /\ root' \in [Roots -> RootStates]
          /\ at' \in [Tasks -> TaskStates]
          /\ \A t \in Tasks : at'[t] \in {at[t], "check"}
      BY <3>1, <3>2 DEF TypeOK, RootStates, TaskStates, Finished
    <3> QED BY <2>1, <3>1, <3>3 DEF TypeOK
  <2> QED BY <1>1, <2>2, <2>3 DEF ScheduleNode
<1>2. CASE CollectOne \/ Drain \/ GetResults
  <2>1. /\ executor' \in {"schedule", "drain", "get", "ended", "failed"}
        /\ executing' \subseteq Roots /\ results' \subseteq Roots
    BY <1>2 DEF CollectOne, Drain, GetResults, Collect, Ready, TypeOK
  <2>2. UNCHANGED <<scheduled, load, taskVars, cacheVars, storeVars, delVars, pastVars>>
    BY <1>2 DEF CollectOne, Drain, GetResults
  <2> QED BY <2>1, <2>2 DEF TypeOK
<1> QED BY <1>1, <1>2 DEF ExecutorStep

LEMMA AfterCacheType ==
  ASSUME TypeInv, NEW t \in Tasks
  PROVE  AfterCache(t) \in {"exists", "done"} /\ (AfterCache(t) = "exists" => t[2] \in ToStore)
BY DEF AfterCache

LEMMA TaskType ==
  ASSUME TypeInv, NEW t \in Tasks, TaskStep(t) \/ TaskRaises(t) \/ RestartTask(t)
  PROVE  TypeInv'
<1> USE DEF TypeInv, OnlyTasks, execVars, cacheVars, storeVars, delVars, pastVars
<1> DEFINE b == t[2]
<1>1. b \in Blocks
  BY TaskFacts
<1>2. UNCHANGED <<execVars, root, delVars, counted, runs>>
  BY DEF TaskStep, CheckCache, Work, CacheBlock, TestExists, StoreFile, StoreRow, TaskRaises,
         RestartTask
<1>3. /\ faults' \in 0..MaxFaults
      /\ restarted' \subseteq Blocks
      /\ obj_ref' \subseteq Blocks
      /\ should_cache' \in [Tasks -> BOOLEAN]
  <2>1. faults' \in 0..MaxFaults
    BY FeatureTasksAssumption
    DEF TypeOK, Fault, TaskStep, CheckCache, Work, CacheBlock, TestExists, StoreFile, StoreRow,
        TaskRaises, RestartTask
  <2>2. restarted' \subseteq Blocks /\ obj_ref' \subseteq Blocks
    BY <1>1 DEF TypeOK, TaskStep, CheckCache, Work, CacheBlock, TestExists, StoreFile, StoreRow,
                TaskRaises, RestartTask
  <2>3. CASE UNCHANGED should_cache
    BY <2>1, <2>2, <2>3 DEF TypeOK
  <2>4. CASE CheckCache(t)
    <3>1. ShouldCache(b) \in BOOLEAN
      BY DEF ShouldCache, TypeOK
    <3> QED BY <2>1, <2>2, <2>4, <3>1 DEF TypeOK, CheckCache
  <2> QED BY <2>3, <2>4 DEF TaskStep, Work, CacheBlock, TestExists, StoreFile, StoreRow,
                            TaskRaises, RestartTask
<1>4. ref_counter' \in [Blocks -> Nat \ {0}]
  <2>1. CASE UNCHANGED ref_counter
    BY <2>1 DEF TypeOK
  <2>2. CASE CheckCache(t)
    <3>1. Decreased(b) \in Nat \ {0}
      BY <1>1 DEF Decreased, TypeOK
    <3> QED BY <1>1, <2>2, <3>1 DEF CheckCache, TypeOK
  <2> QED BY <2>1, <2>2 DEF TaskStep, Work, CacheBlock, TestExists, StoreFile, StoreRow,
                            TaskRaises, RestartTask
<1>5. /\ rows' \in [FeatureBlocks -> Nat] /\ files' \subseteq FeatureBlocks
      /\ late' \subseteq FeatureBlocks /\ bare' \subseteq FeatureBlocks
  <2>1. CASE UNCHANGED <<rows, files, late, bare>>
    BY <2>1 DEF TypeOK
  <2>2. CASE StoreFile(t) \/ StoreRow(t)
    <3>1. b \in FeatureBlocks
      BY <2>2, FeatureTasksAssumption DEF StoreFile, StoreRow
    <3>2. CASE StoreFile(t)
      BY <3>1, <3>2 DEF StoreFile, TypeOK
    <3>3. CASE StoreRow(t)
      BY <3>1, <3>3 DEF StoreRow, Recorded, TypeOK
    <3> QED BY <2>2, <3>2, <3>3
  <2>3. CASE RestartTask(t)
    <3>1. at[t] = "row" => b \in FeatureBlocks
      BY FeatureTasksAssumption
    <3> QED BY <2>3, <3>1 DEF RestartTask, TypeOK
  <2> QED BY <2>1, <2>2, <2>3 DEF TaskStep, CheckCache, Work, CacheBlock, TestExists, TaskRaises
<1>6. PICK s \in TaskStates : /\ at' = [at EXCEPT ![t] = s]
                              /\ s \in {"exists", "store", "row"} => b \in ToStore
  BY AfterCacheType
  DEF TaskStates, Finished, Goto, TaskStep, CheckCache, Work, CacheBlock, TestExists, StoreFile, StoreRow,
      TaskRaises, RestartTask
<1>7. /\ at' \in [Tasks -> TaskStates]
      /\ \A u \in Tasks : at'[u] \in {"exists", "store", "row"} => u[2] \in ToStore
  BY <1>6 DEF TypeOK
<1> QED BY <1>2, <1>3, <1>4, <1>5, <1>7 DEF TypeOK

LEMMA JoinType ==
  ASSUME TypeInv, NEW r \in Roots, JoinBlocks(r)
  PROVE  TypeInv'
<1>1. root' \in [Roots -> RootStates]
  BY DEF JoinBlocks, TypeInv, TypeOK, RootStates
<1> QED BY <1>1 DEF JoinBlocks, TypeInv, TypeOK, execVars, cacheVars, storeVars, delVars, pastVars

LEMMA LateType ==
  ASSUME TypeInv, NEW b \in FeatureBlocks, WriteLate(b)
  PROVE  TypeInv'
<1>1. rows' \in [FeatureBlocks -> Nat] /\ late' \subseteq FeatureBlocks
  BY DEF WriteLate, Recorded, TypeInv, TypeOK
<1> QED BY <1>1 DEF WriteLate, TypeInv, TypeOK, execVars, taskVars, cacheVars, delVars, pastVars

LEMMA DeleteType ==
  ASSUME TypeInv, DeleteStep
  PROVE  TypeInv'
<1>1. UNCHANGED <<execVars, taskVars, cacheVars, late, restarted, runs>>
  BY DEF DeleteStep, FindPaths, DeleteFiles, DeleteRows, DeleteRaises, OnlyDelete
<1>2. /\ deleter' \in {"idle", "files", "rows"} /\ paths' \subseteq FeatureBlocks
      /\ bare' \subseteq FeatureBlocks /\ files' \subseteq FeatureBlocks
      /\ rows' \in [FeatureBlocks -> Nat]
  <2> USE DEF TypeInv, TypeOK
  <2>1. CASE FindPaths
    BY <2>1 DEF FindPaths, StoredBlocks
  <2>2. CASE DeleteFiles
    BY <2>2 DEF DeleteFiles
  <2>3. CASE DeleteRows
    BY <2>3 DEF DeleteRows
  <2>4. CASE DeleteRaises
    BY <2>4 DEF DeleteRaises
  <2> QED BY <2>1, <2>2, <2>3, <2>4 DEF DeleteStep
<1>3. faults' \in 0..MaxFaults /\ deletes' \in 0..MaxDeletes
  BY FeatureTasksAssumption
  DEF DeleteStep, FindPaths, DeleteFiles, DeleteRows, DeleteRaises, Fault, TypeInv, TypeOK
<1> QED BY <1>1, <1>2, <1>3 DEF TypeInv, TypeOK, execVars, taskVars, cacheVars

LEMMA AgainType ==
  ASSUME TypeInv, RunAgain
  PROVE  TypeInv'
<1>1. /\ executor' = "schedule" /\ scheduled' \in 0..Len(Nodes) /\ runs' \in 1..MaxRuns
  <2>1. Len(Nodes) \in Nat
    BY FeatureTasksAssumption, LenProperties
  <2> QED BY <2>1, FeatureTasksAssumption DEF RunAgain, TypeInv, TypeOK
<1>2. /\ root' \in [Roots -> RootStates] /\ at' \in [Tasks -> TaskStates]
      /\ should_cache' \in [Tasks -> BOOLEAN] /\ \A t \in Tasks : at'[t] = "none"
  BY DEF RunAgain, RootStates, TaskStates, Finished
<1>3. ref_counter' \in [Blocks -> Nat \ {0}]
  BY FeatureTasksAssumption DEF RunAgain
<1>4. /\ executing' = {} /\ results' = {} /\ load' \subseteq FeatureBlocks
      /\ obj_ref' = {} /\ restarted' = {}
      /\ UNCHANGED <<counted, rows, files, delVars, bare, faults>>
  BY DEF RunAgain, StoredBlocks
<1>5. late' \subseteq FeatureBlocks
  <2>1. \A t \in Tasks : at[t] = "row" => t[2] \in FeatureBlocks
    BY FeatureTasksAssumption DEF TypeInv
  <2> QED BY <2>1 DEF RunAgain, TypeInv, TypeOK
<1> QED BY <1>1, <1>2, <1>3, <1>4, <1>5 DEF TypeInv, TypeOK, delVars

LEMMA StepType ==
  ASSUME TypeInv, [Next]_vars
  PROVE  TypeInv'
<1>1. CASE UNCHANGED vars
  BY <1>1 DEF vars, TypeInv, TypeOK, execVars, taskVars, cacheVars, storeVars, delVars, pastVars
<1> QED BY <1>1, ExecutorType, TaskType, JoinType, LateType, DeleteType, AgainType DEF Next

(* The state of the executor, of the tasks, of the cache actor and of the  *)
(* catalog is well-formed at all times.                                    *)
THEOREM TypeCorrect == Spec => []TypeOK
<1>1. TypeInv => TypeOK
  BY DEF TypeInv
<1> QED BY <1>1, InitType, StepType, PTL DEF Spec

-----------------------------------------------------------------------------
(* The nodes that are started are those the executor knows of; a node is   *)
(* started once, because none comes twice in the graph.                    *)

Known == executing \cup results

ExecInv ==
  /\ Known = {Nodes[i] : i \in 1..scheduled}
  /\ executor \in {"drain", "get", "ended"} => scheduled = Len(Nodes)
  /\ executor \in {"get", "ended"} => executing = {}
  /\ \A r \in Roots : root[r] = "none" <=> r \notin Known
  /\ \A r \in results : root[r] \in {"done", "failed"}
  /\ executor = "ended" => \A r \in results : root[r] = "done"
  /\ IsFiniteSet(executing) /\ Cardinality(executing) <= Parallelism

LEMMA InitExec == Init => ExecInv
<1> SUFFICES ASSUME Init PROVE ExecInv
  OBVIOUS
<1>1. Known = {} /\ scheduled = 0
  BY DEF Init, Known
<1>2. {Nodes[i] : i \in 1..scheduled} = {}
  BY <1>1
<1> QED BY <1>1, <1>2, FS_EmptySet, FeatureTasksAssumption DEF Init, ExecInv

LEMMA CollectFinished ==
  ASSUME TypeInv, ExecInv, NEW rs \in SUBSET Ready, Collect(rs)
  PROVE  /\ Known' = Known /\ executing' \subseteq executing
         /\ \A r \in results' : root[r] \in {"done", "failed"}
         /\ IsFiniteSet(executing') /\ Cardinality(executing') <= Parallelism
<1>1. Known' = Known /\ executing' \subseteq executing
  BY DEF Known, Collect, Ready
<1>2. \A r \in results' : root[r] \in {"done", "failed"}
  BY DEF Collect, Ready, ExecInv
<1>3. IsFiniteSet(executing') /\ Cardinality(executing') <= Cardinality(executing)
  BY <1>1, FS_Subset DEF ExecInv
<1>4. Cardinality(executing) \in Nat /\ Cardinality(executing') \in Nat
  BY <1>3, FS_CardinalityType DEF ExecInv
<1> QED BY <1>1, <1>2, <1>3, <1>4, FeatureTasksAssumption DEF ExecInv

LEMMA FreshNode ==
  ASSUME TypeInv, ExecInv, scheduled < Len(Nodes)
  PROVE  Nodes[scheduled + 1] \notin Known
<1>1. /\ DOMAIN Nodes = 1..Len(Nodes) /\ scheduled + 1 \in 1..Len(Nodes) /\ scheduled \in Nat
  BY NextNode DEF TypeInv, TypeOK
<1>2. \A i \in 1..scheduled : i \in DOMAIN Nodes /\ i # scheduled + 1
  BY <1>1
<1>3. IsInjective(Nodes)
  BY FeatureTasksAssumption
<1>4. \A i, j \in DOMAIN Nodes : Nodes[i] = Nodes[j] => i = j
  BY <1>3 DEF IsInjective
<1>5. scheduled + 1 \in DOMAIN Nodes
  BY <1>1
<1>6. \A i \in 1..scheduled : Nodes[i] # Nodes[scheduled + 1]
  BY <1>2, <1>4, <1>5
<1> QED BY <1>6 DEF ExecInv

LEMMA ScheduleExec ==
  ASSUME TypeInv, ExecInv, ScheduleNode
  PROVE  ExecInv'
<1> DEFINE r == Nodes[scheduled + 1]
<1>1. /\ scheduled < Len(Nodes) /\ executor' = "collect" /\ results' = results
      /\ DOMAIN Nodes = 1..Len(Nodes) /\ scheduled + 1 \in 1..Len(Nodes) /\ r \in Roots
      /\ scheduled \in Nat
  BY NextNode DEF ScheduleNode, TypeInv, TypeOK
<1>2. CASE UNCHANGED <<executing, root, at, scheduled>>
  BY <1>1, <1>2 DEF ExecInv, Known
<1>3. CASE /\ HasRoom
           /\ executing' = executing \cup {r} /\ scheduled' = scheduled + 1
           /\ root' = [root EXCEPT ![r] = "running"]
  <2>1. r \notin Known
    BY <1>1, FreshNode
  <2>2. Known' = Known \cup {r}
    BY <1>1, <1>3 DEF Known
  <2>3. 1..(scheduled + 1) = (1..scheduled) \cup {scheduled + 1}
    BY <1>1
  <2>4. Known' = {Nodes[i] : i \in 1..scheduled'}
    BY <1>3, <2>2, <2>3 DEF ExecInv
  <2>5. /\ IsFiniteSet(executing')
        /\ Cardinality(executing') <= Cardinality(executing) + 1
        /\ Cardinality(executing) \in Nat
    <3> HIDE DEF r
    <3>1. IsFiniteSet(executing) /\ Cardinality(executing) \in Nat
      BY FS_CardinalityType DEF ExecInv
    <3>2. /\ IsFiniteSet(executing \cup {r})
          /\ Cardinality(executing \cup {r}) =
               IF r \in executing THEN Cardinality(executing) ELSE Cardinality(executing) + 1
      BY <3>1, FS_AddElement
    <3>3. executing' = executing \cup {r}
      BY <1>3
    <3> QED BY <3>1, <3>2, <3>3
  <2>6. Cardinality(executing) < Parallelism
    BY <1>3 DEF HasRoom
  <2>7. Cardinality(executing') \in Nat
    BY <2>5, FS_CardinalityType
  <2>8. Cardinality(executing') <= Parallelism
    BY <2>5, <2>6, <2>7, FeatureTasksAssumption
  <2>9. root \in [Roots -> RootStates]
    BY DEF TypeInv, TypeOK
  <2> HIDE DEF r
  <2>10. \A q \in Roots : root'[q] = "none" <=> q \notin Known'
    BY <1>1, <1>3, <2>2, <2>9 DEF ExecInv
  <2>11. \A q \in results' : root'[q] \in {"done", "failed"}
    <3>1. \A q \in results : q # r /\ q \in Roots
      BY <2>1 DEF Known, TypeInv, TypeOK
    <3> QED BY <1>1, <1>3, <2>9, <3>1 DEF ExecInv
  <2> QED BY <1>1, <2>4, <2>5, <2>8, <2>10, <2>11 DEF ExecInv
<1> QED BY <1>2, <1>3 DEF ScheduleNode

LEMMA StepExec ==
  ASSUME TypeInv, ExecInv, [Next]_vars
  PROVE  ExecInv'
<1>1. CASE UNCHANGED <<executor, scheduled, executing, results, root>>
  BY <1>1 DEF ExecInv, Known
<1>2. CASE ScheduleNode
  BY <1>2, ScheduleExec
<1>3. CASE CollectOne
  <2>1. PICK rs \in SUBSET Ready : Collect(rs)
    BY <1>3 DEF CollectOne
  <2>2. UNCHANGED <<scheduled, root>> /\ executor' \in {"schedule", "drain"}
    BY <1>3 DEF CollectOne, taskVars
  <2>3. executor' = "drain" => scheduled = Len(Nodes)
    <3>1. Len(Nodes) \in Nat
      BY FeatureTasksAssumption, LenProperties
    <3> QED BY <1>3, <3>1 DEF CollectOne, TypeInv, TypeOK
  <2> QED BY <2>1, <2>2, <2>3, CollectFinished DEF ExecInv
<1>4. CASE Drain
  <2>1. UNCHANGED <<scheduled, root>> /\ executor = "drain"
    BY <1>4 DEF Drain, taskVars
  <2>2. CASE executing = {} /\ executor' = "get" /\ UNCHANGED <<executing, results>>
    BY <2>1, <2>2 DEF ExecInv, Known
  <2>3. CASE Collect(Ready) /\ UNCHANGED executor
    BY <2>1, <2>3, CollectFinished DEF ExecInv
  <2> QED BY <1>4, <2>2, <2>3 DEF Drain
<1>5. CASE GetResults
  <2>1. /\ UNCHANGED <<scheduled, executing, results, root>>
        /\ executor = "get" /\ executor' \in {"ended", "failed"}
        /\ executor' = "ended" => \A r \in results : root[r] # "failed"
    BY <1>5 DEF GetResults, taskVars
  <2> QED BY <2>1 DEF ExecInv, Known
<1>6. ASSUME NEW t \in Tasks, TaskStep(t) \/ TaskRaises(t) \/ RestartTask(t)
      PROVE  ExecInv'
  <2>1. UNCHANGED <<executor, scheduled, executing, results, root>>
    BY <1>6 DEF TaskStep, CheckCache, Work, CacheBlock, TestExists, StoreFile, StoreRow,
                TaskRaises, RestartTask, OnlyTasks, execVars
  <2> QED BY <1>1, <2>1
<1>7. ASSUME NEW r \in Roots, JoinBlocks(r)
      PROVE  ExecInv'
  <2>1. UNCHANGED <<executor, scheduled, executing, results>> /\ root[r] = "running"
    BY <1>7 DEF JoinBlocks, execVars
  <2>2. \/ root' = [root EXCEPT ![r] = "done"]
        \/ root' = [root EXCEPT ![r] = "failed"]
    BY <1>7 DEF JoinBlocks
  <2>3. r \notin results
    BY <2>1 DEF ExecInv
  <2>4. root \in [Roots -> RootStates] /\ results \subseteq Roots
    BY DEF TypeInv, TypeOK
  <2>5. \A q \in Roots : q # r => root'[q] = root[q]
    BY <2>2, <2>4
  <2>6. root'[r] \in {"done", "failed"}
    BY <2>2, <2>4
  <2> QED BY <2>1, <2>3, <2>4, <2>5, <2>6 DEF ExecInv, Known
<1>8. CASE DeleteStep \/ UNCHANGED vars
  <2>1. UNCHANGED <<executor, scheduled, executing, results, root>>
    BY <1>8 DEF DeleteStep, FindPaths, DeleteFiles, DeleteRows, DeleteRaises, OnlyDelete, vars,
                execVars, taskVars
  <2> QED BY <1>1, <2>1
<1>9. ASSUME NEW b \in FeatureBlocks, WriteLate(b)
       PROVE  ExecInv'
  <2>1. UNCHANGED <<executor, scheduled, executing, results, root>>
    BY <1>9 DEF WriteLate, execVars, taskVars
  <2> QED BY <1>1, <2>1
<1>10. CASE RunAgain
  <2>1. /\ executor' = "schedule" /\ scheduled' = 0 /\ executing' = {} /\ results' = {}
        /\ root' = [r \in Roots |-> "none"]
    BY <1>10 DEF RunAgain
  <2>2. {Nodes[i] : i \in 1..scheduled'} = {} /\ Known' = {}
    BY <2>1 DEF Known
  <2> QED BY <2>1, <2>2, FS_EmptySet, FeatureTasksAssumption DEF ExecInv
<1> QED BY <1>2, <1>3, <1>4, <1>5, <1>6, <1>7, <1>8, <1>9, <1>10 DEF Next, ExecutorStep

(* The executor never starts more nodes than parallelism allows, and loses *)
(* none: what it has started it waits for or has the result of.            *)
THEOREM NeverTooMany == Spec => []ParallelismBounded
<1>1. TypeInv /\ ExecInv => ParallelismBounded
  <2> SUFFICES ASSUME TypeInv, ExecInv PROVE ParallelismBounded
    OBVIOUS
  <2>1. \A r \in Running : r \in Known /\ r \notin results
    BY DEF Running, ExecInv
  <2> QED BY <2>1 DEF ParallelismBounded, Known, ExecInv
<1> QED BY <1>1, InitType, StepType, InitExec, StepExec, PTL DEF Spec

-----------------------------------------------------------------------------
(* A task of a block moves alone: the other tasks stay where they are.     *)

Moves(t) == TaskStep(t) \/ TaskRaises(t) \/ RestartTask(t)

LEMMA OneTaskMoves ==
  ASSUME TypeInv, NEW t \in Tasks, Moves(t)
  PROVE  /\ \A u \in Tasks : u # t => at'[u] = at[u]
         /\ \A u \in Tasks : u # t => should_cache'[u] = should_cache[u]
         /\ at[t] \notin Finished \cup {"none", "failed"}
         /\ UNCHANGED <<execVars, root, delVars, counted, runs>>
<1>1. at \in [Tasks -> TaskStates] /\ should_cache \in [Tasks -> BOOLEAN]
  BY DEF TypeInv, TypeOK
<1>2. PICK s : at' = [at EXCEPT ![t] = s]
  BY DEF Moves, Goto, TaskStep, CheckCache, Work, CacheBlock, TestExists, StoreFile, StoreRow,
         TaskRaises, RestartTask
<1>3. \A u \in Tasks : u # t => should_cache'[u] = should_cache[u]
  BY <1>1 DEF Moves, TaskStep, CheckCache, Work, CacheBlock, TestExists, StoreFile, StoreRow,
              TaskRaises, RestartTask
<1>4. at[t] \notin Finished \cup {"none", "failed"}
  BY DEF Moves, Finished, TaskStep, CheckCache, Work, CacheBlock, TestExists, StoreFile, StoreRow,
         TaskRaises, RestartTask
<1>5. UNCHANGED <<execVars, root, delVars, counted, runs>>
  BY DEF Moves, TaskStep, CheckCache, Work, CacheBlock, TestExists, StoreFile, StoreRow,
         TaskRaises, RestartTask, OnlyTasks, cacheVars, pastVars
<1> QED BY <1>1, <1>2, <1>3, <1>4, <1>5

-----------------------------------------------------------------------------
(* The file of a block is there before its row, unless a delete has taken  *)
(* it in between.                                                          *)

FileInv ==
  /\ RowsMatchFiles
  /\ \A b \in FeatureBlocks : Recording(b) => b \in files \cup bare

LEMMA TaskFiles ==
  ASSUME TypeInv, FileInv, NEW t \in Tasks, Moves(t)
  PROVE  FileInv'
<1> USE DEF FileInv, RowsMatchFiles
<1>1. /\ \A u \in Tasks : u # t => at'[u] = at[u]
      /\ UNCHANGED <<deleter, paths>>
  BY OneTaskMoves DEF delVars
<1>2. at \in [Tasks -> TaskStates] /\ rows \in [FeatureBlocks -> Nat]
  BY DEF TypeInv, TypeOK
<1>3. CASE StoreFile(t)
  <2>1. /\ files' = files \cup {t[2]} /\ bare' = bare \ {t[2]} /\ UNCHANGED <<rows, late>>
    BY <1>3 DEF StoreFile
  <2>2. \A b \in FeatureBlocks : Recording(b)' => Recording(b) \/ b = t[2]
    BY <1>1, <2>1 DEF Recording
  <2> QED BY <1>1, <2>1, <2>2
<1>4. CASE StoreRow(t)
  <2>1. t[2] \in FeatureBlocks /\ at[t] = "row" /\ Recording(t[2])
    BY <1>4, FeatureTasksAssumption DEF StoreRow, Recording, TypeInv
  <2>2. /\ rows' = [rows EXCEPT ![t[2]] = Recorded(t[2])] /\ at'[t] = "done"
        /\ UNCHANGED <<files, late, bare>>
    BY <1>2, <1>4 DEF StoreRow, Goto, pastVars
  <2>3. Recorded(t[2]) <= 1
    BY <1>2, <2>1 DEF Recorded
  <2>4. \A b \in FeatureBlocks : b # t[2] => rows'[b] = rows[b]
    BY <1>2, <2>1, <2>2
  <2>5. rows'[t[2]] <= 1
    BY <1>2, <2>1, <2>2, <2>3
  <2>6. \A b \in FeatureBlocks : Recording(b)' => Recording(b)
    BY <1>1, <2>2 DEF Recording
  <2> QED BY <1>1, <2>1, <2>2, <2>4, <2>5, <2>6
<1>5. CASE \/ CheckCache(t) \/ Work(t) \/ CacheBlock(t) \/ TestExists(t) \/ TaskRaises(t)
           \/ RestartTask(t)
  <2>1. UNCHANGED <<rows, files, bare>>
    BY <1>5 DEF CheckCache, Work, CacheBlock, TestExists, TaskRaises, RestartTask, storeVars,
                pastVars
  <2>2. at'[t] # "row"
    BY <1>5, AfterCacheType DEF CheckCache, Work, CacheBlock, TestExists, TaskRaises,
       RestartTask, Goto, TypeInv, TypeOK
  <2>3. late' = late \/ (at[t] = "row" /\ late' = late \cup {t[2]})
    BY <1>5 DEF CheckCache, Work, CacheBlock, TestExists, TaskRaises, RestartTask, storeVars
  <2>4. \A b \in FeatureBlocks : Recording(b)' => Recording(b)
    BY <1>1, <2>2, <2>3 DEF Recording
  <2> QED BY <1>1, <2>1, <2>4
<1> QED BY <1>3, <1>4, <1>5 DEF Moves, TaskStep

LEMMA DeleteFilesRows ==
  ASSUME TypeInv, FileInv, DeleteStep
  PROVE  FileInv'
<1> USE DEF FileInv, RowsMatchFiles
<1>1. \A b : Recording(b)' <=> Recording(b)
  BY DEF DeleteStep, FindPaths, DeleteFiles, DeleteRows, DeleteRaises, OnlyDelete, taskVars,
         Recording
<1>2. CASE FindPaths
  BY <1>1, <1>2 DEF FindPaths
<1>3. CASE DeleteFiles
  <2>1. /\ files' = files \ paths /\ bare' = bare \cup {b \in paths : Recording(b)}
        /\ deleter' = "rows" /\ UNCHANGED <<paths, rows>>
    BY <1>3 DEF DeleteFiles
  <2>2. deleter # "rows"
    BY <1>3 DEF DeleteFiles
  <2> QED BY <1>1, <2>1, <2>2
<1>4. CASE DeleteRows
  <2>1. /\ rows' = [b \in FeatureBlocks |-> 0] /\ bare' = {b \in bare : Recording(b)}
        /\ UNCHANGED files
    BY <1>4 DEF DeleteRows
  <2> QED BY <1>1, <2>1
<1>5. CASE DeleteRaises
  <2>1. bare' = bare \cup (paths \ files') /\ UNCHANGED rows
    BY <1>5 DEF DeleteRaises
  <2>2. files \subseteq files' \cup paths
    BY <1>5 DEF DeleteRaises
  <2> QED BY <1>1, <2>1, <2>2
<1> QED BY <1>2, <1>3, <1>4, <1>5 DEF DeleteStep

LEMMA StepFiles ==
  ASSUME TypeInv, FileInv, [Next]_vars
  PROVE  FileInv'
<1> USE DEF FileInv, RowsMatchFiles
<1>1. ASSUME UNCHANGED <<rows, files, bare, deleter, paths>>,
             \A b \in FeatureBlocks : Recording(b)' => Recording(b)
      PROVE  FileInv'
  BY <1>1
<1>2. CASE ScheduleNode
  <2>1. UNCHANGED <<rows, files, late, bare, deleter, paths>>
    BY <1>2 DEF ScheduleNode, storeVars, delVars, pastVars
  <2>2. \A t \in Tasks : at'[t] = "row" => at[t] = "row"
    BY <1>2 DEF ScheduleNode
  <2> QED BY <1>1, <2>1, <2>2 DEF Recording
<1>3. CASE CollectOne \/ Drain \/ GetResults \/ UNCHANGED vars \/ \E r \in Roots : JoinBlocks(r)
  <2>1. UNCHANGED <<rows, files, late, bare, deleter, paths, at>>
    BY <1>3 DEF CollectOne, Drain, GetResults, vars, JoinBlocks, storeVars, delVars, taskVars,
                pastVars
  <2> QED BY <1>1, <2>1 DEF Recording
<1>4. ASSUME NEW t \in Tasks, Moves(t)
      PROVE  FileInv'
  BY <1>4, TaskFiles
<1>5. CASE DeleteStep
  BY <1>5, DeleteFilesRows
<1>6. CASE RunAgain
  <2>1. UNCHANGED <<rows, files, bare, deleter, paths>> /\ \A t \in Tasks : at'[t] = "none"
    BY <1>6 DEF RunAgain, delVars
  <2>2. \A b \in late' : Recording(b)
    BY <1>6 DEF RunAgain, Recording
  <2> QED BY <1>1, <2>1, <2>2 DEF Recording
<1>7. ASSUME NEW b \in FeatureBlocks, WriteLate(b)
      PROVE  FileInv'
  <2>1. /\ UNCHANGED <<files, bare, deleter, paths, at>> /\ late' = late \ {b}
        /\ rows' = [rows EXCEPT ![b] = Recorded(b)]
    BY <1>7 DEF WriteLate, delVars, pastVars, taskVars
  <2>2. rows \in [FeatureBlocks -> Nat] /\ Recorded(b) <= 1
    BY DEF Recorded, TypeInv, TypeOK
  <2>3. /\ rows'[b] <= 1
        /\ \A c \in FeatureBlocks : c # b => rows'[c] = rows[c]
    BY <2>1, <2>2
  <2>4. Recording(b) /\ \A c \in FeatureBlocks : Recording(c)' => Recording(c)
    BY <1>7, <2>1 DEF Recording, WriteLate
  <2> QED BY <2>1, <2>3, <2>4
<1> QED BY <1>2, <1>3, <1>4, <1>5, <1>6, <1>7 DEF Next, ExecutorStep, Moves

(* Whoever stores, retries, fails or deletes: a block has one row at most, *)
(* and it lacks its file only while a delete is between files and rows,    *)
(* after one that raised half way, or when one took the file while the row *)
(* was on its way.                                                         *)
THEOREM RowsAndFiles == Spec => []RowsMatchFiles
<1>1. Init => FileInv
  BY DEF Init, FileInv, RowsMatchFiles, Recording
<1>2. FileInv => RowsMatchFiles
  BY DEF FileInv
<1> QED BY <1>1, <1>2, InitType, StepType, StepFiles, PTL DEF Spec

-----------------------------------------------------------------------------
(* What a task has waited for: the blocks that its node joins, and those   *)
(* that it has calculated its own from, are over and have not failed.      *)

Calculated(t) == t[2] \notin load /\ at[t] \in {"cache", "exists", "store", "row", "done"}

WaitInv ==
  /\ \A t \in Tasks : root[t[1]] = "none" => at[t] = "none"
  /\ \A t \in Tasks : root[t[1]] = "done" /\ t[2] \in JoinsOf[t[1]] => at[t] \in Finished
  /\ \A t, u \in Tasks :
       Calculated(t) /\ u[1] = t[1] /\ u[2] \in DepsOf[t[2]] => at[u] \in Finished

(* The tasks of a node that is started have not been started before.       *)
LEMMA ScheduledNodeIsFresh ==
  ASSUME TypeInv, ExecInv, WaitInv, ScheduleNode
  PROVE  /\ \A t \in Tasks : at'[t] = at[t] \/ (at[t] = "none" /\ at'[t] = "check")
         /\ \A t \in Tasks : root'[t[1]] = "none" => at'[t] = "none"
         /\ \A t \in Tasks : root'[t[1]] = "done" => root[t[1]] = "done"
<1> DEFINE r == Nodes[scheduled + 1]
<1>1. CASE UNCHANGED <<at, root>>
  BY <1>1 DEF WaitInv
<1>2. CASE /\ root' = [root EXCEPT ![r] = "running"]
           /\ at' = [t \in Tasks |->
                      IF t[1] = r /\ t[2] \in Below(r, load) THEN "check" ELSE at[t]]
  <2>1. r \in Roots /\ root \in [Roots -> RootStates] /\ scheduled < Len(Nodes)
    BY NextNode DEF ScheduleNode, TypeInv, TypeOK
  <2>2. r \notin Known
    BY <2>1, FreshNode
  <2>3. root[r] = "none"
    BY <2>1, <2>2 DEF ExecInv
  <2> HIDE DEF r
  <2>4. \A t \in Tasks : at'[t] = at[t] \/ (at[t] = "none" /\ at'[t] = "check")
    BY <1>2, <2>3 DEF WaitInv
  <2>5. \A t \in Tasks : root'[t[1]] = "none" => at'[t] = "none"
    BY <1>2, <2>1, TaskFacts DEF WaitInv
  <2>6. \A t \in Tasks : root'[t[1]] = "done" => root[t[1]] = "done"
    BY <1>2, <2>1, TaskFacts
  <2> QED BY <2>4, <2>5, <2>6
<1> QED BY <1>1, <1>2 DEF ScheduleNode

LEMMA TaskWaits ==
  ASSUME TypeInv, WaitInv, NEW t \in Tasks, Moves(t)
  PROVE  WaitInv'
<1>1. /\ \A u \in Tasks : u # t => at'[u] = at[u]
      /\ at[t] \notin Finished \cup {"none", "failed"}
      /\ UNCHANGED <<load, root>>
  BY OneTaskMoves DEF execVars
<1>2. \A u \in Tasks : at[u] \in Finished => at'[u] \in Finished
  BY <1>1
<1>3. ASSUME Calculated(t)'
      PROVE  \A u \in Tasks : u[1] = t[1] /\ u[2] \in DepsOf[t[2]] => at[u] \in Finished
  <2>1. CASE Calculated(t)
    BY <2>1 DEF WaitInv
  <2>2. CASE Work(t)
    <3>1. at \in [Tasks -> TaskStates] /\ t[2] \notin load
      BY <1>1, <1>3 DEF TypeInv, TypeOK, Calculated
    <3>2. at'[t] # "failed"
      BY <1>3 DEF Calculated
    <3> QED BY <2>2, <3>1, <3>2 DEF Work, Goto
  <2>3. CASE CheckCache(t) \/ TaskRaises(t) \/ RestartTask(t)
    <3>1. at'[t] \in {"found", "work", "failed", "check"}
      BY <2>3 DEF CheckCache, TaskRaises, RestartTask, Goto, TypeInv, TypeOK
    <3> QED BY <1>3, <3>1 DEF Calculated
  <2>4. CASE CacheBlock(t) \/ TestExists(t) \/ StoreFile(t) \/ StoreRow(t)
    <3>1. Calculated(t)
      BY <1>1, <1>3, <2>4 DEF CacheBlock, TestExists, StoreFile, StoreRow, Calculated
    <3> QED BY <2>1, <3>1
  <2> QED BY <2>2, <2>3, <2>4 DEF Moves, TaskStep
<1>4. \A v \in Tasks : v # t /\ Calculated(v)' => Calculated(v)
  BY <1>1 DEF Calculated
<1>5. \A v, u \in Tasks :
        Calculated(v)' /\ u[1] = v[1] /\ u[2] \in DepsOf[v[2]] => at'[u] \in Finished
  BY <1>2, <1>3, <1>4 DEF WaitInv
<1>6. \A u \in Tasks : root'[u[1]] = "none" => at'[u] = "none"
  BY <1>1 DEF WaitInv
<1>7. \A u \in Tasks : root'[u[1]] = "done" /\ u[2] \in JoinsOf[u[1]] => at'[u] \in Finished
  BY <1>1, <1>2 DEF WaitInv
<1> QED BY <1>5, <1>6, <1>7 DEF WaitInv

LEMMA StepWaits ==
  ASSUME TypeInv, ExecInv, WaitInv, [Next]_vars
  PROVE  WaitInv'
<1>1. CASE UNCHANGED <<load, root, at>>
  BY <1>1 DEF WaitInv, Calculated
<1>2. CASE \/ CollectOne \/ Drain \/ GetResults \/ UNCHANGED vars \/ DeleteStep
           \/ \E b \in FeatureBlocks : WriteLate(b)
  <2>1. UNCHANGED <<load, root, at>>
    BY <1>2 DEF CollectOne, Drain, GetResults, vars, DeleteStep, FindPaths, DeleteFiles,
                DeleteRows, DeleteRaises, OnlyDelete, WriteLate, execVars, taskVars
  <2> QED BY <1>1, <2>1
<1>3. ASSUME NEW r \in Roots, JoinBlocks(r)
      PROVE  WaitInv'
  <2>1. UNCHANGED <<load, at>> /\ root \in [Roots -> RootStates]
    BY <1>3 DEF JoinBlocks, execVars, TypeInv, TypeOK
  <2>2. \A t \in Tasks : t[1] # r => root'[t[1]] = root[t[1]]
    BY <1>3, <2>1, TaskFacts DEF JoinBlocks
  <2>3. /\ root'[r] \in {"done", "failed"}
        /\ root'[r] = "done" =>
             \A t \in Tasks : t[1] = r /\ t[2] \in JoinsOf[r] => at[t] \in Finished
    BY <1>3, <2>1 DEF JoinBlocks
  <2>4. \A t \in Tasks : root'[t[1]] = "none" => at'[t] = "none"
    BY <2>1, <2>2, <2>3 DEF WaitInv
  <2>5. \A t \in Tasks : root'[t[1]] = "done" /\ t[2] \in JoinsOf[t[1]] => at'[t] \in Finished
    BY <2>1, <2>2, <2>3 DEF WaitInv
  <2>6. \A t, u \in Tasks :
          Calculated(t)' /\ u[1] = t[1] /\ u[2] \in DepsOf[t[2]] => at'[u] \in Finished
    BY <2>1 DEF WaitInv, Calculated
  <2> QED BY <2>4, <2>5, <2>6 DEF WaitInv
<1>4. ASSUME NEW t \in Tasks, Moves(t)
      PROVE  WaitInv'
  BY <1>4, TaskWaits
<1>5. CASE ScheduleNode
  <2>1. UNCHANGED load
    BY <1>5 DEF ScheduleNode
  <2>2. /\ \A t \in Tasks : at'[t] = at[t] \/ (at[t] = "none" /\ at'[t] = "check")
        /\ \A t \in Tasks : root'[t[1]] = "none" => at'[t] = "none"
        /\ \A t \in Tasks : root'[t[1]] = "done" => root[t[1]] = "done"
    BY <1>5, ScheduledNodeIsFresh
  <2>3. \A t \in Tasks : at[t] \in Finished => at'[t] \in Finished
    BY <2>2 DEF Finished
  <2>4. \A t \in Tasks : Calculated(t)' => Calculated(t)
    BY <2>1, <2>2 DEF Calculated
  <2>5. \A t, u \in Tasks :
          Calculated(t)' /\ u[1] = t[1] /\ u[2] \in DepsOf[t[2]] => at'[u] \in Finished
    BY <2>3, <2>4 DEF WaitInv
  <2>6. \A t \in Tasks : root'[t[1]] = "done" /\ t[2] \in JoinsOf[t[1]] => at'[t] \in Finished
    BY <2>2, <2>3 DEF WaitInv
  <2> QED BY <2>2, <2>5, <2>6 DEF WaitInv
<1>6. CASE RunAgain
  <2>1. /\ \A t \in Tasks : at'[t] = "none" /\ ~Calculated(t)'
        /\ \A r \in Roots : root'[r] = "none"
    BY <1>6 DEF RunAgain, Calculated
  <2> QED BY <2>1, TaskFacts DEF WaitInv
<1> QED BY <1>2, <1>3, <1>4, <1>5, <1>6 DEF Next, ExecutorStep, Moves

-----------------------------------------------------------------------------
(* A block that is to be stored and that some task has calculated or       *)
(* loaded, or that is cached, has its row, or the task that cached it is   *)
(* still on its way to the store or has failed.                            *)

Settled(b) == rows[b] = 1 \/ b \in restarted \/ deletes > 0
Coming(b)  == \E t \in Tasks : t[2] = b /\ at[t] \in {"exists", "store", "row", "failed"}
Shared(b)  == b \in obj_ref \/ \E t \in Tasks : t[2] = b /\ at[t] = "done"

StoreInv ==
  /\ deleter # "idle" => deletes > 0
  /\ \A b \in ToStore \cap load : rows[b] = 1 \/ deletes > 0
  /\ \A b \in ToStore \ load : Shared(b) => Settled(b) \/ Coming(b)
  /\ \A t \in Tasks : at[t] = "found" => t[2] \in obj_ref

(* What a step of its task does to a block that is to be stored: it has    *)
(* got its row or will come to the store, or nothing has changed.          *)
LEMMA BlockMoves ==
  ASSUME TypeInv, FileInv, NEW t \in Tasks, Moves(t), t[2] \in ToStore \ load
  PROVE  \/ at'[t] \in {"exists", "store", "row", "failed"}
         \/ rows'[t[2]] = 1 \/ t[2] \in restarted'
         \/ /\ at[t] \notin {"exists", "store", "row", "failed"}
            /\ t[2] \in obj_ref
         \/ /\ at[t] \notin {"exists", "store", "row", "failed"}
            /\ at'[t] # "done" /\ obj_ref' = obj_ref
<1> DEFINE b == t[2]
<1>1. at \in [Tasks -> TaskStates] /\ b \in FeatureBlocks /\ rows \in [FeatureBlocks -> Nat]
      /\ rows[b] <= 1
  BY FeatureTasksAssumption DEF TypeInv, TypeOK, FileInv, RowsMatchFiles
<1>2. AfterCache(t) = "exists"
  BY DEF AfterCache
<1>3. CASE CheckCache(t)
  BY <1>1, <1>3 DEF CheckCache, Goto
<1>4. CASE Work(t)
  BY <1>1, <1>2, <1>4 DEF Work, Goto, cacheVars
<1>5. CASE CacheBlock(t)
  BY <1>1, <1>2, <1>5 DEF CacheBlock, Goto
<1>6. CASE TestExists(t)
  BY <1>1, <1>6 DEF TestExists, Goto, storeVars
<1>7. CASE StoreFile(t)
  BY <1>1, <1>7 DEF StoreFile, Goto
<1>8. CASE StoreRow(t)
  BY <1>1, <1>8 DEF StoreRow, Recorded
<1>9. CASE TaskRaises(t) \/ RestartTask(t)
  BY <1>1, <1>9 DEF TaskRaises, RestartTask, Goto
<1> QED BY <1>3, <1>4, <1>5, <1>6, <1>7, <1>8, <1>9 DEF Moves, TaskStep

(* Rows, restarts and deletes are not undone by a task.                    *)
LEMMA SettledStays ==
  ASSUME TypeInv, FileInv, NEW t \in Tasks, Moves(t)
  PROVE  /\ \A c \in FeatureBlocks : rows[c] = 1 => rows'[c] = 1
         /\ \A c \in FeatureBlocks : Settled(c) => Settled(c)'
         /\ \A c \in Blocks : c # t[2] => (c \in obj_ref' <=> c \in obj_ref)
<1>1. rows \in [FeatureBlocks -> Nat]
  BY DEF TypeInv, TypeOK
<1>2. \A c \in FeatureBlocks : rows[c] = 1 => rows'[c] = 1
  <2>1. CASE StoreRow(t)
    BY <1>1, <2>1 DEF StoreRow, Recorded
  <2>2. CASE UNCHANGED rows
    BY <2>2
  <2> QED BY <2>1, <2>2 DEF Moves, TaskStep, CheckCache, Work, CacheBlock, TestExists, StoreFile,
                            TaskRaises, RestartTask, storeVars
<1>3. restarted \subseteq restarted'
  BY DEF Moves, TaskStep, CheckCache, Work, CacheBlock, TestExists, StoreFile, StoreRow,
         TaskRaises, RestartTask, pastVars
<1>4. deletes' = deletes
  BY OneTaskMoves DEF delVars
<1>5. \A c \in Blocks : c # t[2] => (c \in obj_ref' <=> c \in obj_ref)
  BY DEF Moves, TaskStep, CheckCache, Work, CacheBlock, TestExists, StoreFile, StoreRow,
         TaskRaises, RestartTask, cacheVars
<1> QED BY <1>2, <1>3, <1>4, <1>5 DEF Settled

LEMMA TaskStores ==
  ASSUME TypeInv, FileInv, StoreInv, NEW t \in Tasks, Moves(t)
  PROVE  StoreInv'
<1>1. /\ \A u \in Tasks : u # t => at'[u] = at[u]
      /\ at[t] \notin Finished \cup {"none", "failed"}
      /\ UNCHANGED <<load, root, deleter, deletes>>
  BY OneTaskMoves DEF execVars, delVars
<1>2. ToStore \subseteq FeatureBlocks /\ FeatureBlocks \subseteq Blocks
  BY FeatureTasksAssumption DEF Blocks
<1>3. \A b \in ToStore \cap load : rows'[b] = 1 \/ deletes > 0
  BY <1>2, SettledStays DEF StoreInv
<1>4. ASSUME NEW b \in ToStore \ load, Shared(b)'
      PROVE  Settled(b)' \/ Coming(b)'
  <2>1. CASE b # t[2]
    <3>1. Shared(b)
      BY <1>1, <1>2, <1>4, <2>1, SettledStays DEF Shared
    <3>2. Settled(b) \/ Coming(b)
      BY <3>1 DEF StoreInv
    <3>3. Coming(b) => Coming(b)'
      BY <1>1, <2>1 DEF Coming
    <3> QED BY <1>2, <3>2, <3>3, SettledStays
  <2>2. CASE b = t[2]
    <3>1. CASE at'[t] \in {"exists", "store", "row", "failed"}
      BY <2>2, <3>1 DEF Coming
    <3>2. CASE rows'[b] = 1 \/ b \in restarted'
      BY <3>2 DEF Settled
    <3>3. CASE /\ at[t] \notin {"exists", "store", "row", "failed"}
               /\ Shared(b)
      <4>1. Settled(b) \/ Coming(b)
        BY <3>3 DEF StoreInv
      <4>2. Coming(b) => Coming(b)'
        <5>1. SUFFICES ASSUME NEW u \in Tasks, u[2] = b,
                              at[u] \in {"exists", "store", "row", "failed"}
                       PROVE  Coming(b)'
          BY DEF Coming
        <5>2. u # t
          BY <3>3, <5>1
        <5> QED BY <1>1, <5>1, <5>2 DEF Coming
      <4> QED BY <1>2, <4>1, <4>2, SettledStays
    <3>4. ASSUME at'[t] # "done", obj_ref' = obj_ref
          PROVE  Shared(b)
      BY <1>1, <1>4, <3>4 DEF Shared
    <3>5. b \in obj_ref => Shared(b)
      BY DEF Shared
    <3> QED BY <2>2, <3>1, <3>2, <3>3, <3>4, <3>5, BlockMoves
  <2> QED BY <2>1, <2>2
<1>5. \A u \in Tasks : at'[u] = "found" => u[2] \in obj_ref'
  <2>1. obj_ref \subseteq obj_ref'
    BY DEF Moves, TaskStep, CheckCache, Work, CacheBlock, TestExists, StoreFile, StoreRow,
           TaskRaises, RestartTask, cacheVars
  <2>2. at'[t] = "found" => t[2] \in obj_ref
    BY DEF Moves, TaskStep, CheckCache, Work, CacheBlock, TestExists, StoreFile, StoreRow,
           TaskRaises, RestartTask, Goto, AfterCache, TypeInv, TypeOK
  <2> QED BY <1>1, <2>1, <2>2 DEF StoreInv
<1> QED BY <1>1, <1>3, <1>4, <1>5 DEF StoreInv

LEMMA StepStores ==
  ASSUME TypeInv, ExecInv, WaitInv, FileInv, StoreInv, [Next]_vars
  PROVE  StoreInv'
<1>1. ASSUME UNCHANGED <<load, obj_ref, restarted, deletes, deleter>>,
             \A b \in FeatureBlocks : rows[b] = 1 => rows'[b] = 1,
             \A t \in Tasks : at'[t] = at[t] \/ (at[t] = "none" /\ at'[t] = "check")
      PROVE  StoreInv'
  <2>1. \A b : Shared(b)' => Shared(b)
    BY <1>1 DEF Shared
  <2>2. \A b : Coming(b) => Coming(b)'
    BY <1>1 DEF Coming
  <2>3. ToStore \subseteq FeatureBlocks
    BY FeatureTasksAssumption
  <2>4. \A b \in ToStore : Settled(b) => Settled(b)'
    BY <1>1, <2>3 DEF Settled
  <2>5. \A b \in ToStore \ load' : Shared(b)' => Settled(b)' \/ Coming(b)'
    BY <1>1, <2>1, <2>2, <2>4 DEF StoreInv
  <2>6. /\ deleter' # "idle" => deletes' > 0
        /\ \A b \in ToStore \cap load' : rows'[b] = 1 \/ deletes' > 0
        /\ \A t \in Tasks : at'[t] = "found" => t[2] \in obj_ref'
    BY <1>1, <2>3 DEF StoreInv
  <2> QED BY <2>5, <2>6 DEF StoreInv
<1>2. CASE CollectOne \/ Drain \/ GetResults \/ UNCHANGED vars \/ \E r \in Roots : JoinBlocks(r)
  <2>1. UNCHANGED <<load, rows, obj_ref, restarted, deletes, deleter, at>>
    BY <1>2 DEF CollectOne, Drain, GetResults, JoinBlocks, vars, execVars, taskVars, cacheVars,
                storeVars, delVars, pastVars
  <2> QED BY <1>1, <2>1
<1>3. ASSUME NEW b \in FeatureBlocks, WriteLate(b)
      PROVE  StoreInv'
  <2>1. /\ UNCHANGED <<load, obj_ref, restarted, deletes, deleter, at>>
        /\ rows' = [rows EXCEPT ![b] = Recorded(b)] /\ rows \in [FeatureBlocks -> Nat]
    BY <1>3 DEF WriteLate, execVars, taskVars, cacheVars, delVars, pastVars, TypeInv, TypeOK
  <2>2. \A c \in FeatureBlocks : rows[c] = 1 => rows'[c] = 1
    BY <2>1 DEF Recorded
  <2> QED BY <1>1, <2>1, <2>2
<1>4. ASSUME NEW t \in Tasks, Moves(t)
      PROVE  StoreInv'
  BY <1>4, TaskStores
<1>5. CASE DeleteStep
  <2>1. UNCHANGED <<load, obj_ref, restarted, at>>
    BY <1>5 DEF DeleteStep, FindPaths, DeleteFiles, DeleteRows, DeleteRaises, OnlyDelete,
                execVars, taskVars, cacheVars
  <2>2. deletes \in Nat
    BY FeatureTasksAssumption DEF TypeInv, TypeOK
  <2>3. CASE deletes' > 0
    BY <2>1, <2>3 DEF StoreInv, Settled
  <2>4. CASE FindPaths
    BY <2>2, <2>3, <2>4 DEF FindPaths
  <2>5. CASE DeleteFiles \/ DeleteRows \/ DeleteRaises
    BY <2>3, <2>5 DEF DeleteFiles, DeleteRows, DeleteRaises, StoreInv
  <2> QED BY <1>5, <2>4, <2>5 DEF DeleteStep
<1>6. CASE RunAgain
  <2>1. /\ obj_ref' = {} /\ load' = StoredBlocks /\ UNCHANGED <<rows, deleter, deletes>>
        /\ \A t \in Tasks : at'[t] = "none"
    BY <1>6 DEF RunAgain, delVars
  <2>2. \A b : ~Shared(b)'
    BY <2>1 DEF Shared
  <2>3. \A b \in FeatureBlocks : rows[b] \in Nat /\ rows[b] <= 1
    BY DEF TypeInv, TypeOK, FileInv, RowsMatchFiles
  <2>4. \A b \in load' : rows'[b] = 1
    BY <2>1, <2>3 DEF StoredBlocks
  <2> QED BY <2>1, <2>2, <2>4 DEF StoreInv
<1>7. CASE ScheduleNode
  <2>1. UNCHANGED <<load, rows, obj_ref, restarted, deletes, deleter>>
    BY <1>7 DEF ScheduleNode, cacheVars, storeVars, delVars, pastVars
  <2> QED BY <1>1, <1>7, <2>1, ScheduledNodeIsFresh
<1> QED BY <1>2, <1>3, <1>4, <1>5, <1>6, <1>7 DEF Next, ExecutorStep, Moves

(* A run that ends without an exception has a result for every node, and   *)
(* every block it started and was to store has its row, but for a worker   *)
(* that died, a delete, and a block whose task nobody waited for because   *)
(* what it was needed for was in the cache.                                *)
THEOREM EndedRunsStored == Spec => []EndedMeansStored
<1>1. Init => WaitInv /\ FileInv /\ StoreInv
  BY TaskFacts
  DEF Init, WaitInv, Calculated, FileInv, RowsMatchFiles, Recording, StoreInv, Shared
<1>2. TypeInv /\ ExecInv /\ WaitInv /\ StoreInv => EndedMeansStored
  <2> SUFFICES ASSUME TypeInv, ExecInv, WaitInv, StoreInv, executor = "ended"
               PROVE  /\ results = Roots /\ \A r \in Roots : root[r] = "done"
                      /\ \A t \in Tasks : at[t] # "none" /\ t[2] \in ToStore =>
                           \/ rows[t[2]] = 1 \/ t[2] \in restarted \/ deletes > 0
                           \/ \E u \in Tasks : u[2] = t[2] /\ Unwaited(u)
    BY DEF EndedMeansStored
  <2>1. results = Roots
    <3>1. DOMAIN Nodes = 1..Len(Nodes)
      BY FeatureTasksAssumption, LenProperties
    <3>2. Known = Roots
      BY <3>1 DEF ExecInv, Roots, ToSet
    <3> QED BY <3>2 DEF Known, ExecInv
  <2>2. \A r \in Roots : root[r] = "done"
    BY <2>1 DEF ExecInv
  <2>3. ASSUME NEW u \in Tasks, at[u] \notin Finished \cup {"none"}
        PROVE  Unwaited(u)
    <3>1. u[2] \notin JoinsOf[u[1]]
      BY <2>2, <2>3, TaskFacts DEF WaitInv
    <3>2. \A v \in Tasks :
            v[1] = u[1] /\ u[2] \in DepsOf[v[2]] /\ at[v] = "done" => v[2] \in load
      BY <2>3 DEF WaitInv, Calculated
    <3> QED BY <2>3, <3>1, <3>2 DEF Unwaited
  <2>4. ASSUME NEW t \in Tasks, at[t] # "none", t[2] \in ToStore,
               \A u \in Tasks : u[2] = t[2] => at[u] \in Finished \cup {"none"}
        PROVE  rows[t[2]] = 1 \/ t[2] \in restarted \/ deletes > 0
    <3>1. CASE t[2] \in load
      BY <2>4, <3>1 DEF StoreInv
    <3>2. CASE t[2] \notin load
      <4>1. at[t] \in Finished
        BY <2>4
      <4>2. Shared(t[2])
        BY <4>1 DEF StoreInv, Shared, Finished
      <4>3. Settled(t[2]) \/ Coming(t[2])
        BY <2>4, <3>2, <4>2 DEF StoreInv
      <4>4. ~Coming(t[2])
        BY <2>4 DEF Coming, Finished
      <4> QED BY <4>3, <4>4 DEF Settled
    <3> QED BY <3>1, <3>2
  <2> QED BY <2>1, <2>2, <2>3, <2>4
<1> QED BY <1>1, <1>2, InitType, StepType, InitExec, StepExec, StepWaits, StepFiles, StepStores,
           PTL DEF Spec

-----------------------------------------------------------------------------
(* While nothing has failed, a block that was bound more than once is      *)
(* cached, or no task has asked for it, or the first one that did is still *)
(* on its way to caching it.                                               *)

Unchecked(b) ==
  ref_counter[b] = RefCount[b] /\ \A t \in Tasks : t[2] = b => at[t] \in {"none", "check"}
Caching(b) ==
  \E t \in Tasks : t[2] = b /\ should_cache[t] /\ at[t] \in {"work", "cache", "failed"}

CacheInv ==
  counted /\ faults = 0 =>
    \A b \in Blocks : RefCount[b] > 1 => b \in obj_ref \/ Unchecked(b) \/ Caching(b)

LEMMA TaskCaches ==
  ASSUME TypeInv, CacheInv, NEW t \in Tasks, Moves(t), counted, faults' = 0,
         NEW b \in Blocks, RefCount[b] > 1
  PROVE  b \in obj_ref' \/ Unchecked(b)' \/ Caching(b)'
<1>1. /\ \A u \in Tasks : u # t => at'[u] = at[u] /\ should_cache'[u] = should_cache[u]
      /\ at[t] \notin Finished \cup {"none", "failed"}
  BY OneTaskMoves
<1>2. faults = 0 /\ ~Fault
  <2>1. faults \in Nat
    BY FeatureTasksAssumption DEF TypeInv, TypeOK
  <2>2. ~Fault
    BY <2>1 DEF Fault
  <2> QED BY <2>1, <2>2 DEF Moves, TaskStep, CheckCache, Work, CacheBlock, TestExists, StoreFile,
                            StoreRow, TaskRaises, RestartTask, pastVars
<1>3. b \in obj_ref \/ Unchecked(b) \/ Caching(b)
  BY <1>2 DEF CacheInv
<1>4. obj_ref \subseteq obj_ref'
  BY DEF Moves, TaskStep, CheckCache, Work, CacheBlock, TestExists, StoreFile, StoreRow,
         TaskRaises, RestartTask, cacheVars
<1>5. t[2] \in Blocks /\ at \in [Tasks -> TaskStates] /\ should_cache \in [Tasks -> BOOLEAN]
      /\ ref_counter \in [Blocks -> Nat \ {0}]
  BY TaskFacts DEF TypeInv, TypeOK
<1>6. CASE b # t[2]
  <2>1. ref_counter'[b] = ref_counter[b]
    BY <1>5, <1>6 DEF Moves, TaskStep, CheckCache, Work, CacheBlock, TestExists, StoreFile,
                      StoreRow, TaskRaises, RestartTask, cacheVars
  <2>2. Unchecked(b) => Unchecked(b)'
    BY <1>1, <1>6, <2>1 DEF Unchecked
  <2>3. Caching(b) => Caching(b)'
    BY <1>1, <1>6 DEF Caching
  <2> QED BY <1>3, <1>4, <2>2, <2>3
<1>7. CASE b = t[2] /\ b \notin obj_ref
  <2>1. CASE Unchecked(b)
    <3>1. at[t] = "check"
      BY <1>1, <1>7, <2>1 DEF Unchecked
    <3>2. CheckCache(t)
      BY <1>2, <3>1 DEF Moves, TaskStep, CheckCache, Work, CacheBlock, TestExists, StoreFile,
                        StoreRow, TaskRaises, RestartTask
    <3>3. should_cache'[t] /\ at'[t] = "work"
      BY <1>5, <1>7, <2>1, <3>2 DEF CheckCache, ShouldCache, Unchecked, Goto
    <3> QED BY <1>7, <3>3 DEF Caching
  <2>2. CASE Caching(b)
    <3>1. PICK u \in Tasks : u[2] = b /\ should_cache[u] /\ at[u] \in {"work", "cache", "failed"}
      BY <2>2 DEF Caching
    <3>2. CASE u # t
      BY <1>1, <3>1, <3>2 DEF Caching
    <3>3. CASE u = t
      <4>1. CASE at[t] = "work"
        <5>1. Work(t)
          BY <1>2, <4>1 DEF Moves, TaskStep, CheckCache, Work, CacheBlock, TestExists, StoreFile,
                            StoreRow, TaskRaises, RestartTask
        <5>2. at'[t] \in {"cache", "failed"} /\ should_cache'[t]
          BY <1>5, <3>1, <3>3, <5>1 DEF Work, Goto
        <5> QED BY <1>7, <5>2 DEF Caching
      <4>2. CASE at[t] = "cache"
        <5>1. CacheBlock(t)
          BY <1>2, <4>2 DEF Moves, TaskStep, CheckCache, Work, CacheBlock, TestExists, StoreFile,
                            StoreRow, TaskRaises, RestartTask
        <5> QED BY <1>7, <5>1 DEF CacheBlock
      <4> QED BY <1>1, <3>1, <3>3, <4>1, <4>2
    <3> QED BY <3>2, <3>3
  <2> QED BY <1>3, <1>7, <2>1, <2>2
<1> QED BY <1>4, <1>6, <1>7

LEMMA StepCaches ==
  ASSUME TypeInv, ExecInv, WaitInv, CacheInv, [Next]_vars
  PROVE  CacheInv'
<1>1. ASSUME UNCHANGED <<counted, ref_counter, obj_ref, should_cache>>,
             faults' = 0 => faults = 0,
             \A t \in Tasks : at'[t] = at[t] \/ (at[t] = "none" /\ at'[t] = "check")
      PROVE  CacheInv'
  <2>1. \A b : Unchecked(b) => Unchecked(b)'
    BY <1>1 DEF Unchecked
  <2>2. \A b : Caching(b) => Caching(b)'
    BY <1>1 DEF Caching
  <2> QED BY <1>1, <2>1, <2>2 DEF CacheInv
<1>2. CASE \/ CollectOne \/ Drain \/ GetResults \/ UNCHANGED vars \/ DeleteStep
           \/ (\E r \in Roots : JoinBlocks(r)) \/ (\E b \in FeatureBlocks : WriteLate(b))
  <2>1. UNCHANGED <<counted, ref_counter, obj_ref, should_cache, at>>
    BY <1>2 DEF CollectOne, Drain, GetResults, vars, DeleteStep, FindPaths, DeleteFiles,
                DeleteRows, DeleteRaises, OnlyDelete, JoinBlocks, WriteLate, taskVars, cacheVars
  <2>2. faults' = 0 => faults = 0
    <3>1. faults \in Nat
      BY FeatureTasksAssumption DEF TypeInv, TypeOK
    <3> QED BY <1>2, <3>1 DEF CollectOne, Drain, GetResults, vars, DeleteStep, FindPaths,
               DeleteFiles, DeleteRows, DeleteRaises, Fault, JoinBlocks, WriteLate, pastVars
  <2> QED BY <1>1, <2>1, <2>2
<1>3. CASE ScheduleNode
  <2>1. UNCHANGED <<counted, ref_counter, obj_ref, should_cache, faults>>
    BY <1>3 DEF ScheduleNode, cacheVars, pastVars
  <2>2. \A t \in Tasks : at'[t] = at[t] \/ (at[t] = "none" /\ at'[t] = "check")
    BY <1>3, ScheduledNodeIsFresh
  <2> QED BY <1>1, <2>1, <2>2
<1>4. ASSUME NEW t \in Tasks, Moves(t)
      PROVE  CacheInv'
  <2>1. counted' = counted
    BY <1>4, OneTaskMoves
  <2> QED BY <1>4, <2>1, TaskCaches DEF CacheInv
<1>5. CASE RunAgain
  <2>1. ref_counter' = RefCount /\ \A t \in Tasks : at'[t] = "none"
    BY <1>5 DEF RunAgain
  <2>2. \A b : Unchecked(b)'
    BY <2>1 DEF Unchecked
  <2> QED BY <2>2 DEF CacheInv
<1> QED BY <1>2, <1>3, <1>4, <1>5 DEF Next, ExecutorStep, Moves

(* The cache works however the tasks interleave: with the right counts, a  *)
(* shared block whose tasks are over is cached.                            *)
THEOREM SharedAreCached == Spec => []SharedBlockIsCached
<1>1. Init => WaitInv /\ CacheInv
  BY TaskFacts DEF Init, WaitInv, Calculated, CacheInv, Unchecked
<1>2. CacheInv => SharedBlockIsCached
  <2> SUFFICES ASSUME CacheInv, counted, faults = 0, NEW b \in Blocks, RefCount[b] > 1,
                      NEW t \in Tasks, t[2] = b, at[t] = "done",
                      \A u \in Tasks : u[2] = b => at[u] \in Finished \cup {"none"}
               PROVE  b \in obj_ref
    BY DEF SharedBlockIsCached
  <2> QED BY DEF CacheInv, Unchecked, Caching, Finished
<1> QED BY <1>1, <1>2, InitType, StepType, InitExec, StepExec, StepWaits, StepCaches,
           PTL DEF Spec
=============================================================================
