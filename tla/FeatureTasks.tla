---------------------------- MODULE FeatureTasks ----------------------------
(***************************************************************************)
(* A run of the featurizer (featurizer/runner.py): the executor starts the *)
(* nodes of the task graph, Parallelism at a time, and each node starts a  *)
(* task for every block below it.  A task waits for the blocks that it     *)
(* needs itself, and for none if it finds its own block in the cache.      *)
(* Tasks of different nodes calculate the same block: they share it        *)
(* through the cache actor, which counts the references that the builder   *)
(* has bound, and they store it in the catalog (file first, then row) if   *)
(* it is not there.  Meanwhile a user may delete the blocks of a feature   *)
(* from the catalog (files first, then rows).  A later run loads the       *)
(* blocks whose rows it finds instead of calculating them.                 *)
(***************************************************************************)
EXTENDS Integers, FiniteSets, SequencesExt

CONSTANTS
  DataBlocks,     \* blocks of data sources: files that are always there
  FeatureBlocks,
  Nodes,          \* the nodes of a range, in their order: a sequence
  JoinsOf,        \* the blocks that a node gets: block, previous one, group of the label
  DepsOf,         \* the blocks that a block is calculated from
  RefCount,       \* how often the builder has bound a block
  ToStore,        \* the blocks of features_to_store
  Parallelism,
  MaxRuns,        \* bound of the model: runs of the featurizer
  MaxFaults,      \* bound of the model: tasks and processes that fail
  MaxDeletes      \* bound of the model: calls of delete_features

Blocks == DataBlocks \cup FeatureBlocks
Roots  == ToSet(Nodes)

(* The blocks below a node, when those of ld are loaded: the least set     *)
(* that has the blocks it gets and whatever a block to be calculated       *)
(* needs.                                                                  *)
Below(r, ld) ==
  {b \in Blocks : \A S \in SUBSET Blocks :
     JoinsOf[r] \subseteq S /\ (\A c \in S \ ld : DepsOf[c] \subseteq S) => b \in S}

Tasks == {t \in Roots \X Blocks : t[2] \in Below(t[1], {})}

ASSUME FeatureTasksAssumption ==
  /\ DataBlocks \cap FeatureBlocks = {}
  /\ IsInjective(Nodes) /\ Nodes \in Seq(Roots)
  /\ JoinsOf \in [Roots -> SUBSET Blocks] /\ DepsOf \in [Blocks -> SUBSET Blocks]
  /\ RefCount \in [Blocks -> Nat \ {0}]
  /\ ToStore \subseteq FeatureBlocks
  /\ Parallelism \in Nat \ {0} /\ MaxRuns \in Nat \ {0} /\ MaxFaults \in Nat /\ MaxDeletes \in Nat

VARIABLES
  (* the process that runs the featurizer *)
  executor,    \* where execute_flattened_nodes is
  scheduled,   \* how many nodes it has started
  executing,   \* executing_refs_per_key
  results,     \* results_refs_per_key
  load,        \* the blocks whose rows it found: they are loaded
  (* the tasks *)
  root,        \* where the task of a node is
  at,          \* where the task of a block is, below a node
  should_cache,
  (* the cache actor *)
  counted,     \* it was created from the counts of the builder
  ref_counter,
  obj_ref,     \* the blocks that are cached
  (* the catalog *)
  rows, files,
  late,        \* the blocks whose row is on its way from a task that died
  deleter,     \* where delete_features is
  paths,       \* the blocks that it found
  (* history *)
  restarted,   \* the blocks of tasks that were started again
  bare,        \* the blocks whose file a delete took without the row, or before it came
  runs, faults, deletes

execVars  == <<executor, scheduled, executing, results, load>>
taskVars  == <<root, at, should_cache>>
cacheVars == <<counted, ref_counter, obj_ref>>
storeVars == <<rows, files, late>>
delVars   == <<deleter, paths, deletes>>
pastVars  == <<restarted, bare, runs, faults>>
vars == <<execVars, taskVars, cacheVars, storeVars, delVars, pastVars>>

Finished   == {"done", "found"}    \* calculated or loaded; found in the cache
TaskStates == Finished \cup {"none", "check", "work", "cache", "exists", "store", "row", "failed"}
RootStates == {"none", "running", "done", "failed"}

TypeOK ==
  /\ executor \in {"schedule", "collect", "drain", "get", "ended", "failed"}
  /\ scheduled \in 0..Len(Nodes)
  /\ executing \subseteq Roots /\ results \subseteq Roots
  /\ load \subseteq FeatureBlocks
  /\ root \in [Roots -> RootStates]
  /\ at \in [Tasks -> TaskStates]
  /\ should_cache \in [Tasks -> BOOLEAN]
  /\ counted \in BOOLEAN
  /\ ref_counter \in [Blocks -> Nat \ {0}]
  /\ obj_ref \subseteq Blocks
  /\ rows \in [FeatureBlocks -> Nat] /\ files \subseteq FeatureBlocks
  /\ late \subseteq FeatureBlocks
  /\ deleter \in {"idle", "files", "rows"} /\ paths \subseteq FeatureBlocks
  /\ restarted \subseteq Blocks /\ bare \subseteq FeatureBlocks
  /\ runs \in 1..MaxRuns /\ faults \in 0..MaxFaults /\ deletes \in 0..MaxDeletes

(* The cache actor starts from a copy of the dictionary that the builder   *)
(* fills: Featurizer.run creates it before the graph is built, from an     *)
(* empty dictionary, test_task_graph.py after.                             *)
Init ==
  /\ executor = "schedule" /\ scheduled = 0 /\ executing = {} /\ results = {} /\ load = {}
  /\ root = [r \in Roots |-> "none"]
  /\ at = [t \in Tasks |-> "none"]
  /\ should_cache = [t \in Tasks |-> FALSE]
  /\ counted \in BOOLEAN
  /\ ref_counter = RefCount /\ obj_ref = {}
  /\ rows = [b \in FeatureBlocks |-> 0] /\ files = {} /\ late = {}
  /\ deleter = "idle" /\ paths = {} /\ restarted = {} /\ bare = {}
  /\ runs = 1 /\ faults = 0 /\ deletes = 0

(* select_feature_blocks_metadata *)
StoredBlocks == {b \in FeatureBlocks : rows[b] > 0}

Fault == faults < MaxFaults /\ faults' = faults + 1

-----------------------------------------------------------------------------
(* execute_flattened_nodes *)

HasRoom == Cardinality(executing) < Parallelism

(* One round: the next node, if there is room for it ...                   *)
ScheduleNode ==
  /\ executor = "schedule" /\ scheduled < Len(Nodes)
  /\ executor' = "collect"
  /\ \/ /\ HasRoom
        /\ LET r == Nodes[scheduled + 1]
           IN /\ executing' = executing \cup {r}
              /\ root' = [root EXCEPT ![r] = "running"]
              /\ at' = [t \in Tasks |->
                          IF t[1] = r /\ t[2] \in Below(r, load) THEN "check" ELSE at[t]]
        /\ scheduled' = scheduled + 1
     \/ /\ ~HasRoom
        /\ UNCHANGED <<executing, root, at, scheduled>>
  /\ UNCHANGED <<results, load, should_cache, cacheVars, storeVars, delVars, pastVars>>

ReadyMutant == {r \in executing : root[r] = "done"}
Ready == {r \in executing : root[r] \in {"done", "failed"}}

Collect(rs) == executing' = executing \ rs /\ results' = results \cup rs

(* ... then at most one result that is there within a millisecond.         *)
CollectOne ==
  /\ executor = "collect"
  /\ \/ Ready = {} /\ Collect({})
     \/ \E r \in Ready : Collect({r})
  /\ executor' = IF scheduled < Len(Nodes) THEN "schedule" ELSE "drain"
  /\ UNCHANGED <<scheduled, load, taskVars, cacheVars, storeVars, delVars, pastVars>>

(* All are started: take what is there until nothing is left.              *)
Drain ==
  /\ executor = "drain"
  /\ IF executing = {}
       THEN executor' = "get" /\ UNCHANGED <<executing, results>>
       ELSE Ready # {} /\ Collect(Ready) /\ UNCHANGED executor
  /\ UNCHANGED <<scheduled, load, taskVars, cacheVars, storeVars, delVars, pastVars>>

(* ray.get raises what a task has raised. *)
GetResults ==
  /\ executor = "get"
  /\ executor' = IF \E r \in results : root[r] = "failed" THEN "failed" ELSE "ended"
  /\ UNCHANGED <<scheduled, executing, results, load, taskVars, cacheVars, storeVars,
                 delVars, pastVars>>

ExecutorStep == ScheduleNode \/ CollectOne \/ Drain \/ GetResults

-----------------------------------------------------------------------------
(* The tasks of blocks: calculate_feature, load_if_needed *)

OnlyTasks  == UNCHANGED <<execVars, root, delVars>>
Goto(t, s) == at' = [at EXCEPT ![t] = s]

(* Where a task goes with a block it has calculated or loaded *)
AfterCacheMutant(t) == IF t[2] \in ToStore \ load /\ ~should_cache[t] THEN "exists" ELSE "done"
AfterCache(t) == IF t[2] \in ToStore \ load THEN "exists" ELSE "done"

(* check_cache: the counter stops at one; the block is to be cached if it  *)
(* was counted more often than that before this call.                      *)
Decreased(b) == IF counted /\ ref_counter[b] > 1 THEN ref_counter[b] - 1 ELSE ref_counter[b]

ShouldCacheMutant(b) == counted /\ Decreased(b) > 1 /\ b \notin obj_ref
ShouldCache(b) == counted /\ ref_counter[b] > 1 /\ b \notin obj_ref

(* The call, and the object it returns if it can be read *)
CheckCache(t) ==
  LET b == t[2]
  IN /\ at[t] = "check"
     /\ ref_counter' = [ref_counter EXCEPT ![b] = Decreased(b)]
     /\ should_cache' = [should_cache EXCEPT ![t] = ShouldCache(b)]
     /\ \/ b \in obj_ref /\ Goto(t, "found") /\ UNCHANGED faults
        \/ b \in obj_ref /\ Fault /\ Goto(t, "work")
        \/ b \notin obj_ref /\ Goto(t, "work") /\ UNCHANGED faults
     /\ OnlyTasks /\ UNCHANGED <<counted, obj_ref, storeVars, restarted, bare, runs>>

(* The block is loaded, or calculated from the blocks of the same node;    *)
(* what one of these has raised is raised again.                           *)
Work(t) ==
  LET b      == t[2]
      deps   == {d \in Tasks : d[1] = t[1] /\ d[2] \in DepsOf[b]}
      loaded == b \in load => b \in files
  IN /\ at[t] = "work"
     /\ \/ /\ loaded /\ (b \in load \/ \A d \in deps : at[d] \in Finished)
           /\ Goto(t, IF should_cache[t] THEN "cache" ELSE AfterCache(t))
        \/ /\ ~loaded \/ (b \notin load /\ \E d \in deps : at[d] = "failed")
           /\ Goto(t, "failed")
     /\ OnlyTasks /\ UNCHANGED <<should_cache, cacheVars, storeVars, pastVars>>

(* cache_obj_ref *)
CacheBlock(t) ==
  /\ at[t] = "cache"
  /\ obj_ref' = obj_ref \cup {t[2]}
  /\ Goto(t, AfterCache(t))
  /\ OnlyTasks /\ UNCHANGED <<should_cache, counted, ref_counter, storeVars, pastVars>>

(* feature_block_exists *)
TestExists(t) ==
  /\ at[t] = "exists"
  /\ Goto(t, IF rows[t[2]] > 0 THEN "done" ELSE "store")
  /\ OnlyTasks /\ UNCHANGED <<should_cache, cacheVars, storeVars, pastVars>>

StoreFile(t) ==
  /\ at[t] = "store"
  /\ files' = files \cup {t[2]} /\ bare' = bare \ {t[2]}
  /\ Goto(t, "row")
  /\ OnlyTasks /\ UNCHANGED <<should_cache, cacheVars, rows, late, restarted, runs, faults>>

(* store_block_metadata_batch, which looks for the hash again *)
RecordedMutant(b) == rows[b] + 1
Recorded(b) == IF rows[b] = 0 THEN 1 ELSE rows[b]

StoreRow(t) ==
  /\ at[t] = "row"
  /\ rows' = [rows EXCEPT ![t[2]] = Recorded(t[2])]
  /\ Goto(t, "done")
  /\ OnlyTasks /\ UNCHANGED <<should_cache, cacheVars, files, late, pastVars>>

(* The file, the stream of a feature or the store raises. *)
TaskRaises(t) ==
  /\ at[t] \in {"work", "store", "row"} /\ Fault
  /\ Goto(t, "failed")
  /\ OnlyTasks /\ UNCHANGED <<should_cache, cacheVars, storeVars, restarted, bare, runs>>

(* A worker dies: ray starts its task again, from the beginning; before    *)
(* check_cache that makes no difference.  It may have sent its row.        *)
RestartTask(t) ==
  /\ at[t] \notin Finished \cup {"none", "check", "failed"} /\ Fault
  /\ Goto(t, "check")
  /\ restarted' = restarted \cup {t[2]}
  /\ \/ UNCHANGED late
     \/ at[t] = "row" /\ late' = late \cup {t[2]}
  /\ OnlyTasks /\ UNCHANGED <<should_cache, cacheVars, rows, files, bare, runs>>

TaskStep(t) ==
  \/ CheckCache(t) \/ Work(t) \/ CacheBlock(t) \/ TestExists(t) \/ StoreFile(t)
  \/ StoreRow(t)

(* point_in_time_join_block: the task of a node, which gets the blocks     *)
(* that it joins and no others; lookahead_shift_blocks does the same for   *)
(* the group of the label.                                                 *)
JoinBlocks(r) ==
  LET joined == {t \in Tasks : t[1] = r /\ t[2] \in JoinsOf[r]}
  IN /\ root[r] = "running"
     /\ \/ (\A t \in joined : at[t] \in Finished) /\ root' = [root EXCEPT ![r] = "done"]
        \/ (\E t \in joined : at[t] = "failed") /\ root' = [root EXCEPT ![r] = "failed"]
     /\ UNCHANGED <<execVars, at, should_cache, cacheVars, storeVars, delVars, pastVars>>

(* The actor of the database serves calls of tasks that are gone.          *)
WriteLate(b) ==
  /\ b \in late
  /\ late' = late \ {b}
  /\ rows' = [rows EXCEPT ![b] = Recorded(b)]
  /\ UNCHANGED <<execVars, taskVars, cacheVars, files, delVars, pastVars>>

-----------------------------------------------------------------------------
(* delete_features *)

OnlyDelete == UNCHANGED <<execVars, taskVars, cacheVars, late, restarted, runs>>

(* A row of the block is about to be written.                              *)
Recording(b) == b \in late \/ \E t \in Tasks : t[2] = b /\ at[t] = "row"

FindPaths ==
  /\ deleter = "idle" /\ deletes < MaxDeletes
  /\ deleter' = "files" /\ deletes' = deletes + 1
  /\ paths' = StoredBlocks
  /\ OnlyDelete /\ UNCHANGED <<rows, files, bare, faults>>

DeleteFiles ==
  /\ deleter = "files"
  /\ deleter' = "rows"
  /\ files' = files \ paths /\ bare' = bare \cup {b \in paths : Recording(b)}
  /\ OnlyDelete /\ UNCHANGED <<paths, rows, deletes, faults>>

(* delete_feature_metadata: every row of the features, by their keys *)
DeleteRows ==
  /\ deleter = "rows"
  /\ deleter' = "idle" /\ paths' = {}
  /\ rows' = [b \in FeatureBlocks |-> 0] /\ bare' = {b \in bare : Recording(b)}
  /\ OnlyDelete /\ UNCHANGED <<files, deletes, faults>>

(* The store or the database raises; files may be gone all the same.       *)
DeleteRaises ==
  /\ deleter # "idle" /\ Fault
  /\ deleter' = "idle" /\ paths' = {}
  /\ \/ UNCHANGED files
     \/ deleter = "files" /\ \E gone \in SUBSET paths : files' = files \ gone
  /\ bare' = bare \cup (paths \ files')
  /\ OnlyDelete /\ UNCHANGED <<rows, deletes>>

DeleteStep == FindPaths \/ DeleteFiles \/ DeleteRows \/ DeleteRaises

-----------------------------------------------------------------------------
(* Featurizer.run once more: the tasks of the last run ended with its      *)
(* driver, after they had sent their rows or before; the cache actor is    *)
(* killed and created again.                                               *)
RunAgain ==
  /\ executor \in {"ended", "failed"} /\ runs < MaxRuns
  /\ runs' = runs + 1
  /\ load' = StoredBlocks
  /\ executor' = "schedule" /\ scheduled' = 0 /\ executing' = {} /\ results' = {}
  /\ root' = [r \in Roots |-> "none"]
  /\ at' = [t \in Tasks |-> "none"]
  /\ should_cache' = [t \in Tasks |-> FALSE]
  /\ ref_counter' = RefCount /\ obj_ref' = {}
  /\ restarted' = {}
  /\ \E sent \in SUBSET {t \in Tasks : at[t] = "row"} : late' = late \cup {t[2] : t \in sent}
  /\ UNCHANGED <<counted, rows, files, delVars, bare, faults>>

Next ==
  \/ ExecutorStep
  \/ \E t \in Tasks : TaskStep(t) \/ TaskRaises(t) \/ RestartTask(t)
  \/ \E r \in Roots : JoinBlocks(r)
  \/ \E b \in FeatureBlocks : WriteLate(b)
  \/ DeleteStep \/ RunAgain

(* While some task can go on a worker takes one, whichever it is; results  *)
(* are polled for.                                                         *)
Fairness ==
  /\ WF_vars(ExecutorStep)
  /\ WF_vars((\E t \in Tasks : TaskStep(t)) \/ (\E r \in Roots : JoinBlocks(r)))

Spec == Init /\ [][Next]_vars /\ Fairness

-----------------------------------------------------------------------------
(* Properties *)

(* At most parallelism nodes execute at once, and each of them is waited   *)
(* for (executor.py:63-83).                                                *)
Running == {r \in Roots : root[r] = "running"}
ParallelismBounded == Running \subseteq executing /\ Cardinality(executing) <= Parallelism

(* A task that is not over and that nothing in its node waits for: the     *)
(* node does not join its block, and the tasks that would need it found    *)
(* theirs in the cache or loaded it.                                       *)
Unwaited(u) ==
  /\ at[u] \notin Finished \cup {"none"} /\ u[2] \notin JoinsOf[u[1]]
  /\ \A v \in Tasks : v[1] = u[1] /\ u[2] \in DepsOf[v[2]] /\ at[v] = "done" => v[2] \in load

(* A run that ends without an exception has a result for every node and    *)
(* has recorded every block it started that was to be stored, whoever      *)
(* calculated it and whoever found it in the cache.  The exceptions: a     *)
(* worker that died after it had cached the block; a delete; a task of the *)
(* block that nobody waited for and that is not over, or has failed        *)
(* (tasks.py:158-217, 234-240).                                            *)
EndedMeansStored ==
  executor = "ended" =>
    /\ results = Roots /\ \A r \in Roots : root[r] = "done"
    /\ \A t \in Tasks : at[t] # "none" /\ t[2] \in ToStore =>
         \/ rows[t[2]] = 1 \/ t[2] \in restarted \/ deletes > 0
         \/ \E u \in Tasks : u[2] = t[2] /\ Unwaited(u)

(* Tasks of two nodes both miss the row of a block: the block still gets   *)
(* one row.  A row lacks its file only while a delete is between files and *)
(* rows, after one that raised half way, and when one took the file while  *)
(* the row was on its way (tasks.py:208-212, featurizer_storage.py:156-161).*)
RowsMatchFiles ==
  \A b \in FeatureBlocks :
    /\ rows[b] <= 1
    /\ rows[b] = 1 => b \in files \cup bare \/ (deleter = "rows" /\ b \in paths)

(* A cache that knows the counts: once no task of a block is in progress   *)
(* and none has failed, a block that was bound more than once and          *)
(* calculated is cached, however its tasks interleave                      *)
(* (cache_actor.py:17-46).                                                 *)
SharedBlockIsCached ==
  counted /\ faults = 0 =>
    \A b \in Blocks :
      LET ts == {t \in Tasks : t[2] = b}
      IN  /\ RefCount[b] > 1
          /\ \E t \in ts : at[t] = "done"
          /\ \A t \in ts : at[t] \in Finished \cup {"none"}
          => b \in obj_ref

(* The executor ends, whatever the tasks do. *)
RunEnds == <>[](executor \in {"ended", "failed"})

=============================================================================
