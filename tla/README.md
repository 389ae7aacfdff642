# A TLA+ verification of svoe

svoe is a platform for financial data: it collects market data, stores it in
blocks, computes features from the blocks on a Ray cluster, and backtests
strategies on them. Most of its Python is sequential data handling; this
project is about the parts that are concurrent, retried or interrupted. It
models them in TLA+, checks the models on small instances with TLC and proves
the most important facts for every instance with TLAPS.

Paths below are relative to the root of the repository (`src/` in
`PROJECT.json`). `data_feed/perf` is abbreviated to `perf`.

## 1. Inventory

| Component | State | Operations | Interacts with | What is hard |
|---|---|---|---|---|
| **perf scheduler** (`perf/scheduler/scheduler.py`, `perf/state/scheduling_state.py`) | work queue, pods per node, priorities, pods done, reschedule reasons, `global_lock`, `futures` | `run`, `pop_or_wait_work_queue`, `fetch_nodes_state`, `add_`/`remove_pod_from_schedule_state`, `done_estimation_callback`, `reschedule_or_complete`, `stop` | submits workers to a thread pool; callbacks run in the workers' threads | one lock for part of the state; futures are done before their callbacks; exceptions in callbacks vanish; a signal interrupts the main thread |
| **perf worker** (`perf/estimator/estimator.py`, `perf/state/phase_result_state.py`) | per pod: phase events, result events and one `threading.Event`, in two states | `run_estimator`, `schedule_pod`, `estimate_resources`, `delete_pod`, `wait_event`, `wake_event`, `clean_*` | Kubernetes API; woken by callbacks and `stop` | no lock at all; phase, Event and result are written one after the other; timeouts against late events; lost answers |
| **perf callbacks and watcher** (`perf/callback`, `perf/kube_watcher`) | event logs, counters, resource versions | one thread per channel, `update_state`, `callback` | read and write the two states of the worker | order between channels; events of an earlier run; an exception ends a channel's thread |
| **perf OOM handler** (`perf/scheduler/oom`) | two queues, two Events, a process lock, `marking_lock`, `in_flight_pods` | `notify_pod_started`, `mark_pods`, `return_loop`, `stop` | a second process | queue and Event are not one; early returns holding a lock |
| **catalog pipeline** (`featurizer/data_ingest/pipelines/cryptotick/pipeline.py`) | `input_queue`, `results_refs`, `stats`, `is_running` | `pipe_input`, `_schedule_tasks`, `_process_results`, `wait_to_finish`, `update_stats` | Ray tasks, the database actor | state read before an `await`; finishing while a batch is in flight |
| **feature cache and task graph** (`featurizer/actors/cache_actor.py`, `featurizer/task_graph`) | reference count and object per block; executing and finished refs | `bind_and_cache`, `check_cache`, `cache_obj_ref`, `calculate_feature`, `execute_flattened_nodes` | Ray tasks of several features share blocks | check, compute and store are separate; counts drop on every check |
| **feature storage** (`featurizer/storage`, `featurizer/sql`) | files in S3, rows in a database | `calculate_feature` (storing), `delete_features`, `store_feature_def` | S3, SQL | two stores and no transaction; failure in between |
| **blocks, features, streams** (`featurizer/blocks`, `featurizer/features`, `featurizer/feature_stream`) | none (pure), a heap of events in the generator | `make_ranges`, `ranges_to_interval_dict`, `get_overlaps`, `merge_blocks`, `next` | used by the task graph and the backtester | boundaries of intervals |
| **airflow DAG runner** (`svoe_airflow`) | table of DAG configurations | `run_dag`, `_delete_dag_config_and_metadata`, the generator | Airflow's scheduler | concurrent calls of one user; names by the second |
| **ray clusters** (`ray_cluster/manager`, `svoe_airflow/operators`) | cluster resources in Kubernetes | create, wait until ready, delete | Kubernetes, Airflow tasks | check then create; deletion by another task |
| **backtester** (`backtester`) | wallets with locked amounts, orders, trades, results of an inference thread | `Loop.run`, `stage_for_execution`, `update_state`, `lock`, `unlock` | feature generator, inference thread | conservation of the amounts; the thread's life |
| data feed service, API server, clients, command line, trainer, infrastructure, notebooks, configuration builders, deprecated code | – | – | – | wrappers, generated code, deployment files: not modelled (`PROJECT.json` has the reason for each) |

What makes each component correct:

* *scheduler*: a pod is at every moment in exactly one place (queue, node, in
  transit through a callback, done); its runs do not overlap; it is
  rescheduled at most `MAX_RESCHEDULES` times, with the states of the earlier
  run cleaned; the pods of a node have falling priorities; `run` ends when
  everything is done, and only then;
* *worker*: a run ends whatever happens; the pod it created is gone or asked
  to go; only faults of the cluster make it repeat; results mean what they
  say (`POD_SCHEDULED`, `POD_FINISHED_ESTIMATION_RUN`);
* *OOM handler*: every notified pod is marked and its result handled; at most
  one pod of a node is marked high; no lock is left held;
* *pipeline*: every accepted item is stored or reported, never dropped; at
  most `max_executing_tasks` tasks at once;
* *cache and graph*: a block shared by features is computed once or the result
  is the same; at most `parallelism` tasks; every node's result is returned;
* *storage*: a row has its file; a block is not stored twice;
* *DAG runner, clusters*: a user has at most one configuration; a cluster in
  use is not deleted;
* *backtester*: no amount is created or lost but for commissions.

## 2. Plan

1. `EstimationScheduler` with the abstract `EstimationLedger`, and proofs.
   **Done.**
2. `PodLifecycle` with the abstract `EstimationRun`, which ties it to the
   scheduler, and proofs. **Done.**
3. `OomHandler`: client, return loop, handler process and its executor, and
   proofs. **Done.**
4. `CatalogPipeline`: input batches, tasks, statistics, finishing, faults and a
   second ingest, and proofs. **Done.**
5. `FeatureTasks`: the executor, the reference counts under concurrent tasks,
   files and rows with failures, deletion, later runs, and proofs. (The cache,
   the executor and the store share every task, so they are one module.)
   **Done.**
6. `Backtest`: wallets, orders, the inference thread, and proofs. **Done.**
7. `UserDags`: the DAG runner, its table and the generator of DAGs, and proofs.
   **Done.**
8. `ClusterTasks`: DAG runs that share a Ray cluster, and proofs. **Done.**
9. `BlockGraph`: ranges, overlaps, groupings, the label's horizon and the join,
   and proofs. **Done.**

Left: the event logs of the watcher, and a model of how the streams of a feature
merge the blocks that a node depends on.

## 3. Modules

| Module | Models |
|---|---|
| `EstimationScheduler` | the scheduler: main thread, workers, done callbacks, `stop` |
| `EstimationLedger` | what the scheduler promises for each pod |
| `PodLifecycle` | one pod: its worker, the watcher's threads, `stop`, the cluster |
| `EstimationRun` | what the scheduler assumes of a worker |
| `OomHandler` | the OOM handler process, its client, `stop` |
| `CatalogPipeline` | the ingest of files: runner, actor, tasks, database and store |
| `FeatureTasks` | runs of the featurizer: executor, tasks, cache actor, catalog, deletion |
| `BlockGraph` | the building of the task graph from the blocks of the sources |
| `UserDags` | `run_dag`, the table of configurations, `gen_dags.py`, Airflow |
| `ClusterTasks` | the tasks of DAG runs that create, use and delete a Ray cluster |
| `Backtest` | a local backtest: loop, orders, wallets, inference thread, interrupt |
| `MCEstimationScheduler`, `MCPodLifecycle`, `MCCatalogPipeline`, `MCFeatureTasks`, `MCBlockGraph`, `MCUserDags`, `MCBacktest` | instances, symmetries and state constraints for TLC |
| `EstimationSchedulerProofs`, `PodLifecycleProofs`, `OomHandlerProofs`, `CatalogPipelineProofs`, `FeatureTasksProofs`, `BlockGraphProofs`, `BacktestProofs` | theorems about the module of that name; the first two also that it implements `EstimationLedger` and `EstimationRun` |
| `AirflowProofs` | theorems about `UserDags` and about `ClusterTasks`, which share no name and are extended together |

### 3.1 EstimationScheduler

The variables are the fields of `SchedulingState` and `Scheduler` (`queue`,
`pods_per_node`, `pods_priorities`, `pods_done`, `reschedules`, `global_lock`,
`running`, `futures`), the estimation phase of each pod, the state of each
run's worker and callback, and the main thread with its local variables. A
future is a pair of a pod and the number of its run: `add_done_callback`
attaches to a future, not to a pod, and the difference matters.

There is one action for every stretch of code between two points where another
thread can interfere. `pop_or_wait_work_queue` is `PopQueued`, `StartWaiting`,
`NextCompleted`, `AcquireMain`, `CheckAllDone`, `CheckQueue`, `TestUnlock` and
`Unlock`; `get_schedulable_pod_priority` is `TestLastPod`, `IndexLastPod` and
`ReadPriority`; the callback is `CleanStates`, `BeginScan`, `RemoveFromNode`,
`DropPriority`, `AcquireCallback`, `RescheduleOrComplete`, `ReleaseCallback`.
Exceptions are modelled: in the main thread they end it, in a callback they end
the callback and leave everything as it was (`Raise`), as
`concurrent.futures` does.

Abstractions:

* a worker only has the states *scheduling*, *starting* (pulling the image and
  starting the containers), *finishing*, *deleting*, *done*; how it moves
  between them is `PodLifecycle`'s subject;
* readiness of nodes, their memory and the age of a phase are choices of the
  environment: a node with an estimating last pod may be taken or not.
  `fetch_nodes_state` reads in one step;
* whether the watcher has logged an event of a pod (the `KeyError` of
  `clean_states`, whose traceback the source quotes) is a choice;
* local variables that are dead are reset; `remove_done_futures` and `stop`
  are one step each; a callback is attached to a future that is done already by
  running it in the main thread;
* two calls lack their parentheses in the source (`runner.py:56`,
  `self.scheduler.run`, and `scheduler.py:64`, `self.oom_handler_client.run`),
  so that as committed the program would do nothing. The classes are modelled
  by their methods, as if called.

### 3.2 EstimationLedger

Each pod is *queued*, *running* or *done*, with the number of its
reschedules. `Start`, `Complete` and `Reschedule` are all that may happen to
it. The refinement mapping counts a pod as running from the moment it is
popped to the moment the callback decides; a pod lost to an exception stays
running for ever, which the ledger allows: that it does happen is shown by
`SchedulerLostPod`.

### 3.3 PodLifecycle

The two `PhaseResultState`s are functions over `{"scheduling", "estimation"}`:
the last phase, the recorded results, the last result, and the Event of the
current wait (absent, clear or set). The worker has one action per access to
them: recording a phase (`StartRun`, `BeginPhase`, `BeginDeletion`), installing
the Event (`InstallSchedulingEvent`, `InstallPhaseEvent`), the end of a wait,
the test for interrupts, the result (`CheckInterrupt`, `RecordResult`), the
metrics, the reasons, the requests to Kubernetes with lost answers
(`CreatePod` and `RequestDeletion` can take effect and stay where they are),
and `clean_states`, one dictionary after the other.

The other threads are the three channels of the watcher that matter to a pod,
`stop`, and the thread that fetches metrics. `Deliver` takes an event and
decides the reaction of `PodCallback.callback` or `NodeCallback.callback`; the
reaction is a list of steps (`add` a result, `find` the Event, `set` it) that
`ThreadStep` carries out one at a time, between the steps of everyone else.
`find` may give up and `set` may raise `KeyError`, which ends the thread.

The cluster (`ScheduleOnNode`, `PullImage`, `StartContainers`, `DeletePod`, and
the faults) is external: it is modelled by the events the code consumes.

Abstractions: time is left out, so a wait may time out whenever its Event is
clear; a callback reads all it needs in one step; the result of a wait of the
scheduling state is recorded in the step that ends it; of the results only
those the code asks for by type are kept, and the last; the startup and the
liveness probe are one event, the one that reaches the threshold; retries are
not counted; the OOM handler (off by default) does not mark pods here, but OOM
events interrupt.

### 3.4 EstimationRun, and how the two models fit

`EstimationScheduler` lets its workers move freely through their states.
`EstimationRun` states exactly that freedom, and `ImplementsRun` says that the
detailed worker never leaves it: states in order, one outcome, decided when the
estimation ends and kept through deletion, and phases cleaned before the next
run. `EstimationScheduler.StartEstimation` has the guard `running`, which
`EstimationRun.Start` does not: the code tests `running` some steps before it
records the first phase; for the scheduler's properties the earlier step is the
one that counts.

### 3.5 OomHandler

The watcher thread that calls `notify_pod_started` is `PodStarted`, one of the
ways through `decide_pods_marking` (`MarkFirst` with nothing in flight,
`MarkNext` with something, `AlreadyInFlight` for the early return and
`NotScheduled` for the exception, both of which leave `marking_lock` held), and
`SendRequest`. The loop of the handler process and the return loop of the
client have the same five steps: test `running`, wait for the Event, take the
lock, get and work, clear the Event and release the lock. In the return loop
the work (`HandleResult`) waits for `marking_lock` while it holds the process
lock, so it is separate from `TakeResult` and `ClearReturnEvent`; a result of a
pod that is not in flight raises there and leaves both locks held. The executor
runs any number of scripts side by side (`RunScript`, `ReturnResult`): a script
sets the mark of a pod that is there, finds nothing of one that is gone, or
raises, as the code's own TODO fears. `StopHandler`, `WakeLoops`,
`JoinHandler` and `JoinClient` are the stop of both classes.

Abstractions: a section under a lock is one action unless it can block inside;
`decide_pods_marking` reads the scheduler's tables once; of a result only the
pod counts (the pids are recorded, and nothing here reads them); the threads
that feed a `multiprocessing.Queue` are left out, so an item put under the lock
is there when the lock is free; every script ends; there is one watcher thread
that notifies, as there is one channel of pod objects. Pods come to a node and
leave it at any time: that they are scheduled and done is the scheduler's
subject.

`InFlightAccounted` counts a result that waits in the queue as being on its
way. It may wait for long: the return loop takes one result and clears the
Event even when there are more, and the rest wait for the next one to come.

### 3.6 CatalogPipeline

The actor is one asyncio loop, so an action of it runs from one `await` to the
next: `_schedule_tasks` is `TakeBatch`, `FilterBatch` and `ScheduleTasks` (the
asking of the database and of the metadata are awaited, and what is decided
after them is decided on what the others left), `_process_results` is
`ProcessResults`, `wait_to_finish` is `StopPipeline`, and both share
`ProcessOne`: `asyncio.wait` returns for the results it was called with, while
`ray.wait` takes from those that are there now. If the other coroutine was
quicker, `ray.wait` blocks the whole loop (`LoopFree` is the guard of every
action of the actor) until some task ends (`Unblock`). The runner and the
thread that polls the progress are `PipeInput`, `CallWaitToFinish`,
`RunnerReturns` and `Poll`. A task (`LoadFile`, `Split`, `StoreBlock`,
`SendRows`, `WriteRows`, `ReturnResult`) hands its blocks to threads whose
exceptions nobody reads, and writes the rows when they are all done.

Faults are bounded by `MaxFaults`: a worker dies and Ray starts its task again
(`RestartTask`), a task or the scheduling coroutine raises, a block cannot be
stored, the runner dies with everything but the database (`RunnerDies`), and
rows that were on their way arrive later (`WriteLate`). `RunAgain` ingests the
same files again.

Abstractions: an item is its name, a block a pair of an item and a number; of
the calls of `update_stats` only the one that makes a task `done` is kept; the
rows of an item are written in one transaction; an item of a data source the
filter does not know raises, which is counted as a fault of the coroutine.
`NumSplits` is any positive number for each item: a file of fewer bytes than a
block, an empty one included, is not split but raises
(`df_utils.py:136-137`), which is `TaskRaises`.

`ItemsAccounted` holds while `is_running`. It is no oversight that it stops
there: `wait_to_finish` sets `is_running` to `False` as soon as the queue is
empty (`pipeline.py:206`), while the batch that was taken from it is still
being filtered or throttled; its remaining items are dropped. The comment of
the caller (`runner.py:43`, "wait for everything to process") says otherwise,
and so does the progress bar, which then never completes.

### 3.7 FeatureTasks

`execute_flattened_nodes` is `ScheduleNode` and `CollectOne` in turn, then
`Drain` and `GetResults`. A node of the graph starts one task for every block
below it (`Below`: a block that is loaded needs no others); each goes through
`CheckCache`, `Work`, `CacheBlock`, `TestExists`, `StoreFile` and `StoreRow`,
the calls to the cache actor and the catalog that `calculate_feature` and
`load_if_needed` make, in between which tasks of other nodes do the same for the
same block. Nobody waits for more than it gets: `Work` waits for the blocks that
the task itself calculates from, a task that finds its block in the cache
(`found`) waits for none, and `JoinBlocks`, the task of the node, waits for the
blocks that it joins and raises what one of these has raised, whatever the tasks
further below do.
`delete_features` is `FindPaths`, `DeleteFiles`, `DeleteRows`; `RunAgain` is a
further run, which loads the blocks whose rows it finds. Faults: a task raises,
a worker dies and its task starts again, a cached object is lost, a delete
raises in the middle, with some or all of the files gone. The actor of the
database is detached (`db_actor.py:50`): a row that was sent by a worker that
died, or by a run that is over, is written later (`late`, `WriteLate`).

Abstractions: the graph is a constant; the reference counts are what the
builder binds, once per binding and not per task; objects are never evicted, as
the actor keeps them; the shifting of labels waits for its group of blocks as
the join does, and is part of it; synthetic data, which uses no cache, is left
out. Tasks that are still running when their run is over are cut short with its
driver. A feature of two inputs raises at this commit, because `ray.get` is
called with one list for each (`tasks.py:169`); the model is that of a task that
gets all its blocks. `counted` is a choice: `Featurizer.run` creates the cache
actor from the dictionary before the graph is built (`runner.py:51`, `:65-75`),
when it is still empty, so that in production nothing is counted and no block
is shared; `test_task_graph.py` creates it afterwards. `delete_features` is
called by tests only at this commit.

What the two properties of the store except is what the code does.
`EndedMeansStored` excepts the blocks of a task that was started again after it
cached its block: it finds it in the cache and returns without storing it
(`tasks.py:158-161`). It excepts runs with a delete. And it excepts the blocks
of a task for which nobody waited (`Unwaited`): when the block above is found in
the cache, the run ends while the block below is still being stored, or although
its storing has failed, and in neither case is the row sure to come.
`RowsMatchFiles` excepts the blocks that a delete has taken the file of while
the row stayed (it raised) or was not there yet (it was on its way): these are
in `bare`, which a block leaves when its file is stored again or its row
deleted.

### 3.8 BlockGraph

The builder visits the postorder of each requested feature: `VisitSource` makes
the ranges of a source of data, `VisitFeature` groups and overlaps those of the
inputs, `NextRequest` goes on to the next requested feature, and `Join` lets the
label look ahead and joins everything. An `IntervalDict` of the `portion` library is a function
on cells (a cell for every point and one for every open interval between two
neighbouring points), which is what makes touching blocks, empty intersections
and half-open remains come out as they do in Python. `Assigned` is a sequence of
assignments to one: at a cell the last of them counts. The loops of `blocks.py`
are written as what they compute: `LookBack` and `Ahead` are the blocks up to
the first one that breaks the loop, `MakeRanges` cuts where `Ended` has counted
one gap more. Building may raise:
`KeyError` if inputs have different ranges (`builder.py:103`), `ValueError` for
a feature that is met twice (`build_error`), and so may the join.

Abstractions: at this commit the builder calls
`feature_definition.group_dep_ranges(dep_ranges, feature, dep_feature)`, while
the definitions that are shipped take `(feature, dep_ranges)`; the model is
that of `identity_grouping` and `windowed_grouping` behind the builder's call.
Fixed windows, snapshots, blocks that are already stored, the data in the
blocks and the streams are left out.

`BlockGraphAssumption` says that the blocks of a source are sorted, at most
touch and are distinct (`InTime`). The code relies on it and leaves the test to
a TODO (`blocks.py:74`, `builder.py:59`); that no block starts after its end is
tested (`blocks.py:22`). It also says that a source has no inputs and is no
feature, that every feature has inputs, and that at least one feature is asked
for, which is how the builder tells them apart (`builder.py:38`) and is called.

### 3.9 UserDags

A call of `run_dag` is one request of the API server. `SelectNone`,
`SelectOne`, `SelectMany` are the reading of the user's configurations,
`DeleteDag` and `DeleteConfigs` are `_delete_dag_config_and_metadata`, called
for the previous DAG or for one that turned out malformed, `Save` names and
stores the new one, and the rounds of the wait are `PollFinds`, `PollNoRow`,
`PollError`, `PollMisses`, `PollAgain` and `TimeOut`; `PostRun` starts the run.
`gen_dags.py` is `SyncConfigs` (the folder is compared with the table by name),
`LoadFile` (which reports what cannot be built) and `EndSync`, after which
Airflow serves what was built.

`overlapping` is the set of users who make a call before their last one is
answered; the properties are about the others, as the code's own assertion is.
Two overlapping calls may both store a configuration, and from then on every
call of that user raises `RuntimeError` (`dag_runner.py:67-69`). Time is
counted in seconds because names are: a call after a malformed one in the same
second gets its name, the folder keeps the old file (`utils.py:47-51` compares
names only), and a good configuration is rejected; `OnlyMalformedRejected` names
this exception (`Alone`). `SequentialCallsAreServed` does not need it: a name is
used twice only after a rejection, and the file that stays is the malformed one,
so that the later call is rejected too and never runs a configuration that is
not its own.

Abstractions: `clock` counts only the seconds in which a DAG is named; there is
one evaluation of `gen_dags.py` at a time and nobody else writes to the folder;
Airflow's deletion may be refused, which the code ignores; run ids, the upload
of code to S3 and the `watch_*` functions, which only read, are left out. (The
import of `svoe_airflow.db.dags_mysql_client` names a module that does not
exist; the client is `dags_sql_client.py`.)

### 3.10 Backtest

`Loop.run` is `Deploy`, `StartInference`, `AwaitFirstResult`, then for every
event `NextEvent`, `Predict` (with a model), any number of `MakeOrder`,
`StageOrders`, `ExecuteNext` for every order, `EndUpdate`; then `EndOfData` and
`JoinThread`. The strategy is any: it may order what it likes, and an order it
cannot pay raises in `lock_from_balance`. The inference thread is `LoopTop`,
`MakeRequest` and `AppendResult`, which publish and record a prediction in two
steps. `Interrupt` and `StopJoins` are the handler of `KeyboardInterrupt` in
`run_locally`. Exceptions are kept by their type: without a model the loop ends
in an `AttributeError` (`loop.py:67`, which the test at `runner.py:208-241`
would meet), as does an interrupt before the thread exists.

Abstractions: amounts and prices are naturals and the division of a purchase
rounds down, where the code has floats (what is locked, moved and left is the
same in both); the commission's part is a constant, 200 in the code; snapshots
of the portfolio and the merging of results of remote workers are left out; one
interrupt; no order is ever cancelled, as in the code.

### 3.11 ClusterTasks

A DAG of the client's sample has a task that creates the cluster, one that
featurizes and one that deletes, and a task that raises ends the run.
`RayHook.connect_or_create_cluster` is `FindCluster`, `CreateCluster`,
`AskStatus` (repeated only while the status is unset) and `Ping`; around it
`ClusterOperator.execute` publishes the address in an Airflow variable
(`PublishAddress`). `ReadAddress` is `FeaturizerOperator.execute`, `Connect`,
`CreateActor` and `Featurize` are `Featurizer.run` as far as the cluster is
concerned: it kills the detached cache actor of whoever was there before,
creates its own and gives it the results. `DeleteCluster` and `DropAddress` are
the last task. Every request to Kubernetes may fail, with or without effect; a
worker of Airflow may die between any two steps (`KillTask`). `Operate` is the
KubeRay operator and `ClientCall` somebody else who creates or deletes through
the API server.

`disturbed` is the set of runs during which another run was active, somebody
else acted or a request failed. The first property is about the others, because
the code does fail for these: `run_dag` leaves the run of the DAG it replaces
going (`dag_runner.py:44-52` has the TODO), and two runs of one user then share
the cluster, the variable and the name of the cache actor; the second kills the
actor of the first (`runner.py:60-61`), and the one that ends first deletes the
cluster under the other. What the property does say is that nothing a run of
the past left behind, wherever it was killed, harms a run that is alone, but
for the cases its exceptions name: a cluster that is not ready or whose status
stays unset is reported, not repaired.

Abstractions: the address is a function of the name of the cluster
(`construct_head_address`), so that the variable only matters by being there
and by whom it was set; the pods of a deleted cluster are gone with it; the
number of times the status is asked for, 6 or 12 in the code, is `MaxAsks`;
the states of a status other than *ready* are one. The client's own waiting
loop, `patch_ray_cluster` and the template of the custom object are left out.

## 4. Runs

In the older modules a state in which the program has ended is a stuttering
step of its own (`Finished`), so that deadlock can be checked. The runs that do
not check it are of two kinds. In `SchedulerSafety` and `SchedulerTwoNodes` the
scheduler really can stop for ever, when the signal handler raises in the main
thread while that holds `global_lock` (`scheduler.py:374`), and in `OomMarking`
the threads can wait for ever for a `marking_lock` that was left held
(`oom_handler_client.py:51`, `:70`, `:111`). In `PipelineIngest`, `FeatureRun`,
`BacktestRun`, `ClusterRuns` and `TaskGraph` the program simply ends; that it
gets there is a liveness property of the first three.

Two workers of TLC need at most about three minutes for any run. The runs of the
scheduler without liveness use the symmetry of pods and nodes. A type invariant
that is proved is not checked again by a run.

| Run | Instance | Checks | Shows |
|---|---|---|---|
| `SchedulerSafety` | 2 pods, 1 node, bulk of 1, 1 reschedule, a stop | `OnlyCurrentRunActive`, `ImplementsLedger`, `LaterPodsHaveLowerPriority`, `StartingPodsBounded` | no interleaving takes a pod through anything but the ledger's steps; runs of one pod do not overlap; priorities fall on a node; no more pods start up than the bulk size allows |
| `SchedulerTwoNodes` | 2 pods, 2 nodes, a stop, fair | `PodInExactlyOnePlace`, `CallbacksEnd`, `EndsUnlessCallbackDied` | no pod is lost or in two places; callbacks end and so does `run`, but for the exceptions in the code |
| `PodReschedule` | 1 fault, 2 runs | `OwnDeletionNeverInterrupts`, `ImplementsRun` | see 3.4; a run's own deletion does not count against it |
| `PodStops` | stop at any moment, fair | `ScheduledIsReal`, `HealthyPodNotRescheduled`, `NoPodLeftBehind`, `RunEnds`, `WakersReturn` | results mean what they say; no pod is left in the cluster; no lost wakeup keeps a worker or a watcher thread for ever |
| `OomMarking` | 2 pods, 1 node, 2 starts, 1 script that raises, a stop, fair | `GetFindsItem`, `InFlightAccounted`, `OneHighInFlight`, `StopEnds` | no loop waits on an empty queue with the lock; a pod in flight is on its way somewhere; two pods are never asked to be killed first at once; `stop` gets through unless `marking_lock` was left held |
| `PipelineIngest` | 3 items in 2 batches, 2 tasks at once, 2 ingests, 1 fault, fair | `RowsHaveFiles`, `PollEndsRecorded`, `ItemsAccounted`, `IngestEnds` | a row has its file unless storing it raised; complete progress means that everything is recorded; no item is lost before the stop; an ingest ends unless the scheduling coroutine died |
| `FeatureRun` | 3 joins, two of a block that is calculated from one to be stored and one of the data, 2 at once, 2 runs, 1 fault, 1 delete, fair | `EndedMeansStored`, `RowsMatchFiles`, `SharedBlockIsCached`, `RunEnds` | a run that ends has stored what it was to store and waited for; rows keep their files unless a delete took them; a block bound twice is cached; every run ends |
| `BacktestRun` | 2 assets, 2 events, 2 orders, 2 requests, with and without a model, an interrupt, fair | `OrdersAccounted`, `BalancesMatchTrades`, `UsedPredictionsReported`, `BacktestEnds` | an order is locked in one wallet until it is executed once; the trades explain the balances; a prediction that was used is reported; the run ends |
| `DagRuns` | 1 user, 3 calls, 1 malformed, overlapping or not, fair | `OneConfPerUser`, `SequentialCallsAreServed`, `OnlyMalformedRejected`, `EverythingSettles` | who waits for his answers has one configuration at most and gets his own run or his own error; requests, folder and Airflow settle on the table |
| `ClusterRuns` | 3 DAG runs, 2 that bring a configuration, 1 that does not delete, 2 faults | `UndisturbedRunsKeepTheirCluster`, `SucceededLeavesNothing` | a run that nobody disturbs finds its cluster, address and actor, whatever earlier runs left; success means that nothing is left |
| `TaskGraph` | every sequence of 3 and 2 blocks of two sources, 3 requests, with and without label | `JoinCoversWhatIsCommon`, `JoinedNodesFit`, `DependsOnItsWindow`, `LabelReachesItsHorizon` | a block depends on all of its window, a label on all up to its horizon; the join has every common moment, with the right blocks |
| `SchedulerLostPod` | 2 pods, 1 node, 1 reschedule | `NoPodQueuedAfterAllFinished`, violated | see below |

`SchedulerLostPod` finds a comment of the repository violated: "all tasks
finished and no more queued" (`scheduling_state.py:100`). A future is done
before its done callback has run; `run` can therefore end while a callback puts
its pod back on the queue, and the pod is never run again.

Other disagreements that the models contain, and that the properties except by
name: an event that comes before its phase is recorded is dropped, and the
worker waits for its whole timeout; an estimation can be recorded as finished
by a late event of an earlier run; `stop` misses a run between two waits; a
node is taken while its last pod is being deleted; two pods of a node can stay
marked to be killed first, one after the other; `wait_to_finish` drops the
batch in flight (3.6); a run of the featurizer can end while a block that it was
to store is not stored (3.7); two overlapping calls of a user lock him out (3.9); the
cache of the featurizer counts nothing (3.7).

**Bounds and why they are enough.** The scheduler's data is indexed by pods and
nodes, and each of its races needs one worker or callback against the main
thread, or two callbacks against each other: two pods give both, and two nodes a scan over more than one entry. The bulk size is
1, so that a second pod of a node is always one of the sequence, whose state was
read earlier; a larger one is covered by the theorems only.
One reschedule distinguishes the first run from the last. `MaxStops` bounds
the signals (a second one changes nothing that the first did not).
`PodLifecycle` has one pod because pods share no state there. One fault and two
runs let every event of a run arrive in the next; two undelivered events of a
channel let the deletion's events overtake the worker. The state constraint
`PodNotOver` of `PodReschedule` cuts behaviours after the last run, when the
late events of the pod change nothing that a property reads; `FewUndelivered`
allows at most two undelivered events over all channels (`MaxUndelivered`),
which is what one step of the cluster can emit.
In `OomHandler` every race is between a request, a script and a loop: two
starts put two requests in the queue and up to three scripts in the executor,
one of them for a pod notified twice.

`PipelineIngest` has an item more than tasks at once, so that the throttle
closes, two batches, so that the second is filtered while the first executes,
and a second ingest, which meets rows, files and late writes of the first; every
kind of fault is one of the choices for the one that happens. In `FeatureRun`
two joins get the same block of a feature, which is calculated from a block that
is to be stored, so that one of them may find the upper block in the cache
while the lower one is anywhere between its calculation and its row; the third
join, which gets the data, is the first in the order, so that with two at once
it decides when the others start together. The second run finds the row of the
first. Only the lower block is stored: that a loaded block starts none below it
is in the model (`Below`) and in the theorems, and makes no difference in this
instance.
`BacktestRun` has one order for each side of a
race of two (an order that is open over an event, and a later one that uses the
same wallet); a commission of one half, instead of 1/200, makes it visible in
small numbers. `DagRuns` has one user, because names and rows carry their owner
(the theorems are about any number), and three calls: one to leave something
behind, one to trip over it and one to find the folder afterwards. `ClusterRuns`
likewise: two runs for every race for the cluster, a third to come after them;
two faults let one run die holding a cluster and another meet a failed request.
`TaskGraph`: five moments of time, a window of one and a lookahead of two give
blocks that touch, overlap the window partly, wholly or not at all, and empty
ones for the second source.

**Fairness.** The scheduler's `FairSpec` has weak fairness of the main thread,
of each worker and of each callback: they are threads of one process and their
waits have timeouts. It assumes that a node with room in bulk is eventually
offered (`PickBulk`), not that a node is ever found fit by its memory
(`PickSequence`). `PodLifecycle` has weak fairness of the worker and the
threads; none of the cluster, so that `RunEnds` holds even if Kubernetes never
answers with an event. `OomHandler` has weak fairness of the four threads and of
`stop` once it has begun, none of the pods. `CatalogPipeline` and `FeatureTasks`
have weak fairness of the runner or executor, the coroutines and the tasks,
whose computations end, and none of the faults; in `FeatureTasks` it is only
that some task goes on while one can, whichever gets a worker. `Backtest` has weak fairness of
the main and the inference thread. `UserDags` has weak fairness of the requests,
of `gen_dags.py`, which Airflow evaluates again and again, and of the clock, and
strong fairness of `TimeOut`: the wait of a call is a loop with a fixed number
of rounds, of which the model keeps only that there is a last one.
`ClusterTasks` and `BlockGraph` state no liveness.

## 5. Proofs

| Module | Theorem | States | In words |
|---|---|---|---|
| `EstimationScheduler` | `TypeCorrect` | `Spec => []TypeOK` | The variables keep their types for any pods, nodes and bounds; in particular no pod is rescheduled more than MaxReschedules times |
| `EstimationScheduler` | `PodInvariant` | `Spec => [](TypeOK /\ PodInv)` | The inductive invariant: whatever the interleaving, each pod is waiting, assigned, in transit or done, and its runs begin and end one after the other |
| `EstimationScheduler` | `ExactlyOnePlace` | `Spec => []PodInExactlyOnePlace` | No pod is lost or in two places, for any number of pods and nodes |
| `EstimationScheduler` | `OnlyCurrentRun` | `Spec => []OnlyCurrentRunActive` | No worker and no cleanup of an earlier run of a pod is active in a later one |
| `EstimationScheduler` | `QueuedClean` | `Spec => []QueuedPodsAreClean` | A pod in the queue has no phase event, priority or live run left |
| `EstimationScheduler` | `SchedulerImplementsLedger` | `Spec => ImplementsLedger` | The scheduler implements the ledger: initial states and every step map to it |
| `EstimationScheduler` | `StartingBounded` | `Spec => []StartingPodsBounded` | At most BulkScheduleSize pods of a node are starting up at once, however stale the state was in which the node was picked, for any bulk size, pods and nodes |
| `EstimationScheduler` | `LaterIsLower` | `Spec => []LaterPodsHaveLowerPriority` | The pods of a node have falling priorities in the order they were put there, though the list is read in steps while callbacks remove from it |
| `PodLifecycle` | `TypeCorrect` | `Spec => []TypeOK` | The variables of the worker, the watcher's threads and the channels keep their types, for any reschedules, faults and backlog |
| `PodLifecycle` | `DeletionSafe` | `Spec => []OwnDeletionNeverInterrupts` | The events of a run's own deletion never make that run one that was interrupted |
| `PodLifecycle` | `ScheduledSafe` | `Spec => []ScheduledIsReal` | In the first run POD_SCHEDULED is recorded, while the scheduler runs, only for a pod that the cluster has scheduled, whichever thread set the Event |
| `PodLifecycle` | `HealthyNotRepeated` | `Spec => []HealthyPodNotRescheduled` | Without a fault of the cluster no pod is rescheduled: timeouts, a stop and the events of its own deletions do not make a run repeat |
| `PodLifecycle` | `NoPodIsLeft` | `Spec => NoPodLeftBehind` | However a run ends, its pod is gone or on its way out, unless the run raised or the cluster refused the deletion to the last attempt |
| `PodLifecycle` | `LifecycleImplementsRun` | `Spec => ImplementsRun` | Refinement: the detailed worker, with all its threads, does only what the scheduler's model assumes of a worker |
| `OomHandler` | `TypeCorrect` | `Spec => []TypeOK` | The variables keep their types for any pods, nodes and bounds |
| `OomHandler` | `GetNeverBlocks` | `Spec => []GetFindsItem` | A loop that saw its Event set and took the lock finds an item: no get() blocks with the process lock held |
| `OomHandler` | `OneHigh` | `Spec => []OneHighInFlight` | At most one pod in flight is to be marked as the first one to be killed, for any number of pods, nodes and scripts |
| `OomHandler` | `NoneForgotten` | `Spec => []InFlightAccounted` | A pod in flight is in a request, in a script, in a result or in the hands of the return loop, as long as no script has failed for it |
| `CatalogPipeline` | `TypeCorrect` | `Spec => []TypeOK` | The variables keep their types for any input, files of any number of blocks and any faults |
| `CatalogPipeline` | `NeverTooMany` | `Spec => []ExecutingBounded` | At most MaxExecutingTasks tasks execute and the actor waits for each of them, for any input and bound, files of any number of blocks |
| `CatalogPipeline` | `OneRowForEachBlock` | `Spec => []RowsUnique` | A block has one row at most, however often it is ingested and however late rows come |
| `CatalogPipeline` | `RowsFollowFiles` | `Spec => []RowsHaveFiles` | A block that has a row is in the store or its storing has raised, whatever dies or is started again |
| `CatalogPipeline` | `NoItemLost` | `Spec => []ItemsAccounted` | While the actor runs and its scheduling coroutine has not raised, an item that was piped is in the queue, in the pending batch, in a task or recorded, for any input and faults |
| `CatalogPipeline` | `PollEndIsTrue` | `Spec => []PollEndsRecorded` | When the progress bars are complete every block of the input has its row, for any input, faults and repeated ingests |
| `FeatureTasks` | `TypeCorrect` | `Spec => []TypeOK` | The variables keep their types for any graph; no reference count is negative |
| `FeatureTasks` | `NeverTooMany` | `Spec => []ParallelismBounded` | The executor waits for every node it has started and for Parallelism of them at most |
| `FeatureTasks` | `RowsAndFiles` | `Spec => []RowsMatchFiles` | A block has one row at most. Its file is there too, but while a delete is between files and rows, after one that raised, and when a delete took the file while the row was on its way: for any graph, faults and deletes |
| `FeatureTasks` | `EndedRunsStored` | `Spec => []EndedMeansStored` | A run that ends has recorded every block that it started and was to store, whoever calculated it and whoever found it in the cache, but for a worker that died, a delete, and a task of the block that nobody waited for and that is not over or failed: for any graph, joins and parallelism |
| `FeatureTasks` | `SharedAreCached` | `Spec => []SharedBlockIsCached` | With the builder's counts and no fault, a block bound more than once is in the cache when all its tasks of the run have ended, however they interleave |
| `Backtest` | `TypeCorrect` | `Spec => []TypeOK` | No balance, lock or commission is negative, for any strategy, prices and deposits |
| `Backtest` | `EveryOrderAccounted` | `Spec => []OrdersAccounted` | An open order has its amount locked in the one wallet it pays from; an executed one has no lock and exactly one trade |
| `Backtest` | `NoMarketOrderWaits` | `Spec => []MarketOrdersDone` | When the loop takes the next event every market order made before is executed |
| `Backtest` | `ThreadJoined` | `Spec => []NothingLeftRunning` | A run that returned or was stopped has ended its inference thread and, stopped, its predictor |
| `Backtest` | `PredictionsReported` | `Spec => []UsedPredictionsReported` | Every prediction that the strategy used is in the result of a run that returned |
| `Backtest` | `TradesExplainBalances` | `Spec => []BalancesMatchTrades` | A wallet holds, free and locked, what it began with and what the trades moved: sums over any number of locks and trades, for any strategy, prices and commission |
| `BlockGraph` | `GraphIsConsistent` | `Spec => []Inv` | The graph is what its sources and inputs make of it, however often and for whatever request a feature is visited: its nodes are those that its inputs' groups have in the range, its ranges are apart, and its metas are its nodes in order |
| `BlockGraph` | `NodesDependOnTheirWindow` | `Spec => []DependsOnItsWindow` | A node depends on the block of each input that it is in and, if it looks back, on all those in the window before, for any blocks that at most touch, any window and any tree of features |
| `BlockGraph` | `LabelsReachTheirHorizon` | `Spec => []LabelReachesItsHorizon` | The label of a block is made of the blocks up to its horizon and of no others, for any blocks and lookahead |
| `BlockGraph` | `WhatIsJoinedFits` | `Spec => []JoinedNodesFit` | What is joined at an interval are nodes that have it, each with the one right before it in its range, for any graph and request |
| `BlockGraph` | `JoinIsComplete` | `Spec => []JoinCoversWhatIsCommon` | The join covers the moments that all the features and the label have a node for, and no others: pruning and overlapping lose nothing |
| `UserDags` | `TypeCorrect` | `Spec => []TypeOK` | Whatever the calls, the files, the rows and Airflow's record name DAGs of users at seconds that have been |
| `UserDags` | `OneConfForEachUser` | `Spec => []OneConfPerUser` | A user whose calls do not overlap has one configuration stored at most, for any number of users and calls |
| `UserDags` | `OnlyMalformedAreRejected` | `Spec => []OnlyMalformedRejected` | A call is told that its configuration is malformed only if it is, unless a malformed one of the same user came in the same second: an error never travels from one name to another |
| `UserDags` | `SequentialServed` | `Spec => []SequentialCallsAreServed` | A call of a user whose calls do not overlap never finds the key taken or its row or DAG gone, and a run posted for it executes its own configuration, for any calls, users and malformed configurations |
| `ClusterTasks` | `ClusterTypeCorrect` | `ClusterSpec => []ClusterTypeInv` | The variables keep their types, and no cluster has a number that was not given out, for any runs and faults |
| `ClusterTasks` | `UndisturbedRuns` | `ClusterSpec => []UndisturbedRunsKeepTheirCluster` | A run that nobody disturbs keeps the cluster, address and cache actor it works with, whatever earlier runs left behind and wherever they were killed |
| `ClusterTasks` | `NothingLeft` | `ClusterSpec => []SucceededLeavesNothing` | A run that succeeded and was to delete its cluster has left neither a cluster that it created nor its address, though runs of the cluster overlap and fail |

Each is in the proof module of that name, those about `UserDags` and
`ClusterTasks` in `AirflowProofs`, and holds for every value of the
constants that satisfies the assumptions of the module: `SchedulerAssumption`,
`LifecycleAssumption`, `OomAssumption`, `PipelineAssumption`, `InputAssumption`,
`FeatureTasksAssumption`, `BacktestAssumption`, `BlockGraphAssumption`,
`UserDagsAssumption`, `ClusterTasksAssumption`. These say that sets are finite where something counts
them, bounds are naturals, and special values are none of the values they stand
beside; the blocks of a file are any positive number (`NumSplits`), and what a
node joins and a block is calculated from any sets of blocks (`JoinsOf`,
`DepsOf`). `FeatureTasks` also needs that no node comes twice in the flattened
graph, and `CatalogPipeline` (`InputAssumption`) that no file comes twice in the
input, because the progress bars count ids up to the number of files;
`MaxStops` of `PodLifecycle` is 0 or 1, since it only says whether there is a
stop.

**The scheduler.** That a pod is in exactly one place is not inductive: whether a callback removes
its pod from the right node and appends it to the queue once depends on which
run the callback belongs to, what the main thread holds in its local variables
and which futures exist. `PodInv` adds this. It is a conjunction of parts that
speak about one pod each (`PodOK`: the runs up to the current one have ended
and are cleaned, `RunsOK`; a waiting pod is in the queue once and nowhere
else, `WaitingOK`; an assigned pod is on one node with a live current run,
`AssignedOK`; a done pod has no run left, `DoneOK`; a callback that has begun
its cleanup is that of the current run, `CleanupOK`; there is no sixth case,
`SomewhereOK`) and of three that hold it together: the main thread's locals
name a pod that is nowhere else (`LocalsInv`), the queue and the nodes have no
duplicates (`UniqueInv`), and a future that is being submitted has no callback
yet (`SubmitInv`). The proof that `Next` preserves it has a lemma per action;
each shows what the action does to the pod it is about, and a frame lemma shows
that `PodOK` of every other pod is untouched. The refinement follows from the
same invariant: outside `PopLast` and `RescheduleOrComplete` the mapped
variables stutter, and inside them the invariant says in which state the pod
was.

The main thread decides by what it read of a node some steps ago, while
callbacks take pods off the nodes. `StartingBounded` and `LaterIsLower` rest on
two facts about all other steps: lists only lose pods (`ListsShrink`) and runs
only go on (`StepGoesOn`). `StartingInv` bounds the pods that start up behind
the last of the list, because the last may be the one that was just put there;
`PriorityInv` says that lists are in the order of their priorities and that what
`get_schedulable_pod_priority` has read, the last pod and then the number below
its priority, stays below every pod that is still on the node.

**The worker.** Every invariant about results and Events has the same three
layers: what the worker's place says of the state (`DeletionState`,
`ScheduledState`, `HealthyState`), what every undelivered event of every channel
satisfies (`OwnEventOK`, `ScheduledEventOK`, `HealthyEventOK`), and what every
step satisfies that a thread has decided on and not yet taken (`OwnOpOK`,
`ScheduledOpOK`, `HealthyOpOK`). A decision survives the worker's moves, or the
worker has begun to delete the pod and the decision does no harm (`Begun`); that
is where late events and stale decisions are excluded. `NoPodIsLeft` is an
action property: `LeavingInv` says that nothing brings the pod back between the
request of its deletion and the end. `LifecycleImplementsRun` follows from
`PhaseInv`, which ties the recorded phase to the place of the worker; the steps
of all other threads leave both alone, so they map to stutters.

**The OOM handler.** `GetFindsItem` is not inductive because it says nothing of
a consumer that has not seen the Event yet: `EventInv` says that a set Event
means an item, until the one consumer has taken it. `InFlightAccounted` needs to
know that a pod is on its way even before it is in flight (`WayInv`).

**The pipeline.** `BoundInv` says that every id in `results_refs` is that of a
task that executes or has ended and was not collected. That rows are unique and
have files needs that ids are given out from the start without gaps (`IdsInv`)
and, for every task, which of its blocks are in the store, with a thread or
refused (`FilesInv`), also for rows of a dead runner that come late.
`NoItemLost` follows the batches: what is in the queue is the input from where
it was taken (`BatchInv`), there are always ids left for what may still come
(`CountInv`), and every item that was taken is pending, in a task or recorded
(`HandedInv`), even though the batch is filtered by what the database had
recorded some steps ago. For `PollEndIsTrue`, `ReportInv` relates the reports of
the tasks to their rows; that all bars are complete then leaves no room for an
item without a task.

**The features.** `ExecInv`: the executor knows exactly what it has started.
`FileInv`: a block whose row is about to be written, by a task or by the actor
of the database (`Recording`), has its file or is `bare`. `WaitInv` says who has
waited for whom: a node that is done for the blocks it joins, a task that has
calculated its block for those below it, and nobody for more. `StoreInv` follows
one block through all tasks that share it: stored, about to be, or cached by
one that is; with `WaitInv`, a block that was to be stored and is not has a task
that nobody waited for. `CacheInv` counts: while the counter still has its first
value nobody has passed the check, and the task that saw it positive is on its
way to cache.

**The backtest.** `OrderInv` ties each order to its locks and trades,
`MarketInv` says how far the execution has come, `ThreadInv` who has told the
thread to stop, `RecordInv` that what was published is recorded or about to be.
`TradesExplainBalances` compares two sums that grow without bound, over the
locks of a wallet and over the trades. The library's `SumFunction` adds the
values of a finite set in an unspecified order, by a function that is defined by
recursion on subsets. `SumsExist` shows that this function exists, `AnyOrder`
that every order gives the same sum, both by induction over subsets, which is
stated for sets (`SubsetsByInduction`, from the well-foundedness of the
naturals) because a theorem that takes a predicate cannot be used here.
`SumAdd` and `SumRemove` are what the proof needs of it: a lock that comes or
goes and a trade more. `BalanceInv` then follows with `OrderInv`, which says
that the lock that is released is the amount that the order was to pay.

**The task graph.** Here one step computes much, and most of the proof is about
the operators. `MinOfNats`, `MaxOfNats` and `OrderExists` (a finite set of
blocks has the order that `InOrder` chooses, and one only) replace inductions
over lists by least and greatest elements. `AssignedInOrder` says what an
`IntervalDict` holds whose keys were assigned in order and at most touch: every
block keeps all its cells but those that the next one takes from its end;
`AssignedGapless`, `RunHull` and `ItemsUnique` that the cells of a value are then
without a gap, so that `items()`, which makes the interval closed again, gives
every value one key and different values different ones. `GetOverlapsItems` and
`CommonRangesFit` follow: an overlap is inside the blocks or ranges that it came
from.

That a node depends on its window is not inductive, since a feature that is
asked for twice, or is an input of two others, is built again from the graph as
it is then, and what is there may have come from another request. `GraphInv`
says that this makes no difference: the nodes of a range are in it, ordered, and
those of a feature start at different times (`NodesFit`); the ranges of a
feature that have nodes are apart, so that a range that is looked up is the one
that was built (`RangesApart`); and the nodes of a feature are what its inputs' nodes of the
same range give (`FeaturesFromInputs`), which still holds when the inputs get
more ranges (`InputsPreserved`), because what has nodes keeps them
(`EnteredPreserves`). `RangesKnown` says that the metas a feature is built from
are nodes of the graph, in order; `SourcesFromData` the same of the sources.
`JoinInv` says that what was joined is the join of the graph.

For the join, two blocks of one feature that share more than an end would hide
each other; `JoinedRanges` and `JoinedBlocks` show with the invariant that they
do not, and `JoinIsComplete` finds, for a moment that all features have, first
the range and then the interval of the join. The last block of a label's range
is cut and never moved (`LookaheadNodes`), so the label's nodes remain in order.

**The DAG runner.** `ConfInv`: a user whose calls do not overlap has one call
that is active, one row, and none when it saves. `NameInv` and `BlameInv`: rows,
files and errors carry the name of a call that was stamped with that second, so
that an error can only reach a call of that name. `SequentialServed` joins the
two sides of the table: for the call that waits, its row and its name
(`RowInv`, `OwnNameInv`), a served DAG when it was found (`FoundInv`), and none
of its own when it is rejected (`RejectedInv`); for the generator, that a served
DAG keeps its file as long as its row has no error (`KeepInv`) and that a good
configuration with an error has no file (`CleanErrorInv`).

**The clusters.** `AloneInv`: two runs that are active at once are both
disturbed, and what a run that is not disturbed relies on at its place (its
cluster, its address, its cache actor) is still there. `LeftInv` follows one run through its last two tasks, whatever other runs
do meanwhile.

**Only model-checked.** All liveness (TLAPS has neither fairness nor
`ENABLED`): `CallbacksEnd`, `EndsUnlessCallbackDied`, `RunEnds`,
`WakersReturn`, `StopEnds`, `IngestEnds`, `BacktestEnds`, `EverythingSettles`.
Every other property of a passing run is stated by a theorem. No module declares
a `RECURSIVE` operator.

## 6. Not modelled

* Within `perf`: the metrics and statistics (data only), the comparison of pod
  statuses and the counters in the event logs, the execution of a script on a
  node, port forwarding to Prometheus.
* Within the featurizer: the calculation of features (streams and data frames),
  synthetic data, snapshots and fixed windows, the definitions of features as
  zipped files, the data models of the sources.
* Within the DAG runner: the upload of user code and the `watch_*` functions,
  which only read.
* Within the backtester: the aggregation of remote workers' results and the
  statistics; they are computations on finished results.
* The data feed service starts an external library; API server, clients and
  command line forward requests; the trainer calls Ray Train and MLflow; the
  configuration builders and the Kubernetes templates write files once. None of
  them has a state that steps of its own change.
* Notebooks and prototypes. By lines most of the repository is notebooks (about
  37000 of 53000 lines), which are explorations with their output and no part
  of the program; measured against the whole the modelled share is therefore
  small.
