--------------------------- MODULE CatalogPipeline ---------------------------
(***************************************************************************)
(* The ingest of raw files into the catalog of blocks                      *)
(* (featurizer/data_ingest): a runner pipes batches of items into the      *)
(* actor CatalogCryptotickPipeline and then waits for it to finish.  The   *)
(* actor is one asyncio loop: its coroutines change hands only where they  *)
(* await, so an action of the actor runs from one await to the next.       *)
(*   _schedule_tasks   asks the database which items are new and starts a  *)
(*                     task for each, MaxExecutingTasks at a time;         *)
(*   _process_results  and wait_to_finish forget results that are there;   *)
(*   update_stats      is called by the tasks, which do not wait for it.   *)
(* A task splits one file into blocks, stores them with a pool of threads  *)
(* and then records all their rows at once.  The database outlives the     *)
(* pipeline, so a second ingest of the same files meets what a first one   *)
(* left.                                                                   *)
(***************************************************************************)
EXTENDS Integers, FiniteSets, SequencesExt

CONSTANTS
  Input,              \* the batches: a sequence of sequences of items
  NumSplits,          \* how many blocks an item is split into: one at least, or its task raises
  MaxExecutingTasks,
  Backlog,            \* 2 in the code
  MaxRuns,            \* bound of the model: ingests
  MaxFaults,          \* bound of the model: workers and runners that die, calls that raise
  None

Items   == UNION {ToSet(Input[i]) : i \in DOMAIN Input}
Blocks  == UNION {{<<i, k>> : k \in 1..NumSplits[i]} : i \in Items}
BlocksOf(i) == {b \in Blocks : b[1] = i}
TaskIds == 1..Cardinality(Items)
Waiters == {"process", "finish"}

ASSUME PipelineAssumption ==
  /\ Input \in Seq(Seq(Items)) /\ IsFiniteSet(Items)
  /\ NumSplits \in [Items -> Nat \ {0}]
  /\ MaxExecutingTasks \in Nat \ {0}
  /\ Backlog \in Nat /\ MaxRuns \in Nat \ {0} /\ MaxFaults \in Nat
  /\ None \notin Items

(* A file is listed once in the configuration: the progress bars count the *)
(* ids of the stats up to num_files.                                       *)
ASSUME InputAssumption ==
  \A i, j \in DOMAIN Input : \A k \in DOMAIN Input[i], l \in DOMAIN Input[j] :
    Input[i][k] = Input[j][l] => i = j /\ k = l

VARIABLES
  (* the process of the runner *)
  runner,        \* where FeaturizerDataIngestPipelineRunner.run is
  piped,         \* how many batches it has piped
  poller,        \* where the thread of poll_to_tqdm is
  (* the actor *)
  is_running, input_queue, stats,
  results_refs,  \* the tasks whose results the actor still waits for
  scheduler,     \* where _schedule_tasks is
  pending,       \* the items of its batch that have no task yet
  old,           \* how many items of its batch were there already
  waiter,        \* where _process_results and wait_to_finish are
  awaited,       \* the results that asyncio.wait was called with
  (* the tasks *)
  task, stage, made, storing,
  reports,       \* the tasks whose write_finished is on its way
  (* the database and the store, which survive *)
  rows,          \* how many rows a block has
  files,         \* the blocks that are in the store
  late,          \* rows on their way to the database from a runner that died
  unstored,      \* blocks whose store_df raised
  runs, faults

runnerVars == <<runner, piped, poller>>
queueVars  == <<is_running, input_queue>>
schedVars  == <<scheduler, pending, old>>
waitVars   == <<waiter, awaited>>
taskVars   == <<task, stage, made, storing>>
storeVars  == <<files, unstored>>
faultVars  == <<late, runs, faults>>
vars == <<runnerVars, queueVars, stats, results_refs, schedVars, waitVars,
          taskVars, reports, rows, storeVars, faultVars>>

Statuses == {"none", "scheduled", "done"}
Stages   == {"none", "load", "split", "write", "wrote", "done", "failed"}

TypeOK ==
  /\ runner \in {"piping", "finishing", "ended"} /\ piped \in 0..Len(Input)
  /\ poller \in {"polling", "ended", "dead"}
  /\ is_running \in BOOLEAN /\ input_queue \in Seq(Seq(Items))
  /\ stats \in [TaskIds -> Statuses]
  /\ results_refs \subseteq Nat
  /\ scheduler \in {"poll", "filter", "metadata", "throttle", "ended", "dead"}
  /\ pending \in Seq(Items) /\ old \in Nat
  /\ waiter \in [Waiters -> {"idle", "queue", "await", "blocked", "ended"}]
  /\ awaited \in [Waiters -> SUBSET Nat]
  /\ task \in [TaskIds -> Items \cup {None}]
  /\ stage \in [TaskIds -> Stages]
  /\ made \in [TaskIds -> Nat] /\ storing \in [TaskIds -> SUBSET Blocks]
  /\ reports \subseteq TaskIds
  /\ rows \in [Blocks -> Nat] /\ files \subseteq Blocks /\ unstored \subseteq Blocks
  /\ late \subseteq Items
  /\ runs \in 1..MaxRuns /\ faults \in 0..MaxFaults

(* A new actor: __init__, and run has just started its two coroutines.     *)
Fresh ==
  [run   |-> "piping", stats |-> [t \in TaskIds |-> "none"],
   wait  |-> [process |-> "idle", finish |-> "idle"],
   set   |-> [w \in Waiters |-> {}], task |-> [t \in TaskIds |-> None],
   stage |-> [t \in TaskIds |-> "none"], made |-> [t \in TaskIds |-> 0],
   store |-> [t \in TaskIds |-> {}]]

Init ==
  /\ runner = Fresh.run /\ piped = 0 /\ poller = "polling"
  /\ is_running = TRUE /\ input_queue = <<>> /\ stats = Fresh.stats
  /\ results_refs = {} /\ scheduler = "poll" /\ pending = <<>> /\ old = 0
  /\ waiter = Fresh.wait /\ awaited = Fresh.set
  /\ task = Fresh.task /\ stage = Fresh.stage /\ made = Fresh.made
  /\ storing = Fresh.store /\ reports = {}
  /\ rows = [b \in Blocks |-> 0] /\ files = {} /\ unstored = {} /\ late = {}
  /\ runs = 1 /\ faults = 0

-----------------------------------------------------------------------------
(* The loop of the actor.  ray.wait is not awaited: until it returns, no   *)
(* other coroutine of the actor runs.                                      *)
LoopFree == runner # "ended" /\ \A w \in Waiters : waiter[w] # "blocked"

FinishedMutant(t) == stage[t] = "done"
Finished(t) == stage[t] \in {"done", "failed"}
Executing   == {t \in TaskIds : stage[t] \notin {"none", "done", "failed"}}

(* A process dies, or a call raises. *)
Fault == faults < MaxFaults /\ faults' = faults + 1

-----------------------------------------------------------------------------
(* The runner: one call of pipe_input at a time, then wait_to_finish *)

PipeInput ==
  /\ runner = "piping" /\ LoopFree /\ piped < Len(Input)
  /\ is_running /\ Len(input_queue) <= Backlog
  /\ piped' = piped + 1
  /\ input_queue' = Append(input_queue, Input[piped'])
  /\ UNCHANGED <<runner, poller, is_running, stats, results_refs, schedVars,
                 waitVars, taskVars, reports, rows, storeVars, faultVars>>

CallWaitToFinish ==
  /\ runner = "piping" /\ LoopFree /\ piped = Len(Input)
  /\ runner' = "finishing"
  /\ waiter' = [waiter EXCEPT !["finish"] = "queue"]
  /\ UNCHANGED <<piped, poller, queueVars, stats, results_refs, schedVars,
                 awaited, taskVars, reports, rows, storeVars, faultVars>>

(* wait_to_finish returned, and run leaves ray: the actor is gone. *)
RunnerReturns ==
  /\ runner = "finishing" /\ waiter["finish"] = "ended"
  /\ runner' = "ended"
  /\ UNCHANGED <<piped, poller, queueVars, stats, results_refs, schedVars,
                 waitVars, taskVars, reports, rows, storeVars, faultVars>>

RunnerStep == PipeInput \/ CallWaitToFinish \/ RunnerReturns

(* poll_to_tqdm: one look at the stats of the actor *)
Poll ==
  /\ poller = "polling"
  /\ \/ /\ LoopFree
        /\ \A t \in TaskIds : stats[t] = "done"
        /\ poller' = "ended"
     \/ /\ runner = "ended"
        /\ poller' = "dead"
  /\ UNCHANGED <<runner, piped, queueVars, stats, results_refs, schedVars, waitVars,
                 taskVars, reports, rows, storeVars, faultVars>>

-----------------------------------------------------------------------------
(* _schedule_tasks *)

TakeBatch ==
  /\ scheduler = "poll" /\ LoopFree
  /\ IF is_running
       THEN /\ input_queue # <<>>
            /\ input_queue' = Tail(input_queue)
            /\ pending' = Head(input_queue)
            /\ scheduler' = "filter"
       ELSE scheduler' = "ended" /\ UNCHANGED <<input_queue, pending>>
  /\ UNCHANGED <<runnerVars, is_running, old, stats, results_refs, waitVars, taskVars,
                 reports, rows, storeVars, faultVars>>

(* filter_cryptotick_batch: items whose rows are not all there are new *)
RowsOf(i) == {b \in BlocksOf(i) : rows[b] > 0}
IsNew(i)  == Cardinality(RowsOf(i)) # NumSplits[i]

(* The ids that n new entries of the stats get *)
NextId == Cardinality({t \in TaskIds : stats[t] # "none"}) + 1
NextIds(first, n) == first .. first + n - 1

(* What the filter leaves of a batch, in the order of the batch            *)
NewOnes(batch) ==
  {[j \in DOMAIN place |-> batch[place[j]]] :
     place \in {p \in UNION {[1..n -> DOMAIN batch] : n \in 0..Len(batch)} :
                 /\ Range(p) = {i \in DOMAIN batch : IsNew(batch[i])}
                 /\ \A j, k \in DOMAIN p : j < k => p[j] < p[k]}}

(* The items that are old are reported as done; without a new one the      *)
(* coroutine does not await before that.                                   *)
FilterBatch ==
  /\ scheduler = "filter" /\ LoopFree
  /\ pending' \in NewOnes(pending)
  /\ LET n == Len(pending) - Len(pending')
     IN \/ /\ pending' # <<>>
           /\ scheduler' = "metadata" /\ old' = n
           /\ UNCHANGED stats
        \/ /\ pending' = <<>>
           /\ scheduler' = "poll" /\ old' = 0
           /\ stats' = [t \in TaskIds |-> IF t \in NextIds(NextId, n) THEN "done" ELSE stats[t]]
  /\ UNCHANGED <<runnerVars, queueVars, results_refs, waitVars, taskVars, reports,
                 rows, storeVars, faultVars>>

(* The database is away, or does not filter items of this data source: the *)
(* coroutine ends with the exception, which gather hands to run, whose     *)
(* result nobody asks for.                                                 *)
SchedulerRaises ==
  /\ scheduler \in {"filter", "metadata"} /\ LoopFree /\ Fault
  /\ scheduler' = "dead"
  /\ UNCHANGED <<runnerVars, queueVars, stats, results_refs, pending, old, waitVars,
                 taskVars, reports, rows, storeVars, late, runs>>

(* As many of the pending items as there is room for, none once stopped    *)
Startable ==
  IF is_running /\ Cardinality(results_refs) < MaxExecutingTasks
    THEN Min({Len(pending), MaxExecutingTasks - Cardinality(results_refs)})
    ELSE 0

(* Entries for the items that are old, then a task for each that can start *)
(* and an entry for it.                                                    *)
AddTasksMutant(done, n) ==
  LET first   == NextId + done
      started == NextIds(first, n)
  IN /\ stats' = [t \in TaskIds |->
                    IF t \in NextIds(NextId, done) THEN "done"
                    ELSE IF t \in started THEN "scheduled" ELSE stats[t]]
     /\ task'  = [t \in TaskIds |-> IF t \in started THEN pending[t - first + 1] ELSE task[t]]
     /\ stage' = [t \in TaskIds |-> IF t \in started THEN "load" ELSE stage[t]]
     /\ results_refs' = results_refs \cup started
     /\ pending' = <<>>
AddTasks(done, n) ==
  LET first   == NextId + done
      started == NextIds(first, n)
  IN /\ stats' = [t \in TaskIds |->
                    IF t \in NextIds(NextId, done) THEN "done"
                    ELSE IF t \in started THEN "scheduled" ELSE stats[t]]
     /\ task'  = [t \in TaskIds |-> IF t \in started THEN pending[t - first + 1] ELSE task[t]]
     /\ stage' = [t \in TaskIds |-> IF t \in started THEN "load" ELSE stage[t]]
     /\ results_refs' = results_refs \cup started
     /\ pending' = SubSeq(pending, n + 1, Len(pending))

ScheduleTasks ==
  /\ LoopFree
  /\ \/ scheduler = "metadata" /\ AddTasks(old, Startable)
     \/ /\ scheduler = "throttle"
        /\ Startable > 0 \/ ~is_running
        /\ AddTasks(0, Startable)
  /\ old' = 0
  /\ scheduler' = CASE pending' = <<>>               -> "poll"
                    [] pending' # <<>> /\ is_running -> "throttle"
                    [] OTHER                         -> "ended"
  /\ UNCHANGED <<runnerVars, queueVars, waitVars, made, storing, reports, rows,
                 storeVars, faultVars>>

SchedulerStep == TakeBatch \/ FilterBatch \/ ScheduleTasks

-----------------------------------------------------------------------------
(* _process_results and wait_to_finish *)

(* Up to its next await, once a coroutine has these results to wait for    *)
Await(w, refs) ==
  LET over == refs = {} \/ (w = "process" /\ ~is_running)
  IN /\ waiter'  = [waiter EXCEPT ![w] = IF ~over THEN "await"
                                         ELSE IF w = "process" /\ is_running THEN "idle"
                                         ELSE "ended"]
     /\ awaited' = [awaited EXCEPT ![w] = IF over THEN {} ELSE refs]

ProcessResults ==
  /\ waiter["process"] = "idle" /\ LoopFree
  /\ results_refs # {} \/ ~is_running
  /\ Await("process", results_refs)
  /\ UNCHANGED <<runnerVars, queueVars, stats, results_refs, schedVars, taskVars,
                 reports, rows, storeVars, faultVars>>

StopPipeline ==
  /\ waiter["finish"] = "queue" /\ LoopFree
  /\ input_queue = <<>>
  /\ is_running' = FALSE
  /\ Await("finish", results_refs)
  /\ UNCHANGED <<runnerVars, input_queue, stats, results_refs, schedVars, taskVars,
                 reports, rows, storeVars, faultVars>>

(* ray.wait over the results that are referred to now: it takes one that   *)
(* is there.                                                               *)
TakeResult(w) ==
  \E t \in results_refs :
    /\ Finished(t)
    /\ results_refs' = results_refs \ {t}
    /\ Await(w, results_refs')

(* asyncio.wait returns when one of the results it was called with is      *)
(* there; the other coroutine may have taken it since.                     *)
ProcessOne(w) ==
  /\ waiter[w] = "await" /\ LoopFree
  /\ \E t \in awaited[w] : Finished(t)
  /\ \/ TakeResult(w)
     \/ /\ results_refs = {}
        /\ Await(w, {}) /\ UNCHANGED results_refs
     \/ /\ results_refs # {} /\ \A t \in results_refs : ~Finished(t)
        /\ waiter' = [waiter EXCEPT ![w] = "blocked"]
        /\ UNCHANGED <<awaited, results_refs>>
  /\ UNCHANGED <<runnerVars, queueVars, stats, schedVars, taskVars, reports, rows,
                 storeVars, faultVars>>

(* ... and ray.wait blocks the loop until another one is. *)
Unblock(w) ==
  /\ waiter[w] = "blocked" /\ runner # "ended"
  /\ TakeResult(w)
  /\ UNCHANGED <<runnerVars, queueVars, stats, schedVars, taskVars, reports, rows,
                 storeVars, faultVars>>

WaiterStep(w) ==
  \/ w = "process" /\ ProcessResults
  \/ w = "finish" /\ StopPipeline
  \/ ProcessOne(w)
  \/ Unblock(w)

-----------------------------------------------------------------------------
(* The tasks: load_split_catalog_store_df *)

OnlyTasks == UNCHANGED <<runnerVars, queueVars, stats, results_refs, schedVars,
                         waitVars, task>>

(* The file is loaded and preprocessed. *)
LoadFile(t) ==
  /\ stage[t] = "load"
  /\ stage' = [stage EXCEPT ![t] = "split"]
  /\ UNCHANGED <<made, storing, reports, rows, storeVars, faultVars>> /\ OnlyTasks

(* One block of the generator, handed to the threads that store *)
Split(t) ==
  /\ stage[t] = "split" /\ made[t] < NumSplits[task[t]]
  /\ made' = [made EXCEPT ![t] = @ + 1]
  /\ storing' = [storing EXCEPT ![t] = @ \cup {<<task[t], made[t] + 1>>}]
  /\ UNCHANGED <<stage, reports, rows, storeVars, faultVars>> /\ OnlyTasks

(* A thread of the pool; what it raises stays in its future, which is only *)
(* waited for.                                                             *)
StoreBlock(t) ==
  \E b \in storing[t] :
    /\ storing' = [storing EXCEPT ![t] = @ \ {b}]
    /\ \/ files' = files \cup {b} /\ UNCHANGED <<unstored, faults>>
       \/ Fault /\ unstored' = unstored \cup {b} /\ UNCHANGED files
    /\ UNCHANGED <<stage, made, reports, rows, late, runs>> /\ OnlyTasks

(* All futures are done: the rows are sent to the database. *)
SendRowsMutant(t) ==
  /\ stage[t] = "split" /\ made[t] = NumSplits[task[t]]
  /\ stage' = [stage EXCEPT ![t] = "write"]
  /\ UNCHANGED <<made, storing, reports, rows, storeVars, faultVars>> /\ OnlyTasks
SendRows(t) ==
  /\ stage[t] = "split" /\ made[t] = NumSplits[task[t]] /\ storing[t] = {}
  /\ stage' = [stage EXCEPT ![t] = "write"]
  /\ UNCHANGED <<made, storing, reports, rows, storeVars, faultVars>> /\ OnlyTasks

(* store_block_metadata_batch: blocks whose hash is there are left out *)
Recorded(i) ==
  [b \in Blocks |-> IF b \in BlocksOf(i) \ RowsOf(i) THEN rows[b] + 1 ELSE rows[b]]

WriteRows(t) ==
  /\ stage[t] = "write"
  /\ rows' = Recorded(task[t])
  /\ stage' = [stage EXCEPT ![t] = "wrote"]
  /\ UNCHANGED <<made, storing, reports, storeVars, faultVars>> /\ OnlyTasks

(* The call of update_stats is not waited for. *)
ReturnResult(t) ==
  /\ stage[t] = "wrote"
  /\ stage' = [stage EXCEPT ![t] = "done"]
  /\ reports' = reports \cup {t}
  /\ UNCHANGED <<made, storing, rows, storeVars, faultVars>> /\ OnlyTasks

(* The file cannot be read or preprocessed, a block is over two days, the  *)
(* database is away: the task ends with the exception.                     *)
TaskRaisesMutant(t) ==
  /\ stage[t] \in {"load", "split", "write"} /\ Fault
  /\ stage' = [stage EXCEPT ![t] = "failed"]
  /\ reports' = reports \cup {t}
  /\ UNCHANGED <<made, storing, rows, storeVars, late, runs>>
  /\ OnlyTasks
TaskRaises(t) ==
  /\ stage[t] \in {"load", "split", "write"} /\ Fault
  /\ stage' = [stage EXCEPT ![t] = "failed"]
  /\ UNCHANGED <<made, storing, reports, rows, storeVars, late, runs>>
  /\ OnlyTasks

TaskStep(t) ==
  \/ LoadFile(t) \/ Split(t) \/ StoreBlock(t) \/ SendRows(t)
  \/ WriteRows(t) \/ ReturnResult(t) \/ TaskRaises(t)

(* update_stats; of the calls of a task, the one that makes it done.  The  *)
(* others, which choose what its bar shows, are left out.                  *)
UpdateStats(t) ==
  /\ LoopFree /\ t \in reports
  /\ reports' = reports \ {t}
  /\ stats' = [stats EXCEPT ![t] = "done"]
  /\ UNCHANGED <<runnerVars, queueVars, results_refs, schedVars, waitVars, taskVars,
                 rows, storeVars, faultVars>>

-----------------------------------------------------------------------------
(* Faults *)

(* A worker dies: ray starts its task again, from the beginning. *)
RestartTask(t) ==
  /\ t \in Executing /\ Fault
  /\ stage' = [stage EXCEPT ![t] = "load"]
  /\ made' = [made EXCEPT ![t] = 0]
  /\ storing' = [storing EXCEPT ![t] = {}]
  /\ UNCHANGED <<reports, rows, storeVars, late, runs>> /\ OnlyTasks

(* The runner dies, and the actor and the tasks with it; rows that were    *)
(* sent may still reach the database, an actor that is detached.           *)
RunnerDies ==
  /\ runner # "ended" /\ Fault
  /\ runner' = "ended"
  /\ \E sent \in SUBSET {t \in TaskIds : stage[t] = "write"} :
       late' = late \cup {task[t] : t \in sent}
  /\ stage' = Fresh.stage /\ storing' = Fresh.store /\ reports' = {}
  /\ results_refs' = {} /\ awaited' = Fresh.set
  /\ UNCHANGED <<piped, poller, queueVars, stats, schedVars, waiter, task, made,
                 rows, storeVars, runs>>

WriteLate ==
  \E i \in late :
    /\ late' = late \ {i}
    /\ rows' = Recorded(i)
    /\ UNCHANGED <<runnerVars, queueVars, stats, results_refs, schedVars, waitVars,
                   taskVars, reports, storeVars, runs, faults>>

(* The same files are ingested again. *)
RunAgain ==
  /\ runner = "ended" /\ runs < MaxRuns
  /\ runs' = runs + 1
  /\ runner' = Fresh.run /\ piped' = 0 /\ poller' = "polling"
  /\ is_running' = TRUE /\ input_queue' = <<>> /\ stats' = Fresh.stats
  /\ results_refs' = {} /\ scheduler' = "poll" /\ pending' = <<>> /\ old' = 0
  /\ waiter' = Fresh.wait /\ awaited' = Fresh.set
  /\ task' = Fresh.task /\ stage' = Fresh.stage /\ made' = Fresh.made
  /\ storing' = Fresh.store /\ reports' = {}
  /\ UNCHANGED <<rows, storeVars, late, faults>>

Next ==
  \/ RunnerStep \/ Poll \/ SchedulerStep \/ SchedulerRaises
  \/ \E w \in Waiters : WaiterStep(w)
  \/ \E t \in TaskIds : TaskStep(t) \/ UpdateStats(t) \/ RestartTask(t)
  \/ RunnerDies \/ WriteLate \/ RunAgain

(* Coroutines whose sleep is over are resumed, tasks that have a worker    *)
(* go on; nothing makes a second ingest happen.                            *)
Fairness ==
  /\ WF_vars(RunnerStep) /\ WF_vars(SchedulerStep)
  /\ \A w \in Waiters : WF_vars(WaiterStep(w))
  /\ \A t \in TaskIds : WF_vars(TaskStep(t))

Spec == Init /\ [][Next]_vars /\ Fairness

-----------------------------------------------------------------------------
(* Properties *)

(* At most max_executing_tasks tasks execute at once, and the actor still  *)
(* waits for each of them: whoever appends to results_refs or replaces it  *)
(* by what remains forgets none (pipeline.py:161-196).                     *)
ExecutingBounded ==
  /\ Cardinality(Executing) <= MaxExecutingTasks
  /\ Executing \subseteq results_refs

(* The hash keeps the row of a block unique, though an item is ingested    *)
(* again after a worker, a runner or the database failed, and rows may     *)
(* come late (sql/client.py:18-36).                                        *)
RowsUnique == \A b \in Blocks : rows[b] <= 1

(* A row is written when all blocks of its item are in the store, or       *)
(* storing one has raised (tasks.py:94-96).                                *)
RowsHaveFiles == \A b \in Blocks : rows[b] > 0 => b \in files \cup unstored

(* When the progress bars are complete, every item of the input is         *)
(* recorded with all its blocks: old items, items of tasks that were       *)
(* restarted, and the others (pipeline.py:99, sql/client.py:40-62).        *)
PollEndsRecorded == poller = "ended" => \A b \in Blocks : rows[b] > 0

(* No item is lost on its way from the queue to its task: while the actor  *)
(* runs and _schedule_tasks has not raised, an item that was piped is in   *)
(* the queue, pending, in a task, or recorded (pipeline.py:131-179).       *)
InQueue    == UNION {ToSet(input_queue[i]) : i \in DOMAIN input_queue}
Piped      == UNION {ToSet(Input[i]) : i \in 1..piped}
ItemsAccounted ==
  runner # "ended" /\ is_running /\ scheduler # "dead" =>
    \A i \in Piped :
      \/ i \in InQueue \cup ToSet(pending)
      \/ \E t \in TaskIds : task[t] = i
      \/ ~IsNew(i)

(* An ingest ends, unless _schedule_tasks raised and left a batch in the   *)
(* queue: the runner then waits for good (pipeline.py:125, 203).           *)
Stuck      == scheduler = "dead" /\ input_queue # <<>>
IngestEnds == <>[](runner = "ended" \/ Stuck)
=============================================================================
