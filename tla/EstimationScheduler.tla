------------------------- MODULE EstimationScheduler -------------------------
(***************************************************************************)
(* The resource-estimation scheduler of data_feed/perf.  One main thread   *)
(* (Scheduler.run) pops pods from a work queue, picks a node for each and  *)
(* submits an estimation run to a thread pool.  A worker runs the          *)
(* estimation; when it is over its future turns done and, AFTER that, the  *)
(* done callback of the future cleans the shared state and either          *)
(* completes the pod or puts it back on the queue.  global_lock is meant   *)
(* to protect the queue against the two.                                   *)
(*                                                                         *)
(* There is one action per access to shared state, so that a thread switch *)
(* is possible between any two of them.  A future is the pair of a pod and *)
(* the number of times the pod was rescheduled before.  A local variable   *)
(* that its thread does not read again goes back to its initial value.     *)
(***************************************************************************)
EXTENDS Integers, FiniteSets, SequencesExt

CONSTANTS
  Pods,              \* the pods load_pod_names_from_ss returns
  Nodes,             \* the ready nodes labelled resource-estimator
  BulkScheduleSize,  \* BULK_SCHEDULE_SIZE in defines.py
  MaxReschedules,    \* MAX_RESCHEDULES in scheduling_state.py
  BasePriority,      \* priority of the first pod of an empty node
  MaxStops,          \* bound of the model: how many stop signals may arrive
  None               \* Python's None: no pod, no node, no priority

ASSUME SchedulerAssumption ==
  /\ IsFiniteSet(Pods)
  /\ BulkScheduleSize \in Nat \ {0}
  /\ MaxReschedules \in Nat
  /\ BasePriority \in Int
  /\ MaxStops \in {0, 1}
  /\ None \notin Pods \cup Nodes \cup Int \cup (Pods \X (0..MaxReschedules))

Futures == Pods \X (0..MaxReschedules)
PodOf(f) == f[1]
RunOf(f) == f[2]

VARIABLES
  (* SchedulingState *)
  pods_work_queue,  \* popped from its end
  pods_done,
  reschedules,      \* the number of reschedule reasons of each pod
  pods_per_node,    \* the pods of each node, in the order of their scheduling
  known_nodes,      \* the keys of the dictionary pods_per_node
  pods_priorities,
  global_lock,      \* TRUE when locked; a threading.Lock has no owner
  (* Scheduler and EstimationState *)
  running,
  futures,          \* the futures in Scheduler.futures
  phase,            \* the last estimation phase event of each pod
  (* the futures and the threads that run them *)
  run,              \* where the worker of each future is
  outcome,          \* what run_estimator returned or raised
  callback,         \* where the done callback of each future is
  scan,             \* the keys a callback iterates over
  (* the main thread and its local variables *)
  main, pod_name, node_name, last_pod, priority, future, unseen, all_done

queueVars    == <<pods_work_queue, pods_done, reschedules>>
nodeVars     == <<pods_per_node, known_nodes, pods_priorities>>
workerVars   == <<run, outcome, phase>>
callbackVars == <<callback, scan>>
choiceVars   == <<node_name, last_pod, priority, future>>
waitVars     == <<unseen, all_done>>
mainVars     == <<main, pod_name, choiceVars, waitVars>>
vars == <<queueVars, nodeVars, global_lock, running, futures, workerVars,
          callbackVars, mainVars>>

-----------------------------------------------------------------------------
(* Types *)

Phases     == {"none", "starting", "finishing"}
RunStates  == {"idle", "scheduling", "starting", "finishing", "deleting",
               "done"}
Outcomes   == {"none", "raises", "complete", "reschedule"}
Callbacks  == {"none", "registered", "scan", "remove", "priority", "acquire",
               "decide", "release", "finished", "died"}
Terminated == {"complete", "drained", "stopped", "crashed"}
MainStates == Terminated \cup
  {"loop", "pop", "wait", "acquire", "all_done", "requeue_test",
   "unlock_test", "unlock", "pick", "last_pod", "last_index", "priority",
   "assign", "submit", "register", "inline"}

TypeOK ==
  /\ pods_work_queue \in Seq(Pods)
  /\ pods_done \in Seq(Pods)
  /\ reschedules \in [Pods -> 0..MaxReschedules]
  /\ pods_per_node \in [Nodes -> Seq(Pods)]
  /\ known_nodes \in SUBSET Nodes
  /\ pods_priorities \in [Pods -> Int \cup {None}]
  /\ global_lock \in BOOLEAN
  /\ running \in BOOLEAN
  /\ futures \in SUBSET Futures
  /\ phase \in [Pods -> Phases]
  /\ run \in [Futures -> RunStates]
  /\ outcome \in [Futures -> Outcomes]
  /\ callback \in [Futures -> Callbacks]
  /\ scan \in [Futures -> SUBSET Nodes]
  /\ main \in MainStates
  /\ pod_name \in Pods \cup {None}
  /\ node_name \in Nodes \cup {None}
  /\ last_pod \in Pods \cup {None}
  /\ priority \in Int
  /\ future \in Futures \cup {None}
  /\ unseen \in SUBSET Futures
  /\ all_done \in BOOLEAN

-----------------------------------------------------------------------------
(* Helpers *)

Goto(state) == main' = state
CallbackGoto(f, state) == callback' = [callback EXCEPT ![f] = state]

(* An exception ends a callback; concurrent.futures logs it and goes on.   *)
RaiseMutant(f) == UNCHANGED callback
Raise(f) == CallbackGoto(f, "died")

InSeq(p, s) == \E i \in DOMAIN s : s[i] = p
NoDuplicates(s) == \A i, j \in DOMAIN s : s[i] = s[j] => i = j
OnNode(p) == \E n \in Nodes : InSeq(p, pods_per_node[n])
IsDoneMutant(f) == run[f] \in {"deleting", "done"}
IsDone(f) == run[f] = "done"

(* remove_done_futures *)
PendingFutures == {f \in futures : ~IsDone(f)}

-----------------------------------------------------------------------------
Init ==
  /\ pods_work_queue \in {q \in [1..Cardinality(Pods) -> Pods] :
                            NoDuplicates(q) /\ \A p \in Pods : InSeq(p, q)}
  /\ pods_done = <<>>
  /\ reschedules = [p \in Pods |-> 0]
  /\ pods_per_node = [n \in Nodes |-> <<>>]
  /\ known_nodes = {}
  /\ pods_priorities = [p \in Pods |-> None]
  /\ global_lock = FALSE
  /\ running = TRUE
  /\ futures = {}
  /\ phase = [p \in Pods |-> "none"]
  /\ run = [f \in Futures |-> "idle"]
  /\ outcome = [f \in Futures |-> "none"]
  /\ callback = [f \in Futures |-> "none"]
  /\ scan = [f \in Futures |-> {}]
  /\ main = "loop"
  /\ pod_name = None
  /\ node_name = None
  /\ last_pod = None
  /\ priority = BasePriority
  /\ future = None
  /\ unseen = {}
  /\ all_done = FALSE

-----------------------------------------------------------------------------
(* The main thread: Scheduler.run.  These variables belong to the workers  *)
(* and the callbacks.                                                      *)

MainOnly == UNCHANGED <<pods_done, reschedules, workerVars, callbackVars>>

EverythingDone == Len(pods_done) = Cardinality(Pods)

LoopTest ==
  /\ main = "loop"
  /\ \/ /\ running
        /\ ~EverythingDone
        /\ futures' = PendingFutures
        /\ Goto("pop")
     \/ /\ running
        /\ EverythingDone
        /\ Goto("complete")
        /\ UNCHANGED futures
     \/ /\ ~running
        /\ Goto("stopped")
        /\ UNCHANGED futures
  /\ MainOnly
  /\ UNCHANGED <<pods_work_queue, nodeVars, global_lock, running, pod_name,
                 choiceVars, waitVars>>

(* pop_or_wait_work_queue *)

PopLastMutant ==
  /\ pods_work_queue # <<>>
  /\ pod_name' = Last(pods_work_queue)
  /\ UNCHANGED pods_work_queue

PopLast ==
  /\ pods_work_queue # <<>>
  /\ pod_name' = Last(pods_work_queue)
  /\ pods_work_queue' = Front(pods_work_queue)

PopQueued ==
  /\ main = "pop"
  /\ PopLast
  /\ Goto("unlock_test")
  /\ MainOnly
  /\ UNCHANGED <<nodeVars, global_lock, running, futures, choiceVars, waitVars>>

StartWaiting ==
  /\ main = "pop"
  /\ pods_work_queue = <<>>
  /\ unseen' = futures
  /\ Goto("wait")
  /\ MainOnly
  /\ UNCHANGED <<pods_work_queue, nodeVars, global_lock, running, futures,
                 pod_name, choiceVars, all_done>>

(* as_completed yields every future once, when it is done. *)
NextCompleted ==
  /\ main = "wait"
  /\ \/ \E f \in unseen : /\ IsDone(f)
                          /\ unseen' = unseen \ {f}
                          /\ Goto("acquire")
     \/ /\ unseen = {}
        /\ Goto("unlock_test")
        /\ UNCHANGED unseen
  /\ MainOnly
  /\ UNCHANGED <<pods_work_queue, nodeVars, global_lock, running, futures,
                 pod_name, choiceVars, all_done>>

AcquireMain ==
  /\ main = "acquire"
  /\ ~global_lock
  /\ global_lock' = TRUE
  /\ Goto("all_done")
  /\ MainOnly
  /\ UNCHANGED <<pods_work_queue, nodeVars, running, futures, pod_name,
                 choiceVars, waitVars>>

AllDone == \A f \in futures : IsDone(f)

CheckAllDone ==
  /\ main = "all_done"
  /\ all_done' = AllDone
  /\ Goto("requeue_test")
  /\ MainOnly
  /\ UNCHANGED <<pods_work_queue, nodeVars, global_lock, running, futures,
                 pod_name, choiceVars, unseen>>

(* Scheduler.run stops when there is no pod left to wait for. *)
StopWhenDrained == running' = (running /\ main' # "drained")

(* release() raises RuntimeError in the main thread when another thread    *)
(* has released the lock since.                                            *)
ReleaseMainMutant(next) ==
  /\ global_lock' = global_lock
  /\ Goto(next)
ReleaseMain(next) ==
  /\ global_lock' = FALSE
  /\ Goto(IF global_lock THEN next ELSE "crashed")

CheckQueue ==
  /\ main = "requeue_test"
  /\ all_done' = FALSE
  /\ \/ /\ PopLast
        /\ Goto("unlock_test")
        /\ unseen' = {}
        /\ UNCHANGED global_lock
     \/ /\ pods_work_queue = <<>>
        /\ all_done
        /\ ReleaseMain("drained")
        /\ unseen' = {}
        /\ UNCHANGED <<pods_work_queue, pod_name>>
     \/ /\ pods_work_queue = <<>>
        /\ ~all_done
        /\ ReleaseMain("wait")
        /\ UNCHANGED <<pods_work_queue, pod_name, unseen>>
  /\ StopWhenDrained
  /\ MainOnly
  /\ UNCHANGED <<nodeVars, futures, choiceVars>>

(* if global_lock.locked(): the test and the release are two steps, and    *)
(* the lock may be a callback's.  Scheduler.run ends on a pod_name None.   *)
AfterPop == IF pod_name = None THEN "drained" ELSE "pick"

TestUnlock ==
  /\ main = "unlock_test"
  /\ Goto(IF global_lock THEN "unlock" ELSE AfterPop)
  /\ StopWhenDrained
  /\ MainOnly
  /\ UNCHANGED <<pods_work_queue, nodeVars, global_lock, futures, pod_name,
                 choiceVars, waitVars>>

Unlock ==
  /\ main = "unlock"
  /\ ReleaseMain(AfterPop)
  /\ StopWhenDrained
  /\ MainOnly
  /\ UNCHANGED <<pods_work_queue, nodeVars, futures, pod_name, choiceVars,
                 waitVars>>

(* fetch_nodes_state and get_schedulable_node.  The age of the phase and   *)
(* the metrics of the node are left to the environment.                    *)
BulkSchedulableMutant(n) == Len(pods_per_node[n]) <= BulkScheduleSize
BulkSchedulable(n) == Len(pods_per_node[n]) < BulkScheduleSize

SequenceSchedulable(n) ==
  /\ ~BulkSchedulable(n)
  /\ phase[Last(pods_per_node[n])] = "finishing"

PickNode(n) ==
  /\ main = "pick"
  /\ running
  /\ node_name' = n
  /\ Goto("last_pod")
  /\ MainOnly
  /\ UNCHANGED <<pods_work_queue, nodeVars, global_lock, running, futures,
                 pod_name, last_pod, priority, future, waitVars>>

PickBulk(n) == BulkSchedulable(n) /\ PickNode(n)

PickSequence(n) == SequenceSchedulable(n) /\ PickNode(n)

StopPicking ==
  /\ main = "pick"
  /\ ~running
  /\ Goto("stopped")
  /\ MainOnly
  /\ UNCHANGED <<pods_work_queue, nodeVars, global_lock, running, futures,
                 pod_name, choiceVars, waitVars>>

(* time.sleep(1) while no node is schedulable *)
SleepAndRetry ==
  /\ main = "pick"
  /\ running
  /\ UNCHANGED vars

(* get_schedulable_pod_priority *)

TestLastPod ==
  /\ main = "last_pod"
  /\ Goto(IF pods_per_node[node_name] = <<>> THEN "priority" ELSE "last_index")
  /\ MainOnly
  /\ UNCHANGED <<pods_work_queue, nodeVars, global_lock, running, futures,
                 pod_name, choiceVars, waitVars>>

(* IndexError when the list was emptied since TestLastPod. *)
IndexLastPod ==
  /\ main = "last_index"
  /\ LET s == pods_per_node[node_name]
     IN \/ /\ s # <<>>
           /\ last_pod' = Last(s)
           /\ Goto("priority")
        \/ /\ s = <<>>
           /\ Goto("crashed")
           /\ UNCHANGED last_pod
  /\ MainOnly
  /\ UNCHANGED <<pods_work_queue, nodeVars, global_lock, running, futures,
                 pod_name, node_name, priority, future, waitVars>>

NextPriorityMutant(p) == pods_priorities[p]
NextPriority(p) == pods_priorities[p] - 1

(* KeyError when the priority of last_pod was dropped since. *)
ReadPriority ==
  /\ main = "priority"
  /\ \/ /\ last_pod = None
        /\ priority' = BasePriority
        /\ Goto("assign")
     \/ /\ last_pod # None
        /\ pods_priorities[last_pod] # None
        /\ priority' = NextPriority(last_pod)
        /\ Goto("assign")
     \/ /\ last_pod # None
        /\ pods_priorities[last_pod] = None
        /\ Goto("crashed")
        /\ UNCHANGED priority
  /\ last_pod' = None
  /\ MainOnly
  /\ UNCHANGED <<pods_work_queue, nodeVars, global_lock, running, futures,
                 pod_name, node_name, future, waitVars>>

(* add_pod_to_schedule_state; from here on the thread refers to the pod    *)
(* through its future.                                                     *)
Assign ==
  /\ main = "assign"
  /\ \/ /\ OnNode(pod_name)
        /\ Goto("crashed")
        /\ UNCHANGED <<nodeVars, pod_name, choiceVars>>
     \/ /\ ~OnNode(pod_name)
        /\ pods_per_node' = [pods_per_node EXCEPT
                               ![node_name] = Append(@, pod_name)]
        /\ known_nodes' = known_nodes \cup {node_name}
        /\ pods_priorities' = [pods_priorities EXCEPT ![pod_name] = priority]
        /\ future' = <<pod_name, reschedules[pod_name]>>
        /\ pod_name' = None
        /\ node_name' = None
        /\ priority' = BasePriority
        /\ Goto("submit")
        /\ UNCHANGED last_pod
  /\ MainOnly
  /\ UNCHANGED <<pods_work_queue, global_lock, running, futures, waitVars>>

Submit ==
  /\ main = "submit"
  /\ run' = [run EXCEPT ![future] = "scheduling"]
  /\ Goto("register")
  /\ UNCHANGED <<queueVars, nodeVars, global_lock, running, futures, outcome,
                 phase, callbackVars, pod_name, choiceVars, waitVars>>

(* add_done_callback runs the callback at once, in the main thread, when   *)
(* the future is done already.  Nobody else reads futures, so that it is   *)
(* recorded in the same step.                                              *)
Register ==
  /\ main = "register"
  /\ CallbackGoto(future, "registered")
  /\ futures' = futures \cup {future}
  /\ \/ IsDone(future) /\ Goto("inline") /\ UNCHANGED future
     \/ ~IsDone(future) /\ Goto("loop") /\ future' = None
  /\ UNCHANGED <<queueVars, nodeVars, global_lock, running, workerVars, scan,
                 pod_name, node_name, last_pod, priority, waitVars>>

InCallback == main = "inline" /\ callback[future] \notin {"finished", "died"}

ReturnFromCallback ==
  /\ main = "inline"
  /\ ~InCallback
  /\ future' = None
  /\ Goto("loop")
  /\ MainOnly
  /\ UNCHANGED <<pods_work_queue, nodeVars, global_lock, running, futures,
                 pod_name, node_name, last_pod, priority, waitVars>>

(* The signal handler calls Scheduler.stop in the main thread, wherever    *)
(* that is; the interrupts it adds to the runs are among the outcomes of   *)
(* the workers.  It waits for the runs and raises what a run raised, out   *)
(* of Scheduler.run or of the callback that the main thread is running,    *)
(* with global_lock as it is.                                              *)
StopRaises ==
  /\ \E f \in futures : outcome[f] = "raises"
  /\ \/ InCallback /\ Raise(future) /\ UNCHANGED main
     \/ ~InCallback /\ Goto("crashed") /\ UNCHANGED callback

Stop ==
  /\ main \notin Terminated
  /\ running
  /\ MaxStops > 0
  /\ running' = FALSE
  /\ StopRaises \/ UNCHANGED <<callback, main>>
  /\ UNCHANGED <<queueVars, nodeVars, global_lock, futures, workerVars, scan,
                 pod_name, choiceVars, waitVars>>

MainStep ==
  \/ LoopTest \/ PopQueued \/ StartWaiting \/ NextCompleted \/ AcquireMain
  \/ CheckAllDone \/ CheckQueue \/ TestUnlock \/ Unlock
  \/ \E n \in Nodes : PickBulk(n)
  \/ StopPicking \/ TestLastPod \/ IndexLastPod \/ ReadPriority \/ Assign
  \/ Submit \/ Register \/ ReturnFromCallback

-----------------------------------------------------------------------------
(* A worker thread: Scheduler.run_estimator *)

WorkerGoto(f, from, to) ==
  /\ run[f] \in from
  /\ run' = [run EXCEPT ![f] = to]
  /\ UNCHANGED <<queueVars, nodeVars, global_lock, running, futures,
                 callbackVars, mainVars>>

(* schedule_pod returns None: run_estimator returns a tuple of four, which *)
(* the callback cannot unpack.                                             *)
ScheduleFails(f) ==
  /\ WorkerGoto(f, {"scheduling"}, "done")
  /\ outcome' = [outcome EXCEPT ![f] = "raises"]
  /\ UNCHANGED phase

(* The pod exists already, was not scheduled in time, or the scheduler is  *)
(* stopping: the pod is deleted without an estimation.                     *)
ScheduleSkips(f) ==
  /\ WorkerGoto(f, {"scheduling"}, "deleting")
  /\ outcome' = [outcome EXCEPT ![f] = "complete"]
  /\ UNCHANGED phase

(* The phases of pulling the image and of starting the estimation *)
StartEstimation(f) ==
  /\ running
  /\ WorkerGoto(f, {"scheduling"}, "starting")
  /\ phase' = [phase EXCEPT ![PodOf(f)] = "starting"]
  /\ UNCHANGED outcome

FinishEstimation(f) ==
  /\ WorkerGoto(f, {"starting"}, "finishing")
  /\ phase' = [phase EXCEPT ![PodOf(f)] = "finishing"]
  /\ UNCHANGED outcome

(* The estimation ran to its end, timed out or was interrupted.            *)
EndEstimation(f) ==
  /\ WorkerGoto(f, {"starting", "finishing"}, "deleting")
  /\ \E result \in {"complete", "reschedule"} :
       outcome' = [outcome EXCEPT ![f] = result]
  /\ UNCHANGED phase

(* fetch_logs raises after an interrupt: the pod is not deleted.           *)
FetchLogsRaises(f) ==
  /\ WorkerGoto(f, {"starting", "finishing"}, "done")
  /\ outcome' = [outcome EXCEPT ![f] = "raises"]
  /\ UNCHANGED phase

DeletePod(f) ==
  /\ WorkerGoto(f, {"deleting"}, "done")
  /\ UNCHANGED <<outcome, phase>>

Worker(f) ==
  \/ ScheduleFails(f) \/ ScheduleSkips(f) \/ StartEstimation(f)
  \/ FinishEstimation(f) \/ EndEstimation(f) \/ FetchLogsRaises(f)
  \/ DeletePod(f)

-----------------------------------------------------------------------------
(* The done callback: Scheduler.done_estimation_callback *)

(* clean_phase_result_events *)
ForgetPhases(f) == phase' = [phase EXCEPT ![PodOf(f)] = "none"]

(* future.result() and clean_states.  The last statement deletes the event *)
(* queue of the pod: KeyError unless a watcher thread has logged an event  *)
(* of the pod since it was deleted last, which the environment decides.    *)
CleanStates(f) ==
  /\ callback[f] = "registered"
  /\ IsDone(f)
  /\ \/ /\ outcome[f] = "raises"
        /\ Raise(f)
        /\ UNCHANGED phase
     \/ /\ outcome[f] # "raises"
        /\ ForgetPhases(f)
        /\ CallbackGoto(f, "scan") \/ Raise(f)
  /\ UNCHANGED <<queueVars, nodeVars, global_lock, running, futures, run,
                 outcome, scan, mainVars>>

(* remove_pod_from_schedule_state *)

BeginScan(f) ==
  /\ callback[f] = "scan"
  /\ scan' = [scan EXCEPT ![f] = known_nodes]
  /\ CallbackGoto(f, "remove")
  /\ UNCHANGED <<queueVars, nodeVars, global_lock, running, futures,
                 workerVars, mainVars>>

(* RuntimeError when the dictionary got a new key during the iteration.    *)
RemoveFromNode(f) ==
  /\ callback[f] = "remove"
  /\ scan' = [scan EXCEPT ![f] = {}]
  /\ \/ /\ scan[f] # known_nodes
        /\ Raise(f)
        /\ UNCHANGED pods_per_node
     \/ /\ scan[f] = known_nodes
        /\ \E n \in Nodes : \E i \in DOMAIN pods_per_node[n] :
             /\ pods_per_node[n][i] = PodOf(f)
             /\ pods_per_node' = [pods_per_node EXCEPT ![n] = RemoveAt(@, i)]
        /\ CallbackGoto(f, "priority")
     \/ /\ scan[f] = known_nodes
        /\ ~OnNode(PodOf(f))
        /\ CallbackGoto(f, "acquire")
        /\ UNCHANGED pods_per_node
  /\ UNCHANGED <<queueVars, known_nodes, pods_priorities, global_lock,
                 running, futures, workerVars, mainVars>>

DropPriority(f) ==
  /\ callback[f] = "priority"
  /\ pods_priorities' = [pods_priorities EXCEPT ![PodOf(f)] = None]
  /\ CallbackGoto(f, "acquire")
  /\ UNCHANGED <<queueVars, pods_per_node, known_nodes, global_lock, running,
                 futures, workerVars, scan, mainVars>>

(* reschedule_or_complete *)

AcquireCallback(f) ==
  /\ callback[f] = "acquire"
  /\ ~global_lock
  /\ global_lock' = TRUE
  /\ CallbackGoto(f, "decide")
  /\ UNCHANGED <<queueVars, nodeVars, running, futures, workerVars, scan,
                 mainVars>>

MayRescheduleMutant(f) ==
  outcome[f] = "reschedule" /\ reschedules[PodOf(f)] <= MaxReschedules
MayReschedule(f) ==
  outcome[f] = "reschedule" /\ reschedules[PodOf(f)] < MaxReschedules

RescheduleOrComplete(f) ==
  /\ callback[f] = "decide"
  /\ \/ /\ MayReschedule(f)
        /\ reschedules' = [reschedules EXCEPT ![PodOf(f)] = @ + 1]
        /\ pods_work_queue' = Append(pods_work_queue, PodOf(f))
        /\ UNCHANGED pods_done
     \/ /\ ~MayReschedule(f)
        /\ pods_done' = Append(pods_done, PodOf(f))
        /\ UNCHANGED <<reschedules, pods_work_queue>>
  /\ CallbackGoto(f, "release")
  /\ UNCHANGED <<nodeVars, global_lock, running, futures, workerVars, scan,
                 mainVars>>

(* RuntimeError when the lock is not locked any more; it only costs the    *)
(* progress report.                                                        *)
ReleaseCallback(f) ==
  /\ callback[f] = "release"
  /\ global_lock' = FALSE
  /\ CallbackGoto(f, "finished")
  /\ UNCHANGED <<queueVars, nodeVars, running, futures, workerVars, scan,
                 mainVars>>

Callback(f) ==
  \/ CleanStates(f) \/ BeginScan(f) \/ RemoveFromNode(f) \/ DropPriority(f)
  \/ AcquireCallback(f) \/ RescheduleOrComplete(f) \/ ReleaseCallback(f)

-----------------------------------------------------------------------------
(* Scheduler.run is over and so are the threads of the pool.               *)
Finished ==
  /\ main \in Terminated
  /\ \A f \in Futures : /\ run[f] \in {"idle", "done"}
                        /\ callback[f] \in {"none", "finished", "died"}
  /\ UNCHANGED vars

Next ==
  \/ MainStep
  \/ \E n \in Nodes : PickSequence(n)
  \/ SleepAndRetry
  \/ Stop
  \/ \E f \in Futures : Worker(f) \/ Callback(f)
  \/ Finished

Spec == Init /\ [][Next]_vars

(* Every thread takes its next step: the operating system schedules all of *)
(* them and every wait of a worker has a timeout.  Nothing forces a signal *)
(* or the resources of a busy node.                                        *)
Fairness ==
  /\ WF_vars(MainStep)
  /\ \A f \in Futures : WF_vars(Worker(f)) /\ WF_vars(Callback(f))

FairSpec == Spec /\ Fairness

-----------------------------------------------------------------------------
(* Safety *)

CurrentRun(p) == <<p, reschedules[p]>>

Held(p) == pod_name = p

(* Off its node and not yet on the queue or done; for good when            *)
(* Scheduler.stop raised in the callback there.                            *)
InTransit(p) ==
  LET c == callback[CurrentRun(p)]
  IN \/ c \in {"priority", "acquire", "decide"}
     \/ c = "died" /\ ~OnNode(p) /\ ~InSeq(p, pods_done)

(* Where a pod can be: waiting, held by the main thread, assigned to a     *)
(* node, on its way from the node to the queue or to pods_done, or done.   *)
Places(p) ==
  <<InSeq(p, pods_work_queue), Held(p), OnNode(p), InTransit(p),
    InSeq(p, pods_done)>>

(* No interleaving of the main thread and the callbacks loses a pod,       *)
(* queues it while it is assigned, or completes it twice: every pod is in  *)
(* exactly one place, once.  In particular the exceptions that             *)
(* add_pod_to_schedule_state and remove_pod_from_schedule_state raise for  *)
(* a pod on two nodes are unreachable.                                     *)
PodInExactlyOnePlace ==
  /\ NoDuplicates(pods_work_queue)
  /\ NoDuplicates(pods_done)
  /\ \A n \in Nodes : NoDuplicates(pods_per_node[n])
  /\ \A m, n \in Nodes : \A p \in Pods :
       InSeq(p, pods_per_node[m]) /\ InSeq(p, pods_per_node[n]) => m = n
  /\ \A p \in Pods : \E i \in 1..5 :
       /\ Places(p)[i]
       /\ \A j \in (1..5) \ {i} : ~Places(p)[j]

CleaningUp == {"registered", "scan", "remove", "priority", "acquire", "decide"}
Active(f) == run[f] \notin {"idle", "done"} \/ callback[f] \in CleaningUp

(* A pod has one live run: no worker and no cleanup of an earlier run is   *)
(* left when the next one starts, so that clean_states never deletes the   *)
(* events of a later run.                                                  *)
OnlyCurrentRunActive ==
  \A f \in Futures : Active(f) => RunOf(f) = reschedules[PodOf(f)]

(* A pod goes back to the queue only when nothing of its earlier run is    *)
(* left in the shared state: no phase event, no priority, no node.         *)
QueuedPodsAreClean ==
  \A p \in Pods : InSeq(p, pods_work_queue) =>
    /\ phase[p] = "none"
    /\ pods_priorities[p] = None
    /\ ~Active(CurrentRun(p))

(* get_schedulable_pod_priority: a pod has a lower priority than every pod *)
(* scheduled before it on its node, whatever was removed in between, so    *)
(* that under memory pressure the pod that came last goes first.           *)
LaterPodsHaveLowerPriority ==
  \A n \in Nodes : \A i, j \in DOMAIN pods_per_node[n] :
    i < j => /\ pods_priorities[pods_per_node[n][i]] # None
             /\ pods_priorities[pods_per_node[n][j]] # None
             /\ pods_priorities[pods_per_node[n][j]]
                  < pods_priorities[pods_per_node[n][i]]

StartingUp(p) == run[CurrentRun(p)] \in {"idle", "scheduling", "starting"}

(* BULK_SCHEDULE_SIZE: "number of simultaneously scheduled pods on a node  *)
(* without checking resources".  However stale the state of the node was   *)
(* when it was picked, no more pods than that are starting up on it.       *)
StartingPodsBounded ==
  \A n \in Nodes :
    Cardinality({p \in Pods : InSeq(p, pods_per_node[n]) /\ StartingUp(p)})
      <= BulkScheduleSize

-----------------------------------------------------------------------------
(* The inductive invariant behind PodInExactlyOnePlace,                    *)
(* OnlyCurrentRunActive, QueuedPodsAreClean and the refinement             *)

Waiting(p) == InSeq(p, pods_work_queue) \/ Held(p)
Ended == {"release", "finished", "died"}

(* The local variables of the main thread that its next steps read *)
LocalsInv ==
  /\ main \in {"pick", "last_pod", "last_index", "priority", "assign"}
       => pod_name \in Pods
  /\ main \in {"last_pod", "last_index", "priority", "assign"}
       => node_name \in Nodes
  /\ main \in {"submit", "register", "inline"} => future \in Futures
  /\ main \in {"loop", "pop", "wait", "acquire", "all_done", "requeue_test",
               "submit", "register", "inline"} => pod_name = None

UniqueInv ==
  /\ NoDuplicates(pods_work_queue)
  /\ NoDuplicates(pods_done)
  /\ \A n \in Nodes : NoDuplicates(pods_per_node[n])
  /\ \A m, n \in Nodes : \A p \in Pods :
       InSeq(p, pods_per_node[m]) /\ InSeq(p, pods_per_node[n]) => m = n

(* The future the main thread has added to a node and not yet registered   *)
Unregistered(p) ==
  \/ main = "crashed"
  \/ main \in {"submit", "register"} /\ future = CurrentRun(p)

(* Runs before the current one are over, runs after it have not begun.     *)
RunsOK(p) ==
  \A k \in 0..MaxReschedules :
    /\ k < reschedules[p] => run[<<p, k>>] = "done" /\ callback[<<p, k>>] \in Ended
    /\ k > reschedules[p] => run[<<p, k>>] = "idle" /\ callback[<<p, k>>] = "none"
    /\ callback[<<p, k>>] \notin {"none", "registered"} => run[<<p, k>>] = "done"

WaitingOK(p) ==
  Waiting(p) =>
    /\ ~(InSeq(p, pods_work_queue) /\ Held(p))
    /\ ~OnNode(p)
    /\ ~InSeq(p, pods_done)
    /\ run[CurrentRun(p)] = "idle"
    /\ callback[CurrentRun(p)] = "none"
    /\ phase[p] = "none"
    /\ pods_priorities[p] = None

AssignedOK(p) ==
  OnNode(p) =>
    /\ ~InSeq(p, pods_done)
    /\ pods_priorities[p] # None
    /\ callback[CurrentRun(p)]
         \in {"none", "registered", "scan", "remove", "died"}
    /\ callback[CurrentRun(p)] = "none" => Unregistered(p)

DoneOK(p) ==
  InSeq(p, pods_done) =>
    /\ run[CurrentRun(p)] = "done"
    /\ callback[CurrentRun(p)] \in Ended

(* A cleanup forgets the phases and the priority of its pod for good.      *)
CleanupOK(p) ==
  LET c == callback[CurrentRun(p)]
  IN /\ c \in {"scan", "remove", "priority", "acquire", "decide"}
          => phase[p] = "none"
     /\ c \in {"acquire", "decide"} => pods_priorities[p] = None

(* No pod is nowhere.                                                      *)
SomewhereOK(p) ==
  \/ Waiting(p)
  \/ OnNode(p)
  \/ InSeq(p, pods_done)
  \/ callback[CurrentRun(p)] \in {"priority", "acquire", "decide", "died"}

PodOK(p) ==
  /\ RunsOK(p)
  /\ WaitingOK(p)
  /\ AssignedOK(p)
  /\ DoneOK(p)
  /\ CleanupOK(p)
  /\ SomewhereOK(p)

(* The pod of the future the main thread is submitting is on its node; a   *)
(* callback that runs in the main thread has been registered.              *)
SubmitInv ==
  /\ main \in {"submit", "register"} =>
       /\ future = CurrentRun(PodOf(future))
       /\ OnNode(PodOf(future))
       /\ callback[future] = "none"
       /\ run[future] = "idle" <=> main = "submit"
  /\ main = "inline" => run[future] = "done" /\ callback[future] # "none"

PodInv ==
  /\ LocalsInv
  /\ UniqueInv
  /\ SubmitInv
  /\ \A p \in Pods : PodOK(p)

-----------------------------------------------------------------------------
(* What the scheduler promises: EstimationLedger.  A pod the main thread   *)
(* holds is still queued; a pod whose callback died runs for ever.         *)
Status(p) ==
  IF InSeq(p, pods_done) THEN "done"
  ELSE IF Waiting(p) THEN "queued" ELSE "running"

Ledger == INSTANCE EstimationLedger WITH
  status   <- [p \in Pods |-> Status(p)],
  attempts <- reschedules

(* The scheduler implements the ledger: a pod only moves from the queue to *)
(* a run, and from the run to pods_done or, within its budget, back.       *)
ImplementsLedger == Ledger!Spec

-----------------------------------------------------------------------------
(* Liveness, under FairSpec *)

(* Every callback of a finished run ends: whoever releases global_lock     *)
(* first, nobody waits for it for ever, except when Scheduler.stop raised  *)
(* in a thread that held it.                                               *)
CallbacksEnd ==
  \A f \in Futures :
    callback[f] = "registered" ~> \/ callback[f] \in {"finished", "died"}
                                  \/ [](global_lock /\ ~running)

(* Scheduler.run ends, unless the callback of some run died: the pod of    *)
(* that run keeps its place on its node for ever.                          *)
EndsUnlessCallbackDied ==
  <>(main \in Terminated \/ \E f \in Futures : callback[f] = "died")

-----------------------------------------------------------------------------
(* What comments of the code say and the code does not do *)

(* "all tasks finished and no more queued" (pop_or_wait_work_queue): when  *)
(* Scheduler.run ends there, no pod is left in the queue.                  *)
NoPodQueuedAfterAllFinished ==
  main = "drained" => pods_work_queue = <<>>

=============================================================================
