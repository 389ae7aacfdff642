----------------------------- MODULE OomHandler -----------------------------
(***************************************************************************)
(* The OOM handler of data_feed/perf: a client in the process of the       *)
(* scheduler decides which pods the kernel shall kill first and last, and  *)
(* a handler process runs the scripts that tell it.  Requests and results  *)
(* go through two queues; each has an Event that says there is an item,    *)
(* and one lock is taken around the accesses of both.                      *)
(*                                                                         *)
(* Threads: the watcher thread that notifies (one, the channel of pod      *)
(* objects), the loop of the handler process and its executor, the return  *)
(* loop of the client, and Scheduler.stop.  A section under a lock is one  *)
(* action unless it can block inside.                                      *)
(***************************************************************************)
EXTENDS Integers, FiniteSets, SequencesExt

CONSTANTS
  Pods, Nodes,
  MaxNotifications,  \* bound of the model: pods that start
  MaxFailures,       \* bound of the model: scripts without a result
  None

ASSUME OomAssumption ==
  /\ MaxNotifications \in Nat
  /\ MaxFailures \in Nat
  /\ None \notin Pods \cup Nodes

Marks == {"MARKED_HIGH", "MARKED_LOW"}
Job   == [pod : Pods, mark : Marks]

VARIABLES
  node,            \* SchedulingState.pods_per_node: where a pod is
  score,           \* the mark that the processes of a pod have
  (* the handler process *)
  running,         \* OOMHandler.running, a shared value
  args_queue, args_event, return_queue, return_event,
  lock,            \* OOMHandler.lock: the loop that holds it, or None
  handler,         \* where the loop of the handler is
  scripts,         \* the jobs of the executor, with their progress
  (* the client *)
  client_running,  \* OOMHandlerClient.running
  in_flight_pods, last_marked_high_pod, marking_lock,
  notifier,        \* where the watcher thread is
  started_pod,     \* the pod it was told of
  pods_marking,    \* the request it is sending
  returner,        \* where the return loop is
  result,          \* the pod whose result it is handling, None without one
  (* the rest *)
  stopping,        \* where Scheduler.stop is
  notified, failed

queueVars   == <<args_queue, args_event, return_queue, return_event>>
markingVars == <<in_flight_pods, last_marked_high_pod, marking_lock>>
notifyVars  == <<notifier, started_pod, pods_marking, notified>>
returnVars  == <<returner, result>>
podVars     == <<node, score>>
scriptVars  == <<scripts, failed>>
runVars     == <<running, client_running, stopping>>
vars == <<podVars, queueVars, lock, handler, scriptVars, markingVars,
          notifyVars, returnVars, runVars>>

TypeOK ==
  /\ node \in [Pods -> Nodes \cup {None}]
  /\ score \in [Pods -> Marks \cup {"unmarked"}]
  /\ running \in BOOLEAN /\ client_running \in BOOLEAN
  /\ args_queue \in Seq(Seq(Job)) /\ return_queue \in Seq(Pods \cup {None})
  /\ args_event \in BOOLEAN /\ return_event \in BOOLEAN
  /\ lock \in {"handler", "client", None}
  /\ handler \in {"loop", "wait", "acquire", "get", "ended"}
  /\ scripts \in Seq([job : Job, at : {"run", "ran", "empty"}])
  /\ in_flight_pods \in [Pods -> Marks \cup {"none"}]
  /\ last_marked_high_pod \in Pods \cup {None}
  /\ marking_lock \in BOOLEAN
  /\ notifier \in {"idle", "decide", "send", "dead"}
  /\ started_pod \in Pods \cup {None}
  /\ pods_marking \in Seq(Job)
  /\ returner \in {"loop", "wait", "acquire", "get", "handle", "clear", "ended", "dead"}
  /\ result \in Pods \cup {None}
  /\ stopping \in {"no", "wake", "join_handler", "join_client", "stopped"}
  /\ notified \in 0..MaxNotifications /\ failed \subseteq Pods

Init ==
  /\ node = [p \in Pods |-> None]
  /\ score = [p \in Pods |-> "unmarked"]
  /\ running = TRUE /\ client_running = TRUE
  /\ args_queue = <<>> /\ return_queue = <<>>
  /\ args_event = FALSE /\ return_event = FALSE
  /\ lock = None
  /\ handler = "loop"
  /\ scripts = <<>>
  /\ in_flight_pods = [p \in Pods |-> "none"]
  /\ last_marked_high_pod = None
  /\ marking_lock = FALSE
  /\ notifier = "idle" /\ started_pod = None /\ pods_marking = <<>>
  /\ returner = "loop" /\ result = None
  /\ stopping = "no"
  /\ notified = 0 /\ failed = {}

-----------------------------------------------------------------------------
(* The scheduler assigns a pod to a node and removes it when its run is    *)
(* over; its processes are gone then.                                      *)
AssignPod ==
  \E p \in Pods, n \in Nodes :
    /\ node[p] = None
    /\ node' = [node EXCEPT ![p] = n]
    /\ UNCHANGED <<score, queueVars, lock, handler, scriptVars, markingVars,
                   notifyVars, returnVars, runVars>>

RemovePod ==
  \E p \in Pods :
    /\ node[p] # None
    /\ node' = [node EXCEPT ![p] = None]
    /\ score' = [score EXCEPT ![p] = "unmarked"]
    /\ UNCHANGED <<queueVars, lock, handler, scriptVars, markingVars,
                   notifyVars, returnVars, runVars>>

-----------------------------------------------------------------------------
(* The watcher thread: OOMHandlerClient.notify_pod_started *)

OnlyNotifier ==
  UNCHANGED <<podVars, lock, handler, scriptVars, returnVars, runVars>>

PodStarted ==
  /\ notifier = "idle"
  /\ notified < MaxNotifications
  /\ started_pod' \in {p \in Pods : node[p] # None}
  /\ notifier' = "decide"
  /\ notified' = notified + 1
  /\ OnlyNotifier
  /\ UNCHANGED <<queueVars, markingVars, pods_marking>>

(* decide_pods_marking.  Two of its ways out leave marking_lock held.      *)
Deciding == notifier = "decide" /\ ~marking_lock

Sends(request) ==
  /\ notifier' = "send"
  /\ pods_marking' = request
  /\ OnlyNotifier
  /\ UNCHANGED <<queueVars, started_pod, notified>>

NothingInFlight == \A p \in Pods : in_flight_pods[p] = "none"

NotScheduled ==
  /\ Deciding
  /\ node[started_pod] = None
  /\ notifier' = "dead"
  /\ marking_lock' = TRUE
  /\ OnlyNotifier
  /\ UNCHANGED <<queueVars, in_flight_pods, last_marked_high_pod, started_pod,
                 pods_marking, notified>>

LastHighPod ==
  IF last_marked_high_pod # None /\ node[last_marked_high_pod] = node[started_pod]
  THEN last_marked_high_pod ELSE None

JobOf(p, m) == [pod |-> p, mark |-> m]

MarkFirst ==
  /\ Deciding
  /\ node[started_pod] # None
  /\ NothingInFlight
  /\ in_flight_pods' = [p \in Pods |->
       IF p = LastHighPod THEN "MARKED_LOW"
       ELSE IF p = started_pod THEN "MARKED_HIGH" ELSE "none"]
  /\ Sends(<<JobOf(started_pod, "MARKED_HIGH")>> \o
           (IF LastHighPod # None THEN <<JobOf(LastHighPod, "MARKED_LOW")>>
            ELSE <<>>))
  /\ last_marked_high_pod' = started_pod
  /\ UNCHANGED marking_lock

AlreadyInFlight ==
  /\ Deciding
  /\ node[started_pod] # None
  /\ in_flight_pods[started_pod] # "none"
  /\ marking_lock' = TRUE
  /\ Sends(<<>>)
  /\ last_marked_high_pod' = LastHighPod
  /\ UNCHANGED in_flight_pods

HasHighMutant == FALSE
HasHigh == \E p \in Pods : in_flight_pods[p] = "MARKED_HIGH"

MarkNext ==
  /\ Deciding
  /\ node[started_pod] # None
  /\ ~NothingInFlight
  /\ in_flight_pods[started_pod] = "none"
  /\ LET mark == IF HasHigh THEN "MARKED_LOW" ELSE "MARKED_HIGH"
     IN /\ in_flight_pods' = [in_flight_pods EXCEPT ![started_pod] = mark]
        /\ last_marked_high_pod' =
             IF mark = "MARKED_HIGH" THEN started_pod ELSE LastHighPod
        /\ Sends(<<JobOf(started_pod, mark)>>)
  /\ UNCHANGED marking_lock

SendRequest ==
  /\ notifier = "send"
  /\ lock = None
  /\ args_queue' = Append(args_queue, pods_marking)
  /\ args_event' = TRUE
  /\ notifier' = "idle" /\ started_pod' = None /\ pods_marking' = <<>>
  /\ OnlyNotifier
  /\ UNCHANGED <<return_queue, return_event, markingVars, notified>>

Notify == NotScheduled \/ MarkFirst \/ AlreadyInFlight \/ MarkNext \/ SendRequest

-----------------------------------------------------------------------------
(* The handler process: OOMHandler.run *)

OnlyHandler ==
  UNCHANGED <<podVars, return_queue, return_event, failed, markingVars,
              notifyVars, returnVars, runVars>>

HandlerGoto(from, to) == handler = from /\ handler' = to

HandlerLoop ==
  /\ HandlerGoto("loop", IF running THEN "wait" ELSE "ended")
  /\ OnlyHandler
  /\ UNCHANGED <<args_queue, args_event, lock, scripts>>

HandlerWakes ==
  /\ args_event
  /\ HandlerGoto("wait", IF running THEN "acquire" ELSE "ended")
  /\ OnlyHandler
  /\ UNCHANGED <<args_queue, args_event, lock, scripts>>

HandlerAcquires ==
  /\ lock = None
  /\ HandlerGoto("acquire", "get")
  /\ lock' = "handler"
  /\ OnlyHandler
  /\ UNCHANGED <<args_queue, args_event, scripts>>

Submitted(job) == [job |-> job, at |-> "run"]

SubmitAllMutant(request) ==
  IF request = <<>> THEN <<>> ELSE <<Submitted(Head(request))>>
SubmitAll(request) == [i \in DOMAIN request |-> Submitted(request[i])]

MarkPodsMutant ==
  /\ args_queue # <<>>
  /\ HandlerGoto("get", "loop")
  /\ scripts' = scripts \o SubmitAll(Head(args_queue))
  /\ args_queue' = Tail(args_queue)
  /\ UNCHANGED args_event
  /\ lock' = None
  /\ OnlyHandler

(* get, mark_pods, and the event is cleared whatever else is in the queue. *)
MarkPods ==
  /\ args_queue # <<>>
  /\ HandlerGoto("get", "loop")
  /\ scripts' = scripts \o SubmitAll(Head(args_queue))
  /\ args_queue' = Tail(args_queue)
  /\ args_event' = FALSE
  /\ lock' = None
  /\ OnlyHandler

HandlerStep == HandlerLoop \/ HandlerWakes \/ HandlerAcquires \/ MarkPods

(* The executor: set_oom_score_adj_blocking.  A script finds no container  *)
(* of a pod that is gone and returns an empty result; it may raise.        *)
OnlyScripts ==
  UNCHANGED <<node, args_queue, args_event, lock, handler, markingVars,
              notifyVars, returnVars, runVars>>

RunScript(i) ==
  LET job == scripts[i].job
  IN /\ scripts[i].at = "run"
     /\ \/ /\ node[job.pod] # None
           /\ scripts' = [scripts EXCEPT ![i].at = "ran"]
           /\ score' = [score EXCEPT ![job.pod] = job.mark]
           /\ UNCHANGED failed
        \/ /\ node[job.pod] = None
           /\ scripts' = [scripts EXCEPT ![i].at = "empty"]
           /\ failed' = failed \cup {job.pod}
           /\ UNCHANGED score
        \/ /\ Cardinality(failed) < MaxFailures
           /\ scripts' = RemoveAt(scripts, i)
           /\ failed' = failed \cup {job.pod}
           /\ UNCHANGED score
     /\ OnlyScripts
     /\ UNCHANGED <<return_queue, return_event>>

PodOf(script) == IF script.at = "ran" THEN script.job.pod ELSE None

ReturnResult(i) ==
  /\ scripts[i].at # "run"
  /\ lock = None
  /\ return_queue' = Append(return_queue, PodOf(scripts[i]))
  /\ return_event' = TRUE
  /\ scripts' = RemoveAt(scripts, i)
  /\ OnlyScripts
  /\ UNCHANGED <<score, failed>>

ExecutorStep == \E i \in DOMAIN scripts : RunScript(i) \/ ReturnResult(i)

-----------------------------------------------------------------------------
(* The client: OOMHandlerClient.return_loop *)

OnlyReturner ==
  UNCHANGED <<podVars, args_queue, args_event, handler, scriptVars, notifyVars,
              last_marked_high_pod, runVars>>

ReturnerGoto(from, to) == returner = from /\ returner' = to

ReturnLoop ==
  /\ ReturnerGoto("loop", IF client_running /\ running THEN "wait" ELSE "ended")
  /\ OnlyReturner
  /\ UNCHANGED <<return_queue, return_event, lock, in_flight_pods, marking_lock,
                 result>>

ReturnerWakes ==
  /\ return_event
  /\ ReturnerGoto("wait", IF client_running /\ running THEN "acquire" ELSE "ended")
  /\ OnlyReturner
  /\ UNCHANGED <<return_queue, return_event, lock, in_flight_pods, marking_lock,
                 result>>

ReturnerAcquires ==
  /\ lock = None
  /\ ReturnerGoto("acquire", "get")
  /\ lock' = "client"
  /\ OnlyReturner
  /\ UNCHANGED <<return_queue, return_event, in_flight_pods, marking_lock, result>>

TakeResult ==
  /\ return_queue # <<>>
  /\ ReturnerGoto("get", IF client_running THEN "handle" ELSE "clear")
  /\ result' = Head(return_queue)
  /\ return_queue' = Tail(return_queue)
  /\ OnlyReturner
  /\ UNCHANGED <<return_event, lock, in_flight_pods, marking_lock>>

(* handle_oom_score_adj_script_result.  The pids are recorded; a pod that  *)
(* is not in flight raises KeyError with both locks held.                  *)
HandleResult ==
  /\ ~marking_lock
  /\ \/ /\ result = None
        /\ ReturnerGoto("handle", "clear")
        /\ UNCHANGED <<in_flight_pods, marking_lock>>
     \/ /\ result # None
        /\ in_flight_pods[result] # "none"
        /\ ReturnerGoto("handle", "clear")
        /\ in_flight_pods' = [in_flight_pods EXCEPT ![result] = "none"]
        /\ UNCHANGED marking_lock
     \/ /\ result # None
        /\ in_flight_pods[result] = "none"
        /\ ReturnerGoto("handle", "dead")
        /\ marking_lock' = TRUE
        /\ UNCHANGED in_flight_pods
  /\ OnlyReturner
  /\ UNCHANGED <<return_queue, return_event, lock, result>>

ClearReturnEvent ==
  /\ ReturnerGoto("clear", "loop")
  /\ return_event' = FALSE
  /\ lock' = None
  /\ result' = None
  /\ OnlyReturner
  /\ UNCHANGED <<return_queue, in_flight_pods, marking_lock>>

ReturnerStep ==
  ReturnLoop \/ ReturnerWakes \/ ReturnerAcquires \/ TakeResult \/ HandleResult
    \/ ClearReturnEvent

-----------------------------------------------------------------------------
(* Scheduler.stop: OOMHandler.stop, join of the process, and then          *)
(* OOMHandlerClient.stop, which joins the return loop.                     *)

OnlyStop == UNCHANGED <<podVars, args_queue, return_queue, lock, handler,
                        scriptVars, markingVars, notifyVars, returnVars>>

StopHandler ==
  /\ stopping = "no"
  /\ stopping' = "wake"
  /\ running' = FALSE
  /\ OnlyStop
  /\ UNCHANGED <<client_running, args_event, return_event>>

WakeLoopsMutant ==
  /\ stopping = "wake"
  /\ stopping' = "join_handler"
  /\ args_event' = TRUE
  /\ OnlyStop
  /\ UNCHANGED <<running, client_running, return_event>>

WakeLoops ==
  /\ stopping = "wake"
  /\ stopping' = "join_handler"
  /\ args_event' = TRUE /\ return_event' = TRUE
  /\ OnlyStop
  /\ UNCHANGED <<running, client_running>>

JoinHandler ==
  /\ stopping = "join_handler"
  /\ handler = "ended" /\ scripts = <<>>
  /\ stopping' = "join_client"
  /\ client_running' = FALSE
  /\ OnlyStop
  /\ UNCHANGED <<running, args_event, return_event>>

JoinClient ==
  /\ stopping = "join_client"
  /\ returner \in {"ended", "dead"}
  /\ stopping' = "stopped"
  /\ OnlyStop
  /\ UNCHANGED <<running, client_running, args_event, return_event>>

StopStep == WakeLoops \/ JoinHandler \/ JoinClient

Next ==
  \/ AssignPod \/ RemovePod
  \/ PodStarted \/ Notify
  \/ HandlerStep \/ ExecutorStep \/ ReturnerStep
  \/ StopHandler \/ StopStep

Spec == Init /\ [][Next]_vars

(* The threads run and every script ends.                                  *)
Fairness ==
  /\ WF_vars(Notify) /\ WF_vars(HandlerStep) /\ WF_vars(ReturnerStep)
  /\ WF_vars(ExecutorStep) /\ WF_vars(StopStep)

FairSpec == Spec /\ Fairness

-----------------------------------------------------------------------------
(* Safety *)

(* OOMHandler.run and return_loop call get on a queue while they hold the  *)
(* lock that whoever fills the queue needs: the Events have to guarantee   *)
(* that there is an item, or all threads wait for ever.                    *)
GetFindsItem ==
  /\ handler = "get" => args_queue # <<>>
  /\ returner = "get" => return_queue # <<>>

(* in_flight_pods, "pods which scripts are currently being executed": for  *)
(* every pod in it a request, a script or a result is on its way, unless   *)
(* its script failed or the client has stopped.  (A result may be on its   *)
(* way for long: see the README.)                                          *)
InFlightAccounted ==
  \A p \in Pods : in_flight_pods[p] # "none" =>
    \/ \E i \in DOMAIN pods_marking : pods_marking[i].pod = p
    \/ \E i \in DOMAIN args_queue :
         \E j \in DOMAIN args_queue[i] : args_queue[i][j].pod = p
    \/ \E i \in DOMAIN scripts : scripts[i].job.pod = p
    \/ \E i \in DOMAIN return_queue : return_queue[i] = p
    \/ result = p
    \/ p \in failed
    \/ ~client_running

(* decide_pods_marking never asks for two pods to be killed first at the   *)
(* same time, whatever is decided while scripts run.                       *)
OneHighInFlight ==
  \A p, q \in Pods :
    in_flight_pods[p] = "MARKED_HIGH" /\ in_flight_pods[q] = "MARKED_HIGH" => p = q

-----------------------------------------------------------------------------
(* Liveness, under FairSpec *)

(* Scheduler.stop gets through the OOM handler, whatever the loops were    *)
(* doing, unless marking_lock was left held: by an early return, by a pod  *)
(* that was not scheduled, or by a result nobody waited for.               *)
StopEnds == stopping = "wake" ~> stopping = "stopped" \/ marking_lock

=============================================================================
