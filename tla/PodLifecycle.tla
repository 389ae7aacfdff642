---------------------------- MODULE PodLifecycle ----------------------------
(***************************************************************************)
(* The runs of one pod of data_feed/perf, seen from the events that drive  *)
(* them.  The worker thread of a run (Scheduler.run_estimator) creates the *)
(* pod, waits for it to be scheduled, goes through the phases of the       *)
(* estimation and deletes the pod.  For each wait it records a phase and   *)
(* installs a threading.Event; the watcher threads (one per channel of     *)
(* KubeWatcher) and Scheduler.stop record interrupts and set the Event,    *)
(* with no lock in common.                                                 *)
(*                                                                         *)
(* There is one action per access to the shared states, except that        *)
(* PodCallback.callback reads all it needs in one step and the worker reads*)
(* the outcome of a wait of the scheduling state in the step that records  *)
(* it.  Time is left out: a wait may time out whenever its Event is clear, *)
(* and an event may stay in its channel for any time.                      *)
(***************************************************************************)
EXTENDS Integers, FiniteSets, SequencesExt

CONSTANTS
  MaxReschedules,  \* MAX_RESCHEDULES in scheduling_state.py
  MaxFaults,       \* bound of the model: faults of the cluster
  MaxStops,        \* bound of the model: signals that stop the scheduler
  MaxBacklog       \* bound of the model: undelivered events of a channel

ASSUME LifecycleAssumption ==
  /\ MaxReschedules \in Nat
  /\ MaxFaults \in Nat
  /\ MaxStops \in {0, 1}
  /\ MaxBacklog \in Nat

States   == {"scheduling", "estimation"}  \* the two PhaseResultStates
Channels == {"pod_kube", "pod_object", "node_kube"}
Threads  == Channels \cup {"stop", "metrics"}
Runs     == 0..MaxReschedules

VARIABLES
  running,      \* Scheduler.running
  (* PhaseResultState, for either state *)
  phase,        \* the last phase event
  results,      \* the types of the result events, as far as Asked for
  last,         \* the type of the last result event
  wait_event,   \* wait_event_per_pod: absent, clear or set
  (* the worker and its local variables *)
  pc, stage, timed_out, outcome,
  reschedules,  \* how often the pod was rescheduled: the run it is in
  (* the cluster *)
  pod,          \* status of the pod and the run that created it
  reached,      \* what the pods of that run have been through
  faults,
  (* the other threads *)
  channel,      \* the events a channel has still to deliver
  todo,         \* what a thread has still to do to the two states
  dead          \* the threads an exception has ended

stateVars   == <<phase, results, last, wait_event>>
workerVars  == <<pc, stage, timed_out, outcome, reschedules>>
clusterVars == <<pod, reached, faults>>
threadVars  == <<todo, dead>>
vars == <<running, stateVars, workerVars, clusterVars, channel, threadVars>>

-----------------------------------------------------------------------------
(* Estimator.estimate_resources: the phases, each with the result that     *)
(* follows when its wait ends                                              *)
Stages == <<
  [phase |-> "WAITING_FOR_DF_CONTAINER_TO_PULL_IMAGE",
   result |-> "DF_CONTAINER_IMAGE_PULLED"],
  [phase |-> "WAITING_FOR_POD_TO_START_ESTIMATION_RUN",
   result |-> "POD_STARTED_ESTIMATION_RUN"],
  [phase |-> "WAITING_FOR_POD_TO_FINISH_ESTIMATION_RUN",
   result |-> "POD_FINISHED_ESTIMATION_RUN"]>>

FinishStage == 3

(* The reschedule reasons of estimate_resources *)
RescheduleReasonsMutant ==
  {"INTERRUPTED_OOM", "INTERRUPTED_UNEXPECTED_CONTAINER_TERMINATION",
   "INTERRUPTED_UNEXPECTED_POD_DELETION", "INTERRUPTED_DF_CONTAINER_HEALTH",
   "INTERRUPTED_STOP"}
RescheduleReasons ==
  {"INTERRUPTED_OOM", "INTERRUPTED_UNEXPECTED_CONTAINER_TERMINATION",
   "INTERRUPTED_UNEXPECTED_POD_DELETION", "INTERRUPTED_DF_CONTAINER_HEALTH"}

(* EstimationState.get_interrupts *)
Interrupts == RescheduleReasons \cup {"INTERRUPTED_TIMEOUT", "INTERRUPTED_STOP"}

Asked == RescheduleReasons \cup {"POD_SCHEDULED"}

ResultTypes ==
  Interrupts \cup {Stages[i].result : i \in DOMAIN Stages} \cup
  {"COLLECTING_METRICS", "METRICS_COLLECTED", "POD_SCHEDULED", "POD_DELETED",
   "INTERRUPTED_INTERNAL_ERROR", "INTERRUPTED_POD_ALREADY_EXISTS",
   "INTERRUPTED_POD_NOT_FOUND"}

PhaseTypes ==
  {Stages[i].phase : i \in DOMAIN Stages} \cup
  {"WAITING_FOR_POD_TO_BE_SCHEDULED", "WAITING_FOR_POD_TO_BE_DELETED"}

EventTypes == {"Scheduled", "Pulled", "Unhealthy", "ContainersStarted",
               "Terminated", "PodDeleted", "OOMKilled"}

(* own: the event follows from the deletion that run asked for             *)
Events == [type : EventTypes, run : Runs, own : BOOLEAN]

Milestones  == {"scheduled", "pulled", "started"}
PodStatuses == {"absent", "created", "stopping", "terminated"} \cup Milestones

WorkerStates ==
  {"queued", "create", "created", "await_scheduled", "wait_scheduled",
   "scheduled", "phase", "await_phase", "wait_phase", "check", "record",
   "conclude", "reason", "delete", "request", "requested", "await_deleted",
   "wait_deleted", "done", "clean", "decide", "finished", "died"}

-----------------------------------------------------------------------------
(* PhaseResultState *)

AddPhase(s, p) == phase' = [phase EXCEPT ![s] = p]

(* results keeps the types that has_result_type is asked for.              *)
AddResult(s, r) ==
  /\ results' = [results EXCEPT ![s] = @ \cup ({r} \cap Asked)]
  /\ last' = [last EXCEPT ![s] = r]

(* wait_event: a new Event takes the place of the one of an earlier wait.  *)
InstallEvent(s) == wait_event' = [wait_event EXCEPT ![s] = "clear"]

IsSet(s) == wait_event[s] = "set"
IsInterrupted == last["estimation"] \in Interrupts

(* What a watcher thread or stop has to do: add_result_event, then the two *)
(* halves of wake_event, the loop that looks for the Event and its set().  *)
Add(s, r, e) == [op |-> "add", state |-> s, result |-> r, cause |-> e]
Wake(s) == [op |-> "find", state |-> s]

NoEvent == [type |-> "Scheduled", run |-> 0, own |-> FALSE]

Ops == [op : {"add"}, state : States, result : ResultTypes, cause : Events]
         \cup [op : {"find", "set"}, state : States]

TypeOK ==
  /\ running \in BOOLEAN
  /\ phase \in [States -> PhaseTypes \cup {"none"}]
  /\ results \in [States -> SUBSET Asked]
  /\ last \in [States -> ResultTypes \cup {"none"}]
  /\ wait_event \in [States -> {"absent", "clear", "set"}]
  /\ pc \in WorkerStates
  /\ stage \in 1..6
  /\ timed_out \in BOOLEAN
  /\ outcome \in {"none", "raises", "complete", "reschedule"}
  /\ reschedules \in Runs
  /\ pod \in [status : PodStatuses, run : Runs]
  /\ reached \in SUBSET Milestones
  /\ faults \in 0..MaxFaults
  /\ channel \in [Channels -> Seq(Events)]
  /\ todo \in [Threads -> Seq(Ops)]
  /\ dead \in SUBSET Threads

Init ==
  /\ running = TRUE
  /\ phase = [s \in States |-> "none"]
  /\ results = [s \in States |-> {}]
  /\ last = [s \in States |-> "none"]
  /\ wait_event = [s \in States |-> "absent"]
  /\ pc = "queued"
  /\ stage = 1
  /\ timed_out = FALSE
  /\ outcome = "none"
  /\ reschedules = 0
  /\ pod = [status |-> "absent", run |-> 0]
  /\ reached = {}
  /\ faults = 0
  /\ channel = [c \in Channels |-> <<>>]
  /\ todo = [t \in Threads |-> <<>>]
  /\ dead = {}

-----------------------------------------------------------------------------
(* The worker: Scheduler.run_estimator *)

Step(from, to) == pc = from /\ pc' = to
OnlyStates == UNCHANGED <<running, reschedules, clusterVars, channel, threadVars>>
NoLocals   == UNCHANGED <<stage, timed_out, outcome>>

StartRun ==
  /\ running
  /\ Step("queued", "create")
  /\ AddPhase("scheduling", "WAITING_FOR_POD_TO_BE_SCHEDULED")
  /\ outcome' = "none"
  /\ OnlyStates
  /\ UNCHANGED <<results, last, wait_event, stage, timed_out>>

(* schedule_pod.  The request may succeed and its answer get lost, in      *)
(* which case it is repeated.                                              *)
CreatePod ==
  /\ running
  /\ Step("create", "created") \/ Step("create", "create")
  /\ pod.status = "absent"
  /\ pod' = [status |-> "created", run |-> reschedules]
  /\ reached' = IF pod.run = reschedules THEN reached ELSE {}
  /\ NoLocals
  /\ UNCHANGED <<running, reschedules, stateVars, faults, channel, threadVars>>

PodAlreadyExists ==
  /\ running
  /\ Step("create", "scheduled")
  /\ pod.status # "absent"
  /\ AddResult("scheduling", "INTERRUPTED_POD_ALREADY_EXISTS")
  /\ OnlyStates
  /\ NoLocals
  /\ UNCHANGED <<phase, wait_event>>

(* All attempts failed, or the scheduler is stopping: run_estimator        *)
(* returns four values, and its callback raises.                           *)
CreateFails ==
  /\ Step("create", "done")
  /\ AddResult("scheduling", "INTERRUPTED_INTERNAL_ERROR")
  /\ outcome' = "raises"
  /\ OnlyStates
  /\ UNCHANGED <<phase, wait_event, stage, timed_out>>

TestBeforeWait ==
  /\ \/ running /\ Step("created", "await_scheduled")
     \/ ~running /\ Step("created", "scheduled")
     \/ running /\ Step("requested", "await_deleted")
     \/ ~running /\ Step("requested", "done")
  /\ OnlyStates
  /\ NoLocals
  /\ UNCHANGED stateVars

InstallSchedulingEvent ==
  /\ \/ Step("await_scheduled", "wait_scheduled")
     \/ Step("await_deleted", "wait_deleted")
  /\ InstallEvent("scheduling")
  /\ OnlyStates
  /\ NoLocals
  /\ UNCHANGED <<phase, results, last>>

(* A wait ends when its Event is set, or else on a timeout.                *)
ScheduledOrTimeoutMutant ==
  /\ Step("wait_scheduled", "scheduled")
  /\ AddResult("scheduling", "POD_SCHEDULED")

ScheduledOrTimeout ==
  /\ Step("wait_scheduled", "scheduled")
  /\ AddResult("scheduling", IF IsSet("scheduling") THEN "POD_SCHEDULED"
                             ELSE "INTERRUPTED_TIMEOUT")

DeletedOrTimeout ==
  /\ Step("wait_deleted", "done")
  /\ AddResult("scheduling", IF IsSet("scheduling") THEN "POD_DELETED"
                             ELSE "INTERRUPTED_TIMEOUT")

EndSchedulingWait ==
  /\ ScheduledOrTimeout \/ DeletedOrTimeout
  /\ OnlyStates
  /\ NoLocals
  /\ UNCHANGED <<phase, wait_event>>

(* The pod is estimated only if it was scheduled and nothing was recorded  *)
(* since.                                                                  *)
EstimateOrDelete ==
  /\ LET estimate == running /\ last["scheduling"] = "POD_SCHEDULED"
     IN \/ estimate /\ Step("scheduled", "phase") /\ UNCHANGED outcome
        \/ ~estimate /\ Step("scheduled", "delete") /\ outcome' = "complete"
  /\ OnlyStates
  /\ UNCHANGED <<stateVars, stage, timed_out>>

(* Estimator.estimate_resources *)

BeginPhase ==
  /\ Step("phase", "await_phase")
  /\ AddPhase("estimation", Stages[stage].phase)
  /\ OnlyStates
  /\ NoLocals
  /\ UNCHANGED <<results, last, wait_event>>

InstallPhaseEvent ==
  /\ Step("await_phase", "wait_phase")
  /\ InstallEvent("estimation")
  /\ OnlyStates
  /\ NoLocals
  /\ UNCHANGED <<phase, results, last>>

EndPhaseWaitMutant ==
  /\ Step("wait_phase", "check")
  /\ IsSet("estimation")
  /\ OnlyStates
  /\ UNCHANGED <<stateVars, stage, timed_out, outcome>>

EndPhaseWait ==
  /\ Step("wait_phase", "check")
  /\ timed_out' = ~IsSet("estimation")
  /\ OnlyStates
  /\ UNCHANGED <<stateVars, stage, outcome>>

CheckInterrupt ==
  /\ \/ IsInterrupted /\ Step("check", "conclude") /\ timed_out' = FALSE
     \/ ~IsInterrupted /\ Step("check", "record") /\ UNCHANGED timed_out
  /\ OnlyStates
  /\ UNCHANGED <<stateVars, stage, outcome>>

(* The timeout of the last phase is its success.                           *)
RecordResult ==
  /\ pc = "record"
  /\ \/ /\ timed_out /\ stage # FinishStage
        /\ AddResult("estimation", "INTERRUPTED_TIMEOUT")
        /\ pc' = "conclude"
        /\ UNCHANGED stage
     \/ /\ ~timed_out \/ stage = FinishStage
        /\ AddResult("estimation", Stages[stage].result)
        /\ \/ stage = FinishStage /\ pc' = "conclude" /\ UNCHANGED stage
           \/ stage # FinishStage /\ pc' = "phase" /\ stage' = stage + 1
  /\ timed_out' = FALSE
  /\ OnlyStates
  /\ UNCHANGED <<phase, wait_event, outcome>>

(* The metrics are fetched in a thread of their own after a success.       *)
Conclude ==
  /\ Step("conclude", "reason")
  /\ stage' = 1
  /\ \/ /\ last["estimation"] = "POD_FINISHED_ESTIMATION_RUN"
        /\ AddResult("estimation", "COLLECTING_METRICS")
        /\ todo' = [todo EXCEPT !["metrics"] =
                      Append(@, Add("estimation", "METRICS_COLLECTED", NoEvent))]
     \/ /\ last["estimation"] # "POD_FINISHED_ESTIMATION_RUN"
        /\ UNCHANGED <<results, last, todo>>
  /\ UNCHANGED <<running, phase, wait_event, timed_out, outcome, reschedules,
                 clusterVars, channel, dead>>

(* fetch_logs raises: the run ends without deleting its pod.               *)
FetchLogsRaises ==
  /\ Step("reason", "done")
  /\ results["estimation"] \cap
       {"INTERRUPTED_UNEXPECTED_CONTAINER_TERMINATION",
        "INTERRUPTED_DF_CONTAINER_HEALTH"} # {}
  /\ outcome' = "raises"
  /\ OnlyStates
  /\ UNCHANGED <<stateVars, stage, timed_out>>

Reason ==
  /\ Step("reason", "delete")
  /\ outcome' = IF results["estimation"] \cap RescheduleReasons # {}
                THEN "reschedule" ELSE "complete"
  /\ OnlyStates
  /\ UNCHANGED <<stateVars, stage, timed_out>>

(* delete_pod *)

BeginDeletion ==
  /\ Step("delete", "request")
  /\ AddPhase("scheduling", "WAITING_FOR_POD_TO_BE_DELETED")
  /\ OnlyStates
  /\ NoLocals
  /\ UNCHANGED <<results, last, wait_event>>

RequestDeletionMutant ==
  /\ pod.status # "absent"
  /\ \/ /\ running
        /\ Step("request", "requested")
        /\ pod' = [pod EXCEPT !.status = "stopping"]
     \/ /\ ~running
        /\ Step("request", "done")
        /\ UNCHANGED pod
  /\ NoLocals
  /\ UNCHANGED <<running, reschedules, stateVars, reached, faults, channel,
                 threadVars>>

RequestDeletion ==
  /\ Step("request", "requested") \/ Step("request", "request")
  /\ pod.status # "absent"
  /\ pod' = [pod EXCEPT !.status = "stopping"]
  /\ NoLocals
  /\ UNCHANGED <<running, reschedules, stateVars, reached, faults, channel,
                 threadVars>>

DeletionFails ==
  /\ Step("request", "done")
  /\ \/ /\ pod.status = "absent"
        /\ AddResult("scheduling", "INTERRUPTED_POD_NOT_FOUND")
     \/ AddResult("scheduling", "INTERRUPTED_INTERNAL_ERROR")
  /\ OnlyStates
  /\ NoLocals
  /\ UNCHANGED <<phase, wait_event>>

(* done_estimation_callback: clean_states, one dictionary after the other, *)
(* and the decision of reschedule_or_complete.                             *)

EndRun ==
  /\ \/ outcome = "raises" /\ Step("done", "died")
     \/ outcome # "raises" /\ Step("done", "clean")
  /\ OnlyStates
  /\ NoLocals
  /\ UNCHANGED stateVars

CleanOrder == <<
  [of |-> "events", state |-> "estimation"],
  [of |-> "events", state |-> "scheduling"],
  [of |-> "results", state |-> "estimation"],
  [of |-> "phases", state |-> "estimation"],
  [of |-> "results", state |-> "scheduling"],
  [of |-> "phases", state |-> "scheduling"]>>

CleanEvents(s) ==
  /\ wait_event' = [wait_event EXCEPT ![s] = "absent"]
  /\ UNCHANGED <<phase, results, last>>

CleanResults(s) ==
  /\ results' = [results EXCEPT ![s] = {}]
  /\ last' = [last EXCEPT ![s] = "none"]
  /\ UNCHANGED <<phase, wait_event>>

CleanPhasesMutant(s) == UNCHANGED stateVars
CleanPhases(s) ==
  /\ phase' = [phase EXCEPT ![s] = "none"]
  /\ UNCHANGED <<results, last, wait_event>>

CleanStates ==
  /\ pc = "clean"
  /\ LET what == CleanOrder[stage]
     IN \/ what.of = "events" /\ CleanEvents(what.state)
        \/ what.of = "results" /\ CleanResults(what.state)
        \/ what.of = "phases" /\ CleanPhases(what.state)
  /\ \/ stage = Len(CleanOrder) /\ stage' = 1 /\ pc' = "decide"
     \/ stage < Len(CleanOrder) /\ stage' = stage + 1 /\ UNCHANGED pc
  /\ OnlyStates
  /\ UNCHANGED <<timed_out, outcome>>

MayReschedule == outcome = "reschedule" /\ reschedules < MaxReschedules

RescheduleOrComplete ==
  /\ \/ /\ MayReschedule
        /\ Step("decide", "queued")
        /\ reschedules' = reschedules + 1
     \/ /\ ~MayReschedule
        /\ Step("decide", "finished")
        /\ UNCHANGED reschedules
  /\ NoLocals
  /\ UNCHANGED <<running, stateVars, clusterVars, channel, threadVars>>

Worker ==
  \/ StartRun \/ CreatePod \/ PodAlreadyExists \/ CreateFails
  \/ TestBeforeWait \/ InstallSchedulingEvent \/ EndSchedulingWait
  \/ EstimateOrDelete \/ BeginPhase \/ InstallPhaseEvent \/ EndPhaseWait
  \/ CheckInterrupt \/ RecordResult \/ Conclude \/ FetchLogsRaises \/ Reason
  \/ BeginDeletion \/ RequestDeletion \/ DeletionFails \/ EndRun
  \/ CleanStates \/ RescheduleOrComplete

-----------------------------------------------------------------------------
(* The watcher threads and Scheduler.stop *)

(* PodCallback.callback for an event of a channel; NodeCallback.callback   *)
(* for the process that the kernel killed, whose pod is found by its pid.  *)
BeingDeleted == phase["scheduling"] = "WAITING_FOR_POD_TO_BE_DELETED"

Skipped(e) == e.type # "OOMKilled" /\ ~BeingDeleted /\ IsInterrupted

(* The phase whose wait an event ends, and the state the wait belongs to   *)
Awaited(e) ==
  CASE e.type = "Scheduled" -> <<"scheduling", "WAITING_FOR_POD_TO_BE_SCHEDULED">>
    [] e.type = "PodDeleted" -> <<"scheduling", "WAITING_FOR_POD_TO_BE_DELETED">>
    [] e.type = "Pulled" -> <<"estimation", Stages[1].phase>>
    [] e.type = "ContainersStarted" -> <<"estimation", Stages[2].phase>>
    [] OTHER -> <<"estimation", "never">>

EndsWait(e) == phase[Awaited(e)[1]] = Awaited(e)[2]

UnexpectedMutant(e) ==
  /\ e.type \in {"Terminated", "PodDeleted"}
  /\ "POD_SCHEDULED" \in results["scheduling"]
Unexpected(e) ==
  /\ e.type \in {"Terminated", "PodDeleted"}
  /\ ~BeingDeleted
  /\ "POD_SCHEDULED" \in results["scheduling"]

InterruptOf(e) ==
  CASE e.type = "Terminated" -> "INTERRUPTED_UNEXPECTED_CONTAINER_TERMINATION"
    [] e.type = "PodDeleted" -> "INTERRUPTED_UNEXPECTED_POD_DELETION"
    [] e.type = "Unhealthy" -> "INTERRUPTED_DF_CONTAINER_HEALTH"
    [] OTHER -> "INTERRUPTED_OOM"

Interrupting(e) ==
  \/ Unexpected(e)
  \/ e.type = "Unhealthy"
  \/ e.type = "OOMKilled" /\ ~IsInterrupted

Reaction(e) ==
  IF Skipped(e) THEN <<>>
  ELSE IF EndsWait(e) THEN <<Wake(Awaited(e)[1])>>
  ELSE IF Interrupting(e)
       THEN <<Add("estimation", InterruptOf(e), e), Wake("estimation")>>
  ELSE <<>>

Deliver(c) ==
  /\ c \notin dead
  /\ todo[c] = <<>>
  /\ channel[c] # <<>>
  /\ todo' = [todo EXCEPT ![c] = Reaction(Head(channel[c]))]
  /\ channel' = [channel EXCEPT ![c] = Tail(@)]
  /\ UNCHANGED <<running, stateVars, workerVars, clusterVars, dead>>

(* Scheduler.stop interrupts the run if it finds its future in futures;    *)
(* a future stays there for a while after it is done.                      *)
StopOps == <<
  Add("scheduling", "INTERRUPTED_STOP", NoEvent), Wake("scheduling"),
  Add("estimation", "INTERRUPTED_STOP", NoEvent), Wake("estimation")>>

Stop ==
  /\ running
  /\ MaxStops > 0
  /\ running' = FALSE
  /\ \/ pc # "queued" /\ todo' = [todo EXCEPT !["stop"] = StopOps]
     \/ pc \in {"queued", "create", "done", "clean", "decide", "finished", "died"}
        /\ UNCHANGED todo
  /\ UNCHANGED <<stateVars, workerVars, clusterVars, channel, dead>>

(* The next thing a thread has to do to the states *)
Op(t) == Head(todo[t])
Done(t) == todo' = [todo EXCEPT ![t] = Tail(@)]

AddInterrupt(t) ==
  /\ Op(t).op = "add"
  /\ AddResult(Op(t).state, Op(t).result)
  /\ Done(t)
  /\ UNCHANGED <<phase, wait_event, dead>>

(* wake_event gives up when no Event appears.                              *)
FindEventMutant(t) ==
  /\ Op(t).op = "find"
  /\ wait_event[Op(t).state] # "absent"
  /\ todo' = [todo EXCEPT ![t] = <<[@[1] EXCEPT !.op = "set"]>> \o Tail(@)]
  /\ UNCHANGED <<stateVars, dead>>

FindEvent(t) ==
  /\ Op(t).op = "find"
  /\ \/ /\ wait_event[Op(t).state] # "absent"
        /\ todo' = [todo EXCEPT ![t] = <<[@[1] EXCEPT !.op = "set"]>> \o Tail(@)]
     \/ wait_event[Op(t).state] = "absent" /\ Done(t)
  /\ UNCHANGED <<stateVars, dead>>

(* KeyError, which ends the thread, when the Event was cleaned since.      *)
SetEvent(t) ==
  /\ Op(t).op = "set"
  /\ LET s == Op(t).state
     IN \/ /\ wait_event[s] # "absent"
           /\ wait_event' = [wait_event EXCEPT ![s] = "set"]
           /\ Done(t)
           /\ UNCHANGED dead
        \/ /\ wait_event[s] = "absent"
           /\ dead' = dead \cup {t}
           /\ todo' = [todo EXCEPT ![t] = <<>>]
           /\ UNCHANGED wait_event
  /\ UNCHANGED <<phase, results, last>>

ThreadStep(t) ==
  /\ todo[t] # <<>>
  /\ AddInterrupt(t) \/ FindEvent(t) \/ SetEvent(t)
  /\ UNCHANGED <<running, workerVars, clusterVars, channel>>

-----------------------------------------------------------------------------
(* The cluster *)

Event(type) == [type |-> type, run |-> pod.run, own |-> pod.status = "stopping"]

Emit(c, s) ==
  /\ Len(channel[c] \o s) <= MaxBacklog
  /\ channel' = [channel EXCEPT ![c] = @ \o s]

Becomes(status) == pod' = [pod EXCEPT !.status = status]

Cluster == UNCHANGED <<running, stateVars, workerVars, threadVars>>

Progress(from, to) ==
  /\ pod.status = from
  /\ Becomes(to)
  /\ reached' = reached \cup {to}
  /\ UNCHANGED faults
  /\ Cluster

ScheduleOnNode ==
  /\ Progress("created", "scheduled")
  /\ Emit("pod_kube", <<Event("Scheduled")>>)

PullImage ==
  /\ Progress("scheduled", "pulled")
  /\ Emit("pod_kube", <<Event("Pulled")>>)

(* One change of the pod object is logged once for every container whose   *)
(* state it changes, each time with the state of all containers.           *)
StartContainers ==
  /\ Progress("pulled", "started")
  /\ Emit("pod_object", <<Event("ContainersStarted"), Event("ContainersStarted")>>)

Fault ==
  /\ faults < MaxFaults
  /\ faults' = faults + 1
  /\ UNCHANGED reached
  /\ Cluster

(* restartPolicy is Never.                                                 *)
ContainerTerminates ==
  /\ Fault
  /\ pod.status = "started"
  /\ Becomes("terminated")
  /\ Emit("pod_object", <<Event("Terminated")>>)

KillProcess ==
  /\ Fault
  /\ pod.status = "started"
  /\ UNCHANGED pod
  /\ Emit("node_kube", <<Event("OOMKilled")>>)

ProbeFails ==
  /\ Fault
  /\ pod.status \in {"pulled", "started", "stopping"}
  /\ UNCHANGED pod
  /\ Emit("pod_kube", <<Event("Unhealthy")>>)

EvictPod ==
  /\ Fault
  /\ pod.status \notin {"absent", "stopping"}
  /\ Becomes("absent")
  /\ Emit("pod_object", <<Event("PodDeleted")>>)

DeletePod ==
  /\ pod.status = "stopping"
  /\ Becomes("absent")
  /\ \/ Emit("pod_object", <<Event("PodDeleted")>>)
     \/ Emit("pod_object", <<Event("Terminated"), Event("PodDeleted")>>)
  /\ UNCHANGED <<reached, faults>>
  /\ Cluster

ClusterStep == ScheduleOnNode \/ PullImage \/ StartContainers \/ DeletePod
ClusterFault ==
  ContainerTerminates \/ KillProcess \/ ProbeFails \/ EvictPod

-----------------------------------------------------------------------------
(* Nothing more can happen to the pod, except in the cluster.              *)
Finished ==
  /\ pc \in {"finished", "died"} \/ (pc = "queued" /\ ~running)
  /\ UNCHANGED vars

Next ==
  \/ Worker
  \/ \E c \in Channels : Deliver(c)
  \/ \E t \in Threads : ThreadStep(t)
  \/ Stop \/ ClusterStep \/ ClusterFault
  \/ Finished

Spec == Init /\ [][Next]_vars

Fairness ==
  /\ WF_vars(Worker)
  /\ \A c \in Channels : WF_vars(Deliver(c))
  /\ \A t \in Threads : WF_vars(ThreadStep(t))

FairSpec == Spec /\ Fairness

-----------------------------------------------------------------------------
(* Safety *)

(* delete_pod: "do not wait for confirm when exiting" skips the wait, not  *)
(* the request.  However a run was interrupted or stopped, it ends with    *)
(* its pod gone or on its way out, unless the cluster refused the deletion *)
(* to the last attempt or the run raised.                                  *)
NoPodLeftBehind ==
  [][(/\ pc # "done" /\ pc' = "done"
      /\ outcome' # "raises"
      /\ last'["scheduling"] # "INTERRUPTED_INTERNAL_ERROR")
       => pod'.status \in {"absent", "stopping"}]_vars

(* The checks of the phase in PodCallback.callback keep the events of the  *)
(* deletion a run asked for from interrupting that run: such an event can  *)
(* count as unexpected only when it arrives in a later run of the pod.     *)
OwnDeletionNeverInterrupts ==
  \A t \in Threads : \A i \in DOMAIN todo[t] :
    LET op == todo[t][i]
    IN op.op = "add" /\ op.result # "INTERRUPTED_DF_CONTAINER_HEALTH"
         /\ op.cause.own => op.cause.run < reschedules

(* POD_SCHEDULED guards the estimation and the interrupts of a run.  While *)
(* the scheduler is running it is recorded only for a pod that this run    *)
(* created and the cluster scheduled, although any thread can set the      *)
(* Event that says so.  This is said of the first run: a later one may be  *)
(* woken by a thread that was about to wake an earlier run.                *)
ScheduledIsReal ==
  running /\ reschedules = 0 /\ "POD_SCHEDULED" \in results["scheduling"] =>
    "scheduled" \in reached

(* A pod is rescheduled for a fault of the cluster only: timeouts, a stop  *)
(* and the events of its own deletions do not make a run repeat.           *)
HealthyPodNotRescheduled ==
  faults = 0 => outcome # "reschedule" /\ reschedules = 0

(* The scheduler's view of the worker: EstimationRun *)
RunState ==
  CASE pc = "queued" -> "idle"
    [] pc \in {"create", "created", "await_scheduled", "wait_scheduled",
               "scheduled"} -> "scheduling"
    [] pc \in {"phase", "await_phase", "wait_phase", "check", "record",
               "conclude", "reason"} ->
         (CASE phase["estimation"] = "none" -> "scheduling"
            [] phase["estimation"] = Stages[FinishStage].phase -> "finishing"
            [] OTHER -> "starting")
    [] pc \in {"delete", "request", "requested", "await_deleted",
               "wait_deleted"} -> "deleting"
    [] OTHER -> "done"

Run == INSTANCE EstimationRun WITH
  run      <- RunState,
  outcome  <- IF pc = "queued" THEN "none" ELSE outcome,
  phase    <- CASE phase["estimation"] = "none" -> "none"
                [] phase["estimation"] = Stages[FinishStage].phase -> "finishing"
                [] OTHER -> "starting",
  attempts <- reschedules

(* The worker does what EstimationScheduler takes it to do.                *)
ImplementsRun == Run!Spec

-----------------------------------------------------------------------------
(* Liveness, under FairSpec *)

(* A run that has begun ends: no interleaving of lost and stale wakeups,   *)
(* lost answers and interrupts keeps the worker for ever.                  *)
RunEnds == pc = "create" ~> pc \in {"queued", "finished", "died"}

(* The watcher threads and stop get through what they do: they wait in     *)
(* wake_event for an Event that may never come, but not for ever.          *)
WakersReturn ==
  \A t \in Threads : todo[t] # <<>> ~> todo[t] = <<>>

=============================================================================
