------------------------- MODULE PodLifecycleProofs -------------------------
(***************************************************************************)
(* Type correctness of PodLifecycle, its safety invariants, and that the   *)
(* worker does what the scheduler takes it to do (EstimationRun); for any  *)
(* number of reschedules and faults, and any backlog of events.            *)
(***************************************************************************)
EXTENDS PodLifecycle, SequenceTheorems, TLAPS

-----------------------------------------------------------------------------
(* What the operations on a channel or on the list of a thread keep        *)

LEMMA ListGrows ==
  ASSUME NEW S, NEW T, S \subseteq T, NEW s \in Seq(S)
  PROVE  s \in Seq(T)
<1>1. /\ Len(s) \in Nat
      /\ s \in [1..Len(s) -> S]
  BY LenProperties
<1>2. s \in [1..Len(s) -> T]
  BY <1>1
<1> QED BY <1>1, <1>2, SeqDef

LEMMA ListGet ==
  ASSUME NEW S, NEW s \in Seq(S), s # <<>>
  PROVE  Head(s) \in S /\ s[1] = Head(s) /\ Tail(s) \in Seq(S)
BY HeadTailProperties

LEMMA ListElement ==
  ASSUME NEW S, NEW s \in Seq(S), NEW i \in DOMAIN s
  PROVE  s[i] \in S
BY ElementOfSeq

LEMMA ListConcat ==
  ASSUME NEW S, NEW s \in Seq(S), NEW t \in Seq(S)
  PROVE  s \o t \in Seq(S)
BY ConcatProperties

-----------------------------------------------------------------------------
(* The tables of the module *)

LEMMA StageTable ==
  /\ DOMAIN Stages = 1..3
  /\ \A i \in 1..3 : Stages[i].phase \in PhaseTypes /\ Stages[i].result \in ResultTypes
  /\ Stages[1].phase = "WAITING_FOR_DF_CONTAINER_TO_PULL_IMAGE"
  /\ Stages[2].phase = "WAITING_FOR_POD_TO_START_ESTIMATION_RUN"
  /\ Stages[3].phase = "WAITING_FOR_POD_TO_FINISH_ESTIMATION_RUN"
  /\ Stages[1].result = "DF_CONTAINER_IMAGE_PULLED"
  /\ Stages[2].result = "POD_STARTED_ESTIMATION_RUN"
  /\ Stages[3].result = "POD_FINISHED_ESTIMATION_RUN"
<1>1. /\ DOMAIN Stages = 1..3
      /\ Stages[1].phase = "WAITING_FOR_DF_CONTAINER_TO_PULL_IMAGE"
      /\ Stages[2].phase = "WAITING_FOR_POD_TO_START_ESTIMATION_RUN"
      /\ Stages[3].phase = "WAITING_FOR_POD_TO_FINISH_ESTIMATION_RUN"
      /\ Stages[1].result = "DF_CONTAINER_IMAGE_PULLED"
      /\ Stages[2].result = "POD_STARTED_ESTIMATION_RUN"
      /\ Stages[3].result = "POD_FINISHED_ESTIMATION_RUN"
  BY DEF Stages
<1> QED BY <1>1 DEF PhaseTypes, ResultTypes

LEMMA CleanTable ==
  /\ Len(CleanOrder) = 6
  /\ CleanOrder[1] = [of |-> "events", state |-> "estimation"]
  /\ CleanOrder[2] = [of |-> "events", state |-> "scheduling"]
  /\ CleanOrder[3] = [of |-> "results", state |-> "estimation"]
  /\ CleanOrder[4] = [of |-> "phases", state |-> "estimation"]
  /\ CleanOrder[5] = [of |-> "results", state |-> "scheduling"]
  /\ CleanOrder[6] = [of |-> "phases", state |-> "scheduling"]
BY DEF CleanOrder

(* What an add or a wake is                                                *)
LEMMA OpTypes ==
  /\ \A s \in States, r \in ResultTypes, e \in Events : Add(s, r, e) \in Ops
  /\ \A s \in States : Wake(s) \in Ops
  /\ \A op \in Ops : op.op = "find" => [op EXCEPT !.op = "set"] \in Ops
  /\ \A op \in Ops : op.state \in States /\ (op.op = "add" => op.result \in ResultTypes)
BY DEF Add, Wake, Ops

LEMMA NoEventType == NoEvent \in Events
BY LifecycleAssumption DEF NoEvent, Events, EventTypes, Runs

LEMMA ReactionType ==
  ASSUME NEW e \in Events
  PROVE  Reaction(e) \in Seq(Ops)
<1>1. Awaited(e)[1] \in States
  BY DEF Awaited, States
<1>2. InterruptOf(e) \in ResultTypes
  BY DEF InterruptOf, ResultTypes, Interrupts, RescheduleReasons
<1>3. /\ Wake(Awaited(e)[1]) \in Ops /\ Wake("estimation") \in Ops
      /\ Add("estimation", InterruptOf(e), e) \in Ops
  BY <1>1, <1>2, OpTypes DEF States
<1> QED BY <1>3 DEF Reaction

(* The list of a thread stays within S if what is added to it does.        *)
MetricsOp == Add("estimation", "METRICS_COLLECTED", NoEvent)

LEMMA TodoStep ==
  ASSUME TypeOK, [Next]_vars, NEW t \in Threads, NEW S, todo[t] \in Seq(S),
         \A op \in S : op.op = "find" => [op EXCEPT !.op = "set"] \in S,
         Stop => StopOps \in Seq(S),
         MetricsOp \in S,
         \A c \in Channels : Deliver(c) => Reaction(Head(channel[c])) \in Seq(S)
  PROVE  todo'[t] \in Seq(S)
<1>1. CASE UNCHANGED todo
  BY <1>1
<1>2. CASE Conclude
  <2>1. \/ todo'[t] = todo[t]
        \/ todo'[t] = Append(todo[t], MetricsOp)
    BY <1>2 DEF Conclude, TypeOK, MetricsOp
  <2> QED BY <2>1, AppendProperties
<1>3. ASSUME NEW c \in Channels, Deliver(c) PROVE todo'[t] \in Seq(S)
  BY <1>3 DEF Deliver, TypeOK
<1>4. CASE Stop
  BY <1>4 DEF Stop, TypeOK
<1>5. ASSUME NEW u \in Threads, ThreadStep(u) PROVE todo'[t] \in Seq(S)
  <2>1. CASE u # t
    BY <1>5, <2>1 DEF ThreadStep, AddInterrupt, FindEvent, SetEvent, Done, TypeOK
  <2>2. CASE u = t
    <3>1. todo[t] # <<>>
      BY <1>5, <2>2 DEF ThreadStep
    <3>2. Head(todo[t]) \in S /\ todo[t][1] = Head(todo[t]) /\ Tail(todo[t]) \in Seq(S)
      BY <3>1, ListGet
    <3>3. \/ todo'[t] = Tail(todo[t])
          \/ todo'[t] = <<>>
          \/ /\ Head(todo[t]).op = "find"
             /\ todo'[t] = <<[todo[t][1] EXCEPT !.op = "set"]>> \o Tail(todo[t])
      BY <1>5, <2>2 DEF ThreadStep, AddInterrupt, FindEvent, SetEvent, Done, Op, TypeOK
    <3>4. <<>> \in Seq(S)
      OBVIOUS
    <3>5. ASSUME Head(todo[t]).op = "find"
          PROVE  <<[todo[t][1] EXCEPT !.op = "set"]>> \o Tail(todo[t]) \in Seq(S)
      <4>1. [todo[t][1] EXCEPT !.op = "set"] \in S
        BY <3>2, <3>5
      <4>2. <<[todo[t][1] EXCEPT !.op = "set"]>> \in Seq(S)
        BY <4>1
      <4> QED BY <3>2, <4>2, ListConcat
    <3> QED BY <3>2, <3>3, <3>4, <3>5
  <2> QED BY <2>1, <2>2
<1>6. CASE Worker /\ ~Conclude
  <2>1. UNCHANGED todo
    BY <1>6 DEF Worker, StartRun, CreatePod, PodAlreadyExists, CreateFails, TestBeforeWait,
       InstallSchedulingEvent, EndSchedulingWait, EstimateOrDelete, BeginPhase,
       InstallPhaseEvent, EndPhaseWait, CheckInterrupt, RecordResult, FetchLogsRaises,
       Reason, BeginDeletion, RequestDeletion, DeletionFails, EndRun, CleanStates,
       RescheduleOrComplete, OnlyStates, threadVars
  <2> QED BY <1>1, <2>1
<1>7. CASE ClusterStep \/ ClusterFault
  <2>1. UNCHANGED todo
    BY <1>7 DEF ClusterStep, ClusterFault, ScheduleOnNode, PullImage, StartContainers,
       DeletePod, ContainerTerminates, KillProcess, ProbeFails, EvictPod, Progress, Fault,
       Cluster, threadVars
  <2> QED BY <1>1, <2>1
<1> QED BY <1>1, <1>2, <1>3, <1>4, <1>5, <1>6, <1>7 DEF Next, Finished, vars, threadVars

(* A channel stays within S if what the cluster emits does.                *)
LEMMA EmitStep ==
  ASSUME TypeOK, NEW c \in Channels, NEW d \in Channels, NEW s, Emit(d, s), NEW S,
         channel[c] \in Seq(S), s \in Seq(S)
  PROVE  channel'[c] \in Seq(S)
<1>1. channel'[c] = channel[c] \/ channel'[c] = channel[c] \o s
  BY DEF Emit, TypeOK
<1> QED BY <1>1, ListConcat

LEMMA ChannelStep ==
  ASSUME TypeOK, [Next]_vars, NEW c \in Channels, NEW S, channel[c] \in Seq(S),
         ScheduleOnNode => Event("Scheduled") \in S,
         PullImage => Event("Pulled") \in S,
         StartContainers => Event("ContainersStarted") \in S,
         ContainerTerminates => Event("Terminated") \in S,
         KillProcess => Event("OOMKilled") \in S,
         ProbeFails => Event("Unhealthy") \in S,
         EvictPod => Event("PodDeleted") \in S,
         DeletePod => Event("Terminated") \in S /\ Event("PodDeleted") \in S
  PROVE  channel'[c] \in Seq(S)
<1>1. CASE UNCHANGED channel
  BY <1>1
<1>2. ASSUME NEW d \in Channels, Deliver(d) PROVE channel'[c] \in Seq(S)
  <2>1. CASE d = c
    <3>1. channel[c] # <<>> /\ channel'[c] = Tail(channel[c])
      BY <1>2, <2>1 DEF Deliver, TypeOK
    <3> QED BY <3>1, ListGet
  <2> QED BY <1>2, <2>1 DEF Deliver, TypeOK
<1>3. CASE ClusterStep \/ ClusterFault
  <2> USE DEF Channels
  <2>1. CASE ScheduleOnNode
    <3>1. <<Event("Scheduled")>> \in Seq(S)
      BY <2>1
    <3>2. Emit("pod_kube", <<Event("Scheduled")>>)
      BY <2>1 DEF ScheduleOnNode
    <3> QED BY <3>1, <3>2, EmitStep
  <2>2. CASE PullImage
    <3>1. <<Event("Pulled")>> \in Seq(S)
      BY <2>2
    <3>2. Emit("pod_kube", <<Event("Pulled")>>)
      BY <2>2 DEF PullImage
    <3> QED BY <3>1, <3>2, EmitStep
  <2>3. CASE StartContainers
    <3>1. <<Event("ContainersStarted"), Event("ContainersStarted")>> \in Seq(S)
      BY <2>3
    <3>2. Emit("pod_object", <<Event("ContainersStarted"), Event("ContainersStarted")>>)
      BY <2>3 DEF StartContainers
    <3> QED BY <3>1, <3>2, EmitStep
  <2>4. CASE ContainerTerminates
    <3>1. <<Event("Terminated")>> \in Seq(S)
      BY <2>4
    <3>2. Emit("pod_object", <<Event("Terminated")>>)
      BY <2>4 DEF ContainerTerminates
    <3> QED BY <3>1, <3>2, EmitStep
  <2>5. CASE KillProcess
    <3>1. <<Event("OOMKilled")>> \in Seq(S)
      BY <2>5
    <3>2. Emit("node_kube", <<Event("OOMKilled")>>)
      BY <2>5 DEF KillProcess
    <3> QED BY <3>1, <3>2, EmitStep
  <2>6. CASE ProbeFails
    <3>1. <<Event("Unhealthy")>> \in Seq(S)
      BY <2>6
    <3>2. Emit("pod_kube", <<Event("Unhealthy")>>)
      BY <2>6 DEF ProbeFails
    <3> QED BY <3>1, <3>2, EmitStep
  <2>7. CASE EvictPod
    <3>1. <<Event("PodDeleted")>> \in Seq(S)
      BY <2>7
    <3>2. Emit("pod_object", <<Event("PodDeleted")>>)
      BY <2>7 DEF EvictPod
    <3> QED BY <3>1, <3>2, EmitStep
  <2>8. CASE DeletePod
    <3>1. /\ <<Event("PodDeleted")>> \in Seq(S)
          /\ <<Event("Terminated"), Event("PodDeleted")>> \in Seq(S)
      BY <2>8
    <3>2. \/ Emit("pod_object", <<Event("PodDeleted")>>)
          \/ Emit("pod_object", <<Event("Terminated"), Event("PodDeleted")>>)
      BY <2>8 DEF DeletePod
    <3> QED BY <3>1, <3>2, EmitStep
  <2> QED BY <1>3, <2>1, <2>2, <2>3, <2>4, <2>5, <2>6, <2>7, <2>8
          DEF ClusterStep, ClusterFault
<1>4. CASE Worker \/ Stop \/ \E t \in Threads : ThreadStep(t)
  <2>1. UNCHANGED channel
    BY <1>4 DEF Worker, StartRun, CreatePod, PodAlreadyExists, CreateFails, TestBeforeWait,
       InstallSchedulingEvent, EndSchedulingWait, EstimateOrDelete, BeginPhase,
       InstallPhaseEvent, EndPhaseWait, CheckInterrupt, RecordResult, Conclude,
       FetchLogsRaises, Reason, BeginDeletion, RequestDeletion, DeletionFails, EndRun,
       CleanStates, RescheduleOrComplete, OnlyStates, Stop, ThreadStep
  <2> QED BY <1>1, <2>1
<1> QED BY <1>1, <1>2, <1>3, <1>4 DEF Next, Finished, vars

-----------------------------------------------------------------------------
(* Type correctness.  stage counts the phases of the estimation, then the  *)
(* dictionaries to clean, and is 1 otherwise.                              *)

InPhase == pc \in {"phase", "await_phase", "wait_phase", "check", "record"}

StageOK ==
  /\ InPhase \/ pc = "conclude" => stage \in 1..3
  /\ ~InPhase /\ pc \notin {"conclude", "clean"} => stage = 1

TypeInv == TypeOK /\ StageOK

LEMMA InitType == Init => TypeInv
<1> SUFFICES ASSUME Init PROVE TypeInv
  OBVIOUS
<1>1. /\ channel \in [Channels -> Seq(Events)]
      /\ todo \in [Threads -> Seq(Ops)]
  BY DEF Init
<1>2. /\ reschedules \in Runs /\ faults \in 0..MaxFaults
      /\ pod \in [status : PodStatuses, run : Runs]
  BY LifecycleAssumption DEF Init, Runs, PodStatuses
<1>3. /\ phase \in [States -> PhaseTypes \cup {"none"}]
      /\ results \in [States -> SUBSET Asked]
      /\ last \in [States -> ResultTypes \cup {"none"}]
      /\ wait_event \in [States -> {"absent", "clear", "set"}]
  BY DEF Init
<1>4. running \in BOOLEAN /\ timed_out \in BOOLEAN
  BY Zenon DEF Init
<1>5. /\ pc \in WorkerStates /\ stage \in 1..6
      /\ outcome \in {"none", "raises", "complete", "reschedule"}
      /\ reached \in SUBSET Milestones /\ dead \in SUBSET Threads
  BY DEF Init, WorkerStates
<1>6. TypeOK
  BY <1>1, <1>2, <1>3, <1>4, <1>5 DEF TypeOK
<1> QED BY <1>6 DEF Init, TypeInv, StageOK, InPhase

LEMMA EventType ==
  ASSUME TypeOK, NEW type \in EventTypes
  PROVE  Event(type) \in Events
BY DEF TypeOK, Event, Events

LEMMA QueuesType ==
  ASSUME TypeOK, [Next]_vars
  PROVE  channel' \in [Channels -> Seq(Events)] /\ todo' \in [Threads -> Seq(Ops)]
<1>1. \A type \in EventTypes : Event(type) \in Events
  BY EventType
<1>2. ASSUME NEW c \in Channels PROVE channel'[c] \in Seq(Events)
  <2>1. channel[c] \in Seq(Events)
    BY DEF TypeOK
  <2> QED BY <1>1, <2>1, ChannelStep DEF EventTypes
<1>3. StopOps \in Seq(Ops) /\ MetricsOp \in Ops
  <2>1. "INTERRUPTED_STOP" \in ResultTypes /\ "METRICS_COLLECTED" \in ResultTypes
    BY DEF ResultTypes, Interrupts
  <2>2. /\ Add("scheduling", "INTERRUPTED_STOP", NoEvent) \in Ops
        /\ Wake("scheduling") \in Ops
        /\ Add("estimation", "INTERRUPTED_STOP", NoEvent) \in Ops
        /\ Wake("estimation") \in Ops
        /\ MetricsOp \in Ops
    BY <2>1, OpTypes, NoEventType DEF States, MetricsOp
  <2> QED BY <2>2 DEF StopOps
<1>4. ASSUME NEW t \in Threads PROVE todo'[t] \in Seq(Ops)
  <2>1. todo[t] \in Seq(Ops)
    BY DEF TypeOK
  <2>2. ASSUME NEW c \in Channels, Deliver(c)
        PROVE  Reaction(Head(channel[c])) \in Seq(Ops)
    <3>1. Head(channel[c]) \in Events
      BY <2>2, ListGet DEF Deliver, TypeOK
    <3> QED BY <3>1, ReactionType
  <2> QED BY <1>3, <2>1, <2>2, OpTypes, TodoStep
<1> QED
  <2>1. channel' = [c \in Channels |-> channel'[c]] /\ todo' = [t \in Threads |-> todo'[t]]
    BY DEF Next, vars, Worker, StartRun, CreatePod, PodAlreadyExists, CreateFails,
       TestBeforeWait, InstallSchedulingEvent, EndSchedulingWait, EstimateOrDelete,
       BeginPhase, InstallPhaseEvent, EndPhaseWait, CheckInterrupt, RecordResult, Conclude,
       FetchLogsRaises, Reason, BeginDeletion, RequestDeletion, DeletionFails, EndRun,
       CleanStates, RescheduleOrComplete, OnlyStates, Deliver, ThreadStep, AddInterrupt,
       FindEvent, SetEvent, Done, Stop, ClusterStep, ClusterFault, ScheduleOnNode, PullImage,
       StartContainers, DeletePod, ContainerTerminates, KillProcess, ProbeFails, EvictPod,
       Progress, Fault, Cluster, Emit, Finished, threadVars, TypeOK
  <2> QED BY <1>2, <1>4, <2>1

(* The other variables, given the types of the queues                      *)
Scalars ==
  /\ running \in BOOLEAN /\ timed_out \in BOOLEAN
  /\ pc \in WorkerStates /\ stage \in 1..6
  /\ outcome \in {"none", "raises", "complete", "reschedule"}
  /\ reschedules \in Runs
  /\ pod \in [status : PodStatuses, run : Runs]
  /\ reached \in SUBSET Milestones /\ faults \in 0..MaxFaults
  /\ dead \in SUBSET Threads

StateTypes ==
  /\ phase \in [States -> PhaseTypes \cup {"none"}]
  /\ results \in [States -> SUBSET Asked]
  /\ last \in [States -> ResultTypes \cup {"none"}]
  /\ wait_event \in [States -> {"absent", "clear", "set"}]

LEMMA AddResultType ==
  ASSUME TypeOK, NEW s \in States, NEW r \in ResultTypes, AddResult(s, r)
  PROVE  /\ results' \in [States -> SUBSET Asked]
         /\ last' \in [States -> ResultTypes \cup {"none"}]
BY DEF AddResult, TypeOK

LEMMA SomeResults ==
  {"INTERRUPTED_POD_ALREADY_EXISTS", "INTERRUPTED_INTERNAL_ERROR", "POD_SCHEDULED",
   "INTERRUPTED_TIMEOUT", "POD_DELETED", "COLLECTING_METRICS",
   "INTERRUPTED_POD_NOT_FOUND"} \subseteq ResultTypes
BY DEF ResultTypes, Interrupts

LEMMA WorkerStateTypes ==
  ASSUME TypeInv, Worker
  PROVE  StateTypes'
<1> USE DEF StateTypes, States
<1>1. CASE StartRun
  BY <1>1 DEF StartRun, AddPhase, PhaseTypes, TypeInv, TypeOK
<1>2. CASE PodAlreadyExists
  BY <1>2, AddResultType, SomeResults DEF PodAlreadyExists, TypeInv, TypeOK
<1>3. CASE CreateFails
  BY <1>3, AddResultType, SomeResults DEF CreateFails, TypeInv, TypeOK
<1>4. CASE InstallSchedulingEvent
  BY <1>4 DEF InstallSchedulingEvent, InstallEvent, TypeInv, TypeOK
<1>5. CASE EndSchedulingWait
  BY <1>5, AddResultType, SomeResults
     DEF EndSchedulingWait, ScheduledOrTimeout, DeletedOrTimeout, TypeInv, TypeOK
<1>6. CASE BeginPhase
  <2>1. Stages[stage].phase \in PhaseTypes
    BY <1>6, StageTable DEF BeginPhase, Step, TypeInv, StageOK, InPhase
  <2> QED BY <1>6, <2>1 DEF BeginPhase, AddPhase, TypeInv, TypeOK
<1>7. CASE InstallPhaseEvent
  BY <1>7 DEF InstallPhaseEvent, InstallEvent, TypeInv, TypeOK
<1>8. CASE RecordResult
  <2>1. Stages[stage].result \in ResultTypes
    BY <1>8, StageTable DEF RecordResult, TypeInv, StageOK, InPhase
  <2> QED BY <1>8, <2>1, AddResultType, SomeResults DEF RecordResult, TypeInv, TypeOK
<1>9. CASE Conclude
  BY <1>9, AddResultType, SomeResults DEF Conclude, TypeInv, TypeOK
<1>10. CASE BeginDeletion
  BY <1>10 DEF BeginDeletion, AddPhase, PhaseTypes, TypeInv, TypeOK
<1>11. CASE DeletionFails
  BY <1>11, AddResultType, SomeResults DEF DeletionFails, TypeInv, TypeOK
<1>12. CASE CleanStates
  <2>1. PICK s \in States : CleanEvents(s) \/ CleanResults(s) \/ CleanPhases(s)
    BY <1>12, CleanTable DEF CleanStates, TypeInv, TypeOK
  <2> QED BY <2>1 DEF CleanEvents, CleanResults, CleanPhases, TypeInv, TypeOK
<1>13. CASE UNCHANGED stateVars
  BY <1>13 DEF stateVars, TypeInv, TypeOK
<1> QED BY <1>1, <1>2, <1>3, <1>4, <1>5, <1>6, <1>7, <1>8, <1>9, <1>10, <1>11, <1>12, <1>13
        DEF Worker, CreatePod, TestBeforeWait, EstimateOrDelete, EndPhaseWait, CheckInterrupt,
            FetchLogsRaises, Reason, RequestDeletion, EndRun, RescheduleOrComplete

LEMMA EndPhaseWaitType == EndPhaseWait => timed_out' \in BOOLEAN
<1> SUFFICES ASSUME timed_out' = ~IsSet("estimation") PROVE timed_out' \in BOOLEAN
  BY DEF EndPhaseWait
<1> QED BY Zenon

LEMMA WorkerScalars ==
  ASSUME TypeInv, Worker
  PROVE  Scalars' /\ StageOK'
<1> USE DEF Step, OnlyStates, NoLocals, Scalars, StageOK, InPhase, TypeInv, TypeOK, WorkerStates,
            clusterVars, threadVars
<1>1. CASE StartRun
  BY <1>1 DEF StartRun
<1>2. CASE CreatePod
  BY <1>2 DEF CreatePod, PodStatuses
<1>3. CASE PodAlreadyExists
  BY <1>3 DEF PodAlreadyExists
<1>4. CASE CreateFails
  BY <1>4 DEF CreateFails
<1>5. CASE TestBeforeWait
  BY <1>5 DEF TestBeforeWait
<1>6. CASE InstallSchedulingEvent
  BY <1>6 DEF InstallSchedulingEvent
<1>7. CASE EndSchedulingWait
  BY <1>7 DEF EndSchedulingWait, ScheduledOrTimeout, DeletedOrTimeout
<1>8. CASE EstimateOrDelete
  BY <1>8 DEF EstimateOrDelete
<1>9. CASE BeginPhase
  BY <1>9 DEF BeginPhase
<1>10. CASE InstallPhaseEvent
  BY <1>10 DEF InstallPhaseEvent
<1>11. CASE EndPhaseWait
  <2>1. timed_out' \in BOOLEAN
    BY <1>11, EndPhaseWaitType
  <2>2. Step("wait_phase", "check") /\ OnlyStates /\ UNCHANGED <<stage, outcome>>
    BY <1>11 DEF EndPhaseWait
  <2> QED BY <2>1, <2>2
<1>12. CASE CheckInterrupt
  BY <1>12 DEF CheckInterrupt
<1>13. CASE RecordResult
  <2>1. pc = "record" /\ OnlyStates /\ UNCHANGED outcome /\ timed_out' = FALSE
    BY <1>13 DEF RecordResult
  <2>2. \/ pc' = "conclude" /\ UNCHANGED stage
        \/ pc' = "phase" /\ stage # 3 /\ stage' = stage + 1
    BY <1>13 DEF RecordResult, FinishStage
  <2>3. timed_out' \in BOOLEAN
    BY <2>1, Zenon
  <2>4. StageOK' /\ stage' \in 1..6 /\ pc' \in WorkerStates
    BY <2>1, <2>2
  <2>5. OnlyStates /\ UNCHANGED outcome
    BY <2>1
  <2> QED BY <2>3, <2>4, <2>5
<1>14. CASE Conclude
  BY <1>14 DEF Conclude
<1>15. CASE FetchLogsRaises
  BY <1>15 DEF FetchLogsRaises
<1>16. CASE Reason
  BY <1>16 DEF Reason
<1>17. CASE BeginDeletion
  BY <1>17 DEF BeginDeletion
<1>18. CASE RequestDeletion
  BY <1>18 DEF RequestDeletion, PodStatuses
<1>19. CASE DeletionFails
  BY <1>19 DEF DeletionFails
<1>20. CASE EndRun
  BY <1>20 DEF EndRun
<1>21. CASE CleanStates
  BY <1>21, CleanTable DEF CleanStates
<1>22. CASE RescheduleOrComplete
  BY <1>22, LifecycleAssumption DEF RescheduleOrComplete, MayReschedule, Runs
<1> QED BY <1>1, <1>2, <1>3, <1>4, <1>5, <1>6, <1>7, <1>8, <1>9, <1>10, <1>11, <1>12, <1>13, <1>14,
           <1>15, <1>16, <1>17, <1>18, <1>19, <1>20, <1>21, <1>22 DEF Worker

LEMMA OthersType ==
  ASSUME TypeInv, [Next]_vars, ~Worker
  PROVE  StateTypes' /\ Scalars' /\ StageOK'
<1> USE DEF StateTypes, Scalars, StageOK, InPhase, TypeInv, TypeOK
<1>1. ASSUME NEW c \in Channels, Deliver(c) PROVE StateTypes' /\ Scalars' /\ StageOK'
  BY <1>1 DEF Deliver, stateVars, workerVars, clusterVars
<1>2. CASE Stop
  BY <1>2 DEF Stop, stateVars, workerVars, clusterVars
<1>3. ASSUME NEW t \in Threads, ThreadStep(t) PROVE StateTypes' /\ Scalars' /\ StageOK'
  <2>1. UNCHANGED <<running, workerVars, clusterVars>>
    BY <1>3 DEF ThreadStep
  <2>2. StateTypes' /\ dead' \in SUBSET Threads
    <3>1. Head(todo[t]) \in Ops
      BY <1>3, ListGet DEF ThreadStep
    <3>2. CASE AddInterrupt(t)
      BY <3>1, <3>2, OpTypes, AddResultType DEF AddInterrupt, Op
    <3>3. CASE FindEvent(t)
      BY <3>3 DEF FindEvent, stateVars
    <3>4. CASE SetEvent(t)
      BY <3>4 DEF SetEvent
    <3> QED BY <1>3, <3>2, <3>3, <3>4 DEF ThreadStep
  <2> QED BY <2>1, <2>2 DEF workerVars, clusterVars
<1>4. CASE ClusterStep \/ ClusterFault
  <2>1. UNCHANGED <<running, stateVars, workerVars, dead>>
    BY <1>4 DEF ClusterStep, ClusterFault, ScheduleOnNode, PullImage, StartContainers, DeletePod,
       ContainerTerminates, KillProcess, ProbeFails, EvictPod, Progress, Fault, Cluster, threadVars
  <2>2. /\ pod' \in [status : PodStatuses, run : Runs]
        /\ reached' \in SUBSET Milestones /\ faults' \in 0..MaxFaults
    <3>1. ClusterStep => UNCHANGED faults /\ (UNCHANGED reached
                           \/ \E to \in Milestones : reached' = reached \cup {to})
      BY DEF ClusterStep, ScheduleOnNode, PullImage, StartContainers, DeletePod, Progress,
         Milestones
    <3>2. ClusterFault => UNCHANGED reached /\ faults < MaxFaults /\ faults' = faults + 1
      BY DEF ClusterFault, ContainerTerminates, KillProcess, ProbeFails, EvictPod, Fault
    <3>3. UNCHANGED pod \/ \E to \in PodStatuses : Becomes(to)
      BY <1>4 DEF ClusterStep, ClusterFault, ScheduleOnNode, PullImage, StartContainers,
         DeletePod, ContainerTerminates, KillProcess, ProbeFails, EvictPod, Progress,
         PodStatuses, Milestones
    <3>4. pod' \in [status : PodStatuses, run : Runs]
      BY <3>3 DEF Becomes
    <3>5. faults' \in 0..MaxFaults
      BY <1>4, <3>1, <3>2, LifecycleAssumption
    <3> QED BY <1>4, <3>1, <3>2, <3>4, <3>5
  <2> QED BY <2>1, <2>2 DEF stateVars, workerVars
<1>5. CASE UNCHANGED vars
  BY <1>5 DEF vars, stateVars, workerVars, clusterVars, threadVars
<1> QED BY <1>1, <1>2, <1>3, <1>4, <1>5 DEF Next, Finished

LEMMA StepType == TypeInv /\ [Next]_vars => TypeInv'
<1> SUFFICES ASSUME TypeInv, [Next]_vars PROVE TypeInv'
  OBVIOUS
<1>1. channel' \in [Channels -> Seq(Events)] /\ todo' \in [Threads -> Seq(Ops)]
  BY QueuesType DEF TypeInv
<1>2. StateTypes' /\ Scalars' /\ StageOK'
  BY WorkerStateTypes, WorkerScalars, OthersType
<1> QED BY <1>1, <1>2 DEF TypeInv, TypeOK, StateTypes, Scalars

(* The variables keep their types.                                         *)
THEOREM TypeCorrect == Spec => []TypeOK
<1>1. TypeInv => TypeOK
  BY DEF TypeInv
<1> QED BY <1>1, InitType, StepType, PTL DEF Spec

-----------------------------------------------------------------------------
(* OwnDeletionNeverInterrupts.  The watcher threads read the phase and the *)
(* results when they deliver an event, and record the interrupt later, so  *)
(* the invariant follows an event of a deletion from the request to the    *)
(* list of the thread: while the run that made it goes on, its deletion has*)
(* begun, either by its phase or because its results are cleaned.          *)

Begun == {"request", "requested", "await_deleted", "wait_deleted", "done", "clean",
          "decide", "finished", "died"}

DeletionBegun ==
  /\ pc \in Begun
  /\ BeingDeleted \/ "POD_SCHEDULED" \notin results["scheduling"]

OwnEventOK(e) ==
  /\ e.run <= pod.run
  /\ e.type = "OOMKilled" => ~e.own
  /\ e.own /\ e.run = reschedules => DeletionBegun

OwnOpOK(op) ==
  op.op = "add" =>
    /\ op.result # "POD_SCHEDULED"
    /\ op.result # "INTERRUPTED_DF_CONTAINER_HEALTH" /\ op.cause.own =>
         op.cause.run < reschedules

DeletionState ==
  /\ pc \in {"request", "requested", "await_deleted", "wait_deleted"} => BeingDeleted
  /\ pc = "clean" /\ stage = 6 => "POD_SCHEDULED" \notin results["scheduling"]
  /\ pod.run <= reschedules
  /\ pod.status = "stopping" /\ pod.run = reschedules => DeletionBegun

DeletionInv ==
  /\ DeletionState
  /\ \A c \in Channels : channel[c] \in Seq({e \in Events : OwnEventOK(e)})
  /\ \A t \in Threads : todo[t] \in Seq({op \in Ops : OwnOpOK(op)})

LEMMA WorkerDeletion ==
  ASSUME TypeInv, DeletionState, Worker
  PROVE  /\ DeletionState'
         /\ DeletionBegun /\ reschedules' = reschedules => DeletionBegun'
         /\ pod.run <= pod'.run
         /\ \/ UNCHANGED reschedules
            \/ RescheduleOrComplete /\ reschedules' = reschedules + 1
<1> USE DEF Step, OnlyStates, NoLocals, TypeInv, TypeOK, StageOK, InPhase, DeletionState,
            DeletionBegun, Begun, BeingDeleted, States, clusterVars, stateVars, Runs
<1>1. CASE StartRun
  BY <1>1 DEF StartRun, AddPhase
<1>2. CASE CreatePod
  BY <1>2 DEF CreatePod
<1>3. CASE PodAlreadyExists
  BY <1>3 DEF PodAlreadyExists, AddResult
<1>4. CASE CreateFails
  BY <1>4 DEF CreateFails, AddResult
<1>5. CASE TestBeforeWait
  BY <1>5 DEF TestBeforeWait
<1>6. CASE InstallSchedulingEvent
  BY <1>6 DEF InstallSchedulingEvent
<1>7. CASE EndSchedulingWait
  BY <1>7 DEF EndSchedulingWait, ScheduledOrTimeout, DeletedOrTimeout, AddResult
<1>8. CASE EstimateOrDelete
  BY <1>8 DEF EstimateOrDelete
<1>9. CASE BeginPhase
  BY <1>9 DEF BeginPhase, AddPhase
<1>10. CASE InstallPhaseEvent
  BY <1>10 DEF InstallPhaseEvent
<1>11. CASE EndPhaseWait
  BY <1>11 DEF EndPhaseWait
<1>12. CASE CheckInterrupt
  BY <1>12 DEF CheckInterrupt
<1>13. CASE RecordResult
  BY <1>13 DEF RecordResult, AddResult
<1>14. CASE Conclude
  BY <1>14 DEF Conclude, AddResult
<1>15. CASE FetchLogsRaises
  BY <1>15 DEF FetchLogsRaises
<1>16. CASE Reason
  BY <1>16 DEF Reason
<1>17. CASE BeginDeletion
  BY <1>17 DEF BeginDeletion, AddPhase
<1>18. CASE RequestDeletion
  BY <1>18 DEF RequestDeletion
<1>19. CASE DeletionFails
  BY <1>19 DEF DeletionFails, AddResult
<1>20. CASE EndRun
  BY <1>20 DEF EndRun
<1>21. CASE CleanStates
  BY <1>21, CleanTable DEF CleanStates, CleanEvents, CleanResults, CleanPhases
<1>22. CASE RescheduleOrComplete
  BY <1>22 DEF RescheduleOrComplete
<1> QED BY <1>1, <1>2, <1>3, <1>4, <1>5, <1>6, <1>7, <1>8, <1>9, <1>10, <1>11, <1>12, <1>13, <1>14,
           <1>15, <1>16, <1>17, <1>18, <1>19, <1>20, <1>21, <1>22 DEF Worker

LEMMA OthersDeletion ==
  ASSUME TypeInv, DeletionInv, [Next]_vars, ~Worker
  PROVE  /\ DeletionState'
         /\ DeletionBegun => DeletionBegun'
         /\ pod'.run = pod.run
         /\ UNCHANGED <<workerVars, phase>>
<1>1. UNCHANGED <<workerVars, phase>>
  BY DEF Next, Finished, vars, Deliver, Stop, ThreadStep, AddInterrupt, FindEvent, SetEvent,
     ClusterStep, ClusterFault, ScheduleOnNode, PullImage, StartContainers, DeletePod,
     ContainerTerminates, KillProcess, ProbeFails, EvictPod, Progress, Fault, Cluster, stateVars
<1>2. /\ pod'.run = pod.run
      /\ pod'.status = "stopping" => pod.status = "stopping"
  BY DEF Next, Finished, vars, Deliver, Stop, ThreadStep, ClusterStep, ClusterFault,
     ScheduleOnNode, PullImage, StartContainers, DeletePod, ContainerTerminates, KillProcess,
     ProbeFails, EvictPod, Progress, Fault, Becomes, clusterVars, TypeInv, TypeOK
<1>3. "POD_SCHEDULED" \in results'["scheduling"] => "POD_SCHEDULED" \in results["scheduling"]
  <2>1. ASSUME NEW t \in Threads, ThreadStep(t), AddInterrupt(t)
        PROVE  "POD_SCHEDULED" \in results'["scheduling"] =>
                 "POD_SCHEDULED" \in results["scheduling"]
    <3>1. Head(todo[t]) \in {op \in Ops : OwnOpOK(op)}
      BY <2>1, ListGet DEF ThreadStep, DeletionInv
    <3>2. Op(t).result # "POD_SCHEDULED"
      BY <2>1, <3>1 DEF OwnOpOK, AddInterrupt, Op
    <3> QED BY <2>1, <3>2 DEF AddInterrupt, AddResult, TypeInv, TypeOK, States
  <2>2. CASE UNCHANGED results
    BY <2>2
  <2> QED BY <2>1, <2>2
          DEF Next, Finished, vars, Deliver, Stop, ThreadStep, FindEvent, SetEvent,
              ClusterStep, ClusterFault, ScheduleOnNode, PullImage, StartContainers, DeletePod,
              ContainerTerminates, KillProcess, ProbeFails, EvictPod, Progress, Fault, Cluster,
              stateVars
<1> QED BY <1>1, <1>2, <1>3
        DEF DeletionInv, DeletionState, DeletionBegun, BeingDeleted, workerVars

(* What the deletion leaves a channel and a thread as they were            *)
LEMMA OwnKept ==
  ASSUME TypeInv, DeletionInv, [Next]_vars
  PROVE  /\ DeletionState'
         /\ \A e \in Events : OwnEventOK(e) => OwnEventOK(e)'
         /\ \A op \in Ops : OwnOpOK(op) => OwnOpOK(op)'
<1>1. CASE Worker
  <2>1. /\ DeletionState'
        /\ DeletionBegun /\ reschedules' = reschedules => DeletionBegun'
        /\ pod.run <= pod'.run
        /\ reschedules' = reschedules \/ reschedules' = reschedules + 1
    BY <1>1, WorkerDeletion DEF DeletionInv
  <2>2. pod.run \in Nat /\ pod'.run \in Nat /\ reschedules \in Nat /\ pod.run <= reschedules
    BY StepType DEF DeletionInv, DeletionState, TypeInv, TypeOK, Runs
  <2>3. ASSUME NEW e \in Events, OwnEventOK(e) PROVE OwnEventOK(e)'
    <3>1. e.run \in Nat
      BY DEF Events, Runs
    <3> QED BY <2>1, <2>2, <2>3, <3>1 DEF OwnEventOK
  <2>4. ASSUME NEW op \in Ops, OwnOpOK(op) PROVE OwnOpOK(op)'
    <3>1. op.op = "add" => op.cause.run \in Nat
      BY DEF Ops, Events, Runs
    <3> QED BY <2>1, <2>2, <2>4, <3>1 DEF OwnOpOK
  <2> QED BY <2>1, <2>3, <2>4
<1>2. CASE ~Worker
  BY <1>2, OthersDeletion DEF OwnEventOK, OwnOpOK, workerVars
<1> QED BY <1>1, <1>2

LEMMA OwnEmitted ==
  ASSUME TypeInv, DeletionInv, NEW type \in EventTypes,
         type = "OOMKilled" => pod.status # "stopping"
  PROVE  Event(type) \in {e \in Events : OwnEventOK(e)}
<1>1. Event(type) \in Events
  BY EventType DEF TypeInv
<1>2. /\ Event(type).type = type /\ Event(type).run = pod.run
      /\ Event(type).own <=> pod.status = "stopping"
  BY DEF Event
<1>3. pod.run <= pod.run
  BY DEF TypeInv, TypeOK, Runs
<1> QED BY <1>1, <1>2, <1>3 DEF OwnEventOK, DeletionInv, DeletionState

LEMMA OwnReaction ==
  ASSUME TypeInv, DeletionInv, NEW e \in Events, OwnEventOK(e)
  PROVE  Reaction(e) \in Seq({op \in Ops : OwnOpOK(op)})
<1> DEFINE S == {op \in Ops : OwnOpOK(op)}
<1>1. Awaited(e)[1] \in States /\ "estimation" \in States
  BY DEF Awaited, States
<1>2. Wake(Awaited(e)[1]) \in S /\ Wake("estimation") \in S
  BY <1>1, OpTypes DEF OwnOpOK, Wake
<1>3. ASSUME Interrupting(e) PROVE Add("estimation", InterruptOf(e), e) \in S
  <2>1. InterruptOf(e) \in ResultTypes
    BY DEF InterruptOf, ResultTypes, Interrupts, RescheduleReasons
  <2>2. Add("estimation", InterruptOf(e), e) \in Ops
    BY <1>1, <2>1, OpTypes
  <2>3. InterruptOf(e) # "POD_SCHEDULED"
    BY DEF InterruptOf
  <2>4. ASSUME InterruptOf(e) # "INTERRUPTED_DF_CONTAINER_HEALTH", e.own
        PROVE  e.run < reschedules
    <3>1. e.type # "Unhealthy"
      BY <2>4 DEF InterruptOf
    <3>2. e.type # "OOMKilled"
      BY <2>4 DEF OwnEventOK
    <3>3. ~DeletionBegun
      BY <1>3, <3>1, <3>2 DEF Interrupting, Unexpected, DeletionBegun
    <3> QED BY <2>4, <3>3 DEF OwnEventOK, DeletionInv, DeletionState, Events, Runs, TypeInv, TypeOK
  <2> QED BY <2>2, <2>3, <2>4 DEF OwnOpOK, Add
<1>4. <<>> \in Seq(S)
  OBVIOUS
<1>5. <<Wake(Awaited(e)[1])>> \in Seq(S)
  BY <1>2
<1>6. ASSUME Interrupting(e)
      PROVE  <<Add("estimation", InterruptOf(e), e), Wake("estimation")>> \in Seq(S)
  BY <1>2, <1>3, <1>6
<1> QED BY <1>4, <1>5, <1>6 DEF Reaction

LEMMA StopOpsIn ==
  ASSUME NEW S, Add("scheduling", "INTERRUPTED_STOP", NoEvent) \in S, Wake("scheduling") \in S,
         Add("estimation", "INTERRUPTED_STOP", NoEvent) \in S, Wake("estimation") \in S
  PROVE  StopOps \in Seq(S)
BY DEF StopOps

LEMMA StepDeletion ==
  ASSUME TypeInv, DeletionInv, [Next]_vars
  PROVE  DeletionInv'
<1> DEFINE E == {e \in Events : OwnEventOK(e)}
           O == {op \in Ops : OwnOpOK(op)}
<1>1. E \subseteq {e \in Events : OwnEventOK(e)'} /\ O \subseteq {op \in Ops : OwnOpOK(op)'}
  BY OwnKept
<1>2. ASSUME NEW c \in Channels PROVE channel'[c] \in Seq({e \in Events : OwnEventOK(e)'})
  <2>1. channel[c] \in Seq(E)
    BY DEF DeletionInv
  <2>2. /\ Event("Scheduled") \in E /\ Event("Pulled") \in E /\ Event("ContainersStarted") \in E
        /\ Event("Terminated") \in E /\ Event("Unhealthy") \in E /\ Event("PodDeleted") \in E
        /\ KillProcess => Event("OOMKilled") \in E
    BY OwnEmitted DEF EventTypes, KillProcess
  <2>3. channel'[c] \in Seq(E)
    BY <2>1, <2>2, ChannelStep DEF TypeInv
  <2> QED BY <1>1, <2>3, ListGrows
<1>3. ASSUME NEW t \in Threads PROVE todo'[t] \in Seq({op \in Ops : OwnOpOK(op)'})
  <2>1. todo[t] \in Seq(O)
    BY DEF DeletionInv
  <2>2. \A op \in O : op.op = "find" => [op EXCEPT !.op = "set"] \in O
    <3>1. \A op \in Ops : op.op = "find" => [op EXCEPT !.op = "set"].op = "set"
      BY DEF Ops
    <3> QED BY <3>1, OpTypes DEF OwnOpOK
  <2>3. /\ "INTERRUPTED_STOP" \in ResultTypes /\ "METRICS_COLLECTED" \in ResultTypes
        /\ "scheduling" \in States /\ "estimation" \in States
    BY DEF ResultTypes, Interrupts, States
  <2>4. MetricsOp \in O
    BY <2>3, OpTypes, NoEventType DEF MetricsOp, OwnOpOK, Add, NoEvent
  <2>5. StopOps \in Seq(O)
    <3>1. /\ Add("scheduling", "INTERRUPTED_STOP", NoEvent) \in O
          /\ Add("estimation", "INTERRUPTED_STOP", NoEvent) \in O
      BY <2>3, OpTypes, NoEventType DEF OwnOpOK, Add, NoEvent
    <3>2. Wake("scheduling") \in O /\ Wake("estimation") \in O
      BY <2>3, OpTypes DEF OwnOpOK, Wake
    <3> QED BY <3>1, <3>2, StopOpsIn
  <2>6. ASSUME NEW c \in Channels, Deliver(c) PROVE Reaction(Head(channel[c])) \in Seq(O)
    <3>1. Head(channel[c]) \in E
      BY <2>6, ListGet DEF Deliver, DeletionInv
    <3> QED BY <3>1, OwnReaction
  <2>7. todo'[t] \in Seq(O)
    BY <2>1, <2>2, <2>4, <2>5, <2>6, TodoStep DEF TypeInv
  <2> QED BY <1>1, <2>7, ListGrows
<1> QED BY <1>2, <1>3, OwnKept DEF DeletionInv

(* The checks of the phase in PodCallback.callback keep the events of the  *)
(* deletion a run asked for from interrupting that run.                    *)
THEOREM DeletionSafe == Spec => []OwnDeletionNeverInterrupts
<1>1. Init => DeletionInv
  BY LifecycleAssumption
     DEF Init, DeletionInv, DeletionState
<1>2. TypeInv /\ DeletionInv => OwnDeletionNeverInterrupts
  <2> SUFFICES ASSUME DeletionInv, NEW t \in Threads, NEW i \in DOMAIN todo[t],
                      todo[t][i].op = "add",
                      todo[t][i].result # "INTERRUPTED_DF_CONTAINER_HEALTH", todo[t][i].cause.own
               PROVE  todo[t][i].cause.run < reschedules
    BY DEF OwnDeletionNeverInterrupts
  <2>1. todo[t] \in Seq({op \in Ops : OwnOpOK(op)})
    BY DEF DeletionInv
  <2>2. todo[t][i] \in {op \in Ops : OwnOpOK(op)}
    BY <2>1, ListElement
  <2> QED BY <2>2 DEF OwnOpOK
<1>3. TypeInv /\ DeletionInv /\ [Next]_vars => DeletionInv'
  BY StepDeletion
<1> QED BY <1>1, <1>2, <1>3, InitType, StepType, PTL DEF Spec

-----------------------------------------------------------------------------
(* ScheduledIsReal.  Whoever is about to set the Event of the scheduling   *)
(* state in the first run does so for a pod that was scheduled, or too late*)
(* for the wait to see it.                                                 *)

Reached == "scheduled" \in reached
FirstRun == running /\ reschedules = 0

ScheduledState ==
  /\ BeingDeleted => pc \in Begun
  /\ IsSet("scheduling") => Reached \/ pc \in Begun
  /\ "POD_SCHEDULED" \in results["scheduling"] => Reached

ScheduledEventOK(e) == e.type = "Scheduled" => Reached

ScheduledOpOK(op) ==
  op.op \in {"find", "set"} /\ op.state = "scheduling" => Reached \/ pc \in Begun

ScheduledInv ==
  FirstRun =>
    /\ ScheduledState
    /\ \A c \in Channels : channel[c] \in Seq({e \in Events : ScheduledEventOK(e)})
    /\ \A t \in Threads : todo[t] \in Seq({op \in Ops : ScheduledOpOK(op)})

LEMMA WorkerScheduled ==
  ASSUME TypeInv, DeletionInv, ScheduledState, FirstRun, FirstRun', Worker
  PROVE  ScheduledState' /\ (Reached => Reached') /\ (pc \in Begun => pc' \in Begun)
<1> USE DEF Step, OnlyStates, NoLocals, TypeInv, TypeOK, StageOK, InPhase, ScheduledState, IsSet,
            Begun, BeingDeleted, States, clusterVars, stateVars, Runs, Reached, FirstRun
<1>1. CASE StartRun
  BY <1>1 DEF StartRun, AddPhase
<1>2. CASE CreatePod
  BY <1>2 DEF CreatePod, DeletionInv, DeletionState
<1>3. CASE PodAlreadyExists
  BY <1>3 DEF PodAlreadyExists, AddResult
<1>4. CASE CreateFails
  BY <1>4 DEF CreateFails, AddResult
<1>5. CASE TestBeforeWait
  BY <1>5 DEF TestBeforeWait
<1>6. CASE InstallSchedulingEvent
  BY <1>6 DEF InstallSchedulingEvent, InstallEvent
<1>7. CASE EndSchedulingWait
  BY <1>7 DEF EndSchedulingWait, ScheduledOrTimeout, DeletedOrTimeout, AddResult
<1>8. CASE EstimateOrDelete
  BY <1>8 DEF EstimateOrDelete
<1>9. CASE BeginPhase
  BY <1>9 DEF BeginPhase, AddPhase
<1>10. CASE InstallPhaseEvent
  BY <1>10 DEF InstallPhaseEvent, InstallEvent
<1>11. CASE EndPhaseWait
  BY <1>11 DEF EndPhaseWait
<1>12. CASE CheckInterrupt
  BY <1>12 DEF CheckInterrupt
<1>13. CASE RecordResult
  BY <1>13 DEF RecordResult, AddResult
<1>14. CASE Conclude
  BY <1>14 DEF Conclude, AddResult
<1>15. CASE FetchLogsRaises
  BY <1>15 DEF FetchLogsRaises
<1>16. CASE Reason
  BY <1>16 DEF Reason
<1>17. CASE BeginDeletion
  BY <1>17 DEF BeginDeletion, AddPhase
<1>18. CASE RequestDeletion
  BY <1>18 DEF RequestDeletion
<1>19. CASE DeletionFails
  BY <1>19 DEF DeletionFails, AddResult
<1>20. CASE EndRun
  BY <1>20 DEF EndRun
<1>21. CASE CleanStates
  BY <1>21, CleanTable DEF CleanStates, CleanEvents, CleanResults, CleanPhases
<1>22. CASE RescheduleOrComplete
  BY <1>22 DEF RescheduleOrComplete
<1> QED BY <1>1, <1>2, <1>3, <1>4, <1>5, <1>6, <1>7, <1>8, <1>9, <1>10, <1>11, <1>12, <1>13, <1>14,
           <1>15, <1>16, <1>17, <1>18, <1>19, <1>20, <1>21, <1>22 DEF Worker

LEMMA OthersScheduled ==
  ASSUME TypeInv, DeletionInv, ScheduledInv, FirstRun, FirstRun', [Next]_vars, ~Worker
  PROVE  ScheduledState' /\ (Reached => Reached') /\ (pc \in Begun => pc' \in Begun)
<1>1. Reached => Reached'
  BY DEF Next, Finished, vars, Deliver, Stop, ThreadStep, ClusterStep, ClusterFault,
     ScheduleOnNode, PullImage, StartContainers, DeletePod, ContainerTerminates, KillProcess,
     ProbeFails, EvictPod, Progress, Fault, clusterVars, Reached
<1>2. UNCHANGED <<pc, phase>>
  BY OthersDeletion DEF workerVars
<1>3. ASSUME NEW t \in Threads, ThreadStep(t) PROVE ScheduledState'
  <2>1. Head(todo[t]) \in {op \in Ops : ScheduledOpOK(op)}
    BY <1>3, ListGet DEF ThreadStep, ScheduledInv
  <2>2. Head(todo[t]) \in {op \in Ops : OwnOpOK(op)}
    BY <1>3, ListGet DEF ThreadStep, DeletionInv
  <2>3. UNCHANGED <<reached>>
    BY <1>3 DEF ThreadStep, clusterVars
  <2> USE <1>2, <2>3 DEF ScheduledState, IsSet, BeingDeleted, Reached, TypeInv, TypeOK, States
  <2>4. CASE AddInterrupt(t)
    BY <2>2, <2>4 DEF AddInterrupt, AddResult, Op, OwnOpOK, ScheduledInv, Ops
  <2>5. CASE FindEvent(t)
    BY <2>5 DEF FindEvent, stateVars, ScheduledInv
  <2>6. CASE SetEvent(t)
    BY <2>1, <2>6 DEF SetEvent, Op, ScheduledOpOK, ScheduledInv, Ops
  <2> QED BY <1>3, <2>4, <2>5, <2>6 DEF ThreadStep
<1>4. CASE UNCHANGED stateVars
  BY <1>1, <1>2, <1>4 DEF ScheduledInv, ScheduledState, IsSet, BeingDeleted, stateVars
<1> QED BY <1>1, <1>2, <1>3, <1>4
        DEF Next, Finished, vars, Deliver, Stop, ClusterStep, ClusterFault, ScheduleOnNode,
            PullImage, StartContainers, DeletePod, ContainerTerminates, KillProcess, ProbeFails,
            EvictPod, Progress, Fault, Cluster

LEMMA FirstRunBefore ==
  ASSUME TypeInv, [Next]_vars, FirstRun'
  PROVE  FirstRun
<1>1. running' => running
  BY DEF Next, vars, Worker, StartRun, CreatePod, PodAlreadyExists, CreateFails,
     TestBeforeWait, InstallSchedulingEvent, EndSchedulingWait, EstimateOrDelete,
     BeginPhase, InstallPhaseEvent, EndPhaseWait, CheckInterrupt, RecordResult, Conclude,
     FetchLogsRaises, Reason, BeginDeletion, RequestDeletion, DeletionFails, EndRun,
     CleanStates, RescheduleOrComplete, OnlyStates, Deliver, ThreadStep, Stop, ClusterStep,
     ClusterFault, ScheduleOnNode, PullImage, StartContainers, DeletePod, ContainerTerminates,
     KillProcess, ProbeFails, EvictPod, Progress, Fault, Cluster, Finished
<1>2. reschedules' = reschedules \/ reschedules' = reschedules + 1
  BY DEF Next, vars, Worker, StartRun, CreatePod, PodAlreadyExists, CreateFails,
     TestBeforeWait, InstallSchedulingEvent, EndSchedulingWait, EstimateOrDelete,
     BeginPhase, InstallPhaseEvent, EndPhaseWait, CheckInterrupt, RecordResult, Conclude,
     FetchLogsRaises, Reason, BeginDeletion, RequestDeletion, DeletionFails, EndRun,
     CleanStates, RescheduleOrComplete, OnlyStates, Deliver, ThreadStep, Stop, ClusterStep,
     ClusterFault, ScheduleOnNode, PullImage, StartContainers, DeletePod, ContainerTerminates,
     KillProcess, ProbeFails, EvictPod, Progress, Fault, Cluster, Finished, workerVars
<1> QED BY <1>1, <1>2 DEF FirstRun, TypeInv, TypeOK, Runs

LEMMA ScheduledReaction ==
  ASSUME ScheduledState, NEW e \in Events, ScheduledEventOK(e)
  PROVE  Reaction(e) \in Seq({op \in Ops : ScheduledOpOK(op)})
<1> DEFINE S == {op \in Ops : ScheduledOpOK(op)}
<1>1. Awaited(e)[1] \in States /\ "estimation" \in States /\ InterruptOf(e) \in ResultTypes
  BY DEF Awaited, States, InterruptOf, ResultTypes, Interrupts, RescheduleReasons
<1>2. Wake("estimation") \in S /\ Add("estimation", InterruptOf(e), e) \in S
  BY <1>1, OpTypes DEF ScheduledOpOK, Wake, Add
<1>3. ASSUME EndsWait(e) PROVE Wake(Awaited(e)[1]) \in S
  <2>1. Wake(Awaited(e)[1]) \in Ops
    BY <1>1, OpTypes
  <2>2. e.type = "Scheduled" => Reached
    BY DEF ScheduledEventOK
  <2>3. e.type = "PodDeleted" => pc \in Begun
    BY <1>3 DEF EndsWait, Awaited, ScheduledState, BeingDeleted
  <2>4. e.type \notin {"Scheduled", "PodDeleted"} => Awaited(e)[1] = "estimation"
    BY DEF Awaited
  <2> QED BY <2>1, <2>2, <2>3, <2>4 DEF ScheduledOpOK, Wake
<1>4. <<>> \in Seq(S)
  OBVIOUS
<1>5. ASSUME EndsWait(e) PROVE <<Wake(Awaited(e)[1])>> \in Seq(S)
  BY <1>3, <1>5
<1>6. <<Add("estimation", InterruptOf(e), e), Wake("estimation")>> \in Seq(S)
  BY <1>2
<1> QED BY <1>4, <1>5, <1>6 DEF Reaction

LEMMA StepScheduled ==
  ASSUME TypeInv, DeletionInv, ScheduledInv, [Next]_vars
  PROVE  ScheduledInv'
<1> SUFFICES ASSUME FirstRun'
             PROVE  /\ ScheduledState'
                    /\ \A c \in Channels :
                         channel'[c] \in Seq({e \in Events : ScheduledEventOK(e)'})
                    /\ \A t \in Threads :
                         todo'[t] \in Seq({op \in Ops : ScheduledOpOK(op)'})
  BY DEF ScheduledInv
<1>1. FirstRun /\ ScheduledState
  BY FirstRunBefore DEF ScheduledInv
<1>2. ScheduledState' /\ (Reached => Reached') /\ (pc \in Begun => pc' \in Begun)
  BY <1>1, WorkerScheduled, OthersScheduled
<1> DEFINE E == {e \in Events : ScheduledEventOK(e)'}
           O == {op \in Ops : ScheduledOpOK(op)}
<1>3. ASSUME NEW c \in Channels PROVE channel'[c] \in Seq(E)
  <2>1. {e \in Events : ScheduledEventOK(e)} \subseteq E
    BY <1>2 DEF ScheduledEventOK
  <2>2. channel[c] \in Seq({e \in Events : ScheduledEventOK(e)})
    BY <1>1 DEF ScheduledInv
  <2>3. channel[c] \in Seq(E)
    BY <2>1, <2>2, ListGrows
  <2>4. /\ Event("Pulled") \in E /\ Event("ContainersStarted") \in E
        /\ Event("Terminated") \in E /\ Event("Unhealthy") \in E /\ Event("PodDeleted") \in E
        /\ Event("OOMKilled") \in E
    BY EventType DEF ScheduledEventOK, Event, EventTypes, TypeInv
  <2>5. ScheduleOnNode => Event("Scheduled") \in E
    BY EventType DEF ScheduledEventOK, EventTypes, TypeInv, ScheduleOnNode, Progress, Reached
  <2> QED BY <2>3, <2>4, <2>5, ChannelStep DEF TypeInv
<1>4. ASSUME NEW t \in Threads PROVE todo'[t] \in Seq({op \in Ops : ScheduledOpOK(op)'})
  <2>1. todo[t] \in Seq(O)
    BY <1>1 DEF ScheduledInv
  <2>2. \A op \in O : op.op = "find" => [op EXCEPT !.op = "set"] \in O
    <3>1. \A op \in Ops : op.op = "find" => [op EXCEPT !.op = "set"].state = op.state
      BY DEF Ops
    <3> QED BY <3>1, OpTypes DEF ScheduledOpOK
  <2>3. MetricsOp \in O
    <3>1. "METRICS_COLLECTED" \in ResultTypes /\ "estimation" \in States
      BY DEF ResultTypes, States
    <3> QED BY <3>1, OpTypes, NoEventType DEF MetricsOp, ScheduledOpOK, Add
  <2>4. ~Stop
    BY DEF FirstRun, Stop
  <2>5. ASSUME NEW c \in Channels, Deliver(c) PROVE Reaction(Head(channel[c])) \in Seq(O)
    <3>1. Head(channel[c]) \in {e \in Events : ScheduledEventOK(e)}
      BY <1>1, <2>5, ListGet DEF Deliver, ScheduledInv
    <3> QED BY <1>1, <3>1, ScheduledReaction
  <2>6. todo'[t] \in Seq(O)
    BY <2>1, <2>2, <2>3, <2>4, <2>5, TodoStep DEF TypeInv
  <2>7. O \subseteq {op \in Ops : ScheduledOpOK(op)'}
    BY <1>2 DEF ScheduledOpOK
  <2> QED BY <2>6, <2>7, ListGrows
<1> QED BY <1>2, <1>3, <1>4

(* While the scheduler runs, the first run records POD_SCHEDULED only for  *)
(* a pod that the cluster scheduled, although any thread can set the Event *)
(* that says so.                                                           *)
THEOREM ScheduledSafe == Spec => []ScheduledIsReal
<1>1. Init => DeletionInv /\ ScheduledInv
  BY LifecycleAssumption
     DEF Init, DeletionInv, DeletionState, ScheduledInv, ScheduledState, BeingDeleted, IsSet, States
<1>2. ScheduledInv => ScheduledIsReal
  BY DEF ScheduledInv, ScheduledState, ScheduledIsReal, FirstRun, Reached
<1> QED BY <1>1, <1>2, InitType, StepType, StepDeletion, StepScheduled, PTL DEF Spec

-----------------------------------------------------------------------------
(* HealthyPodNotRescheduled.  Without a fault there is only the first run, *)
(* the terminations on their way are those of its deletion, and nobody is  *)
(* about to record a reason to reschedule.                                 *)

HealthyState ==
  /\ reschedules = 0
  /\ outcome # "reschedule"
  /\ results["estimation"] \cap RescheduleReasons = {}

HealthyEventOK(e) ==
  /\ e.type \notin {"Unhealthy", "OOMKilled"}
  /\ e.type \in {"Terminated", "PodDeleted"} => e.own

HealthyOpOK(op) == op.op = "add" => op.result \notin RescheduleReasons

HealthyInv ==
  faults = 0 =>
    /\ HealthyState
    /\ \A c \in Channels : channel[c] \in Seq({e \in Events : HealthyEventOK(e)})
    /\ \A t \in Threads : todo[t] \in Seq({op \in Ops : HealthyOpOK(op)})

LEMMA WorkerHealthy ==
  ASSUME TypeInv, HealthyState, Worker
  PROVE  HealthyState'
<1> USE DEF OnlyStates, NoLocals, TypeInv, TypeOK, HealthyState, States, stateVars
<1>1. CASE StartRun
  BY <1>1 DEF StartRun
<1>2. CASE CreatePod
  BY <1>2 DEF CreatePod
<1>3. CASE PodAlreadyExists
  BY <1>3 DEF PodAlreadyExists, AddResult
<1>4. CASE CreateFails
  BY <1>4 DEF CreateFails, AddResult
<1>5. CASE TestBeforeWait
  BY <1>5 DEF TestBeforeWait
<1>6. CASE InstallSchedulingEvent
  BY <1>6 DEF InstallSchedulingEvent
<1>7. CASE EndSchedulingWait
  BY <1>7 DEF EndSchedulingWait, ScheduledOrTimeout, DeletedOrTimeout, AddResult
<1>8. CASE EstimateOrDelete
  BY <1>8 DEF EstimateOrDelete
<1>9. CASE BeginPhase
  BY <1>9 DEF BeginPhase
<1>10. CASE InstallPhaseEvent
  BY <1>10 DEF InstallPhaseEvent
<1>11. CASE EndPhaseWait
  BY <1>11 DEF EndPhaseWait
<1>12. CASE CheckInterrupt
  BY <1>12 DEF CheckInterrupt
<1>13. CASE RecordResult
  <2>1. Stages[stage].result \notin RescheduleReasons
    BY <1>13, StageTable DEF RecordResult, StageOK, InPhase, RescheduleReasons
  <2>2. "INTERRUPTED_TIMEOUT" \notin RescheduleReasons
    BY DEF RescheduleReasons
  <2> QED BY <1>13, <2>1, <2>2 DEF RecordResult, AddResult
<1>14. CASE Conclude
  <2>1. "COLLECTING_METRICS" \notin RescheduleReasons
    BY DEF RescheduleReasons
  <2> QED BY <1>14, <2>1 DEF Conclude, AddResult
<1>15. CASE FetchLogsRaises
  BY <1>15 DEF FetchLogsRaises
<1>16. CASE Reason
  BY <1>16 DEF Reason
<1>17. CASE BeginDeletion
  BY <1>17 DEF BeginDeletion
<1>18. CASE RequestDeletion
  BY <1>18 DEF RequestDeletion
<1>19. CASE DeletionFails
  BY <1>19 DEF DeletionFails, AddResult
<1>20. CASE EndRun
  BY <1>20 DEF EndRun
<1>21. CASE CleanStates
  BY <1>21, CleanTable DEF CleanStates, CleanEvents, CleanResults, CleanPhases
<1>22. CASE RescheduleOrComplete
  BY <1>22 DEF RescheduleOrComplete, MayReschedule
<1> QED BY <1>1, <1>2, <1>3, <1>4, <1>5, <1>6, <1>7, <1>8, <1>9, <1>10, <1>11, <1>12, <1>13, <1>14,
           <1>15, <1>16, <1>17, <1>18, <1>19, <1>20, <1>21, <1>22 DEF Worker

LEMMA OthersHealthy ==
  ASSUME TypeInv, faults = 0, HealthyInv, [Next]_vars, ~Worker
  PROVE  HealthyState'
<1>1. ASSUME NEW t \in Threads, ThreadStep(t) PROVE HealthyState'
  <2>1. Head(todo[t]) \in {op \in Ops : HealthyOpOK(op)}
    BY <1>1, ListGet DEF ThreadStep, HealthyInv
  <2>2. UNCHANGED <<reschedules, outcome>>
    BY <1>1 DEF ThreadStep, workerVars
  <2>3. results'["estimation"] \cap RescheduleReasons = {}
    <3>1. CASE AddInterrupt(t)
      BY <2>1, <3>1 DEF AddInterrupt, AddResult, Op, HealthyOpOK, HealthyInv, HealthyState, Ops,
         TypeInv, TypeOK, States
    <3>2. CASE UNCHANGED results
      BY <3>2 DEF HealthyInv, HealthyState
    <3> QED BY <1>1, <3>1, <3>2 DEF ThreadStep, FindEvent, SetEvent, stateVars
  <2> QED BY <2>2, <2>3 DEF HealthyInv, HealthyState
<1>2. CASE UNCHANGED <<stateVars, workerVars>>
  BY <1>2 DEF HealthyInv, HealthyState, stateVars, workerVars
<1> QED BY <1>1, <1>2
        DEF Next, Finished, vars, Deliver, Stop, ClusterStep, ClusterFault, ScheduleOnNode,
            PullImage, StartContainers, DeletePod, ContainerTerminates, KillProcess, ProbeFails,
            EvictPod, Progress, Fault, Cluster

LEMMA NoFaultBefore ==
  ASSUME TypeInv, [Next]_vars, faults' = 0
  PROVE  faults = 0 /\ ~ClusterFault
<1>1. faults' = faults \/ (ClusterFault /\ faults' = faults + 1)
  BY DEF Next, vars, Worker, StartRun, CreatePod, PodAlreadyExists, CreateFails,
     TestBeforeWait, InstallSchedulingEvent, EndSchedulingWait, EstimateOrDelete,
     BeginPhase, InstallPhaseEvent, EndPhaseWait, CheckInterrupt, RecordResult, Conclude,
     FetchLogsRaises, Reason, BeginDeletion, RequestDeletion, DeletionFails, EndRun,
     CleanStates, RescheduleOrComplete, OnlyStates, Deliver, ThreadStep, Stop, ClusterStep,
     ClusterFault, ScheduleOnNode, PullImage, StartContainers, DeletePod, ContainerTerminates,
     KillProcess, ProbeFails, EvictPod, Progress, Fault, Cluster, Finished, clusterVars
<1>2. ClusterFault => faults' = faults + 1
  BY DEF ClusterFault, ContainerTerminates, KillProcess, ProbeFails, EvictPod, Fault
<1>3. faults \in Nat
  BY LifecycleAssumption DEF TypeInv, TypeOK
<1> QED BY <1>1, <1>2, <1>3

LEMMA HealthyReaction ==
  ASSUME TypeInv, DeletionInv, HealthyState, NEW e \in Events, HealthyEventOK(e), OwnEventOK(e)
  PROVE  Reaction(e) \in Seq({op \in Ops : HealthyOpOK(op)})
<1> DEFINE S == {op \in Ops : HealthyOpOK(op)}
<1>1. Awaited(e)[1] \in States
  BY DEF Awaited, States
<1>2. Wake(Awaited(e)[1]) \in S
  BY <1>1, OpTypes DEF HealthyOpOK, Wake
<1>3. ~Interrupting(e)
  <2>1. e.run \in Nat /\ pod.run <= reschedules /\ reschedules = 0
        /\ pod.run \in Nat /\ e.run <= pod.run
    BY DEF Events, Runs, DeletionInv, DeletionState, HealthyState, OwnEventOK, TypeInv, TypeOK
  <2>2. e.run = reschedules
    BY <2>1
  <2>3. ~Unexpected(e)
    BY <2>2 DEF HealthyEventOK, OwnEventOK, Unexpected, DeletionBegun
  <2> QED BY <2>3 DEF Interrupting, HealthyEventOK
<1>4. <<>> \in Seq(S)
  OBVIOUS
<1>5. <<Wake(Awaited(e)[1])>> \in Seq(S)
  BY <1>2
<1> QED BY <1>3, <1>4, <1>5 DEF Reaction

LEMMA StepHealthy ==
  ASSUME TypeInv, DeletionInv, HealthyInv, [Next]_vars
  PROVE  HealthyInv'
<1> DEFINE E == {e \in Events : HealthyEventOK(e)}
           O == {op \in Ops : HealthyOpOK(op)}
<1> SUFFICES ASSUME faults' = 0
             PROVE  /\ HealthyState'
                    /\ \A c \in Channels : channel'[c] \in Seq(E)
                    /\ \A t \in Threads : todo'[t] \in Seq(O)
  BY DEF HealthyInv, HealthyEventOK, HealthyOpOK
<1>1. faults = 0 /\ ~ClusterFault /\ HealthyState
  BY NoFaultBefore DEF HealthyInv
<1>2. HealthyState'
  BY <1>1, WorkerHealthy, OthersHealthy
<1>3. ASSUME NEW c \in Channels PROVE channel'[c] \in Seq(E)
  <2>1. channel[c] \in Seq(E)
    BY <1>1 DEF HealthyInv
  <2>2. \A type \in EventTypes : Event(type) \in Events /\ Event(type).type = type
                                 /\ (pod.status = "stopping" => Event(type).own)
    BY EventType DEF Event, TypeInv
  <2>3. /\ Event("Scheduled") \in E /\ Event("Pulled") \in E /\ Event("ContainersStarted") \in E
        /\ DeletePod => Event("Terminated") \in E /\ Event("PodDeleted") \in E
    BY <2>2 DEF EventTypes, HealthyEventOK, DeletePod
  <2> QED BY <1>1, <2>1, <2>3, ChannelStep DEF TypeInv, ClusterFault
<1>4. ASSUME NEW t \in Threads PROVE todo'[t] \in Seq(O)
  <2>1. todo[t] \in Seq(O)
    BY <1>1 DEF HealthyInv
  <2>2. \A op \in O : op.op = "find" => [op EXCEPT !.op = "set"] \in O
    <3>1. \A op \in Ops : op.op = "find" => [op EXCEPT !.op = "set"].op = "set"
      BY DEF Ops
    <3> QED BY <3>1, OpTypes DEF HealthyOpOK
  <2>3. /\ {"INTERRUPTED_STOP", "METRICS_COLLECTED"} \subseteq ResultTypes \ RescheduleReasons
        /\ "scheduling" \in States /\ "estimation" \in States
    BY DEF ResultTypes, Interrupts, States, RescheduleReasons
  <2>4. /\ MetricsOp \in O
        /\ Add("scheduling", "INTERRUPTED_STOP", NoEvent) \in O
        /\ Add("estimation", "INTERRUPTED_STOP", NoEvent) \in O
    BY <2>3, OpTypes, NoEventType DEF MetricsOp, HealthyOpOK, Add
  <2>5. Wake("scheduling") \in O /\ Wake("estimation") \in O
    BY <2>3, OpTypes DEF HealthyOpOK, Wake
  <2>6. StopOps \in Seq(O)
    BY <2>4, <2>5, StopOpsIn
  <2>7. ASSUME NEW c \in Channels, Deliver(c) PROVE Reaction(Head(channel[c])) \in Seq(O)
    <3>1. Head(channel[c]) \in E /\ Head(channel[c]) \in {e \in Events : OwnEventOK(e)}
      BY <1>1, <2>7, ListGet DEF Deliver, HealthyInv, DeletionInv
    <3> QED BY <1>1, <3>1, HealthyReaction
  <2> QED BY <2>1, <2>2, <2>4, <2>6, <2>7, TodoStep DEF TypeInv
<1> QED BY <1>2, <1>3, <1>4

(* A pod is rescheduled for a fault of the cluster only: timeouts, a stop  *)
(* and the events of its own deletions do not make a run repeat.           *)
THEOREM HealthyNotRepeated == Spec => []HealthyPodNotRescheduled
<1>1. Init => DeletionInv /\ HealthyInv
  BY LifecycleAssumption
     DEF Init, DeletionInv, DeletionState, HealthyInv, HealthyState, States
<1>2. HealthyInv => HealthyPodNotRescheduled
  BY DEF HealthyInv, HealthyState, HealthyPodNotRescheduled
<1> QED BY <1>1, <1>2, InitType, StepType, StepDeletion, StepHealthy, PTL DEF Spec

-----------------------------------------------------------------------------
(* NoPodLeftBehind.  From the request of the deletion to the end of the run*)
(* nothing brings the pod back.                                            *)

LeavingInv ==
  pc \in {"requested", "await_deleted", "wait_deleted"} =>
    pod.status \in {"absent", "stopping"}

LEMMA WorkerLeaves ==
  ASSUME TypeInv, LeavingInv, Worker
  PROVE  /\ LeavingInv'
         /\ pc # "done" /\ pc' = "done" /\ outcome' # "raises"
            /\ last'["scheduling"] # "INTERRUPTED_INTERNAL_ERROR" =>
              pod'.status \in {"absent", "stopping"}
<1> USE DEF Step, OnlyStates, NoLocals, TypeInv, TypeOK, LeavingInv, clusterVars, States
<1>1. CASE CreatePod
  BY <1>1 DEF CreatePod
<1>2. CASE CreateFails
  BY <1>2 DEF CreateFails
<1>3. CASE TestBeforeWait
  BY <1>3 DEF TestBeforeWait
<1>4. CASE InstallSchedulingEvent
  BY <1>4 DEF InstallSchedulingEvent
<1>5. CASE EndSchedulingWait
  BY <1>5 DEF EndSchedulingWait, ScheduledOrTimeout, DeletedOrTimeout
<1>6. CASE FetchLogsRaises
  BY <1>6 DEF FetchLogsRaises
<1>7. CASE RequestDeletion
  BY <1>7 DEF RequestDeletion
<1>8. CASE DeletionFails
  BY <1>8 DEF DeletionFails, AddResult
<1>9. CASE pc' \notin {"done", "requested", "await_deleted", "wait_deleted"}
  BY <1>9
<1>10. CASE UNCHANGED pc /\ UNCHANGED pod
  BY <1>10
<1> QED BY <1>1, <1>2, <1>3, <1>4, <1>5, <1>6, <1>7, <1>8, <1>9, <1>10
        DEF Worker, StartRun, PodAlreadyExists, EstimateOrDelete, BeginPhase, InstallPhaseEvent,
            EndPhaseWait, CheckInterrupt, RecordResult, Conclude, Reason, BeginDeletion, EndRun,
            CleanStates, RescheduleOrComplete

LEMMA OthersLeave ==
  ASSUME TypeInv, LeavingInv, [Next]_vars, ~Worker
  PROVE  LeavingInv' /\ pc' = pc
<1>1. pc' = pc
  BY DEF Next, Finished, vars, Deliver, Stop, ThreadStep, ClusterStep, ClusterFault,
     ScheduleOnNode, PullImage, StartContainers, DeletePod, ContainerTerminates, KillProcess,
     ProbeFails, EvictPod, Progress, Fault, Cluster, workerVars
<1>2. pod.status \in {"absent", "stopping"} => pod'.status \in {"absent", "stopping"}
  BY DEF Next, Finished, vars, Deliver, Stop, ThreadStep, ClusterStep, ClusterFault,
     ScheduleOnNode, PullImage, StartContainers, DeletePod, ContainerTerminates, KillProcess,
     ProbeFails, EvictPod, Progress, Fault, Becomes, clusterVars, TypeInv, TypeOK
<1> QED BY <1>1, <1>2 DEF LeavingInv

(* However a run was interrupted or stopped, it ends with its pod gone or  *)
(* on its way out, unless the cluster refused the deletion to the last     *)
(* attempt or the run raised.                                              *)
THEOREM NoPodIsLeft == Spec => NoPodLeftBehind
<1>1. Init => LeavingInv
  BY DEF Init, LeavingInv
<1>2. TypeInv /\ LeavingInv /\ [Next]_vars => LeavingInv'
  BY WorkerLeaves, OthersLeave
<1>3. TypeInv /\ LeavingInv /\ [Next]_vars =>
        [(/\ pc # "done" /\ pc' = "done" /\ outcome' # "raises"
          /\ last'["scheduling"] # "INTERRUPTED_INTERNAL_ERROR")
          => pod'.status \in {"absent", "stopping"}]_vars
  BY WorkerLeaves, OthersLeave
<1> QED BY <1>1, <1>2, <1>3, InitType, StepType, PTL DEF Spec, NoPodLeftBehind

-----------------------------------------------------------------------------
(* ImplementsRun.  Where the worker is tells how far the phases of the     *)
(* estimation are, and a run that raised never gets to clean its states.   *)

Phase == phase["estimation"]
StagePhases == {Stages[i].phase : i \in 1..3}

PhaseInv ==
  /\ pc \in {"queued", "create", "created", "await_scheduled", "wait_scheduled", "scheduled",
             "decide"} => Phase = "none"
  /\ pc = "phase" => Phase = IF stage = 1 THEN "none" ELSE Stages[stage - 1].phase
  /\ pc \in {"await_phase", "wait_phase", "check", "record"} => Phase = Stages[stage].phase
  /\ pc \in {"conclude", "reason"} => Phase \in StagePhases
  /\ Phase \in StagePhases \cup {"none"}
  /\ pc \in {"clean", "decide"} => outcome # "raises"
  /\ pc = "clean" /\ stage > 4 => Phase = "none"

(* Run's view of the state *)
RunOutcome == IF pc = "queued" THEN "none" ELSE outcome
RunPhase ==
  CASE Phase = "none" -> "none"
    [] Phase = Stages[FinishStage].phase -> "finishing"
    [] OTHER -> "starting"

LEMMA PhaseNames ==
  /\ StagePhases = {Stages[1].phase, Stages[2].phase, Stages[3].phase}
  /\ Stages[1].phase # "none" /\ Stages[2].phase # "none" /\ Stages[3].phase # "none"
  /\ Stages[1].phase # Stages[3].phase /\ Stages[2].phase # Stages[3].phase
BY StageTable DEF StagePhases

LEMMA OthersPhase ==
  ASSUME PhaseInv, [Next]_vars, ~Worker
  PROVE  PhaseInv' /\ UNCHANGED <<workerVars, phase>>
<1>1. UNCHANGED <<workerVars, phase>>
  BY DEF Next, Finished, vars, Deliver, Stop, ThreadStep, AddInterrupt, FindEvent, SetEvent,
     ClusterStep, ClusterFault, ScheduleOnNode, PullImage, StartContainers, DeletePod,
     ContainerTerminates, KillProcess, ProbeFails, EvictPod, Progress, Fault, Cluster, stateVars
<1> QED BY <1>1 DEF PhaseInv, Phase, StagePhases, workerVars

LEMMA WorkerPhase ==
  ASSUME TypeInv, PhaseInv, Worker
  PROVE  PhaseInv'
<1> USE PhaseNames DEF Step, OnlyStates, NoLocals, TypeInv, TypeOK, StageOK, InPhase, PhaseInv,
            Phase, States, stateVars, FinishStage
<1>1. CASE StartRun
  BY <1>1 DEF StartRun, AddPhase
<1>2. CASE CreatePod
  BY <1>2 DEF CreatePod
<1>3. CASE PodAlreadyExists
  BY <1>3 DEF PodAlreadyExists
<1>4. CASE CreateFails
  BY <1>4 DEF CreateFails
<1>5. CASE TestBeforeWait
  BY <1>5 DEF TestBeforeWait
<1>6. CASE InstallSchedulingEvent
  BY <1>6 DEF InstallSchedulingEvent
<1>7. CASE EndSchedulingWait
  BY <1>7 DEF EndSchedulingWait, ScheduledOrTimeout, DeletedOrTimeout
<1>8. CASE EstimateOrDelete
  BY <1>8 DEF EstimateOrDelete
<1>9. CASE BeginPhase
  BY <1>9 DEF BeginPhase, AddPhase
<1>10. CASE InstallPhaseEvent
  BY <1>10 DEF InstallPhaseEvent
<1>11. CASE EndPhaseWait
  BY <1>11 DEF EndPhaseWait
<1>12. CASE CheckInterrupt
  BY <1>12 DEF CheckInterrupt
<1>13. CASE RecordResult
  BY <1>13 DEF RecordResult
<1>14. CASE Conclude
  BY <1>14 DEF Conclude
<1>15. CASE FetchLogsRaises
  BY <1>15 DEF FetchLogsRaises
<1>16. CASE Reason
  BY <1>16 DEF Reason
<1>17. CASE BeginDeletion
  BY <1>17 DEF BeginDeletion, AddPhase
<1>18. CASE RequestDeletion
  BY <1>18 DEF RequestDeletion
<1>19. CASE DeletionFails
  BY <1>19 DEF DeletionFails
<1>20. CASE EndRun
  BY <1>20 DEF EndRun
<1>21. CASE CleanStates
  BY <1>21, CleanTable DEF CleanStates, CleanEvents, CleanResults, CleanPhases
<1>22. CASE RescheduleOrComplete
  BY <1>22 DEF RescheduleOrComplete, MayReschedule
<1> QED BY <1>1, <1>2, <1>3, <1>4, <1>5, <1>6, <1>7, <1>8, <1>9, <1>10, <1>11, <1>12, <1>13, <1>14,
           <1>15, <1>16, <1>17, <1>18, <1>19, <1>20, <1>21, <1>22 DEF Worker

(* Where RunState puts the worker, and what Run sees of the phases         *)
LEMMA RunView ==
  /\ pc = "queued" => RunState = "idle"
  /\ pc \in {"create", "created", "await_scheduled", "wait_scheduled", "scheduled"} =>
       RunState = "scheduling"
  /\ pc \in {"phase", "await_phase", "wait_phase", "check", "record", "conclude", "reason"} =>
       RunState = IF RunPhase = "none" THEN "scheduling" ELSE RunPhase
  /\ pc \in {"delete", "request", "requested", "await_deleted", "wait_deleted"} =>
       RunState = "deleting"
  /\ pc \in {"done", "clean", "decide", "finished", "died"} => RunState = "done"
  /\ RunPhase \in {"none", "starting", "finishing"}
  /\ RunPhase = "none" <=> Phase = "none"
<1>1. Stages[FinishStage].phase # "none"
  BY PhaseNames DEF FinishStage
<1>2. RunPhase \in {"none", "starting", "finishing"} /\ (RunPhase = "none" <=> Phase = "none")
  BY <1>1 DEF RunPhase
<1>3. pc \in {"phase", "await_phase", "wait_phase", "check", "record", "conclude", "reason"} =>
        RunState = IF RunPhase = "none" THEN "scheduling" ELSE RunPhase
  BY <1>1 DEF RunState, RunPhase, Phase
<1> QED BY <1>2, <1>3 DEF RunState

Viewed == <<RunState, RunOutcome, RunPhase, reschedules>>

LEMMA ViewIsRunsVars == UNCHANGED Viewed => UNCHANGED Run!vars
BY DEF Viewed, Run!vars, RunOutcome, RunPhase, Phase

(* The phases of the estimation, one after the other                       *)
LEMMA BeginPhaseRuns ==
  ASSUME TypeInv, PhaseInv, BeginPhase
  PROVE  [Run!Next]_(Run!vars)
<1>1. pc = "phase" /\ pc' = "await_phase" /\ Phase' = Stages[stage].phase /\ stage \in 1..3
  BY DEF BeginPhase, Step, AddPhase, Phase, TypeInv, TypeOK, StageOK, InPhase, States
<1>2. UNCHANGED <<outcome, reschedules>> /\ RunOutcome = outcome /\ RunOutcome' = outcome
  BY <1>1 DEF BeginPhase, OnlyStates, NoLocals, RunOutcome
<1>3. CASE stage = 1
  <2>1. RunPhase = "none" /\ RunPhase' = "starting"
    BY <1>1, <1>3, PhaseNames DEF RunPhase, PhaseInv, FinishStage
  <2>2. RunState = "scheduling" /\ RunState' = "starting"
    BY <1>1, <2>1, PhaseNames DEF RunState, RunPhase, Phase, FinishStage
  <2>3. Run!Start
    BY <1>2, <2>1, <2>2 DEF Run!Start, Run!Goto, RunOutcome, RunPhase, Phase
  <2> QED BY <2>3 DEF Run!Next
<1>4. CASE stage = 2
  <2>1. Phase = Stages[1].phase
    BY <1>1, <1>4 DEF PhaseInv
  <2>2. RunPhase = "starting" /\ RunPhase' = "starting"
    BY <1>1, <1>4, <2>1, PhaseNames DEF RunPhase, FinishStage
  <2>3. RunState = "starting" /\ RunState' = "starting"
    BY <1>1, <1>4, <2>1, PhaseNames DEF RunState, Phase, FinishStage
  <2> QED BY <1>2, <2>2, <2>3, ViewIsRunsVars DEF Viewed
<1>5. CASE stage = 3
  <2>1. Phase = Stages[2].phase
    BY <1>1, <1>5 DEF PhaseInv
  <2>2. RunPhase = "starting" /\ RunPhase' = "finishing"
    BY <1>1, <1>5, <2>1, PhaseNames DEF RunPhase, FinishStage
  <2>3. RunState = "starting" /\ RunState' = "finishing"
    BY <1>1, <1>5, <2>1, PhaseNames DEF RunState, Phase, FinishStage
  <2>4. Run!Finish
    BY <1>2, <2>2, <2>3 DEF Run!Finish, Run!Goto, RunOutcome, RunPhase, Phase
  <2> QED BY <2>4 DEF Run!Next
<1> QED BY <1>1, <1>3, <1>4, <1>5

(* The steps of the worker that leave the phases of the estimation alone   *)
LEMMA WorkerRuns ==
  ASSUME TypeInv, PhaseInv, Worker
  PROVE  [Run!Next]_(Run!vars)
<1> USE DEF Step, OnlyStates, NoLocals
<1> DEFINE SamePhase == phase'["estimation"] = phase["estimation"]
<1>1. SamePhase => RunPhase' = RunPhase /\ Phase' = Phase
  BY DEF RunPhase, Phase
<1>2. SamePhase =>
        /\ pc' = "queued" => RunState' = "idle"
        /\ pc' \in {"create", "created", "await_scheduled", "wait_scheduled", "scheduled"} =>
             RunState' = "scheduling"
        /\ pc' \in {"phase", "await_phase", "wait_phase", "check", "record", "conclude",
                    "reason"} => RunState' = IF RunPhase = "none" THEN "scheduling" ELSE RunPhase
        /\ pc' \in {"delete", "request", "requested", "await_deleted", "wait_deleted"} =>
             RunState' = "deleting"
        /\ pc' \in {"done", "clean", "decide", "finished", "died"} => RunState' = "done"
  BY DEF RunState, RunPhase, Phase
<1>3. CASE StartRun
  <2>1. SamePhase /\ pc = "queued" /\ pc' = "create" /\ outcome' = "none" /\ UNCHANGED reschedules
    BY <1>3 DEF StartRun, AddPhase, TypeInv, TypeOK, States
  <2>2. Run!Submit
    BY <1>1, <1>2, <2>1, RunView DEF Run!Submit, Run!Goto, RunPhase, Phase
  <2> QED BY <2>2 DEF Run!Next
<1>4. CASE CreateFails
  <2>1. SamePhase /\ pc = "create" /\ pc' = "done" /\ outcome' = "raises" /\ UNCHANGED reschedules
    BY <1>4 DEF CreateFails
  <2>2. Run!Fail
    BY <1>1, <1>2, <2>1, RunView DEF Run!Fail, Run!Goto, RunPhase, Phase
  <2> QED BY <2>2 DEF Run!Next
<1>5. CASE FetchLogsRaises
  <2>1. SamePhase /\ pc = "reason" /\ pc' = "done" /\ outcome' = "raises" /\ UNCHANGED reschedules
    BY <1>5 DEF FetchLogsRaises, stateVars
  <2>2. RunState \in {"starting", "finishing"}
    BY <2>1, RunView, PhaseNames DEF PhaseInv
  <2>3. Run!Fail
    BY <1>1, <1>2, <2>1, <2>2 DEF Run!Fail, Run!Goto, RunPhase, Phase
  <2> QED BY <2>3 DEF Run!Next
<1>6. CASE EstimateOrDelete
  <2>1. SamePhase /\ pc = "scheduled" /\ UNCHANGED reschedules /\ Phase = "none"
    BY <1>6 DEF EstimateOrDelete, stateVars, PhaseInv
  <2>2. CASE pc' = "phase" /\ UNCHANGED outcome
    <3>1. RunState = "scheduling" /\ RunState' = "scheduling"
      BY <1>2, <2>1, <2>2, RunView
    <3> QED BY <1>1, <2>1, <2>2, <3>1, ViewIsRunsVars DEF Viewed, RunOutcome
  <2>3. CASE pc' = "delete" /\ outcome' = "complete"
    <3>1. Run!Skip
      BY <1>1, <1>2, <2>1, <2>3, RunView DEF Run!Skip, Run!Goto, RunPhase, Phase
    <3> QED BY <3>1 DEF Run!Next
  <2> QED BY <1>6, <2>2, <2>3 DEF EstimateOrDelete
<1>7. CASE BeginPhase
  BY <1>7, BeginPhaseRuns
<1>8. CASE Reason
  <2>1. /\ SamePhase /\ pc = "reason" /\ pc' = "delete" /\ UNCHANGED reschedules
        /\ outcome' \in {"complete", "reschedule"}
    BY <1>8 DEF Reason, stateVars
  <2>2. RunState \in {"starting", "finishing"}
    BY <2>1, RunView, PhaseNames DEF PhaseInv
  <2>3. Run!End
    BY <1>1, <1>2, <2>1, <2>2 DEF Run!End, Run!Goto, RunPhase, Phase
  <2> QED BY <2>3 DEF Run!Next
<1>9. CASE \/ DeletionFails
           \/ EndSchedulingWait /\ DeletedOrTimeout
           \/ TestBeforeWait /\ pc = "requested" /\ pc' = "done"
  <2>1. /\ SamePhase /\ pc \in {"request", "wait_deleted", "requested"} /\ pc' = "done"
        /\ UNCHANGED <<outcome, reschedules>>
    BY <1>9 DEF DeletionFails, DeletedOrTimeout, EndSchedulingWait, TestBeforeWait, stateVars
  <2>2. Run!Delete
    BY <1>1, <1>2, <2>1, RunView DEF Run!Delete, Run!Goto, RunPhase, Phase
  <2> QED BY <2>2 DEF Run!Next
<1>10. CASE CleanStates
  <2>1. /\ pc = "clean" /\ pc' \in {"clean", "decide"} /\ UNCHANGED <<outcome, reschedules>>
        /\ Phase' \in {Phase, "none"} /\ outcome # "raises"
    BY <1>10, CleanTable
       DEF CleanStates, CleanEvents, CleanResults, CleanPhases, Phase, PhaseInv,
           TypeInv, TypeOK, States
  <2>2. RunState = "done" /\ RunState' = "done" /\ RunOutcome = outcome /\ RunOutcome' = outcome
    BY <2>1 DEF RunState, RunOutcome
  <2>3. CASE Phase' = Phase
    <3>1. RunPhase' = RunPhase
      BY <2>3 DEF RunPhase
    <3> QED BY <2>1, <2>2, <3>1, ViewIsRunsVars DEF Viewed
  <2>4. CASE Phase' = "none"
    <3>1. RunPhase' = "none"
      BY <2>4, PhaseNames DEF RunPhase, FinishStage
    <3>2. Run!Clean
      BY <2>1, <2>2, <3>1 DEF Run!Clean, RunOutcome, RunPhase, Phase
    <3> QED BY <3>2 DEF Run!Next
  <2> QED BY <2>1, <2>3, <2>4
<1>11. CASE RescheduleOrComplete
  <2>1. SamePhase /\ pc = "decide" /\ Phase = "none" /\ UNCHANGED outcome
    BY <1>11 DEF RescheduleOrComplete, stateVars, PhaseInv
  <2>2. CASE MayReschedule /\ pc' = "queued" /\ reschedules' = reschedules + 1
    <3>1. Run!Reschedule
      BY <1>1, <1>2, <2>1, <2>2, RunView
         DEF Run!Reschedule, Run!Goto, RunPhase, Phase, MayReschedule
    <3> QED BY <3>1 DEF Run!Next
  <2>3. CASE pc' = "finished" /\ UNCHANGED reschedules
    <3>1. RunState = "done" /\ RunState' = "done"
      BY <1>2, <2>1, <2>3, RunView
    <3> QED BY <1>1, <2>1, <2>3, <3>1, ViewIsRunsVars DEF Viewed, RunOutcome
  <2> QED BY <1>11, <2>2, <2>3 DEF RescheduleOrComplete
<1>12. CASE /\ SamePhase /\ UNCHANGED <<outcome, reschedules>>
            /\ \E same \in
                 {{"create", "created", "await_scheduled", "wait_scheduled", "scheduled"},
                  {"phase", "await_phase", "wait_phase", "check", "record", "conclude", "reason"},
                  {"delete", "request", "requested", "await_deleted", "wait_deleted"},
                  {"done", "clean", "decide", "finished", "died"}} : pc \in same /\ pc' \in same
  <2>1. RunState' = RunState
    BY <1>2, <1>12, RunView
  <2>2. RunOutcome' = RunOutcome
    BY <1>12 DEF RunOutcome
  <2> QED BY <1>1, <1>12, <2>1, <2>2, ViewIsRunsVars DEF Viewed
<1>13. CASE \/ CreatePod \/ PodAlreadyExists \/ InstallSchedulingEvent
            \/ EndSchedulingWait /\ ScheduledOrTimeout
            \/ TestBeforeWait /\ ~(pc = "requested" /\ pc' = "done")
  <2>1. SamePhase /\ UNCHANGED <<outcome, reschedules>>
    BY <1>13 DEF CreatePod, PodAlreadyExists, TestBeforeWait, InstallSchedulingEvent,
       EndSchedulingWait, stateVars
  <2> QED BY <1>12, <1>13, <2>1
          DEF CreatePod, PodAlreadyExists, TestBeforeWait, InstallSchedulingEvent,
              ScheduledOrTimeout
<1>14. CASE InstallPhaseEvent \/ EndPhaseWait \/ CheckInterrupt \/ RecordResult \/ Conclude
  <2>1. SamePhase /\ UNCHANGED <<outcome, reschedules>>
    BY <1>14 DEF InstallPhaseEvent, EndPhaseWait, CheckInterrupt, RecordResult, Conclude, stateVars
  <2> QED BY <1>12, <1>14, <2>1
          DEF InstallPhaseEvent, EndPhaseWait, CheckInterrupt, RecordResult, Conclude
<1>15. CASE BeginDeletion \/ RequestDeletion \/ EndRun
  <2>1. SamePhase /\ UNCHANGED <<outcome, reschedules>>
    BY <1>15 DEF BeginDeletion, AddPhase, RequestDeletion, EndRun, stateVars, TypeInv, TypeOK, States
  <2> QED BY <1>12, <1>15, <2>1 DEF BeginDeletion, RequestDeletion, EndRun
<1>16. CASE EndSchedulingWait
  <2>1. ScheduledOrTimeout \/ DeletedOrTimeout
    BY <1>16 DEF EndSchedulingWait
  <2> QED BY <1>9, <1>13, <1>16, <2>1
<1>17. CASE TestBeforeWait
  BY <1>9, <1>13, <1>17
<1> QED BY <1>3, <1>4, <1>5, <1>6, <1>7, <1>8, <1>9, <1>10, <1>11, <1>13, <1>14, <1>15, <1>16, <1>17
        DEF Worker

LEMMA RunStep ==
  ASSUME TypeInv, PhaseInv, [Next]_vars
  PROVE  [Run!Next]_(Run!vars)
<1>1. CASE Worker
  BY <1>1, WorkerRuns
<1>2. CASE ~Worker
  <2>1. UNCHANGED <<workerVars, phase>>
    BY <1>2, OthersPhase
  <2> QED BY <2>1, ViewIsRunsVars DEF Viewed, RunState, RunOutcome, RunPhase, Phase, workerVars
<1> QED BY <1>1, <1>2

(* The worker does what the scheduler takes it to do: a run goes through   *)
(* its states in order, decides its outcome once, and the next run of the  *)
(* pod finds the phases of the estimation cleaned.                         *)
THEOREM LifecycleImplementsRun == Spec => ImplementsRun
<1>1. Init => PhaseInv
  BY DEF Init, PhaseInv, Phase, States
<1>2. Init => Run!Init
  BY RunView DEF Init, Run!Init, RunPhase, Phase, States
<1>3. TypeInv /\ PhaseInv /\ [Next]_vars => PhaseInv'
  BY WorkerPhase, OthersPhase
<1>4. TypeInv /\ PhaseInv /\ [Next]_vars => [Run!Next]_(Run!vars)
  BY RunStep
<1> QED BY <1>1, <1>2, <1>3, <1>4, InitType, StepType, PTL DEF Spec, ImplementsRun, Run!Spec

=============================================================================
