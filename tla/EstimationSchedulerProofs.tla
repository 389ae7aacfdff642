---------------------- MODULE EstimationSchedulerProofs ----------------------
(***************************************************************************)
(* Theorems about EstimationScheduler, for every number of pods, nodes,    *)
(* reschedules and stop signals: where the pods are and that the scheduler *)
(* implements EstimationLedger, how many pods start up on a node, and in   *)
(* which order their priorities are.                                       *)
(***************************************************************************)
EXTENDS EstimationScheduler, SequenceTheorems, FiniteSetTheorems, TLAPS

-----------------------------------------------------------------------------
(* What pop and remove leave of a list                                     *)

(* The last element of a nonempty sequence is one of its elements, and     *)
(* Front keeps the others: what list.pop does.                             *)
LEMMA FrontLast ==
  ASSUME NEW S, NEW s \in Seq(S), s # <<>>
  PROVE  /\ Last(s) \in S
         /\ Len(s) \in DOMAIN s
         /\ Front(s) \in Seq(S)
         /\ Len(Front(s)) = Len(s) - 1
         /\ DOMAIN Front(s) = 1..(Len(s) - 1)
         /\ \A i \in 1..(Len(s) - 1) : Front(s)[i] = s[i]
<1>1. /\ Len(s) \in Nat \ {0}
      /\ DOMAIN s = 1..Len(s)
      /\ \A i \in 1..Len(s) : s[i] \in S
  BY EmptySeq, LenProperties, ElementOfSeq
<1>2. /\ SubSeq(s, 1, Len(s) - 1) \in Seq(S)
      /\ Len(SubSeq(s, 1, Len(s) - 1))
           = IF 1 <= Len(s) - 1 THEN Len(s) - 1 - 1 + 1 ELSE 0
      /\ \A i \in 1..(Len(s) - 1 - 1 + 1) :
           SubSeq(s, 1, Len(s) - 1)[i] = s[1 + i - 1]
  <2>1. \A i \in 1..(Len(s) - 1) : s[i] \in S
    BY <1>1
  <2>2. 1 \in Int /\ Len(s) - 1 \in Int
    BY <1>1
  <2> QED BY <2>1, <2>2, SubSeqProperties
<1>3. /\ Front(s) \in Seq(S)
      /\ Len(Front(s)) = Len(s) - 1
      /\ \A i \in 1..(Len(s) - 1) : Front(s)[i] = s[i]
  BY <1>1, <1>2 DEF Front
<1> QED BY <1>1, <1>3, LenProperties DEF Last

(* RemoveAt drops the element at i and shifts the later ones.              *)
LEMMA RemoveAtElements ==
  ASSUME NEW S, NEW s \in Seq(S), NEW i \in DOMAIN s
  PROVE  /\ RemoveAt(s, i) \in Seq(S)
         /\ Len(RemoveAt(s, i)) = Len(s) - 1
         /\ DOMAIN RemoveAt(s, i) = 1..(Len(s) - 1)
         /\ \A j \in 1..(Len(s) - 1) :
              RemoveAt(s, i)[j] = IF j < i THEN s[j] ELSE s[j + 1]
<1>1. /\ Len(s) \in Nat
      /\ DOMAIN s = 1..Len(s)
      /\ i \in 1..Len(s)
      /\ \A j \in 1..Len(s) : s[j] \in S
  BY LenProperties, ElementOfSeq
<1> DEFINE a == SubSeq(s, 1, i - 1)
           b == SubSeq(s, i + 1, Len(s))
<1>2. /\ a \in Seq(S)
      /\ Len(a) = i - 1
      /\ \A j \in 1..(i - 1) : a[j] = s[j]
  <2>1. 1 \in Int /\ i - 1 \in Int /\ \A j \in 1..(i - 1) : s[j] \in S
    BY <1>1
  <2>2. /\ a \in Seq(S)
        /\ Len(a) = IF 1 <= i - 1 THEN i - 1 - 1 + 1 ELSE 0
        /\ \A j \in 1..(i - 1 - 1 + 1) : a[j] = s[1 + j - 1]
    BY <2>1, SubSeqProperties
  <2> QED BY <1>1, <2>2
<1>3. /\ b \in Seq(S)
      /\ Len(b) = Len(s) - i
      /\ \A j \in 1..(Len(s) - i) : b[j] = s[i + j]
  <2>1. i + 1 \in Int /\ Len(s) \in Int /\ \A j \in (i + 1)..Len(s) : s[j] \in S
    BY <1>1
  <2>2. /\ b \in Seq(S)
        /\ Len(b) = IF i + 1 <= Len(s) THEN Len(s) - (i + 1) + 1 ELSE 0
        /\ \A j \in 1..(Len(s) - (i + 1) + 1) : b[j] = s[i + 1 + j - 1]
    BY <2>1, SubSeqProperties
  <2>3. Len(b) = Len(s) - i
    BY <1>1, <2>2
  <2>4. ASSUME NEW j \in 1..(Len(s) - i)
        PROVE  b[j] = s[i + j]
    <3>1. j \in 1..(Len(s) - (i + 1) + 1) /\ i + 1 + j - 1 = i + j
      BY <1>1
    <3> HIDE DEF b
    <3> QED BY <2>2, <3>1
  <2> QED BY <2>2, <2>3, <2>4
<1>4. RemoveAt(s, i) = a \o b
  BY DEF RemoveAt
<1> HIDE DEF a, b
<1>5. /\ a \o b \in Seq(S)
      /\ Len(a \o b) = Len(s) - 1
      /\ \A j \in 1..(Len(s) - 1) : (a \o b)[j] = IF j < i THEN s[j] ELSE s[j + 1]
  <2>1. /\ a \o b \in Seq(S)
        /\ Len(a \o b) = Len(a) + Len(b)
        /\ \A j \in 1..(Len(a) + Len(b)) :
             (a \o b)[j] = IF j <= Len(a) THEN a[j] ELSE b[j - Len(a)]
    BY <1>2, <1>3, ConcatProperties
  <2>2. ASSUME NEW j \in 1..(Len(s) - 1)
        PROVE  (a \o b)[j] = IF j < i THEN s[j] ELSE s[j + 1]
    <3>1. CASE j < i
      BY <1>1, <1>2, <1>3, <2>1, <3>1, SMTT(30)
    <3>2. CASE ~(j < i)
      <4>1. j - (i - 1) \in 1..(Len(s) - i) /\ i + (j - (i - 1)) = j + 1
        BY <1>1, <3>2
      <4>2. (a \o b)[j] = b[j - (i - 1)]
        BY <1>1, <1>2, <1>3, <2>1, <3>2, SMTT(30)
      <4> QED BY <1>3, <3>2, <4>1, <4>2
    <3> QED BY <3>1, <3>2
  <2> QED BY <1>1, <1>2, <1>3, <2>1, <2>2
<1> QED BY <1>4, <1>5, LenProperties

-----------------------------------------------------------------------------
(* Sequences *)

(* Membership and uniqueness in a sequence, for the three operations the   *)
(* scheduler has on its lists: append, pop from the end, remove.           *)
LEMMA EmptyList ==
  /\ \A x : ~InSeq(x, <<>>)
  /\ NoDuplicates(<<>>)
BY DEF InSeq, NoDuplicates

(* list.append adds one element and keeps a list free of duplicates when   *)
(* the element is new.                                                     *)
LEMMA AppendList ==
  ASSUME NEW S, NEW s \in Seq(S), NEW e \in S
  PROVE  /\ Append(s, e) \in Seq(S)
         /\ \A x : InSeq(x, Append(s, e)) <=> InSeq(x, s) \/ x = e
         /\ NoDuplicates(s) /\ ~InSeq(e, s) => NoDuplicates(Append(s, e))
<1>1. /\ Len(s) \in Nat
      /\ DOMAIN s = 1..Len(s)
      /\ Append(s, e) \in Seq(S)
      /\ DOMAIN Append(s, e) = 1..(Len(s) + 1)
      /\ \A i \in 1..Len(s) : Append(s, e)[i] = s[i]
      /\ Append(s, e)[Len(s) + 1] = e
  <2>1. /\ Append(s, e) \in Seq(S)
        /\ Len(Append(s, e)) = Len(s) + 1
    BY AppendProperties
  <2>2. DOMAIN Append(s, e) = 1..Len(Append(s, e))
    BY <2>1, LenProperties
  <2>3. Len(s) \in Nat /\ DOMAIN s = 1..Len(s)
    BY LenProperties
  <2> QED BY <2>1, <2>2, <2>3, AppendProperties
<1>2. ASSUME NEW x
      PROVE  InSeq(x, Append(s, e)) <=> InSeq(x, s) \/ x = e
  <2>1. \A i \in 1..(Len(s) + 1) : i \in 1..Len(s) \/ i = Len(s) + 1
    BY <1>1
  <2>2. Len(s) + 1 \in 1..(Len(s) + 1) /\ 1..Len(s) \subseteq 1..(Len(s) + 1)
    BY <1>1
  <2> QED BY <1>1, <2>1, <2>2 DEF InSeq
<1>3. ASSUME NoDuplicates(s), ~InSeq(e, s)
      PROVE  NoDuplicates(Append(s, e))
  <2>1. ASSUME NEW i \in 1..(Len(s) + 1), NEW j \in 1..(Len(s) + 1),
               Append(s, e)[i] = Append(s, e)[j]
        PROVE  i = j
    <3>1. CASE i \in 1..Len(s) /\ j \in 1..Len(s)
      BY <1>1, <1>3, <2>1, <3>1 DEF NoDuplicates
    <3>2. CASE i = Len(s) + 1 /\ j \in 1..Len(s)
      BY <1>1, <1>3, <2>1, <3>2 DEF InSeq
    <3>3. CASE i \in 1..Len(s) /\ j = Len(s) + 1
      BY <1>1, <1>3, <2>1, <3>3 DEF InSeq
    <3> QED BY <1>1, <3>1, <3>2, <3>3
  <2> QED BY <1>1, <2>1 DEF NoDuplicates
<1> QED BY <1>1, <1>2, <1>3

(* list.pop takes exactly the last element out of a list without           *)
(* duplicates.                                                             *)
LEMMA FrontList ==
  ASSUME NEW S, NEW s \in Seq(S), s # <<>>, NoDuplicates(s)
  PROVE  /\ \A x : InSeq(x, Front(s)) <=> InSeq(x, s) /\ x # Last(s)
         /\ InSeq(Last(s), s)
         /\ NoDuplicates(Front(s))
<1>1. /\ Len(s) \in Nat \ {0}
      /\ DOMAIN s = 1..Len(s)
      /\ DOMAIN Front(s) = 1..(Len(s) - 1)
      /\ \A i \in 1..(Len(s) - 1) : Front(s)[i] = s[i]
      /\ Last(s) = s[Len(s)]
  BY EmptySeq, LenProperties, FrontLast DEF Last
<1> DEFINE n == Len(s)
<1>0. n \in Nat \ {0}
  BY <1>1
<1> HIDE DEF n
<1>2. \A i \in 1..n : i \in 1..(n - 1) \/ i = n
  BY <1>0
<1>3. n \in 1..n /\ \A i \in 1..(n - 1) : i \in 1..n /\ i # n
  BY <1>0
<1> USE DEF n
<1> QED BY <1>1, <1>2, <1>3 DEF InSeq, NoDuplicates

(* list.remove takes exactly one element out of a list without duplicates. *)
LEMMA RemoveAtList ==
  ASSUME NEW S, NEW s \in Seq(S), NEW i \in DOMAIN s, NoDuplicates(s)
  PROVE  /\ \A x : InSeq(x, RemoveAt(s, i)) <=> InSeq(x, s) /\ x # s[i]
         /\ NoDuplicates(RemoveAt(s, i))
<1> DEFINE t == RemoveAt(s, i)
           at(j) == IF j < i THEN j ELSE j + 1
<1>1. /\ Len(s) \in Nat
      /\ DOMAIN s = 1..Len(s)
      /\ i \in 1..Len(s)
      /\ DOMAIN t = 1..(Len(s) - 1)
      /\ \A j \in 1..(Len(s) - 1) : t[j] = s[at(j)]
  BY LenProperties, RemoveAtElements
<1> HIDE DEF t
<1>2. /\ \A j \in 1..(Len(s) - 1) : at(j) \in 1..Len(s) /\ at(j) # i
      /\ \A j, k \in 1..(Len(s) - 1) : at(j) = at(k) => j = k
  BY <1>1
<1>3. \A k \in 1..Len(s) : k # i => \E j \in 1..(Len(s) - 1) : at(j) = k
  <2> SUFFICES ASSUME NEW k \in 1..Len(s), k # i
               PROVE  \E j \in 1..(Len(s) - 1) : at(j) = k
    OBVIOUS
  <2>1. CASE k < i
    BY <1>1, <2>1
  <2>2. CASE k > i
    <3>1. k - 1 \in 1..(Len(s) - 1) /\ at(k - 1) = k
      BY <1>1, <2>2
    <3> QED BY <3>1
  <2> QED BY <1>1, <2>1, <2>2
<1> HIDE DEF at
<1>4. ASSUME NEW x
      PROVE  InSeq(x, t) <=> InSeq(x, s) /\ x # s[i]
  BY <1>1, <1>2, <1>3 DEF InSeq, NoDuplicates
<1>5. NoDuplicates(t)
  BY <1>1, <1>2 DEF NoDuplicates
<1> QED BY <1>4, <1>5 DEF t

-----------------------------------------------------------------------------
(* Futures *)

(* A future is a pair of a pod and a run.                                  *)
LEMMA FutureFacts ==
  /\ \A f \in Futures : /\ PodOf(f) \in Pods
                        /\ RunOf(f) \in 0..MaxReschedules
                        /\ f = <<PodOf(f), RunOf(f)>>
  /\ \A p \in Pods : \A k \in 0..MaxReschedules :
       /\ <<p, k>> \in Futures
       /\ PodOf(<<p, k>>) = p
       /\ RunOf(<<p, k>>) = k
BY DEF Futures, PodOf, RunOf

-----------------------------------------------------------------------------
(* The type invariant *)

(* The sequence operations stay within sequences of pods.                  *)
LEMMA PopLastType ==
  ASSUME TypeOK, PopLast
  PROVE  pod_name' \in Pods /\ pods_work_queue' \in Seq(Pods)
BY FrontLast DEF TypeOK, PopLast

(* A step of a done callback leaves every callback in its type.            *)
LEMMA CallbackType ==
  ASSUME TypeOK, NEW f \in Futures, NEW state \in Callbacks, CallbackGoto(f, state)
  PROVE  callback' \in [Futures -> Callbacks]
BY DEF TypeOK, CallbackGoto

(* The variables keep their types when a step only changes, within their   *)
(* types, those a done callback or a stop signal writes.                   *)
LEMMA TypeFrame ==
  ASSUME TypeOK,
         pods_work_queue' \in Seq(Pods), pods_done' \in Seq(Pods),
         reschedules' \in [Pods -> 0..MaxReschedules],
         pods_per_node' \in [Nodes -> Seq(Pods)],
         callback' \in [Futures -> Callbacks],
         scan' \in [Futures -> SUBSET Nodes],
         main' \in MainStates, running' \in BOOLEAN, global_lock' \in BOOLEAN,
         UNCHANGED <<known_nodes, pods_priorities, futures, phase, run, outcome,
                     pod_name, node_name, last_pod, priority, future, unseen,
                     all_done>>
  PROVE  TypeOK'
BY DEF TypeOK

(* Every step leaves the variables in their types: in particular the       *)
(* number of reschedules of a pod stays within MAX_RESCHEDULES, and the    *)
(* local variables of the main thread are set where it reads them.         *)
LEMMA TypeStep ==
  ASSUME TypeOK, LocalsInv, [Next]_vars
  PROVE  TypeOK' /\ LocalsInv'
<1> USE SchedulerAssumption
<1> USE DEF Goto, MainOnly, MainStates, Terminated, Phases, RunStates,
            Outcomes, queueVars, nodeVars,
            workerVars, callbackVars, choiceVars, waitVars, mainVars
<1>1. CASE LoopTest
  BY <1>1 DEF TypeOK, LocalsInv, LoopTest, PendingFutures, EverythingDone
<1>2. CASE PopQueued
  BY <1>2, PopLastType DEF TypeOK, LocalsInv, PopQueued
<1>3. CASE StartWaiting
  BY <1>3 DEF TypeOK, LocalsInv, StartWaiting
<1>4. CASE NextCompleted
  BY <1>4 DEF TypeOK, LocalsInv, NextCompleted
<1>5. CASE AcquireMain
  BY <1>5 DEF TypeOK, LocalsInv, AcquireMain
<1>6. CASE CheckAllDone
  BY <1>6 DEF TypeOK, LocalsInv, CheckAllDone, AllDone
<1>7. CASE CheckQueue
  <2>1. CASE PopLast
    BY <1>7, <2>1, PopLastType
    DEF TypeOK, LocalsInv, CheckQueue, StopWhenDrained, ReleaseMain
  <2>2. CASE UNCHANGED <<pods_work_queue, pod_name>>
    BY <1>7, <2>2
    DEF TypeOK, LocalsInv, CheckQueue, StopWhenDrained, ReleaseMain
  <2> QED BY <1>7, <2>1, <2>2 DEF CheckQueue
<1>8. CASE TestUnlock
  BY <1>8 DEF TypeOK, LocalsInv, TestUnlock, StopWhenDrained, AfterPop
<1>9. CASE Unlock
  BY <1>9 DEF TypeOK, LocalsInv, Unlock, StopWhenDrained, AfterPop, ReleaseMain
<1>10. ASSUME NEW n \in Nodes, PickNode(n)
      PROVE  TypeOK' /\ LocalsInv'
  BY <1>10 DEF TypeOK, LocalsInv, PickNode
<1>11. CASE StopPicking
  BY <1>11 DEF TypeOK, LocalsInv, StopPicking
<1>12. CASE TestLastPod
  BY <1>12 DEF TypeOK, LocalsInv, TestLastPod
<1>13. CASE IndexLastPod
  <2>1. ASSUME pods_per_node[node_name] # <<>>, node_name \in Nodes
        PROVE  Last(pods_per_node[node_name]) \in Pods
    BY <2>1, FrontLast DEF TypeOK
  <2> QED BY <1>13, <2>1 DEF TypeOK, LocalsInv, IndexLastPod
<1>14. CASE ReadPriority
  BY <1>14 DEF TypeOK, LocalsInv, ReadPriority, NextPriority
<1>15. CASE Assign
  <2>1. pod_name \in Pods /\ node_name \in Nodes
    BY <1>15 DEF Assign, LocalsInv
  <2>2. Append(pods_per_node[node_name], pod_name) \in Seq(Pods)
    BY <2>1, AppendProperties DEF TypeOK
  <2>3. <<pod_name, reschedules[pod_name]>> \in Futures
    BY <2>1, FutureFacts DEF TypeOK
  <2>4. CASE OnNode(pod_name)
    BY <1>15, <2>4 DEF TypeOK, LocalsInv, Assign
  <2>5. CASE ~OnNode(pod_name)
    <3>1. pods_per_node' \in [Nodes -> Seq(Pods)]
      <4>1. pods_per_node' = [pods_per_node EXCEPT ![node_name] =
                                Append(pods_per_node[node_name], pod_name)]
        BY <1>15, <2>5 DEF Assign
      <4>2. pods_per_node \in [Nodes -> Seq(Pods)]
        BY DEF TypeOK
      <4> QED BY <2>1, <2>2, <4>1, <4>2
    <3>3. pods_priorities' \in [Pods -> Int \cup {None}]
      BY <1>15, <2>1, <2>5 DEF TypeOK, Assign
    <3>4. known_nodes' \in SUBSET Nodes
      BY <1>15, <2>1, <2>5 DEF TypeOK, Assign
    <3>5. TypeOK'
      BY <1>15, <2>3, <2>5, <3>1, <3>3, <3>4 DEF TypeOK, Assign
    <3>2. LocalsInv'
      BY <1>15, <2>3, <2>5 DEF Assign, LocalsInv
    <3> QED BY <3>2, <3>5
  <2> QED BY <2>4, <2>5
<1>16. CASE Submit
  BY <1>16 DEF TypeOK, LocalsInv, Submit
<1>17. CASE Register
  BY <1>17 DEF TypeOK, LocalsInv, Register, IsDone, CallbackGoto, Callbacks
<1>18. CASE ReturnFromCallback
  BY <1>18 DEF TypeOK, LocalsInv, ReturnFromCallback
<1>19. CASE Stop
  <2>1. /\ running' \in BOOLEAN
        /\ UNCHANGED <<queueVars, nodeVars, global_lock, futures, workerVars, scan,
                       pod_name, choiceVars, waitVars>>
    BY <1>19 DEF Stop
  <2>2. main' \in MainStates /\ (main' = main \/ main' = "crashed")
    BY <1>19 DEF Stop, StopRaises, TypeOK
  <2>3. callback' \in [Futures -> Callbacks]
    <3>1. UNCHANGED callback \/ Raise(future)
      BY <1>19 DEF Stop, StopRaises
    <3> QED BY <3>1 DEF TypeOK, Raise, CallbackGoto, Callbacks
  <2>4. TypeOK'
    BY <2>1, <2>2, <2>3, TypeFrame DEF TypeOK
  <2>5. LocalsInv'
    BY <2>1, <2>2 DEF LocalsInv
  <2> QED BY <2>4, <2>5
<1>20. ASSUME NEW f \in Futures, ScheduleFails(f)
      PROVE  TypeOK' /\ LocalsInv'
  BY <1>20 DEF TypeOK, LocalsInv, ScheduleFails, WorkerGoto
<1>21. ASSUME NEW f \in Futures, ScheduleSkips(f)
      PROVE  TypeOK' /\ LocalsInv'
  BY <1>21 DEF TypeOK, LocalsInv, ScheduleSkips, WorkerGoto
<1>22. ASSUME NEW f \in Futures, StartEstimation(f)
      PROVE  TypeOK' /\ LocalsInv'
  <2>1. PodOf(f) \in Pods
    BY FutureFacts
  <2>2. phase' \in [Pods -> Phases] /\ run' \in [Futures -> RunStates]
    BY <1>22, <2>1 DEF TypeOK, StartEstimation, WorkerGoto
  <2> QED BY <1>22, <2>2 DEF TypeOK, LocalsInv, StartEstimation, WorkerGoto
<1>23. ASSUME NEW f \in Futures, FinishEstimation(f)
      PROVE  TypeOK' /\ LocalsInv'
  <2>1. PodOf(f) \in Pods
    BY FutureFacts
  <2>2. phase' \in [Pods -> Phases] /\ run' \in [Futures -> RunStates]
    BY <1>23, <2>1 DEF TypeOK, FinishEstimation, WorkerGoto
  <2> QED BY <1>23, <2>2 DEF TypeOK, LocalsInv, FinishEstimation, WorkerGoto
<1>24. ASSUME NEW f \in Futures, EndEstimation(f)
      PROVE  TypeOK' /\ LocalsInv'
  BY <1>24 DEF TypeOK, LocalsInv, EndEstimation, WorkerGoto
<1>25. ASSUME NEW f \in Futures, FetchLogsRaises(f)
      PROVE  TypeOK' /\ LocalsInv'
  BY <1>25 DEF TypeOK, LocalsInv, FetchLogsRaises, WorkerGoto
<1>26. ASSUME NEW f \in Futures, DeletePod(f)
      PROVE  TypeOK' /\ LocalsInv'
  BY <1>26 DEF TypeOK, LocalsInv, DeletePod, WorkerGoto
<1>27. ASSUME NEW f \in Futures, CleanStates(f)
      PROVE  TypeOK' /\ LocalsInv'
  <2>1. \E state \in Callbacks : CallbackGoto(f, state)
    BY <1>27 DEF CleanStates, Raise, Callbacks
  <2>2. callback' \in [Futures -> Callbacks]
    BY <2>1, CallbackType
  <2>3. phase' \in [Pods -> Phases]
    BY <1>27, FutureFacts DEF TypeOK, CleanStates, ForgetPhases
  <2> QED BY <1>27, <2>2, <2>3 DEF TypeOK, LocalsInv, CleanStates
<1>28. ASSUME NEW f \in Futures, BeginScan(f)
      PROVE  TypeOK' /\ LocalsInv'
  <2>1. \E state \in Callbacks : CallbackGoto(f, state)
    BY <1>28 DEF BeginScan, Raise, Callbacks
  <2>2. callback' \in [Futures -> Callbacks]
    BY <2>1, CallbackType
  <2>3. scan' \in [Futures -> SUBSET Nodes]
    BY <1>28 DEF TypeOK, BeginScan
  <2> QED BY <1>28, <2>2, <2>3 DEF TypeOK, LocalsInv, BeginScan
<1>29. ASSUME NEW f \in Futures, RemoveFromNode(f)
      PROVE  TypeOK' /\ LocalsInv'
  <2>1. \A n \in Nodes : \A i \in DOMAIN pods_per_node[n] :
          RemoveAt(pods_per_node[n], i) \in Seq(Pods)
    BY RemoveAtElements DEF TypeOK
  <2>2. pods_per_node' \in [Nodes -> Seq(Pods)]
    <3>1. CASE UNCHANGED pods_per_node
      BY <3>1 DEF TypeOK
    <3>2. CASE \E n \in Nodes : \E i \in DOMAIN pods_per_node[n] :
                 pods_per_node' = [pods_per_node EXCEPT ![n] = RemoveAt(@, i)]
      BY <2>1, <3>2 DEF TypeOK
    <3> QED BY <1>29, <3>1, <3>2 DEF RemoveFromNode
  <2>3. callback' \in [Futures -> Callbacks]
    <3>1. \E state \in Callbacks : CallbackGoto(f, state)
      BY <1>29 DEF RemoveFromNode, Raise, Callbacks
    <3> QED BY <3>1, CallbackType
  <2>4. scan' \in [Futures -> SUBSET Nodes]
    BY <1>29 DEF TypeOK, RemoveFromNode
  <2>5. UNCHANGED <<queueVars, known_nodes, pods_priorities, global_lock, running,
                    futures, workerVars, mainVars>>
    BY <1>29 DEF RemoveFromNode
  <2>6. TypeOK'
    BY <2>2, <2>3, <2>4, <2>5, TypeFrame DEF TypeOK
  <2>7. LocalsInv'
    BY <2>5 DEF LocalsInv
  <2> QED BY <2>6, <2>7
<1>30. ASSUME NEW f \in Futures, DropPriority(f)
      PROVE  TypeOK' /\ LocalsInv'
  <2>1. \E state \in Callbacks : CallbackGoto(f, state)
    BY <1>30 DEF DropPriority, Raise, Callbacks
  <2>2. callback' \in [Futures -> Callbacks]
    BY <2>1, CallbackType
  <2>3. pods_priorities' \in [Pods -> Int \cup {None}]
    BY <1>30, FutureFacts DEF TypeOK, DropPriority
  <2> QED BY <1>30, <2>2, <2>3 DEF TypeOK, LocalsInv, DropPriority
<1>31. ASSUME NEW f \in Futures, AcquireCallback(f)
      PROVE  TypeOK' /\ LocalsInv'
  <2>1. \E state \in Callbacks : CallbackGoto(f, state)
    BY <1>31 DEF AcquireCallback, Raise, Callbacks
  <2>2. callback' \in [Futures -> Callbacks]
    BY <2>1, CallbackType
  <2> QED BY <1>31, <2>2 DEF TypeOK, LocalsInv, AcquireCallback
<1>32. ASSUME NEW f \in Futures, RescheduleOrComplete(f)
      PROVE  TypeOK' /\ LocalsInv'
  <2>1. PodOf(f) \in Pods
    BY FutureFacts
  <2>2. pods_work_queue' \in Seq(Pods) /\ pods_done' \in Seq(Pods)
    <3>1. /\ Append(pods_work_queue, PodOf(f)) \in Seq(Pods)
          /\ Append(pods_done, PodOf(f)) \in Seq(Pods)
      BY <2>1, AppendProperties DEF TypeOK
    <3> QED BY <1>32, <3>1 DEF TypeOK, RescheduleOrComplete
  <2>3. reschedules' \in [Pods -> 0..MaxReschedules]
    <3>1. CASE UNCHANGED reschedules
      BY <3>1 DEF TypeOK
    <3>2. CASE /\ reschedules[PodOf(f)] < MaxReschedules
               /\ reschedules' = [reschedules EXCEPT ![PodOf(f)] = @ + 1]
      <4>1. reschedules[PodOf(f)] + 1 \in 0..MaxReschedules
        BY <2>1, <3>2 DEF TypeOK
      <4> QED BY <2>1, <3>2, <4>1 DEF TypeOK
    <3> QED BY <1>32, <3>1, <3>2 DEF RescheduleOrComplete, MayReschedule
  <2>4. callback' \in [Futures -> Callbacks]
    <3>1. \E state \in Callbacks : CallbackGoto(f, state)
      BY <1>32 DEF RescheduleOrComplete, Callbacks
    <3> QED BY <3>1, CallbackType
  <2>5. TypeOK'
    <3>1. UNCHANGED <<nodeVars, global_lock, running, futures, workerVars, scan,
                      mainVars>>
      BY <1>32 DEF RescheduleOrComplete
    <3> QED BY <2>2, <2>3, <2>4, <3>1, TypeFrame DEF TypeOK
  <2>6. LocalsInv'
    <3>1. UNCHANGED mainVars
      BY <1>32 DEF RescheduleOrComplete
    <3> QED BY <3>1 DEF LocalsInv
  <2> QED BY <2>5, <2>6
<1>33. ASSUME NEW f \in Futures, ReleaseCallback(f)
      PROVE  TypeOK' /\ LocalsInv'
  <2>1. \E state \in Callbacks : CallbackGoto(f, state)
    BY <1>33 DEF ReleaseCallback, Raise, Callbacks
  <2>2. callback' \in [Futures -> Callbacks]
    BY <2>1, CallbackType
  <2>3. global_lock' \in BOOLEAN
    BY <1>33 DEF ReleaseCallback
  <2>4. TypeOK'
    BY <1>33, <2>2, <2>3 DEF TypeOK, ReleaseCallback
  <2>5. LocalsInv'
    BY <1>33 DEF LocalsInv, ReleaseCallback
  <2> QED BY <2>4, <2>5
<1>34. CASE UNCHANGED vars
  BY <1>34 DEF TypeOK, LocalsInv, vars
<1> QED
  BY <1>1, <1>2, <1>3, <1>4, <1>5, <1>6, <1>7, <1>8, <1>9, <1>10, <1>11,
     <1>12, <1>13, <1>14, <1>15, <1>16, <1>17, <1>18, <1>19, <1>20, <1>21,
     <1>22, <1>23, <1>24, <1>25, <1>26, <1>27, <1>28, <1>29, <1>30, <1>31,
     <1>32, <1>33, <1>34
  DEF Next, MainStep, Worker, Callback, PickBulk, PickSequence,
      SleepAndRetry, Finished

(* The variables have their types when Scheduler.run begins.               *)
LEMMA TypeInit == Init => TypeOK /\ LocalsInv
<1> SUFFICES ASSUME Init
             PROVE  TypeOK /\ LocalsInv
  OBVIOUS
<1>1. pods_work_queue \in Seq(Pods)
  <2>1. Cardinality(Pods) \in Nat
    BY SchedulerAssumption, FS_CardinalityType
  <2>2. pods_work_queue \in [1..Cardinality(Pods) -> Pods]
    BY DEF Init
  <2> QED BY <2>1, <2>2, SeqDef
<1>2. <<>> \in Seq(Pods)
  BY EmptySeq
<1>3. 0 \in 0..MaxReschedules
  BY SchedulerAssumption
<1> QED
  BY <1>1, <1>2, <1>3, SchedulerAssumption
  DEF Init, TypeOK, LocalsInv, Phases, RunStates, Outcomes, Callbacks,
      MainStates, Terminated

(* Type correctness of the scheduler, for every number of pods and nodes.  *)
THEOREM TypeCorrect == Spec => []TypeOK
<1>1. TypeOK /\ LocalsInv /\ [Next]_vars => TypeOK' /\ LocalsInv'
  BY TypeStep
<1> QED BY <1>1, TypeInit, PTL DEF Spec

-----------------------------------------------------------------------------
(* The places of the pods *)

(* The current run of a pod is a future, and a future of the current run   *)
(* is the only one.                                                        *)
LEMMA CurrentFacts ==
  ASSUME TypeOK
  PROVE  /\ \A p \in Pods : /\ reschedules[p] \in 0..MaxReschedules
                            /\ CurrentRun(p) \in Futures
                            /\ PodOf(CurrentRun(p)) = p
         /\ \A f \in Futures : RunOf(f) = reschedules[PodOf(f)]
                                 => f = CurrentRun(PodOf(f))
BY FutureFacts DEF TypeOK, CurrentRun

(* A step does not touch the pod q. *)
SamePod(q) ==
  /\ reschedules'[q] = reschedules[q]
  /\ phase'[q] = phase[q]
  /\ pods_priorities'[q] = pods_priorities[q]
  /\ \A k \in 0..MaxReschedules : /\ run'[<<q, k>>] = run[<<q, k>>]
                                  /\ callback'[<<q, k>>] = callback[<<q, k>>]
  /\ InSeq(q, pods_work_queue)' <=> InSeq(q, pods_work_queue)
  /\ Held(q)' <=> Held(q)
  /\ OnNode(q)' <=> OnNode(q)
  /\ InSeq(q, pods_done)' <=> InSeq(q, pods_done)
  /\ Unregistered(q) => Unregistered(q)'

(* A step that does not touch a pod keeps its part of the invariant.       *)
LEMMA PodFrame ==
  ASSUME TypeOK, NEW q \in Pods, PodOK(q), SamePod(q)
  PROVE  PodOK(q)'
<1> DEFINE r == reschedules[q]
           f == <<q, r>>
<1>1. /\ r \in 0..MaxReschedules
      /\ CurrentRun(q) = f
      /\ CurrentRun(q)' = f
      /\ run'[f] = run[f]
      /\ callback'[f] = callback[f]
  BY DEF TypeOK, SamePod, CurrentRun
<1>2. RunsOK(q)'
  BY <1>1 DEF PodOK, RunsOK, SamePod
<1> HIDE DEF r, f
<1>3. Waiting(q)' <=> Waiting(q)
  BY DEF Waiting, SamePod
<1>4. WaitingOK(q)'
  BY <1>1, <1>3 DEF PodOK, WaitingOK, SamePod
<1>5. AssignedOK(q)'
  BY <1>1 DEF PodOK, AssignedOK, SamePod
<1>6. DoneOK(q)'
  BY <1>1 DEF PodOK, DoneOK, SamePod
<1>7. CleanupOK(q)'
  BY <1>1 DEF PodOK, CleanupOK, SamePod
<1>8. SomewhereOK(q)'
  BY <1>1, <1>3 DEF PodOK, SomewhereOK, SamePod
<1> QED BY <1>2, <1>4, <1>5, <1>6, <1>7, <1>8 DEF PodOK

(* The steps of the main thread that move no pod. *)
QuietStep ==
  /\ UNCHANGED <<queueVars, pods_per_node, pods_priorities, pod_name, run,
                 callback, phase>>
  /\ main \notin {"submit", "register", "crashed"}
  /\ main' \notin {"submit", "register", "inline"}

(* Steps of Scheduler.run that move no pod keep the invariant.             *)
LEMMA QuietLemma ==
  ASSUME TypeOK, PodInv, QuietStep, LocalsInv'
  PROVE  PodInv'
<1>1. ASSUME NEW q \in Pods
      PROVE  PodOK(q)'
  <2>1. OnNode(q)' <=> OnNode(q)
    BY DEF QuietStep, OnNode
  <2>2. SamePod(q)
    BY <2>1 DEF QuietStep, SamePod, queueVars, Held, Unregistered
  <2> QED BY <2>2, PodFrame DEF PodInv
<1>2. UniqueInv'
  BY DEF PodInv, UniqueInv, QuietStep, queueVars
<1>3. SubmitInv'
  BY DEF QuietStep, SubmitInv
<1> QED BY <1>1, <1>2, <1>3 DEF PodInv

(* A step that changes the worker, the callback, the phase or the priority *)
(* of one future, and no place of a pod.                                   *)
FutureStep(f) ==
  /\ UNCHANGED <<queueVars, pods_per_node, main, pod_name, future>>
  /\ \A g \in Futures \ {f} : run'[g] = run[g] /\ callback'[g] = callback[g]
  /\ \A q \in Pods \ {PodOf(f)} : /\ phase'[q] = phase[q]
                                  /\ pods_priorities'[q] = pods_priorities[q]

(* A step of one run keeps the invariant of the pods of all others, and    *)
(* every pod in its place.                                                 *)
LEMMA FutureFrame ==
  ASSUME TypeOK, PodInv, NEW f \in Futures, FutureStep(f), LocalsInv'
  PROVE  /\ \A q \in Pods \ {PodOf(f)} : PodOK(q)'
         /\ UniqueInv'
         /\ \A q \in Pods : /\ InSeq(q, pods_work_queue)' <=> InSeq(q, pods_work_queue)
                            /\ Waiting(q)' <=> Waiting(q)
                            /\ OnNode(q)' <=> OnNode(q)
                            /\ InSeq(q, pods_done)' <=> InSeq(q, pods_done)
                            /\ Unregistered(q)' <=> Unregistered(q)
                            /\ Held(q)' <=> Held(q)
                            /\ CurrentRun(q)' = CurrentRun(q)
<1>1. ASSUME NEW q \in Pods
      PROVE  /\ InSeq(q, pods_work_queue)' <=> InSeq(q, pods_work_queue)
             /\ Waiting(q)' <=> Waiting(q)
             /\ OnNode(q)' <=> OnNode(q)
             /\ InSeq(q, pods_done)' <=> InSeq(q, pods_done)
             /\ Unregistered(q)' <=> Unregistered(q)
             /\ Held(q)' <=> Held(q)
             /\ CurrentRun(q)' = CurrentRun(q)
  BY DEF FutureStep, queueVars, Waiting, Held, OnNode, Unregistered, CurrentRun
<1>2. ASSUME NEW q \in Pods \ {PodOf(f)}
      PROVE  PodOK(q)'
  <2>1. \A k \in 0..MaxReschedules : <<q, k>> \in Futures \ {f}
    BY FutureFacts
  <2>2. SamePod(q)
    BY <1>1, <2>1 DEF FutureStep, SamePod, queueVars
  <2> QED BY <2>2, PodFrame DEF PodInv
<1>3. UniqueInv'
  BY DEF PodInv, UniqueInv, FutureStep, queueVars
<1> QED BY <1>1, <1>2, <1>3

(* A step of run_estimator keeps the invariant: it only happens in the     *)
(* current run of its pod, before the cleanup of that run.                 *)
LEMMA WorkerPreserves ==
  ASSUME TypeOK, PodInv, LocalsInv', NEW f \in Futures,
         run[f] \notin {"idle", "done"},
         NEW to \in RunStates \ {"idle"},
         run' = [run EXCEPT ![f] = to],
         \A q \in Pods \ {PodOf(f)} : phase'[q] = phase[q],
         UNCHANGED <<queueVars, pods_per_node, pods_priorities, callback, main,
                     pod_name, future>>
  PROVE  PodInv'
<1> DEFINE p == PodOf(f)
           k == RunOf(f)
<1>1. p \in Pods /\ k \in 0..MaxReschedules /\ f = <<p, k>>
  BY FutureFacts
<1>2. reschedules[p] \in 0..MaxReschedules
  BY <1>1 DEF TypeOK
<1>3. PodOK(p)
  BY <1>1 DEF PodInv
<1> HIDE DEF p, k
<1>4. /\ k = reschedules[p]
      /\ f = CurrentRun(p)
      /\ callback[f] \in {"none", "registered"}
  <2>1. k = reschedules[p]
    BY <1>1, <1>2, <1>3 DEF PodOK, RunsOK
  <2> QED BY <1>1, <1>3, <2>1 DEF PodOK, RunsOK, CurrentRun
<1>5. ~Waiting(p) /\ ~InSeq(p, pods_done)
  BY <1>3, <1>4 DEF PodOK, WaitingOK, DoneOK
<1>6. FutureStep(f)
  BY <1>1 DEF FutureStep, TypeOK, p
<1>7. /\ Waiting(p)' <=> Waiting(p)
      /\ OnNode(p)' <=> OnNode(p)
      /\ InSeq(p, pods_done)' <=> InSeq(p, pods_done)
      /\ Unregistered(p)' <=> Unregistered(p)
      /\ CurrentRun(p)' = CurrentRun(p)
      /\ UniqueInv'
      /\ \A q \in Pods \ {p} : PodOK(q)'
  BY <1>1, <1>6, FutureFrame DEF p
<1>8. PodOK(p)'
  <2>1. /\ callback'[f] = callback[f]
        /\ pods_priorities'[p] = pods_priorities[p]
        /\ reschedules'[p] = reschedules[p]
    BY DEF queueVars
  <2>2. RunsOK(p)'
    <3>1. \A j \in 0..MaxReschedules : j # k => run'[<<p, j>>] = run[<<p, j>>]
      BY <1>1, FutureFacts DEF TypeOK
    <3> QED BY <1>1, <1>3, <1>4, <2>1, <3>1 DEF PodOK, RunsOK
  <2>3. WaitingOK(p)' /\ DoneOK(p)'
    BY <1>5, <1>7 DEF WaitingOK, DoneOK
  <2>4. AssignedOK(p)' /\ SomewhereOK(p)'
    BY <1>3, <1>4, <1>7, <2>1 DEF PodOK, AssignedOK, SomewhereOK
  <2>5. CleanupOK(p)'
    BY <1>4, <1>7, <2>1 DEF CleanupOK
  <2> QED BY <2>2, <2>3, <2>4, <2>5 DEF PodOK
<1>9. SubmitInv'
  <2>1. main' = main /\ future' = future /\ callback' = callback
    OBVIOUS
  <2>2. CASE main \in {"submit", "register"}
    <3>1. future \in Futures
      BY <2>2 DEF PodInv, LocalsInv
    <3>2. /\ CurrentRun(PodOf(future))' = CurrentRun(PodOf(future))
          /\ OnNode(PodOf(future))' <=> OnNode(PodOf(future))
      BY <1>6, <2>1, <3>1, FutureFacts, FutureFrame
    <3>3. run'[future] = "idle" <=> run[future] = "idle"
      BY <3>1 DEF TypeOK
    <3> QED BY <2>1, <2>2, <3>2, <3>3 DEF PodInv, SubmitInv
  <2>3. CASE main = "inline"
    <3>1. future \in Futures /\ run[future] = "done"
      BY <2>3 DEF PodInv, LocalsInv, SubmitInv
    <3>2. run'[future] = run[future]
      BY <3>1 DEF TypeOK
    <3> QED BY <2>1, <2>3, <3>2 DEF PodInv, SubmitInv
  <2> QED BY <2>1, <2>2, <2>3 DEF SubmitInv
<1> QED BY <1>1, <1>7, <1>8, <1>9 DEF PodInv

(* A future in its cleanup is that of the current run of its pod, which is *)
(* not waiting.                                                            *)
LEMMA CleaningIsCurrent ==
  ASSUME TypeOK, PodInv, NEW f \in Futures, callback[f] \notin {"none"} \cup Ended
  PROVE  /\ f = CurrentRun(PodOf(f))
         /\ RunOf(f) = reschedules[PodOf(f)]
         /\ ~Waiting(PodOf(f))
         /\ ~InSeq(PodOf(f), pods_done)
<1> DEFINE p == PodOf(f)
           k == RunOf(f)
<1>1. p \in Pods /\ k \in 0..MaxReschedules /\ f = <<p, k>>
  BY FutureFacts
<1>2. reschedules[p] \in 0..MaxReschedules /\ PodOK(p)
  BY <1>1 DEF TypeOK, PodInv
<1>3. k = reschedules[p]
  <2> HIDE DEF p, k
  <2> QED BY <1>1, <1>2 DEF PodOK, RunsOK
<1>4. f = CurrentRun(p)
  BY <1>1, <1>3 DEF CurrentRun
<1> HIDE DEF p, k
<1>5. ~Waiting(p) /\ ~InSeq(p, pods_done)
  BY <1>2, <1>4 DEF PodOK, WaitingOK, DoneOK
<1> QED BY <1>3, <1>4, <1>5 DEF p, k

(* A step of done_estimation_callback keeps the invariant when it keeps    *)
(* the part about the pod of the current run.                              *)
LEMMA CallbackPreserves ==
  ASSUME TypeOK, PodInv, LocalsInv', NEW f \in Futures,
         run[f] = "done", callback[f] # "none",
         NEW c \in Callbacks \ {"none", "registered"},
         callback' = [callback EXCEPT ![f] = c],
         UNCHANGED <<queueVars, pods_per_node, run, main, pod_name, future>>,
         \A q \in Pods \ {PodOf(f)} : /\ phase'[q] = phase[q]
                                      /\ pods_priorities'[q] = pods_priorities[q],
         f # CurrentRun(PodOf(f)) =>
           c \in Ended /\ UNCHANGED <<phase, pods_priorities>>,
         f = CurrentRun(PodOf(f)) =>
           /\ AssignedOK(PodOf(f))'
           /\ DoneOK(PodOf(f))'
           /\ CleanupOK(PodOf(f))'
           /\ SomewhereOK(PodOf(f))'
  PROVE  PodInv'
<1> DEFINE p == PodOf(f)
           k == RunOf(f)
<1>1. p \in Pods /\ k \in 0..MaxReschedules /\ f = <<p, k>>
  BY FutureFacts
<1>2. reschedules[p] \in 0..MaxReschedules /\ PodOK(p)
  BY <1>1 DEF TypeOK, PodInv
<1>3. FutureStep(f)
  BY <1>1 DEF FutureStep, TypeOK
<1>4. /\ InSeq(p, pods_work_queue)' <=> InSeq(p, pods_work_queue)
      /\ Waiting(p)' <=> Waiting(p)
      /\ OnNode(p)' <=> OnNode(p)
      /\ InSeq(p, pods_done)' <=> InSeq(p, pods_done)
      /\ Unregistered(p)' <=> Unregistered(p)
      /\ Held(p)' <=> Held(p)
      /\ CurrentRun(p)' = CurrentRun(p)
      /\ UniqueInv'
      /\ \A q \in Pods \ {p} : PodOK(q)'
  BY <1>1, <1>3, FutureFrame
<1>5. CurrentRun(p) \in Futures /\ CurrentRun(p) = <<p, reschedules[p]>>
  BY <1>1, CurrentFacts DEF CurrentRun
<1> HIDE DEF k
<1>6. \A j \in 0..MaxReschedules : j # k => callback'[<<p, j>>] = callback[<<p, j>>]
  BY <1>1, FutureFacts DEF TypeOK
<1>7. callback'[f] = c /\ run' = run /\ reschedules' = reschedules
  BY DEF TypeOK, queueVars
<1> HIDE DEF p
<1>8. PodOK(p)'
  <2>1. CASE f = CurrentRun(p)
    <3>1. k = reschedules[p]
      BY <1>1, <1>5, <2>1
    <3>2. RunsOK(p)'
      BY <1>1, <1>2, <1>6, <1>7, <3>1 DEF PodOK, RunsOK
    <3>3. ~Waiting(p)
      BY <1>2, <2>1 DEF PodOK, WaitingOK
    <3>4. WaitingOK(p)'
      BY <1>4, <3>3 DEF WaitingOK
    <3> QED BY <2>1, <3>2, <3>4 DEF PodOK, p
  <2>2. CASE f # CurrentRun(p)
    <3>1. c \in Ended /\ phase' = phase /\ pods_priorities' = pods_priorities
      BY <2>2 DEF p
    <3>2. callback'[CurrentRun(p)] = callback[CurrentRun(p)]
      BY <1>5, <2>2 DEF TypeOK
    <3>3. k < reschedules[p]
      BY <1>1, <1>2, <1>5, <2>2 DEF PodOK, RunsOK
    <3>4. RunsOK(p)'
      BY <1>1, <1>2, <1>6, <1>7, <3>1, <3>3 DEF PodOK, RunsOK
    <3>5. WaitingOK(p)'
      BY <1>2, <1>4, <1>7, <3>1, <3>2 DEF PodOK, WaitingOK
    <3>6. AssignedOK(p)' /\ DoneOK(p)'
      BY <1>2, <1>4, <1>7, <3>1, <3>2 DEF PodOK, AssignedOK, DoneOK
    <3>7. CleanupOK(p)' /\ SomewhereOK(p)'
      BY <1>2, <1>4, <1>7, <3>1, <3>2 DEF PodOK, CleanupOK, SomewhereOK
    <3> QED BY <3>4, <3>5, <3>6, <3>7 DEF PodOK
  <2> QED BY <2>1, <2>2
<1>9. SubmitInv'
  <2>1. CASE main \in {"submit", "register"}
    <3>1. /\ future \in Futures
          /\ callback[future] = "none"
          /\ future # f
      BY <2>1 DEF PodInv, LocalsInv, SubmitInv
    <3>2. /\ CurrentRun(PodOf(future))' = CurrentRun(PodOf(future))
          /\ OnNode(PodOf(future))' <=> OnNode(PodOf(future))
      BY <1>3, <3>1, FutureFacts, FutureFrame
    <3>3. callback'[future] = callback[future]
      BY <3>1 DEF TypeOK
    <3> QED BY <2>1, <3>2, <3>3 DEF PodInv, SubmitInv
  <2>2. CASE main = "inline"
    <3>1. future \in Futures /\ run[future] = "done" /\ callback[future] # "none"
      BY <2>2 DEF PodInv, LocalsInv, SubmitInv
    <3>2. callback'[future] # "none"
      BY <3>1 DEF TypeOK
    <3> QED BY <2>2, <3>1, <3>2 DEF SubmitInv
  <2> QED BY <2>1, <2>2 DEF SubmitInv
<1> QED BY <1>1, <1>4, <1>8, <1>9 DEF PodInv

(* remove_pod_from_schedule_state takes the pod off its only node.         *)
LEMMA RemovePreserves ==
  ASSUME TypeOK, PodInv, LocalsInv', NEW f \in Futures,
         callback[f] = "remove",
         callback' = [callback EXCEPT ![f] = "priority"],
         NEW n \in Nodes, NEW i \in DOMAIN pods_per_node[n],
         pods_per_node[n][i] = PodOf(f),
         pods_per_node' = [pods_per_node EXCEPT ![n] = RemoveAt(@, i)],
         UNCHANGED <<queueVars, pods_priorities, workerVars, main, pod_name,
                     future>>
  PROVE  PodInv'
<1> DEFINE p == PodOf(f)
           k == RunOf(f)
<1>1. /\ p \in Pods /\ k \in 0..MaxReschedules /\ f = <<p, k>>
      /\ reschedules[p] \in 0..MaxReschedules
  BY FutureFacts DEF TypeOK
<1>2. /\ f = CurrentRun(p)
      /\ k = reschedules[p]
      /\ ~Waiting(p)
      /\ ~InSeq(p, pods_done)
  BY CleaningIsCurrent DEF Ended
<1>3. PodOK(p)
  BY <1>1 DEF PodInv
<1>4. \A m \in Nodes : \A q : InSeq(q, pods_per_node'[m])
                                <=> InSeq(q, pods_per_node[m]) /\ ~(m = n /\ q = p)
  <2>1. NoDuplicates(pods_per_node[n]) /\ pods_per_node[n] \in Seq(Pods)
    BY DEF PodInv, UniqueInv, TypeOK
  <2>2. \A q : InSeq(q, RemoveAt(pods_per_node[n], i))
                 <=> InSeq(q, pods_per_node[n]) /\ q # p
    BY <2>1, RemoveAtList
  <2>3. \A m \in Nodes : pods_per_node'[m] = IF m = n THEN RemoveAt(pods_per_node[n], i)
                                                      ELSE pods_per_node[m]
    BY DEF TypeOK
  <2> QED BY <2>2, <2>3
<1>5. InSeq(p, pods_per_node[n])
  BY DEF InSeq
<1>6. UniqueInv'
  <2>1. \A m \in Nodes : NoDuplicates(pods_per_node'[m])
    <3>1. NoDuplicates(pods_per_node[n]) /\ pods_per_node[n] \in Seq(Pods)
      BY DEF PodInv, UniqueInv, TypeOK
    <3>2. NoDuplicates(RemoveAt(pods_per_node[n], i))
      BY <3>1, RemoveAtList
    <3>3. \A m \in Nodes : pods_per_node'[m] = IF m = n THEN RemoveAt(pods_per_node[n], i)
                                                        ELSE pods_per_node[m]
      BY DEF TypeOK
    <3> QED BY <3>2, <3>3 DEF PodInv, UniqueInv
  <2>2. \A l, m \in Nodes : \A q \in Pods :
          InSeq(q, pods_per_node'[l]) /\ InSeq(q, pods_per_node'[m]) => l = m
    BY <1>4 DEF PodInv, UniqueInv
  <2>3. pods_work_queue' = pods_work_queue /\ pods_done' = pods_done
    BY DEF queueVars
  <2> QED BY <2>1, <2>2, <2>3 DEF PodInv, UniqueInv
<1>7. \A q \in Pods : OnNode(q)' <=> OnNode(q) /\ q # p
  <2>1. ~OnNode(p)'
    BY <1>1, <1>4, <1>5 DEF OnNode, PodInv, UniqueInv
  <2>2. ASSUME NEW q \in Pods, q # p
        PROVE  OnNode(q)' <=> OnNode(q)
    BY <1>4, <2>2 DEF OnNode
  <2> QED BY <2>1, <2>2
<1> HIDE DEF p, k
<1>8. ASSUME NEW q \in Pods, q # p
      PROVE  PodOK(q)'
  <2>1. \A j \in 0..MaxReschedules : <<q, j>> \in Futures /\ <<q, j>> # f
    BY <1>1, <1>8, FutureFacts
  <2>2. \A j \in 0..MaxReschedules : callback'[<<q, j>>] = callback[<<q, j>>]
    BY <2>1 DEF TypeOK
  <2>3. (Held(q)' <=> Held(q)) /\ (Unregistered(q)' <=> Unregistered(q))
    BY DEF Held, Unregistered, CurrentRun, queueVars
  <2>4. SamePod(q)
    BY <1>7, <1>8, <2>2, <2>3 DEF SamePod, queueVars, workerVars
  <2> QED BY <2>4, PodFrame DEF PodInv
<1>9. PodOK(p)'
  <2>1. /\ callback'[f] = "priority" /\ run' = run /\ phase' = phase
        /\ reschedules' = reschedules /\ pods_priorities' = pods_priorities
        /\ CurrentRun(p)' = f
    BY <1>2 DEF TypeOK, queueVars, workerVars, CurrentRun
  <2>2. \A j \in 0..MaxReschedules : j # k => callback'[<<p, j>>] = callback[<<p, j>>]
    BY <1>1, FutureFacts DEF TypeOK
  <2>3. RunsOK(p)'
    <3>1. run[f] = "done"
      BY <1>1, <1>3 DEF PodOK, RunsOK
    <3> QED BY <1>1, <1>2, <1>3, <2>1, <2>2, <3>1 DEF PodOK, RunsOK
  <2>4. WaitingOK(p)'
    BY <1>2 DEF WaitingOK, Waiting, Held, queueVars
  <2>5. AssignedOK(p)' /\ DoneOK(p)'
    BY <1>1, <1>2, <1>7 DEF AssignedOK, DoneOK, queueVars
  <2>6. CleanupOK(p)' /\ SomewhereOK(p)'
    BY <1>2, <1>3, <2>1 DEF PodOK, CleanupOK, SomewhereOK
  <2> QED BY <2>3, <2>4, <2>5, <2>6 DEF PodOK
<1>10. SubmitInv'
  <2>1. CASE main \in {"submit", "register"}
    <3>1. /\ future \in Futures
          /\ callback[future] = "none"
          /\ future = CurrentRun(PodOf(future))
          /\ OnNode(PodOf(future))
          /\ PodOf(future) # p
          /\ future # f
      BY <1>2, <2>1 DEF PodInv, LocalsInv, SubmitInv
    <3>2. OnNode(PodOf(future))' /\ CurrentRun(PodOf(future))' = future
      BY <1>7, <3>1, FutureFacts DEF CurrentRun, queueVars
    <3>3. callback'[future] = callback[future]
      BY <3>1 DEF TypeOK
    <3> QED BY <2>1, <3>1, <3>2, <3>3 DEF PodInv, SubmitInv, workerVars
  <2>2. CASE main = "inline"
    <3>1. future \in Futures /\ run[future] = "done" /\ callback[future] # "none"
      BY <2>2 DEF PodInv, LocalsInv, SubmitInv
    <3>2. callback'[future] # "none"
      BY <3>1 DEF TypeOK
    <3> QED BY <2>2, <3>1, <3>2 DEF SubmitInv, workerVars
  <2> QED BY <2>1, <2>2 DEF SubmitInv
<1> QED BY <1>1, <1>6, <1>8, <1>9, <1>10 DEF PodInv

(* reschedule_or_complete queues a pod that is clean and on no node, or    *)
(* appends to pods_done one that is not there yet.                         *)
LEMMA DecidePreserves ==
  ASSUME TypeOK, PodInv, LocalsInv', NEW f \in Futures, RescheduleOrComplete(f)
  PROVE  PodInv'
<1> DEFINE p == PodOf(f)
           k == RunOf(f)
<1>1. /\ p \in Pods /\ k \in 0..MaxReschedules /\ f = <<p, k>>
      /\ reschedules[p] \in 0..MaxReschedules
  BY FutureFacts DEF TypeOK
<1>2. callback[f] = "decide" /\ callback' = [callback EXCEPT ![f] = "release"]
  BY DEF RescheduleOrComplete, CallbackGoto
<1>3. /\ f = CurrentRun(p)
      /\ k = reschedules[p]
      /\ ~Waiting(p)
      /\ ~InSeq(p, pods_done)
  BY <1>2, CleaningIsCurrent DEF Ended
<1>4. PodOK(p)
  BY <1>1 DEF PodInv
<1>5. /\ UNCHANGED <<nodeVars, workerVars, main, pod_name, future>>
      /\ run[f] = "done" /\ phase[p] = "none" /\ pods_priorities[p] = None
      /\ ~OnNode(p)
  <2>1. UNCHANGED <<nodeVars, workerVars, main, pod_name, future>>
    BY DEF RescheduleOrComplete, mainVars, choiceVars
  <2> HIDE DEF p, k
  <2>2. run[f] = "done" /\ phase[p] = "none" /\ pods_priorities[p] = None /\ ~OnNode(p)
    BY <1>1, <1>2, <1>3, <1>4 DEF PodOK, RunsOK, CleanupOK, AssignedOK
  <2> QED BY <2>1, <2>2
<1>6. \A q \in Pods : (OnNode(q)' <=> OnNode(q)) /\ (Held(q)' <=> Held(q))
  BY <1>5 DEF OnNode, Held, nodeVars
<1>7. CASE /\ MayReschedule(f)
           /\ reschedules' = [reschedules EXCEPT ![p] = @ + 1]
           /\ pods_work_queue' = Append(pods_work_queue, p)
           /\ UNCHANGED pods_done
  <2>1. /\ reschedules'[p] = k + 1
        /\ k + 1 \in 0..MaxReschedules
        /\ \A q \in Pods : q # p => reschedules'[q] = reschedules[q]
    BY <1>1, <1>3, <1>7, SchedulerAssumption DEF TypeOK, MayReschedule
  <2>2. /\ \A q : InSeq(q, pods_work_queue') <=> InSeq(q, pods_work_queue) \/ q = p
        /\ NoDuplicates(pods_work_queue')
    <3>1. ~InSeq(p, pods_work_queue)
      BY <1>3 DEF Waiting
    <3>2. pods_work_queue \in Seq(Pods) /\ NoDuplicates(pods_work_queue)
      BY DEF TypeOK, PodInv, UniqueInv
    <3> QED BY <1>1, <1>7, <3>1, <3>2, AppendList
  <2>3. /\ InSeq(p, pods_done)' <=> InSeq(p, pods_done)
        /\ CurrentRun(p)' = <<p, k + 1>>
    BY <1>7, <2>1 DEF CurrentRun
  <2> HIDE DEF p, k
  <2>4. \A j \in 0..MaxReschedules :
          callback'[<<p, j>>] = IF j = k THEN "release" ELSE callback[<<p, j>>]
    BY <1>1, <1>2, FutureFacts DEF TypeOK
  <2>5. run[<<p, k + 1>>] = "idle" /\ callback[<<p, k + 1>>] = "none"
    BY <1>1, <1>3, <1>4, <2>1 DEF PodOK, RunsOK
  <2>6. run' = run /\ phase' = phase /\ pods_priorities' = pods_priorities
    BY <1>5 DEF workerVars, nodeVars
  <2>7. callback'[<<p, k + 1>>] = "none"
    BY <1>1, <2>1, <2>4, <2>5
  <2>8. RunsOK(p)'
    BY <1>1, <1>3, <1>4, <1>5, <2>1, <2>4, <2>6 DEF PodOK, RunsOK, Ended
  <2>9. WaitingOK(p)'
    <3>1. ~Held(p)'
      BY <1>1, <1>3, <1>6 DEF Waiting
    <3>2. ~OnNode(p)' /\ ~InSeq(p, pods_done)'
      BY <1>1, <1>3, <1>5, <1>6, <2>3
    <3> QED BY <1>5, <2>3, <2>5, <2>6, <2>7, <3>1, <3>2 DEF WaitingOK
  <2>10. AssignedOK(p)' /\ DoneOK(p)'
    BY <1>1, <1>3, <1>5, <1>6, <2>3 DEF AssignedOK, DoneOK
  <2>11. CleanupOK(p)' /\ SomewhereOK(p)'
    BY <2>2, <2>3, <2>7 DEF CleanupOK, SomewhereOK, Waiting
  <2>12. PodOK(p)'
    BY <2>8, <2>9, <2>10, <2>11 DEF PodOK
  <2>13. ASSUME NEW q \in Pods, q # p
         PROVE  PodOK(q)'
    <3>1. \A j \in 0..MaxReschedules : callback'[<<q, j>>] = callback[<<q, j>>]
      BY <1>1, <1>2, <2>13, FutureFacts DEF TypeOK
    <3>2. Unregistered(q)' <=> Unregistered(q)
      BY <1>5, <2>1, <2>13 DEF Unregistered, CurrentRun
    <3>3. SamePod(q)
      BY <1>6, <1>7, <2>1, <2>2, <2>6, <2>13, <3>1, <3>2 DEF SamePod
    <3> QED BY <3>3, PodFrame DEF PodInv
  <2>14. UniqueInv'
    BY <1>5, <1>7, <2>2 DEF PodInv, UniqueInv, nodeVars
  <2>15. SubmitInv'
    <3>1. CASE main \in {"submit", "register"}
      <4>1. /\ future \in Futures
            /\ callback[future] = "none"
            /\ future = CurrentRun(PodOf(future))
            /\ PodOf(future) # p
            /\ future # f
        BY <1>2, <1>3, <3>1 DEF PodInv, LocalsInv, SubmitInv
      <4>2. CurrentRun(PodOf(future))' = future /\ PodOf(future) \in Pods
        BY <1>5, <2>1, <4>1, FutureFacts DEF CurrentRun
      <4>3. callback'[future] = callback[future]
        BY <1>2, <4>1 DEF TypeOK
      <4> QED BY <1>5, <1>6, <2>6, <3>1, <4>1, <4>2, <4>3 DEF PodInv, SubmitInv
    <3>2. CASE main = "inline"
      <4>1. future \in Futures /\ run[future] = "done" /\ callback[future] # "none"
        BY <3>2 DEF PodInv, LocalsInv, SubmitInv
      <4>2. callback'[future] # "none"
        BY <1>2, <4>1 DEF TypeOK
      <4> QED BY <1>5, <2>6, <3>2, <4>1, <4>2 DEF SubmitInv
    <3> QED BY <1>5, <3>1, <3>2 DEF SubmitInv
  <2> QED BY <1>1, <2>12, <2>13, <2>14, <2>15 DEF PodInv
<1>8. CASE /\ pods_done' = Append(pods_done, p)
           /\ UNCHANGED <<reschedules, pods_work_queue>>
  <2>1. /\ \A q : InSeq(q, pods_done') <=> InSeq(q, pods_done) \/ q = p
        /\ NoDuplicates(pods_done')
    <3>1. pods_done \in Seq(Pods) /\ NoDuplicates(pods_done)
      BY DEF TypeOK, PodInv, UniqueInv
    <3> QED BY <1>1, <1>3, <1>8, <3>1, AppendList
  <2>2. CurrentRun(p)' = f
    BY <1>3, <1>8 DEF CurrentRun
  <2> HIDE DEF p, k
  <2>3. \A j \in 0..MaxReschedules :
          callback'[<<p, j>>] = IF j = k THEN "release" ELSE callback[<<p, j>>]
    BY <1>1, <1>2, FutureFacts DEF TypeOK
  <2>4. callback'[f] = "release"
    BY <1>1, <2>3
  <2>5. run' = run /\ phase' = phase /\ pods_priorities' = pods_priorities
    BY <1>5 DEF workerVars, nodeVars
  <2>6. RunsOK(p)'
    BY <1>1, <1>3, <1>4, <1>5, <1>8, <2>3, <2>5 DEF PodOK, RunsOK, Ended
  <2>7. ~Waiting(p)'
    BY <1>1, <1>3, <1>6, <1>8 DEF Waiting
  <2>8. WaitingOK(p)' /\ AssignedOK(p)'
    BY <1>1, <1>5, <1>6, <2>7 DEF WaitingOK, AssignedOK
  <2>9. DoneOK(p)' /\ CleanupOK(p)' /\ SomewhereOK(p)'
    BY <1>5, <2>1, <2>2, <2>4, <2>5 DEF DoneOK, CleanupOK, SomewhereOK, Ended
  <2>10. PodOK(p)'
    BY <2>6, <2>8, <2>9 DEF PodOK
  <2>11. ASSUME NEW q \in Pods, q # p
         PROVE  PodOK(q)'
    <3>1. \A j \in 0..MaxReschedules : callback'[<<q, j>>] = callback[<<q, j>>]
      BY <1>1, <1>2, <2>11, FutureFacts DEF TypeOK
    <3>2. Unregistered(q)' <=> Unregistered(q)
      BY <1>5, <1>8 DEF Unregistered, CurrentRun
    <3>3. SamePod(q)
      BY <1>6, <1>8, <2>1, <2>5, <2>11, <3>1, <3>2 DEF SamePod
    <3> QED BY <3>3, PodFrame DEF PodInv
  <2>12. UniqueInv'
    BY <1>5, <1>8, <2>1 DEF PodInv, UniqueInv, nodeVars
  <2>13. SubmitInv'
    <3>1. CASE main \in {"submit", "register"}
      <4>1. /\ future \in Futures
            /\ callback[future] = "none"
            /\ future = CurrentRun(PodOf(future))
            /\ future # f
        BY <1>2, <3>1 DEF PodInv, LocalsInv, SubmitInv
      <4>2. CurrentRun(PodOf(future))' = future /\ PodOf(future) \in Pods
        BY <1>5, <1>8, <4>1, FutureFacts DEF CurrentRun
      <4>3. callback'[future] = callback[future]
        BY <1>2, <4>1 DEF TypeOK
      <4> QED BY <1>5, <1>6, <2>5, <3>1, <4>1, <4>2, <4>3 DEF PodInv, SubmitInv
    <3>2. CASE main = "inline"
      <4>1. future \in Futures /\ run[future] = "done" /\ callback[future] # "none"
        BY <3>2 DEF PodInv, LocalsInv, SubmitInv
      <4>2. callback'[future] # "none"
        BY <1>2, <4>1 DEF TypeOK
      <4> QED BY <1>5, <2>5, <3>2, <4>1, <4>2 DEF SubmitInv
    <3> QED BY <1>5, <3>1, <3>2 DEF SubmitInv
  <2> QED BY <1>1, <2>10, <2>11, <2>12, <2>13 DEF PodInv
<1> QED BY <1>7, <1>8 DEF RescheduleOrComplete

(* pop_or_wait_work_queue hands the last pod of the queue to the main      *)
(* thread, which holds no other.                                           *)
LEMMA PopPreserves ==
  ASSUME TypeOK, PodInv, LocalsInv',
         main \in {"pop", "requeue_test"}, main' = "unlock_test", PopLast,
         UNCHANGED <<pods_done, reschedules, nodeVars, workerVars, callback>>
  PROVE  PodInv'
<1>1. /\ pods_work_queue \in Seq(Pods)
      /\ pods_work_queue # <<>>
      /\ NoDuplicates(pods_work_queue)
  BY DEF PopLast, TypeOK, PodInv, UniqueInv
<1>0. PICK p \in Pods : p = Last(pods_work_queue)
  BY <1>1, FrontLast
<1>2. /\ InSeq(p, pods_work_queue)
      /\ \A q : InSeq(q, pods_work_queue') <=> InSeq(q, pods_work_queue) /\ q # p
      /\ NoDuplicates(pods_work_queue')
      /\ pod_name' = p
  BY <1>1, <1>0, FrontList DEF PopLast
<1>3. \A q \in Pods : ~Held(q) /\ (Held(q)' <=> q = p)
  BY <1>2, SchedulerAssumption DEF Held, PodInv, LocalsInv
<1>4. \A q \in Pods : /\ OnNode(q)' <=> OnNode(q)
                      /\ InSeq(q, pods_done)' <=> InSeq(q, pods_done)
                      /\ CurrentRun(q)' = CurrentRun(q)
                      /\ ~Unregistered(q)
  BY DEF OnNode, CurrentRun, Unregistered, nodeVars
<1>5. ASSUME NEW q \in Pods, q # p
      PROVE  PodOK(q)'
  <2>1. SamePod(q)
    BY <1>2, <1>3, <1>4, <1>5 DEF SamePod, nodeVars, workerVars
  <2> QED BY <2>1, PodFrame DEF PodInv
<1>6. PodOK(p)'
  <2>1. PodOK(p) /\ Waiting(p) /\ Waiting(p)'
    BY <1>2, <1>3 DEF PodInv, Waiting
  <2>2. run' = run /\ callback' = callback /\ phase' = phase
        /\ pods_priorities' = pods_priorities /\ reschedules' = reschedules
    BY DEF workerVars, nodeVars
  <2>3. RunsOK(p)'
    BY <2>1, <2>2 DEF PodOK, RunsOK
  <2>4. WaitingOK(p)'
    BY <1>2, <1>4, <2>1, <2>2 DEF PodOK, WaitingOK
  <2>5. AssignedOK(p)' /\ DoneOK(p)'
    BY <1>2, <1>4, <2>1 DEF PodOK, WaitingOK, AssignedOK, DoneOK
  <2>6. CleanupOK(p)' /\ SomewhereOK(p)'
    BY <1>2, <1>4, <2>1, <2>2 DEF PodOK, WaitingOK, CleanupOK, SomewhereOK
  <2> QED BY <2>3, <2>4, <2>5, <2>6 DEF PodOK
<1>7. UniqueInv'
  BY <1>2 DEF PodInv, UniqueInv, nodeVars
<1>8. SubmitInv'
  BY DEF SubmitInv
<1> QED BY <1>2, <1>5, <1>6, <1>7, <1>8 DEF PodInv

(* add_pod_to_schedule_state puts the popped pod on one node; the          *)
(* exception for a pod that is on a node already is unreachable.           *)
LEMMA AssignPreserves ==
  ASSUME TypeOK, PodInv, LocalsInv', Assign
  PROVE  PodInv'
<1>01. pod_name \in Pods /\ node_name \in Nodes
  BY DEF Assign, PodInv, LocalsInv
<1>02. PICK p \in Pods, n \in Nodes : p = pod_name /\ n = node_name
  BY <1>01
<1>1. priority \in Int /\ main = "assign"
  BY DEF Assign, TypeOK
<1>2. Held(p) /\ PodOK(p)
  BY <1>02 DEF Held, PodInv
<1>3. /\ ~InSeq(p, pods_work_queue)
      /\ ~OnNode(p)
      /\ ~InSeq(p, pods_done)
      /\ run[CurrentRun(p)] = "idle"
      /\ callback[CurrentRun(p)] = "none"
      /\ phase[p] = "none"
  BY <1>2 DEF PodOK, WaitingOK, Waiting
<1>4. /\ pods_per_node' = [pods_per_node EXCEPT ![n] = Append(@, p)]
      /\ pods_priorities' = [pods_priorities EXCEPT ![p] = priority]
      /\ future' = CurrentRun(p)
      /\ pod_name' = None
      /\ main' = "submit"
      /\ pods_work_queue' = pods_work_queue
      /\ pods_done' = pods_done
      /\ reschedules' = reschedules
      /\ run' = run
      /\ phase' = phase
      /\ callback' = callback
  BY <1>02, <1>3 DEF Assign, CurrentRun, Goto, MainOnly, workerVars, callbackVars
<1>5. pods_per_node[n] \in Seq(Pods) /\ NoDuplicates(pods_per_node[n])
      /\ ~InSeq(p, pods_per_node[n])
  BY <1>1, <1>3 DEF TypeOK, PodInv, UniqueInv, OnNode
<1>6. \A m \in Nodes :
        pods_per_node'[m] = IF m = n THEN Append(pods_per_node[n], p) ELSE pods_per_node[m]
  BY <1>1, <1>4 DEF TypeOK
<1>7. /\ \A q : InSeq(q, Append(pods_per_node[n], p))
                  <=> InSeq(q, pods_per_node[n]) \/ q = p
      /\ NoDuplicates(Append(pods_per_node[n], p))
  BY <1>1, <1>5, AppendList
<1>8. \A m \in Nodes : \A q : InSeq(q, pods_per_node'[m])
                                <=> InSeq(q, pods_per_node[m]) \/ (m = n /\ q = p)
  BY <1>6, <1>7
<1>9. UniqueInv'
  <2>1. \A m \in Nodes : NoDuplicates(pods_per_node'[m])
    BY <1>6, <1>7 DEF PodInv, UniqueInv
  <2>2. \A l, m \in Nodes : \A q \in Pods :
          InSeq(q, pods_per_node'[l]) /\ InSeq(q, pods_per_node'[m]) => l = m
    BY <1>1, <1>3, <1>8 DEF PodInv, UniqueInv, OnNode
  <2> QED BY <1>4, <2>1, <2>2 DEF PodInv, UniqueInv
<1>10. \A q \in Pods : OnNode(q)' <=> OnNode(q) \/ q = p
  BY <1>1, <1>8 DEF OnNode
<1>11. \A q \in Pods : /\ ~Held(q)'
                       /\ CurrentRun(q)' = CurrentRun(q)
                       /\ ~Unregistered(q)
                       /\ q # p => ~Held(q)
  BY <1>1, <1>4, <1>02, SchedulerAssumption DEF Held, CurrentRun, Unregistered
<1>12. ASSUME NEW q \in Pods, q # p
       PROVE  PodOK(q)'
  <2>1. pods_priorities'[q] = pods_priorities[q]
    BY <1>4, <1>12 DEF TypeOK
  <2>2. SamePod(q)
    BY <1>4, <1>10, <1>11, <1>12, <2>1 DEF SamePod
  <2> QED BY <2>2, PodFrame DEF PodInv
<1>13. PodOK(p)'
  <2>1. pods_priorities'[p] # None
    BY <1>1, <1>4, SchedulerAssumption DEF TypeOK
  <2>2. RunsOK(p)'
    BY <1>2, <1>4 DEF PodOK, RunsOK
  <2>3. ~Waiting(p)'
    BY <1>3, <1>4, <1>11, <2>1 DEF Waiting
  <2>4. WaitingOK(p)'
    BY <2>3 DEF WaitingOK
  <2>5. AssignedOK(p)'
    BY <1>3, <1>4, <1>11, <2>1 DEF AssignedOK, Unregistered
  <2>6. DoneOK(p)' /\ CleanupOK(p)' /\ SomewhereOK(p)'
    BY <1>3, <1>4, <1>10, <1>11, <2>1 DEF DoneOK, CleanupOK, SomewhereOK
  <2> QED BY <2>2, <2>4, <2>5, <2>6 DEF PodOK
<1>14. SubmitInv'
  <2>1. PodOf(CurrentRun(p)) = p
    BY CurrentFacts
  <2>2. PodOf(future') = p /\ CurrentRun(p)' = CurrentRun(p) /\ OnNode(p)'
    BY <1>4, <1>10, <1>11, <2>1
  <2> QED BY <1>3, <1>4, <2>2 DEF SubmitInv, CurrentRun
<1> QED BY <1>9, <1>12, <1>13, <1>14 DEF PodInv

(* Submitting the estimation starts the current run of a pod that is on    *)
(* its node.                                                               *)
LEMMA SubmitPreserves ==
  ASSUME TypeOK, PodInv, LocalsInv', Submit
  PROVE  PodInv'
<1>1. /\ main = "submit" /\ main' = "register"
      /\ future \in Futures
      /\ future = CurrentRun(PodOf(future))
      /\ OnNode(PodOf(future))
      /\ callback[future] = "none"
      /\ run[future] = "idle"
  BY DEF Submit, Goto, PodInv, LocalsInv, SubmitInv
<1>2. PICK p \in Pods : p = PodOf(future)
  BY <1>1, FutureFacts
<1>3. /\ UNCHANGED <<queueVars, nodeVars, phase, callback, pod_name, future>>
      /\ run' = [run EXCEPT ![future] = "scheduling"]
  BY DEF Submit, callbackVars, choiceVars
<1>4. \A q \in Pods : /\ OnNode(q)' <=> OnNode(q)
                      /\ Held(q)' <=> Held(q)
                      /\ Waiting(q)' <=> Waiting(q)
                      /\ CurrentRun(q)' = CurrentRun(q)
                      /\ Unregistered(q)' <=> Unregistered(q)
  BY <1>1, <1>3 DEF OnNode, Held, Waiting, CurrentRun, Unregistered, nodeVars, queueVars
<1>5. ASSUME NEW q \in Pods, q # p
      PROVE  PodOK(q)'
  <2>1. \A j \in 0..MaxReschedules : run'[<<q, j>>] = run[<<q, j>>]
    BY <1>1, <1>2, <1>3, <1>5, FutureFacts DEF TypeOK
  <2>2. SamePod(q)
    BY <1>3, <1>4, <2>1 DEF SamePod, nodeVars, queueVars
  <2> QED BY <2>2, PodFrame DEF PodInv
<1>6. PodOK(p)'
  <2>1. /\ PodOK(p) /\ OnNode(p) /\ Unregistered(p) /\ future = CurrentRun(p)
        /\ reschedules[p] \in 0..MaxReschedules
    BY <1>1, <1>2 DEF PodInv, Unregistered, TypeOK
  <2>2. /\ callback' = callback /\ reschedules' = reschedules
        /\ pods_priorities' = pods_priorities /\ pods_done' = pods_done
    BY <1>3 DEF nodeVars, queueVars
  <2>3. RunsOK(p)'
    <3>1. \A j \in 0..MaxReschedules : j # reschedules[p] => run'[<<p, j>>] = run[<<p, j>>]
      BY <1>3, <2>1, FutureFacts DEF TypeOK, CurrentRun
    <3>2. callback[<<p, reschedules[p]>>] = "none"
      BY <1>1, <2>1 DEF CurrentRun
    <3> QED BY <2>1, <2>2, <3>1, <3>2 DEF PodOK, RunsOK
  <2>4. ~Waiting(p) /\ ~InSeq(p, pods_done)
    BY <2>1 DEF PodOK, WaitingOK, AssignedOK
  <2>5. WaitingOK(p)' /\ DoneOK(p)'
    BY <1>4, <2>2, <2>4 DEF WaitingOK, DoneOK
  <2>6. AssignedOK(p)'
    BY <1>1, <1>4, <2>1, <2>2, <2>4 DEF PodOK, AssignedOK
  <2>7. CleanupOK(p)' /\ SomewhereOK(p)'
    BY <1>1, <1>4, <2>1, <2>2 DEF CleanupOK, SomewhereOK
  <2> QED BY <2>3, <2>5, <2>6, <2>7 DEF PodOK
<1>7. UniqueInv'
  BY <1>3 DEF PodInv, UniqueInv, nodeVars, queueVars
<1>8. SubmitInv'
  <2>1. run'[future] = "scheduling" /\ future' = future /\ callback' = callback
    BY <1>1, <1>3 DEF TypeOK
  <2>2. CurrentRun(PodOf(future))' = future /\ OnNode(PodOf(future))'
    BY <1>1, <1>2, <1>4, <2>1
  <2> QED BY <1>1, <2>1, <2>2 DEF SubmitInv
<1> QED BY <1>5, <1>6, <1>7, <1>8 DEF PodInv

(* add_done_callback registers the callback of the current run, once.      *)
LEMMA RegisterPreserves ==
  ASSUME TypeOK, PodInv, LocalsInv', Register
  PROVE  PodInv'
<1>1. /\ main = "register"
      /\ future \in Futures
      /\ future = CurrentRun(PodOf(future))
      /\ OnNode(PodOf(future))
      /\ callback[future] = "none"
  BY DEF Register, PodInv, LocalsInv, SubmitInv
<1>2. PICK p \in Pods : p = PodOf(future)
  BY <1>1, FutureFacts
<1>3. /\ UNCHANGED <<queueVars, nodeVars, workerVars, pod_name>>
      /\ callback' = [callback EXCEPT ![future] = "registered"]
      /\ \/ main' = "inline" /\ run[future] = "done" /\ future' = future
         \/ main' = "loop"
  BY DEF Register, CallbackGoto, Goto, IsDone
<1>4. \A q \in Pods : /\ OnNode(q)' <=> OnNode(q)
                      /\ Held(q)' <=> Held(q)
                      /\ Waiting(q)' <=> Waiting(q)
                      /\ CurrentRun(q)' = CurrentRun(q)
                      /\ q # p => ~Unregistered(q)
  BY <1>1, <1>2, <1>3, CurrentFacts
  DEF OnNode, Held, Waiting, CurrentRun, Unregistered, nodeVars, queueVars
<1>5. ASSUME NEW q \in Pods, q # p
      PROVE  PodOK(q)'
  <2>1. \A j \in 0..MaxReschedules : callback'[<<q, j>>] = callback[<<q, j>>]
    BY <1>1, <1>2, <1>3, <1>5, FutureFacts DEF TypeOK
  <2>2. SamePod(q)
    BY <1>3, <1>4, <1>5, <2>1 DEF SamePod, nodeVars, queueVars, workerVars
  <2> QED BY <2>2, PodFrame DEF PodInv
<1>6. PodOK(p)'
  <2>1. /\ PodOK(p) /\ OnNode(p) /\ future = CurrentRun(p)
        /\ reschedules[p] \in 0..MaxReschedules
    BY <1>1, <1>2 DEF PodInv, TypeOK
  <2>2. /\ run' = run /\ reschedules' = reschedules
        /\ pods_priorities' = pods_priorities /\ pods_done' = pods_done
        /\ callback'[future] = "registered"
    BY <1>1, <1>3 DEF nodeVars, queueVars, workerVars, TypeOK
  <2>3. RunsOK(p)'
    <3>1. \A j \in 0..MaxReschedules :
            callback'[<<p, j>>] = IF j = reschedules[p] THEN "registered"
                                                        ELSE callback[<<p, j>>]
      BY <1>3, <2>1, FutureFacts DEF TypeOK, CurrentRun
    <3> QED BY <2>1, <2>2, <3>1 DEF PodOK, RunsOK
  <2>4. ~Waiting(p) /\ ~InSeq(p, pods_done)
    BY <2>1 DEF PodOK, WaitingOK, AssignedOK
  <2>5. WaitingOK(p)' /\ DoneOK(p)'
    BY <1>4, <2>2, <2>4 DEF WaitingOK, DoneOK
  <2>6. AssignedOK(p)'
    BY <1>4, <2>1, <2>2, <2>4 DEF PodOK, AssignedOK
  <2>7. CleanupOK(p)' /\ SomewhereOK(p)'
    BY <1>4, <2>1, <2>2 DEF CleanupOK, SomewhereOK
  <2> QED BY <2>3, <2>5, <2>6, <2>7 DEF PodOK
<1>7. UniqueInv'
  BY <1>3 DEF PodInv, UniqueInv, nodeVars, queueVars
<1>8. SubmitInv'
  BY <1>1, <1>3 DEF SubmitInv, workerVars, TypeOK
<1> QED BY <1>5, <1>6, <1>7, <1>8 DEF PodInv

(* Scheduler.stop, also when it raises out of a callback, moves no pod.    *)
LEMMA StopPreserves ==
  ASSUME TypeOK, PodInv, LocalsInv', Stop
  PROVE  PodInv'
<1>1. UNCHANGED <<queueVars, nodeVars, workerVars, pod_name, future>>
  BY DEF Stop, choiceVars
<1>2. CASE UNCHANGED callback /\ (main' = main \/ main' = "crashed")
  <2>1. ASSUME NEW q \in Pods
        PROVE  PodOK(q)'
    <3>1. /\ OnNode(q)' <=> OnNode(q)
          /\ Held(q)' <=> Held(q)
          /\ Unregistered(q) => Unregistered(q)'
      BY <1>1, <1>2 DEF OnNode, Held, Unregistered, CurrentRun, nodeVars, queueVars
    <3>2. SamePod(q)
      BY <1>1, <1>2, <3>1 DEF SamePod, nodeVars, queueVars, workerVars
    <3> QED BY <3>2, PodFrame DEF PodInv
  <2>2. UniqueInv'
    BY <1>1 DEF PodInv, UniqueInv, nodeVars, queueVars
  <2>3. SubmitInv'
    BY <1>1, <1>2 DEF PodInv, SubmitInv, CurrentRun, OnNode, nodeVars, queueVars, workerVars
  <2> QED BY <2>1, <2>2, <2>3 DEF PodInv
<1>3. CASE main = "inline" /\ main' = main /\ Raise(future)
           /\ callback[future] \notin {"finished", "died"}
  <2>1. /\ future \in Futures
        /\ run[future] = "done"
        /\ callback[future] # "none"
        /\ callback' = [callback EXCEPT ![future] = "died"]
    BY <1>3 DEF PodInv, LocalsInv, SubmitInv, Raise, CallbackGoto
  <2>2. PICK f \in Futures : f = future
    BY <2>1
  <2>3. PICK p \in Pods : p = PodOf(f)
    BY FutureFacts
  <2>4. ASSUME f = CurrentRun(p)
        PROVE  AssignedOK(p)' /\ DoneOK(p)' /\ CleanupOK(p)' /\ SomewhereOK(p)'
    <3>1. PodOK(p) /\ CurrentRun(p)' = f /\ callback'[f] = "died" /\ run' = run
      BY <1>1, <2>1, <2>2, <2>4 DEF PodInv, CurrentRun, queueVars, workerVars, TypeOK
    <3>2. /\ OnNode(p)' <=> OnNode(p)
          /\ InSeq(p, pods_done)' <=> InSeq(p, pods_done)
          /\ pods_priorities' = pods_priorities
      BY <1>1 DEF OnNode, nodeVars, queueVars
    <3>3. AssignedOK(p)'
      BY <2>4, <3>1, <3>2 DEF PodOK, AssignedOK
    <3>4. DoneOK(p)' /\ CleanupOK(p)' /\ SomewhereOK(p)'
      BY <2>1, <2>2, <3>1, <3>2 DEF DoneOK, CleanupOK, SomewhereOK, Ended
    <3> QED BY <3>3, <3>4
  <2>5. "died" \in Callbacks \ {"none", "registered"} /\ "died" \in Ended
    BY DEF Callbacks, Ended
  <2> QED BY <1>1, <1>3, <2>1, <2>2, <2>3, <2>4, <2>5, CallbackPreserves
          DEF nodeVars, workerVars
<1> QED BY <1>2, <1>3 DEF Stop, StopRaises, InCallback, Goto

(* Each step of run_estimator.                                             *)
LEMMA WorkerActions ==
  ASSUME TypeOK, PodInv, LocalsInv', NEW f \in Futures, Worker(f)
  PROVE  PodInv'
<1>1. PICK from \in SUBSET (RunStates \ {"idle", "done"}), to \in RunStates \ {"idle"} :
        WorkerGoto(f, from, to)
  <2> DEFINE S == RunStates \ {"idle", "done"}
             T == RunStates \ {"idle"}
  <2>1. /\ {"scheduling"} \in SUBSET S /\ {"starting"} \in SUBSET S
        /\ {"starting", "finishing"} \in SUBSET S /\ {"deleting"} \in SUBSET S
        /\ "starting" \in T /\ "finishing" \in T /\ "deleting" \in T /\ "done" \in T
    BY DEF RunStates
  <2> HIDE DEF S, T
  <2>2. \E from \in SUBSET S, to \in T : WorkerGoto(f, from, to)
    BY <2>1 DEF Worker, ScheduleFails, ScheduleSkips, StartEstimation,
               FinishEstimation, EndEstimation, FetchLogsRaises, DeletePod
  <2> QED BY <2>2 DEF S, T
<1>2. /\ run[f] \notin {"idle", "done"}
      /\ run' = [run EXCEPT ![f] = to]
      /\ UNCHANGED <<queueVars, pods_per_node, pods_priorities, callback, main,
                     pod_name, future>>
  BY <1>1 DEF WorkerGoto, nodeVars, callbackVars, mainVars, choiceVars
<1>3. \A q \in Pods \ {PodOf(f)} : phase'[q] = phase[q]
  BY FutureFacts DEF TypeOK, Worker, ScheduleFails, ScheduleSkips, StartEstimation,
     FinishEstimation, EndEstimation, FetchLogsRaises, DeletePod
<1> QED BY <1>2, <1>3, WorkerPreserves

(* Each step of done_estimation_callback.                                  *)
LEMMA CallbackActions ==
  ASSUME TypeOK, PodInv, LocalsInv', NEW f \in Futures, Callback(f)
  PROVE  PodInv'
<1> DEFINE p == PodOf(f)
           Local == /\ AssignedOK(p)' /\ DoneOK(p)'
                    /\ CleanupOK(p)' /\ SomewhereOK(p)'
           Same == UNCHANGED <<queueVars, pods_per_node, run, main, pod_name, future>>
<1>1. p \in Pods /\ PodOK(p) /\ f = <<p, RunOf(f)>> /\ RunOf(f) \in 0..MaxReschedules
  BY FutureFacts DEF PodInv
<1>2. CASE RescheduleOrComplete(f)
  BY <1>2, DecidePreserves
<1>3. CASE CleanStates(f)
  <2>1. callback[f] = "registered" /\ run[f] = "done" /\ Same
    BY <1>3 DEF CleanStates, IsDone, mainVars, choiceVars, nodeVars
  <2>2. f = CurrentRun(p) /\ ~InSeq(p, pods_done) /\ ~Waiting(p)
    BY <2>1, CleaningIsCurrent DEF Ended
  <2>3. PICK c \in {"scan", "died"} : callback' = [callback EXCEPT ![f] = c]
    BY <1>3 DEF CleanStates, Raise, CallbackGoto
  <2>4. /\ c = "scan" => phase'[p] = "none"
        /\ \A q \in Pods \ {p} : phase'[q] = phase[q]
        /\ pods_priorities' = pods_priorities
    <3>1. phase' = phase \/ phase' = [phase EXCEPT ![p] = "none"]
      BY <1>3 DEF CleanStates, ForgetPhases
    <3>2. c = "scan" => phase' = [phase EXCEPT ![p] = "none"]
      <4>1. callback'[f] = c
        BY <2>3 DEF TypeOK
      <4> QED BY <1>3, <4>1 DEF CleanStates, ForgetPhases, Raise, CallbackGoto, TypeOK
    <3>3. pods_priorities' = pods_priorities
      BY <1>3 DEF CleanStates, nodeVars
    <3> QED BY <1>1, <3>1, <3>2, <3>3 DEF TypeOK
  <2>5. CurrentRun(p)' = f /\ callback'[f] = c
    BY <2>1, <2>2, <2>3 DEF CurrentRun, queueVars, TypeOK
  <2>6. (OnNode(p)' <=> OnNode(p)) /\ ~InSeq(p, pods_done)'
    BY <2>1, <2>2 DEF OnNode, queueVars
  <2>7. OnNode(p)
    BY <1>1, <2>1, <2>2 DEF PodOK, SomewhereOK
  <2> HIDE DEF p
  <2>8. Local
    BY <1>1, <2>4, <2>5, <2>6, <2>7 DEF PodOK, AssignedOK, DoneOK, CleanupOK, SomewhereOK
  <2>9. c \in Callbacks \ {"none", "registered"} /\ callback[f] # "none"
    BY <2>1 DEF Callbacks
  <2> QED BY <2>1, <2>2, <2>3, <2>4, <2>8, <2>9, CallbackPreserves DEF p
<1>4. CASE BeginScan(f)
  <2>1. /\ callback[f] = "scan" /\ callback' = [callback EXCEPT ![f] = "remove"] /\ Same
        /\ phase' = phase
    BY <1>4 DEF BeginScan, CallbackGoto,  mainVars, choiceVars, nodeVars, workerVars
  <2>2. f = CurrentRun(p) /\ ~InSeq(p, pods_done) /\ ~Waiting(p) /\ run[f] = "done"
    <3>1. f = CurrentRun(p) /\ ~InSeq(p, pods_done) /\ ~Waiting(p)
      BY <2>1, CleaningIsCurrent DEF Ended
    <3> HIDE DEF p
    <3>2. run[f] = "done"
      BY <1>1, <2>1 DEF PodOK, RunsOK
    <3> QED BY <3>1, <3>2
  <2>3. pods_priorities' = pods_priorities
    BY <1>4 DEF BeginScan, nodeVars
  <2>4. CurrentRun(p)' = f /\ callback'[f] = "remove"
    BY <2>1, <2>2 DEF CurrentRun, queueVars, TypeOK
  <2>5. (OnNode(p)' <=> OnNode(p)) /\ ~InSeq(p, pods_done)'
    BY <2>1, <2>2 DEF OnNode, queueVars
  <2> HIDE DEF p
  <2>6. Local
    BY <1>1, <2>1, <2>2, <2>3, <2>4, <2>5
    DEF PodOK, AssignedOK, DoneOK, CleanupOK, SomewhereOK
  <2>7. "remove" \in Callbacks \ {"none", "registered"}
    BY DEF Callbacks
  <2> QED BY <2>1, <2>2, <2>3, <2>6, <2>7, CallbackPreserves DEF p
<1>5. CASE RemoveFromNode(f)
  <2>1. /\ callback[f] = "remove" /\ UNCHANGED <<phase, pods_priorities, run>>
        /\ UNCHANGED <<queueVars, workerVars, main, pod_name, future>>
    BY <1>5 DEF RemoveFromNode, mainVars, choiceVars, workerVars
  <2>2. f = CurrentRun(p) /\ ~InSeq(p, pods_done) /\ ~Waiting(p)
    BY <2>1, CleaningIsCurrent DEF Ended
  <2>3. CASE \E n \in Nodes : \E i \in DOMAIN pods_per_node[n] :
               /\ pods_per_node[n][i] = PodOf(f)
               /\ pods_per_node' = [pods_per_node EXCEPT ![n] = RemoveAt(@, i)]
               /\ CallbackGoto(f, "priority")
    BY <2>1, <2>3, RemovePreserves DEF CallbackGoto
  <2>4. CASE ~OnNode(p)
    BY <1>1, <2>1, <2>2, <2>4 DEF PodOK, SomewhereOK
  <2>5. CASE Raise(f) /\ UNCHANGED pods_per_node
    <3>1. callback' = [callback EXCEPT ![f] = "died"] /\ Same
      BY <2>1, <2>5 DEF Raise, CallbackGoto
    <3>2. CurrentRun(p)' = f /\ callback'[f] = "died"
      BY <2>1, <2>2, <3>1 DEF CurrentRun, queueVars, TypeOK
    <3>3. (OnNode(p)' <=> OnNode(p)) /\ ~InSeq(p, pods_done)'
      BY <2>1, <2>2, <3>1 DEF OnNode, queueVars
    <3> HIDE DEF p
    <3>4. run[f] = "done"
      BY <1>1, <2>1 DEF PodOK, RunsOK
    <3>5. Local
      BY <1>1, <2>1, <2>2, <3>2, <3>3
      DEF PodOK, AssignedOK, DoneOK, CleanupOK, SomewhereOK
    <3>6. "died" \in Callbacks \ {"none", "registered"}
      BY DEF Callbacks
    <3> QED BY <2>1, <2>2, <3>1, <3>4, <3>5, <3>6, CallbackPreserves DEF p
  <2> QED BY <1>5, <2>3, <2>4, <2>5 DEF RemoveFromNode
<1>6. CASE DropPriority(f)
  <2>1. /\ callback[f] = "priority" /\ callback' = [callback EXCEPT ![f] = "acquire"] /\ Same
        /\ phase' = phase
    BY <1>6 DEF DropPriority, CallbackGoto,  mainVars, choiceVars, nodeVars, workerVars
  <2>2. f = CurrentRun(p) /\ ~InSeq(p, pods_done) /\ ~Waiting(p) /\ run[f] = "done"
    <3>1. f = CurrentRun(p) /\ ~InSeq(p, pods_done) /\ ~Waiting(p)
      BY <2>1, CleaningIsCurrent DEF Ended
    <3> HIDE DEF p
    <3>2. run[f] = "done"
      BY <1>1, <2>1 DEF PodOK, RunsOK
    <3> QED BY <3>1, <3>2
  <2>3. /\ pods_priorities'[p] = None
        /\ \A q \in Pods \ {p} : pods_priorities'[q] = pods_priorities[q]
    BY <1>1, <1>6 DEF DropPriority, TypeOK
  <2>4. CurrentRun(p)' = f /\ callback'[f] = "acquire"
    BY <2>1, <2>2 DEF CurrentRun, queueVars, TypeOK
  <2>5. (OnNode(p)' <=> OnNode(p)) /\ ~InSeq(p, pods_done)'
    BY <2>1, <2>2 DEF OnNode, queueVars
  <2> HIDE DEF p
  <2>6. Local
    BY <1>1, <2>1, <2>2, <2>3, <2>4, <2>5
    DEF PodOK, AssignedOK, DoneOK, CleanupOK, SomewhereOK
  <2>7. "acquire" \in Callbacks \ {"none", "registered"}
    BY DEF Callbacks
  <2> QED BY <2>1, <2>2, <2>3, <2>6, <2>7, CallbackPreserves DEF p
<1>7. CASE AcquireCallback(f)
  <2>1. /\ callback[f] = "acquire" /\ callback' = [callback EXCEPT ![f] = "decide"] /\ Same
        /\ phase' = phase
    BY <1>7 DEF AcquireCallback, CallbackGoto,  mainVars, choiceVars, nodeVars, workerVars
  <2>2. f = CurrentRun(p) /\ ~InSeq(p, pods_done) /\ ~Waiting(p) /\ run[f] = "done"
    <3>1. f = CurrentRun(p) /\ ~InSeq(p, pods_done) /\ ~Waiting(p)
      BY <2>1, CleaningIsCurrent DEF Ended
    <3> HIDE DEF p
    <3>2. run[f] = "done"
      BY <1>1, <2>1 DEF PodOK, RunsOK
    <3> QED BY <3>1, <3>2
  <2>3. pods_priorities' = pods_priorities
    BY <1>7 DEF AcquireCallback, nodeVars
  <2>4. CurrentRun(p)' = f /\ callback'[f] = "decide"
    BY <2>1, <2>2 DEF CurrentRun, queueVars, TypeOK
  <2>5. (OnNode(p)' <=> OnNode(p)) /\ ~InSeq(p, pods_done)'
    BY <2>1, <2>2 DEF OnNode, queueVars
  <2> HIDE DEF p
  <2>6. Local
    BY <1>1, <2>1, <2>2, <2>3, <2>4, <2>5
    DEF PodOK, AssignedOK, DoneOK, CleanupOK, SomewhereOK
  <2>7. "decide" \in Callbacks \ {"none", "registered"}
    BY DEF Callbacks
  <2> QED BY <2>1, <2>2, <2>3, <2>6, <2>7, CallbackPreserves DEF p
<1>8. CASE ReleaseCallback(f)
  <2>1. /\ callback[f] = "release" /\ callback' = [callback EXCEPT ![f] = "finished"]
        /\ Same /\ UNCHANGED <<phase, pods_priorities>>
    BY <1>8 DEF ReleaseCallback, CallbackGoto, mainVars, choiceVars, nodeVars, workerVars
  <2>2. run[f] = "done"
    <3> HIDE DEF p
    <3> QED BY <1>1, <2>1 DEF PodOK, RunsOK
  <2>3. ASSUME f = CurrentRun(p)
        PROVE  Local
    <3>1. CurrentRun(p)' = f /\ callback'[f] = "finished" /\ run' = run
      BY <2>1, <2>3 DEF CurrentRun, queueVars, TypeOK
    <3>2. /\ OnNode(p)' <=> OnNode(p)
          /\ InSeq(p, pods_done)' <=> InSeq(p, pods_done)
      BY <2>1 DEF OnNode, queueVars
    <3> HIDE DEF p
    <3>3. ~OnNode(p) /\ ~Waiting(p) /\ InSeq(p, pods_done)
      BY <1>1, <2>1, <2>3 DEF PodOK, WaitingOK, AssignedOK, SomewhereOK
    <3> QED BY <2>2, <3>1, <3>2, <3>3
            DEF AssignedOK, DoneOK, CleanupOK, SomewhereOK, Ended
  <2>4. "finished" \in Callbacks \ {"none", "registered"} /\ "finished" \in Ended
    BY DEF Callbacks, Ended
  <2> QED BY <2>1, <2>2, <2>3, <2>4, CallbackPreserves
<1> QED BY <1>2, <1>3, <1>4, <1>5, <1>6, <1>7, <1>8 DEF Callback

(* Each step of the main thread, wherever Scheduler.run is.               *)
LEMMA MainActions ==
  ASSUME TypeOK, PodInv, LocalsInv', MainStep \/ \E n \in Nodes : PickSequence(n)
  PROVE  PodInv'
<1> USE DEF MainOnly, Goto, queueVars, nodeVars, workerVars, callbackVars,
            choiceVars, waitVars
<1>1. CASE LoopTest
  BY <1>1, QuietLemma DEF LoopTest, QuietStep
<1>2. CASE PopQueued
  BY <1>2, PopPreserves DEF PopQueued
<1>3. CASE StartWaiting
  BY <1>3, QuietLemma DEF StartWaiting, QuietStep
<1>4. CASE NextCompleted
  BY <1>4, QuietLemma DEF NextCompleted, QuietStep
<1>5. CASE AcquireMain
  BY <1>5, QuietLemma DEF AcquireMain, QuietStep
<1>6. CASE CheckAllDone
  BY <1>6, QuietLemma DEF CheckAllDone, QuietStep
<1>7. CASE CheckQueue
  <2>1. CASE PopLast /\ main' = "unlock_test"
    BY <1>7, <2>1, PopPreserves DEF CheckQueue
  <2>2. CASE UNCHANGED <<pods_work_queue, pod_name>>
    BY <1>7, <2>2, QuietLemma DEF CheckQueue, QuietStep, ReleaseMain
  <2> QED BY <1>7, <2>1, <2>2 DEF CheckQueue
<1>8. CASE TestUnlock
  BY <1>8, QuietLemma DEF TestUnlock, QuietStep, AfterPop
<1>9. CASE Unlock
  BY <1>9, QuietLemma DEF Unlock, QuietStep, AfterPop, ReleaseMain
<1>10. ASSUME NEW n \in Nodes, PickNode(n)
      PROVE  PodInv'
  BY <1>10, QuietLemma DEF PickNode, QuietStep
<1>11. CASE StopPicking
  BY <1>11, QuietLemma DEF StopPicking, QuietStep
<1>12. CASE TestLastPod
  BY <1>12, QuietLemma DEF TestLastPod, QuietStep
<1>13. CASE IndexLastPod
  BY <1>13, QuietLemma DEF IndexLastPod, QuietStep
<1>14. CASE ReadPriority
  BY <1>14, QuietLemma DEF ReadPriority, QuietStep
<1>15. CASE ReturnFromCallback
  BY <1>15, QuietLemma DEF ReturnFromCallback, QuietStep
<1> QED BY <1>1, <1>2, <1>3, <1>4, <1>5, <1>6, <1>7, <1>8, <1>9, <1>10, <1>11,
           <1>12, <1>13, <1>14, <1>15, AssignPreserves, SubmitPreserves,
           RegisterPreserves
        DEF MainStep, PickBulk, PickSequence

(* A stuttering step keeps the invariant.                                  *)
LEMMA PodStutter ==
  ASSUME PodInv, UNCHANGED vars
  PROVE  PodInv'
<1> USE DEF vars, queueVars, nodeVars, workerVars, callbackVars, mainVars,
            choiceVars, waitVars
<1>1. LocalsInv'
  BY DEF PodInv, LocalsInv
<1>2. UniqueInv'
  BY DEF PodInv, UniqueInv
<1>3. SubmitInv'
  BY DEF PodInv, SubmitInv, CurrentRun, OnNode
<1>4. ASSUME NEW p \in Pods
      PROVE  PodOK(p)'
  <2>1. /\ CurrentRun(p)' = CurrentRun(p)
        /\ Waiting(p)' <=> Waiting(p)
        /\ Held(p)' <=> Held(p)
        /\ OnNode(p)' <=> OnNode(p)
        /\ Unregistered(p)' <=> Unregistered(p)
    BY DEF CurrentRun, Waiting, Held, OnNode, Unregistered
  <2>2. PodOK(p)
    BY DEF PodInv
  <2>3. RunsOK(p)' /\ WaitingOK(p)'
    BY <2>1, <2>2 DEF PodOK, RunsOK, WaitingOK
  <2>4. AssignedOK(p)' /\ DoneOK(p)'
    BY <2>1, <2>2 DEF PodOK, AssignedOK, DoneOK
  <2>5. CleanupOK(p)' /\ SomewhereOK(p)'
    BY <2>1, <2>2 DEF PodOK, CleanupOK, SomewhereOK
  <2> QED BY <2>3, <2>4, <2>5 DEF PodOK
<1> QED BY <1>1, <1>2, <1>3, <1>4 DEF PodInv

(* Every step keeps the invariant.                                         *)
LEMMA PodStep ==
  ASSUME TypeOK, PodInv, [Next]_vars
  PROVE  PodInv'
<1>1. LocalsInv'
  BY TypeStep DEF PodInv
<1>2. CASE MainStep \/ \E n \in Nodes : PickSequence(n)
  BY <1>1, <1>2, MainActions
<1>3. CASE Stop
  BY <1>1, <1>3, StopPreserves
<1>4. CASE \E f \in Futures : Worker(f) \/ Callback(f)
  BY <1>1, <1>4, WorkerActions, CallbackActions
<1>5. CASE SleepAndRetry \/ Finished \/ UNCHANGED vars
  BY <1>5, PodStutter DEF SleepAndRetry, Finished
<1> QED BY <1>2, <1>3, <1>4, <1>5 DEF Next

(* All pods wait in the queue when Scheduler.run begins.                   *)
LEMMA PodInit == Init => PodInv
<1> SUFFICES ASSUME Init
             PROVE  PodInv
  OBVIOUS
<1> USE SchedulerAssumption
<1>1. LocalsInv /\ SubmitInv
  BY DEF Init, LocalsInv, SubmitInv
<1>2. NoDuplicates(pods_work_queue) /\ \A p \in Pods : InSeq(p, pods_work_queue)
  BY DEF Init
<1>3. /\ NoDuplicates(<<>>)
      /\ \A p \in Pods : ~InSeq(p, <<>>)
  BY DEF NoDuplicates, InSeq
<1>4. UniqueInv
  BY <1>2, <1>3 DEF Init, UniqueInv
<1>5. ASSUME NEW p \in Pods
      PROVE  PodOK(p)
  <2>1. reschedules[p] = 0 /\ CurrentRun(p) = <<p, 0>>
    BY DEF Init, CurrentRun
  <2>2. \A k \in 0..MaxReschedules : run[<<p, k>>] = "idle" /\ callback[<<p, k>>] = "none"
    BY FutureFacts DEF Init
  <2>3. 0 \in 0..MaxReschedules
    OBVIOUS
  <2>4. /\ InSeq(p, pods_work_queue)
        /\ ~Held(p)
        /\ ~OnNode(p)
        /\ ~InSeq(p, pods_done)
    BY <1>2, <1>3 DEF Init, Held, OnNode
  <2>5. phase[p] = "none" /\ pods_priorities[p] = None
    BY DEF Init
  <2>6. RunsOK(p)
    BY <2>1, <2>2 DEF RunsOK
  <2>7. WaitingOK(p) /\ AssignedOK(p) /\ DoneOK(p)
    BY <2>1, <2>2, <2>3, <2>4, <2>5 DEF WaitingOK, AssignedOK, DoneOK
  <2>8. CleanupOK(p) /\ SomewhereOK(p)
    BY <2>1, <2>2, <2>3, <2>4 DEF CleanupOK, SomewhereOK, Waiting
  <2> QED BY <2>6, <2>7, <2>8 DEF PodOK
<1> QED BY <1>1, <1>4, <1>5 DEF PodInv

(* The conjunction the main thread, the workers and the callbacks keep     *)
(* whatever their interleaving.                                            *)
THEOREM PodInvariant == Spec => [](TypeOK /\ PodInv)
<1>1. Init => TypeOK /\ PodInv
  BY TypeInit, PodInit
<1>2. TypeOK /\ PodInv /\ [Next]_vars => (TypeOK /\ PodInv)'
  BY TypeStep, PodStep DEF PodInv
<1> QED BY <1>1, <1>2, PTL DEF Spec

(* The places of a pod exclude one another.                                *)
LEMMA OnePlace ==
  ASSUME TypeOK, PodInv, NEW p \in Pods
  PROVE  \E i \in 1..5 : /\ Places(p)[i]
                         /\ \A j \in (1..5) \ {i} : ~Places(p)[j]
<1>1. PodOK(p)
  BY DEF PodInv
<1> DEFINE c == callback[CurrentRun(p)]
           Q == InSeq(p, pods_work_queue)
           D == InSeq(p, pods_done)
<1>2. WaitingOK(p) /\ AssignedOK(p) /\ DoneOK(p) /\ SomewhereOK(p)
  BY <1>1 DEF PodOK
<1>3. CASE Q
  <2>1. ~Held(p) /\ ~OnNode(p) /\ ~D /\ c = "none"
    BY <1>2, <1>3 DEF WaitingOK, Waiting
  <2>2. ~InTransit(p)
    BY <2>1 DEF InTransit
  <2> WITNESS 1 \in 1..5
  <2> QED BY <1>3, <2>1, <2>2 DEF Places
<1>4. CASE Held(p)
  <2>1. ~Q /\ ~OnNode(p) /\ ~D /\ c = "none"
    BY <1>2, <1>4 DEF WaitingOK, Waiting
  <2>2. ~InTransit(p)
    BY <2>1 DEF InTransit
  <2> WITNESS 2 \in 1..5
  <2> QED BY <1>4, <2>1, <2>2 DEF Places
<1>5. CASE OnNode(p)
  <2>1. ~Q /\ ~Held(p) /\ ~D /\ c \in {"none", "registered", "scan", "remove", "died"}
    BY <1>2, <1>5 DEF WaitingOK, Waiting, AssignedOK
  <2>2. ~InTransit(p)
    BY <1>5, <2>1 DEF InTransit
  <2> WITNESS 3 \in 1..5
  <2> QED BY <1>5, <2>1, <2>2 DEF Places
<1>6. CASE D
  <2>1. ~Q /\ ~Held(p) /\ ~OnNode(p) /\ c \in Ended
    BY <1>2, <1>6 DEF WaitingOK, Waiting, AssignedOK, DoneOK
  <2>2. ~InTransit(p)
    BY <1>6, <2>1 DEF InTransit, Ended
  <2> WITNESS 5 \in 1..5
  <2> QED BY <1>6, <2>1, <2>2 DEF Places
<1>7. CASE ~Q /\ ~Held(p) /\ ~OnNode(p) /\ ~D
  <2>1. c \in {"priority", "acquire", "decide", "died"}
    BY <1>2, <1>7 DEF SomewhereOK, Waiting
  <2>2. InTransit(p)
    BY <1>7, <2>1 DEF InTransit
  <2> WITNESS 4 \in 1..5
  <2> QED BY <1>7, <2>2 DEF Places
<1> QED BY <1>3, <1>4, <1>5, <1>6, <1>7

(* No interleaving of Scheduler.run and the done callbacks loses a pod or  *)
(* puts it in two places.                                                  *)
THEOREM ExactlyOnePlace == Spec => []PodInExactlyOnePlace
<1>1. TypeOK /\ PodInv => PodInExactlyOnePlace
  BY OnePlace DEF PodInv, UniqueInv, PodInExactlyOnePlace
<1> QED BY <1>1, PodInvariant, PTL

(* No worker or cleanup of an earlier run is left when the next run of its *)
(* pod starts.                                                             *)
THEOREM OnlyCurrentRun == Spec => []OnlyCurrentRunActive
<1>1. ASSUME TypeOK, PodInv
      PROVE  OnlyCurrentRunActive
  <2> SUFFICES ASSUME NEW f \in Futures, Active(f)
               PROVE  RunOf(f) = reschedules[PodOf(f)]
    BY DEF OnlyCurrentRunActive
  <2>1. PICK p \in Pods, k \in 0..MaxReschedules : f = <<p, k>>
    BY DEF Futures
  <2>2. RunsOK(p) /\ reschedules[p] \in 0..MaxReschedules
    BY <1>1 DEF TypeOK, PodInv, PodOK
  <2>3. k = reschedules[p]
    BY <2>1, <2>2 DEF RunsOK, Active, CleaningUp, Ended
  <2> QED BY <2>1, <2>3 DEF RunOf, PodOf
<1> QED BY <1>1, PodInvariant, PTL

(* The done callback leaves nothing of a run behind before it puts the pod *)
(* back on the queue.                                                      *)
THEOREM QueuedClean == Spec => []QueuedPodsAreClean
<1>1. ASSUME TypeOK, PodInv
      PROVE  QueuedPodsAreClean
  <2> SUFFICES ASSUME NEW p \in Pods, InSeq(p, pods_work_queue)
               PROVE  /\ phase[p] = "none"
                      /\ pods_priorities[p] = None
                      /\ ~Active(CurrentRun(p))
    BY DEF QueuedPodsAreClean
  <2>1. WaitingOK(p)
    BY <1>1 DEF PodInv, PodOK
  <2> QED BY <2>1 DEF WaitingOK, Waiting, Active, CleaningUp
<1> QED BY <1>1, PodInvariant, PTL

-----------------------------------------------------------------------------
(* The scheduler implements EstimationLedger: Assign starts a run, the     *)
(* callback's RescheduleOrComplete ends one, every other step moves no pod.*)

(* A step that leaves each pod where it is, done or waiting or neither, is *)
(* a stuttering step of the ledger.                                        *)
LEMMA SameStatus ==
  ASSUME UNCHANGED <<pods_done, reschedules>>,
         \A p \in Pods : Waiting(p)' <=> Waiting(p)
  PROVE  UNCHANGED Ledger!vars
<1>1. \A p \in Pods : Status(p)' = Status(p)
  BY DEF Status
<1>2. [p \in Pods |-> Status(p)]' = [p \in Pods |-> Status(p)]
  BY <1>1
<1> QED BY <1>2 DEF Ledger!vars

(* The queue and the pod in the hand of the main thread are untouched.     *)
LEMMA QueueUntouched ==
  ASSUME UNCHANGED <<queueVars, pod_name>>
  PROVE  UNCHANGED Ledger!vars
<1>1. \A p \in Pods : Waiting(p)' <=> Waiting(p)
  BY DEF Waiting, Held, queueVars
<1> QED BY <1>1, SameStatus DEF queueVars

(* pop_or_wait_work_queue hands the popped pod to the main thread: it is   *)
(* still waiting for its run.                                              *)
LEMMA PopStutters ==
  ASSUME TypeOK, PodInv, main \in {"pop", "requeue_test"}, PopLast,
         UNCHANGED <<pods_done, reschedules>>
  PROVE  UNCHANGED Ledger!vars
<1>1. /\ pods_work_queue \in Seq(Pods)
      /\ pods_work_queue # <<>>
      /\ NoDuplicates(pods_work_queue)
  BY DEF PopLast, TypeOK, PodInv, UniqueInv
<1>2. PICK p \in Pods : p = Last(pods_work_queue)
  BY <1>1, FrontLast
<1>3. /\ InSeq(p, pods_work_queue)
      /\ \A q : InSeq(q, pods_work_queue') <=> InSeq(q, pods_work_queue) /\ q # p
      /\ pod_name' = p
  BY <1>1, <1>2, FrontList DEF PopLast
<1>4. \A q \in Pods : ~Held(q) /\ (Held(q)' <=> q = p)
  BY <1>3, SchedulerAssumption DEF Held, PodInv, LocalsInv
<1>5. \A q \in Pods : Waiting(q)' <=> Waiting(q)
  BY <1>3, <1>4 DEF Waiting
<1> QED BY <1>5, SameStatus

(* add_pod_to_schedule_state starts the run of the popped pod; it never    *)
(* finds the pod on a node.                                                *)
LEMMA AssignStarts ==
  ASSUME TypeOK, PodInv, Assign
  PROVE  Ledger!Next
<1>1. PICK p \in Pods : p = pod_name
  BY DEF Assign, PodInv, LocalsInv
<1>2. Held(p) /\ PodOK(p)
  BY <1>1 DEF Held, PodInv
<1>3. ~InSeq(p, pods_work_queue) /\ ~OnNode(p) /\ ~InSeq(p, pods_done)
  BY <1>2 DEF PodOK, WaitingOK, Waiting
<1>4. pod_name' = None /\ UNCHANGED queueVars
  BY <1>1, <1>3 DEF Assign, MainOnly, queueVars
<1>5. \A q \in Pods : /\ ~Held(q)'
                      /\ q # p => ~Held(q)
                      /\ InSeq(q, pods_work_queue)' <=> InSeq(q, pods_work_queue)
                      /\ InSeq(q, pods_done)' <=> InSeq(q, pods_done)
  BY <1>1, <1>4, SchedulerAssumption DEF Held, queueVars
<1>6. /\ Status(p) = "queued"
      /\ Status(p)' = "running"
      /\ \A q \in Pods : q # p => Status(q)' = Status(q)
  BY <1>2, <1>3, <1>5 DEF Status, Waiting
<1>7. [q \in Pods |-> Status(q)]'
        = [[q \in Pods |-> Status(q)] EXCEPT ![p] = "running"]
  BY <1>6
<1>8. Ledger!Start(p)
  BY <1>4, <1>6, <1>7 DEF Ledger!Start, Ledger!Move, queueVars
<1> QED BY <1>8 DEF Ledger!Next

(* reschedule_or_complete ends the current run of its pod.                 *)
LEMMA DecideEnds ==
  ASSUME TypeOK, PodInv, NEW f \in Futures, RescheduleOrComplete(f)
  PROVE  Ledger!Next
<1>1. PICK p \in Pods : p = PodOf(f)
  BY FutureFacts
<1>2. callback[f] = "decide" /\ UNCHANGED pod_name
  BY DEF RescheduleOrComplete, mainVars
<1>3. ~Waiting(p) /\ ~InSeq(p, pods_done)
  BY <1>1, <1>2, CleaningIsCurrent DEF Ended
<1>4. Status(p) = "running"
  BY <1>3 DEF Status
<1>5. \A q \in Pods : Held(q)' <=> Held(q)
  BY <1>2 DEF Held
<1>6. CASE /\ MayReschedule(f)
           /\ reschedules' = [reschedules EXCEPT ![p] = @ + 1]
           /\ pods_work_queue' = Append(pods_work_queue, p)
           /\ UNCHANGED pods_done
  <2>1. \A q : InSeq(q, pods_work_queue') <=> InSeq(q, pods_work_queue) \/ q = p
    BY <1>6, AppendList DEF TypeOK
  <2>2. /\ Status(p)' = "queued"
        /\ \A q \in Pods : q # p => Status(q)' = Status(q)
    BY <1>3, <1>5, <1>6, <2>1 DEF Status, Waiting
  <2>3. [q \in Pods |-> Status(q)]'
          = [[q \in Pods |-> Status(q)] EXCEPT ![p] = "queued"]
    BY <2>2
  <2>4. Ledger!Reschedule(p)
    BY <1>1, <1>4, <1>6, <2>3 DEF Ledger!Reschedule, Ledger!Move, MayReschedule
  <2> QED BY <2>4 DEF Ledger!Next
<1>7. CASE /\ pods_done' = Append(pods_done, p)
           /\ UNCHANGED <<reschedules, pods_work_queue>>
  <2>1. \A q : InSeq(q, pods_done') <=> InSeq(q, pods_done) \/ q = p
    BY <1>7, AppendList DEF TypeOK
  <2>2. /\ Status(p)' = "done"
        /\ \A q \in Pods : q # p => Status(q)' = Status(q)
    BY <1>3, <1>5, <1>7, <2>1 DEF Status, Waiting
  <2>3. [q \in Pods |-> Status(q)]'
          = [[q \in Pods |-> Status(q)] EXCEPT ![p] = "done"]
    BY <2>2
  <2>4. Ledger!Complete(p)
    BY <1>4, <1>7, <2>3 DEF Ledger!Complete, Ledger!Move
  <2> QED BY <2>4 DEF Ledger!Next
<1> QED BY <1>1, <1>6, <1>7 DEF RescheduleOrComplete

(* Every step of the scheduler is a step of the ledger or stutters.        *)
LEMMA LedgerStep ==
  ASSUME TypeOK, PodInv, [Next]_vars
  PROVE  [Ledger!Next]_(Ledger!vars)
<1> USE DEF MainOnly, mainVars
<1>1. CASE PopQueued
  BY <1>1, PopStutters DEF PopQueued
<1>2. CASE CheckQueue
  <2>1. CASE PopLast
    BY <1>2, <2>1, PopStutters DEF CheckQueue
  <2>2. CASE UNCHANGED <<pods_work_queue, pod_name>>
    BY <1>2, <2>2, QueueUntouched DEF CheckQueue, queueVars
  <2> QED BY <1>2, <2>1, <2>2 DEF CheckQueue
<1>3. CASE Assign
  BY <1>3, AssignStarts
<1>4. CASE LoopTest \/ StartWaiting \/ NextCompleted \/ AcquireMain \/ CheckAllDone
  BY <1>4, QueueUntouched DEF LoopTest, StartWaiting, NextCompleted,
     AcquireMain, CheckAllDone, queueVars
<1>5. CASE TestUnlock \/ Unlock \/ StopPicking \/ TestLastPod \/ IndexLastPod
           \/ ReadPriority
  BY <1>5, QueueUntouched DEF TestUnlock, Unlock, StopPicking, TestLastPod,
     IndexLastPod, ReadPriority, queueVars
<1>6. CASE Submit \/ Register \/ ReturnFromCallback \/ Stop
  BY <1>6, QueueUntouched DEF Submit, Register, ReturnFromCallback, Stop, queueVars
<1>7. ASSUME NEW n \in Nodes, PickNode(n)
      PROVE  [Ledger!Next]_(Ledger!vars)
  BY <1>7, QueueUntouched DEF PickNode, queueVars
<1>8. ASSUME NEW f \in Futures, Worker(f)
      PROVE  [Ledger!Next]_(Ledger!vars)
  <2>1. UNCHANGED <<queueVars, pod_name>>
    BY <1>8 DEF Worker, ScheduleFails, ScheduleSkips, StartEstimation,
       FinishEstimation, EndEstimation, FetchLogsRaises, DeletePod, WorkerGoto
  <2> QED BY <2>1, QueueUntouched
<1>9. ASSUME NEW f \in Futures, Callback(f)
      PROVE  [Ledger!Next]_(Ledger!vars)
  <2>1. CASE RescheduleOrComplete(f)
    BY <2>1, DecideEnds
  <2>2. CASE ~RescheduleOrComplete(f)
    <3>1. UNCHANGED <<queueVars, pod_name>>
      BY <1>9, <2>2 DEF Callback, CleanStates, BeginScan, RemoveFromNode,
         DropPriority, AcquireCallback, ReleaseCallback
    <3> QED BY <3>1, QueueUntouched
  <2> QED BY <2>1, <2>2
<1>10. CASE SleepAndRetry \/ Finished \/ UNCHANGED vars
  BY <1>10, QueueUntouched DEF SleepAndRetry, Finished, vars, queueVars
<1> QED BY <1>1, <1>2, <1>3, <1>4, <1>5, <1>6, <1>7, <1>8, <1>9, <1>10
        DEF Next, MainStep, PickBulk, PickSequence

(* All pods are queued in the ledger when Scheduler.run begins.            *)
LEMMA LedgerInit == Init => Ledger!Init
<1> SUFFICES ASSUME Init
             PROVE  Ledger!Init
  OBVIOUS
<1>1. \A p \in Pods : InSeq(p, pods_work_queue) /\ ~InSeq(p, pods_done)
  BY EmptyList DEF Init
<1>2. \A p \in Pods : Status(p) = "queued"
  BY <1>1 DEF Status, Waiting
<1> QED BY <1>2 DEF Ledger!Init, Init

(* The scheduler implements the ledger: whatever its threads do, a pod     *)
(* only moves from the queue to one run, and from that run to pods_done    *)
(* or, at most MAX_RESCHEDULES times, back to the queue.                   *)
THEOREM SchedulerImplementsLedger == Spec => ImplementsLedger
<1>1. Init => Ledger!Init
  BY LedgerInit
<1>2. TypeOK /\ PodInv /\ [Next]_vars => [Ledger!Next]_(Ledger!vars)
  BY LedgerStep
<1> QED BY <1>1, <1>2, PodInvariant, PTL DEF Spec, ImplementsLedger, Ledger!Spec

-----------------------------------------------------------------------------
(* How many pods start up on a node, and their priorities.  The main       *)
(* thread decides by what it read of a node some steps ago; that is good   *)
(* enough, because meanwhile pods only leave nodes and runs only go on.    *)

Picked == {"last_pod", "last_index", "priority", "assign"}

(* The lists of the nodes only lose pods. *)
Shrinks ==
  \A n \in Nodes :
    \/ pods_per_node'[n] = pods_per_node[n]
    \/ \E i \in DOMAIN pods_per_node[n] : pods_per_node'[n] = RemoveAt(pods_per_node[n], i)

(* Only add_pod_to_schedule_state appends to them.                         *)
LEMMA ListsShrink ==
  ASSUME TypeOK, [Next]_vars, ~(Assign /\ main' = "submit")
  PROVE  Shrinks
<1>1. UNCHANGED pods_per_node => Shrinks
  BY DEF Shrinks
<1>2. CASE MainStep \/ (\E n \in Nodes : PickSequence(n)) \/ Stop
  BY <1>1, <1>2 DEF MainStep, LoopTest, PopQueued, StartWaiting, NextCompleted, AcquireMain, CheckAllDone,
     CheckQueue, TestUnlock, Unlock, PickBulk, PickSequence, PickNode, StopPicking, TestLastPod, IndexLastPod,
     ReadPriority, Assign, Submit, Register, ReturnFromCallback, Stop, nodeVars, Goto
<1>3. ASSUME NEW f \in Futures, Worker(f)
      PROVE  Shrinks
  BY <1>1, <1>3 DEF Worker, ScheduleFails, ScheduleSkips, StartEstimation, FinishEstimation, EndEstimation,
     FetchLogsRaises, DeletePod, WorkerGoto, nodeVars
<1>4. ASSUME NEW f \in Futures, Callback(f)
      PROVE  Shrinks
  <2>1. CASE RemoveFromNode(f)
    <3>1. CASE UNCHANGED pods_per_node
      BY <1>1, <3>1
    <3>2. ASSUME NEW n \in Nodes, NEW i \in DOMAIN pods_per_node[n],
                 pods_per_node' = [pods_per_node EXCEPT ![n] = RemoveAt(@, i)]
          PROVE  Shrinks
      BY <3>2 DEF Shrinks, TypeOK
    <3> QED BY <2>1, <3>1, <3>2 DEF RemoveFromNode
  <2> QED BY <1>1, <1>4, <2>1 DEF Callback, CleanStates, BeginScan, DropPriority, AcquireCallback,
             RescheduleOrComplete, ReleaseCallback, nodeVars
<1>5. CASE SleepAndRetry \/ Finished \/ UNCHANGED vars
  BY <1>1, <1>5 DEF SleepAndRetry, Finished, vars, nodeVars
<1> QED BY <1>2, <1>3, <1>4, <1>5 DEF Next

(* Runs go on: a run that is starting up was so before, and one that has   *)
(* got to its end stays there.                                             *)
Beginning == {"idle", "scheduling", "starting"}

RunsGoOn ==
  /\ \A f \in Futures : run'[f] \in Beginning => run[f] \in Beginning
  /\ \A p \in Pods : OnNode(p) => reschedules'[p] = reschedules[p]

LEMMA StepGoesOn ==
  ASSUME TypeOK, PodInv, [Next]_vars
  PROVE  RunsGoOn
<1>1. UNCHANGED <<run, reschedules>> => RunsGoOn
  BY DEF RunsGoOn
<1>2. CASE Submit
  <2>1. run' = [run EXCEPT ![future] = "scheduling"] /\ UNCHANGED reschedules
    BY <1>2 DEF Submit, queueVars
  <2>2. future \in Futures /\ run[future] = "idle"
    BY <1>2 DEF Submit, PodInv, LocalsInv, SubmitInv
  <2> QED BY <2>1, <2>2 DEF RunsGoOn, TypeOK, Beginning
<1>3. ASSUME MainStep \/ (\E n \in Nodes : PickSequence(n)) \/ Stop, ~Submit
      PROVE  RunsGoOn
  BY <1>1, <1>3 DEF MainStep, LoopTest, PopQueued, StartWaiting, NextCompleted, AcquireMain, CheckAllDone,
     CheckQueue, TestUnlock, Unlock, PickBulk, PickSequence, PickNode, StopPicking, TestLastPod, IndexLastPod,
     ReadPriority, Assign, Register, ReturnFromCallback, Stop, MainOnly, workerVars, queueVars
<1>4. ASSUME NEW f \in Futures, Worker(f)
      PROVE  RunsGoOn
  <2>1. /\ UNCHANGED reschedules /\ \A g \in Futures \ {f} : run'[g] = run[g]
        /\ run'[f] \in Beginning => run[f] \in Beginning
    BY <1>4 DEF Worker, ScheduleFails, ScheduleSkips, StartEstimation, FinishEstimation, EndEstimation,
       FetchLogsRaises, DeletePod, WorkerGoto, queueVars, TypeOK, Beginning
  <2> QED BY <2>1 DEF RunsGoOn
<1>5. ASSUME NEW f \in Futures, Callback(f)
      PROVE  RunsGoOn
  <2>1. CASE RescheduleOrComplete(f)
    <3>1. f = CurrentRun(PodOf(f)) /\ PodOf(f) \in Pods /\ callback[f] = "decide"
      BY <2>1, CleaningIsCurrent, FutureFacts DEF RescheduleOrComplete, Ended
    <3>2. ~OnNode(PodOf(f))
      BY <3>1 DEF PodInv, PodOK, AssignedOK
    <3>3. UNCHANGED run /\ \A p \in Pods \ {PodOf(f)} : reschedules'[p] = reschedules[p]
      BY <2>1, <3>1 DEF RescheduleOrComplete, workerVars, TypeOK
    <3> QED BY <3>2, <3>3 DEF RunsGoOn
  <2> QED BY <1>1, <1>5, <2>1 DEF Callback, CleanStates, BeginScan, RemoveFromNode, DropPriority,
             AcquireCallback, ReleaseCallback, workerVars, queueVars
<1>6. CASE SleepAndRetry \/ Finished \/ UNCHANGED vars
  BY <1>1, <1>6 DEF SleepAndRetry, Finished, vars, workerVars, queueVars
<1> QED BY <1>2, <1>3, <1>4, <1>5, <1>6 DEF Next, MainStep

(* The phase "finishing" is that of a run that is past its start.          *)
PhaseInv == \A p \in Pods : phase[p] = "finishing" => run[CurrentRun(p)] \notin Beginning

LEMMA PhaseStep ==
  ASSUME TypeOK, PodInv, PhaseInv, [Next]_vars
  PROVE  PhaseInv'
<1>1. \A p \in Pods : CurrentRun(p) \in Futures
  BY CurrentFacts
<1>2. ASSUME NEW p \in Pods, reschedules'[p] = reschedules[p], phase'[p] = phase[p], phase'[p] = "finishing"
      PROVE  run'[CurrentRun(p)'] \notin Beginning
  <2>1. CurrentRun(p)' = CurrentRun(p) /\ run[CurrentRun(p)] \notin Beginning
    BY <1>2 DEF CurrentRun, PhaseInv
  <2> QED BY <1>1, <2>1, StepGoesOn DEF RunsGoOn
<1>3. ASSUME UNCHANGED <<phase, reschedules>>
      PROVE  PhaseInv'
  BY <1>2, <1>3 DEF PhaseInv
<1>4. CASE MainStep \/ (\E n \in Nodes : PickSequence(n)) \/ Stop
  BY <1>3, <1>4 DEF MainStep, LoopTest, PopQueued, StartWaiting, NextCompleted, AcquireMain, CheckAllDone,
     CheckQueue, TestUnlock, Unlock, PickBulk, PickSequence, PickNode, StopPicking, TestLastPod, IndexLastPod,
     ReadPriority, Assign, Submit, Register, ReturnFromCallback, Stop, MainOnly, workerVars, queueVars
<1>5. ASSUME NEW f \in Futures, Worker(f)
      PROVE  PhaseInv'
  <2>1. UNCHANGED reschedules /\ \A q \in Pods \ {PodOf(f)} : phase'[q] = phase[q]
    BY <1>5, FutureFacts DEF TypeOK, Worker, ScheduleFails, ScheduleSkips, StartEstimation,
       FinishEstimation, EndEstimation, FetchLogsRaises, DeletePod, WorkerGoto, queueVars
  <2>2. ASSUME phase'[PodOf(f)] # phase[PodOf(f)], phase'[PodOf(f)] = "finishing"
        PROVE  run'[CurrentRun(PodOf(f))'] \notin Beginning
    <3>1. FinishEstimation(f)
      BY <1>5, <2>2, FutureFacts DEF TypeOK, Worker, ScheduleFails, ScheduleSkips, StartEstimation,
         EndEstimation, FetchLogsRaises, DeletePod
    <3>2. run[f] = "starting" /\ run'[f] = "finishing"
      BY <3>1 DEF FinishEstimation, WorkerGoto, TypeOK
    <3>3. f = CurrentRun(PodOf(f))
      <4>1. PICK p \in Pods, k \in 0..MaxReschedules : f = <<p, k>> /\ p = PodOf(f)
        BY FutureFacts
      <4>2. PodOK(p) /\ reschedules[p] \in 0..MaxReschedules
        BY DEF PodInv, TypeOK
      <4>3. k = reschedules[p]
        BY <3>2, <4>1, <4>2 DEF PodOK, RunsOK
      <4> QED BY <4>1, <4>3 DEF CurrentRun
    <3>4. CurrentRun(PodOf(f))' = f
      BY <2>1, <3>3 DEF CurrentRun
    <3> QED BY <3>2, <3>4 DEF Beginning
  <2> QED BY <1>2, <2>1, <2>2, FutureFacts DEF PhaseInv
<1>6. ASSUME NEW f \in Futures, Callback(f)
      PROVE  PhaseInv'
  <2>1. CASE CleanStates(f)
    <3>1. UNCHANGED reschedules /\ \A p \in Pods : phase'[p] = phase[p] \/ phase'[p] = "none"
      BY <2>1 DEF CleanStates, ForgetPhases, queueVars, TypeOK
    <3> QED BY <1>2, <3>1 DEF PhaseInv
  <2>2. CASE RescheduleOrComplete(f)
    <3>1. f = CurrentRun(PodOf(f)) /\ PodOf(f) \in Pods /\ callback[f] = "decide"
      BY <2>2, CleaningIsCurrent, FutureFacts DEF RescheduleOrComplete, Ended
    <3>2. phase[PodOf(f)] = "none"
      BY <3>1 DEF PodInv, PodOK, CleanupOK
    <3>3. UNCHANGED phase /\ \A p \in Pods \ {PodOf(f)} : reschedules'[p] = reschedules[p]
      BY <2>2, <3>1 DEF RescheduleOrComplete, workerVars, TypeOK
    <3> QED BY <1>2, <3>2, <3>3 DEF PhaseInv
  <2> QED BY <1>3, <1>6, <2>1, <2>2 DEF Callback, BeginScan, RemoveFromNode, DropPriority, AcquireCallback,
             ReleaseCallback, workerVars, queueVars
<1>7. CASE SleepAndRetry \/ Finished \/ UNCHANGED vars
  BY <1>3, <1>7 DEF SleepAndRetry, Finished, vars, workerVars, queueVars
<1> QED BY <1>4, <1>5, <1>6, <1>7 DEF Next

(* The pods that start up on a node, and those of them that are not the    *)
(* last one of its list                                                    *)
Starting(n) == {p \in Pods : InSeq(p, pods_per_node[n]) /\ StartingUp(p)}
NotLast(n) ==
  {p \in Pods : \E i \in 1..(Len(pods_per_node[n]) - 1) : pods_per_node[n][i] = p /\ StartingUp(p)}

StartingInv ==
  /\ \A n \in Nodes : Cardinality(NotLast(n)) <= BulkScheduleSize - 1
  /\ main \in Picked => Cardinality(Starting(node_name)) <= BulkScheduleSize - 1

LEMMA FewerPods ==
  ASSUME NEW S, NEW T \in SUBSET Pods, S \subseteq T
  PROVE  /\ IsFiniteSet(S) /\ IsFiniteSet(T) /\ Cardinality(S) \in Nat /\ Cardinality(T) \in Nat
         /\ Cardinality(S) <= Cardinality(T)
<1>1. IsFiniteSet(T)
  BY FS_Subset, SchedulerAssumption
<1>2. IsFiniteSet(S) /\ Cardinality(S) <= Cardinality(T)
  BY <1>1, FS_Subset
<1> QED BY <1>1, <1>2, FS_CardinalityType

(* A list of pods has at most as many pods as elements.                    *)
LEMMA ListedPods ==
  ASSUME NEW s \in Seq(Pods)
  PROVE  Cardinality({p \in Pods : InSeq(p, s)}) <= Len(s)
<1> DEFINE T == {p \in Pods : InSeq(p, s)}
<1>1. Len(s) \in Nat /\ DOMAIN s = 1..Len(s) /\ s \in [1..Len(s) -> Pods]
  BY LenProperties
<1>2. s \in Surjection(1..Len(s), T)
  BY <1>1 DEF Surjection, InSeq
<1>3. ExistsSurjection(1..Len(s), T)
  BY <1>2 DEF ExistsSurjection
<1> HIDE DEF T
<1>4. Cardinality(T) <= Len(s)
  BY <1>1, <1>3, FS_SurjCardinalityBound
<1> QED BY <1>4 DEF T

(* What leaves a list takes no other pod to its front.                     *)
LEMMA StartingShrinks ==
  ASSUME TypeOK, PodInv, RunsGoOn, Shrinks, NEW n \in Nodes
  PROVE  Starting(n)' \subseteq Starting(n) /\ NotLast(n)' \subseteq NotLast(n)
<1> DEFINE s == pods_per_node[n]
           t == pods_per_node'[n]
<1>1. s \in Seq(Pods) /\ Len(s) \in Nat /\ DOMAIN s = 1..Len(s) /\ \A i \in 1..Len(s) : s[i] \in Pods
  BY LenProperties, ElementOfSeq DEF TypeOK
<1>2. ASSUME NEW p \in Pods, InSeq(p, s), StartingUp(p)'
      PROVE  StartingUp(p)
  <2>1. CurrentRun(p)' = CurrentRun(p)
    BY <1>2 DEF OnNode, RunsGoOn, CurrentRun
  <2> QED BY <1>2, <2>1, CurrentFacts DEF RunsGoOn, StartingUp, Beginning
<1>3. CASE t = s
  BY <1>1, <1>2, <1>3 DEF Starting, NotLast, InSeq
<1>4. ASSUME NEW i \in DOMAIN s, t = RemoveAt(s, i)
      PROVE  Starting(n)' \subseteq Starting(n) /\ NotLast(n)' \subseteq NotLast(n)
  <2>1. /\ Len(t) = Len(s) - 1 /\ DOMAIN t = 1..(Len(s) - 1)
        /\ \A j \in 1..(Len(s) - 1) : t[j] = IF j < i THEN s[j] ELSE s[j + 1]
    BY <1>1, <1>4, RemoveAtElements
  <2> HIDE DEF s, t
  <2>2. \A p : InSeq(p, t) => InSeq(p, s)
    BY <1>1, <2>1 DEF InSeq
  <2>3. \A p : (\E j \in 1..(Len(t) - 1) : t[j] = p) => \E j \in 1..(Len(s) - 1) : s[j] = p
    <3> SUFFICES ASSUME NEW j \in 1..(Len(t) - 1)
                 PROVE  \E k \in 1..(Len(s) - 1) : s[k] = t[j]
      OBVIOUS
    <3>1. j \in 1..(Len(s) - 1) /\ j + 1 \in 1..(Len(s) - 1)
      BY <1>1, <2>1
    <3> QED BY <2>1, <3>1
  <2>4. \A p : (\E j \in 1..(Len(s) - 1) : s[j] = p) => InSeq(p, s)
    BY <1>1 DEF InSeq
  <2>5. Starting(n)' \subseteq Starting(n)
    BY <1>2, <2>2 DEF Starting, s, t
  <2>6. ASSUME NEW p \in NotLast(n)'
        PROVE  p \in NotLast(n)
    <3>1. p \in Pods /\ StartingUp(p)' /\ \E j \in 1..(Len(t) - 1) : t[j] = p
      BY <2>6 DEF NotLast, t
    <3>2. StartingUp(p) /\ \E j \in 1..(Len(s) - 1) : s[j] = p
      BY <1>2, <2>3, <2>4, <3>1
    <3> QED BY <3>1, <3>2 DEF NotLast, s
  <2> QED BY <2>5, <2>6
<1> QED BY <1>3, <1>4 DEF Shrinks

LEMMA StartingKept ==
  ASSUME TypeOK, PodInv, StartingInv, RunsGoOn, Shrinks,
         main' \in Picked => main \in Picked /\ node_name' = node_name
  PROVE  StartingInv'
<1>1. ASSUME NEW n \in Nodes
      PROVE  Cardinality(NotLast(n)') <= BulkScheduleSize - 1
  <2>1. NotLast(n)' \subseteq NotLast(n) /\ NotLast(n) \in SUBSET Pods
    BY StartingShrinks DEF NotLast
  <2> QED BY <2>1, FewerPods, SchedulerAssumption DEF StartingInv
<1>2. ASSUME main' \in Picked
      PROVE  Cardinality(Starting(node_name)') <= BulkScheduleSize - 1
  <2>1. PICK n \in Nodes : n = node_name
    BY <1>2 DEF PodInv, LocalsInv, Picked
  <2>2. Starting(n)' \subseteq Starting(n) /\ Starting(n) \in SUBSET Pods
    BY StartingShrinks DEF Starting
  <2>3. Starting(node_name)' = Starting(n)'
    BY <1>2, <2>1 DEF Starting
  <2> QED BY <1>2, <2>1, <2>2, <2>3, FewerPods, SchedulerAssumption DEF StartingInv
<1> QED BY <1>1, <1>2 DEF StartingInv

(* get_schedulable_node                                                    *)
LEMMA StartingPicked ==
  ASSUME TypeOK, PodInv, PhaseInv, StartingInv, NEW n \in Nodes, PickBulk(n) \/ PickSequence(n)
  PROVE  StartingInv'
<1>1. UNCHANGED <<pods_per_node, run, reschedules>> /\ node_name' = n
  BY DEF PickBulk, PickSequence, PickNode, MainOnly, nodeVars, workerVars
<1>2. /\ \A m : Starting(m)' = Starting(m) /\ NotLast(m)' = NotLast(m)
      /\ Starting(node_name)' = Starting(n)
  BY <1>1 DEF Starting, NotLast, StartingUp, CurrentRun
<1>3. /\ pods_per_node[n] \in Seq(Pods) /\ Len(pods_per_node[n]) \in Nat
      /\ DOMAIN pods_per_node[n] = 1..Len(pods_per_node[n])
      /\ \A i \in 1..Len(pods_per_node[n]) : pods_per_node[n][i] \in Pods
      /\ BulkScheduleSize \in Nat \ {0}
  BY LenProperties, ElementOfSeq, SchedulerAssumption DEF TypeOK
<1>4. Cardinality(Starting(n)) <= BulkScheduleSize - 1
  <2>1. CASE PickBulk(n)
    <3> DEFINE T == {p \in Pods : InSeq(p, pods_per_node[n])}
    <3>1. Cardinality(T) <= Len(pods_per_node[n]) /\ Len(pods_per_node[n]) < BulkScheduleSize
      BY <1>3, <2>1, ListedPods DEF PickBulk, BulkSchedulable
    <3>2. Starting(n) \subseteq T /\ T \in SUBSET Pods
      BY DEF Starting
    <3> HIDE DEF T
    <3>3. Cardinality(Starting(n)) \in Nat /\ Cardinality(T) \in Nat /\ Cardinality(Starting(n)) <= Cardinality(T)
      BY <3>2, FewerPods
    <3> QED BY <1>3, <3>1, <3>3
  <2>2. CASE PickSequence(n)
    <3>1. Len(pods_per_node[n]) > 0 /\ phase[Last(pods_per_node[n])] = "finishing"
      BY <1>3, <2>2 DEF PickSequence, SequenceSchedulable, BulkSchedulable
    <3>2. Last(pods_per_node[n]) = pods_per_node[n][Len(pods_per_node[n])]
          /\ Last(pods_per_node[n]) \in Pods
      BY <1>3, <3>1 DEF Last
    <3>3. ~StartingUp(Last(pods_per_node[n]))
      BY <3>1, <3>2 DEF PhaseInv, StartingUp, Beginning
    <3>4. Starting(n) \subseteq NotLast(n)
      <4> SUFFICES ASSUME NEW p \in Starting(n) PROVE p \in NotLast(n)
        OBVIOUS
      <4>1. PICK i \in 1..Len(pods_per_node[n]) : pods_per_node[n][i] = p
        BY <1>3 DEF Starting, InSeq
      <4>2. i # Len(pods_per_node[n])
        BY <3>2, <3>3, <4>1 DEF Starting
      <4>3. i \in 1..(Len(pods_per_node[n]) - 1)
        BY <1>3, <4>2
      <4> QED BY <4>1, <4>3 DEF Starting, NotLast
    <3>5. NotLast(n) \in SUBSET Pods
      BY DEF NotLast
    <3> QED BY <1>3, <3>4, <3>5, FewerPods DEF StartingInv
  <2> QED BY <2>1, <2>2
<1>5. \A m \in Nodes : Cardinality(NotLast(m)') <= BulkScheduleSize - 1
  BY <1>2 DEF StartingInv
<1> QED BY <1>2, <1>4, <1>5 DEF StartingInv

(* add_pod_to_schedule_state                                               *)
LEMMA StartingAssigned ==
  ASSUME TypeOK, PodInv, StartingInv, Assign, main' = "submit"
  PROVE  StartingInv'
<1>1. /\ node_name \in Nodes /\ pod_name \in Pods /\ main = "assign"
      /\ pods_per_node' = [pods_per_node EXCEPT ![node_name] = Append(@, pod_name)]
      /\ UNCHANGED <<run, reschedules>>
  BY DEF Assign, Goto, MainOnly, workerVars, PodInv, LocalsInv
<1>2. \A p : StartingUp(p)' <=> StartingUp(p)
  BY <1>1 DEF StartingUp, CurrentRun
<1>3. ASSUME NEW n \in Nodes
      PROVE  Cardinality(NotLast(n)') <= BulkScheduleSize - 1
  <2>1. CASE n # node_name
    <3>1. pods_per_node'[n] = pods_per_node[n]
      BY <1>1, <2>1 DEF TypeOK
    <3>2. NotLast(n)' = NotLast(n)
      BY <1>2, <3>1 DEF NotLast
    <3> QED BY <3>2 DEF StartingInv
  <2>2. CASE n = node_name
    <3> DEFINE s == pods_per_node[n]
    <3>1. s \in Seq(Pods) /\ Len(s) \in Nat /\ DOMAIN s = 1..Len(s)
      BY LenProperties DEF TypeOK
    <3>2. pods_per_node'[n] = Append(s, pod_name)
      BY <1>1, <2>2 DEF TypeOK
    <3>3. Len(pods_per_node'[n]) = Len(s) + 1 /\ \A i \in 1..Len(s) : pods_per_node'[n][i] = s[i]
      BY <1>1, <3>1, <3>2, AppendProperties
    <3> HIDE DEF s
    <3>4. \A i \in 1..(Len(pods_per_node'[n]) - 1) : i \in 1..Len(s)
      BY <3>1, <3>3
    <3>5. NotLast(n)' \subseteq Starting(n)
      BY <1>2, <3>1, <3>3, <3>4 DEF NotLast, Starting, InSeq, s
    <3>6. Cardinality(Starting(n)) <= BulkScheduleSize - 1 /\ Starting(n) \in SUBSET Pods
      BY <1>1, <2>2 DEF StartingInv, Picked, Starting
    <3> QED BY <3>5, <3>6, FewerPods, SchedulerAssumption
  <2> QED BY <2>1, <2>2
<1> QED BY <1>3 DEF StartingInv, Picked

LEMMA StartingStep ==
  ASSUME TypeOK, PodInv, PhaseInv, StartingInv, [Next]_vars
  PROVE  StartingInv'
<1>1. RunsGoOn
  BY StepGoesOn
<1>2. CASE Assign /\ main' = "submit"
  BY <1>2, StartingAssigned
<1>3. CASE \E n \in Nodes : PickBulk(n) \/ PickSequence(n)
  BY <1>3, StartingPicked
<1>4. CASE /\ ~(Assign /\ main' = "submit") /\ ~\E n \in Nodes : PickBulk(n) \/ PickSequence(n)
  <2>1. main' \in Picked => main \in Picked /\ node_name' = node_name
    <3>1. CASE MainStep \/ Stop
      BY <1>4, <3>1 DEF MainStep, LoopTest, PopQueued, StartWaiting, NextCompleted, AcquireMain, CheckAllDone,
         CheckQueue, TestUnlock, Unlock, StopPicking, TestLastPod, IndexLastPod, ReadPriority, Assign, Submit,
         Register, ReturnFromCallback, Stop, StopRaises, Goto, ReleaseMain, AfterPop, Picked, choiceVars
    <3>2. CASE UNCHANGED mainVars
      BY <3>2 DEF mainVars, choiceVars
    <3> QED BY <1>4, <3>1, <3>2 DEF Next, Worker, ScheduleFails, ScheduleSkips, StartEstimation,
               FinishEstimation, EndEstimation, FetchLogsRaises, DeletePod, WorkerGoto, Callback, CleanStates,
               BeginScan, RemoveFromNode, DropPriority, AcquireCallback, RescheduleOrComplete, ReleaseCallback,
               SleepAndRetry, Finished, vars
  <2> QED BY <1>1, <1>4, <2>1, ListsShrink, StartingKept
<1> QED BY <1>2, <1>3, <1>4

LEMMA StartingInit == Init => PhaseInv /\ StartingInv
<1> SUFFICES ASSUME Init PROVE PhaseInv /\ StartingInv
  OBVIOUS
<1>1. PhaseInv
  BY DEF Init, PhaseInv
<1>2. \A n \in Nodes : NotLast(n) = {}
  <2>1. \A n \in Nodes : pods_per_node[n] = <<>>
    BY DEF Init
  <2>2. Len(<<>>) = 0
    OBVIOUS
  <2>3. ~\E i \in 1..(0 - 1) : TRUE
    OBVIOUS
  <2> QED BY <2>1, <2>2, <2>3 DEF NotLast
<1>3. Cardinality({}) = 0 /\ main \notin Picked
  BY FS_EmptySet DEF Init, Picked
<1> HIDE DEF NotLast
<1>4. \A n \in Nodes : Cardinality(NotLast(n)) = 0
  BY <1>2, <1>3
<1> QED BY <1>1, <1>3, <1>4, SchedulerAssumption DEF StartingInv

(* No more than BULK_SCHEDULE_SIZE pods start up on a node, however stale  *)
(* what get_schedulable_node read of it (scheduler.py).                    *)
THEOREM StartingBounded == Spec => []StartingPodsBounded
<1>1. Init => TypeOK /\ PodInv /\ PhaseInv /\ StartingInv
  BY TypeInit, PodInit, StartingInit
<1>2. TypeOK /\ PodInv /\ PhaseInv /\ StartingInv /\ [Next]_vars => (PhaseInv /\ StartingInv)'
  BY PhaseStep, StartingStep
<1>3. TypeOK /\ StartingInv => StartingPodsBounded
  <2> SUFFICES ASSUME TypeOK, StartingInv, NEW n \in Nodes
               PROVE  Cardinality(Starting(n)) <= BulkScheduleSize
    BY DEF StartingPodsBounded, Starting
  <2>1. /\ pods_per_node[n] \in Seq(Pods) /\ Len(pods_per_node[n]) \in Nat
        /\ DOMAIN pods_per_node[n] = 1..Len(pods_per_node[n])
    BY LenProperties DEF TypeOK
  <2> DEFINE last == pods_per_node[n][Len(pods_per_node[n])]
  <2>2. Starting(n) \subseteq NotLast(n) \cup {last}
    <3>1. \A i \in 1..Len(pods_per_node[n]) :
            i = Len(pods_per_node[n]) \/ i \in 1..(Len(pods_per_node[n]) - 1)
      BY <2>1
    <3> QED BY <2>1, <3>1 DEF Starting, NotLast, InSeq
  <2> HIDE DEF last
  <2>3. IsFiniteSet(NotLast(n)) /\ Cardinality(NotLast(n)) \in Nat
    <3>1. NotLast(n) \in SUBSET Pods
      BY DEF NotLast
    <3> QED BY <3>1, FewerPods
  <2>4. /\ IsFiniteSet(NotLast(n) \cup {last})
        /\ Cardinality(NotLast(n) \cup {last}) <= Cardinality(NotLast(n)) + 1
    <3>1. /\ IsFiniteSet(NotLast(n) \cup {last})
          /\ Cardinality(NotLast(n) \cup {last})
               = IF last \in NotLast(n) THEN Cardinality(NotLast(n)) ELSE Cardinality(NotLast(n)) + 1
      BY <2>3, FS_AddElement
    <3> QED BY <2>3, <3>1
  <2>5. /\ Cardinality(Starting(n)) <= Cardinality(NotLast(n) \cup {last})
        /\ Cardinality(Starting(n)) \in Nat /\ Cardinality(NotLast(n) \cup {last}) \in Nat
    BY <2>2, <2>4, FS_Subset, FS_CardinalityType
  <2>6. Cardinality(NotLast(n)) <= BulkScheduleSize - 1
    BY DEF StartingInv
  <2> QED BY <2>3, <2>4, <2>5, <2>6, SchedulerAssumption
<1> QED BY <1>1, <1>2, <1>3, PodInvariant, PTL DEF Spec

(* The list of a node is in the order of its priorities, and what          *)
(* get_schedulable_pod_priority has read stays below them.  Only the main  *)
(* thread adds pods to a node, so that the last pod it read may have left  *)
(* the node, or lost its priority, but none with a lower one has come.     *)
ListsOrdered ==
  \A n \in Nodes : \A i, j \in DOMAIN pods_per_node[n] :
    i < j => pods_priorities[pods_per_node[n][j]] < pods_priorities[pods_per_node[n][i]]

LastPodInv ==
  /\ main \notin {"priority"} \cup Terminated => last_pod = None
  /\ main = "priority" /\ last_pod = None => \A p : ~InSeq(p, pods_per_node[node_name])
  /\ main = "priority" /\ last_pod # None =>
       \A p \in Pods : InSeq(p, pods_per_node[node_name]) /\ pods_priorities[last_pod] # None =>
         pods_priorities[last_pod] <= pods_priorities[p]

ReadPriorityInv ==
  main = "assign" =>
    \A p \in Pods : InSeq(p, pods_per_node[node_name]) => priority < pods_priorities[p]

PriorityInv == ListsOrdered /\ LastPodInv /\ ReadPriorityInv

(* The pods of a list that shrinks keep their order.                       *)
LEMMA ShrinkKeepsOrder ==
  ASSUME TypeOK, Shrinks, NEW n \in Nodes
  PROVE  /\ \A p : InSeq(p, pods_per_node'[n]) => InSeq(p, pods_per_node[n])
         /\ \A i, j \in DOMAIN pods_per_node'[n] : i < j =>
              \E k, l \in DOMAIN pods_per_node[n] :
                 k < l /\ pods_per_node[n][k] = pods_per_node'[n][i] /\ pods_per_node[n][l] = pods_per_node'[n][j]
<1> DEFINE s == pods_per_node[n]
           t == pods_per_node'[n]
<1>1. s \in Seq(Pods) /\ Len(s) \in Nat /\ DOMAIN s = 1..Len(s)
  BY LenProperties DEF TypeOK
<1>2. CASE t = s
  BY <1>2
<1>3. ASSUME NEW r \in DOMAIN s, t = RemoveAt(s, r)
      PROVE  /\ \A p : InSeq(p, t) => InSeq(p, s)
             /\ \A i, j \in DOMAIN t : i < j => \E k, l \in DOMAIN s : k < l /\ s[k] = t[i] /\ s[l] = t[j]
  <2>1. /\ DOMAIN t = 1..(Len(s) - 1)
        /\ \A j \in 1..(Len(s) - 1) : t[j] = IF j < r THEN s[j] ELSE s[j + 1]
    BY <1>1, <1>3, RemoveAtElements
  <2> HIDE DEF s, t
  <2>2. \A i \in DOMAIN t : i \in DOMAIN s /\ i + 1 \in DOMAIN s
    BY <1>1, <2>1
  <2>3. \A p : InSeq(p, t) => InSeq(p, s)
    BY <2>1, <2>2 DEF InSeq
  <2>4. ASSUME NEW i \in DOMAIN t, NEW j \in DOMAIN t, i < j
        PROVE  \E k, l \in DOMAIN s : k < l /\ s[k] = t[i] /\ s[l] = t[j]
    <3> DEFINE k == IF i < r THEN i ELSE i + 1
               l == IF j < r THEN j ELSE j + 1
    <3>1. k \in DOMAIN s /\ l \in DOMAIN s /\ k < l
      BY <1>1, <1>3, <2>1, <2>2, <2>4
    <3>2. s[k] = t[i] /\ s[l] = t[j]
      BY <2>1, <2>4
    <3> HIDE DEF k, l
    <3> QED BY <3>1, <3>2
  <2> QED BY <2>3, <2>4
<1> QED BY <1>2, <1>3 DEF Shrinks

LEMMA PriorityFrame ==
  ASSUME TypeOK, PodInv, PriorityInv, Shrinks, last_pod' = last_pod,
         \A p \in Pods : \/ pods_priorities'[p] = pods_priorities[p]
                         \/ pods_priorities'[p] = None /\ ~OnNode(p),
         main' \in {"priority", "assign"} => main' = main /\ UNCHANGED <<node_name, priority>>,
         main' \notin {"priority"} \cup Terminated => main \notin {"priority"} \cup Terminated
  PROVE  PriorityInv'
<1>1. \A n \in Nodes : \A p : InSeq(p, pods_per_node'[n]) => InSeq(p, pods_per_node[n])
  BY ShrinkKeepsOrder
<1>2. \A n \in Nodes : \A p \in Pods : InSeq(p, pods_per_node[n]) => pods_priorities'[p] = pods_priorities[p]
  BY DEF OnNode
<1>3. main \in {"priority", "assign"} => node_name \in Nodes
  BY DEF PodInv, LocalsInv
<1>4. ListsOrdered'
  <2> SUFFICES ASSUME NEW n \in Nodes, NEW i \in DOMAIN pods_per_node'[n], NEW j \in DOMAIN pods_per_node'[n], i < j
               PROVE  pods_priorities'[pods_per_node'[n][j]] < pods_priorities'[pods_per_node'[n][i]]
    BY DEF ListsOrdered
  <2>1. PICK k, l \in DOMAIN pods_per_node[n] :
          k < l /\ pods_per_node[n][k] = pods_per_node'[n][i] /\ pods_per_node[n][l] = pods_per_node'[n][j]
    BY ShrinkKeepsOrder
  <2>2. pods_per_node[n][k] \in Pods /\ pods_per_node[n][l] \in Pods
    BY ElementOfSeq, LenProperties DEF TypeOK
  <2>3. pods_priorities[pods_per_node[n][l]] < pods_priorities[pods_per_node[n][k]]
    BY <2>1 DEF PriorityInv, ListsOrdered
  <2>4. InSeq(pods_per_node[n][k], pods_per_node[n]) /\ InSeq(pods_per_node[n][l], pods_per_node[n])
    BY DEF InSeq
  <2> QED BY <1>2, <2>1, <2>2, <2>3, <2>4
<1>5. LastPodInv'
  <2>1. main' \notin {"priority"} \cup Terminated => last_pod' = None
    BY DEF PriorityInv, LastPodInv
  <2>2. ASSUME main' = "priority", last_pod' = None
        PROVE  \A p : ~InSeq(p, pods_per_node'[node_name'])
    BY <1>1, <1>3, <2>2 DEF PriorityInv, LastPodInv
  <2>3. ASSUME main' = "priority", last_pod' # None, NEW p \in Pods, InSeq(p, pods_per_node'[node_name']),
               pods_priorities'[last_pod'] # None
        PROVE  pods_priorities'[last_pod'] <= pods_priorities'[p]
    <3>1. main = "priority" /\ node_name' = node_name /\ InSeq(p, pods_per_node[node_name]) /\ last_pod \in Pods
      BY <1>1, <1>3, <2>3 DEF TypeOK
    <3>2. pods_priorities'[p] = pods_priorities[p] /\ pods_priorities'[last_pod] = pods_priorities[last_pod]
      BY <1>2, <1>3, <2>3, <3>1
    <3> QED BY <2>3, <3>1, <3>2 DEF PriorityInv, LastPodInv
  <2> QED BY <2>1, <2>2, <2>3 DEF LastPodInv
<1>6. ReadPriorityInv'
  BY <1>1, <1>2, <1>3 DEF PriorityInv, ReadPriorityInv
<1> QED BY <1>4, <1>5, <1>6 DEF PriorityInv

(* get_schedulable_pod_priority finds the node empty.                      *)
LEMMA PriorityOfEmptyNode ==
  ASSUME TypeOK, PodInv, PriorityInv, TestLastPod
  PROVE  PriorityInv'
<1>1. /\ main = "last_pod" /\ main' \in {"priority", "last_index"}
      /\ main' = "priority" => pods_per_node[node_name] = <<>>
      /\ UNCHANGED <<pods_per_node, pods_priorities, node_name, last_pod, priority>>
  BY DEF TestLastPod, Goto, nodeVars, choiceVars
<1>2. ListsOrdered'
  BY <1>1 DEF PriorityInv, ListsOrdered
<1>3. last_pod = None /\ \A p : ~InSeq(p, <<>>)
  BY <1>1, EmptyList DEF PriorityInv, LastPodInv, Terminated
<1>4. LastPodInv' /\ ReadPriorityInv'
  BY <1>1, <1>3 DEF LastPodInv, ReadPriorityInv
<1> QED BY <1>2, <1>4 DEF PriorityInv

(* It takes the last pod of the node, the one with the lowest priority.    *)
LEMMA PriorityOfLastPod ==
  ASSUME TypeOK, PodInv, PriorityInv, IndexLastPod
  PROVE  PriorityInv'
<1>1. /\ main = "last_index" /\ node_name \in Nodes
      /\ UNCHANGED <<pods_per_node, pods_priorities, node_name, priority>>
  BY DEF IndexLastPod, nodeVars, PodInv, LocalsInv
<1>2. ListsOrdered'
  BY <1>1 DEF PriorityInv, ListsOrdered
<1>3. CASE main' = "crashed"
  BY <1>2, <1>3 DEF PriorityInv, LastPodInv, ReadPriorityInv, Terminated
<1>4. CASE main' # "crashed"
  <2> DEFINE s == pods_per_node[node_name]
  <2>1. s # <<>> /\ last_pod' = Last(s) /\ main' = "priority"
    BY <1>4 DEF IndexLastPod, Goto
  <2>2. s \in Seq(Pods) /\ Len(s) \in Nat /\ DOMAIN s = 1..Len(s) /\ \A i \in 1..Len(s) : s[i] \in Pods
    BY <1>1, LenProperties, ElementOfSeq DEF TypeOK
  <2>3. Len(s) \in 1..Len(s) /\ Last(s) = s[Len(s)]
    BY <2>1, <2>2, EmptySeq DEF Last
  <2>4. \A i \in 1..Len(s) : pods_priorities[s[i]] \in Int
    <3>1. \A i \in 1..Len(s) : s[i] \in Pods /\ OnNode(s[i])
      BY <1>1, <2>2 DEF OnNode, InSeq
    <3> HIDE DEF s
    <3> QED BY <3>1 DEF PodInv, PodOK, AssignedOK, TypeOK
  <2>5. \A i \in 1..Len(s) : i < Len(s) => pods_priorities[s[Len(s)]] < pods_priorities[s[i]]
    BY <1>1, <2>2, <2>3 DEF PriorityInv, ListsOrdered
  <2>6. \A i \in 1..Len(s) : pods_priorities[s[Len(s)]] <= pods_priorities[s[i]]
    <3> SUFFICES ASSUME NEW i \in 1..Len(s) PROVE pods_priorities[s[Len(s)]] <= pods_priorities[s[i]]
      OBVIOUS
    <3>1. i = Len(s) \/ i < Len(s)
      BY <2>2
    <3> QED BY <2>3, <2>4, <2>5, <3>1
  <2>7. \A p : InSeq(p, s) => pods_priorities[Last(s)] <= pods_priorities[p]
    BY <2>2, <2>3, <2>6 DEF InSeq
  <2>8. last_pod' # None
    BY <2>1, <2>2, <2>3, SchedulerAssumption
  <2>9. LastPodInv' /\ ReadPriorityInv'
    BY <1>1, <2>1, <2>7, <2>8 DEF LastPodInv, ReadPriorityInv
  <2> QED BY <1>2, <2>9 DEF PriorityInv
<1> QED BY <1>3, <1>4

(* It reads the priority of that pod, or starts with the base priority.    *)
LEMMA PriorityRead ==
  ASSUME TypeOK, PodInv, PriorityInv, ReadPriority
  PROVE  PriorityInv'
<1>1. /\ main = "priority" /\ node_name \in Nodes /\ main' \in {"assign", "crashed"} /\ last_pod' = None
      /\ UNCHANGED <<pods_per_node, pods_priorities, node_name>>
  BY DEF ReadPriority, Goto, nodeVars, PodInv, LocalsInv
<1>2. ListsOrdered'
  BY <1>1 DEF PriorityInv, ListsOrdered
<1>3. LastPodInv'
  BY <1>1 DEF LastPodInv
<1>4. ASSUME main' = "assign", NEW p \in Pods, InSeq(p, pods_per_node[node_name])
      PROVE  priority' < pods_priorities[p]
  <2>1. pods_priorities[p] \in Int
    BY <1>1, <1>4 DEF OnNode, PodInv, PodOK, AssignedOK, TypeOK
  <2>2. /\ last_pod # None
        /\ pods_priorities[last_pod] <= pods_priorities[p]
    BY <1>1, <1>4 DEF PriorityInv, LastPodInv, ReadPriority, Goto
  <2>3. priority' = pods_priorities[last_pod] - 1 /\ pods_priorities[last_pod] \in Int
    BY <1>4, <2>2 DEF ReadPriority, Goto, NextPriority, TypeOK
  <2> QED BY <2>1, <2>2, <2>3
<1>5. ReadPriorityInv'
  BY <1>1, <1>4 DEF ReadPriorityInv
<1> QED BY <1>2, <1>3, <1>5 DEF PriorityInv

(* add_pod_to_schedule_state: the new pod is the last one of its node.     *)
LEMMA PriorityAssigned ==
  ASSUME TypeOK, PodInv, PriorityInv, Assign, main' = "submit"
  PROVE  PriorityInv'
<1>1. /\ main = "assign" /\ node_name \in Nodes /\ pod_name \in Pods /\ ~OnNode(pod_name)
      /\ pods_per_node' = [pods_per_node EXCEPT ![node_name] = Append(@, pod_name)]
      /\ pods_priorities' = [pods_priorities EXCEPT ![pod_name] = priority]
      /\ last_pod' = last_pod
  BY DEF Assign, Goto, PodInv, LocalsInv
<1>2. LastPodInv' /\ ReadPriorityInv'
  BY <1>1 DEF PriorityInv, LastPodInv, ReadPriorityInv, Terminated
<1>3. pods_priorities'[pod_name] = priority /\ \A p \in Pods \ {pod_name} : pods_priorities'[p] = pods_priorities[p]
  BY <1>1 DEF TypeOK
<1>4. ASSUME NEW n \in Nodes, NEW i \in DOMAIN pods_per_node'[n], NEW j \in DOMAIN pods_per_node'[n], i < j
      PROVE  pods_priorities'[pods_per_node'[n][j]] < pods_priorities'[pods_per_node'[n][i]]
  <2> DEFINE s == pods_per_node[n]
  <2>1. s \in Seq(Pods) /\ Len(s) \in Nat /\ DOMAIN s = 1..Len(s) /\ \A k \in 1..Len(s) : s[k] \in Pods
    BY LenProperties, ElementOfSeq DEF TypeOK
  <2>2. \A k \in 1..Len(s) : InSeq(s[k], s) /\ s[k] # pod_name
    BY <1>1, <2>1 DEF OnNode, InSeq
  <2>3. \A k \in 1..Len(s) : pods_priorities'[s[k]] = pods_priorities[s[k]]
    BY <1>3, <2>1, <2>2
  <2>4. \A k, l \in 1..Len(s) : k < l => pods_priorities[s[l]] < pods_priorities[s[k]]
    BY <2>1 DEF PriorityInv, ListsOrdered
  <2>5. CASE n # node_name
    <3>1. pods_per_node'[n] = s
      BY <1>1, <2>5 DEF TypeOK
    <3> QED BY <1>4, <2>1, <2>3, <2>4, <3>1
  <2>6. CASE n = node_name
    <3>1. pods_per_node'[n] = Append(s, pod_name)
      BY <1>1, <2>6 DEF TypeOK
    <3>2. /\ DOMAIN pods_per_node'[n] = 1..(Len(s) + 1)
          /\ \A k \in 1..Len(s) : pods_per_node'[n][k] = s[k]
          /\ pods_per_node'[n][Len(s) + 1] = pod_name
      <4>1. Append(s, pod_name) \in Seq(Pods) /\ Len(Append(s, pod_name)) = Len(s) + 1
        BY <1>1, <2>1, AppendProperties
      <4> QED BY <1>1, <2>1, <3>1, <4>1, AppendProperties, LenProperties
    <3>3. \A k \in 1..Len(s) : priority < pods_priorities[s[k]]
      BY <1>1, <2>1, <2>2, <2>6 DEF PriorityInv, ReadPriorityInv
    <3> HIDE DEF s
    <3>4. i \in 1..Len(s) /\ (j \in 1..Len(s) \/ j = Len(s) + 1)
      BY <1>4, <2>1, <3>2
    <3> QED BY <1>3, <1>4, <2>3, <2>4, <3>2, <3>3, <3>4
  <2> QED BY <2>5, <2>6
<1> QED BY <1>2, <1>4 DEF PriorityInv, ListsOrdered

LEMMA PriorityStep ==
  ASSUME TypeOK, PodInv, PriorityInv, [Next]_vars
  PROVE  PriorityInv'
<1>1. ASSUME Shrinks, last_pod' = last_pod, UNCHANGED pods_priorities,
             main' \in {"priority", "assign"} => main' = main /\ UNCHANGED <<node_name, priority>>,
             main' \notin {"priority"} \cup Terminated => main \notin {"priority"} \cup Terminated
      PROVE  PriorityInv'
  BY <1>1, PriorityFrame
<1>2. ASSUME MainStep \/ (\E n \in Nodes : PickSequence(n)) \/ Stop,
             ~TestLastPod, ~IndexLastPod, ~ReadPriority, ~(Assign /\ main' = "submit")
      PROVE  PriorityInv'
  <2>1. last_pod' = last_pod /\ UNCHANGED pods_priorities
    BY <1>2 DEF MainStep, LoopTest, PopQueued, StartWaiting, NextCompleted, AcquireMain, CheckAllDone, CheckQueue,
       TestUnlock, Unlock, PickBulk, PickSequence, PickNode, StopPicking, Assign, Submit, Register,
       ReturnFromCallback, Stop, nodeVars, choiceVars, Goto
  <2>2. main' \in {"priority", "assign"} => main' = main /\ UNCHANGED <<node_name, priority>>
    BY <1>2 DEF MainStep, LoopTest, PopQueued, StartWaiting, NextCompleted, AcquireMain, CheckAllDone, CheckQueue,
       TestUnlock, Unlock, PickBulk, PickSequence, PickNode, StopPicking, Assign, Submit, Register,
       ReturnFromCallback, Stop, StopRaises, choiceVars, Goto, ReleaseMain, AfterPop
  <2>3. main' \notin {"priority"} \cup Terminated => main \notin {"priority"} \cup Terminated
    BY <1>2 DEF MainStep, LoopTest, PopQueued, StartWaiting, NextCompleted, AcquireMain, CheckAllDone, CheckQueue,
       TestUnlock, Unlock, PickBulk, PickSequence, PickNode, StopPicking, Assign, Submit, Register,
       ReturnFromCallback, Stop, StopRaises, Terminated, Goto, ReleaseMain, AfterPop
  <2> QED BY <1>1, <1>2, <2>1, <2>2, <2>3, ListsShrink
<1>3. ASSUME NEW f \in Futures, Worker(f) \/ Callback(f)
      PROVE  PriorityInv'
  <2>1. UNCHANGED <<main, node_name, last_pod, priority>> /\ ~(Assign /\ main' = "submit")
    <3>1. UNCHANGED mainVars
      BY <1>3 DEF Worker, ScheduleFails, ScheduleSkips, StartEstimation, FinishEstimation, EndEstimation,
         FetchLogsRaises, DeletePod, WorkerGoto, Callback, CleanStates, BeginScan, RemoveFromNode, DropPriority,
         AcquireCallback, RescheduleOrComplete, ReleaseCallback
    <3> QED BY <3>1 DEF mainVars, choiceVars, Assign
  <2>2. \A p \in Pods : \/ pods_priorities'[p] = pods_priorities[p]
                        \/ pods_priorities'[p] = None /\ ~OnNode(p)
    <3>1. CASE DropPriority(f)
      <4>1. callback[f] = "priority" /\ f = CurrentRun(PodOf(f)) /\ PodOf(f) \in Pods
        BY <3>1, CleaningIsCurrent, FutureFacts DEF DropPriority, Ended
      <4>2. ~OnNode(PodOf(f))
        BY <4>1 DEF PodInv, PodOK, AssignedOK
      <4> QED BY <3>1, <4>1, <4>2 DEF DropPriority, TypeOK
    <3>2. CASE ~DropPriority(f)
      BY <1>3, <3>2 DEF Worker, ScheduleFails, ScheduleSkips, StartEstimation, FinishEstimation, EndEstimation,
         FetchLogsRaises, DeletePod, WorkerGoto, Callback, CleanStates, BeginScan, RemoveFromNode,
         AcquireCallback, RescheduleOrComplete, ReleaseCallback, nodeVars
    <3> QED BY <3>1, <3>2
  <2>3. Shrinks
    BY <2>1, ListsShrink
  <2> QED BY <2>1, <2>2, <2>3, PriorityFrame
<1>4. CASE SleepAndRetry \/ Finished \/ UNCHANGED vars
  <2>1. UNCHANGED <<pods_per_node, pods_priorities, main, node_name, last_pod, priority>>
    BY <1>4 DEF SleepAndRetry, Finished, vars, nodeVars, mainVars, choiceVars
  <2> QED BY <1>1, <2>1 DEF Shrinks
<1> QED BY <1>2, <1>3, <1>4, PriorityOfEmptyNode, PriorityOfLastPod, PriorityRead, PriorityAssigned DEF Next

LEMMA PriorityInit == Init => PriorityInv
<1> SUFFICES ASSUME Init PROVE PriorityInv
  OBVIOUS
<1>1. \A n \in Nodes : DOMAIN pods_per_node[n] = {}
  <2>1. \A n \in Nodes : pods_per_node[n] = <<>>
    BY DEF Init
  <2>2. DOMAIN <<>> = {}
    OBVIOUS
  <2> QED BY <2>1, <2>2
<1> QED BY <1>1 DEF Init, PriorityInv, ListsOrdered, LastPodInv, ReadPriorityInv

(* A pod gets a lower priority than every pod before it on its node, with  *)
(* cleanups removing pods and their priorities while                       *)
(* get_schedulable_pod_priority reads them (scheduler.py).                 *)
THEOREM LaterIsLower == Spec => []LaterPodsHaveLowerPriority
<1>1. TypeOK /\ PodInv /\ PriorityInv /\ [Next]_vars => PriorityInv'
  BY PriorityStep
<1>2. TypeOK /\ PodInv /\ PriorityInv => LaterPodsHaveLowerPriority
  <2> SUFFICES ASSUME TypeOK, PodInv, PriorityInv, NEW n \in Nodes,
                      NEW i \in DOMAIN pods_per_node[n], NEW j \in DOMAIN pods_per_node[n], i < j
               PROVE  /\ pods_priorities[pods_per_node[n][i]] # None
                      /\ pods_priorities[pods_per_node[n][j]] # None
                      /\ pods_priorities[pods_per_node[n][j]] < pods_priorities[pods_per_node[n][i]]
    BY DEF LaterPodsHaveLowerPriority
  <2>1. \A k \in DOMAIN pods_per_node[n] : pods_per_node[n][k] \in Pods /\ OnNode(pods_per_node[n][k])
    BY ElementOfSeq, LenProperties DEF TypeOK, OnNode, InSeq
  <2>2. \A p \in Pods : OnNode(p) => pods_priorities[p] # None
    BY DEF PodInv, PodOK, AssignedOK
  <2> QED BY <2>1, <2>2 DEF PriorityInv, ListsOrdered
<1> QED BY <1>1, <1>2, PriorityInit, PodInvariant, PTL DEF Spec

=============================================================================
