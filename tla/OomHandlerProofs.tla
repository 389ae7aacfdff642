-------------------------- MODULE OomHandlerProofs --------------------------
(***************************************************************************)
(* Theorems about OomHandler, for any pods, nodes, starts and failures:    *)
(* nobody waits on an empty queue under the lock, no pod in flight is      *)
(* forgotten, no two are to be killed first.                               *)
(***************************************************************************)
EXTENDS OomHandler, SequenceTheorems, TLAPS

-----------------------------------------------------------------------------
(* What the operations that the handler has on its lists and queues do to  *)
(* their elements: append, extend, get, remove, assign.                    *)

(* x is an element of s.                                                   *)
Has(s, x) == \E i \in DOMAIN s : s[i] = x

LEMMA HasNothing == \A x : ~Has(<<>>, x)
BY DEF Has

(* append and put add one element at the end.                              *)
LEMMA AppendHas ==
  ASSUME NEW S, NEW s \in Seq(S), NEW e \in S
  PROVE  /\ Append(s, e) \in Seq(S) /\ Append(s, e) # <<>>
         /\ \A x : Has(Append(s, e), x) <=> Has(s, x) \/ x = e
<1>1. /\ Len(s) \in Nat /\ DOMAIN s = 1..Len(s)
      /\ Append(s, e) \in Seq(S) /\ Len(Append(s, e)) = Len(s) + 1
      /\ \A i \in 1..Len(s) : Append(s, e)[i] = s[i]
      /\ Append(s, e)[Len(s) + 1] = e
  BY AppendProperties, LenProperties
<1>2. DOMAIN Append(s, e) = 1..(Len(s) + 1)
  BY <1>1, LenProperties
<1>3. \A i : i \in 1..(Len(s) + 1) <=> i \in 1..Len(s) \/ i = Len(s) + 1
  BY <1>1
<1>4. Append(s, e) # <<>>
  BY <1>1, EmptySeq
<1> QED BY <1>1, <1>2, <1>3, <1>4 DEF Has

(* The elements of a concatenation are those of both.                      *)
LEMMA ConcatHas ==
  ASSUME NEW S, NEW s \in Seq(S), NEW t \in Seq(S)
  PROVE  /\ s \o t \in Seq(S)
         /\ \A x : Has(s \o t, x) <=> Has(s, x) \/ Has(t, x)
<1>1. /\ Len(s) \in Nat /\ DOMAIN s = 1..Len(s)
      /\ Len(t) \in Nat /\ DOMAIN t = 1..Len(t)
      /\ s \o t \in Seq(S)
      /\ Len(s \o t) = Len(s) + Len(t)
      /\ \A i \in 1..(Len(s) + Len(t)) :
           (s \o t)[i] = IF i <= Len(s) THEN s[i] ELSE t[i - Len(s)]
  BY ConcatProperties, LenProperties
<1>2. DOMAIN (s \o t) = 1..(Len(s) + Len(t))
  BY <1>1, LenProperties
<1> SUFFICES ASSUME NEW x
             PROVE  Has(s \o t, x) <=> Has(s, x) \/ Has(t, x)
  BY <1>1
<1> DEFINE u == s \o t
<1>3. /\ DOMAIN u = 1..(Len(s) + Len(t))
      /\ \A i \in 1..(Len(s) + Len(t)) :
           u[i] = IF i <= Len(s) THEN s[i] ELSE t[i - Len(s)]
  BY <1>1, <1>2
<1> HIDE DEF u
<1>4. ASSUME Has(u, x)
      PROVE  Has(s, x) \/ Has(t, x)
  <2>1. PICK i \in 1..(Len(s) + Len(t)) : u[i] = x
    BY <1>3, <1>4 DEF Has
  <2>2. CASE i <= Len(s)
    BY <1>1, <1>3, <2>1, <2>2 DEF Has
  <2>3. CASE ~(i <= Len(s))
    <3>1. i - Len(s) \in 1..Len(t)
      BY <1>1, <2>3
    <3> QED BY <1>1, <1>3, <2>1, <2>3, <3>1 DEF Has
  <2> QED BY <2>2, <2>3
<1>5. ASSUME Has(s, x)
      PROVE  Has(u, x)
  <2>1. PICK i \in 1..Len(s) : s[i] = x
    BY <1>1, <1>5 DEF Has
  <2>2. i \in 1..(Len(s) + Len(t)) /\ i <= Len(s)
    BY <1>1
  <2> QED BY <1>3, <2>1, <2>2 DEF Has
<1>6. ASSUME Has(t, x)
      PROVE  Has(u, x)
  <2>1. PICK i \in 1..Len(t) : t[i] = x
    BY <1>1, <1>6 DEF Has
  <2>2. Len(s) + i \in 1..(Len(s) + Len(t)) /\ ~(Len(s) + i <= Len(s)) /\ (Len(s) + i) - Len(s) = i
    BY <1>1
  <2>3. u[Len(s) + i] = x
    BY <1>3, <2>1, <2>2
  <2> QED BY <1>3, <2>2, <2>3 DEF Has
<1> QED BY <1>4, <1>5, <1>6 DEF u

(* get takes the first element and leaves the others.                      *)
LEMMA HeadTailHas ==
  ASSUME NEW S, NEW s \in Seq(S), s # <<>>
  PROVE  /\ Head(s) \in S /\ Tail(s) \in Seq(S)
         /\ \A x : Has(s, x) <=> x = Head(s) \/ Has(Tail(s), x)
<1>1. /\ Len(s) \in Nat \ {0} /\ DOMAIN s = 1..Len(s)
      /\ Head(s) \in S /\ Tail(s) \in Seq(S)
      /\ Len(Tail(s)) = Len(s) - 1
      /\ Head(s) = s[1]
      /\ \A i \in 1..Len(Tail(s)) : Tail(s)[i] = s[i + 1]
  BY HeadTailProperties, LenProperties, EmptySeq
<1>2. DOMAIN Tail(s) = 1..(Len(s) - 1)
  BY <1>1, LenProperties
<1>3. \A i \in 1..Len(s) : i = 1 \/ i - 1 \in 1..(Len(s) - 1)
  BY <1>1
<1>4. \A i \in 1..(Len(s) - 1) : i + 1 \in 1..Len(s)
  BY <1>1
<1>5. ASSUME NEW x, Has(s, x)
      PROVE  x = Head(s) \/ Has(Tail(s), x)
  <2>1. PICK i \in 1..Len(s) : s[i] = x
    BY <1>1, <1>5 DEF Has
  <2>2. CASE i = 1
    BY <1>1, <2>1, <2>2
  <2>3. CASE i - 1 \in 1..(Len(s) - 1)
    <3>1. Tail(s)[i - 1] = s[(i - 1) + 1] /\ (i - 1) + 1 = i
      BY <1>1, <2>3
    <3> QED BY <1>2, <2>1, <2>3, <3>1 DEF Has
  <2> QED BY <1>3, <2>2, <2>3
<1>6. ASSUME NEW x, x = Head(s) \/ Has(Tail(s), x)
      PROVE  Has(s, x)
  <2>1. CASE x = Head(s)
    BY <1>1, <2>1 DEF Has
  <2>2. CASE Has(Tail(s), x)
    BY <1>1, <1>2, <1>4, <2>2 DEF Has
  <2> QED BY <1>6, <2>1, <2>2
<1> QED BY <1>1, <1>5, <1>6

(* Removing one element leaves the others and adds none.                   *)
LEMMA RemoveAtHas ==
  ASSUME NEW S, NEW s \in Seq(S), NEW i \in DOMAIN s
  PROVE  /\ RemoveAt(s, i) \in Seq(S)
         /\ \A x : Has(s, x) => x = s[i] \/ Has(RemoveAt(s, i), x)
         /\ \A x : Has(RemoveAt(s, i), x) => Has(s, x)
<1> DEFINE a == SubSeq(s, 1, i - 1)
           b == SubSeq(s, i + 1, Len(s))
<1>1. /\ Len(s) \in Nat /\ DOMAIN s = 1..Len(s) /\ i \in 1..Len(s)
      /\ \A j \in 1..Len(s) : s[j] \in S
  BY LenProperties, ElementOfSeq
<1>2. a \in Seq(S) /\ DOMAIN a = 1..(i - 1) /\ \A j \in 1..(i - 1) : a[j] = s[j]
  <2>1. 1 \in Int /\ i - 1 \in Int /\ \A j \in 1..(i - 1) : s[j] \in S
    BY <1>1
  <2>2. /\ a \in Seq(S)
        /\ Len(a) = IF 1 <= i - 1 THEN i - 1 - 1 + 1 ELSE 0
        /\ \A j \in 1..(i - 1 - 1 + 1) : a[j] = s[1 + j - 1]
    BY <2>1, SubSeqProperties
  <2> QED BY <1>1, <2>2, LenProperties
<1>3. b \in Seq(S) /\ DOMAIN b = 1..(Len(s) - i) /\ \A j \in 1..(Len(s) - i) : b[j] = s[i + j]
  <2>1. i + 1 \in Int /\ Len(s) \in Int /\ \A j \in (i + 1)..Len(s) : s[j] \in S
    BY <1>1
  <2>2. /\ b \in Seq(S)
        /\ Len(b) = IF i + 1 <= Len(s) THEN Len(s) - (i + 1) + 1 ELSE 0
        /\ \A j \in 1..(Len(s) - (i + 1) + 1) : b[j] = s[i + 1 + j - 1]
    BY <2>1, SubSeqProperties
  <2>3. Len(b) = Len(s) - i
    BY <1>1, <2>2
  <2>4. ASSUME NEW j \in 1..(Len(s) - i)
        PROVE  b[j] = s[i + j]
    <3>1. j \in 1..(Len(s) - (i + 1) + 1) /\ i + 1 + j - 1 = i + j
      BY <1>1
    <3> HIDE DEF b
    <3> QED BY <2>2, <3>1
  <2> QED BY <2>2, <2>3, <2>4, LenProperties
<1>4. RemoveAt(s, i) = a \o b
  BY DEF RemoveAt
<1> HIDE DEF a, b
<1>5. ASSUME NEW x, Has(s, x)
      PROVE  x = s[i] \/ Has(a, x) \/ Has(b, x)
  <2>1. PICK j \in 1..Len(s) : s[j] = x
    BY <1>1, <1>5 DEF Has
  <2>2. CASE j \in 1..(i - 1)
    BY <1>2, <2>1, <2>2 DEF Has
  <2>3. CASE j - i \in 1..(Len(s) - i)
    <3>1. b[j - i] = s[i + (j - i)] /\ i + (j - i) = j
      BY <1>1, <1>3, <2>3
    <3> QED BY <1>3, <2>1, <2>3, <3>1 DEF Has
  <2>4. j = i \/ j \in 1..(i - 1) \/ j - i \in 1..(Len(s) - i)
    BY <1>1
  <2> QED BY <2>1, <2>2, <2>3, <2>4
<1>6. ASSUME NEW x, Has(a, x) \/ Has(b, x)
      PROVE  Has(s, x)
  <2>1. \A j \in 1..(i - 1) : j \in 1..Len(s)
    BY <1>1
  <2>2. \A j \in 1..(Len(s) - i) : i + j \in 1..Len(s)
    BY <1>1
  <2> QED BY <1>1, <1>2, <1>3, <1>6, <2>1, <2>2 DEF Has
<1> QED BY <1>2, <1>3, <1>4, <1>5, <1>6, ConcatHas

(* Assigning to one element leaves the others.                             *)
LEMMA SetHas ==
  ASSUME NEW S, NEW s \in Seq(S), NEW i \in DOMAIN s, NEW e \in S
  PROVE  /\ [s EXCEPT ![i] = e] \in Seq(S)
         /\ Has([s EXCEPT ![i] = e], e)
         /\ \A x : Has(s, x) => x = s[i] \/ Has([s EXCEPT ![i] = e], x)
         /\ \A x : Has([s EXCEPT ![i] = e], x) => x = e \/ Has(s, x)
<1>1. Len(s) \in Nat /\ DOMAIN s = 1..Len(s) /\ i \in 1..Len(s)
  BY LenProperties
<1> DEFINE t == [s EXCEPT ![i] = e]
<1>2. t \in Seq(S)
  BY <1>1, ExceptSeq
<1>3. /\ DOMAIN t = DOMAIN s /\ t[i] = e
      /\ \A j \in DOMAIN s : j # i => t[j] = s[j]
  OBVIOUS
<1> HIDE DEF t
<1>4. /\ Has(t, e)
      /\ \A x : Has(s, x) => x = s[i] \/ Has(t, x)
      /\ \A x : Has(t, x) => x = e \/ Has(s, x)
  BY <1>3 DEF Has
<1> QED BY <1>2, <1>4 DEF t

-----------------------------------------------------------------------------
(* Type correctness *)

Script == [job : Job, at : {"run", "ran", "empty"}]

LEMMA InitType == Init => TypeOK
<1> SUFFICES ASSUME Init PROVE TypeOK
  OBVIOUS
<1>1. /\ node \in [Pods -> Nodes \cup {None}]
      /\ score \in [Pods -> Marks \cup {"unmarked"}]
      /\ in_flight_pods \in [Pods -> Marks \cup {"none"}]
  BY DEF Init
<1>2. /\ args_queue \in Seq(Seq(Job)) /\ return_queue \in Seq(Pods \cup {None})
      /\ scripts \in Seq([job : Job, at : {"run", "ran", "empty"}])
      /\ pods_marking \in Seq(Job)
  BY EmptySeq DEF Init
<1>3. /\ started_pod \in Pods \cup {None} /\ result \in Pods \cup {None}
      /\ last_marked_high_pod \in Pods \cup {None}
      /\ lock \in {"handler", "client", None}
      /\ notified \in 0..MaxNotifications /\ failed \subseteq Pods
  BY OomAssumption DEF Init
<1>4. /\ running \in BOOLEAN /\ client_running \in BOOLEAN
      /\ args_event \in BOOLEAN /\ return_event \in BOOLEAN /\ marking_lock \in BOOLEAN
  BY DEF Init
<1>5. handler = "loop" /\ notifier = "idle" /\ returner = "loop" /\ stopping = "no"
  BY DEF Init
<1> QED BY <1>1, <1>2, <1>3, <1>4, <1>5 DEF TypeOK

LEMMA JobType == \A p \in Pods, m \in Marks : JobOf(p, m) \in Job
BY DEF JobOf, Job

LEMMA SubmitType ==
  ASSUME NEW request \in Seq(Job)
  PROVE  /\ SubmitAll(request) \in Seq(Script)
         /\ \A j : Has(request, j) => Has(SubmitAll(request), Submitted(j))
<1>1. /\ DOMAIN request = 1..Len(request) /\ Len(request) \in Nat
      /\ \A i \in 1..Len(request) : request[i] \in Job
  BY LenProperties, ElementOfSeq
<1>2. SubmitAll(request) = [i \in 1..Len(request) |-> Submitted(request[i])]
  BY <1>1 DEF SubmitAll
<1>3. \A i \in 1..Len(request) : Submitted(request[i]) \in Script
  BY <1>1 DEF Submitted, Script
<1>4. SubmitAll(request) \in Seq(Script)
  BY <1>1, <1>2, <1>3, IsASeq
<1>5. \A j : Has(request, j) => Has(SubmitAll(request), Submitted(j))
  BY <1>1, <1>2 DEF Has
<1> QED BY <1>4, <1>5

(* The watcher thread decides about a pod only.                            *)
TypeInv == TypeOK /\ (notifier = "decide" => started_pod \in Pods)

LEMMA NotifyType ==
  ASSUME TypeInv, PodStarted \/ Notify
  PROVE  TypeInv'
<1> USE DEF TypeInv, OnlyNotifier, podVars, scriptVars, returnVars, runVars, queueVars,
            markingVars
<1>1. CASE PodStarted
  <2>1. notified' \in 0..MaxNotifications
    BY <1>1, OomAssumption DEF PodStarted, TypeOK
  <2> QED BY <1>1, <2>1 DEF PodStarted, TypeOK
<1>2. CASE NotScheduled
  BY <1>2 DEF NotScheduled, Deciding, TypeOK
<1> DEFINE last == LastHighPod
<1>3. last \in Pods \cup {None}
  BY DEF LastHighPod, TypeOK
<1> HIDE DEF last
<1>4. ASSUME NEW request \in Seq(Job), Deciding, Sends(request),
             in_flight_pods' \in [Pods -> Marks \cup {"none"}],
             last_marked_high_pod' \in Pods \cup {None}, marking_lock' \in BOOLEAN
      PROVE  TypeInv'
  BY <1>4 DEF Sends, Deciding, TypeOK
<1>5. CASE MarkFirst
  <2>1. started_pod \in Pods
    BY <1>5 DEF MarkFirst, Deciding
  <2>2. in_flight_pods' \in [Pods -> Marks \cup {"none"}]
    BY <1>5 DEF MarkFirst, Marks
  <2> DEFINE first  == <<JobOf(started_pod, "MARKED_HIGH")>>
             second == IF last # None THEN <<JobOf(last, "MARKED_LOW")>> ELSE <<>>
  <2>3. first \in Seq(Job) /\ second \in Seq(Job)
    <3>1. JobOf(started_pod, "MARKED_HIGH") \in Job
      BY <2>1, JobType DEF Marks
    <3>2. last # None => JobOf(last, "MARKED_LOW") \in Job
      BY <1>3, JobType DEF Marks
    <3> QED BY <3>1, <3>2
  <2>4. first \o second \in Seq(Job)
    BY <2>3, ConcatProperties
  <2>5. Sends(first \o second)
    BY <1>5 DEF MarkFirst, last
  <2> HIDE DEF first, second
  <2> QED BY <1>4, <1>5, <2>1, <2>2, <2>4, <2>5 DEF MarkFirst, TypeOK
<1>6. CASE AlreadyInFlight
  <2>1. <<>> \in Seq(Job) /\ Sends(<<>>) /\ last_marked_high_pod' = last
    BY <1>6 DEF AlreadyInFlight, last
  <2> QED BY <1>3, <1>4, <1>6, <2>1 DEF AlreadyInFlight, TypeOK
<1>7. CASE MarkNext
  <2> DEFINE mark == IF HasHigh THEN "MARKED_LOW" ELSE "MARKED_HIGH"
  <2>1. started_pod \in Pods /\ mark \in Marks
    BY <1>7 DEF MarkNext, Deciding, Marks
  <2>2. /\ Sends(<<JobOf(started_pod, mark)>>)
        /\ in_flight_pods' = [in_flight_pods EXCEPT ![started_pod] = mark]
        /\ last_marked_high_pod' \in {started_pod, last}
    BY <1>7 DEF MarkNext, last
  <2> HIDE DEF mark
  <2>3. <<JobOf(started_pod, mark)>> \in Seq(Job)
    BY <2>1, JobType
  <2>4. in_flight_pods' \in [Pods -> Marks \cup {"none"}]
    BY <2>1, <2>2 DEF TypeOK
  <2> QED BY <1>3, <1>4, <1>7, <2>1, <2>2, <2>3, <2>4 DEF MarkNext, TypeOK
<1>8. CASE SendRequest
  <2>1. Append(args_queue, pods_marking) \in Seq(Seq(Job))
    BY AppendProperties DEF TypeOK
  <2> QED BY <1>8, <2>1 DEF SendRequest, TypeOK
<1> QED BY <1>1, <1>2, <1>5, <1>6, <1>7, <1>8 DEF Notify

LEMMA HandlerType ==
  ASSUME TypeInv, HandlerStep
  PROVE  TypeInv'
<1> USE DEF TypeInv, OnlyHandler, podVars, returnVars, runVars, markingVars, notifyVars,
            HandlerGoto
<1>1. CASE HandlerLoop \/ HandlerWakes \/ HandlerAcquires
  BY <1>1 DEF HandlerLoop, HandlerWakes, HandlerAcquires, TypeOK
<1>2. CASE MarkPods
  <2>1. Head(args_queue) \in Seq(Job) /\ Tail(args_queue) \in Seq(Seq(Job))
    BY <1>2, HeadTailHas DEF MarkPods, TypeOK
  <2>2. scripts \o SubmitAll(Head(args_queue)) \in Seq(Script)
    BY <2>1, SubmitType, ConcatProperties DEF TypeOK, Script
  <2>3. /\ args_queue' \in Seq(Seq(Job)) /\ scripts' \in Seq(Script)
        /\ args_event' \in BOOLEAN /\ lock' \in {"handler", "client", None}
        /\ handler' = "loop"
    BY <1>2, <2>1, <2>2 DEF MarkPods
  <2>4. OnlyHandler
    BY <1>2 DEF MarkPods
  <2> QED BY <2>3, <2>4 DEF TypeOK, Script
<1> QED BY <1>1, <1>2 DEF HandlerStep

LEMMA ScriptFacts ==
  ASSUME TypeInv, NEW i \in DOMAIN scripts
  PROVE  /\ scripts[i] \in Script /\ scripts[i].job \in Job
         /\ scripts[i].job.pod \in Pods /\ scripts[i].job.mark \in Marks
         /\ RemoveAt(scripts, i) \in Seq(Script)
<1>1. scripts \in Seq(Script)
  BY DEF TypeInv, TypeOK, Script
<1>2. scripts[i] \in Script
  BY <1>1, ElementOfSeq, LenProperties
<1>3. RemoveAt(scripts, i) \in Seq(Script)
  BY <1>1, RemoveAtHas
<1> QED BY <1>2, <1>3 DEF Script, Job

LEMMA ExecutorType ==
  ASSUME TypeInv, NEW i \in DOMAIN scripts, RunScript(i) \/ ReturnResult(i)
  PROVE  TypeInv'
<1> USE DEF TypeInv, OnlyScripts, markingVars, notifyVars, returnVars, runVars
<1> DEFINE pod == scripts[i].job.pod
<1>1. /\ pod \in Pods /\ scripts[i].job.mark \in Marks
      /\ RemoveAt(scripts, i) \in Seq(Script)
  BY ScriptFacts
<1>2. CASE RunScript(i)
  <2>1. \A a \in {"ran", "empty"} : [scripts EXCEPT ![i].at = a] \in Seq(Script)
    <3> SUFFICES ASSUME NEW a \in {"ran", "empty"}
                 PROVE  [scripts EXCEPT ![i].at = a] \in Seq(Script)
      OBVIOUS
    <3>1. scripts \in Seq(Script) /\ scripts[i] \in Script /\ i \in 1..Len(scripts)
      BY ScriptFacts, LenProperties DEF TypeOK, Script
    <3>2. [scripts[i] EXCEPT !.at = a] \in Script
      BY <3>1 DEF Script
    <3>3. [scripts EXCEPT ![i] = [scripts[i] EXCEPT !.at = a]] \in Seq(Script)
      BY <3>1, <3>2, ExceptSeq
    <3>4. [scripts EXCEPT ![i].at = a] = [scripts EXCEPT ![i] = [scripts[i] EXCEPT !.at = a]]
      OBVIOUS
    <3> QED BY <3>3, <3>4
  <2>2. scripts' \in Seq(Script)
    BY <1>1, <1>2, <2>1 DEF RunScript
  <2>3. score' \in [Pods -> Marks \cup {"unmarked"}]
    BY <1>1, <1>2 DEF RunScript, TypeOK
  <2>4. failed' \subseteq Pods
    BY <1>1, <1>2 DEF RunScript, TypeOK
  <2> QED BY <1>2, <2>2, <2>3, <2>4 DEF RunScript, TypeOK, Script
<1>3. CASE ReturnResult(i)
  <2>1. PodOf(scripts[i]) \in Pods \cup {None}
    BY <1>1 DEF PodOf
  <2>2. Append(return_queue, PodOf(scripts[i])) \in Seq(Pods \cup {None})
    BY <2>1, AppendProperties DEF TypeOK
  <2> QED BY <1>1, <1>3, <2>2 DEF ReturnResult, TypeOK, Script
<1> QED BY <1>2, <1>3

LEMMA ReturnerType ==
  ASSUME TypeInv, ReturnerStep
  PROVE  TypeInv'
<1> USE DEF TypeInv, OnlyReturner, podVars, scriptVars, notifyVars, runVars, ReturnerGoto
<1>1. CASE ReturnLoop \/ ReturnerWakes
  <2>1. returner' \in {"wait", "ended", "acquire"}
    BY <1>1 DEF ReturnLoop, ReturnerWakes
  <2>2. /\ OnlyReturner
        /\ UNCHANGED <<return_queue, return_event, lock, in_flight_pods, marking_lock, result>>
    BY <1>1 DEF ReturnLoop, ReturnerWakes
  <2> QED BY <2>1, <2>2 DEF TypeOK
<1>2. CASE TakeResult
  <2>1. Head(return_queue) \in Pods \cup {None} /\ Tail(return_queue) \in Seq(Pods \cup {None})
    BY <1>2, HeadTailHas DEF TakeResult, TypeOK
  <2> QED BY <1>2, <2>1 DEF TakeResult, TypeOK
<1>3. CASE HandleResult
  <2>1. /\ in_flight_pods' \in [Pods -> Marks \cup {"none"}]
        /\ marking_lock' \in BOOLEAN /\ returner' \in {"clear", "dead"}
    BY <1>3 DEF HandleResult, TypeOK
  <2>2. OnlyReturner /\ UNCHANGED <<return_queue, return_event, lock, result>>
    BY <1>3 DEF HandleResult
  <2> QED BY <2>1, <2>2 DEF TypeOK
<1>4. CASE ReturnerAcquires \/ ClearReturnEvent
  <2>1. /\ returner' \in {"get", "loop"} /\ lock' \in {"client", None}
        /\ result' \in Pods \cup {None} /\ return_event' \in BOOLEAN
    BY <1>4 DEF ReturnerAcquires, ClearReturnEvent, TypeOK
  <2>2. OnlyReturner /\ UNCHANGED <<return_queue, in_flight_pods, marking_lock>>
    BY <1>4 DEF ReturnerAcquires, ClearReturnEvent
  <2> QED BY <2>1, <2>2 DEF TypeOK
<1> QED BY <1>1, <1>2, <1>3, <1>4 DEF ReturnerStep

LEMMA OthersType ==
  ASSUME TypeInv, AssignPod \/ RemovePod \/ StopHandler \/ StopStep
  PROVE  TypeInv'
<1> USE DEF TypeInv, queueVars, scriptVars, markingVars, notifyVars, returnVars, runVars, podVars
<1>1. CASE AssignPod
  BY <1>1 DEF AssignPod, TypeOK
<1>2. CASE RemovePod
  BY <1>2 DEF RemovePod, TypeOK
<1>3. CASE StopHandler \/ StopStep
  <2>1. /\ running' \in BOOLEAN /\ client_running' \in BOOLEAN
        /\ args_event' \in BOOLEAN /\ return_event' \in BOOLEAN
        /\ stopping' \in {"no", "wake", "join_handler", "join_client", "stopped"}
    BY <1>3 DEF StopHandler, StopStep, WakeLoops, JoinHandler, JoinClient, TypeOK
  <2>2. OnlyStop
    BY <1>3 DEF StopHandler, StopStep, WakeLoops, JoinHandler, JoinClient
  <2> QED BY <2>1, <2>2 DEF OnlyStop, TypeOK
<1> QED BY <1>1, <1>2, <1>3

LEMMA StepType ==
  ASSUME TypeInv, [Next]_vars
  PROVE  TypeInv'
<1>1. CASE UNCHANGED vars
  BY <1>1 DEF vars, TypeInv, TypeOK, podVars, queueVars, scriptVars, markingVars, notifyVars,
              returnVars, runVars
<1> QED BY <1>1, NotifyType, HandlerType, ExecutorType, ReturnerType, OthersType
        DEF Next, ExecutorStep

(* The state of both processes is well-formed at all times.                *)
THEOREM TypeCorrect == Spec => []TypeOK
<1>1. Init => TypeInv
  BY InitType DEF TypeInv, Init
<1>2. TypeInv => TypeOK
  BY DEF TypeInv
<1> QED BY <1>1, <1>2, StepType, PTL DEF Spec

-----------------------------------------------------------------------------
(* An Event that is set says that there is an item, until the consumer has *)
(* taken one and while nobody stops the handler; only the consumer takes   *)
(* items.                                                                  *)

EventInv ==
  /\ stopping # "no" => ~running
  /\ args_event /\ running => args_queue # <<>>
  /\ handler \in {"acquire", "get"} => args_queue # <<>>
  /\ return_event /\ running /\ returner \notin {"handle", "clear", "dead"}
       => return_queue # <<>>
  /\ returner \in {"acquire", "get"} => return_queue # <<>>

LEMMA StepEvents ==
  ASSUME TypeInv, EventInv, [Next]_vars
  PROVE  EventInv'
<1> USE DEF EventInv
<1>1. CASE AssignPod \/ RemovePod \/ PodStarted \/ NotScheduled \/ MarkFirst \/ AlreadyInFlight
             \/ MarkNext \/ UNCHANGED vars
  <2>1. UNCHANGED <<queueVars, handler, returner, running, stopping>>
    BY <1>1 DEF AssignPod, RemovePod, PodStarted, NotScheduled, MarkFirst, AlreadyInFlight,
                MarkNext, Sends, OnlyNotifier, vars, returnVars, runVars
  <2> QED BY <2>1 DEF queueVars
<1>2. CASE SendRequest
  <2>1. args_queue' # <<>>
    <3>1. args_queue \in Seq(Seq(Job)) /\ pods_marking \in Seq(Job)
      BY DEF TypeInv, TypeOK
    <3>2. Append(args_queue, pods_marking) # <<>>
      BY <3>1, AppendHas
    <3> QED BY <1>2, <3>2 DEF SendRequest
  <2>2. UNCHANGED <<return_queue, return_event, handler, returner, running, stopping>>
    BY <1>2 DEF SendRequest, OnlyNotifier, returnVars, runVars
  <2> QED BY <2>1, <2>2
<1>3. CASE HandlerStep
  <2>1. UNCHANGED <<return_queue, return_event, returner, running, stopping>>
    BY <1>3 DEF HandlerStep, HandlerLoop, HandlerWakes, HandlerAcquires, MarkPods, OnlyHandler,
                returnVars, runVars
  <2>2. CASE HandlerLoop \/ HandlerWakes \/ HandlerAcquires
    BY <2>1, <2>2 DEF HandlerLoop, HandlerWakes, HandlerAcquires, HandlerGoto
  <2>3. CASE MarkPods
    BY <2>1, <2>3 DEF MarkPods, HandlerGoto
  <2> QED BY <1>3, <2>2, <2>3 DEF HandlerStep
<1>4. ASSUME NEW i \in DOMAIN scripts, RunScript(i) \/ ReturnResult(i)
      PROVE  EventInv'
  <2>1. UNCHANGED <<args_queue, args_event, handler, returner, running, stopping>>
    BY <1>4 DEF RunScript, ReturnResult, OnlyScripts, returnVars, runVars
  <2>2. CASE UNCHANGED <<return_queue, return_event>>
    BY <2>1, <2>2
  <2>3. CASE ReturnResult(i)
    <3>1. PodOf(scripts[i]) \in Pods \cup {None}
      BY ScriptFacts DEF PodOf
    <3>2. return_queue \in Seq(Pods \cup {None})
      BY DEF TypeInv, TypeOK
    <3>3. Append(return_queue, PodOf(scripts[i])) # <<>>
      BY <3>1, <3>2, AppendHas
    <3>4. return_queue' # <<>>
      BY <2>3, <3>3 DEF ReturnResult
    <3> QED BY <2>1, <3>4
  <2> QED BY <1>4, <2>2, <2>3 DEF RunScript
<1>5. CASE ReturnerStep
  <2>1. UNCHANGED <<args_queue, args_event, handler, running, stopping>>
    BY <1>5 DEF ReturnerStep, ReturnLoop, ReturnerWakes, ReturnerAcquires, TakeResult,
                HandleResult, ClearReturnEvent, OnlyReturner, runVars
  <2>2. CASE ReturnLoop \/ ReturnerWakes \/ ReturnerAcquires
    BY <2>1, <2>2 DEF ReturnLoop, ReturnerWakes, ReturnerAcquires, ReturnerGoto
  <2>3. CASE TakeResult \/ HandleResult
    <3>1. returner' \in {"handle", "clear", "dead"}
      BY <2>3 DEF TakeResult, HandleResult, ReturnerGoto
    <3> QED BY <2>1, <3>1
  <2>4. CASE ClearReturnEvent
    BY <2>1, <2>4 DEF ClearReturnEvent, ReturnerGoto
  <2> QED BY <1>5, <2>2, <2>3, <2>4 DEF ReturnerStep
<1>6. CASE StopHandler \/ StopStep
  <2>1. UNCHANGED <<args_queue, return_queue, handler, returner>> /\ ~running'
    BY <1>6 DEF StopHandler, StopStep, WakeLoops, JoinHandler, JoinClient, OnlyStop, returnVars
  <2> QED BY <2>1
<1> QED BY <1>1, <1>2, <1>3, <1>4, <1>5, <1>6 DEF Next, Notify, ExecutorStep

(* Both loops call get under the lock that the other side needs to put an  *)
(* item: there always is one.                                              *)
THEOREM GetNeverBlocks == Spec => []GetFindsItem
<1>1. Init => TypeInv /\ EventInv
  BY InitType DEF TypeInv, EventInv, Init
<1>2. EventInv => GetFindsItem
  BY DEF EventInv, GetFindsItem
<1> QED BY <1>1, <1>2, StepType, StepEvents, PTL DEF Spec

-----------------------------------------------------------------------------
(* At most one pod that is to be killed first.                             *)

LEMMA StepHigh ==
  ASSUME TypeInv, OneHighInFlight, [Next]_vars
  PROVE  OneHighInFlight'
<1> USE DEF OneHighInFlight
<1>1. CASE UNCHANGED in_flight_pods
  BY <1>1
<1>2. CASE MarkFirst
  <2>1. in_flight_pods' = [p \in Pods |->
          IF p = LastHighPod THEN "MARKED_LOW"
          ELSE IF p = started_pod THEN "MARKED_HIGH" ELSE "none"]
    BY <1>2 DEF MarkFirst
  <2>2. \A p \in Pods : in_flight_pods'[p] = "MARKED_HIGH" => p = started_pod
    BY <2>1
  <2> QED BY <2>2
<1>3. CASE MarkNext
  <2>1. in_flight_pods' = [in_flight_pods EXCEPT
          ![started_pod] = IF HasHigh THEN "MARKED_LOW" ELSE "MARKED_HIGH"]
    BY <1>3 DEF MarkNext
  <2>2. in_flight_pods \in [Pods -> Marks \cup {"none"}]
    BY DEF TypeInv, TypeOK
  <2>3. CASE HasHigh
    BY <2>1, <2>2, <2>3
  <2>4. CASE ~HasHigh
    BY <2>1, <2>2, <2>4 DEF HasHigh
  <2> QED BY <2>3, <2>4
<1>4. CASE HandleResult
  BY <1>4 DEF HandleResult, TypeInv, TypeOK
<1>5. UNCHANGED in_flight_pods \/ MarkFirst \/ MarkNext \/ HandleResult
  BY DEF Next, AssignPod, RemovePod, PodStarted, Notify, NotScheduled, AlreadyInFlight,
         SendRequest, OnlyNotifier, HandlerStep, HandlerLoop, HandlerWakes, HandlerAcquires,
         MarkPods, OnlyHandler, ExecutorStep, RunScript, ReturnResult, OnlyScripts,
         ReturnerStep, ReturnLoop, ReturnerWakes, ReturnerAcquires, TakeResult,
         ClearReturnEvent, OnlyReturner, StopHandler, StopStep, WakeLoops, JoinHandler,
         JoinClient, OnlyStop, vars, markingVars
<1> QED BY <1>1, <1>2, <1>3, <1>4, <1>5

(* decide_pods_marking never has two pods killed first at the same time.   *)
THEOREM OneHigh == Spec => []OneHighInFlight
<1>1. Init => TypeInv /\ OneHighInFlight
  BY InitType DEF TypeInv, OneHighInFlight, Init
<1> QED BY <1>1, StepType, StepHigh, PTL DEF Spec

-----------------------------------------------------------------------------
(* Where the answer for a pod in flight can be: in the request the client  *)
(* is sending, in a queue, with the executor, or with the return loop that *)
(* is handling it.  A result is forgotten when it has been handled, an     *)
(* empty one comes from a script that is counted as failed, and a request  *)
(* exists only while it is being sent.                                     *)

OnItsWay(p) ==
  \/ \E j \in Job : Has(pods_marking, j) /\ j.pod = p
  \/ \E r \in Seq(Job) : Has(args_queue, r) /\ \E j \in Job : Has(r, j) /\ j.pod = p
  \/ \E s \in Script : Has(scripts, s) /\ s.job.pod = p
  \/ Has(return_queue, p)
  \/ result = p /\ returner = "handle"
  \/ p \in failed
  \/ ~client_running

WayInv ==
  /\ \A p \in Pods : in_flight_pods[p] # "none" => OnItsWay(p)
  /\ notifier # "send" => pods_marking = <<>>
  /\ \A s \in Script : Has(scripts, s) /\ s.at = "empty" => s.job.pod \in failed

LEMMA StepWayNotify ==
  ASSUME TypeInv, WayInv, PodStarted \/ Notify
  PROVE  WayInv'
<1>1. /\ UNCHANGED <<scripts, failed, returner, result, return_queue, client_running>>
  BY DEF PodStarted, Notify, NotScheduled, MarkFirst, AlreadyInFlight, MarkNext, Sends,
         SendRequest, OnlyNotifier, scriptVars, returnVars, runVars, queueVars
<1>2. ASSUME UNCHANGED <<in_flight_pods, pods_marking, args_queue>>,
             notifier # "send", notifier' # "send"
      PROVE  WayInv'
  BY <1>1, <1>2 DEF WayInv, OnItsWay
<1>3. CASE PodStarted
  BY <1>2, <1>3 DEF PodStarted, queueVars, markingVars
<1>4. CASE NotScheduled
  BY <1>2, <1>4 DEF NotScheduled, Deciding, queueVars
<1>5. ASSUME NEW request \in Seq(Job), Sends(request), Deciding,
             \A p \in Pods : \/ in_flight_pods'[p] = "none"
                            \/ in_flight_pods[p] # "none"
                            \/ \E j \in Job : Has(request, j) /\ j.pod = p
      PROVE  WayInv'
  <2>1. /\ pods_marking' = request /\ notifier' = "send" /\ args_queue' = args_queue
        /\ pods_marking = <<>>
    BY <1>5 DEF Sends, queueVars, Deciding, WayInv
  <2>2. ASSUME NEW p \in Pods, in_flight_pods'[p] # "none"
        PROVE  OnItsWay(p)'
    <3>1. CASE \E j \in Job : Has(request, j) /\ j.pod = p
      BY <2>1, <3>1 DEF OnItsWay
    <3>2. CASE in_flight_pods[p] # "none"
      <4>1. OnItsWay(p)
        BY <3>2 DEF WayInv
      <4> QED BY <1>1, <2>1, <4>1, HasNothing DEF OnItsWay
    <3> QED BY <1>5, <2>2, <3>1, <3>2
  <2> QED BY <1>1, <2>1, <2>2 DEF WayInv
<1>6. CASE MarkFirst
  <2> DEFINE last   == LastHighPod
             first  == <<JobOf(started_pod, "MARKED_HIGH")>>
             second == IF last # None THEN <<JobOf(last, "MARKED_LOW")>> ELSE <<>>
  <2>1. started_pod \in Pods /\ last \in Pods \cup {None}
    BY <1>6 DEF TypeInv, TypeOK, MarkFirst, Deciding, LastHighPod
  <2>2. JobOf(started_pod, "MARKED_HIGH") \in Job /\ JobOf(started_pod, "MARKED_HIGH").pod = started_pod
    BY <2>1 DEF JobOf, Job, Marks
  <2>3. last # None => JobOf(last, "MARKED_LOW") \in Job /\ JobOf(last, "MARKED_LOW").pod = last
    BY <2>1 DEF JobOf, Job, Marks
  <2>4. /\ first \in Seq(Job) /\ second \in Seq(Job)
        /\ Has(first, JobOf(started_pod, "MARKED_HIGH"))
        /\ last # None => Has(second, JobOf(last, "MARKED_LOW"))
    BY <2>2, <2>3 DEF Has
  <2>5. Sends(first \o second) /\ Deciding
    BY <1>6 DEF MarkFirst
  <2>6. \A p \in Pods : in_flight_pods'[p] # "none" => p = last \/ p = started_pod
    BY <1>6 DEF MarkFirst
  <2> HIDE DEF last, first, second
  <2>7. /\ first \o second \in Seq(Job)
        /\ \A x : Has(first \o second, x) <=> Has(first, x) \/ Has(second, x)
    BY <2>4, ConcatHas
  <2>8. \A p \in Pods : \/ in_flight_pods'[p] = "none"
                        \/ \E j \in Job : Has(first \o second, j) /\ j.pod = p
    BY <2>2, <2>3, <2>4, <2>6, <2>7, OomAssumption
  <2> QED BY <1>5, <2>5, <2>7, <2>8
<1>7. CASE AlreadyInFlight
  <2>1. <<>> \in Seq(Job) /\ Sends(<<>>) /\ Deciding /\ UNCHANGED in_flight_pods
    BY <1>7 DEF AlreadyInFlight
  <2> QED BY <1>5, <2>1
<1>8. CASE MarkNext
  <2> DEFINE mark == IF HasHigh THEN "MARKED_LOW" ELSE "MARKED_HIGH"
             job  == JobOf(started_pod, mark)
  <2>1. started_pod \in Pods /\ mark \in Marks /\ in_flight_pods \in [Pods -> Marks \cup {"none"}]
    BY <1>8 DEF TypeInv, TypeOK, MarkNext, Deciding, Marks
  <2>2. /\ Sends(<<job>>) /\ Deciding
        /\ in_flight_pods' = [in_flight_pods EXCEPT ![started_pod] = mark]
    BY <1>8 DEF MarkNext
  <2> HIDE DEF mark
  <2>3. job \in Job /\ job.pod = started_pod
    BY <2>1 DEF JobOf, Job
  <2> HIDE DEF job
  <2>4. <<job>> \in Seq(Job) /\ Has(<<job>>, job)
    BY <2>3 DEF Has
  <2>5. \A p \in Pods : \/ in_flight_pods'[p] = in_flight_pods[p] \/ p = started_pod
    BY <2>1, <2>2
  <2> QED BY <1>5, <2>2, <2>3, <2>4, <2>5
<1>9. CASE SendRequest
  <2>1. args_queue \in Seq(Seq(Job)) /\ pods_marking \in Seq(Job)
    BY DEF TypeInv, TypeOK
  <2>2. /\ args_queue' = Append(args_queue, pods_marking) /\ in_flight_pods' = in_flight_pods
        /\ notifier' = "idle" /\ pods_marking' = <<>>
    BY <1>9 DEF SendRequest, markingVars
  <2>3. \A x : Has(args_queue', x) <=> Has(args_queue, x) \/ x = pods_marking
    BY <2>1, <2>2, AppendHas
  <2>4. ASSUME NEW p \in Pods, in_flight_pods'[p] # "none"
        PROVE  OnItsWay(p)'
    <3>1. OnItsWay(p)
      BY <2>2, <2>4 DEF WayInv
    <3>2. CASE \E j \in Job : Has(pods_marking, j) /\ j.pod = p
      BY <2>1, <2>3, <3>2 DEF OnItsWay
    <3>3. CASE \E r \in Seq(Job) : Has(args_queue, r) /\ \E j \in Job : Has(r, j) /\ j.pod = p
      BY <2>3, <3>3 DEF OnItsWay
    <3> QED BY <1>1, <3>1, <3>2, <3>3 DEF OnItsWay
  <2> QED BY <1>1, <2>2, <2>4 DEF WayInv
<1> QED BY <1>3, <1>4, <1>6, <1>7, <1>8, <1>9 DEF Notify

LEMMA StepWayHandler ==
  ASSUME TypeInv, WayInv, HandlerStep
  PROVE  WayInv'
<1>1. UNCHANGED <<in_flight_pods, pods_marking, notifier, failed, returner, result,
                  return_queue, client_running>>
  BY DEF HandlerStep, HandlerLoop, HandlerWakes, HandlerAcquires, MarkPods, OnlyHandler,
         markingVars, notifyVars, returnVars, runVars
<1>2. CASE UNCHANGED <<args_queue, scripts>>
  BY <1>1, <1>2 DEF WayInv, OnItsWay
<1>3. CASE MarkPods
  <2> DEFINE request == Head(args_queue)
             new     == SubmitAll(request)
  <2>1. args_queue \in Seq(Seq(Job)) /\ scripts \in Seq(Script)
    BY DEF TypeInv, TypeOK, Script
  <2>2. /\ request \in Seq(Job)
        /\ \A x : Has(args_queue, x) => x = request \/ Has(Tail(args_queue), x)
    BY <1>3, <2>1, HeadTailHas DEF MarkPods
  <2>3. new \in Seq(Script) /\ \A j : Has(request, j) => Has(new, Submitted(j))
    BY <2>2, SubmitType
  <2>4. \A i \in DOMAIN new : new[i].at = "run"
    BY DEF SubmitAll, Submitted
  <2>5. scripts' = scripts \o new /\ args_queue' = Tail(args_queue)
    BY <1>3 DEF MarkPods
  <2> HIDE DEF request, new
  <2>6. \A x : Has(scripts', x) <=> Has(scripts, x) \/ Has(new, x)
    BY <2>1, <2>3, <2>5, ConcatHas
  <2>7. ASSUME NEW p \in Pods, in_flight_pods'[p] # "none"
        PROVE  OnItsWay(p)'
    <3>1. OnItsWay(p)
      BY <1>1, <2>7 DEF WayInv
    <3>2. CASE \E r \in Seq(Job) : Has(args_queue, r) /\ \E j \in Job : Has(r, j) /\ j.pod = p
      <4>1. PICK r \in Seq(Job), j \in Job : Has(args_queue, r) /\ Has(r, j) /\ j.pod = p
        BY <3>2
      <4>2. CASE Has(Tail(args_queue), r)
        BY <2>5, <4>1, <4>2 DEF OnItsWay
      <4>3. CASE r = request
        <5>1. Has(scripts', Submitted(j)) /\ Submitted(j) \in Script /\ Submitted(j).job.pod = p
          BY <2>3, <2>6, <4>1, <4>3 DEF Submitted, Script
        <5> QED BY <5>1 DEF OnItsWay
      <4> QED BY <2>2, <4>1, <4>2, <4>3
    <3>3. CASE \E x \in Script : Has(scripts, x) /\ x.job.pod = p
      BY <2>6, <3>3 DEF OnItsWay
    <3> QED BY <1>1, <3>1, <3>2, <3>3 DEF OnItsWay
  <2>8. ASSUME NEW x \in Script, Has(scripts', x), x.at = "empty"
        PROVE  x.job.pod \in failed'
    <3>1. ~Has(new, x)
      BY <2>4, <2>8 DEF Has
    <3> QED BY <1>1, <2>6, <2>8, <3>1 DEF WayInv
  <2> QED BY <1>1, <2>7, <2>8 DEF WayInv
<1> QED BY <1>2, <1>3 DEF HandlerStep, HandlerLoop, HandlerWakes, HandlerAcquires

LEMMA StepWayExecutor ==
  ASSUME TypeInv, WayInv, NEW i \in DOMAIN scripts, RunScript(i) \/ ReturnResult(i)
  PROVE  WayInv'
<1>1. UNCHANGED <<in_flight_pods, pods_marking, notifier, args_queue, returner, result,
                  client_running>>
  BY DEF RunScript, ReturnResult, OnlyScripts, markingVars, notifyVars, returnVars, runVars
<1>2. /\ scripts \in Seq(Script) /\ scripts[i] \in Script /\ scripts[i].job.pod \in Pods
      /\ return_queue \in Seq(Pods \cup {None})
  BY ScriptFacts DEF TypeInv, TypeOK, Script
<1> DEFINE old == scripts[i]
<1>3. Has(scripts, old)
  BY DEF Has
<1>4. ASSUME failed \subseteq failed',
             \A q : Has(return_queue, q) => Has(return_queue', q),
             \/ old.job.pod \in failed'
             \/ Has(return_queue', old.job.pod)
             \/ \E x \in Script : Has(scripts', x) /\ x.job.pod = old.job.pod,
             \A x : Has(scripts, x) => x = old \/ Has(scripts', x),
             \A x : Has(scripts', x) => \/ Has(scripts, x)
                                       \/ x.at # "empty"
                                       \/ x.job.pod \in failed'
      PROVE  WayInv'
  <2>1. ASSUME NEW p \in Pods, in_flight_pods'[p] # "none"
        PROVE  OnItsWay(p)'
    <3>1. OnItsWay(p)
      BY <1>1, <2>1 DEF WayInv
    <3>2. CASE \E x \in Script : Has(scripts, x) /\ x.job.pod = p
      BY <1>4, <3>2 DEF OnItsWay
    <3>3. CASE p \in failed \/ Has(return_queue, p)
      BY <1>4, <3>3 DEF OnItsWay
    <3> QED BY <1>1, <3>1, <3>2, <3>3 DEF OnItsWay
  <2>2. \A x \in Script : Has(scripts', x) /\ x.at = "empty" => x.job.pod \in failed'
    BY <1>4 DEF WayInv
  <2> QED BY <1>1, <2>1, <2>2 DEF WayInv
<1>5. /\ \A x : Has(scripts, x) => x = old \/ Has(RemoveAt(scripts, i), x)
      /\ \A x : Has(RemoveAt(scripts, i), x) => Has(scripts, x)
  BY <1>2, RemoveAtHas
<1>6. ASSUME NEW a \in {"ran", "empty"}, scripts' = [scripts EXCEPT ![i].at = a],
             UNCHANGED return_queue, failed \subseteq failed',
             a = "empty" => old.job.pod \in failed'
      PROVE  WayInv'
  <2> DEFINE new == [old EXCEPT !.at = a]
  <2>1. new \in Script /\ new.job.pod = old.job.pod /\ new.at = a
    BY <1>2 DEF Script
  <2>2. scripts' = [scripts EXCEPT ![i] = new]
    BY <1>6
  <2> HIDE DEF new
  <2>3. /\ Has(scripts', new)
        /\ \A x : Has(scripts, x) => x = old \/ Has(scripts', x)
        /\ \A x : Has(scripts', x) => x = new \/ Has(scripts, x)
    BY <1>2, <2>1, <2>2, SetHas
  <2> HIDE DEF old
  <2> QED BY <1>4, <1>6, <2>1, <2>3
<1>7. CASE RunScript(i)
  <2>1. UNCHANGED return_queue
    BY <1>7 DEF RunScript
  <2>2. ASSUME scripts' = RemoveAt(scripts, i), failed' = failed \cup {old.job.pod}
        PROVE  WayInv'
    BY <1>4, <1>5, <2>1, <2>2
  <2>3. CASE scripts' = [scripts EXCEPT ![i].at = "ran"] /\ UNCHANGED failed
    BY <1>6, <2>1, <2>3
  <2>4. CASE scripts' = [scripts EXCEPT ![i].at = "empty"] /\ failed' = failed \cup {old.job.pod}
    BY <1>6, <2>1, <2>4
  <2> QED BY <1>7, <2>2, <2>3, <2>4 DEF RunScript
<1>8. CASE ReturnResult(i)
  <2>1. /\ return_queue' = Append(return_queue, PodOf(old)) /\ failed' = failed
        /\ scripts' = RemoveAt(scripts, i) /\ old.at # "run"
    BY <1>8 DEF ReturnResult
  <2>2. PodOf(old) \in Pods \cup {None}
    BY <1>2 DEF PodOf
  <2>3. \A x : Has(return_queue', x) <=> Has(return_queue, x) \/ x = PodOf(old)
    BY <1>2, <2>1, <2>2, AppendHas
  <2>4. old.job.pod \in failed' \/ Has(return_queue', old.job.pod)
    <3>1. CASE old.at = "ran"
      BY <2>3, <3>1 DEF PodOf
    <3>2. CASE old.at = "empty"
      BY <1>2, <1>3, <2>1, <3>2 DEF WayInv
    <3> QED BY <1>2, <2>1, <3>1, <3>2 DEF Script
  <2> HIDE DEF old
  <2> QED BY <1>4, <1>5, <2>1, <2>3, <2>4
<1> QED BY <1>7, <1>8

LEMMA StepWayReturner ==
  ASSUME TypeInv, WayInv, ReturnerStep
  PROVE  WayInv'
<1>1. UNCHANGED <<pods_marking, notifier, args_queue, scripts, failed, client_running>>
  BY DEF ReturnerStep, ReturnLoop, ReturnerWakes, ReturnerAcquires, TakeResult, HandleResult,
         ClearReturnEvent, OnlyReturner, scriptVars, notifyVars, runVars
<1>2. SUFFICES ASSUME NEW p \in Pods, in_flight_pods'[p] # "none", OnItsWay(p), client_running
               PROVE  OnItsWay(p)'
  <2>1. in_flight_pods \in [Pods -> Marks \cup {"none"}]
    BY DEF TypeInv, TypeOK
  <2>2. \A p \in Pods : in_flight_pods'[p] # "none" => in_flight_pods[p] # "none"
    BY <2>1 DEF ReturnerStep, ReturnLoop, ReturnerWakes, ReturnerAcquires, TakeResult,
                HandleResult, ClearReturnEvent
  <2>3. \A p : ~client_running => OnItsWay(p)'
    BY <1>1 DEF OnItsWay
  <2> QED BY <1>1, <1>2, <2>2, <2>3 DEF WayInv
<1>3. CASE ReturnLoop \/ ReturnerWakes \/ ReturnerAcquires \/ ClearReturnEvent
  <2>1. returner # "handle" /\ UNCHANGED return_queue
    BY <1>3 DEF ReturnLoop, ReturnerWakes, ReturnerAcquires, ClearReturnEvent, ReturnerGoto
  <2> QED BY <1>1, <1>2, <2>1 DEF OnItsWay
<1>4. CASE TakeResult
  <2>1. return_queue \in Seq(Pods \cup {None})
    BY DEF TypeInv, TypeOK
  <2>2. /\ returner = "get" /\ returner' = "handle"
        /\ result' = Head(return_queue) /\ return_queue' = Tail(return_queue)
        /\ return_queue # <<>>
    BY <1>2, <1>4 DEF TakeResult, ReturnerGoto
  <2>3. \A x : Has(return_queue, x) => x = result' \/ Has(return_queue', x)
    BY <2>1, <2>2, HeadTailHas
  <2> QED BY <1>1, <1>2, <2>2, <2>3 DEF OnItsWay
<1>5. CASE HandleResult
  <2>1. UNCHANGED return_queue
    BY <1>5 DEF HandleResult
  <2>2. result # p
    <3>1. ASSUME result = p
          PROVE  FALSE
      <4>1. in_flight_pods'[p] = "none"
        BY <1>5, <3>1, OomAssumption DEF HandleResult, TypeInv, TypeOK
      <4> QED BY <1>2, <4>1
    <3> QED BY <3>1
  <2> QED BY <1>1, <1>2, <2>1, <2>2 DEF OnItsWay
<1> QED BY <1>3, <1>4, <1>5 DEF ReturnerStep

LEMMA StepWay ==
  ASSUME TypeInv, WayInv, [Next]_vars
  PROVE  WayInv'
<1>1. ASSUME UNCHANGED <<in_flight_pods, pods_marking, notifier, args_queue, scripts, failed,
                         returner, result, return_queue>>,
             client_running' => client_running
      PROVE  WayInv'
  BY <1>1 DEF WayInv, OnItsWay
<1>2. CASE AssignPod \/ RemovePod \/ UNCHANGED vars
  BY <1>1, <1>2 DEF AssignPod, RemovePod, vars, queueVars, scriptVars, markingVars, notifyVars,
                    returnVars, runVars
<1>3. CASE StopHandler \/ StopStep
  BY <1>1, <1>3 DEF StopHandler, StopStep, WakeLoops, JoinHandler, JoinClient, OnlyStop,
                    scriptVars, markingVars, notifyVars, returnVars
<1> QED BY <1>2, <1>3, StepWayNotify, StepWayHandler, StepWayExecutor, StepWayReturner
        DEF Next, ExecutorStep

(* No pod in flight is forgotten by both sides: between the two processes  *)
(* its request, its script or its result is somewhere, or it was lost with *)
(* a failing script or with the client.                                    *)
THEOREM NoneForgotten == Spec => []InFlightAccounted
<1>1. Init => TypeInv /\ WayInv
  BY InitType, HasNothing DEF TypeInv, WayInv, Init
<1>2. TypeInv /\ WayInv => InFlightAccounted
  <2> SUFFICES ASSUME TypeInv, WayInv, NEW p \in Pods, in_flight_pods[p] # "none"
               PROVE  \/ \E i \in DOMAIN pods_marking : pods_marking[i].pod = p
                      \/ \E i \in DOMAIN args_queue :
                           \E j \in DOMAIN args_queue[i] : args_queue[i][j].pod = p
                      \/ \E i \in DOMAIN scripts : scripts[i].job.pod = p
                      \/ \E i \in DOMAIN return_queue : return_queue[i] = p
                      \/ result = p
                      \/ p \in failed
                      \/ ~client_running
    BY DEF InFlightAccounted
  <2>1. OnItsWay(p)
    BY DEF WayInv
  <2> QED BY <2>1 DEF OnItsWay, Has
<1> QED BY <1>1, <1>2, StepType, StepWay, PTL DEF Spec
=============================================================================
