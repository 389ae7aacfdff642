--------------------------- MODULE AirflowProofs ----------------------------
(***************************************************************************)
(* Type correctness of UserDags; a user whose calls do not overlap has one *)
(* config at most and is served; nobody's good config is rejected unless   *)
(* two calls of the user share a second.  For any calls, owners and        *)
(* malformed configs.  Then the theorems about ClusterTasks.               *)
(***************************************************************************)
EXTENDS UserDags, ClusterTasks, Integers, FiniteSetTheorems, TLAPS

(* Names of earlier seconds remain names.                                  *)
LEMMA NamesGrow ==
  ASSUME clock \in Nat, clock' \in Nat, clock <= clock'
  PROVE  /\ Names \subseteq Names' /\ File \subseteq File'
         /\ 0..clock \subseteq 0..(clock')
         /\ [name: Names, conf: Calls, error: BOOLEAN]
              \subseteq [name: Names, conf: Calls, error: BOOLEAN]'
<1>1. 0..clock \subseteq 0..(clock')
  OBVIOUS
<1>2. Names \subseteq Names'
  BY <1>1 DEF Names
<1> QED BY <1>1, <1>2 DEF File

(* The steps of a call that only move it on, take a name or go to sleep.   *)
LEMMA MoveType ==
  ASSUME TypeOK, NEW c \in Calls,
         UNCHANGED <<overlapping, stamp, ran, clock, confs, syncVars>>,
         prev' \in [Calls -> Names \cup {NoName}],
         sleeping' \in SUBSET Calls, registered' \in SUBSET registered,
         NEW l \in Steps \cup Answers, Goto(c, l)
  PROVE  TypeOK'
<1>1. Names' = Names /\ File' = File
  BY DEF Names, File
<1>2. pc' \in [Calls -> {"idle"} \cup Steps \cup Answers]
  BY DEF TypeOK, Goto
<1> QED BY <1>1, <1>2 DEF TypeOK, syncVars

LEMMA InitType == Init => TypeOK
<1> SUFFICES ASSUME Init PROVE TypeOK
  OBVIOUS
<1>1. overlapping \subseteq Users
  BY DEF Init, Users
<1>2. /\ clock \in Nat \ {0} /\ stamp \in [Calls -> 0..clock]
      /\ pc \in [Calls -> {"idle"} \cup Steps \cup Answers]
      /\ prev \in [Calls -> Names \cup {NoName}]
      /\ ran \in [Calls -> SUBSET Calls]
  BY DEF Init
<1>3. /\ sleeping = {} /\ confs = {} /\ files = {} /\ toLoad = {} /\ loaded = {}
      /\ registered = {} /\ syncing \in BOOLEAN
  BY DEF Init
<1> QED BY <1>1, <1>2, <1>3 DEF TypeOK

LEMMA SaveType ==
  ASSUME TypeOK, NEW c \in Calls, Save(c)
  PROVE  TypeOK'
<1> DEFINE u == Owner[c]  name == DagName(u, clock)
<1>1. u \in Users /\ name \in Names
  BY UserDagsAssumption DEF Users, Names, DagName, TypeOK
<1>2. Names' = Names /\ File' = File
  BY DEF Save, Names, File
<1>3. pc' \in [Calls -> {"idle"} \cup Steps \cup Answers]
  BY DEF Save, Goto, TypeOK, Steps, Answers
<1>4. stamp' \in [Calls -> 0..clock]
  BY DEF Save, TypeOK
<1>5. /\ confs' \subseteq [name: Names, conf: Calls, error: BOOLEAN]
      /\ \A r, s \in confs' : r.name = s.name /\ Owner[r.conf] = Owner[s.conf] => r = s
  <2>1. CASE Taken(u, name)
    BY <2>1 DEF Save, TypeOK
  <2>2. CASE ~Taken(u, name)
    <3> DEFINE new == [name |-> name, conf |-> c, error |-> FALSE]
    <3>1. confs' = confs \cup {new}
      BY <2>2 DEF Save
    <3>2. \A r \in confs : ~(r.name = name /\ Owner[r.conf] = u)
      BY <2>2 DEF Taken, NamesIn, ConfsOf
    <3>3. new \in [name: Names, conf: Calls, error: BOOLEAN]
      BY <1>1
    <3>4. new.name = name /\ new.conf = c
      OBVIOUS
    <3>5. /\ confs \subseteq [name: Names, conf: Calls, error: BOOLEAN]
          /\ \A r, s \in confs : r.name = s.name /\ Owner[r.conf] = Owner[s.conf] => r = s
      BY DEF TypeOK
    <3> HIDE DEF new, name
    <3>6. ASSUME NEW r \in confs', NEW s \in confs',
                 r.name = s.name, Owner[r.conf] = Owner[s.conf]
          PROVE  r = s
      BY <3>1, <3>2, <3>4, <3>5, <3>6
    <3> QED BY <3>1, <3>3, <3>5, <3>6
  <2> QED BY <2>1, <2>2
<1> QED BY <1>2, <1>3, <1>4, <1>5 DEF TypeOK, Save, syncVars

LEMMA RunDagType ==
  ASSUME TypeOK, NEW c \in Calls, Submit(c) \/ RunDag(c)
  PROVE  TypeOK'
<1> USE DEF Steps, Answers
<1>1. CASE Submit(c) \/ SelectNone(c) \/ SelectMany(c) \/ PollNoRow(c) \/ PollAgain(c)
             \/ TimeOut(c)
  <2>1. PICK l \in Steps \cup Answers : Goto(c, l)
    BY <1>1 DEF Submit, SelectNone, SelectMany, PollNoRow, PollAgain, TimeOut
  <2>2. UNCHANGED <<overlapping, prev, stamp, sleeping, ran, clock, confs, syncVars, registered>>
    BY <1>1 DEF Submit, SelectNone, SelectMany, PollNoRow, PollAgain, TimeOut
  <2> QED BY <2>1, <2>2, MoveType DEF TypeOK
<1>2. CASE SelectOne(c) \/ PollError(c)
  <2>1. \A r \in confs : r.name \in Names
    BY DEF TypeOK
  <2>2. CASE SelectOne(c)
    BY <2>1, <2>2, MoveType DEF SelectOne, TypeOK, ConfsOf
  <2>3. CASE PollError(c)
    <3>1. NameOf(c) \in Names
      BY <2>1, <2>3 DEF PollError, Named
    <3> QED BY <2>3, <3>1, MoveType DEF PollError, TypeOK
  <2> QED BY <1>2, <2>2, <2>3
<1>3. CASE DeleteDag(c)
  <2>1. registered' \in SUBSET registered
    BY <1>3 DEF DeleteDag
  <2>2. PICK l \in Steps \cup Answers : Goto(c, l)
    BY <1>3 DEF DeleteDag
  <2> QED BY <1>3, <2>1, <2>2, MoveType DEF DeleteDag, TypeOK
<1>4. CASE DeleteConfigs(c)
  <2>1. Names' = Names /\ File' = File
    BY <1>4 DEF DeleteConfigs, Names, File
  <2>2. pc' \in [Calls -> {"idle"} \cup Steps \cup Answers]
    BY <1>4 DEF DeleteConfigs, Goto, TypeOK
  <2> QED BY <1>4, <2>1, <2>2 DEF DeleteConfigs, TypeOK, syncVars
<1>5. CASE Save(c)
  BY <1>5, SaveType
<1>6. CASE PollFinds(c) \/ PollMisses(c)
  <2>1. PICK l \in Steps \cup Answers : Goto(c, l)
    BY <1>6 DEF PollFinds, PollMisses, Sleep
  <2>2. /\ UNCHANGED <<overlapping, prev, stamp, ran, clock, confs, syncVars, registered>>
        /\ sleeping' = sleeping \cup {c}
    BY <1>6 DEF PollFinds, PollMisses, Sleep
  <2> QED BY <2>1, <2>2, MoveType DEF TypeOK
<1>7. CASE PostRun(c)
  <2>1. Names' = Names /\ File' = File
    BY <1>7 DEF PostRun, Names, File
  <2>2. pc' \in [Calls -> {"idle"} \cup Steps \cup Answers]
    BY <1>7 DEF PostRun, Goto, TypeOK
  <2>3. {d.conf : d \in Named(registered, NameOf(c))} \in SUBSET Calls
    BY DEF Named, TypeOK, File
  <2>4. ran' \in [Calls -> SUBSET Calls]
    BY <1>7, <2>3 DEF PostRun, TypeOK
  <2> QED BY <1>7, <2>1, <2>2, <2>4 DEF PostRun, TypeOK, syncVars
<1> QED BY <1>1, <1>2, <1>3, <1>4, <1>5, <1>6, <1>7 DEF RunDag

(* What a row becomes when an error is reported for a name.                *)
LEMMA ReportFacts ==
  ASSUME TypeOK, NEW n, Report(n)
  PROVE  /\ confs' \subseteq [name: Names, conf: Calls, error: BOOLEAN]
         /\ \A q \in confs' : \E r \in confs :
              /\ q = [r EXCEPT !.error = @ \/ r.name = n]
              /\ q.name = r.name /\ q.conf = r.conf
              /\ q.error => r.error \/ r.name = n
<1> SUFFICES ASSUME NEW q \in confs'
             PROVE  /\ q \in [name: Names, conf: Calls, error: BOOLEAN]
                    /\ \E r \in confs :
                         /\ q = [r EXCEPT !.error = @ \/ r.name = n]
                         /\ q.name = r.name /\ q.conf = r.conf
                         /\ q.error => r.error \/ r.name = n
  OBVIOUS
<1>1. PICK r \in confs : q = [r EXCEPT !.error = @ \/ r.name = n]
  BY DEF Report
<1>2. r \in [name: Names, conf: Calls, error: BOOLEAN]
  BY DEF TypeOK
<1>3. /\ q \in [name: Names, conf: Calls, error: BOOLEAN]
      /\ q.name = r.name /\ q.conf = r.conf
      /\ q.error = (r.error \/ r.name = n)
  BY <1>1, <1>2
<1> QED BY <1>1, <1>3

LEMMA GenDagsType ==
  ASSUME TypeOK, GenDags
  PROVE  TypeOK'
<1>1. Names' = Names /\ File' = File
  BY DEF GenDags, SyncConfigs, LoadFile, EndSync, Names, File
<1>2. CASE SyncConfigs
  <2>1. files' \subseteq File
    BY <1>2 DEF SyncConfigs, Synced, TypeOK, File
  <2> QED BY <1>1, <1>2, <2>1 DEF SyncConfigs, TypeOK, callVars
<1>3. ASSUME NEW f \in files, LoadFile(f)
      PROVE  TypeOK'
  <2>1. /\ confs' \subseteq [name: Names, conf: Calls, error: BOOLEAN]
        /\ \A r, s \in confs' : r.name = s.name /\ Owner[r.conf] = Owner[s.conf] => r = s
    <3>1. CASE UNCHANGED confs
      BY <3>1 DEF TypeOK
    <3>2. CASE Report(f.name)
      BY <3>2, ReportFacts DEF TypeOK
    <3> QED BY <1>3, <3>1, <3>2 DEF LoadFile
  <2>2. toLoad' \subseteq files /\ loaded' \subseteq files
    BY <1>3 DEF LoadFile, TypeOK
  <2> QED BY <1>1, <1>3, <2>1, <2>2 DEF LoadFile, TypeOK, callVars
<1>4. CASE EndSync
  BY <1>1, <1>4 DEF EndSync, TypeOK, callVars
<1> QED BY <1>2, <1>3, <1>4 DEF GenDags

LEMMA TickType ==
  ASSUME TypeOK, Tick
  PROVE  TypeOK'
<1>1. clock' \in Nat \ {0} /\ clock <= clock'
  BY DEF Tick, TypeOK
<1>2. /\ Names \subseteq Names' /\ File \subseteq File' /\ 0..clock \subseteq 0..(clock')
      /\ [name: Names, conf: Calls, error: BOOLEAN]
           \subseteq [name: Names, conf: Calls, error: BOOLEAN]'
  BY <1>1, NamesGrow DEF TypeOK
<1>3. prev' \in [Calls -> Names' \cup {NoName}] /\ stamp' \in [Calls -> 0..(clock')]
  BY <1>2 DEF Tick, TypeOK, NoName
<1> QED BY <1>1, <1>2, <1>3 DEF Tick, TypeOK, syncVars

LEMMA StepType ==
  ASSUME TypeOK, [Next]_vars
  PROVE  TypeOK'
<1>1. CASE UNCHANGED vars
  BY <1>1 DEF vars, callVars, syncVars, TypeOK, Names, File
<1> QED BY <1>1, RunDagType, GenDagsType, TickType DEF Next

(* The state of run_dag, gen_dags.py, the table and Airflow is well-formed *)
(* at all times; in particular the key of the table is unique.             *)
THEOREM TypeCorrect == Spec => []TypeOK
BY InitType, StepType, PTL DEF Spec

-----------------------------------------------------------------------------
(* One config per user: a user whose calls do not overlap has one call     *)
(* under way, and his configs are gone when it stores the new one.         *)

OneCall ==
  \A c, d \in Calls :
    /\ Owner[c] = Owner[d] /\ Owner[c] \notin overlapping
    /\ pc[c] \in Steps /\ pc[d] \in Steps
    => c = d

OneConf ==
  \A r, s \in confs :
    Owner[r.conf] = Owner[s.conf] /\ Owner[r.conf] \notin overlapping => r = s

CleanBeforeSave ==
  \A c \in Calls : pc[c] = "save" /\ Owner[c] \notin overlapping => ConfsOf(Owner[c]) = {}

ConfInv == OneCall /\ OneConf /\ CleanBeforeSave

(* A step that leaves the table alone and begins neither a call nor a save. *)
LEMMA ConfsUntouched ==
  ASSUME TypeOK, ConfInv, UNCHANGED <<overlapping, confs>>,
         \A c \in Calls : /\ pc'[c] \in Steps => pc[c] \in Steps
                          /\ pc'[c] = "save" => pc[c] = "save" \/ ConfsOf(Owner[c]) = {}
  PROVE  ConfInv'
<1>1. OneCall'
  BY DEF ConfInv, OneCall
<1>2. OneConf'
  BY DEF ConfInv, OneConf
<1>3. CleanBeforeSave'
  BY DEF ConfInv, CleanBeforeSave, ConfsOf
<1> QED BY <1>1, <1>2, <1>3 DEF ConfInv

(* Where the other calls are after a step of one.                          *)
LEMMA GotoFacts ==
  ASSUME TypeOK, NEW c \in Calls, NEW l, Goto(c, l)
  PROVE  pc'[c] = l /\ \A d \in Calls : d # c => pc'[d] = pc[d]
BY DEF TypeOK, Goto

LEMMA SubmitConf ==
  ASSUME TypeOK, ConfInv, NEW c \in Calls, Submit(c)
  PROVE  ConfInv'
<1>1. /\ pc'[c] = "select" /\ \A d \in Calls : d # c => pc'[d] = pc[d]
      /\ UNCHANGED <<overlapping, confs>>
  BY GotoFacts DEF Submit
<1>2. OneCall'
  BY <1>1 DEF ConfInv, OneCall, Submit
<1>3. OneConf' /\ CleanBeforeSave'
  BY <1>1 DEF ConfInv, OneConf, CleanBeforeSave, ConfsOf
<1> QED BY <1>2, <1>3 DEF ConfInv

LEMMA DeleteConfigsConf ==
  ASSUME TypeOK, ConfInv, NEW c \in Calls, DeleteConfigs(c)
  PROVE  ConfInv'
<1>1. /\ pc[c] \in Steps /\ \A d \in Calls : d # c => pc'[d] = pc[d]
      /\ overlapping' = overlapping
      /\ confs' = confs \ ConfsOf(Owner[c])
  BY GotoFacts DEF DeleteConfigs, Steps
<1>2. OneCall'
  BY <1>1 DEF ConfInv, OneCall
<1>3. OneConf'
  BY <1>1 DEF ConfInv, OneConf
<1>4. CleanBeforeSave'
  BY <1>1 DEF ConfInv, CleanBeforeSave, ConfsOf
<1> QED BY <1>2, <1>3, <1>4 DEF ConfInv

LEMMA SaveConf ==
  ASSUME TypeOK, ConfInv, NEW c \in Calls, Save(c)
  PROVE  ConfInv'
<1> DEFINE new == [name |-> DagName(Owner[c], clock), conf |-> c, error |-> FALSE]
<1>1. /\ pc[c] = "save" /\ pc'[c] # "save" /\ \A d \in Calls : d # c => pc'[d] = pc[d]
      /\ overlapping' = overlapping
      /\ confs' = confs \/ confs' = confs \cup {new}
  BY GotoFacts DEF Save
<1>2. new.conf = c
  OBVIOUS
<1>3. Owner[c] \notin overlapping => \A r \in confs : Owner[r.conf] # Owner[c]
  BY <1>1 DEF ConfInv, CleanBeforeSave, ConfsOf
<1>4. \A d \in Calls : d # c /\ Owner[d] = Owner[c] /\ Owner[c] \notin overlapping
                         => pc[d] \notin Steps
  BY <1>1 DEF ConfInv, OneCall, Steps
<1> HIDE DEF new
<1>5. OneCall'
  BY <1>1 DEF ConfInv, OneCall, Steps
<1>6. OneConf'
  BY <1>1, <1>2, <1>3 DEF ConfInv, OneConf
<1>7. CleanBeforeSave'
  BY <1>1, <1>2, <1>4 DEF ConfInv, CleanBeforeSave, ConfsOf, Steps
<1> QED BY <1>5, <1>6, <1>7 DEF ConfInv

LEMMA RunDagConf ==
  ASSUME TypeOK, ConfInv, NEW c \in Calls, RunDag(c)
  PROVE  ConfInv'
<1>1. CASE SelectNone(c)
  <2>1. ConfsOf(Owner[c]) = {} /\ pc[c] \in Steps /\ UNCHANGED <<overlapping, confs>>
    BY <1>1 DEF SelectNone, Steps
  <2>2. \A d \in Calls : d # c => pc'[d] = pc[d]
    BY <1>1, GotoFacts DEF SelectNone
  <2> QED BY <2>1, <2>2, ConfsUntouched
<1>2. CASE SelectOne(c) \/ SelectMany(c) \/ DeleteDag(c)
  <2>1. pc[c] \in Steps /\ UNCHANGED <<overlapping, confs>>
    BY <1>2 DEF SelectOne, SelectMany, DeleteDag, Steps
  <2>2. pc'[c] # "save" /\ \A d \in Calls : d # c => pc'[d] = pc[d]
    BY <1>2, GotoFacts DEF SelectOne, SelectMany, DeleteDag
  <2> QED BY <2>1, <2>2, ConfsUntouched
<1>3. CASE PollFinds(c) \/ PollNoRow(c) \/ PollError(c) \/ PollMisses(c) \/ PollAgain(c)
             \/ TimeOut(c) \/ PostRun(c)
  <2>1. pc[c] \in Steps /\ UNCHANGED <<overlapping, confs>>
    BY <1>3 DEF PollFinds, PollNoRow, PollError, PollMisses, PollAgain, TimeOut, PostRun,
                Steps
  <2>2. pc'[c] # "save" /\ \A d \in Calls : d # c => pc'[d] = pc[d]
    BY <1>3, GotoFacts DEF PollFinds, PollNoRow, PollError, PollMisses, PollAgain, TimeOut,
                           PostRun, Sleep
  <2> QED BY <2>1, <2>2, ConfsUntouched
<1> QED BY <1>1, <1>2, <1>3, DeleteConfigsConf, SaveConf DEF RunDag

LEMMA ReportConf ==
  ASSUME TypeOK, ConfInv, NEW n, Report(n), UNCHANGED <<overlapping, pc>>
  PROVE  ConfInv'
<1>1. \A q \in confs' : \E r \in confs : /\ q = [r EXCEPT !.error = @ \/ r.name = n]
                                         /\ q.conf = r.conf
  BY ReportFacts
<1>2. OneCall'
  BY DEF ConfInv, OneCall
<1>3. OneConf'
  <2> SUFFICES ASSUME NEW q1 \in confs', NEW q2 \in confs', Owner[q1.conf] = Owner[q2.conf],
                      Owner[q1.conf] \notin overlapping
               PROVE  q1 = q2
    BY DEF OneConf
  <2>1. PICK r1 \in confs : q1 = [r1 EXCEPT !.error = @ \/ r1.name = n] /\ q1.conf = r1.conf
    BY <1>1
  <2>2. PICK r2 \in confs : q2 = [r2 EXCEPT !.error = @ \/ r2.name = n] /\ q2.conf = r2.conf
    BY <1>1
  <2>3. r1 = r2
    BY <2>1, <2>2 DEF ConfInv, OneConf
  <2> QED BY <2>1, <2>2, <2>3
<1>4. CleanBeforeSave'
  BY <1>1 DEF ConfInv, CleanBeforeSave, ConfsOf
<1> QED BY <1>2, <1>3, <1>4 DEF ConfInv

LEMMA StepConf ==
  ASSUME TypeOK, ConfInv, [Next]_vars
  PROVE  ConfInv'
<1>1. CASE Tick \/ SyncConfigs \/ EndSync \/ UNCHANGED vars
  <2>1. UNCHANGED <<overlapping, pc, confs>>
    BY <1>1 DEF Tick, SyncConfigs, EndSync, vars, callVars
  <2> QED BY <2>1, ConfsUntouched
<1>2. ASSUME NEW f \in files, LoadFile(f)
      PROVE  ConfInv'
  <2>1. UNCHANGED <<overlapping, pc>> /\ (UNCHANGED confs \/ Report(f.name))
    BY <1>2 DEF LoadFile, callVars
  <2> QED BY <2>1, ConfsUntouched, ReportConf
<1> QED BY <1>1, <1>2, SubmitConf, RunDagConf DEF Next, GenDags

LEMMA InitConf == Init => ConfInv
BY DEF Init, ConfInv, OneCall, OneConf, CleanBeforeSave, ConfsOf, Steps

(* A set without two elements.                                             *)
LEMMA AtMostOne ==
  ASSUME NEW S, \A x, y \in S : x = y
  PROVE  Cardinality(S) <= 1
<1>1. CASE S = {}
  BY <1>1, FS_EmptySet
<1>2. CASE S # {}
  <2>1. PICK x \in S : S = {x}
    BY <1>2
  <2> QED BY <2>1, FS_Singleton
<1> QED BY <1>1, <1>2

(* What run_dag asserts holds for every user whose calls do not overlap.   *)
THEOREM OneConfForEachUser == Spec => []OneConfPerUser
<1>1. ConfInv => OneConfPerUser
  <2> SUFFICES ASSUME ConfInv, NEW u \in Users \ overlapping
               PROVE  Cardinality(ConfsOf(u)) <= 1
    BY DEF OneConfPerUser
  <2>1. \A x, y \in ConfsOf(u) : x = y
    BY DEF ConfInv, OneConf, ConfsOf
  <2> QED BY <2>1, AtMostOne
<1> QED BY <1>1, InitConf, StepConf, TypeCorrect, PTL DEF Spec

-----------------------------------------------------------------------------
(* Errors reach whom they are about: rows and files bear the name of the   *)
(* call that brought them, and an error, though it goes to a name, comes   *)
(* from a malformed config of that name.                                   *)

Unnamed == {"idle", "select", "drop_dag", "drop_confs", "save"}
Rejecting == {"retract_dag", "retract_confs", "malformed"}

NamedByCall(x) == x.name = NameOf(x.conf) /\ stamp[x.conf] # 0

BlamesMalformed(name) == \E d \in Malformed : NameOf(d) = name /\ stamp[d] # 0

NameInv ==
  /\ \A c \in Calls : pc[c] \in Unnamed => stamp[c] = 0
  /\ \A r \in confs : NamedByCall(r)
  /\ \A f \in files : NamedByCall(f)

BlameInv ==
  /\ \A r \in confs : r.error => BlamesMalformed(r.name)
  /\ \A c \in Calls : pc[c] \in Rejecting => BlamesMalformed(NameOf(c))

(* A call that begins to be rejected has a row with an error.              *)
LEMMA NamesUntouched ==
  ASSUME TypeOK, NameInv, BlameInv, UNCHANGED stamp,
         confs' \subseteq confs, files' \subseteq files,
         \A c \in Calls : /\ pc'[c] \in Unnamed => pc[c] \in Unnamed
                          /\ pc'[c] \in Rejecting =>
                               pc[c] \in Rejecting \/ BlamesMalformed(NameOf(c))
  PROVE  NameInv' /\ BlameInv'
<1>1. \A c : NameOf(c)' = NameOf(c)
  BY DEF NameOf
<1>2. \A x : BlamesMalformed(x)' <=> BlamesMalformed(x)
  BY <1>1 DEF BlamesMalformed
<1>3. NameInv'
  BY <1>1 DEF NameInv, NamedByCall
<1>4. BlameInv'
  BY <1>1, <1>2 DEF BlameInv
<1> QED BY <1>3, <1>4

LEMMA SaveNames ==
  ASSUME TypeOK, NameInv, BlameInv, NEW c \in Calls, Save(c)
  PROVE  NameInv' /\ BlameInv'
<1> DEFINE new == [name |-> DagName(Owner[c], clock), conf |-> c, error |-> FALSE]
<1>1. /\ pc[c] = "save" /\ pc'[c] \notin Unnamed \cup Rejecting
      /\ \A d \in Calls : d # c => pc'[d] = pc[d]
      /\ files' = files
      /\ confs' = confs \/ confs' = confs \cup {new}
  BY GotoFacts DEF Save, syncVars, Unnamed, Rejecting
<1>2. /\ stamp[c] = 0 /\ stamp'[c] = clock /\ clock # 0
      /\ \A d \in Calls : d # c => stamp'[d] = stamp[d]
  BY <1>1 DEF Save, NameInv, Unnamed, TypeOK
<1>3. \A d \in Calls : stamp[d] # 0 => NameOf(d)' = NameOf(d) /\ stamp'[d] # 0
  BY <1>2 DEF NameOf
<1>4. \A x : NamedByCall(x) /\ x.conf \in Calls => NamedByCall(x)'
  BY <1>3 DEF NamedByCall
<1>5. \A x : BlamesMalformed(x) => BlamesMalformed(x)'
  BY <1>3, UserDagsAssumption DEF BlamesMalformed
<1>6. \A x : x = new => NamedByCall(x)' /\ ~x.error
  <2>1. NameOf(c)' = new.name /\ new.conf = c /\ ~new.error /\ stamp'[c] # 0
    BY <1>2 DEF NameOf, Save
  <2> HIDE DEF new
  <2> QED BY <2>1 DEF NamedByCall
<1>7. /\ \A r \in confs : r.conf \in Calls
      /\ \A f \in files : f.conf \in Calls
  BY DEF TypeOK, File
<1> HIDE DEF new
<1>8. NameInv'
  <2>1. \A d \in Calls : pc'[d] \in Unnamed => stamp'[d] = 0
    BY <1>1, <1>2 DEF NameInv
  <2>2. \A r \in confs' : NamedByCall(r)'
    BY <1>1, <1>4, <1>6, <1>7 DEF NameInv
  <2>3. \A f \in files' : NamedByCall(f)'
    BY <1>1, <1>4, <1>7 DEF NameInv
  <2> QED BY <2>1, <2>2, <2>3 DEF NameInv
<1>9. BlameInv'
  <2>1. \A d \in Calls : pc'[d] \in Rejecting => BlamesMalformed(NameOf(d))
    BY <1>1 DEF BlameInv
  <2>2. \A d \in Calls : pc'[d] \in Rejecting => BlamesMalformed(NameOf(d))'
    <3> SUFFICES ASSUME NEW d \in Calls, pc'[d] \in Rejecting
                 PROVE  BlamesMalformed(NameOf(d))'
      OBVIOUS
    <3>1. d # c
      BY <1>1
    <3>2. NameOf(d)' = NameOf(d)
      BY <1>2, <3>1 DEF NameOf
    <3>3. BlamesMalformed(NameOf(d))
      BY <2>1
    <3>4. PICK m \in Malformed : NameOf(m) = NameOf(d) /\ stamp[m] # 0
      BY <3>3 DEF BlamesMalformed
    <3>5. NameOf(m)' = NameOf(m) /\ stamp'[m] # 0
      BY <1>3, <3>4, UserDagsAssumption
    <3> QED BY <3>2, <3>4, <3>5 DEF BlamesMalformed
  <2>3. \A r \in confs' : r.error => BlamesMalformed(r.name)'
    BY <1>1, <1>5, <1>6 DEF BlameInv
  <2> QED BY <2>2, <2>3 DEF BlameInv
<1> QED BY <1>8, <1>9

LEMMA RunDagNames ==
  ASSUME TypeOK, NameInv, BlameInv, NEW c \in Calls, Submit(c) \/ RunDag(c)
  PROVE  NameInv' /\ BlameInv'
<1> USE DEF Unnamed, Rejecting
<1>1. CASE Submit(c) \/ SelectNone(c) \/ SelectOne(c) \/ SelectMany(c) \/ DeleteDag(c)
             \/ DeleteConfigs(c)
  <2>1. /\ UNCHANGED stamp /\ confs' \subseteq confs /\ files' \subseteq files
        /\ pc'[c] \in Unnamed => pc[c] \in Unnamed
        /\ pc'[c] \in Rejecting => pc[c] \in Rejecting
    BY <1>1, GotoFacts DEF Submit, SelectNone, SelectOne, SelectMany, DeleteDag, DeleteConfigs,
                           syncVars
  <2>2. \A d \in Calls : d # c => pc'[d] = pc[d]
    BY <1>1, GotoFacts DEF Submit, SelectNone, SelectOne, SelectMany, DeleteDag, DeleteConfigs
  <2> QED BY <2>1, <2>2, NamesUntouched
<1>2. CASE PollError(c)
  <2>1. PICK r \in confs : r.name = NameOf(c) /\ r.error
    BY <1>2 DEF PollError, Named
  <2>2. BlamesMalformed(NameOf(c))
    BY <2>1 DEF BlameInv
  <2>3. /\ UNCHANGED <<stamp, confs, files>> /\ pc'[c] \notin Unnamed
        /\ \A d \in Calls : d # c => pc'[d] = pc[d]
    BY <1>2, GotoFacts DEF PollError, syncVars
  <2> QED BY <2>2, <2>3, NamesUntouched
<1>3. CASE PollFinds(c) \/ PollNoRow(c) \/ PollMisses(c) \/ PollAgain(c) \/ TimeOut(c)
             \/ PostRun(c)
  <2>1. /\ UNCHANGED <<stamp, confs, files>>
        /\ pc'[c] \notin Unnamed /\ pc'[c] \notin Rejecting
    BY <1>3, GotoFacts DEF PollFinds, PollNoRow, PollMisses, PollAgain, TimeOut, PostRun, Sleep,
                           syncVars
  <2>2. \A d \in Calls : d # c => pc'[d] = pc[d]
    BY <1>3, GotoFacts DEF PollFinds, PollNoRow, PollMisses, PollAgain, TimeOut, PostRun, Sleep
  <2> QED BY <2>1, <2>2, NamesUntouched
<1> QED BY <1>1, <1>2, <1>3, SaveNames DEF RunDag

LEMMA GenDagsNames ==
  ASSUME TypeOK, NameInv, BlameInv, GenDags
  PROVE  NameInv' /\ BlameInv'
<1>1. CASE EndSync
  BY <1>1, NamesUntouched DEF EndSync, callVars
<1>2. CASE SyncConfigs
  <2>1. UNCHANGED <<pc, stamp, confs>> /\ files' = Synced({r \in confs : ~r.error})
    BY <1>2 DEF SyncConfigs, callVars
  <2>2. ASSUME NEW f \in files'
        PROVE  NamedByCall(f)
    <3>1. f \in files \/ \E r \in confs : f = [name |-> r.name, conf |-> r.conf]
      BY <2>1 DEF Synced
    <3>2. \A r \in confs : NamedByCall([name |-> r.name, conf |-> r.conf])
      BY DEF NameInv, NamedByCall
    <3> QED BY <3>1, <3>2 DEF NameInv
  <2>3. \A x : (NamedByCall(x)' <=> NamedByCall(x)) /\ (NameOf(x)' = NameOf(x))
    BY <2>1 DEF NamedByCall, NameOf
  <2>4. \A x : BlamesMalformed(x)' <=> BlamesMalformed(x)
    BY <2>1, <2>3 DEF BlamesMalformed
  <2>5. NameInv'
    BY <2>1, <2>2, <2>3 DEF NameInv
  <2>6. BlameInv'
    BY <2>1, <2>3, <2>4 DEF BlameInv
  <2> QED BY <2>5, <2>6
<1>3. ASSUME NEW f \in files, LoadFile(f)
      PROVE  NameInv' /\ BlameInv'
  <2>1. UNCHANGED <<pc, stamp, files>>
    BY <1>3 DEF LoadFile, callVars
  <2>2. CASE UNCHANGED confs
    BY <2>1, <2>2, NamesUntouched
  <2>3. CASE f.conf \in Malformed /\ Report(f.name)
    <3>1. \A x : (NamedByCall(x)' <=> NamedByCall(x)) /\ (NameOf(x)' = NameOf(x))
      BY <2>1 DEF NamedByCall, NameOf
    <3>2. \A x : BlamesMalformed(x)' <=> BlamesMalformed(x)
      BY <2>1, <3>1 DEF BlamesMalformed
    <3>3. BlamesMalformed(f.name)
      BY <2>3 DEF NameInv, NamedByCall, BlamesMalformed
    <3>4. \A q \in confs' : \E r \in confs :
            q.name = r.name /\ q.conf = r.conf /\ (q.error => r.error \/ r.name = f.name)
      BY <2>3, ReportFacts
    <3>5. \A q \in confs' : NamedByCall(q)
      BY <3>4 DEF NameInv, NamedByCall
    <3>6. \A q \in confs' : q.error => BlamesMalformed(q.name)
      BY <3>3, <3>4 DEF BlameInv
    <3>7. NameInv'
      BY <2>1, <3>1, <3>5 DEF NameInv
    <3>8. BlameInv'
      BY <2>1, <3>1, <3>2, <3>6 DEF BlameInv
    <3> QED BY <3>7, <3>8
  <2> QED BY <1>3, <2>2, <2>3 DEF LoadFile
<1> QED BY <1>1, <1>2, <1>3 DEF GenDags

LEMMA StepNames ==
  ASSUME TypeOK, NameInv, BlameInv, [Next]_vars
  PROVE  NameInv' /\ BlameInv'
<1>1. CASE Tick \/ UNCHANGED vars
  <2>1. UNCHANGED <<pc, stamp, confs, files>>
    BY <1>1 DEF Tick, vars, callVars, syncVars
  <2> QED BY <2>1, NamesUntouched
<1> QED BY <1>1, RunDagNames, GenDagsNames DEF Next

LEMMA InitNames == Init => NameInv /\ BlameInv
BY DEF Init, NameInv, BlameInv, Rejecting

(* Two calls of one name are of one user and of one second.                *)
LEMMA BlamedAlone ==
  ASSUME NEW c \in Calls, Alone(c), BlamesMalformed(NameOf(c))
  PROVE  c \in Malformed
<1>1. PICK d \in Malformed : NameOf(d) = NameOf(c) /\ stamp[d] # 0
  BY DEF BlamesMalformed
<1>2. Owner[d] = Owner[c] /\ stamp[d] = stamp[c]
  BY <1>1 DEF NameOf, DagName
<1>3. ~SameSecond(c, d)
  BY UserDagsAssumption DEF Alone
<1> QED BY <1>1, <1>2, <1>3 DEF SameSecond

(* Nobody is told that his config is malformed if it is not, unless two    *)
(* calls of his share a second.                                            *)
THEOREM OnlyMalformedAreRejected == Spec => []OnlyMalformedRejected
<1>1. BlameInv => OnlyMalformedRejected
  BY BlamedAlone DEF BlameInv, Rejecting, OnlyMalformedRejected
<1> QED BY <1>1, InitNames, StepNames, TypeCorrect, PTL DEF Spec

-----------------------------------------------------------------------------
(* A user whose calls do not overlap gets served: the row of a call stays  *)
(* until it is answered, its name is nobody else's, and a DAG that Airflow *)
(* serves survives the next evaluation.                                    *)

Posted == {"returned", "timed_out", "no_run"}
Waiting == {"poll", "asleep", "found"}
Unserved == {"too_many", "clash", "no_row", "no_run"}
Sequential(c) == Owner[c] \notin overlapping

(* Whoever has waited for its DAG, or been answered after a wait, does not *)
(* have its name from the current second.                                  *)
TimeInv ==
  \A c \in Calls :
    pc[c] \in Posted \/ (pc[c] \in {"asleep", "found"} /\ c \notin sleeping) => stamp[c] < clock

(* The name of a DAG that is to be deleted is one of its owner.            *)
PrevInv == \A c \in Calls : pc[c] \in {"drop_dag", "retract_dag"} => prev[c][1] = Owner[c]

(* A file is loaded unless it is malformed, and only once it is loaded     *)
(* does Airflow serve it.                                                  *)
LoadInv ==
  /\ \A g \in registered : NamedByCall(g)
  /\ \A g \in registered \cup loaded : g.conf \in Calls \ Malformed
  /\ \A f, g \in files : f.name = g.name => f = g
  /\ syncing => \A f \in files : f \in toLoad \/ f \in loaded \/ f.conf \in Malformed

(* While its row has no error the file of a served DAG stays; a good       *)
(* config gets an error only from another one's file, and never has one of *)
(* its own then.                                                           *)
KeepInv ==
  \A r \in confs : \A g \in registered : g.conf = r.conf /\ ~r.error => g \in files

CleanErrorInv ==
  \A r \in confs : r.error /\ r.conf \notin Malformed => \A g \in files \cup registered : g.conf # r.conf

SyncInv == LoadInv /\ KeepInv /\ CleanErrorInv

(* What a call of such a user can count on                                 *)
RowInv ==
  \A c \in Calls : Sequential(c) /\ pc[c] \in Waiting => \E r \in confs : r.conf = c

OwnNameInv ==
  \A c \in Calls : Sequential(c) /\ pc[c] \in Waiting =>
    \A g \in files \cup registered : g.name = NameOf(c) => g.conf = c \/ g.conf \in Malformed

FoundInv ==
  \A c \in Calls : Sequential(c) /\ pc[c] = "found" => \E g \in registered : g.conf = c

RejectedInv ==
  \A c \in Calls \ Malformed : Sequential(c) /\ pc[c] \in Rejecting =>
    /\ \A r \in confs : r.conf = c => r.error
    /\ \A g \in files \cup registered : g.conf # c

AnswerInv ==
  \A c \in Calls : Sequential(c) =>
    /\ pc[c] \notin Unserved
    /\ ran[c] \subseteq {c}

ServedInv == RowInv /\ OwnNameInv /\ FoundInv /\ RejectedInv /\ AnswerInv

LEMMA TimeStep ==
  ASSUME TypeOK, TimeInv, [Next]_vars
  PROVE  TimeInv'
<1> USE DEF Posted
<1>1. ASSUME NEW c \in Calls, Submit(c) \/ RunDag(c)
      PROVE  TimeInv'
  <2>1. clock' = clock /\ sleeping \subseteq sleeping' /\ \A d \in Calls : d # c => pc'[d] = pc[d] /\ stamp'[d] = stamp[d]
    BY <1>1, GotoFacts DEF Submit, RunDag, SelectNone, SelectOne, SelectMany, DeleteDag, DeleteConfigs, Save,
       PollFinds, PollNoRow, PollError, PollMisses, PollAgain, TimeOut, PostRun, Sleep, TypeOK
  <2>2. ASSUME pc'[c] \in Posted \/ (pc'[c] \in {"asleep", "found"} /\ c \notin sleeping')
        PROVE  stamp'[c] < clock
    <3>1. CASE TimeOut(c) \/ PostRun(c)
      BY <3>1 DEF TimeOut, PostRun, TimeInv
    <3>2. CASE PollFinds(c) \/ PollMisses(c)
      BY <2>2, <3>2, GotoFacts DEF PollFinds, PollMisses, Sleep
    <3> QED BY <1>1, <2>2, <3>1, <3>2, GotoFacts DEF Submit, RunDag, SelectNone, SelectOne, SelectMany, DeleteDag,
               DeleteConfigs, Save, PollNoRow, PollError, PollAgain
  <2> QED BY <2>1, <2>2 DEF TimeInv
<1>2. CASE Tick
  <2>1. UNCHANGED <<pc, stamp>> /\ clock' = IF Used(clock) THEN clock + 1 ELSE clock
    BY <1>2 DEF Tick
  <2>2. \A c \in Calls : stamp[c] < clock'
    <3> SUFFICES ASSUME NEW c \in Calls PROVE stamp[c] < clock'
      OBVIOUS
    <3>1. stamp[c] \in 0..clock /\ clock \in Nat
      BY DEF TypeOK
    <3>2. ~Used(clock) => stamp[c] # clock
      BY DEF Used
    <3> QED BY <2>1, <3>1, <3>2
  <2> QED BY <2>1, <2>2 DEF TimeInv
<1>3. CASE GenDags \/ UNCHANGED vars
  <2>1. UNCHANGED <<pc, stamp, sleeping, clock>>
    BY <1>3 DEF GenDags, SyncConfigs, LoadFile, EndSync, callVars, vars
  <2> QED BY <2>1 DEF TimeInv
<1> QED BY <1>1, <1>2, <1>3 DEF Next

LEMMA PrevStep ==
  ASSUME TypeOK, NameInv, PrevInv, [Next]_vars
  PROVE  PrevInv'
<1>1. ASSUME NEW c \in Calls, Submit(c) \/ RunDag(c)
      PROVE  PrevInv'
  <2>1. \A d \in Calls : d # c => pc'[d] = pc[d] /\ prev'[d] = prev[d]
    BY <1>1, GotoFacts DEF Submit, RunDag, SelectNone, SelectOne, SelectMany, DeleteDag, DeleteConfigs, Save,
       PollFinds, PollNoRow, PollError, PollMisses, PollAgain, TimeOut, PostRun, Sleep, TypeOK
  <2>2. ASSUME pc'[c] \in {"drop_dag", "retract_dag"}
        PROVE  prev'[c][1] = Owner[c]
    <3>1. CASE SelectOne(c)
      <4>1. PICK r \in ConfsOf(Owner[c]) : prev'[c] = r.name
        BY <3>1 DEF SelectOne, TypeOK
      <4>2. r \in confs /\ Owner[r.conf] = Owner[c]
        BY DEF ConfsOf
      <4>3. r.name = <<Owner[c], stamp[r.conf]>>
        BY <4>2 DEF NameInv, NamedByCall, NameOf, DagName
      <4> QED BY <4>1, <4>3
    <3>2. CASE PollError(c)
      <4>1. prev'[c] = <<Owner[c], stamp[c]>>
        BY <3>2 DEF PollError, TypeOK, NameOf, DagName
      <4> QED BY <4>1
    <3> QED BY <1>1, <2>2, <3>1, <3>2, GotoFacts DEF Submit, RunDag, SelectNone, SelectMany, DeleteDag,
               DeleteConfigs, Save, PollFinds, PollNoRow, PollMisses, PollAgain, TimeOut, PostRun, Sleep
  <2> QED BY <2>1, <2>2 DEF PrevInv
<1>2. CASE Tick \/ GenDags \/ UNCHANGED vars
  <2>1. UNCHANGED <<pc, prev>>
    BY <1>2 DEF Tick, GenDags, SyncConfigs, LoadFile, EndSync, callVars, vars
  <2> QED BY <2>1 DEF PrevInv
<1> QED BY <1>1, <1>2 DEF Next

(* Names do not change while stamps do not.                                *)
LEMMA SameNames ==
  ASSUME UNCHANGED stamp
  PROVE  \A x : NameOf(x)' = NameOf(x) /\ (NamedByCall(x)' <=> NamedByCall(x))
BY DEF NameOf, NamedByCall

LEMMA SyncFrame ==
  ASSUME TypeOK, SyncInv, UNCHANGED <<files, syncing, toLoad, loaded, stamp>>,
         registered' \subseteq registered, confs' \subseteq confs
  PROVE  SyncInv'
<1>1. LoadInv'
  BY SameNames DEF SyncInv, LoadInv
<1>2. KeepInv' /\ CleanErrorInv'
  BY DEF SyncInv, KeepInv, CleanErrorInv
<1> QED BY <1>1, <1>2 DEF SyncInv

(* Nothing bears the name of a call before it stores its config.           *)
LEMMA SaveSync ==
  ASSUME TypeOK, NameInv, SyncInv, NEW c \in Calls, Save(c)
  PROVE  SyncInv'
<1> DEFINE new == [name |-> DagName(Owner[c], clock), conf |-> c, error |-> FALSE]
<1>1. /\ stamp[c] = 0 /\ UNCHANGED <<files, syncing, toLoad, loaded, registered>>
      /\ \A d \in Calls : d # c => stamp'[d] = stamp[d]
      /\ confs' = confs \/ confs' = confs \cup {new}
  BY DEF Save, NameInv, Unnamed, syncVars, TypeOK
<1>2. \A g \in registered : g.conf \in Calls \ {c}
  BY <1>1 DEF SyncInv, LoadInv, NamedByCall
<1>3. \A g \in registered : NamedByCall(g)'
  BY <1>1, <1>2 DEF SyncInv, LoadInv, NamedByCall, NameOf
<1>4. LoadInv'
  BY <1>1, <1>3 DEF SyncInv, LoadInv
<1>5. new.conf = c /\ ~new.error
  OBVIOUS
<1> HIDE DEF new
<1>6. KeepInv' /\ CleanErrorInv'
  BY <1>1, <1>2, <1>5 DEF SyncInv, KeepInv, CleanErrorInv
<1> QED BY <1>4, <1>6 DEF SyncInv

LEMMA RunDagSync ==
  ASSUME TypeOK, NameInv, SyncInv, NEW c \in Calls, Submit(c) \/ RunDag(c)
  PROVE  SyncInv'
<1>1. CASE ~Save(c)
  <2>1. UNCHANGED <<syncVars, stamp>> /\ confs' \subseteq confs /\ registered' \subseteq registered
    BY <1>1 DEF Submit, RunDag, SelectNone, SelectOne, SelectMany, DeleteDag, DeleteConfigs,
       PollFinds, PollNoRow, PollError, PollMisses, PollAgain, TimeOut, PostRun
  <2> QED BY <2>1, SyncFrame DEF syncVars
<1> QED BY <1>1, SaveSync

(* Rows of one config are one row, as are rows of one name: both bear the  *)
(* name of their user.                                                     *)
LEMMA SameRow ==
  ASSUME TypeOK, NameInv, NEW r \in confs, NEW s \in confs, r.conf = s.conf \/ r.name = s.name
  PROVE  r = s
<1>1. /\ r.name = <<Owner[r.conf], stamp[r.conf]>>
      /\ s.name = <<Owner[s.conf], stamp[s.conf]>>
  BY DEF NameInv, NamedByCall, NameOf, DagName
<1>2. r.name = s.name /\ Owner[r.conf] = Owner[s.conf]
  BY <1>1
<1> QED BY <1>2 DEF TypeOK

LEMMA SyncedFacts ==
  ASSUME SyncConfigs
  PROVE  /\ \A f \in files' : \/ f \in files
                              \/ \E r \in confs : /\ f = [name |-> r.name, conf |-> r.conf] /\ ~r.error
                                                  /\ r.name \notin NamesIn(files)
         /\ \A f \in files, r \in confs : f.name = r.name /\ ~r.error => f \in files'
<1>1. files' = Synced({r \in confs : ~r.error})
  BY DEF SyncConfigs
<1> QED BY <1>1 DEF Synced, NamesIn

LEMMA SyncConfigsSync ==
  ASSUME TypeOK, NameInv, SyncInv, SyncConfigs
  PROVE  SyncInv'
<1>1. /\ UNCHANGED <<stamp, confs, registered>> /\ syncing' /\ toLoad' = files' /\ loaded' = {}
  BY DEF SyncConfigs, callVars
<1>2. \A f, g \in files' : f.name = g.name => f = g
  <2> SUFFICES ASSUME NEW f \in files', NEW g \in files', f.name = g.name
               PROVE  f = g
    OBVIOUS
  <2>1. CASE f \in files /\ g \in files
    BY <2>1 DEF SyncInv, LoadInv
  <2>2. CASE f \notin files /\ g \notin files
    <3>1. PICK r \in confs : f = [name |-> r.name, conf |-> r.conf]
      BY <2>2, SyncedFacts
    <3>2. PICK s \in confs : g = [name |-> s.name, conf |-> s.conf]
      BY <2>2, SyncedFacts
    <3>3. r = s
      BY <3>1, <3>2, SameRow
    <3> QED BY <3>1, <3>2, <3>3
  <2>3. ASSUME NEW x \in files', NEW y \in files, x \notin files
        PROVE  x.name # y.name
    BY <2>3, SyncedFacts DEF NamesIn
  <2> QED BY <2>1, <2>2, <2>3
<1>3. LoadInv'
  BY <1>1, <1>2, SameNames DEF SyncInv, LoadInv
<1>4. KeepInv'
  <2> SUFFICES ASSUME NEW r \in confs, NEW g \in registered, g.conf = r.conf, ~r.error
               PROVE  g \in files'
    BY <1>1 DEF KeepInv
  <2>1. g \in files /\ g.name = r.name
    BY DEF SyncInv, KeepInv, LoadInv, NameInv, NamedByCall
  <2> QED BY <2>1, SyncedFacts
<1>5. CleanErrorInv'
  <2> SUFFICES ASSUME NEW r \in confs, r.error, r.conf \notin Malformed, NEW g \in files' \cup registered,
                      g.conf = r.conf
               PROVE  FALSE
    BY <1>1 DEF CleanErrorInv
  <2>1. g \in files' \ files
    BY DEF SyncInv, CleanErrorInv
  <2>2. PICK s \in confs : g = [name |-> s.name, conf |-> s.conf] /\ ~s.error
    BY <2>1, SyncedFacts
  <2>3. r = s
    BY <2>2, SameRow
  <2> QED BY <2>2, <2>3
<1> QED BY <1>3, <1>4, <1>5 DEF SyncInv

LEMMA LoadFileSync ==
  ASSUME TypeOK, NameInv, SyncInv, NEW f \in files, LoadFile(f)
  PROVE  SyncInv'
<1>1. UNCHANGED <<stamp, files, syncing, registered>> /\ toLoad' = toLoad \ {f}
  BY DEF LoadFile, callVars
<1>2. CASE f.conf \notin Malformed
  <2>1. confs' = confs /\ loaded' = loaded \cup {f}
    BY <1>2 DEF LoadFile
  <2>2. f.conf \in Calls
    BY DEF TypeOK, File
  <2>3. LoadInv'
    BY <1>1, <1>2, <2>1, <2>2, SameNames DEF SyncInv, LoadInv
  <2> QED BY <1>1, <2>1, <2>3 DEF SyncInv, KeepInv, CleanErrorInv
<1>3. CASE f.conf \in Malformed
  <2>1. Report(f.name) /\ loaded' = loaded
    BY <1>3 DEF LoadFile
  <2>2. \A q \in confs' : \E r \in confs :
          q.name = r.name /\ q.conf = r.conf /\ q.error = (r.error \/ r.name = f.name)
    <3> SUFFICES ASSUME NEW q \in confs'
                 PROVE  \E r \in confs :
                          q.name = r.name /\ q.conf = r.conf /\ q.error = (r.error \/ r.name = f.name)
      OBVIOUS
    <3>1. PICK r \in confs : q = [r EXCEPT !.error = @ \/ r.name = f.name]
      BY <2>1 DEF Report
    <3>2. r \in [name: Names, conf: Calls, error: BOOLEAN]
      BY DEF TypeOK
    <3> QED BY <3>1, <3>2
  <2>3. LoadInv'
    BY <1>1, <1>3, <2>1, SameNames DEF SyncInv, LoadInv
  <2>4. KeepInv'
    <3> SUFFICES ASSUME NEW q \in confs', NEW g \in registered, g.conf = q.conf, ~q.error
                 PROVE  g \in files
      BY <1>1 DEF KeepInv
    <3>1. PICK r \in confs : q.conf = r.conf /\ q.error = (r.error \/ r.name = f.name)
      BY <2>2
    <3> QED BY <3>1 DEF SyncInv, KeepInv
  <2>5. CleanErrorInv'
    <3> SUFFICES ASSUME NEW q \in confs', q.error, q.conf \notin Malformed, NEW g \in files \cup registered,
                        g.conf = q.conf
                 PROVE  FALSE
      BY <1>1 DEF CleanErrorInv
    <3>1. PICK r \in confs : q.conf = r.conf /\ q.error = (r.error \/ r.name = f.name)
      BY <2>2
    <3>2. ~r.error /\ r.name = f.name
      BY <3>1 DEF SyncInv, CleanErrorInv
    <3>3. g \in files
      BY <3>1, <3>2 DEF SyncInv, KeepInv
    <3>4. g.name = r.name
      BY <3>1, <3>3 DEF NameInv, NamedByCall
    <3>5. g = f
      BY <3>2, <3>3, <3>4 DEF SyncInv, LoadInv
    <3> QED BY <1>3, <3>5
  <2> QED BY <2>3, <2>4, <2>5 DEF SyncInv
<1> QED BY <1>2, <1>3

LEMMA EndSyncSync ==
  ASSUME TypeOK, NameInv, SyncInv, EndSync
  PROVE  SyncInv'
<1>1. /\ UNCHANGED <<stamp, confs, files>> /\ registered' = loaded /\ loaded' = {} /\ syncing' = FALSE
      /\ loaded \subseteq files
  BY DEF EndSync, callVars, TypeOK
<1>2. \A g \in loaded : NamedByCall(g)'
  BY <1>1, SameNames DEF NameInv
<1>3. LoadInv'
  BY <1>1, <1>2 DEF SyncInv, LoadInv
<1>4. KeepInv' /\ CleanErrorInv'
  BY <1>1 DEF SyncInv, KeepInv, CleanErrorInv
<1> QED BY <1>3, <1>4 DEF SyncInv

LEMMA StepSync ==
  ASSUME TypeOK, NameInv, SyncInv, [Next]_vars
  PROVE  SyncInv'
<1>1. CASE Tick \/ UNCHANGED vars
  <2>1. UNCHANGED <<stamp, syncVars, registered, confs>>
    BY <1>1 DEF Tick, vars, callVars
  <2> QED BY <2>1, SyncFrame DEF syncVars
<1> QED BY <1>1, RunDagSync, SyncConfigsSync, LoadFileSync, EndSyncSync DEF Next, GenDags

LEMMA ServedFrame ==
  ASSUME TypeOK, ServedInv, UNCHANGED <<overlapping, stamp, files>>,
         confs' \subseteq confs, registered' \subseteq registered,
         \A c \in Calls : Sequential(c) =>
           /\ pc'[c] \in Waiting => pc[c] \in Waiting /\ \A r \in confs : r.conf = c => r \in confs'
           /\ pc'[c] = "found" => \E g \in registered' : g.conf = c
           /\ pc'[c] \in Rejecting /\ c \notin Malformed =>
                \/ pc[c] \in Rejecting
                \/ /\ \A r \in confs : r.conf = c => r.error
                   /\ \A g \in files \cup registered : g.conf # c
           /\ pc'[c] \notin Unserved /\ ran'[c] \subseteq {c}
  PROVE  ServedInv'
<1>1. \A c : (Sequential(c)' <=> Sequential(c)) /\ NameOf(c)' = NameOf(c)
  BY DEF Sequential, NameOf
<1>2. RowInv'
  BY <1>1 DEF ServedInv, RowInv
<1>3. OwnNameInv'
  BY <1>1 DEF ServedInv, OwnNameInv
<1>4. FoundInv' /\ AnswerInv'
  BY <1>1 DEF FoundInv, AnswerInv
<1>5. RejectedInv'
  BY <1>1 DEF ServedInv, RejectedInv
<1> QED BY <1>2, <1>3, <1>4, <1>5 DEF ServedInv

(* A step of another call of the table's user is none of a call that waits.*)
LEMMA OthersWait ==
  ASSUME ConfInv, NEW c \in Calls, pc[c] \in Steps, NEW d \in Calls, d # c, Sequential(d), pc[d] \in Waiting
  PROVE  Owner[d] # Owner[c]
BY DEF ConfInv, OneCall, Sequential, Waiting, Steps

(* What Airflow serves under the name of a call that waits is its own.     *)
LEMMA ServedIsOwn ==
  ASSUME TypeOK, SyncInv, ServedInv, NEW c \in Calls, Sequential(c), pc[c] \in Waiting
  PROVE  \A g \in registered : g.name = NameOf(c) <=> g.conf = c
BY DEF SyncInv, LoadInv, ServedInv, OwnNameInv, NamedByCall

(* What changes for the others and for the call itself in a step of it     *)
LEMMA CallServed ==
  ASSUME TypeOK, ServedInv, UNCHANGED <<overlapping, stamp, files>>, NEW c \in Calls,
         \A d \in Calls : d # c => pc'[d] = pc[d] /\ ran'[d] = ran[d],
         confs' \subseteq confs, registered' \subseteq registered,
         \A d \in Calls : d # c /\ Sequential(d) /\ pc[d] \in Waiting =>
           /\ \A r \in confs : r.conf = d => r \in confs'
           /\ \A g \in registered : g.conf = d => g \in registered',
         Sequential(c) =>
           /\ pc'[c] \in Waiting => pc[c] \in Waiting /\ UNCHANGED confs
           /\ pc'[c] = "found" => \E g \in registered' : g.conf = c
           /\ pc'[c] \in Rejecting /\ c \notin Malformed =>
                \/ pc[c] \in Rejecting
                \/ /\ \A r \in confs : r.conf = c => r.error
                   /\ \A g \in files \cup registered : g.conf # c
           /\ pc'[c] \notin Unserved /\ ran'[c] \subseteq {c}
  PROVE  ServedInv'
<1>1. ASSUME NEW d \in Calls, d # c, Sequential(d)
      PROVE  /\ pc'[d] \in Waiting => pc[d] \in Waiting /\ \A r \in confs : r.conf = d => r \in confs'
             /\ pc'[d] = "found" => \E g \in registered' : g.conf = d
             /\ pc'[d] \in Rejecting => pc[d] \in Rejecting
             /\ pc'[d] \notin Unserved /\ ran'[d] \subseteq {d}
  BY <1>1 DEF ServedInv, FoundInv, AnswerInv, Waiting
<1> QED BY <1>1, ServedFrame

LEMMA SelectServed ==
  ASSUME TypeOK, ConfInv, ServedInv, NEW c \in Calls,
         Submit(c) \/ SelectNone(c) \/ SelectOne(c) \/ SelectMany(c)
  PROVE  ServedInv'
<1>1. /\ UNCHANGED <<overlapping, stamp, files, confs, registered, ran>>
      /\ \A d \in Calls : d # c => pc'[d] = pc[d]
      /\ pc'[c] \in {"select", "save", "drop_dag", "too_many"}
  BY GotoFacts DEF Submit, SelectNone, SelectOne, SelectMany, syncVars
<1>2. ASSUME Sequential(c)
      PROVE  pc'[c] # "too_many"
  <2>1. \A x, y \in ConfsOf(Owner[c]) : x = y
    BY <1>2 DEF ConfInv, OneConf, ConfsOf, Sequential
  <2>2. Cardinality(ConfsOf(Owner[c])) <= 1
    BY <2>1, AtMostOne
  <2>3. ~(Cardinality(ConfsOf(Owner[c])) > 1)
    <3>1. CASE ConfsOf(Owner[c]) = {}
      <4>1. Cardinality(ConfsOf(Owner[c])) = 0
        BY <3>1, FS_EmptySet
      <4> QED BY <4>1
    <3>2. CASE ConfsOf(Owner[c]) # {}
      <4>1. PICK x : ConfsOf(Owner[c]) = {x}
        BY <2>1, <3>2
      <4>2. Cardinality(ConfsOf(Owner[c])) = 1
        BY <4>1, FS_Singleton
      <4> QED BY <4>2
    <3> QED BY <3>1, <3>2
  <2>4. ~SelectMany(c)
    BY <2>3 DEF SelectMany
  <2> QED BY <2>4, GotoFacts DEF Submit, SelectNone, SelectOne
<1>3. Sequential(c) => ran'[c] \subseteq {c}
  BY <1>1 DEF ServedInv, AnswerInv
<1>4. Sequential(c) => pc'[c] \notin Waiting \cup Rejecting \cup Unserved /\ pc'[c] # "found"
  BY <1>1, <1>2 DEF Waiting, Rejecting, Unserved
<1> QED BY <1>1, <1>3, <1>4, CallServed

(* The deletions of a user's call concern no other one of the user.        *)
LEMMA DeleteServed ==
  ASSUME TypeOK, NameInv, PrevInv, ConfInv, SyncInv, ServedInv, NEW c \in Calls, DeleteDag(c) \/ DeleteConfigs(c)
  PROVE  ServedInv'
<1>1. /\ UNCHANGED <<overlapping, stamp, files, ran>> /\ pc[c] \in Steps
      /\ \A d \in Calls : d # c => pc'[d] = pc[d]
      /\ confs' \subseteq confs /\ registered' \subseteq registered
      /\ pc'[c] \in {"drop_confs", "save"} \/ (pc[c] \in Rejecting /\ pc'[c] \in Rejecting)
  <2>1. CASE DeleteDag(c)
    <3>1. UNCHANGED <<overlapping, stamp, files, ran, confs>> /\ registered' \subseteq registered
      BY <2>1 DEF DeleteDag, syncVars
    <3>2. \/ pc[c] = "drop_dag" /\ Goto(c, "drop_confs")
          \/ pc[c] = "retract_dag" /\ Goto(c, "retract_confs")
      BY <2>1 DEF DeleteDag
    <3> QED BY <3>1, <3>2, GotoFacts DEF Rejecting, Steps
  <2>2. CASE DeleteConfigs(c)
    <3>1. UNCHANGED <<overlapping, stamp, files, ran, registered>> /\ confs' \subseteq confs
      BY <2>2 DEF DeleteConfigs, syncVars
    <3>2. \/ pc[c] = "drop_confs" /\ Goto(c, "save")
          \/ pc[c] = "retract_confs" /\ Goto(c, "malformed")
      BY <2>2 DEF DeleteConfigs
    <3> QED BY <3>1, <3>2, GotoFacts DEF Rejecting, Steps
  <2> QED BY <2>1, <2>2
<1>2. ASSUME NEW d \in Calls, d # c, Sequential(d), pc[d] \in Waiting
      PROVE  /\ \A r \in confs : r.conf = d => r \in confs'
             /\ \A g \in registered : g.conf = d => g \in registered'
  <2>1. Owner[d] # Owner[c]
    BY <1>1, <1>2, OthersWait
  <2>2. \A r \in confs : r.conf = d => r \in confs'
    BY <2>1 DEF DeleteDag, DeleteConfigs, ConfsOf
  <2>3. ASSUME NEW g \in registered, g.conf = d
        PROVE  g \in registered'
    <3>1. CASE UNCHANGED registered
      BY <3>1
    <3>2. CASE DeleteDag(c)
      <4>1. g.name = <<Owner[d], stamp[d]>>
        BY <2>3 DEF SyncInv, LoadInv, NamedByCall, NameOf, DagName
      <4>2. prev[c][1] = Owner[c]
        BY <3>2 DEF DeleteDag, PrevInv
      <4>3. g.name # prev[c]
        BY <2>1, <4>1, <4>2
      <4> QED BY <3>2, <4>3 DEF DeleteDag, Named
    <3> QED BY <3>1, <3>2 DEF DeleteConfigs
  <2> QED BY <2>2, <2>3
<1>3. Sequential(c) => ran'[c] \subseteq {c}
  BY <1>1 DEF ServedInv, AnswerInv
<1>4. /\ pc'[c] \notin Waiting \cup Unserved /\ pc'[c] # "found"
      /\ pc'[c] \in Rejecting => pc[c] \in Rejecting
  BY <1>1 DEF Waiting, Rejecting, Unserved
<1> QED BY <1>1, <1>2, <1>3, <1>4, CallServed

LEMMA PollServed ==
  ASSUME TypeOK, NameInv, ConfInv, SyncInv, ServedInv, NEW c \in Calls,
         PollFinds(c) \/ PollNoRow(c) \/ PollError(c) \/ PollMisses(c) \/ PollAgain(c) \/ TimeOut(c)
  PROVE  ServedInv'
<1>1. /\ UNCHANGED <<overlapping, stamp, files, confs, registered, ran>> /\ pc[c] \in Waiting
      /\ \A d \in Calls : d # c => pc'[d] = pc[d]
  BY GotoFacts DEF PollFinds, PollNoRow, PollError, PollMisses, PollAgain, TimeOut, Sleep, syncVars, Waiting
<1>2. Sequential(c) => ran'[c] \subseteq {c}
  BY <1>1 DEF ServedInv, AnswerInv
<1>3. ASSUME Sequential(c)
      PROVE  \E s \in confs : s.conf = c /\ s.name = NameOf(c)
  BY <1>1, <1>3 DEF ServedInv, RowInv, NameInv, NamedByCall
<1>4. ASSUME Sequential(c), pc'[c] = "found"
      PROVE  \E g \in registered' : g.conf = c
  <2>1. PollFinds(c)
    BY <1>4, GotoFacts DEF PollNoRow, PollError, PollMisses, PollAgain, TimeOut, Sleep
  <2>2. PICK g \in registered : g.name = NameOf(c)
    BY <2>1 DEF PollFinds, NamesIn
  <2>3. g.conf = c
    BY <1>1, <1>4, <2>2, ServedIsOwn
  <2> QED BY <1>1, <2>3
<1>5. ASSUME Sequential(c)
      PROVE  pc'[c] \notin Unserved
  <2>1. ~PollNoRow(c)
    BY <1>3, <1>5 DEF PollNoRow, NamesIn
  <2> QED BY <2>1, GotoFacts DEF PollFinds, PollError, PollMisses, PollAgain, TimeOut, Sleep, Unserved
<1>6. ASSUME Sequential(c), pc'[c] \in Rejecting, c \notin Malformed
      PROVE  /\ \A r \in confs : r.conf = c => r.error
             /\ \A g \in files \cup registered : g.conf # c
  <2>1. PollError(c)
    BY <1>6, GotoFacts DEF PollFinds, PollNoRow, PollMisses, PollAgain, TimeOut, Sleep, Rejecting
  <2>2. PICK r \in confs : r.name = NameOf(c) /\ r.error
    BY <2>1 DEF PollError, Named
  <2>3. PICK s \in confs : s.conf = c /\ s.name = NameOf(c)
    BY <1>3, <1>6
  <2>4. r.conf = c
    BY <2>2, <2>3, SameRow
  <2>5. \A q \in confs : q.conf = c => q = r
    BY <2>4, SameRow
  <2> QED BY <1>6, <2>2, <2>4, <2>5 DEF SyncInv, CleanErrorInv
<1> QED BY <1>1, <1>2, <1>4, <1>5, <1>6, CallServed

LEMMA PostServed ==
  ASSUME TypeOK, SyncInv, ServedInv, NEW c \in Calls, PostRun(c)
  PROVE  ServedInv'
<1>1. /\ UNCHANGED <<overlapping, stamp, files, confs, registered>> /\ pc[c] = "found"
      /\ \A d \in Calls : d # c => pc'[d] = pc[d] /\ ran'[d] = ran[d]
      /\ pc'[c] = IF NameOf(c) \in NamesIn(registered) THEN "returned" ELSE "no_run"
      /\ ran'[c] = {d.conf : d \in Named(registered, NameOf(c))}
  BY GotoFacts DEF PostRun, syncVars, TypeOK
<1>2. ASSUME Sequential(c)
      PROVE  pc'[c] = "returned" /\ ran'[c] \subseteq {c}
  <2>1. \A g \in registered : g.name = NameOf(c) <=> g.conf = c
    BY <1>1, <1>2, ServedIsOwn DEF Waiting
  <2>2. \E g \in registered : g.conf = c
    BY <1>1, <1>2 DEF ServedInv, FoundInv
  <2> QED BY <1>1, <2>1, <2>2 DEF NamesIn, Named
<1>3. Sequential(c) => pc'[c] \notin Waiting \cup Rejecting \cup Unserved /\ pc'[c] # "found"
  BY <1>2 DEF Waiting, Rejecting, Unserved
<1> QED BY <1>1, <1>2, <1>3, CallServed

(* Two calls of such a user share a second only if the first one was       *)
(* rejected, and what it was rejected for is malformed or left no file.    *)
LEMMA SaveServed ==
  ASSUME TypeOK, NameInv, ConfInv, TimeInv, SyncInv, ServedInv, NEW c \in Calls, Save(c)
  PROVE  ServedInv'
<1> DEFINE new == [name |-> DagName(Owner[c], clock), conf |-> c, error |-> FALSE]
<1>1. /\ pc[c] = "save" /\ pc'[c] = IF Taken(Owner[c], DagName(Owner[c], clock)) THEN "clash" ELSE "poll"
      /\ \A d \in Calls : d # c => pc'[d] = pc[d]
      /\ UNCHANGED <<overlapping, files, registered, ran>>
      /\ stamp[c] = 0 /\ stamp'[c] = clock /\ \A d \in Calls : d # c => stamp'[d] = stamp[d]
      /\ confs' = IF pc'[c] = "clash" THEN confs ELSE confs \cup {new}
  BY GotoFacts DEF Save, syncVars, NameInv, Unnamed, TypeOK
<1>2. new.conf = c
  OBVIOUS
<1> HIDE DEF new
<1>3. \A d : Sequential(d)' <=> Sequential(d)
  BY <1>1 DEF Sequential
<1>4. Sequential(c) => pc'[c] = "poll"
  <2> SUFFICES ASSUME Sequential(c) PROVE ~Taken(Owner[c], DagName(Owner[c], clock))
    BY <1>1
  <2>1. ConfsOf(Owner[c]) = {}
    BY <1>1 DEF ConfInv, CleanBeforeSave, Sequential
  <2> QED BY <2>1 DEF Taken, NamesIn
<1>5. \A g \in files \cup registered :
        g.conf \in Calls \ {c} /\ stamp[g.conf] # 0 /\ g.name = <<Owner[g.conf], stamp[g.conf]>>
  BY <1>1 DEF SyncInv, LoadInv, NameInv, NamedByCall, NameOf, DagName, TypeOK, File
<1>6. RowInv'
  <2> SUFFICES ASSUME NEW d \in Calls, Sequential(d), pc'[d] \in Waiting
               PROVE  \E r \in confs' : r.conf = d
    BY <1>3 DEF RowInv
  <2>1. CASE d = c
    BY <1>1, <1>2, <2>1 DEF Waiting
  <2>2. CASE d # c
    BY <1>1, <2>2 DEF ServedInv, RowInv
  <2> QED BY <2>1, <2>2
<1>7. OwnNameInv'
  <2> SUFFICES ASSUME NEW d \in Calls, Sequential(d), pc'[d] \in Waiting, NEW g \in files \cup registered,
                      g.name = NameOf(d)', g.conf # d, g.conf \notin Malformed
               PROVE  FALSE
    BY <1>1, <1>3 DEF OwnNameInv
  <2>1. CASE d # c
    <3>1. NameOf(d)' = NameOf(d)
      BY <1>1, <2>1 DEF NameOf
    <3> QED BY <1>1, <2>1, <3>1 DEF ServedInv, OwnNameInv
  <2>2. CASE d = c
    <3> DEFINE e == g.conf
    <3>1. e \in Calls \ {c} /\ Owner[e] = Owner[c] /\ stamp[e] = clock
      <4>1. g.name = <<Owner[c], clock>>
        BY <1>1, <2>2 DEF NameOf, DagName
      <4> QED BY <1>5, <4>1
    <3>2. Sequential(e) /\ pc[e] \notin Steps
      BY <1>1, <2>2, <3>1 DEF ConfInv, OneCall, Sequential, Steps
    <3>3. pc[e] # "idle" /\ pc[e] \notin Posted
      <4>1. stamp[e] # 0 /\ ~(stamp[e] < clock)
        BY <1>5, <3>1 DEF TypeOK
      <4> QED BY <3>1, <4>1 DEF NameInv, Unnamed, TimeInv
    <3>4. pc[e] \notin Unserved
      BY <3>1, <3>2 DEF ServedInv, AnswerInv
    <3>5. pc[e] = "malformed"
      BY <3>1, <3>2, <3>3, <3>4 DEF TypeOK, Answers, Posted, Unserved
    <3> QED BY <3>1, <3>2, <3>5 DEF ServedInv, RejectedInv, Rejecting
  <2> QED BY <2>1, <2>2
<1>8. FoundInv' /\ AnswerInv'
  <2>1. \A d \in Calls : Sequential(d) /\ pc'[d] = "found" => d # c /\ pc[d] = "found"
    BY <1>1
  <2>2. \A d \in Calls : Sequential(d) => pc'[d] \notin Unserved
    BY <1>1, <1>4 DEF ServedInv, AnswerInv, Unserved
  <2> QED BY <1>1, <1>3, <2>1, <2>2 DEF ServedInv, FoundInv, AnswerInv
<1>9. RejectedInv'
  <2>1. \A d \in Calls : pc'[d] \in Rejecting => d # c /\ pc[d] \in Rejecting
    BY <1>1 DEF Rejecting
  <2> QED BY <1>1, <1>2, <1>3, <2>1 DEF ServedInv, RejectedInv
<1> QED BY <1>6, <1>7, <1>8, <1>9 DEF ServedInv

(* gen_dags.py                                                             *)
LEMMA SyncConfigsServed ==
  ASSUME TypeOK, NameInv, ConfInv, ServedInv, SyncConfigs
  PROVE  ServedInv'
<1>1. UNCHANGED <<overlapping, pc, stamp, ran, confs, registered>>
  BY DEF SyncConfigs, callVars
<1>2. \A c : (Sequential(c)' <=> Sequential(c)) /\ NameOf(c)' = NameOf(c)
  BY <1>1 DEF Sequential, NameOf
<1>3. OwnNameInv'
  <2> SUFFICES ASSUME NEW c \in Calls, Sequential(c), pc[c] \in Waiting, NEW g \in files' \cup registered,
                      g.name = NameOf(c)
               PROVE  g.conf = c \/ g.conf \in Malformed
    BY <1>1, <1>2 DEF OwnNameInv
  <2>1. CASE g \in files \cup registered
    BY <2>1 DEF ServedInv, OwnNameInv
  <2>2. CASE g \notin files \cup registered
    <3>1. PICK r \in confs : g = [name |-> r.name, conf |-> r.conf]
      BY <2>2, SyncedFacts
    <3>2. PICK s \in confs : s.conf = c /\ s.name = NameOf(c)
      BY DEF ServedInv, RowInv, NameInv, NamedByCall
    <3>3. r = s
      BY <3>1, <3>2, SameRow
    <3> QED BY <3>1, <3>2, <3>3
  <2> QED BY <2>1, <2>2
<1>4. RejectedInv'
  <2> SUFFICES ASSUME NEW c \in Calls \ Malformed, Sequential(c), pc[c] \in Rejecting, NEW g \in files',
                      g \notin files
               PROVE  g.conf # c
    BY <1>1, <1>2 DEF ServedInv, RejectedInv
  <2>1. PICK r \in confs : g = [name |-> r.name, conf |-> r.conf] /\ ~r.error
    BY SyncedFacts
  <2> QED BY <2>1 DEF ServedInv, RejectedInv
<1>5. RowInv' /\ FoundInv' /\ AnswerInv'
  BY <1>1, <1>2 DEF ServedInv, RowInv, FoundInv, AnswerInv
<1> QED BY <1>3, <1>4, <1>5 DEF ServedInv

LEMMA LoadFileServed ==
  ASSUME TypeOK, ServedInv, NEW f \in files, LoadFile(f)
  PROVE  ServedInv'
<1>1. UNCHANGED <<overlapping, pc, stamp, ran, files, registered>>
  BY DEF LoadFile, callVars
<1>2. \A c : (Sequential(c)' <=> Sequential(c)) /\ NameOf(c)' = NameOf(c)
  BY <1>1 DEF Sequential, NameOf
<1>3. /\ \A r \in confs : \E q \in confs' : q.conf = r.conf
      /\ \A q \in confs' : \E r \in confs : q.conf = r.conf /\ (r.error => q.error)
  <2>1. CASE UNCHANGED confs
    BY <2>1
  <2>2. CASE Report(f.name)
    <3> DEFINE Marked(r) == [r EXCEPT !.error = @ \/ r.name = f.name]
    <3>1. confs' = {Marked(r) : r \in confs}
      BY <2>2 DEF Report
    <3>2. ASSUME NEW r \in confs
          PROVE  Marked(r).conf = r.conf /\ (r.error => Marked(r).error)
      <4>1. r \in [name: Names, conf: Calls, error: BOOLEAN]
        BY DEF TypeOK
      <4>2. Marked(r).conf = r.conf /\ Marked(r).error = (r.error \/ r.name = f.name)
        BY <4>1
      <4> QED BY <4>2
    <3> HIDE DEF Marked
    <3> QED BY <3>1, <3>2
  <2> QED BY <2>1, <2>2 DEF LoadFile
<1>4. RowInv' /\ RejectedInv'
  BY <1>1, <1>2, <1>3 DEF ServedInv, RowInv, RejectedInv
<1>5. OwnNameInv' /\ FoundInv' /\ AnswerInv'
  BY <1>1, <1>2 DEF ServedInv, OwnNameInv, FoundInv, AnswerInv
<1> QED BY <1>4, <1>5 DEF ServedInv

(* The file of a DAG that was found has been loaded again.                 *)
LEMMA EndSyncServed ==
  ASSUME TypeOK, SyncInv, ServedInv, EndSync
  PROVE  ServedInv'
<1>1. /\ UNCHANGED <<overlapping, pc, stamp, ran, files, confs>> /\ registered' = loaded
      /\ loaded \subseteq files /\ syncing /\ toLoad = {}
  BY DEF EndSync, callVars, TypeOK
<1>2. \A c : (Sequential(c)' <=> Sequential(c)) /\ NameOf(c)' = NameOf(c)
  BY <1>1 DEF Sequential, NameOf
<1>3. FoundInv'
  <2> SUFFICES ASSUME NEW c \in Calls, Sequential(c), pc[c] = "found"
               PROVE  \E g \in loaded : g.conf = c
    BY <1>1, <1>2 DEF FoundInv
  <2>1. PICK g \in registered : g.conf = c
    BY DEF ServedInv, FoundInv
  <2>2. PICK r \in confs : r.conf = c
    BY DEF ServedInv, RowInv, Waiting
  <2>3. c \notin Malformed
    BY <2>1 DEF SyncInv, LoadInv
  <2>4. ~r.error
    BY <2>1, <2>2, <2>3 DEF SyncInv, CleanErrorInv
  <2>5. g \in files
    BY <2>1, <2>2, <2>4 DEF SyncInv, KeepInv
  <2> QED BY <1>1, <2>1, <2>3, <2>5 DEF SyncInv, LoadInv
<1>4. OwnNameInv' /\ RejectedInv'
  BY <1>1, <1>2 DEF ServedInv, OwnNameInv, RejectedInv
<1>5. RowInv' /\ AnswerInv'
  BY <1>1, <1>2 DEF ServedInv, RowInv, AnswerInv
<1> QED BY <1>3, <1>4, <1>5 DEF ServedInv

LEMMA StepServed ==
  ASSUME TypeOK, NameInv, PrevInv, ConfInv, TimeInv, SyncInv, ServedInv, [Next]_vars
  PROVE  ServedInv'
<1>1. CASE Tick \/ UNCHANGED vars
  <2>1. UNCHANGED <<overlapping, pc, stamp, ran, files, confs, registered>>
    BY <1>1 DEF Tick, vars, callVars, syncVars
  <2> QED BY <2>1 DEF ServedInv, RowInv, OwnNameInv, FoundInv, RejectedInv, AnswerInv, Sequential, NameOf
<1> QED BY <1>1, SelectServed, DeleteServed, SaveServed, PollServed, PostServed, SyncConfigsServed,
           LoadFileServed, EndSyncServed DEF Next, RunDag, GenDags

LEMMA InitServed == Init => TimeInv /\ PrevInv /\ SyncInv /\ ServedInv
<1> SUFFICES ASSUME Init PROVE TimeInv /\ PrevInv /\ SyncInv /\ ServedInv
  OBVIOUS
<1>1. \A c \in Calls : pc[c] = "idle" /\ ran[c] = {}
  BY DEF Init
<1>2. TimeInv /\ PrevInv
  BY <1>1 DEF TimeInv, PrevInv, Posted
<1>3. SyncInv
  BY DEF Init, SyncInv, LoadInv, KeepInv, CleanErrorInv
<1>4. ServedInv
  BY <1>1 DEF ServedInv, RowInv, OwnNameInv, FoundInv, RejectedInv, AnswerInv, Waiting, Rejecting, Unserved
<1> QED BY <1>2, <1>3, <1>4

(* Whoever waits for an answer before the next call finds the DAG, or is   *)
(* told what is wrong with it, and the run that is posted executes his own *)
(* config, whatever gen_dags.py and Airflow do in between (dag_runner.py). *)
THEOREM SequentialServed == Spec => []SequentialCallsAreServed
<1>1. ServedInv => SequentialCallsAreServed
  BY DEF ServedInv, AnswerInv, SequentialCallsAreServed, Sequential, Unserved
<1>2. TypeOK /\ NameInv /\ BlameInv /\ ConfInv /\ TimeInv /\ PrevInv /\ SyncInv /\ ServedInv /\ [Next]_vars
        => (NameInv /\ BlameInv /\ ConfInv /\ TimeInv /\ PrevInv /\ SyncInv /\ ServedInv)'
  BY StepNames, StepConf, TimeStep, PrevStep, StepSync, StepServed
<1>3. Init => NameInv /\ BlameInv /\ ConfInv /\ TimeInv /\ PrevInv /\ SyncInv /\ ServedInv
  BY InitNames, InitConf, InitServed
<1> QED BY <1>1, <1>2, <1>3, TypeCorrect, PTL DEF Spec

-----------------------------------------------------------------------------
(***************************************************************************)
(* The tasks of such runs on a Ray cluster (ClusterTasks): a DAG run that  *)
(* nobody disturbs keeps its cluster, its address and its cache actor, and *)
(* a run that succeeded leaves nothing behind; for any number of runs,     *)
(* faults and outside calls.                                               *)
(***************************************************************************)

-----------------------------------------------------------------------------
(* Type correctness.  Numbers of clusters are given out in order.          *)

TaskSteps == {"look", "create", "wait", "ping", "publish", "read", "connect", "actor",
          "work", "delete", "retract"}
TaskLabels == {"idle", "succeeded"} \cup TaskSteps \cup Failures

ClusterTypeInv ==
  /\ task \in [Runs -> TaskLabels]
  /\ asks \in [Runs -> Int]
  /\ born \in Nat
  /\ cluster \in 0..born
  /\ seen \in [Runs -> 0..born] /\ made \in [Runs -> 0..born]
  /\ disturbed \subseteq Runs
  /\ address \in Runs \cup {None}
  /\ status \in {"unset", "starting", "ready"}
  /\ cache_actor \in Runs \cup {None}
  /\ faults \in Nat

(* What the two requests to Kubernetes leave of the types                  *)
LEMMA KubeType ==
  ASSUME ClusterTypeInv, NewCluster \/ NoCluster \/ UNCHANGED kubeVars
  PROVE  /\ born' \in Nat /\ cluster' \in 0..born' /\ 0..born \subseteq 0..born'
         /\ status' \in {"unset", "starting", "ready"}
         /\ cache_actor' \in Runs \cup {None}
BY DEF ClusterTypeInv, NewCluster, NoCluster, kubeVars

LEMMA TaskGotoType ==
  ASSUME ClusterTypeInv, NEW r \in Runs, NEW l \in TaskLabels, Proceed(r, l)
  PROVE  task' \in [Runs -> TaskLabels]
BY DEF ClusterTypeInv, Proceed

LEMMA FaultType ==
  ASSUME ClusterTypeInv, NEW rs \in SUBSET Runs, Quiet \/ Fault(rs)
  PROVE  disturbed' \subseteq Runs /\ faults' \in Nat /\ disturbed \subseteq disturbed'
BY DEF ClusterTypeInv, Quiet, Fault

(* The functions of the runs keep their types when more clusters are born. *)
LEMMA NumbersType ==
  ASSUME ClusterTypeInv, 0..born \subseteq 0..born', UNCHANGED <<seen, made>>
  PROVE  seen' \in [Runs -> 0..born'] /\ made' \in [Runs -> 0..born']
BY DEF ClusterTypeInv

LEMMA ActivesRuns == Actives \subseteq Runs
BY DEF Actives

USE DEF TaskLabels, TaskSteps, Failures

LEMMA StartType ==
  ASSUME ClusterTypeInv, NEW r \in Runs, Start(r)
  PROVE  ClusterTypeInv'
<1>1. task' \in [Runs -> TaskLabels]
  BY TaskGotoType DEF Start
<1>2. disturbed' \subseteq Runs
  BY ActivesRuns DEF Start, ClusterTypeInv
<1> QED BY <1>1, <1>2 DEF Start, ClusterTypeInv, kubeVars

LEMMA TaskStepType ==
  ASSUME ClusterTypeInv, NEW r \in Runs, TaskStep(r)
  PROVE  ClusterTypeInv'
<1>1. CASE FindCluster(r)
  <2>1. task' \in [Runs -> TaskLabels]
    BY <1>1, TaskGotoType DEF FindCluster
  <2>2. disturbed' \subseteq Runs /\ faults' \in Nat
    BY <1>1, FaultType DEF FindCluster
  <2>3. asks' \in [Runs -> Int]
    BY <1>1, ClusterTasksAssumption DEF FindCluster, ClusterTypeInv
  <2> QED BY <1>1, <2>1, <2>2, <2>3 DEF FindCluster, ClusterTypeInv, kubeVars
<1>2. CASE CreateCluster(r)
  <2>1. task' \in [Runs -> TaskLabels]
    BY <1>2, TaskGotoType DEF CreateCluster
  <2>2. disturbed' \subseteq Runs /\ faults' \in Nat
    BY <1>2, FaultType DEF CreateCluster
  <2>3. NewCluster \/ UNCHANGED kubeVars
    BY <1>2 DEF CreateCluster
  <2>4. /\ born' \in Nat /\ cluster' \in 0..born' /\ 0..born \subseteq 0..born'
        /\ status' \in {"unset", "starting", "ready"} /\ cache_actor' \in Runs \cup {None}
    BY <2>3, KubeType
  <2>5. made' \in [Runs -> 0..born'] /\ seen' \in [Runs -> 0..born']
    BY <1>2, <2>4 DEF CreateCluster, ClusterTypeInv
  <2> QED BY <1>2, <2>1, <2>2, <2>4, <2>5 DEF CreateCluster, ClusterTypeInv
<1>3. CASE AskStatus(r)
  <2>1. task' \in [Runs -> TaskLabels]
    BY <1>3, TaskGotoType DEF AskStatus
  <2>2. disturbed' \subseteq Runs /\ faults' \in Nat
    BY <1>3, FaultType DEF AskStatus
  <2>3. asks' \in [Runs -> Int]
    BY <1>3 DEF AskStatus, ClusterTypeInv
  <2> QED BY <1>3, <2>1, <2>2, <2>3 DEF AskStatus, ClusterTypeInv, kubeVars
<1>4. CASE Ping(r)
  <2>1. task' \in [Runs -> TaskLabels]
    BY <1>4, TaskGotoType DEF Ping
  <2>2. disturbed' \subseteq Runs /\ faults' \in Nat
    BY <1>4, FaultType DEF Ping
  <2> QED BY <1>4, <2>1, <2>2 DEF Ping, ClusterTypeInv, kubeVars
<1>5. CASE PublishAddress(r)
  <2>1. task' \in [Runs -> TaskLabels]
    BY <1>5, TaskGotoType DEF PublishAddress
  <2> QED BY <1>5, <2>1 DEF PublishAddress, ClusterTypeInv, kubeVars
<1>6. CASE ReadAddress(r)
  <2>1. task' \in [Runs -> TaskLabels]
    BY <1>6, TaskGotoType DEF ReadAddress
  <2> QED BY <1>6, <2>1 DEF ReadAddress, ClusterTypeInv, kubeVars
<1>7. CASE Connect(r)
  <2>1. task' \in [Runs -> TaskLabels]
    BY <1>7, TaskGotoType DEF Connect
  <2> QED BY <1>7, <2>1 DEF Connect, ClusterTypeInv
<1>8. CASE CreateActor(r)
  <2>1. task' \in [Runs -> TaskLabels]
    BY <1>8, TaskGotoType DEF CreateActor
  <2> QED BY <1>8, <2>1 DEF CreateActor, ClusterTypeInv
<1>9. CASE Featurize(r)
  <2>1. task' \in [Runs -> TaskLabels]
    BY <1>9, TaskGotoType DEF Featurize
  <2> QED BY <1>9, <2>1 DEF Featurize, ClusterTypeInv, kubeVars
<1>10. CASE DeleteCluster(r)
  <2>1. task' \in [Runs -> TaskLabels]
    BY <1>10, TaskGotoType DEF DeleteCluster
  <2>2. disturbed' \subseteq Runs /\ faults' \in Nat
    BY <1>10, FaultType DEF DeleteCluster
  <2>3. NoCluster \/ UNCHANGED kubeVars
    BY <1>10 DEF DeleteCluster
  <2>4. /\ born' \in Nat /\ cluster' \in 0..born' /\ 0..born \subseteq 0..born'
        /\ status' \in {"unset", "starting", "ready"} /\ cache_actor' \in Runs \cup {None}
    BY <2>3, KubeType
  <2>5. seen' \in [Runs -> 0..born'] /\ made' \in [Runs -> 0..born']
    BY <1>10, <2>4, NumbersType DEF DeleteCluster
  <2> QED BY <1>10, <2>1, <2>2, <2>4, <2>5 DEF DeleteCluster, ClusterTypeInv
<1>11. CASE DropAddress(r)
  <2>1. task' \in [Runs -> TaskLabels]
    BY <1>11, TaskGotoType DEF DropAddress
  <2> QED BY <1>11, <2>1 DEF DropAddress, ClusterTypeInv, kubeVars
<1> QED BY <1>1, <1>2, <1>3, <1>4, <1>5, <1>6, <1>7, <1>8, <1>9, <1>10, <1>11 DEF
   TaskStep

LEMMA OthersType ==
  ASSUME ClusterTypeInv, Operate \/ ClientCall \/ \E r \in Runs : KillTask(r)
  PROVE  ClusterTypeInv'
<1>1. CASE Operate
  <2>1. disturbed' \subseteq Runs /\ faults' \in Nat
    BY <1>1, ActivesRuns, FaultType DEF Operate
  <2> QED BY <1>1, <2>1 DEF Operate, ClusterTypeInv
<1>2. CASE ClientCall
  <2>1. disturbed' \subseteq Runs /\ faults' \in Nat
    BY <1>2, ActivesRuns, FaultType DEF ClientCall
  <2>2. NewCluster \/ NoCluster
    BY <1>2 DEF ClientCall
  <2>3. /\ born' \in Nat /\ cluster' \in 0..born' /\ 0..born \subseteq 0..born'
        /\ status' \in {"unset", "starting", "ready"} /\ cache_actor' \in Runs \cup {None}
    BY <2>2, KubeType
  <2>4. seen' \in [Runs -> 0..born'] /\ made' \in [Runs -> 0..born']
    BY <1>2, <2>3, NumbersType DEF ClientCall
  <2> QED BY <1>2, <2>1, <2>3, <2>4 DEF ClientCall, ClusterTypeInv
<1>3. ASSUME NEW r \in Runs, KillTask(r) PROVE ClusterTypeInv'
  <2>1. task' \in [Runs -> TaskLabels] /\ disturbed' \subseteq Runs /\ faults' \in Nat
    BY <1>3, TaskGotoType, FaultType DEF KillTask
  <2> QED BY <1>3, <2>1 DEF KillTask, ClusterTypeInv, kubeVars
<1> QED BY <1>1, <1>2, <1>3

LEMMA ClusterInitType == ClusterInit => ClusterTypeInv
BY DEF ClusterInit, ClusterTypeInv

LEMMA ClusterStepType == ClusterTypeInv /\ [ClusterNext]_clusterVars => ClusterTypeInv'
<1>1. ASSUME ClusterTypeInv, UNCHANGED clusterVars PROVE ClusterTypeInv'
  BY <1>1 DEF ClusterTypeInv, clusterVars, runVars, kubeVars
<1> QED BY <1>1, StartType, TaskStepType, OthersType DEF ClusterNext

(* The variables keep their types.                                         *)
THEOREM ClusterTypeCorrect == ClusterSpec => []ClusterTypeInv
BY ClusterInitType, ClusterStepType, PTL DEF ClusterSpec

-----------------------------------------------------------------------------
(* Runs that are active together are disturbed.  What a run that is not    *)
(* disturbed has found or made is still there.                             *)

OneActive ==
  \A r, s \in Runs : r # s /\ Active(r) /\ Active(s) => r \in disturbed

KeepsCluster(r) ==
  /\ task[r] \notin {"clash", "no_address", "job_lost", "not_deleted", "killed"}
  /\ task[r] = "create" => cluster = 0
  /\ task[r] \in {"publish", "read", "connect", "actor", "work", "delete"} =>
       cluster # 0 /\ status = "ready"
  /\ task[r] = "read" => address # None
  /\ task[r] \in {"actor", "work"} => seen[r] = cluster
  /\ task[r] = "actor" => cache_actor = None
  /\ task[r] = "work" => cache_actor = r

AloneInv == OneActive /\ \A r \in Runs \ disturbed : KeepsCluster(r)

(* A run that is not active has nothing to keep.                           *)
LEMMA InactiveKeeps ==
  ASSUME NEW r \in Runs, KeepsCluster(r), ~Active(r), task'[r] = task[r]
  PROVE  KeepsCluster(r)'
BY DEF KeepsCluster, Active, Ended

(* A step of a run leaves the other runs alone; if one of them is not      *)
(* disturbed it is not active.                                             *)
LEMMA OthersKeep ==
  ASSUME ClusterTypeInv, AloneInv, NEW r \in Runs, NEW l \in TaskLabels,
         Proceed(r, l), Active(r),
         disturbed \subseteq disturbed', r \notin disturbed' => KeepsCluster(r)'
  PROVE  AloneInv'
<1>1. \A s \in Runs \ {r} : task'[s] = task[s]
  BY DEF Proceed, ClusterTypeInv
<1>2. OneActive'
  <2> SUFFICES ASSUME NEW s \in Runs, NEW t \in Runs, s # t, Active(s)', Active(t)'
               PROVE  s \in disturbed'
    BY DEF OneActive
  <2>1. Active(s) /\ Active(t)
    BY <1>1 DEF Active, Ended
  <2> QED BY <2>1 DEF AloneInv, OneActive
<1>3. \A s \in Runs \ disturbed' : KeepsCluster(s)'
  <2> SUFFICES ASSUME NEW s \in Runs \ disturbed', s # r PROVE KeepsCluster(s)'
    OBVIOUS
  <2>1. ~Active(s)
    BY DEF AloneInv, OneActive
  <2> QED BY <2>1, <1>1, InactiveKeeps DEF AloneInv
<1> QED BY <1>2, <1>3 DEF AloneInv

LEMMA StartAlone ==
  ASSUME ClusterTypeInv, AloneInv, NEW r \in Runs, Start(r)
  PROVE  AloneInv'
<1>1. \A s \in Runs \ {r} : task'[s] = task[s]
  BY DEF Start, Proceed, ClusterTypeInv
<1>2. task'[r] = "look"
  BY DEF Start, Proceed, ClusterTypeInv
<1>3. \A s \in Runs \ {r} : Active(s)' <=> Active(s)
  BY <1>1 DEF Active, Ended
<1>4. OneActive'
  BY <1>3 DEF OneActive, Start, Actives, AloneInv
<1>5. \A s \in Runs \ disturbed' : KeepsCluster(s)'
  BY <1>1, <1>2 DEF AloneInv, KeepsCluster, Start, kubeVars
<1> QED BY <1>4, <1>5 DEF AloneInv

LEMMA TaskStepAlone ==
  ASSUME ClusterTypeInv, AloneInv, NEW r \in Runs, TaskStep(r)
  PROVE  AloneInv'
<1>1. r \notin disturbed => KeepsCluster(r)
  BY DEF AloneInv
<1>2. CASE FindCluster(r)
  BY <1>1, <1>2, OthersKeep DEF FindCluster, Proceed, Fault, Quiet,
     Active, Ended, KeepsCluster, ClusterTypeInv, kubeVars
<1>3. CASE CreateCluster(r)
  BY <1>1, <1>3, OthersKeep DEF CreateCluster, Proceed, Fault,
     Quiet, Active, Ended, KeepsCluster, ClusterTypeInv, kubeVars
<1>4. CASE AskStatus(r)
  BY <1>1, <1>4, OthersKeep DEF AskStatus, Proceed, Fault, Quiet,
     Active, Ended, KeepsCluster, ClusterTypeInv, kubeVars
<1>5. CASE Ping(r)
  BY <1>1, <1>5, OthersKeep DEF Ping, Proceed, Fault, Quiet,
     Active, Ended, KeepsCluster, ClusterTypeInv, kubeVars
<1>6. CASE PublishAddress(r)
  BY <1>1, <1>6, OthersKeep, ClusterTasksAssumption
     DEF PublishAddress, Proceed, Active, Ended,
         KeepsCluster, ClusterTypeInv, kubeVars
<1>7. CASE ReadAddress(r)
  BY <1>1, <1>7, OthersKeep DEF ReadAddress, Proceed, Active,
     Ended, KeepsCluster, ClusterTypeInv, kubeVars
<1>8. CASE Connect(r)
  BY <1>1, <1>8, OthersKeep DEF Connect, Proceed, Active, Ended,
     KeepsCluster, ClusterTypeInv
<1>9. CASE CreateActor(r)
  BY <1>1, <1>9, OthersKeep DEF CreateActor, OnItsCluster, Proceed,
     Active, Ended, KeepsCluster, ClusterTypeInv
<1>10. CASE Featurize(r)
  BY <1>1, <1>10, OthersKeep
     DEF Featurize, OnItsCluster, Proceed, Active, Ended,
         KeepsCluster, ClusterTypeInv, kubeVars
<1>11. CASE DeleteCluster(r)
  BY <1>1, <1>11, OthersKeep DEF DeleteCluster, Proceed, Fault,
     Quiet, Active, Ended, KeepsCluster, ClusterTypeInv, kubeVars
<1>12. CASE DropAddress(r)
  BY <1>1, <1>12, OthersKeep DEF DropAddress, Proceed, Active,
     Ended, KeepsCluster, ClusterTypeInv, kubeVars
<1> QED BY <1>2, <1>3, <1>4, <1>5, <1>6, <1>7, <1>8, <1>9, <1>10, <1>11, <1>12 DEF
   TaskStep

(* Whoever is active while others act is disturbed from then on.           *)
LEMMA OthersAlone ==
  ASSUME ClusterTypeInv, AloneInv,
         Operate \/ ClientCall \/ \E r \in Runs : KillTask(r)
  PROVE  AloneInv'
<1>1. CASE (Operate \/ ClientCall) /\ Actives \subseteq disturbed'
  <2>1. task' = task /\ disturbed \subseteq disturbed'
    BY <1>1 DEF Operate, ClientCall, Fault, Quiet
  <2>2. \A s \in Runs \ disturbed' : KeepsCluster(s) /\ ~Active(s)
    BY <1>1, <2>1 DEF AloneInv, Actives
  <2>3. OneActive'
    BY <2>1 DEF AloneInv, OneActive, Active, Ended
  <2> QED BY <2>1, <2>2, <2>3, InactiveKeeps DEF AloneInv
<1>2. CASE Operate /\ Quiet
  <2>1. UNCHANGED <<task, seen, address, cluster, cache_actor, disturbed>>
    BY <1>2 DEF Operate, Quiet, Fault, ClusterTypeInv
  <2>2. status # "ready" \/ status' = "ready"
    BY <1>2 DEF Operate, Quiet, Fault, ClusterTypeInv
  <2> QED BY <2>1, <2>2 DEF AloneInv, OneActive, KeepsCluster, Active, Ended
<1>3. ASSUME NEW r \in Runs, KillTask(r) PROVE AloneInv'
  <2>1. r \in disturbed'
    BY <1>3 DEF KillTask, Fault
  <2> QED BY <1>3, <2>1, OthersKeep DEF KillTask, Fault
<1> QED BY <1>1, <1>2, <1>3 DEF Operate, ClientCall, Fault

LEMMA InitAlone == ClusterInit => AloneInv
BY DEF ClusterInit, AloneInv, OneActive, KeepsCluster, Active, Ended

LEMMA StepAlone == ClusterTypeInv /\ AloneInv /\ [ClusterNext]_clusterVars => AloneInv'
<1>1. ASSUME AloneInv, UNCHANGED clusterVars PROVE AloneInv'
  BY <1>1 DEF AloneInv, OneActive, KeepsCluster, Active, Ended, clusterVars,
     runVars, kubeVars
<1> QED BY <1>1, StartAlone, TaskStepAlone, OthersAlone DEF ClusterNext

(* Nothing is amiss for a run that nobody disturbs, whatever runs before   *)
(* it left.                                                                *)
THEOREM UndisturbedRuns == ClusterSpec => []UndisturbedRunsKeepTheirCluster
<1>1. AloneInv => UndisturbedRunsKeepTheirCluster
  BY DEF AloneInv, KeepsCluster, UndisturbedRunsKeepTheirCluster
<1> QED BY <1>1, InitAlone, StepAlone, ClusterTypeCorrect, PTL DEF ClusterSpec

-----------------------------------------------------------------------------
(* A run that has deleted the cluster has not left one of its own, nor     *)
(* will there be one of that number again; its address goes last.          *)

LeftNothing(r) ==
  /\ task[r] = "succeeded" => address # r
  /\ task[r] \in {"retract", "succeeded"} => made[r] = 0 \/ cluster # made[r]

LeftInv == \A r \in Runs \ Keeps : LeftNothing(r)

(* Clusters that come later have other numbers.                            *)
LEMMA LeftStays ==
  ASSUME ClusterTypeInv, NEW r \in Runs, LeftNothing(r),
         task'[r] = task[r], made'[r] = made[r],
         address' \in {address, None} \/ \E s \in Runs \ {r} : address' = s,
         cluster' \in {0, cluster, born + 1}
  PROVE  LeftNothing(r)'
BY ClusterTasksAssumption DEF ClusterTypeInv, LeftNothing

(* The step of a run leaves the others' as it was.                         *)
LEMMA StepLeft == ClusterTypeInv /\ LeftInv /\ [ClusterNext]_clusterVars => LeftInv'
<1> SUFFICES ASSUME ClusterTypeInv, LeftInv, [ClusterNext]_clusterVars, NEW r \in Runs \
   Keeps
             PROVE  LeftNothing(r)'
  BY DEF LeftInv
<1>1. LeftNothing(r)
  BY DEF LeftInv
<1>2. cluster' \in {0, cluster, born + 1}
  BY DEF ClusterNext, clusterVars, runVars, kubeVars, Start,
     TaskStep, FindCluster, CreateCluster, AskStatus, Ping,
     PublishAddress,
     ReadAddress, Connect, CreateActor, Featurize,
     DeleteCluster, DropAddress, KillTask,
     Operate, ClientCall, NewCluster, NoCluster
<1>3. CASE UNCHANGED <<task, made, address>>
  BY <1>1, <1>2, <1>3, LeftStays
<1>4. ASSUME NEW s \in Runs, s # r, Start(s) \/ TaskStep(s) \/
   KillTask(s)
      PROVE  LeftNothing(r)'
  <2>1. task'[r] = task[r] /\ made'[r] = made[r]
    BY <1>4 DEF ClusterTypeInv, Start, TaskStep, KillTask, Proceed,
       FindCluster, CreateCluster, AskStatus, Ping,
       PublishAddress, ReadAddress, Connect, CreateActor,
       Featurize, DeleteCluster, DropAddress
  <2>2. address' \in {address, None} \/ address' = s
    BY <1>4 DEF Start, TaskStep, KillTask, FindCluster,
       CreateCluster, AskStatus, Ping,
       PublishAddress, ReadAddress, Connect, CreateActor,
       Featurize, DeleteCluster, DropAddress
  <2> QED BY <1>1, <1>2, <1>4, <2>1, <2>2, LeftStays
<1>5. CASE DeleteCluster(r)
  BY <1>5 DEF DeleteCluster, NoCluster, Proceed, ClusterTypeInv,
     LeftNothing
<1>6. CASE DropAddress(r)
  BY <1>1, <1>6, ClusterTasksAssumption DEF DropAddress, Proceed, ClusterTypeInv,
     LeftNothing, kubeVars
<1>7. CASE Start(r) \/ KillTask(r) \/ (TaskStep(r) /\
   ~DeleteCluster(r) /\ ~DropAddress(r))
  <2>1. task'[r] \notin {"retract", "succeeded"}
    BY <1>7 DEF ClusterTypeInv, Start, TaskStep, KillTask, Proceed,
       FindCluster, CreateCluster, AskStatus, Ping,
       PublishAddress, ReadAddress, Connect, CreateActor,
       Featurize
  <2> QED BY <2>1 DEF LeftNothing
<1> QED BY <1>3, <1>4, <1>5, <1>6, <1>7 DEF ClusterNext, clusterVars, runVars,
   Operate, ClientCall

(* A run that succeeded, and was to delete its cluster, has left neither   *)
(* its cluster nor its address.                                            *)
THEOREM NothingLeft == ClusterSpec => []SucceededLeavesNothing
<1>1. ClusterInit => LeftInv
  BY DEF ClusterInit, LeftInv, LeftNothing
<1>2. LeftInv => SucceededLeavesNothing
  BY DEF LeftInv, LeftNothing, SucceededLeavesNothing
<1> QED BY <1>1, <1>2, StepLeft, ClusterTypeCorrect, PTL DEF ClusterSpec
=============================================================================
