------------------------------ MODULE UserDags ------------------------------
(***************************************************************************)
(* How a user's DAG gets into Airflow: DagRunner.run_dag (called by a      *)
(* handler of the API server, one thread per request), the table           *)
(* dag_configs, and gen_dags.py, which Airflow evaluates again and again:  *)
(* it brings the folder of yaml files in line with the table, loads every  *)
(* file and writes compilation errors back.  Airflow's own record of DAGs  *)
(* is external.                                                            *)
(*                                                                         *)
(* A configuration is named by the call that brought it.  Time is counted  *)
(* in whole seconds: the name of a DAG is made of its owner and the second *)
(* in which run_dag built it.                                              *)
(***************************************************************************)
EXTENDS Naturals, FiniteSets

CONSTANTS
  Calls,      \* the calls of run_dag, each with a config of its own
  Owner,      \* the user_id of each call
  Malformed   \* the calls whose config dagfactory cannot build

Users == {Owner[c] : c \in Calls}

ASSUME UserDagsAssumption ==
  /\ DOMAIN Owner = Calls
  /\ Malformed \subseteq Calls

VARIABLES
  overlapping,\* the users who make a call before their last one is answered
  (* run_dag, for each call *)
  pc,         \* where it is, or how it was answered
  prev,       \* the DAG that it deletes in Airflow
  stamp,      \* now_ts of its DAG's name; 0 before it has one
  sleeping,   \* the calls whose sleep(1) began in the current second
  ran,        \* history: the config that the run it posted executes
  clock,      \* the current second; those in which no DAG is named do not count
  confs,      \* the rows of dag_configs
  (* gen_dags.py *)
  files,      \* the yaml files of the DAGs folder
  syncing,    \* it is being evaluated
  toLoad,     \* the files it has yet to load
  loaded,     \* the DAGs it has built
  registered  \* the DAGs that Airflow serves

callVars == <<overlapping, pc, prev, stamp, sleeping, ran>>
syncVars == <<files, syncing, toLoad, loaded>>
vars == <<callVars, clock, confs, syncVars, registered>>

Steps == {"select", "drop_dag", "drop_confs", "save", "poll", "asleep", "found",
          "retract_dag", "retract_confs"}

(* "returned": the run is posted; "too_many": RuntimeError, more than one  *)
(* conf stored; "clash": the key is taken; "no_row": the row is gone when  *)
(* its error is read; "malformed": ValueError with the remote trace;       *)
(* "timed_out": ValueError after the wait; "no_run": the post is refused.  *)
Answers == {"returned", "too_many", "clash", "no_row", "malformed", "timed_out", "no_run"}

Answered(c) == pc[c] \in Answers
Goto(c, l) == pc' = [pc EXCEPT ![c] = l]

(* dag-<owner>-<second> *)
DagName(u, t) == <<u, t>>
NameOf(c) == DagName(Owner[c], stamp[c])

NamesIn(S) == {x.name : x \in S}
Named(S, n) == {x \in S : x.name = n}
ConfsOf(u) == {r \in confs : Owner[r.conf] = u}

NoName == <<>>
Names == Users \X (0..clock)
File == [name: Names, conf: Calls]

TypeOK ==
  /\ overlapping \subseteq Users
  /\ pc \in [Calls -> {"idle"} \cup Steps \cup Answers]
  /\ prev \in [Calls -> Names \cup {NoName}]
  /\ clock \in Nat \ {0}
  /\ stamp \in [Calls -> 0..clock] /\ sleeping \subseteq Calls
  /\ ran \in [Calls -> SUBSET Calls]
  /\ confs \subseteq [name: Names, conf: Calls, error: BOOLEAN]
  /\ \A r, s \in confs : r.name = s.name /\ Owner[r.conf] = Owner[s.conf] => r = s
  /\ files \subseteq File /\ toLoad \subseteq files /\ loaded \subseteq files
  /\ syncing \in BOOLEAN
  /\ registered \subseteq File

Init ==
  /\ overlapping \in SUBSET {Owner[c] : c \in {c \in Calls : \E d \in Calls \ {c} : Owner[c] = Owner[d]}}
  /\ pc = [c \in Calls |-> "idle"]
  /\ prev = [c \in Calls |-> NoName]
  /\ stamp = [c \in Calls |-> 0]
  /\ sleeping = {}
  /\ ran = [c \in Calls |-> {}]
  /\ clock = 1
  /\ confs = {} /\ files = {} /\ toLoad = {} /\ loaded = {} /\ registered = {}
  /\ syncing = FALSE

-----------------------------------------------------------------------------
(* run_dag *)

(* A request arrives; most users have no other one under way. *)
Submit(c) ==
  /\ pc[c] = "idle"
  /\ Owner[c] \notin overlapping =>
       \A d \in Calls : Owner[d] = Owner[c] => pc[d] \notin Steps
  /\ Goto(c, "select")
  /\ UNCHANGED <<overlapping, prev, stamp, sleeping, ran, clock, confs, syncVars, registered>>

(* The user's configs are selected: more than one is an error, one is the *)
(* previous DAG, to be deleted.                                           *)
SelectNone(c) ==
  /\ pc[c] = "select" /\ ConfsOf(Owner[c]) = {}
  /\ Goto(c, "save")
  /\ UNCHANGED <<overlapping, prev, stamp, sleeping, ran, clock, confs, syncVars, registered>>

SelectOne(c) ==
  /\ pc[c] = "select"
  /\ \E r \in ConfsOf(Owner[c]) :
       /\ ConfsOf(Owner[c]) = {r}
       /\ prev' = [prev EXCEPT ![c] = r.name]
  /\ Goto(c, "drop_dag")
  /\ UNCHANGED <<overlapping, stamp, sleeping, ran, clock, confs, syncVars, registered>>

SelectMany(c) ==
  /\ pc[c] = "select" /\ Cardinality(ConfsOf(Owner[c])) > 1
  /\ Goto(c, "too_many")
  /\ UNCHANGED <<overlapping, prev, stamp, sleeping, ran, clock, confs, syncVars, registered>>

(* Mutant: the configs are left alone if Airflow does not delete the DAG. *)
DeleteDagMutant(c) ==
  /\ \/ /\ pc[c] = "drop_dag"
        /\ \/ registered' = registered /\ Goto(c, "save")
           \/ registered' = registered \ Named(registered, prev[c]) /\ Goto(c, "drop_confs")
     \/ /\ pc[c] = "retract_dag" /\ Goto(c, "retract_confs")
        /\ registered' = registered \ Named(registered, prev[c])
  /\ prev' = [prev EXCEPT ![c] = NoName]
  /\ UNCHANGED <<overlapping, stamp, sleeping, ran, clock, confs, syncVars>>

(* _delete_dag_config_and_metadata: Airflow deletes the DAG, or refuses to, *)
(* which is ignored; then all the configs of the user are deleted.          *)
DeleteDag(c) ==
  /\ \/ pc[c] = "drop_dag" /\ Goto(c, "drop_confs")
     \/ pc[c] = "retract_dag" /\ Goto(c, "retract_confs")
  /\ registered' \in {registered, registered \ Named(registered, prev[c])}
  /\ prev' = [prev EXCEPT ![c] = NoName]
  /\ UNCHANGED <<overlapping, stamp, sleeping, ran, clock, confs, syncVars>>

(* Mutant: only configs with an error are deleted. *)
DeleteConfigsMutant(c) ==
  /\ \/ pc[c] = "drop_confs" /\ Goto(c, "save")
     \/ pc[c] = "retract_confs" /\ Goto(c, "malformed")
  /\ confs' = confs \ {r \in ConfsOf(Owner[c]) : r.error}
  /\ UNCHANGED <<overlapping, prev, stamp, sleeping, ran, clock, syncVars, registered>>

DeleteConfigs(c) ==
  /\ \/ pc[c] = "drop_confs" /\ Goto(c, "save")
     \/ pc[c] = "retract_confs" /\ Goto(c, "malformed")
  /\ confs' = confs \ ConfsOf(Owner[c])
  /\ UNCHANGED <<overlapping, prev, stamp, sleeping, ran, clock, syncVars, registered>>

(* The table has a row with the key (owner_id, dag_name). *)
Taken(u, name) == name \in NamesIn(ConfsOf(u))

(* The name is built from the current second and the config is stored,  *)
(* unless the key is taken.                                             *)
Save(c) ==
  /\ pc[c] = "save"
  /\ stamp' = [stamp EXCEPT ![c] = clock]
  /\ LET name == DagName(Owner[c], clock) IN
       IF Taken(Owner[c], name)
       THEN Goto(c, "clash") /\ UNCHANGED confs
       ELSE /\ confs' = confs \cup {[name |-> name, conf |-> c, error |-> FALSE]}
            /\ Goto(c, "poll")
  /\ UNCHANGED <<overlapping, prev, sleeping, ran, clock, syncVars, registered>>

Sleep(c, l) ==
  /\ Goto(c, l)
  /\ sleeping' = sleeping \cup {c}

(* get_dag finds the DAG; the round still ends with a sleep. *)
PollFinds(c) ==
  /\ pc[c] = "poll"
  /\ NameOf(c) \in NamesIn(registered)
  /\ Sleep(c, "found")
  /\ UNCHANGED <<overlapping, prev, stamp, ran, clock, confs, syncVars, registered>>

(* get_dag raises, for there is no such DAG or the request fails, and the *)
(* row of that name is read for a compilation error: it is gone, ...      *)
PollNoRow(c) ==
  /\ pc[c] = "poll"
  /\ NameOf(c) \notin NamesIn(confs)
  /\ Goto(c, "no_row")
  /\ UNCHANGED <<overlapping, prev, stamp, sleeping, ran, clock, confs, syncVars, registered>>

(* ... or it has one, and the DAG is deleted, ... *)
PollError(c) ==
  /\ pc[c] = "poll"
  /\ \E r \in Named(confs, NameOf(c)) : r.error
  /\ prev' = [prev EXCEPT ![c] = NameOf(c)]
  /\ Goto(c, "retract_dag")
  /\ UNCHANGED <<overlapping, stamp, sleeping, ran, clock, confs, syncVars, registered>>

(* ... or it has none, and the call sleeps. *)
PollMisses(c) ==
  /\ pc[c] = "poll"
  /\ \E r \in Named(confs, NameOf(c)) : ~r.error
  /\ Sleep(c, "asleep")
  /\ UNCHANGED <<overlapping, prev, stamp, ran, clock, confs, syncVars, registered>>

(* After the sleep: another round, or the 30 seconds have passed. *)
PollAgain(c) ==
  /\ pc[c] = "asleep" /\ c \notin sleeping
  /\ Goto(c, "poll")
  /\ UNCHANGED <<overlapping, prev, stamp, sleeping, ran, clock, confs, syncVars, registered>>

TimeOut(c) ==
  /\ pc[c] = "asleep" /\ c \notin sleeping
  /\ Goto(c, "timed_out")
  /\ UNCHANGED <<overlapping, prev, stamp, sleeping, ran, clock, confs, syncVars, registered>>

(* post_dag_run: Airflow runs what it has registered under the name now. *)
PostRun(c) ==
  /\ pc[c] = "found" /\ c \notin sleeping
  /\ ran' = [ran EXCEPT ![c] = {d.conf : d \in Named(registered, NameOf(c))}]
  /\ Goto(c, IF NameOf(c) \in NamesIn(registered) THEN "returned" ELSE "no_run")
  /\ UNCHANGED <<overlapping, prev, stamp, sleeping, clock, confs, syncVars, registered>>

RunDag(c) ==
  \/ SelectNone(c) \/ SelectOne(c) \/ SelectMany(c) \/ DeleteDag(c) \/ DeleteConfigs(c)
  \/ Save(c) \/ PollFinds(c) \/ PollNoRow(c) \/ PollError(c) \/ PollMisses(c)
  \/ PollAgain(c) \/ TimeOut(c) \/ PostRun(c)

(* A second passes: it is counted if a DAG has its name from it. *)
Used(t) == \E c \in Calls : stamp[c] = t

Tick ==
  /\ sleeping # {} \/ Used(clock)
  /\ sleeping' = {}
  /\ clock' = IF Used(clock) THEN clock + 1 ELSE clock
  /\ UNCHANGED <<overlapping, pc, prev, stamp, ran, confs, syncVars, registered>>

-----------------------------------------------------------------------------
(* gen_dags.py *)

(* Mutant: files are only ever added. *)
SyncedMutant(good) ==
  files \cup
  {[name |-> r.name, conf |-> r.conf] : r \in {s \in good : s.name \notin NamesIn(files)}}

(* diff compares names: a file is written for a config that has none and  *)
(* deleted when no config has its name.                                   *)
Synced(good) ==
  {f \in files : f.name \in NamesIn(good)} \cup
  {[name |-> r.name, conf |-> r.conf] : r \in {s \in good : s.name \notin NamesIn(files)}}

(* The configs without an error are selected and the folder, which nobody *)
(* else writes to, is brought in line with them.                          *)
SyncConfigs ==
  /\ ~syncing
  /\ syncing' = TRUE
  /\ files' = Synced({r \in confs : ~r.error})
  /\ toLoad' = files' /\ loaded' = {}
  /\ UNCHANGED <<callVars, clock, confs, registered>>

(* Mutant: the error goes to every row. *)
ReportMutant(n) == confs' = {[r EXCEPT !.error = TRUE] : r \in confs}

(* The first row of the name gets the error; without one, the failure to *)
(* report is ignored.                                                    *)
Report(n) == confs' = {[r EXCEPT !.error = @ \/ r.name = n] : r \in confs}

LoadFile(f) ==
  /\ f \in toLoad
  /\ toLoad' = toLoad \ {f}
  /\ IF f.conf \in Malformed
     THEN Report(f.name) /\ UNCHANGED loaded
     ELSE loaded' = loaded \cup {f} /\ UNCHANGED confs
  /\ UNCHANGED <<callVars, clock, files, syncing, registered>>

(* Airflow takes the DAGs that the evaluation defined; others go stale. *)
EndSync ==
  /\ syncing /\ toLoad = {}
  /\ syncing' = FALSE
  /\ registered' = loaded /\ loaded' = {}
  /\ UNCHANGED <<callVars, clock, confs, files, toLoad>>

GenDags == SyncConfigs \/ (\E f \in files : LoadFile(f)) \/ EndSync

Next == (\E c \in Calls : Submit(c) \/ RunDag(c)) \/ Tick \/ GenDags

(* Requests are served as long as there is one; none waits for ever, since *)
(* every round of the wait takes a second of the 30; time passes, and      *)
(* Airflow evaluates gen_dags.py over and over.  Nobody has to make a      *)
(* request.                                                                *)
Spec ==
  /\ Init /\ [][Next]_vars
  /\ WF_vars(\E c \in Calls : RunDag(c))
  /\ SF_vars(\E c \in Calls : TimeOut(c))
  /\ WF_vars(Tick)
  /\ WF_vars(GenDags)

-----------------------------------------------------------------------------
(* Properties *)

(* Two calls of a user that built their names in one second. *)
SameSecond(c, d) ==
  c # d /\ Owner[c] = Owner[d] /\ stamp[c] = stamp[d] /\ stamp[c] # 0
Alone(c) == \A d \in Calls : ~SameSecond(c, d)

(* What run_dag asserts (dag_runner.py:68) holds for a user whose calls do *)
(* not overlap: there is at most one config stored, whatever became of the *)
(* earlier calls.                                                          *)
OneConfPerUser == \A u \in Users \ overlapping : Cardinality(ConfsOf(u)) <= 1

(* Such a user never meets the other ends of run_dag, the ones that another *)
(* call or Airflow bring about (the key is taken, the row is gone, the DAG  *)
(* that was found is gone when the run is posted), and a run executes the   *)
(* config it was posted for, although files are not rewritten: a name is    *)
(* used twice only after a rejection, which takes no second.                *)
SequentialCallsAreServed ==
  \A c \in Calls : Owner[c] \notin overlapping =>
    /\ pc[c] \notin {"too_many", "clash", "no_row", "no_run"}
    /\ ran[c] \subseteq {c}

(* A user is told that the DAG is malformed only if it is, and no   *)
(* other DAG of the user has its name.                                      *)
OnlyMalformedRejected ==
  \A c \in Calls : pc[c] \in {"retract_dag", "retract_confs", "malformed"} /\ Alone(c)
                     => c \in Malformed

(* In the end, every request that was made is answered, the folder holds   *)
(* the files of the stored configs without an error and no others, and     *)
(* Airflow serves each stored config or the table has its error, as it     *)
(* deserves: also that of a call that gave up.                             *)
Judged(r) ==
  IF r.conf \in Malformed THEN r.error
  ELSE ~r.error /\ [name |-> r.name, conf |-> r.conf] \in registered

Settled ==
  /\ \A c \in Calls : pc[c] = "idle" \/ Answered(c)
  /\ NamesIn(files) = NamesIn({r \in confs : ~r.error})
  /\ \A r \in confs : Alone(r.conf) => Judged(r)

EverythingSettles == <>[]Settled
=============================================================================
