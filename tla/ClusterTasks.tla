---------------------------- MODULE ClusterTasks ----------------------------
(***************************************************************************)
(* The tasks of a user's DAG runs that share one Ray cluster by its name:  *)
(* a run creates it or connects to it and stores its address in an Airflow *)
(* variable, featurizes on it, and deletes both, one task after the other; *)
(* a task that fails ends the run.  run_dag does not stop the run of the   *)
(* DAG that it replaces, so the runs of one user may overlap.  The cluster *)
(* and its status belong to Kubernetes and the KubeRay operator, which are *)
(* external, as is Airflow's order of the tasks.                           *)
(***************************************************************************)
EXTENDS Naturals

CONSTANTS
  Runs,        \* the DAG runs
  WithConfig,  \* those that bring a cluster_config, and not only its name
  Keeps,       \* those whose DAG has no task that deletes the cluster
  MaxAsks,     \* how often a status is asked for: the timeout over the delay
  MaxFaults,   \* bound of the model: failing requests and tasks, outside calls
  None

ASSUME ClusterTasksAssumption ==
  /\ WithConfig \subseteq Runs /\ Keeps \subseteq Runs /\ None \notin Runs
  /\ MaxAsks \in Nat \ {0} /\ MaxFaults \in Nat

VARIABLES
  task,        \* where the tasks of a run are, or how the run ended
  asks,        \* how often it may still ask for the status
  seen,        \* the cluster that its featurizer is connected to
  made,        \* history: the cluster that it created
  disturbed,   \* history: the runs during which somebody else acted or a call failed
  (* Airflow *)
  address,     \* the variable: None, or the run that set it
  (* Kubernetes *)
  cluster,     \* the cluster of the name, by its number; 0 if there is none
  status,      \* "unset", "starting" or "ready"
  born,        \* how many clusters there have been
  cache_actor, \* on the cluster, the run that created its detached CacheActor
  faults

runVars  == <<task, asks, seen, made, disturbed>>
kubeVars == <<cluster, status, born, cache_actor>>
clusterVars == <<runVars, address, kubeVars, faults>>

Failures == {"no_cluster", "clash", "timed_out", "not_ready", "no_address", "job_lost",
             "not_deleted", "killed"}
Ended(r)  == task[r] \in {"succeeded"} \cup Failures
Active(r) == task[r] # "idle" /\ ~Ended(r)
Actives   == {r \in Runs : Active(r)}

ClusterInit ==
  /\ task = [r \in Runs |-> "idle"] /\ asks = [r \in Runs |-> 0]
  /\ seen = [r \in Runs |-> 0] /\ made = [r \in Runs |-> 0]
  /\ disturbed = {} /\ address = None
  /\ cluster = 0 /\ status = "unset" /\ born = 0 /\ cache_actor = None
  /\ faults = 0

Proceed(r, l) == task' = [task EXCEPT ![r] = l]

(* Something fails, or somebody else acts, while these runs are active.    *)
Fault(rs) ==
  /\ faults < MaxFaults /\ faults' = faults + 1
  /\ disturbed' = disturbed \cup rs

Quiet == UNCHANGED <<disturbed, faults>>

(* What Kubernetes makes of the two requests                               *)
NewCluster ==
  /\ cluster' = born + 1 /\ born' = born + 1
  /\ status' = "unset" /\ cache_actor' = None
NoCluster ==
  /\ cluster' = 0 /\ status' = "unset" /\ cache_actor' = None
  /\ UNCHANGED born

-----------------------------------------------------------------------------
(* The task that creates: RayHook.connect_or_create_cluster *)

Start(r) ==
  /\ task[r] = "idle"
  /\ Proceed(r, "look")
  /\ disturbed' = IF Actives = {} THEN disturbed ELSE disturbed \cup Actives \cup {r}
  /\ UNCHANGED <<asks, seen, made, address, kubeVars, faults>>

(* get_ray_cluster; a request that fails counts as "there is none".        *)
FindCluster(r) ==
  /\ task[r] = "look"
  /\ \E found \in BOOLEAN :
       /\ \/ found = (cluster # 0) /\ Quiet
          \/ ~found /\ cluster # 0 /\ Fault({r})
       /\ \/ found /\ Proceed(r, "wait")
          \/ ~found /\ r \in WithConfig /\ Proceed(r, "create")
          \/ ~found /\ r \notin WithConfig /\ Proceed(r, "no_cluster")
  /\ asks' = [asks EXCEPT ![r] = MaxAsks]
  /\ UNCHANGED <<seen, made, address, kubeVars>>

(* create_ray_cluster: a cluster of that name is a conflict.  A request    *)
(* that fails may have had its effect.                                     *)
CreateCluster(r) ==
  /\ task[r] = "create"
  /\ \/ /\ cluster = 0 /\ NewCluster
        /\ made' = [made EXCEPT ![r] = born']
        /\ \/ Proceed(r, "wait") /\ Quiet
           \/ Proceed(r, "clash") /\ Fault({r})
     \/ /\ Proceed(r, "clash")
        /\ \/ cluster # 0 /\ Quiet
           \/ Fault({r})
        /\ UNCHANGED <<made, kubeVars>>
  /\ UNCHANGED <<asks, seen, address>>

(* get_ray_cluster_status: it is asked again only as long as it is unset,  *)
(* and not when a request fails.                                           *)
AskStatus(r) ==
  /\ task[r] = "wait"
  /\ \/ /\ cluster # 0 /\ status = "unset"
        /\ asks' = [asks EXCEPT ![r] = @ - 1]
        /\ Proceed(r, IF asks'[r] = 0 THEN "timed_out" ELSE "wait")
        /\ Quiet
     \/ /\ \/ cluster = 0 /\ Proceed(r, "no_cluster") /\ Quiet
           \/ cluster # 0 /\ Proceed(r, "no_cluster") /\ Fault({r})
           \/ cluster # 0 /\ status = "starting" /\ Proceed(r, "not_ready") /\ Quiet
           \/ cluster # 0 /\ status = "ready" /\ Proceed(r, "ping") /\ Quiet
        /\ UNCHANGED asks
  /\ UNCHANGED <<seen, made, address, kubeVars>>

(* The rest of wait_until_ray_cluster_ready asks the head once. *)
Ping(r) ==
  /\ task[r] = "ping"
  /\ \/ cluster # 0 /\ status = "ready" /\ Proceed(r, "publish") /\ Quiet
     \/ (cluster = 0 \/ status # "ready") /\ Proceed(r, "not_ready") /\ Quiet
     \/ Proceed(r, "not_ready") /\ Fault({r})
  /\ UNCHANGED <<asks, seen, made, address, kubeVars>>

(* Mutant: the variable is set only for a cluster that the run created.    *)
PublishAddressMutant(r) ==
  /\ task[r] = "publish"
  /\ address' = IF made[r] # 0 THEN r ELSE address
  /\ Proceed(r, "read")
  /\ UNCHANGED <<asks, seen, made, disturbed, kubeVars, faults>>
PublishAddress(r) ==
  /\ task[r] = "publish"
  /\ address' = r
  /\ Proceed(r, "read")
  /\ UNCHANGED <<asks, seen, made, disturbed, kubeVars, faults>>

-----------------------------------------------------------------------------
(* The task that featurizes *)

ReadAddress(r) ==
  /\ task[r] = "read"
  /\ Proceed(r, IF address = None THEN "no_address" ELSE "connect")
  /\ UNCHANGED <<asks, seen, made, disturbed, address, kubeVars, faults>>

(* Featurizer.run: ray.init, and the CacheActor of another run is killed.  *)
Connect(r) ==
  /\ task[r] = "connect"
  /\ \/ /\ cluster # 0 /\ status = "ready"
        /\ seen' = [seen EXCEPT ![r] = cluster]
        /\ cache_actor' = None
        /\ Proceed(r, "actor")
     \/ /\ cluster = 0 \/ status # "ready"
        /\ Proceed(r, "job_lost")
        /\ UNCHANGED <<seen, cache_actor>>
  /\ UNCHANGED <<asks, made, disturbed, address, cluster, status, born, faults>>

OnItsCluster(r) == seen[r] = cluster /\ status = "ready"

(* create_cache_actor: the name may be taken again.                        *)
CreateActor(r) ==
  /\ task[r] = "actor"
  /\ \/ OnItsCluster(r) /\ cache_actor = None /\ cache_actor' = r /\ Proceed(r, "work")
     \/ /\ ~OnItsCluster(r) \/ cache_actor # None
        /\ Proceed(r, "job_lost") /\ UNCHANGED cache_actor
  /\ UNCHANGED <<asks, seen, made, disturbed, address, cluster, status, born, faults>>

(* The graph is executed and its results are given to the CacheActor that  *)
(* this run created.                                                       *)
Featurize(r) ==
  /\ task[r] = "work"
  /\ IF OnItsCluster(r) /\ cache_actor = r
       THEN Proceed(r, IF r \in Keeps THEN "succeeded" ELSE "delete")
       ELSE Proceed(r, "job_lost")
  /\ UNCHANGED <<asks, seen, made, disturbed, address, kubeVars, faults>>

-----------------------------------------------------------------------------
(* The task that deletes: RayHook.delete_cluster, then the variable *)

(* Mutant: a request that fails counts as done.                            *)
DeleteClusterMutant(r) ==
  /\ task[r] = "delete"
  /\ Proceed(r, "retract")
  /\ \/ cluster # 0 /\ NoCluster /\ Quiet
     \/ UNCHANGED kubeVars /\ Fault({r})
  /\ UNCHANGED <<asks, seen, made, address>>
DeleteCluster(r) ==
  /\ task[r] = "delete"
  /\ \/ cluster # 0 /\ NoCluster /\ Proceed(r, "retract") /\ Quiet
     \/ cluster = 0 /\ UNCHANGED kubeVars /\ Proceed(r, "not_deleted") /\ Quiet
     \/ Proceed(r, "not_deleted") /\ Fault({r}) /\ (NoCluster \/ UNCHANGED kubeVars)
  /\ UNCHANGED <<asks, seen, made, address>>

DropAddress(r) ==
  /\ task[r] = "retract"
  /\ address' = None
  /\ Proceed(r, "succeeded")
  /\ UNCHANGED <<asks, seen, made, disturbed, kubeVars, faults>>

TaskStep(r) ==
  \/ FindCluster(r) \/ CreateCluster(r) \/ AskStatus(r) \/ Ping(r) \/ PublishAddress(r)
  \/ ReadAddress(r) \/ Connect(r) \/ CreateActor(r) \/ Featurize(r)
  \/ DeleteCluster(r) \/ DropAddress(r)

-----------------------------------------------------------------------------
(* The others *)

(* The worker of Airflow dies between two steps, or the featurizer raises. *)
KillTask(r) ==
  /\ Active(r) /\ Fault({r})
  /\ Proceed(r, "killed")
  /\ UNCHANGED <<asks, seen, made, address, kubeVars>>

(* KubeRay sets the status and starts the pods; a head may fail.           *)
Operate ==
  /\ cluster # 0
  /\ \/ status = "unset" /\ status' = "starting" /\ Quiet /\ UNCHANGED cache_actor
     \/ status = "starting" /\ status' = "ready" /\ Quiet /\ UNCHANGED cache_actor
     \/ status = "ready" /\ status' = "starting" /\ Fault(Actives) /\ cache_actor' = None
  /\ UNCHANGED <<task, asks, seen, made, address, cluster, born>>

(* A client of the API server creates or deletes the cluster. *)
ClientCall ==
  /\ Fault(Actives)
  /\ (cluster = 0 /\ NewCluster) \/ (cluster # 0 /\ NoCluster)
  /\ UNCHANGED <<task, asks, seen, made, address>>

ClusterNext ==
  \/ \E r \in Runs : Start(r) \/ TaskStep(r) \/ KillTask(r)
  \/ Operate \/ ClientCall

ClusterSpec == ClusterInit /\ [][ClusterNext]_clusterVars

-----------------------------------------------------------------------------
(* Properties *)

(* A run that nobody disturbs finds nothing amiss after it has validated   *)
(* its cluster, and no cluster in its way before, whatever earlier runs    *)
(* left when they failed or were killed: it reads an address, works on the *)
(* cluster with its own CacheActor, and deletes it (cluster_operator.py:   *)
(* 24-31, featurizer/runner.py:54-82).                                     *)
UndisturbedRunsKeepTheirCluster ==
  \A r \in Runs \ disturbed :
    task[r] \notin {"clash", "no_address", "job_lost", "not_deleted", "killed"}

(* A run that succeeded, and was to delete its cluster, has left neither a *)
(* cluster that it created nor an address that it stored, though runs of   *)
(* the same cluster overlap, connect to each other's and fail              *)
(* (ray_hook.py:41-45, cluster_operator.py:28-31).                         *)
SucceededLeavesNothing ==
  \A r \in Runs \ Keeps :
    task[r] = "succeeded" => address # r /\ (made[r] = 0 \/ cluster # made[r])
=============================================================================
