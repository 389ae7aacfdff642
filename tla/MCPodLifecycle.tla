--------------------------- MODULE MCPodLifecycle ---------------------------
(***************************************************************************)
(* PodLifecycle for TLC: the runs of one pod up to its end, after which    *)
(* late events of the pod change nothing any more.                         *)
(***************************************************************************)
EXTENDS PodLifecycle

(* State constraints of the runs without liveness *)
PodNotOver == pc \notin {"finished", "died"}

MaxUndelivered == 2  \* bound of the model, over all channels

FewUndelivered ==
  Len(channel["pod_kube"] \o channel["pod_object"] \o channel["node_kube"])
    <= MaxUndelivered

=============================================================================
