------------------------ MODULE MCEstimationScheduler ------------------------
(***************************************************************************)
(* EstimationScheduler for TLC: the pods and the nodes are interchangeable *)
(* model values.  Symmetry is used by the runs without liveness only.      *)
(***************************************************************************)
EXTENDS EstimationScheduler

Symmetry == Permutations(Pods) \cup Permutations(Nodes)

=============================================================================
