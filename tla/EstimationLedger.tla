-------------------------- MODULE EstimationLedger --------------------------
(***************************************************************************)
(* What the estimation scheduler promises of each pod, whatever its        *)
(* threads do: a pod is estimated one run at a time, is rescheduled at     *)
(* most MaxReschedules times and is final once it is done.                 *)
(***************************************************************************)
EXTENDS Naturals

CONSTANTS Pods, MaxReschedules

VARIABLES
  status,    \* where each pod is
  attempts   \* how often it was rescheduled

vars == <<status, attempts>>

Init ==
  /\ status = [p \in Pods |-> "queued"]
  /\ attempts = [p \in Pods |-> 0]

Move(p, from, to) ==
  /\ status[p] = from
  /\ status' = [status EXCEPT ![p] = to]

Start(p) ==
  /\ Move(p, "queued", "running")
  /\ UNCHANGED attempts

Complete(p) ==
  /\ Move(p, "running", "done")
  /\ UNCHANGED attempts

Reschedule(p) ==
  /\ Move(p, "running", "queued")
  /\ attempts[p] < MaxReschedules
  /\ attempts' = [attempts EXCEPT ![p] = @ + 1]

Next == \E p \in Pods : Start(p) \/ Complete(p) \/ Reschedule(p)

Spec == Init /\ [][Next]_vars

=============================================================================
