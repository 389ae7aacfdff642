--------------------------- MODULE EstimationRun ---------------------------
(***************************************************************************)
(* What the scheduler may assume of the runs of one pod, whatever events,  *)
(* timeouts and interrupts drive their worker: the actions Worker of       *)
(* EstimationScheduler without the rest of that module.  A run goes        *)
(* through its states in order, decides its outcome once, when its         *)
(* estimation ends, and the next run finds the phases cleaned.             *)
(***************************************************************************)
EXTENDS Naturals

CONSTANT MaxReschedules

VARIABLES
  run,       \* idle, scheduling, starting, finishing, deleting, done
  outcome,   \* none, raises, complete, reschedule
  phase,     \* the last estimation phase: none, starting, finishing
  attempts   \* how often the pod was rescheduled

vars == <<run, outcome, phase, attempts>>

Init ==
  /\ run = "idle"
  /\ outcome = "none"
  /\ phase = "none"
  /\ attempts = 0

Goto(from, to) == run \in from /\ run' = to

Submit ==
  /\ Goto({"idle"}, "scheduling")
  /\ UNCHANGED <<outcome, phase, attempts>>

Fail ==
  /\ Goto({"scheduling", "starting", "finishing"}, "done")
  /\ outcome' = "raises"
  /\ UNCHANGED <<phase, attempts>>

Skip ==
  /\ Goto({"scheduling"}, "deleting")
  /\ outcome' = "complete"
  /\ UNCHANGED <<phase, attempts>>

Start ==
  /\ Goto({"scheduling"}, "starting")
  /\ phase' = "starting"
  /\ UNCHANGED <<outcome, attempts>>

Finish ==
  /\ Goto({"starting"}, "finishing")
  /\ phase' = "finishing"
  /\ UNCHANGED <<outcome, attempts>>

End ==
  /\ Goto({"starting", "finishing"}, "deleting")
  /\ outcome' \in {"complete", "reschedule"}
  /\ UNCHANGED <<phase, attempts>>

Delete ==
  /\ Goto({"deleting"}, "done")
  /\ UNCHANGED <<outcome, phase, attempts>>

Clean ==
  /\ run = "done"
  /\ outcome # "raises"
  /\ phase' = "none"
  /\ UNCHANGED <<run, outcome, attempts>>

Reschedule ==
  /\ Goto({"done"}, "idle")
  /\ outcome = "reschedule"
  /\ phase = "none"
  /\ attempts < MaxReschedules
  /\ attempts' = attempts + 1
  /\ outcome' = "none"
  /\ UNCHANGED phase

Next ==
  Submit \/ Fail \/ Skip \/ Start \/ Finish \/ End \/ Delete \/ Clean
    \/ Reschedule

Spec == Init /\ [][Next]_vars

=============================================================================
