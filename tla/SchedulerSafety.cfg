\* Two pods on one node, one reschedule each, and a stop signal
\* CHECK_DEADLOCK FALSE: when Scheduler.stop raises in the thread that holds
\* global_lock, the lock stays locked and the callbacks wait for ever.
SPECIFICATION Spec
CHECK_DEADLOCK FALSE

CONSTANTS
  Pods = {p1, p2}
  Nodes = {n1}
  BulkScheduleSize = 1
  MaxReschedules = 1
  BasePriority = 10000
  MaxStops = 1
  None = None

SYMMETRY Symmetry

INVARIANTS
  OnlyCurrentRunActive
  LaterPodsHaveLowerPriority
  StartingPodsBounded

PROPERTIES
  ImplementsLedger
