\* Two pods, two nodes and a stop signal
\* CHECK_DEADLOCK FALSE: when Scheduler.stop raises in the thread that holds
\* global_lock, the lock stays locked and the callbacks wait for ever.
SPECIFICATION FairSpec
CHECK_DEADLOCK FALSE

CONSTANTS
  Pods = {p1, p2}
  Nodes = {n1, n2}
  BulkScheduleSize = 1
  MaxReschedules = 0
  BasePriority = 10000
  MaxStops = 1
  None = None

INVARIANTS
  PodInExactlyOnePlace

PROPERTIES
  CallbacksEnd
  EndsUnlessCallbackDied
