\* A pod rescheduled after the scheduler has ended
SPECIFICATION Spec

CONSTANTS
  Pods = {p1, p2}
  Nodes = {n1}
  BulkScheduleSize = 1
  MaxReschedules = 1
  BasePriority = 10000
  MaxStops = 0
  None = None

SYMMETRY Symmetry

INVARIANTS
  NoPodQueuedAfterAllFinished
