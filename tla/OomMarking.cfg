\* Two pods on one node, two starts and a failing script
\* CHECK_DEADLOCK FALSE: decide_pods_marking and the handling of a result
\* can leave marking_lock held, and the threads then wait for ever.
SPECIFICATION FairSpec
CHECK_DEADLOCK FALSE

CONSTANTS
  Pods = {p1, p2}
  Nodes = {n1}
  MaxNotifications = 2
  MaxFailures = 1
  None = None

INVARIANTS
  GetFindsItem
  InFlightAccounted
  OneHighInFlight

PROPERTIES
  StopEnds
