\* Three runs; one only connects, one does not delete. The runs end.
SPECIFICATION ClusterSpec
CHECK_DEADLOCK FALSE

CONSTANTS
  Runs = {r1, r2, r3}
  WithConfig = {r1, r2}
  Keeps = {r2}
  MaxAsks = 2
  MaxFaults = 2
  None = None

INVARIANTS
  UndisturbedRunsKeepTheirCluster
  SucceededLeavesNothing
