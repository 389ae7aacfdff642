SPECIFICATION Spec
CONSTANTS
  d = d
  f = f
  g = g
  r1 = r1
  r2 = r2
  r3 = r3
  DataBlocks = {d}
  FeatureBlocks = {f, g}
  Nodes <- MCNodes
  JoinsOf <- MCJoinsOf
  DepsOf <- MCDepsOf
  RefCount <- MCRefCount
  ToStore = {f}
  Parallelism = 2
  MaxRuns = 2
  MaxFaults = 1
  MaxDeletes = 1
INVARIANTS
  EndedMeansStored
  RowsMatchFiles
  SharedBlockIsCached
PROPERTIES
  RunEnds
CHECK_DEADLOCK FALSE
