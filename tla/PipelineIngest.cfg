\* Three items, two at a time, ingested twice, with one fault. An ingest ends for good.
SPECIFICATION Spec
CONSTANTS
  a = a
  b = b
  c = c
  None = None
  Input <- MCInput
  NumSplits <- MCNumSplits
  MaxExecutingTasks = 2
  Backlog = 0
  MaxRuns = 2
  MaxFaults = 1
INVARIANTS
  RowsHaveFiles
  PollEndsRecorded
  ItemsAccounted
PROPERTIES
  IngestEnds
CHECK_DEADLOCK FALSE
