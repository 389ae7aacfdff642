\* A pod with one fault and up to two runs
SPECIFICATION Spec

CONSTANTS
  MaxReschedules = 1
  MaxFaults = 1
  MaxStops = 0
  MaxBacklog = 2

CONSTRAINTS
  PodNotOver
  FewUndelivered

INVARIANTS
  OwnDeletionNeverInterrupts

PROPERTIES
  ImplementsRun
