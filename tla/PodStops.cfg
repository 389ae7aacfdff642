\* The threads of a run that is stopped at any moment
SPECIFICATION FairSpec

CONSTANTS
  MaxReschedules = 0
  MaxFaults = 0
  MaxStops = 1
  MaxBacklog = 2

INVARIANTS
  ScheduledIsReal
  HealthyPodNotRescheduled

PROPERTIES
  NoPodLeftBehind
  RunEnds
  WakersReturn
