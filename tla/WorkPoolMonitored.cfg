SPECIFICATION Spec
CONSTANTS
  s1 = s1
  s2 = s2
  t1 = t1
  t2 = t2
  NoTask = NoTask
  Submitters <- OneSubmitter
  Tasks <- TwoTasks
  MinThreads = 1
  MaxThreads = 2
  InitialActive = 1
  CooldownPeriod = 1
  HasMonitor = TRUE
SYMMETRY TaskSymmetry
INVARIANTS
  TypeOK
  TaskConservation
  CounterFloor
  CounterCoversUnparked
  ParkRespectsMinThreads
  UnparkedCoverClimber
\* A worker re-parked by the monitor after shutdown() may block the join.
CHECK_DEADLOCK FALSE
