SPECIFICATION Spec
CONSTANTS
  s1 = s1
  s2 = s2
  t1 = t1
  t2 = t2
  NoTask = NoTask
  Submitters <- TwoSubmitters
  Tasks <- TwoTasks
  MinThreads = 1
  MaxThreads = 2
  InitialActive = 1
  CooldownPeriod = 1
  HasMonitor = FALSE
PROPERTIES
  SubmittedTasksRun
  ShutdownReleasesWorkers
