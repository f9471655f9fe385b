SPECIFICATION Spec
CONSTANTS
  main = main
  scanner = scanner
  w1 = w1
  Threads <- TwoThreads
  Requests <- DaemonRequests
  Waiters <- OneWaiter
  Targets <- HealthyTargets
  Capacity = 16
  MaxTime = 2
INVARIANTS
  TypeOK
  AnnouncementsBounded
  NoPhaseAnnouncedTwice
  WaitForSound
  ElapsedNeverOverstated
PROPERTIES
  WaitForReturns
