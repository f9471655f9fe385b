SPECIFICATION MCSpec
\* The scheduler thread may have ended and the clock reached its bound.
CHECK_DEADLOCK FALSE
CONSTANTS
  h = h
  o = o
  l = l
  w1 = w1
  w2 = w2
  c = c
  shared = shared
  own = own
  NoTask = NoTask
  Heavy = {h, o}
  Light = {l}
  Workers = {w1, w2}
  Callers = {c}
  Manual = {h, o}
  Locks = {shared, own}
  Shared = shared
  LockOf <- LocksOf
  Registered <- InOrder
  Interval <- Intervals
  Stagger <- Staggers
  Cooldown <- Cooldowns
  Slack = 0
  RetryDelay = 1
  MaxRetries = 1
  Start = 1
  MaxTime = 4
  MaxFaults = 1
INVARIANT GaugeShowsBodies
