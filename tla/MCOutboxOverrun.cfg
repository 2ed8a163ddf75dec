SPECIFICATION Spec
CONSTANTS
  k1 = k1
  k2 = k2
  d1 = d1
  d2 = d2
  Keys = {k1, k2}
  Dispatchers = {d1, d2}
  MaxAttempts = 3
  BatchSize = 2
  BaseDelay = 1
  MaxDelay = 3
  Lease = 2
  MaxRetryAfter = 1
  MaxFaults = 0
  LeaseCovers = FALSE
CHECK_DEADLOCK FALSE
PROPERTY SettledIsFinal
