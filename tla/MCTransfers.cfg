SPECIFICATION TransfersSpec
CONSTANTS
  Keys = {k1, k2}
  Dispatchers = {d1, d2}
  MaxAttempts = 3
  BatchSize = 2
  BaseDelay = 1
  MaxDelay = 3
  Lease = 2
  MaxRetryAfter = 1
  MaxFaults = 1
  LeaseCovers = TRUE
  Tasks = {t1, t2}
  Strangers = {f1}
  Inodes = {i1, i2, i3}
  NoFile = NoFile
  Size = 2
  MaxBreaks = 2
  a1 = a1
  a2 = a2
  s1 = s1
  s2 = s2
  m1 = m1
  w1 = w1
  Connectors = {"google", "microsoft", "webhook"}
  Targets = {a1, a2}
  Mailing = {FALSE, TRUE}
  SignIns = {s1, s2}
  Drafts = {m1}
  Workers = {w1}
  None = None
  MaxKeys = 2
  MaxFailures = 2
  Scopes <- AccountScopes
CHECK_DEADLOCK FALSE
INVARIANTS
  LeaseExclusive
  ExtraDraftsCostFaults
  TrustedIsWhole
  ConnectedWorks
  OneMailbox
PROPERTIES
  SyncedNeverRecreated
  ImplementsDelivery
  EveryRowSettles
  WatcherIsTold
