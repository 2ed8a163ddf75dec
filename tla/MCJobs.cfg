SPECIFICATION FairSpec
CONSTANTS
  N = 2
  CatchUp = {2}
  EverRun = {2}
  MaxConcurrent = 1
  RunsKept = 2
  RunIds = {1, 2, 3}
  MaxFaults = 1
  ManualRuns = TRUE
  RunsTimeOut = TRUE
CHECK_DEADLOCK FALSE
INVARIANTS
  HistoryIsTrue
PROPERTIES
  PassSeesRuns
  OccurrenceServedOnce
  CatchUpServed
