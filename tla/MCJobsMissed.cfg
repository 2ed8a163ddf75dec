SPECIFICATION FairSpec
CONSTANTS
  N = 1
  CatchUp = {}
  EverRun = {1}
  MaxConcurrent = 1
  RunsKept = 3
  RunIds = {1, 2, 3, 4}
  MaxFaults = 0
  ManualRuns = FALSE
  RunsTimeOut = TRUE
CHECK_DEADLOCK FALSE
PROPERTIES
  EveryJobServed
