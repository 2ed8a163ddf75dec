SPECIFICATION FairSpec
CONSTANTS
  Entities = {e1}
  Passes = {r1, r2}
  None = None
  Slack = 1
  Quiet = 2
  MaxEdits = 2
  MaxNow = 3
  MaxFaults = 1
CHECK_DEADLOCK FALSE
INVARIANTS
  VectorsAreCurrent
PROPERTY PassEnds
