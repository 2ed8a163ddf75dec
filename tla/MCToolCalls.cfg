SPECIFICATION FairSpec
CONSTANTS
  c1 = c1
  c2 = c2
  h1 = h1
  h2 = h2
  Calls = {c1, c2}
  Handlers = {h1, h2}
  AutoStart = TRUE
  MaxStarts = 1
  MaxFaults = 1
CHECK_DEADLOCK FALSE
INVARIANTS
  StrandedNeedsFault
PROPERTIES
  ImplementsApproval
  HandlersEnd
