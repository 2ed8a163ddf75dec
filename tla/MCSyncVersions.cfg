SPECIFICATION Spec
CONSTANTS
  a = a
  b = b
  c = c
  Devices = {a, b, c}
  MaxEdits = 3
SYMMETRY Symmetry
CHECK_DEADLOCK FALSE
INVARIANTS
  VersionTellsHistory
  NotRediscovered
  LossIsReported
