SPECIFICATION Spec
CONSTANTS
  a1 = a1
  Connectors = {"google", "vault"}
  Targets = {a1}
  Mailing = {TRUE}
  SignIns = {}
  Drafts = {}
  Workers = {}
  None = None
  MaxKeys = 0
  MaxFaults = 1
CHECK_DEADLOCK FALSE
INVARIANT
  RestartRebuilds
