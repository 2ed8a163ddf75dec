SPECIFICATION Spec
CONSTANTS
  t1 = t1
  t2 = t2
  e1 = e1
  e2 = e2
  q1 = q1
  None = None
  Titles = {t1, t2}
  MaxRender = 2
  TitleOf <- MCTitleOf
  Edits = {e1, e2}
  Requests = {q1}
  MaxFaults = 0
CHECK_DEADLOCK FALSE
PROPERTIES
  DivergesAgain
