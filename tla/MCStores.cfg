SPECIFICATION StoresSpec
CONSTANTS
  t1 = t1
  None = None
  Titles = {t1}
  MaxRender = 2
  TitleOf <- OneTitle
  Edits = {e1, e2}
  Requests = {q1, q2}
  MaxFaults = 1
  Legacy = {old1, old2}
  Canonical = canonical
  Surfaces = {cli, desktop}
  Torn = Torn
  MaxBroken = 2
  talk = talk
  digest = digest
  task = task
  first = first
  second = second
  memo = memo
  ann = ann
  Meetings = {talk}
  Summaries = {digest}
  Items = {task}
  Tickets = {first, second}
  Notes = {memo}
  People = {ann}
  Nil = Nil
  MaxCuts = 1
  Scopes <- GraphScopes
SYMMETRY Symmetry
CHECK_DEADLOCK FALSE
INVARIANTS
  StoresTypeOK
  CommitsAreSafe
  LinksAreTrue
PROPERTIES
  EditsAreKept
  CopyLosesNothing
