SPECIFICATION PartsSpec
CONSTANTS
  Subjects = {"router", "join", "importer", "merging", "utterances", "pacing"}
  Together = 1
  None = None
  Kinds <- RouterKinds
  Local = {ollama}
  Buildable = {ollama, cloud}
  AtStart = {ollama}
  Default = ollama
  Tasks <- RouterTasks
  RuleSets <- StoredRules
  Requests = {r1}
  Writers = {w1, w2}
  MaxBuilt = 3
  ollama = ollama
  cloud = cloud
  other = other
  sum = sum
  chat = chat
  Meetings = {m1}
  Tabs = {page}
  Posts = {q1, q2}
  Happening <- HappeningThen
  MaxAttempts = 2
  Grace = 1
  Window = 2
  Ttl = 1
  MaxOffers = 1
  MaxNow = 3
  MaxFaults = 1
  m1 = m1
  Files = {notebook, letter}
  Folders = {here, there}
  FolderOf <- FolderThen
  Deep = {}
  MaxFiles = 1
  Pulls = {pull1, pull2}
  MaxEdits = 2
  MaxFailures = 1
  notebook = notebook
  letter = letter
  here = here
  Workspaces = {ours, theirs}
  People = {ann, bea, cyd}
  Addresses = {low, high}
  Fold <- FoldCase
  Talks = {talk}
  Templates = {tpl}
  low = low
  NoMail = NoMail
  Absent = Absent
  Frames <- FrameLengths
  EndpointSilence = 4
  MaxUtterance = 12
  CutSearch = 4
  MinSpeech = 4
  Preroll = 2
  MaxSilence = 6
  MaxPushed = 20
  Frame = 2
  Allowance = 2
  Delay = 4
  Stall = 2
  Lead = 3
  MaxElapsed = 12
SYMMETRY Alike
CHECK_DEADLOCK FALSE
INVARIANTS
  PartsTypeOK
  NothingIsPassedOver
  SettledAsStored
  ToldOnce
  MergedIsKnown
  SpeechIsCounted
  StampedNearItsTime
