SPECIFICATION Spec
CONSTANTS
  Node = {n1, n2, n3}
  NoNode = NoNode
  n1 = n1
  n2 = n2
  n3 = n3
  NoFailover = {}
  Priority <- EqualPriority
  MaxLag = 0
  CheckTimeline = FALSE
  SyncModes = {TRUE, FALSE}
  Scheduling = FALSE
  Watchdog = TRUE
  PromptRace = TRUE
  MaxLsn = 2
  MaxRequests = 1
  MaxEvents = 2
SYMMETRY Symmetry
CHECK_DEADLOCK FALSE
INVARIANTS TypeOK
PROPERTIES WinnerAhead WinnerInSync
