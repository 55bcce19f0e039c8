SPECIFICATION FairSpec
CONSTANTS
  Node = {n1, n2}
  NoNode = NoNode
  n1 = n1
  n2 = n2
  n3 = n3
  NoFailover = {}
  Priority <- EqualPriority
  MaxLag = 1
  CheckTimeline = FALSE
  SyncModes = {FALSE}
  Scheduling = TRUE
  Watchdog = FALSE
  PromptRace = TRUE
  MaxLsn = 1
  MaxRequests = 1
  MaxEvents = 2
CHECK_DEADLOCK FALSE
PROPERTIES LeaderElected RequestSettled
