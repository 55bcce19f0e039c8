SPECIFICATION FairSpec
CONSTANTS
  Node = {n1, n2}
  Foreign = {n2}
  NoNode = NoNode
  TTL = 3
  WdTimeout = 0
  MaxActivate = 0
  WdMayFail = FALSE
  DiesPromoting = TRUE
CHECK_DEADLOCK FALSE
PROPERTIES StalePrimaryStops
