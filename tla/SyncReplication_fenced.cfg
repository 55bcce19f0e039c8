SPECIFICATION Spec
CONSTANTS
  Node = {n1, n2, n3}
  NoNode = NoNode
  Star = Star
  NodeCount = 1
  Strictness = {TRUE, FALSE}
  PromptRace = TRUE
  Joining = {TRUE, FALSE}
  MaxTxns = 1
SYMMETRY Symmetry
CHECK_DEADLOCK FALSE
INVARIANTS TypeOK NoAcknowledgedLoss PublishedIsSet MarkedAsLeader
