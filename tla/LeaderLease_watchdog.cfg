SPECIFICATION Spec
CONSTANTS
  Node = {n1, n2}
  Foreign = {}
  NoNode = NoNode
  TTL = 4
  WdTimeout = 2
  MaxActivate = 2
  WdMayFail = TRUE
  DiesPromoting = FALSE
SYMMETRY Symmetry
CHECK_DEADLOCK FALSE
INVARIANTS TypeOK AtMostOnePrimary PrimaryHoldsKey
PROPERTIES ImplementsLock
