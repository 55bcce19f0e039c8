SPECIFICATION Spec
CONSTANTS
  Node = {n1, n2, n3}
  NoNode = NoNode
  TTL = 3
  WdTimeout = 2
  LostAnswers = FALSE
  QuickRestart = FALSE
  Prompt = TRUE
SYMMETRY Symmetry
INVARIANTS TypeOK AtMostOnePrimary
PROPERTIES ImplementsLock
