SPECIFICATION Spec
CONSTANTS
  Worker = {w1, w2}
  Api = {a1, a2}
  HA = HA
  NoThread = NoThread
  ForceAllowed = TRUE
SYMMETRY Symmetry
INVARIANTS OneProcess
