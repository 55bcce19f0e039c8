SPECIFICATION FairSpec
CONSTANTS
  Worker = {w1}
  Api = {a1}
  HA = HA
  NoThread = NoThread
  ForceAllowed = TRUE
PROPERTIES EventuallyUnscheduled CancelReturns
