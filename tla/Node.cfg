SPECIFICATION Spec
CONSTANTS
  Part = {"settings", "slots", "bootstrap", "rewind"}
  Client = {c1}
  Modern = TRUE
  MaxVer = 2
  MaxRestarts = 1
  MaxFaults = 1
  MaxPos = 2
  MaxChanges = 1
  MaxTroubles = 1
  Joiner = {n1, n2, n3}
  NoJoiner = NoJoiner
  MaxCrashes = 2
  Server = {s1, s2}
  NoServer = NoServer
  MaxTimeline = 4
  MaxLsn = 3
  MaxFailures = 3
  CheckpointFails = FALSE
  StaleMember = FALSE
  Reinitialize = TRUE
VIEW View
CHECK_DEADLOCK FALSE
INVARIANTS TypeOK SettingsTrue SlotSurvivesFailover OneCluster
 
