SPECIFICATION Spec
CONSTANTS
  Part = {"watchdog", "requests", "commands", "citus", "follow", "callbacks", "health"}
  Device = {d1, d2}
  NoDevice = NoDevice
  Settable = {d1, d2}
  Preset = 3
  Closable = {d1, d2}
  FiresAfter = {1, 2}
  LoopWait = 1
  Stumbles = {"open"}
  MaxReloads = 2
  MaxMishaps = 2
  Server = {e1, e2, e3}
  Second = 10
  Configured <- TimeToSpare
  Node = {n1, n2}
  NoNode = NoNode
  Operator = {o1, o2}
  NoOperator = NoOperator
  MaxFailures = 1
  MaxGroup = 1
  MaxEvents = 1
  Peer = {p1, p2}
  Me = Me
  NoPeer = NoPeer
  Remote = Remote
  MaxChanges = 2
  Ttl = 3
  Wait = 1
  MaxAnswer = 1
VIEW View
CHECK_DEADLOCK FALSE
INVARIANTS TypeOK OnlyLeaderIsReset  ToldTrue CacheTrue FollowsWanted
PROPERTIES RequiredIsChecked
