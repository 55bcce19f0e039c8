SPECIFICATION Spec
CONSTANTS
  Node = {n1, n2}
  None = None
  MaxRev = 3
  MaxLag = 1
  Session = {1, 2, 3}
  Backends = {"etcd", "consul", "etcd3", "zookeeper", "kubernetes", "raft"}
  OpGroups = {{"acquire", "update", "release"}, {"sync", "unsync"}, {"initialize", "cancel"}, {"touch"}}
SYMMETRY Symmetry
CHECK_DEADLOCK FALSE
INVARIANTS TypeOK ConfirmedWrites WatcherCatchesUp
 
