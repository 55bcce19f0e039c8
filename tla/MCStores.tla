------------------------------ MODULE MCStores ------------------------------
(***************************************************************************)
(* Model-checking instance of the backends: one state space for each, side *)
(* by side.  What KeyStore states is checked of all of them.               *)
(***************************************************************************)
EXTENDS KeyStore, TLC

CONSTANT Backends

VARIABLE backend

Etcd == INSTANCE StoreEtcd
Consul == INSTANCE StoreConsul
Etcd3 == INSTANCE StoreEtcd3
ZooKeeper == INSTANCE StoreZooKeeper
Kubernetes == INSTANCE StoreKubernetes
Raft == INSTANCE StoreRaft

MCInit == Init /\ backend \in Backends

Next ==
  /\ \/ backend = "etcd" /\ Etcd!Next
     \/ backend = "consul" /\ Consul!Next
     \/ backend = "etcd3" /\ Etcd3!Next
     \/ backend = "zookeeper" /\ ZooKeeper!Next
     \/ backend = "kubernetes" /\ Kubernetes!Next
     \/ backend = "raft" /\ Raft!Next
  /\ UNCHANGED backend

Spec == MCInit /\ [][Next]_<<vars, backend>>

\* The abstract key.  update_leader() answers without asking for the key in Consul, etcd3 and
\* ZooKeeper: there only the answers of attempt_to_acquire_leader() are compared.
LeaderOps == IF backend \in {"consul", "etcd3", "zookeeper"} THEN {"acquire"} ELSE {"acquire", "update"}

K == INSTANCE LeaderKey WITH
  holder <- IF kv["leader"].own = Lapsed THEN None ELSE kv["leader"].val,
  told <- {n \in Node : Succeeded(n, LeaderOps)}

LeaderKeyIsLock == K!Spec

\* write_sync_state() is conditional.  ZooKeeper takes the first version for none.
SyncAnswersTrue == WroteOver(IF backend = "zookeeper" THEN {0, 1} ELSE {0})

\* A conditional write that is confirmed was made as asked: /sync over the version that was given
\* (write_sync_state), the initialize key when it was not there (initialize), whatever was lost or
\* repeated on the way.
ConfirmedWrites == SyncAnswersTrue /\ InitializedFree

\* ":param version: for conditional update of the key/object" (dcs/__init__.py).
WritesAreConditional == WroteOver({0})

Symmetry == Permutations(Node)
=============================================================================
