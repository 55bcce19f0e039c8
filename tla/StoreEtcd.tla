----------------------------- MODULE StoreEtcd -----------------------------
(***************************************************************************)
(* dcs/etcd.py, class Etcd: keys with a time to live in etcd (v2).         *)
(* self.retry() repeats a request that was not answered.                   *)
(***************************************************************************)
EXTENDS KeyStore

\* A request under self.retry(): no answer in the end is an exception, which
\* attempt_to_acquire_leader() and _update_leader() pass on and catch_etcd_errors
\* turns into False.
Raises(n) == Repeat(n, "error")
Fails(n) == Repeat(n, "false")

\* Faulty: keys that do not exist are not in what was loaded.
LoadPresent(n) ==
  /\ Cached(n, [k \in {x \in Key : There(kv[x])} |-> kv[k]])
  /\ UNCHANGED <<store, sess>>

\* _postgresql_cluster_loader() and _cluster_from_nodes(): one recursive read.
Load(n) ==
  /\ Cached(n, kv)
  /\ UNCHANGED <<store, sess>>

Start(n) ==
  /\ \/ MayAcquire(n) /\ Begin(n, "acquire", "create", 0)
     \/ IsLeader(n) /\ Begin(n, "update", "swap", 0)
     \/ IsLeader(n) /\ Begin(n, "release", "delete", 0)
     \/ Begin(n, "sync", "write", SyncVersion(n))
     \/ Begin(n, "unsync", "erase", SyncVersion(n))
     \/ MayInitialize(n) /\ Begin(n, "initialize", "first", 0)
     \/ WonInitialize(n) /\ Begin(n, "cancel", "last", 0)
     \/ Begin(n, "touch", "touch", 0)
  /\ UNCHANGED <<store, sess, view>>

\* Faulty: the key is written whether it exists or not.
CreateAlways(n) ==
  /\ At(n, "create")
  /\ CompareAndSet(TRUE, "leader", Entry(n, Ttl),
                   Answer(n, "true", 0), Answer(n, "false", 0), Raises(n))

\* _do_attempt_to_acquire_leader(): prevExist=False.
Create(n) ==
  /\ At(n, "create")
  /\ CompareAndSet(~There(kv["leader"]), "leader", Entry(n, Ttl),
                   Answer(n, "true", 0), Answer(n, "false", 0), Raises(n))

\* _do_update_leader(): prevValue=name; a key that is gone is created again.
Swap(n) ==
  /\ At(n, "swap")
  /\ CompareAndSet(kv["leader"].val = n, "leader", Entry(n, Ttl), Answer(n, "true", 0),
                   IF There(kv["leader"]) THEN Answer(n, "false", 0) ELSE Goto(n, "create"),
                   Raises(n))

\* _delete_leader(): prevValue=name, and no retry.
Delete(n) ==
  /\ At(n, "delete")
  /\ CompareAndSet(kv["leader"].val = n, "leader", Absent,
                   Answer(n, "true", 0), Answer(n, "false", 0), Answer(n, "false", 0))

\* set_sync_state_value(): prevIndex=version or 0, where 0 is no condition.
WriteSync(n) ==
  /\ At(n, "write")
  /\ CompareAndSet(SyncMatches(n), "sync", Entry(n, 0),
                   Answer(n, "true", rev + 1), Answer(n, "false", 0), Fails(n))

\* delete_sync_state().
DeleteSync(n) ==
  /\ At(n, "erase")
  /\ CompareAndSet(There(kv["sync"]) /\ SyncMatches(n), "sync", Absent,
                   Answer(n, "true", 0), Answer(n, "false", 0), Fails(n))

\* initialize(): prevExist=False.
Initialize(n) ==
  /\ At(n, "first")
  /\ CompareAndSet(~There(kv["initialize"]), "initialize", Entry(n, 0),
                   Answer(n, "true", 0), Answer(n, "false", 0), Fails(n))

\* cancel_initialization().
CancelInitialization(n) ==
  /\ At(n, "last")
  /\ CompareAndSet(There(kv["initialize"]), "initialize", Absent,
                   Answer(n, "true", 0), Answer(n, "false", 0), Fails(n))

\* touch_member(): once, with a time to live.
TouchMember(n) ==
  /\ At(n, "touch")
  /\ CompareAndSet(TRUE, n, Entry(n, Ttl),
                   Answer(n, "true", 0), Answer(n, "false", 0), Answer(n, "false", 0))

Request(n) ==
  /\ \/ Create(n) \/ Swap(n) \/ Delete(n) \/ WriteSync(n) \/ DeleteSync(n)
     \/ Initialize(n) \/ CancelInitialization(n) \/ TouchMember(n)
  /\ UNCHANGED <<sess, view>>

KeyExpires ==
  /\ \E k \in Key : kv[k].own = Ttl /\ Lapse(k)
  /\ UNCHANGED <<sess, view, call>>

Next ==
  /\ KeyExpires \/ \E n \in Node : Load(n) \/ Start(n) \/ Request(n)
  /\ UNCHANGED watcher
  /\ Observe
=============================================================================
