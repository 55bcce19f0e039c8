----------------------------- MODULE StoreEtcd3 -----------------------------
(***************************************************************************)
(* dcs/etcd3.py: the leader and member keys belong to a lease; what a node *)
(* loads is its KVCache, which a watch of the store and the node's own     *)
(* writes keep up to date.                                                 *)
(***************************************************************************)
EXTENDS KeyStore

Raises(n) == Repeat(n, "error")
Fails(n) == Repeat(n, "false")
Once(n) == Answer(n, "false", 0)

OpKey(n) ==
  CASE call[n].op \in {"acquire", "update", "release"} -> "leader"
    [] call[n].op \in {"sync", "unsync"} -> "sync"
    [] call[n].op \in {"initialize", "cancel"} -> "initialize"
    [] OTHER -> n

\* The answer to a write at the next revision is on its way.
Granted(n) == call' = [call EXCEPT ![n].pc = "granted", ![n].got = rev + 1]

-----------------------------------------------------------------------------
(* KVCache *)

\* Faulty: an event replaces whatever the cache has.
EventApplied(keys, event) == After(keys, event)

\* set() and delete(): an event, or the answer to a write, that is older than what
\* the cache has of a key is ignored.
Newer(keys, event) ==
  [k \in Key |->
     IF k \notin DOMAIN event \/ keys[k].ver > event[k].ver THEN keys[k]
     ELSE IF There(event[k]) THEN event[k]
     ELSE IF keys[k].ver < event[k].ver THEN Absent ELSE keys[k]]

\* _process_event().
ProcessEvent(n) ==
  /\ stream[n] # <<>>
  /\ cache' = [cache EXCEPT ![n] = Newer(cache[n], Head(stream[n]))]
  /\ seen' = [seen EXCEPT ![n] = After(seen[n], Head(stream[n]))]
  /\ stream' = [stream EXCEPT ![n] = Tail(stream[n])]
  /\ UNCHANGED <<store, sess, view, call>>

\* _build_cache(): the stream broke, or was killed because a transaction failed; the keys
\* are read, from a member of etcd that may be behind, and watched from there.
BuildCache(n) ==
  /\ \E keys \in {seen[n], kv} :
       /\ cache' = [cache EXCEPT ![n] = keys]
       /\ seen' = [seen EXCEPT ![n] = keys]
       /\ stream' = [stream EXCEPT ![n] = IF keys = kv THEN <<>> ELSE stream[n]]
  /\ UNCHANGED <<store, sess, view, call>>

\* PatroniEtcd3Client.call_rpc(): what was written or deleted goes to the cache.
CallRpc(n) ==
  /\ At(n, "granted")
  /\ LET put == [val |-> n, ver |-> call[n].got,
                 own |-> IF OpKey(n) \in {"leader", n} THEN sess[n] ELSE 0]
         delete == [val |-> None, ver |-> call[n].got, own |-> 0]
         event == [k \in {OpKey(n)} |-> IF call[n].op \in {"release", "unsync", "cancel"} THEN delete ELSE put]
     IN  cache' = [cache EXCEPT ![n] = Newer(cache[n], event)]
  /\ Answer(n, "true", call[n].got)
  /\ UNCHANGED <<store, sess, view, stream, seen>>

\* get_cluster(): from the cache.
Load(n) ==
  /\ Cached(n, cache[n])
  /\ UNCHANGED <<store, sess, watcher>>

-----------------------------------------------------------------------------
(* Operations *)

Start(n) ==
  /\ \/ MayAcquire(n) /\ Begin(n, "acquire", "refresh", 0)
     \/ IsLeader(n) /\ Begin(n, "update", "refresh", 0)
     \/ IsLeader(n) /\ Begin(n, "release", "delete", 0)
     \/ Begin(n, "sync", "write", SyncVersion(n))
     \/ Begin(n, "unsync", "erase", SyncVersion(n))
     \/ MayInitialize(n) /\ Begin(n, "initialize", "first", 0)
     \/ WonInitialize(n) /\ Begin(n, "cancel", "last", 0)
     \/ Begin(n, "touch", "refresh", 0)
  /\ UNCHANGED <<store, sess, view, watcher>>

Refreshed(n, lease) ==
  CASE call[n].op = "acquire" -> Goto(n, "create")
    [] call[n].op = "touch" ->
         IF There(view[n][n]) /\ view[n][n].own = lease THEN Answer(n, "true", 0) ELSE Goto(n, "touch")
    [] call[n].op = "update" ->
         IF view[n]["leader"].own # lease THEN Goto(n, "swap") ELSE Answer(n, "true", 0)

\* _do_refresh_lease(): the lease is kept alive, unless that was done in this
\* loop and it is not forced; one that is gone is forgotten.
RefreshLease(n) ==
  /\ At(n, "refresh")
  /\ \/ /\ sess[n] \in live \/ (sess[n] # 0 /\ call[n].op # "update")
        /\ Refreshed(n, sess[n])
        /\ UNCHANGED sess
     \/ /\ sess[n] \notin live
        /\ sess' = [sess EXCEPT ![n] = 0]
        /\ Goto(n, "grant")
     \/ (IF call[n].op = "touch" THEN Fails(n) ELSE Raises(n)) /\ UNCHANGED sess
  /\ UNCHANGED <<store, watcher>>

\* lease_grant().
GrantLease(n) ==
  /\ At(n, "grant")
  /\ \/ \E s \in Unused :
          /\ s = CHOOSE x \in Unused : TRUE
          /\ live' = live \cup {s}
          /\ sess' = [sess EXCEPT ![n] = s]
          /\ IF call[n].got = 1 THEN Goto(n, "again") ELSE Refreshed(n, s)
     \/ (IF call[n].op = "touch" THEN Fails(n) ELSE Raises(n)) /\ UNCHANGED <<live, sess>>
  /\ UNCHANGED <<kv, rev, watcher>>

Put(n, ok, k, unanswered) ==
  /\ sess[n] \in live
  /\ CompareAndSet(ok, k, Entry(n, sess[n]), Granted(n), Answer(n, "false", 0), unanswered)
  /\ UNCHANGED sess

\* _do_attempt_to_acquire_leader(): create_revision=0; LeaseNotFound leads to a new
\* lease and one more attempt, when there is time.
Create(n) ==
  /\ At(n, "create")
  /\ \/ Put(n, ~There(kv["leader"]), "leader", Raises(n))
     \/ /\ sess[n] \notin live
        /\ sess' = [sess EXCEPT ![n] = 0]
        /\ Answer(n, "false", 0) \/ call' = [call EXCEPT ![n].pc = "grant", ![n].got = 1]
        /\ Same

CreateAgain(n) ==
  /\ At(n, "again")
  /\ \/ Put(n, ~There(kv["leader"]), "leader", Raises(n))
     \/ sess[n] \notin live /\ Answer(n, "error", 0) /\ Same /\ UNCHANGED sess

\* _update_leader(): the lease of the key that was cached is not ours: one
\* transaction writes the key if it has our name, or if it does not exist.
Swap(n) ==
  /\ At(n, "swap")
  /\ \/ Put(n, kv["leader"].val \in {n, None}, "leader", Raises(n))
     \/ sess[n] \notin live /\ Answer(n, "error", 0) /\ Same /\ UNCHANGED sess

\* _delete_leader(): a transaction, without retries.
Delete(n) ==
  /\ At(n, "delete")
  /\ CompareAndSet(kv["leader"].val = n, "leader", Absent, Granted(n), Answer(n, "false", 0), Once(n))
  /\ UNCHANGED sess

\* set_sync_state_value(): MOD = version, unless there is none.
WriteSync(n) ==
  /\ At(n, "write")
  /\ CompareAndSet(SyncMatches(n), "sync", Entry(n, 0), Granted(n), Answer(n, "false", 0), Fails(n))
  /\ UNCHANGED sess

DeleteSync(n) ==
  /\ At(n, "erase")
  /\ CompareAndSet(SyncMatches(n), "sync", Absent, Granted(n), Answer(n, "false", 0), Fails(n))
  /\ UNCHANGED sess

\* Faulty: the key is put without create_revision.
InitializeAnyhow(n) ==
  /\ At(n, "first")
  /\ CompareAndSet(TRUE, "initialize", Entry(n, 0), Granted(n), Answer(n, "false", 0), Fails(n))
  /\ UNCHANGED sess

\* initialize(): create_revision=0.
Initialize(n) ==
  /\ At(n, "first")
  /\ CompareAndSet(~There(kv["initialize"]), "initialize", Entry(n, 0),
                   Granted(n), Answer(n, "false", 0), Fails(n))
  /\ UNCHANGED sess

CancelInitialization(n) ==
  /\ At(n, "last")
  /\ CompareAndSet(TRUE, "initialize", Absent, Granted(n), Answer(n, "false", 0), Fails(n))
  /\ UNCHANGED sess

\* touch_member(): put without retries.
TouchMember(n) ==
  /\ At(n, "touch")
  /\ \/ Put(n, TRUE, n, Once(n))
     \/ /\ sess[n] \notin live
        /\ sess' = [sess EXCEPT ![n] = 0]
        /\ Answer(n, "false", 0) /\ Same

Request(n) ==
  /\ \/ Create(n) \/ CreateAgain(n) \/ Swap(n) \/ Delete(n) \/ WriteSync(n) \/ DeleteSync(n)
     \/ Initialize(n) \/ CancelInitialization(n) \/ TouchMember(n)
  /\ Publish
  /\ UNCHANGED <<view, seen, cache>>

LeaseExpires ==
  /\ \E s \in live : Expire(s)
  /\ Publish
  /\ UNCHANGED <<sess, view, call, seen, cache>>

Next ==
  /\ \/ LeaseExpires
     \/ \E n \in Node : \/ Load(n) \/ Start(n) \/ Request(n) \/ CallRpc(n)
                        \/ RefreshLease(n) /\ UNCHANGED view
                        \/ GrantLease(n) /\ UNCHANGED view
                        \/ ProcessEvent(n) \/ BuildCache(n)
  /\ Observe
=============================================================================
