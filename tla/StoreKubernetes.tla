-------------------------- MODULE StoreKubernetes --------------------------
(***************************************************************************)
(* dcs/kubernetes.py: keys are annotations of objects, which stay when the *)
(* value goes.  Nothing expires in the store: a node takes the leader for  *)
(* gone when the record it has of it did not change for the ttl.           *)
(***************************************************************************)
EXTENDS KeyStore

Raises(n) == Repeat(n, "error")
Fails(n) == Repeat(n, "false")
Once(n) == Answer(n, "false", 0)

\* patch_or_create() with a version patches that version, without one it creates.
Matches(k, ver) == kv[k].ver = ver

Object(v) == Entry(v, 0)

\* The answer, with the object that was written, is on its way.
Granted(n) == call' = [call EXCEPT ![n].pc = "granted", ![n].got = rev + 1]

-----------------------------------------------------------------------------
(* ObjectCache *)

\* What was sent last of an object.
Replaced(keys, event) ==
  [k \in Key |-> IF k \in DOMAIN event THEN event[k] ELSE keys[k]]

\* set(): what is older than the cache is ignored.
Newer(keys, event) ==
  [k \in Key |-> IF k \in DOMAIN event /\ keys[k].ver < event[k].ver THEN event[k] ELSE keys[k]]

ProcessEvent(n) ==
  /\ stream[n] # <<>>
  /\ cache' = [cache EXCEPT ![n] = Newer(cache[n], Head(stream[n]))]
  /\ seen' = [seen EXCEPT ![n] = Replaced(seen[n], Head(stream[n]))]
  /\ stream' = [stream EXCEPT ![n] = Tail(stream[n])]
  /\ UNCHANGED <<store, sess, view, call>>

\* What a watch delivers of an object is not marked.
Unmarked(keys) == [keys EXCEPT !["leader"].own = 0]

\* _build_cache(): the stream broke, or was killed because of a conflict.
BuildCache(n) ==
  /\ \E keys \in {seen[n], Unmarked(kv)} :
       /\ cache' = [cache EXCEPT ![n] = keys]
       /\ seen' = [seen EXCEPT ![n] = keys]
       /\ stream' = [stream EXCEPT ![n] = IF keys = Unmarked(kv) THEN <<>> ELSE stream[n]]
  /\ UNCHANGED <<store, sess, view, call>>

OpKey(n) ==
  CASE call[n].op \in {"acquire", "update", "release"} -> "leader"
    [] call[n].op \in {"sync", "unsync"} -> "sync"
    [] call[n].op \in {"initialize", "cancel"} -> "initialize"
    [] OTHER -> n

\* _patch_or_create(): the object that the answer has goes to the cache.
Cache(n) ==
  /\ At(n, "granted")
  /\ LET v == IF call[n].op \in {"release", "unsync", "cancel"} THEN None ELSE n
         event == [k \in {OpKey(n)} |-> [val |-> v, ver |-> call[n].got, own |-> 0]]
     IN  cache' = [cache EXCEPT ![n] = Newer(cache[n], event)]
  /\ Answer(n, "true", call[n].got)
  /\ UNCHANGED <<store, sess, view, stream, seen>>

\* The ttl passed, and the leader has not written its record.
Lapses ==
  /\ There(kv["leader"]) /\ kv["leader"].own # Lapsed
  /\ kv' = [kv EXCEPT !["leader"].own = Lapsed]
  /\ UNCHANGED <<rev, live, sess, view, call, watcher>>

\* _cluster_from_nodes(): the leader is gone if the record did not change for the ttl,
\* in the cache, that is: it may have changed since.
Load(n) ==
  /\ \E gone \in BOOLEAN :
       /\ gone => kv["leader"].own = Lapsed \/ cache[n]["leader"].ver # kv["leader"].ver
       /\ Cached(n, IF gone THEN [cache[n] EXCEPT !["leader"].val = None] ELSE cache[n])
  /\ UNCHANGED <<store, sess, watcher>>

-----------------------------------------------------------------------------
(* Operations *)

InCache(n) == cache[n]["leader"]

Start(n) ==
  /\ \/ MayAcquire(n) /\ Begin(n, "acquire", "patch", view[n]["leader"].ver)
     \/ IsLeader(n) /\ InCache(n).val = n /\ Begin(n, "update", "renew", InCache(n).ver)
     \/ IsLeader(n) /\ InCache(n).ver = 0 /\ Begin(n, "update", "renew", 0)
     \/ IsLeader(n) /\ InCache(n).val = n /\ Begin(n, "release", "delete", InCache(n).ver)
     \/ Begin(n, "sync", "write", SyncVersion(n))
     \/ Begin(n, "unsync", "erase", SyncVersion(n))
     \/ MayInitialize(n) /\ Begin(n, "initialize", "first", view[n]["initialize"].ver)
     \/ WonInitialize(n) /\ Begin(n, "cancel", "last", 0)
     \/ Begin(n, "touch", "touch", 0)
  /\ UNCHANGED <<store, sess, view, watcher>>

PatchOver(n, k, granted, refused, unanswered) ==
  CompareAndSet(Matches(k, call[n].ver), k, Object(n), granted, refused, unanswered)

\* Faulty: the version that was seen is not part of the request.
AcquireAnyhow(n) ==
  /\ At(n, "patch")
  /\ CompareAndSet(TRUE, "leader", Object(n), Granted(n), Once(n), Raises(n))

\* attempt_to_acquire_leader().
Acquire(n) ==
  /\ At(n, "patch")
  /\ PatchOver(n, "leader", Granted(n), Once(n), Raises(n))

\* _update_leader_with_retry(): on a conflict the object is read, when there is time.
Renew(n) ==
  /\ At(n, "renew")
  /\ PatchOver(n, "leader", Granted(n), Once(n) \/ Goto(n, "read"), Raises(n))

\* A conflict with ourselves: the object has our name and another version.
Read(n) ==
  /\ At(n, "read")
  /\ \/ Raises(n) /\ UNCHANGED cache
     \/ /\ cache' = [cache EXCEPT ![n] = Newer(cache[n], [k \in {"leader"} |-> Unmarked(kv)[k]])]
        /\ \/ Once(n)
           \/ /\ kv["leader"].val = n /\ kv["leader"].ver # call[n].ver
              /\ call' = [call EXCEPT ![n].pc = "patch", ![n].ver = kv["leader"].ver]
  /\ UNCHANGED <<store, sess, view, stream, seen>>

\* delete_leader(): the value goes, the object stays.
Delete(n) ==
  /\ At(n, "delete")
  /\ CompareAndSet(Matches("leader", call[n].ver), "leader", Object(None), Granted(n), Once(n), Once(n))

\* write_sync_state() and delete_sync_state().
WriteSync(n) ==
  /\ At(n, "write")
  /\ PatchOver(n, "sync", Granted(n), Once(n), Fails(n))

DeleteSync(n) ==
  /\ At(n, "erase")
  /\ CompareAndSet(Matches("sync", call[n].ver), "sync", Object(None), Granted(n), Once(n), Fails(n))

\* initialize(): by the version of the config object that was seen.
Initialize(n) ==
  /\ At(n, "first")
  /\ PatchOver(n, "initialize", Granted(n), Once(n), Fails(n))

\* cancel_initialization(): without a version.
CancelInitialization(n) ==
  /\ At(n, "last")
  /\ CompareAndSet(TRUE, "initialize", Object(None), Granted(n), Once(n), Fails(n))

\* touch_member(): the pod is patched when its labels or its status changed.
TouchMember(n) ==
  /\ At(n, "touch")
  /\ \/ CompareAndSet(TRUE, n, Object(n), Granted(n), Once(n), Once(n))
     \/ There(view[n][n]) /\ Answer(n, "true", 0) /\ Same

Request(n) ==
  /\ \/ Acquire(n) \/ Renew(n) \/ Delete(n) \/ WriteSync(n) \/ DeleteSync(n)
     \/ Initialize(n) \/ CancelInitialization(n) \/ TouchMember(n)
  /\ Publish
  /\ UNCHANGED <<sess, view, seen, cache>>

Next ==
  /\ \/ Lapses
     \/ \E n \in Node : \/ Load(n) \/ Start(n) \/ Request(n) \/ Cache(n) \/ Read(n)
                        \/ ProcessEvent(n) \/ BuildCache(n)
  /\ Observe
=============================================================================
