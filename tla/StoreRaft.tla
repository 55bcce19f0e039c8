----------------------------- MODULE StoreRaft -----------------------------
(***************************************************************************)
(* dcs/raft.py: the keys are replicated by pysyncobj to every node.  A     *)
(* command is checked against the node's own copy, which may be behind,    *)
(* and again where it is applied.                                          *)
(***************************************************************************)
EXTENDS KeyStore

\* KVStoreTTL.retry(): no answer in the end is a RaftError, which set() turns into
\* False unless it is told to raise it.
Raises(n) == Repeat(n, "error")
Fails(n) == Repeat(n, "false")

\* The node's own copy, and what is applied to it.
Local(n, k) == cache[n][k]

Apply(n) ==
  /\ stream[n] # <<>>
  /\ cache' = [cache EXCEPT ![n] = After(cache[n], Head(stream[n]))]
  /\ seen' = cache'
  /\ stream' = [stream EXCEPT ![n] = Tail(stream[n])]
  /\ UNCHANGED <<store, sess, view, call>>

\* The answer to a command comes when the node has applied it.
AppliedHere(n) ==
  /\ cache' = [cache EXCEPT ![n] = kv']
  /\ stream' = [x \in Node |-> IF x = n THEN <<>>
                               ELSE IF kv' # kv THEN Append(stream[x], Changes) ELSE stream[x]]
  /\ \A x \in Node \ {n} : kv' # kv => Len(stream[x]) < MaxLag

AppliedElsewhere == Publish /\ UNCHANGED cache

\* set() and delete(): here is what the node's copy says of the requirements, there what
\* they are when the command is applied.
Command(n, here, there, k, e, granted, refused, unanswered) ==
  /\ \/ ~here /\ Same /\ UNCHANGED <<cache, stream>> /\ refused
     \/ here /\ there /\ Write(k, e) /\ AppliedHere(n) /\ granted
     \/ here /\ ~there /\ Same /\ AppliedHere(n) /\ refused
     \/ here /\ there /\ Write(k, e) /\ AppliedElsewhere /\ unanswered
     \/ here /\ Same /\ UNCHANGED <<cache, stream>> /\ unanswered
  /\ seen' = cache'
  /\ UNCHANGED <<sess, view>>

\* _postgresql_cluster_loader(): from the node's own copy.
Load(n) ==
  /\ Cached(n, cache[n])
  /\ UNCHANGED <<store, sess, watcher>>

Start(n) ==
  /\ \/ MayAcquire(n) /\ Begin(n, "acquire", "create", 0)
     \/ IsLeader(n) /\ Begin(n, "update", "swap", 0)
     \/ IsLeader(n) /\ Begin(n, "release", "delete", 0)
     \/ Begin(n, "sync", "write", SyncVersion(n))
     \/ There(Local(n, "sync")) /\ Begin(n, "unsync", "erase", SyncVersion(n))
     \/ MayInitialize(n) /\ Begin(n, "initialize", "first", 0)
     \/ WonInitialize(n) /\ Begin(n, "cancel", "last", 0)
     \/ Begin(n, "touch", "touch", 0)
  /\ UNCHANGED <<store, sess, view, watcher>>

\* Faulty: only the node's own copy is checked.
CreateByOwnCopy(n) ==
  /\ At(n, "create")
  /\ Command(n, ~There(Local(n, "leader")), TRUE, "leader", Entry(n, Ttl),
             Answer(n, "true", 0), Answer(n, "false", 0), Raises(n))

\* attempt_to_acquire_leader(): prevExist=False.
Create(n) ==
  /\ At(n, "create")
  /\ Command(n, ~There(Local(n, "leader")), ~There(kv["leader"]), "leader", Entry(n, Ttl),
             Answer(n, "true", 0), Answer(n, "false", 0), Raises(n))

\* _update_leader(): prevValue=name; a key that is gone is created again.
Swap(n) ==
  /\ At(n, "swap")
  /\ Command(n, Local(n, "leader").val = n, kv["leader"].val = n, "leader", Entry(n, Ttl),
             Answer(n, "true", 0),
             IF There(cache'[n]["leader"]) THEN Answer(n, "false", 0) ELSE Goto(n, "create"), Raises(n))

\* _delete_leader(): prevValue=name.
Delete(n) ==
  /\ At(n, "delete")
  /\ Command(n, Local(n, "leader").val = n, kv["leader"].val = n, "leader", Absent,
             Answer(n, "true", 0), Answer(n, "false", 0), Fails(n))

VersionIs(n, e) == call[n].ver \in {0, e.ver}

\* set_sync_state_value(): prevIndex=version.
WriteSync(n) ==
  /\ At(n, "write")
  /\ Command(n, VersionIs(n, Local(n, "sync")), VersionIs(n, kv["sync"]), "sync", Entry(n, 0),
             Answer(n, "true", rev + 1), Answer(n, "false", 0), Fails(n))

DeleteSync(n) ==
  /\ At(n, "erase")
  /\ Command(n, VersionIs(n, Local(n, "sync")), There(kv["sync"]) /\ VersionIs(n, kv["sync"]), "sync", Absent,
             Answer(n, "true", 0), Answer(n, "false", 0), Fails(n))

\* initialize(): prevExist=False.
Initialize(n) ==
  /\ At(n, "first")
  /\ Command(n, ~There(Local(n, "initialize")), ~There(kv["initialize"]), "initialize", Entry(n, 0),
             Answer(n, "true", 0), Answer(n, "false", 0), Fails(n))

CancelInitialization(n) ==
  /\ At(n, "last")
  /\ Command(n, TRUE, There(kv["initialize"]), "initialize", Absent,
             Answer(n, "true", 0), Answer(n, "false", 0), Fails(n))

TouchMember(n) ==
  /\ At(n, "touch")
  /\ Command(n, TRUE, TRUE, n, Entry(n, Ttl), Answer(n, "true", 0), Answer(n, "false", 0), Fails(n))

\* _expire(): the leader of the raft cluster finds that the time of a key passed; the key
\* goes if it has the same value when that is applied.
KeyExpires ==
  /\ \E k \in Key : kv[k].own = Ttl /\ Lapse(k)
  /\ Publish
  /\ UNCHANGED <<sess, view, call, seen, cache>>

Next ==
  /\ \/ KeyExpires
     \/ \E n \in Node : \/ Load(n) \/ Start(n) \/ Apply(n) \/ Create(n) \/ Swap(n) \/ Delete(n)
                        \/ WriteSync(n) \/ DeleteSync(n) \/ Initialize(n) \/ CancelInitialization(n)
                        \/ TouchMember(n)
  /\ Observe
=============================================================================
