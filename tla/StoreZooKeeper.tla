--------------------------- MODULE StoreZooKeeper ---------------------------
(***************************************************************************)
(* dcs/zookeeper.py: the leader and member keys are ephemeral znodes of    *)
(* the client's session.  A znode counts its own versions; here the first  *)
(* one, version 0, is 1.                                                   *)
(***************************************************************************)
EXTENDS KeyStore

Znode(k, v, own) == [val |-> v, ver |-> kv[k].ver + 1, own |-> own]

\* A request reaches the store in a session that has not expired, or it waits.
Send(n, ok, k, e, granted, refused, unanswered) ==
  /\ sess[n] \in live
  /\ CompareAndSet(ok, k, e, granted, refused, unanswered)
  /\ UNCHANGED <<sess, view>>

Raises(n) == Repeat(n, "error")
Fails(n) == Repeat(n, "false")
Once(n) == Answer(n, "false", 0)

\* The client notices that its session expired, or starts, and gets a new one.
NewSession(n) ==
  /\ \E s \in Unused :
       /\ s = CHOOSE x \in Unused : TRUE
       /\ sess' = [sess EXCEPT ![n] = s]
       /\ live' = live \cup {s}
  /\ UNCHANGED <<kv, rev, view>>

Connect(n) ==
  /\ sess[n] \notin live
  /\ NewSession(n)
  /\ UNCHANGED call

\* _postgresql_cluster_loader(): one key after the other, the leader last.
Load(n) ==
  /\ call[n].pc = "done"
  /\ view' = [view EXCEPT ![n] = [@ EXCEPT !["initialize"] = kv["initialize"], !["sync"] = kv["sync"]]]
  /\ call' = [call EXCEPT ![n] = [Idle EXCEPT !.pc = "members"]]
  /\ Same /\ UNCHANGED sess

LoadMembers(n) ==
  /\ At(n, "members")
  /\ view' = [view EXCEPT ![n] = [k \in Key |-> IF k \in Node \cup {"leader"} THEN kv[k] ELSE view[n][k]]]
  /\ Answer(n, "none", 0)
  /\ Same /\ UNCHANGED sess

Start(n) ==
  /\ \/ MayAcquire(n) /\ Begin(n, "acquire", "create", 0)
     \/ IsLeader(n) /\ Begin(n, "update", IF sess[n] = view[n]["leader"].own THEN "same" ELSE "drop", 0)
     \/ IsLeader(n) /\ Begin(n, "release", "restart", 0)
     \/ Begin(n, "sync", "write", SyncVersion(n))
     \/ Begin(n, "unsync", "write", SyncVersion(n))
     \/ MayInitialize(n) /\ Begin(n, "initialize", "first", 0)
     \/ WonInitialize(n) /\ Begin(n, "cancel", "get", 0)
     \/ /\ There(view[n][n])
        /\ Begin(n, "touch", IF sess[n] = view[n][n].own THEN "set" ELSE "untouch", 0)
     \/ ~There(view[n][n]) /\ Begin(n, "touch", "touch", 0)
  /\ UNCHANGED <<store, sess, view>>

\* Faulty: the znode is not looked for.
CreateOver(n) ==
  /\ At(n, "create")
  /\ Send(n, TRUE, "leader", Znode("leader", n, sess[n]), Answer(n, "true", 0), Once(n), Raises(n))

\* attempt_to_acquire_leader(), and what _update_leader() does in the end.
Create(n) ==
  /\ At(n, "create")
  /\ Send(n, ~There(kv["leader"]), "leader", Znode("leader", n, sess[n]),
          Answer(n, "true", 0), Once(n), Raises(n))

\* _update_leader(): the key is of our session, the store is not asked; or it is
\* not, and is deleted, whosever it is by now, and created.
SameSession(n) ==
  /\ At(n, "same")
  /\ Answer(n, "true", 0)
  /\ Same /\ UNCHANGED <<sess, view>>

Drop(n) ==
  /\ At(n, "drop")
  /\ Send(n, There(kv["leader"]), "leader", Absent, Goto(n, "create"), Goto(n, "create"),
          Raises(n) \/ Once(n))

\* _delete_leader(): the client is restarted; the old session is closed, or left to expire.
Restart(n) ==
  /\ At(n, "restart")
  /\ \E closed \in BOOLEAN, s \in Unused :
       /\ closed => rev < MaxRev
       /\ s = CHOOSE x \in Unused : TRUE
       /\ sess' = [sess EXCEPT ![n] = s]
       /\ live' = (IF closed THEN live \ {sess[n]} ELSE live) \cup {s}
       /\ kv' = [k \in Key |-> IF closed /\ sess[n] # 0 /\ kv[k].own = sess[n] THEN Absent ELSE kv[k]]
       /\ rev' = IF kv' # kv THEN rev + 1 ELSE rev
  /\ Answer(n, "true", 0)
  /\ UNCHANGED view

\* _set_or_create(): version or -1, where -1 is no condition.  A key that does not
\* exist is created only without a version.  delete_sync_state() writes "{}".
WriteSync(n) ==
  /\ At(n, "write")
  /\ LET ok == IF There(kv["sync"]) THEN call[n].ver \in {0, 1, kv["sync"].ver} ELSE call[n].ver = 0
     IN  Send(n, ok, "sync", Znode("sync", n, 0), Answer(n, "true", kv["sync"].ver + 1), Once(n), Fails(n))

\* initialize().
Initialize(n) ==
  /\ At(n, "first")
  /\ Send(n, ~There(kv["initialize"]), "initialize", Znode("initialize", n, 0),
          Answer(n, "true", 0), Once(n), Fails(n))

\* _cancel_initialization(): the key is read and deleted by its version.
GetInitialize(n) ==
  /\ At(n, "get")
  /\ sess[n] \in live
  /\ IF There(kv["initialize"])
     THEN call' = [call EXCEPT ![n].pc = "last", ![n].ver = kv["initialize"].ver]
     ELSE Answer(n, "true", 0)
  /\ Same /\ UNCHANGED <<sess, view>>

CancelInitialization(n) ==
  /\ At(n, "last")
  /\ Send(n, There(kv["initialize"]) /\ kv["initialize"].ver = call[n].ver, "initialize", Absent,
          Answer(n, "true", 0), Once(n), Goto(n, "get") \/ Once(n))

\* touch_member(): a znode of another session is deleted first; one that is there is
\* written when the data changed.
Untouch(n) ==
  /\ At(n, "untouch")
  /\ Send(n, There(kv[n]), n, Absent, Goto(n, "touch"), Goto(n, "touch"), Once(n))

TouchMember(n) ==
  /\ At(n, "touch")
  /\ Send(n, ~There(kv[n]), n, Znode(n, n, sess[n]), Answer(n, "true", 0), Goto(n, "set"), Once(n))

SetMember(n) ==
  /\ At(n, "set")
  /\ \/ Send(n, There(kv[n]), n, Znode(n, n, kv[n].own), Answer(n, "true", 0), Once(n), Once(n))
     \/ Answer(n, "true", 0) /\ There(view[n][n]) /\ Same /\ UNCHANGED <<sess, view>>

Request(n) ==
  \/ Create(n) \/ SameSession(n) \/ Drop(n) \/ Restart(n) \/ WriteSync(n) \/ Initialize(n)
  \/ GetInitialize(n) \/ CancelInitialization(n) \/ Untouch(n) \/ TouchMember(n) \/ SetMember(n)

SessionExpires ==
  /\ \E s \in live : Expire(s)
  /\ UNCHANGED <<sess, view, call>>

Next ==
  /\ SessionExpires \/ \E n \in Node : Connect(n) \/ Load(n) \/ LoadMembers(n) \/ Start(n) \/ Request(n)
  /\ UNCHANGED watcher
  /\ Observe
=============================================================================
