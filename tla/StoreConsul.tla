---------------------------- MODULE StoreConsul ----------------------------
(***************************************************************************)
(* dcs/consul.py, class Consul: the leader and member keys belong to a     *)
(* session, and are deleted when it expires.                               *)
(***************************************************************************)
EXTENDS KeyStore

Raises(n) == Repeat(n, "error")
Fails(n) == Repeat(n, "false")

\* _postgresql_cluster_loader(): one recursive read.
Load(n) ==
  /\ Cached(n, kv)
  /\ UNCHANGED <<store, sess>>

Start(n) ==
  /\ \/ MayAcquire(n) /\ Begin(n, "acquire", "renew", 0)
     \/ IsLeader(n) /\ Begin(n, "update", "renew", 0)
     \/ IsLeader(n) /\ Begin(n, "release", "delete", 0)
     \/ Begin(n, "sync", "write", SyncVersion(n))
     \/ Begin(n, "unsync", "erase", SyncVersion(n))
     \/ MayInitialize(n) /\ Begin(n, "initialize", "first", 0)
     \/ WonInitialize(n) /\ Begin(n, "cancel", "last", 0)
     \/ Begin(n, "touch", "renew", 0)
  /\ UNCHANGED <<store, sess, view>>

\* Where an operation goes on when it has a session: update_leader() is done
\* when the key it has cached belongs to it.
Refreshed(n, s, new) ==
  CASE call[n].op = "acquire" -> Goto(n, "lock")
    [] call[n].op = "touch" ->
         IF There(view[n][n]) /\ (new \/ view[n][n].own # s) THEN Goto(n, "untouch")
         ELSE IF ~There(view[n][n]) THEN Goto(n, "touch") ELSE Answer(n, "true", 0)
    [] call[n].op = "update" ->
         IF view[n]["leader"].own # s THEN Goto(n, "drop") ELSE Answer(n, "true", 0)

\* _do_refresh_session(): the session is renewed, unless that was done in this
\* loop and it is not forced; one that is gone is forgotten.
Renew(n) ==
  /\ At(n, "renew")
  /\ \/ /\ sess[n] \in live \/ (sess[n] # 0 /\ call[n].op # "update")
        /\ Refreshed(n, sess[n], FALSE)
        /\ UNCHANGED sess
     \/ /\ sess[n] \notin live
        /\ sess' = [sess EXCEPT ![n] = 0]
        /\ Goto(n, "create")
     \/ /\ IF call[n].op = "touch" THEN Fails(n) ELSE Raises(n)
        /\ UNCHANGED sess
  /\ Same

\* session.create(), behavior="delete".  The answer lost, it stays unknown and
\* expires, which nobody notices.
CreateSession(n) ==
  /\ At(n, "create")
  /\ \/ \E s \in Unused :
          /\ s = CHOOSE x \in Unused : TRUE
          /\ live' = live \cup {s}
          /\ sess' = [sess EXCEPT ![n] = s]
          /\ IF call[n].got = 1 THEN Goto(n, "relock") ELSE Refreshed(n, s, TRUE)
     \/ /\ IF call[n].op = "touch" THEN Fails(n) ELSE Raises(n)
        /\ UNCHANGED <<live, sess>>
  /\ UNCHANGED <<kv, rev>>

\* kv.put(acquire=session): granted when the key is free or the session's own.
Acquire(n, granted, refused) ==
  /\ sess[n] \in live
  /\ CompareAndSet(~There(kv["leader"]) \/ kv["leader"].own = sess[n], "leader", Entry(n, sess[n]),
                   granted, refused, Raises(n))
  /\ UNCHANGED sess

\* _do_attempt_to_acquire_leader(): InvalidSession leads to a new session and
\* one more attempt, when there is time.  got tells the second attempt.
Lock(n) ==
  /\ At(n, "lock")
  /\ \/ Acquire(n, Answer(n, "true", 0), Answer(n, "false", 0))
     \/ /\ sess[n] \notin live
        /\ sess' = [sess EXCEPT ![n] = 0]
        /\ \/ Answer(n, "false", 0)
           \/ call' = [call EXCEPT ![n].pc = "create", ![n].got = 1]
        /\ Same

Relock(n) ==
  /\ At(n, "relock")
  /\ call[n].op = "acquire"
  /\ \/ Acquire(n, Answer(n, "true", 0), Answer(n, "false", 0))
     \/ sess[n] \notin live /\ Answer(n, "error", 0) /\ Same /\ UNCHANGED sess

\* _update_leader(): the session of the key is not ours, the key is deleted by
\* its version and taken again; what becomes of either request is not looked at.
Drop(n) ==
  /\ At(n, "drop")
  /\ CompareAndSet(kv["leader"].ver = view[n]["leader"].ver, "leader", Absent,
                   Goto(n, "retake"), Goto(n, "retake"), Answer(n, "error", 0))
  /\ UNCHANGED sess

Retake(n) ==
  /\ At(n, "retake")
  /\ \/ /\ sess[n] \in live
        /\ CompareAndSet(~There(kv["leader"]) \/ kv["leader"].own = sess[n], "leader", Entry(n, sess[n]),
                         Answer(n, "true", 0), Answer(n, "true", 0), Answer(n, "error", 0))
     \/ sess[n] \notin live /\ Answer(n, "error", 0) /\ Same
  /\ UNCHANGED sess

\* _delete_leader(): by the version of the cached key.
Delete(n) ==
  /\ At(n, "delete")
  /\ CompareAndSet(kv["leader"].ver = view[n]["leader"].ver, "leader", Absent,
                   Answer(n, "true", 0), Answer(n, "false", 0), Answer(n, "false", 0))
  /\ UNCHANGED sess

\* Faulty: the version read after the write is returned unseen.
ReadAnything(n) ==
  /\ At(n, "read")
  /\ Answer(n, IF There(kv["sync"]) THEN "true" ELSE "false", kv["sync"].ver) \/ Fails(n)
  /\ Same /\ UNCHANGED sess

\* set_sync_state_value(): a write by compare-and-set, then a read for the version,
\* which is only returned when the value is the one that was written.
ReadSync(n) ==
  /\ At(n, "read")
  /\ Answer(n, IF kv["sync"].val = n THEN "true" ELSE "false", kv["sync"].ver) \/ Fails(n)
  /\ Same /\ UNCHANGED sess

WriteSync(n) ==
  /\ At(n, "write")
  /\ CompareAndSet(SyncMatches(n), "sync", Entry(n, 0),
                   Goto(n, "read") \/ Answer(n, "false", 0), Answer(n, "false", 0), Fails(n))
  /\ UNCHANGED sess

DeleteSync(n) ==
  /\ At(n, "erase")
  /\ CompareAndSet(SyncMatches(n), "sync", Absent,
                   Answer(n, "true", 0), Answer(n, "false", 0), Fails(n))
  /\ UNCHANGED sess

\* initialize(): cas=0.
Initialize(n) ==
  /\ At(n, "first")
  /\ CompareAndSet(~There(kv["initialize"]), "initialize", Entry(n, 0),
                   Answer(n, "true", 0), Answer(n, "false", 0), Fails(n))
  /\ UNCHANGED sess

CancelInitialization(n) ==
  /\ At(n, "last")
  /\ CompareAndSet(TRUE, "initialize", Absent,
                   Answer(n, "true", 0), Answer(n, "false", 0), Fails(n))
  /\ UNCHANGED sess

\* touch_member(): a member key of another session is deleted first.
Untouch(n) ==
  /\ At(n, "untouch")
  /\ CompareAndSet(TRUE, n, Absent, Goto(n, "touch"), Goto(n, "touch"), Answer(n, "false", 0))
  /\ UNCHANGED sess

\* The answer to the put is not looked at, only InvalidSession is.
TouchMember(n) ==
  /\ At(n, "touch")
  /\ \/ /\ sess[n] \in live
        /\ CompareAndSet(~There(kv[n]) \/ kv[n].own = sess[n], n, Entry(n, sess[n]),
                         Answer(n, "true", 0), Answer(n, "true", 0), Answer(n, "false", 0))
        /\ UNCHANGED sess
     \/ /\ sess[n] \notin live
        /\ sess' = [sess EXCEPT ![n] = 0]
        /\ Answer(n, "false", 0) /\ Same

Request(n) ==
  /\ \/ Renew(n) \/ CreateSession(n) \/ Lock(n) \/ Relock(n) \/ Drop(n) \/ Retake(n)
     \/ Delete(n) \/ WriteSync(n) \/ ReadSync(n) \/ DeleteSync(n)
     \/ Initialize(n) \/ CancelInitialization(n) \/ Untouch(n) \/ TouchMember(n)
  /\ UNCHANGED view

SessionExpires ==
  /\ \E s \in live : Expire(s)
  /\ UNCHANGED <<sess, view, call>>

Next ==
  /\ SessionExpires \/ \E n \in Node : Load(n) \/ Start(n) \/ Request(n)
  /\ UNCHANGED watcher
  /\ Observe
=============================================================================
