-------------------------------- MODULE Rewind --------------------------------
(***************************************************************************)
(* The WAL of the nodes and what Patroni makes of it: rewind.py compares   *)
(* the WAL of a node with the history of the leader, and rewinds the node  *)
(* from a leader that has run a checkpoint after its promotion; ha.py says *)
(* when (recover, demote, follow, _handle_rewind_or_reinitialize).         *)
(***************************************************************************)
EXTENDS Naturals

CONSTANTS
  Server,          \* the nodes
  NoServer,        \* not a node
  MaxTimeline, MaxLsn,  \* bounds
  MaxFailures,     \* bound: crashes, demotions, and attempts that fail
  CheckpointFails, \* whether the only CHECKPOINT after a promotion may fail
  StaleMember,     \* whether a leader may be seen with the key it wrote as a member before the race
  Reinitialize     \* remove_data_directory_on_rewind_failure

RewindAssumption ==
  /\ {MaxTimeline, MaxLsn} \subseteq Nat \ {0} /\ MaxFailures \in Nat
  /\ {CheckpointFails, StaleMember, Reinitialize} \subseteq BOOLEAN /\ NoServer \notin Server

VARIABLES
  lock,      \* the leader key
  logs,       \* the WAL of each node: its timeline, where its ancestors were left, and how
             \* far it has been written and replayed
  pgs,       \* postgres: down, standby, primary, stopping
  ctl,       \* pg_controldata: the state, and the timeline of the checkpoint
  rstate,    \* Rewind._state
  exposed,   \* checkpoint_after_promote in the key of the member
  failures   \* what may still fail

rewVars == <<lock, logs, pgs, ctl, rstate, exposed, failures>>

Timeline == 1 .. MaxTimeline
Position == 0 .. MaxLsn

Init ==
  /\ lock = NoServer
  /\ logs = [n \in Server |-> [tl |-> 1, left |-> [t \in Timeline |-> 0], end |-> 1, replayed |-> 1]]
  /\ pgs = [n \in Server |-> "standby"]
  /\ ctl = [n \in Server |-> [state |-> "in archive recovery", tl |-> 1]]
  /\ rstate = [n \in Server |-> "initial"]
  /\ exposed = [n \in Server |-> FALSE]
  /\ failures = MaxFailures

Failure == failures > 0 /\ failures' = failures - 1

\* w does not go beyond the place where v left its timeline.
Within(tl, lsn, v) == IF tl = v.tl THEN lsn <= v.end ELSE tl < v.tl /\ lsn <= v.left[tl]
Contained(w, v) == Within(w.tl, w.replayed, v)

\* The timeline of a promotion is one more than the newest there is.
NewTimeline(t) == (\A n \in Server : logs[n].tl < t) /\ \E n \in Server : logs[n].tl = t - 1

-----------------------------------------------------------------------------
(* postgres *)

WriteWal(n) ==
  /\ pgs[n] = "primary" /\ logs[n].end < MaxLsn - 1
  /\ logs' = [logs EXCEPT ![n].end = @ + 1, ![n].replayed = logs[n].end + 1]
  /\ UNCHANGED <<lock, pgs, ctl, rstate, exposed, failures>>

\* v went on with timeline t after tl.
Onward(t, tl, v) ==
  /\ tl < t /\ (t = v.tl \/ v.left[t] # 0)
  /\ \A u \in Timeline : tl < u /\ u < t => v.left[u] = 0

\* w goes on with timeline t as v did.
Switched(w, v, t) == [w EXCEPT !.tl = t, !.left = [u \in Timeline |-> IF u <= w.tl THEN v.left[u] ELSE 0]]

\* Streaming, as long as the standby has replayed nothing the other does not have; what it
\* has received beyond that is left aside.
Receive(n, m) ==
  LET w == logs[n]
      v == logs[m]
      limit == IF w.tl = v.tl THEN v.end ELSE v.left[w.tl]
  IN  /\ m # n /\ pgs[n] = "standby" /\ pgs[m] \in {"primary", "stopping"}
      /\ Contained(w, v)
      /\ \/ w.end < limit /\ logs' = [logs EXCEPT ![n].end = @ + 1]
         \/ w.end > limit /\ logs' = [logs EXCEPT ![n].end = limit]
         \/ /\ w.end = limit
            /\ \E t \in Timeline : Onward(t, w.tl, v) /\ logs' = [logs EXCEPT ![n] = Switched(w, v, t)]
      /\ UNCHANGED <<lock, pgs, ctl, rstate, exposed, failures>>

ReplayWal(n) ==
  /\ pgs[n] = "standby" /\ logs[n].replayed < logs[n].end
  /\ logs' = [logs EXCEPT ![n].replayed = @ + 1]
  /\ UNCHANGED <<lock, pgs, ctl, rstate, exposed, failures>>

\* A checkpoint of a primary, or a restartpoint.
Checkpoint(n) ==
  /\ pgs[n] \in {"primary", "standby"} /\ ctl[n].tl # logs[n].tl
  /\ ctl' = [ctl EXCEPT ![n].tl = logs[n].tl]
  /\ UNCHANGED <<lock, logs, pgs, rstate, exposed, failures>>

CrashPostgres(n) ==
  /\ pgs[n] # "down" /\ Failure
  /\ pgs' = [pgs EXCEPT ![n] = "down"]
  /\ UNCHANGED <<lock, logs, ctl, rstate, exposed>>

\* A clean stop ends with the record of a checkpoint.
StopPostgres(n) ==
  /\ pgs[n] = "stopping"
  /\ pgs' = [pgs EXCEPT ![n] = "down"]
  /\ UNCHANGED <<lock, logs, ctl, rstate, exposed, failures>>

-----------------------------------------------------------------------------
(* ha.py *)

\* The leader key expires, or its owner gives it away.
LoseLock ==
  /\ lock # NoServer /\ (pgs[lock] # "primary" \/ failures > 0)
  /\ lock' = NoServer
  /\ UNCHANGED <<logs, pgs, ctl, rstate, exposed, failures>>

\* trigger_check_diverged_lsn(); it is allowed on all nodes.
Triggered(n) == [rstate EXCEPT ![n] = IF @ = "need" THEN @ ELSE "check"]

\* demote(), graceful or not, also when the node has lost its key.
Demote(n) ==
  /\ pgs[n] = "primary" /\ Failure
  /\ rstate' = Triggered(n)
  /\ \/ /\ logs[n].end < MaxLsn
        /\ pgs' = [pgs EXCEPT ![n] = "stopping"]
        /\ logs' = [logs EXCEPT ![n].end = @ + 1, ![n].replayed = logs[n].end + 1]
        /\ ctl' = [ctl EXCEPT ![n] = [state |-> "shut down", tl |-> logs[n].tl]]
     \/ /\ pgs' = [pgs EXCEPT ![n] = "down"]
        /\ UNCHANGED <<logs, ctl>>
  /\ lock' = IF lock = n THEN NoServer ELSE lock
  /\ UNCHANGED exposed

\* follow() of a standby: whenever it starts, or follows somebody else.
Follow(n) ==
  /\ pgs[n] = "standby" /\ lock \notin {NoServer, n}
  /\ rstate' = Triggered(n) /\ rstate' # rstate
  /\ UNCHANGED <<lock, logs, pgs, ctl, exposed, failures>>

\* The leader race is for standbys that are not behind; who was started with the key in hand does
\* not race.  The cycle ends with touch_member(), before postgres is known to be a primary.
Promote(n) ==
  /\ lock \in {NoServer, n} /\ pgs[n] = "standby" /\ logs[n].replayed = logs[n].end
  /\ lock = n \/ \A m \in Server : pgs[m] = "standby" => logs[m].end <= logs[n].end
  /\ \A m \in Server : pgs[m] # "primary"
  /\ lock' = n
  /\ pgs' = [pgs EXCEPT ![n] = "primary"]
  /\ \E t \in Timeline :
       NewTimeline(t) /\ logs' = [logs EXCEPT ![n].tl = t, ![n].left[logs[n].tl] = logs[n].end]
  /\ ctl' = [ctl EXCEPT ![n].state = "in production"]
  /\ exposed' \in {exposed, [exposed EXCEPT ![n] = FALSE]} /\ (StaleMember \/ ~exposed'[n])
  /\ UNCHANGED <<rstate, failures>>

\* touch_member(): only a leader whose state is not CHECKPOINT says that it has not run one.  A
\* postgres that crashed keeps its role until it is started as something else.
TouchMember(n) ==
  \E role \in {"primary", "demoted"} :
    /\ pgs[n] = "primary" => role = "primary"
    /\ role = "primary" => pgs[n] = "primary" \/ (pgs[n] = "down" /\ ctl[n].state = "in production")
    /\ exposed' = [exposed EXCEPT ![n] = role = "primary" /\ ~(lock = n /\ rstate[n] # "checkpoint")]
    /\ exposed' # exposed
    /\ UNCHANGED <<lock, logs, pgs, ctl, rstate, failures>>

\* recover(): who has the key and was a primary a moment ago starts it again.
StartPrimary(n) ==
  /\ pgs[n] = "down" /\ ctl[n].state = "in production" /\ lock = n
  /\ pgs' = [pgs EXCEPT ![n] = "primary"]
  /\ UNCHANGED <<lock, logs, ctl, rstate, exposed, failures>>

\* recover(): the states of before are forgotten by who has the key, a check is due for others.  Without
\* a leader to rewind from postgres is started all the same, and so it is when pg_rewind failed.
StartStandby(n) ==
  /\ IF rstate[n] = "need" THEN lock \in {NoServer, n} ELSE rstate[n] = "failed" => ~Reinitialize
  /\ pgs' = [pgs EXCEPT ![n] = "standby"]
  /\ ctl' = [ctl EXCEPT ![n].state = "in archive recovery"]
  /\ rstate' = IF lock = n \/ rstate[n] = "success" THEN [rstate EXCEPT ![n] = "initial"]
               ELSE IF rstate[n] = "failed" THEN rstate ELSE Triggered(n)
  /\ UNCHANGED <<lock, logs, exposed>>

\* recover(): a primary that crashed is shut down cleanly in single user mode; if that fails it is
\* not tried again.
CrashRecovery(n) ==
  /\ pgs[n] = "down" /\ ctl[n].state = "in production"
  /\ \/ /\ logs[n].end < MaxLsn
        /\ logs' = [logs EXCEPT ![n].end = @ + 1, ![n].replayed = logs[n].end + 1]
        /\ ctl' = [ctl EXCEPT ![n] = [state |-> "shut down", tl |-> logs[n].tl]]
        /\ UNCHANGED <<lock, pgs, rstate, exposed, failures>>
     \/ Failure /\ StartStandby(n)

StartPostgres(n) ==
  /\ pgs[n] = "down" /\ ctl[n].state # "in production"
  /\ StartStandby(n) /\ UNCHANGED failures

-----------------------------------------------------------------------------
(* rewind.py *)

\* ensure_checkpoint_after_promote().
EnsureCheckpoint(n) ==
  /\ pgs[n] = "primary" /\ lock = n /\ rstate[n] # "checkpoint"
  /\ rstate' = [rstate EXCEPT ![n] = "checkpoint"]
  /\ \/ ctl' = [ctl EXCEPT ![n].tl = logs[n].tl] /\ UNCHANGED failures
     \/ (CheckpointFails \/ ctl[n].tl = logs[n].tl) /\ Failure /\ UNCHANGED ctl
  /\ UNCHANGED <<lock, logs, pgs, exposed>>

\* Faulty: where the last checkpoint begins is all that counts.
DivergedByLocation(w, stopped, left) == (IF stopped THEN w.replayed - 1 ELSE w.replayed) > left

\* A standby has diverged if it has replayed more; a former primary unless the record of its
\* last checkpoint ends where the leader left the timeline.
Diverged(w, stopped, left) == IF stopped THEN w.replayed # left ELSE w.replayed > left

\* _check_timeline_and_lsn(): a timeline that is no ancestor of the leader's is not there.
NeedRewind(n, v) ==
  LET w == logs[n]
      stopped == pgs[n] = "down" /\ ctl[n].state = "shut down"
  IN  w.tl > v.tl \/ (w.tl < v.tl /\ (v.left[w.tl] = 0 \/ Diverged(w, stopped, v.left[w.tl])))

\* The primary must be one, and answer.
CheckTimelineAndLsn(n) ==
  /\ rstate[n] = "check" /\ lock \notin {NoServer, n} /\ pgs[lock] = "primary"
  /\ pgs[n] = "standby" \/ (pgs[n] = "down" /\ ctl[n].state # "in production")
  /\ rstate' = [rstate EXCEPT ![n] = IF NeedRewind(n, logs[lock]) THEN "need" ELSE "not needed"]
  /\ UNCHANGED <<lock, logs, pgs, ctl, exposed, failures>>

\* Faulty: nobody waits for the checkpoint.
WhenPrimary(m) == pgs[m] = "primary"

\* Waiting for the checkpoint before the rewind.
MayRewindFrom(m) == exposed[m] /\ pgs[m] = "primary"

\* pg_rewind goes by the control file of its source: it finds nothing to do when the timeline
\* there is still the one of the target.
Rewound(n, m) == IF ctl[m].tl = ctl[n].tl THEN logs[n] ELSE logs[m]

Execute(n) ==
  /\ rstate[n] = "need" /\ lock \notin {NoServer, n} /\ MayRewindFrom(lock)
  /\ pgs[n] \in {"down", "standby"}
  /\ pgs' = [pgs EXCEPT ![n] = "down"]
  /\ \/ /\ logs' = [logs EXCEPT ![n] = Rewound(n, lock)]
        /\ ctl' = [ctl EXCEPT ![n].state = "in archive recovery", ![n].tl = ctl[lock].tl]
        /\ rstate' = [rstate EXCEPT ![n] = "success"]
        /\ UNCHANGED failures
     \/ /\ Failure
        /\ rstate' = [rstate EXCEPT ![n] = "failed"]
        /\ UNCHANGED <<logs, ctl>>
  /\ UNCHANGED <<lock, exposed>>

\* The data directory is removed, and the node becomes a clone.
Reinit(n) ==
  /\ Reinitialize /\ rstate[n] = "failed" /\ lock \notin {NoServer, n} /\ pgs[lock] = "primary"
  /\ logs' = [logs EXCEPT ![n] = logs[lock]]
  /\ ctl' = [ctl EXCEPT ![n] = [state |-> "in archive recovery", tl |-> logs[lock].tl]]
  /\ pgs' = [pgs EXCEPT ![n] = "standby"]
  /\ rstate' = [rstate EXCEPT ![n] = "initial"]
  /\ UNCHANGED <<lock, exposed, failures>>

-----------------------------------------------------------------------------

Next ==
  \/ LoseLock
  \/ \E n \in Server :
       \/ WriteWal(n) \/ ReplayWal(n) \/ Checkpoint(n) \/ CrashPostgres(n) \/ StopPostgres(n)
       \/ \E m \in Server : Receive(n, m)
       \/ Demote(n) \/ Follow(n) \/ Promote(n) \/ TouchMember(n)
       \/ StartPrimary(n) \/ CrashRecovery(n) \/ StartPostgres(n)
       \/ EnsureCheckpoint(n) \/ CheckTimelineAndLsn(n) \/ Execute(n) \/ Reinit(n)

Spec == Init /\ [][Next]_rewVars

-----------------------------------------------------------------------------
(* Properties *)

\* Every variable has its type.
TypeOK ==
  /\ lock \in Server \cup {NoServer}
  /\ logs \in [Server -> [tl : Timeline, left : [Timeline -> Position], end : Position, replayed : Position]]
  /\ pgs \in [Server -> {"down", "standby", "primary", "stopping"}]
  /\ \A n \in Server : logs[n].replayed <= logs[n].end /\ ctl[n].tl <= logs[n].tl

\* A node that is said to need no rewind has replayed nothing that its leader has not, and
\* so has one that was rewound.
DivergenceFound ==
  [][\A n \in Server :
       (rstate[n] = "check" /\ rstate'[n] = "not needed") \/ (rstate[n] = "need" /\ rstate'[n] = "success")
         => Contained(logs'[n], logs'[lock])]_rewVars
=============================================================================
