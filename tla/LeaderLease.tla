---------------------------- MODULE LeaderLease ----------------------------
(***************************************************************************)
(* The leader key of a Patroni cluster, and what keeps a node without it   *)
(* from running a primary.                                                 *)
(*                                                                         *)
(* The key lives in the DCS with a time to live.  Every node runs the HA   *)
(* loop of ha.py: it loads the cluster, takes or updates the key, and      *)
(* promotes or demotes its postgres, partly in a background thread.        *)
(* Between a write to the DCS and what the HA loop does with the answer    *)
(* any time may pass: a request is one step, its answer another.  A node   *)
(* can only rely on its watchdog, which resets the machine when it has not *)
(* been kept alive for WdTimeout.                                          *)
(*                                                                         *)
(* Not in this module: pause, failsafe mode and standby clusters.          *)
(***************************************************************************)
EXTENDS Naturals, FiniteSets

CONSTANTS
  Node,          \* the members of the cluster
  Foreign,       \* those of which only the writes to the leader key are modelled
  NoNode,        \* None: nobody holds the key
  TTL,           \* ttl: the life of the leader key after a write
  WdTimeout,     \* WatchdogConfig.timeout; 0: watchdog mode off
  MaxActivate,   \* longest time from a write of the key to watchdog.activate()
  WdMayFail,     \* whether activate() may return False (mode required)
  DiesPromoting  \* whether Patroni may die while postgres leaves recovery

ASSUME LeaseAssumption ==
  /\ NoNode \notin Node
  /\ Foreign \subseteq Node
  /\ TTL \in Nat \ {0}
  /\ WdTimeout \in 0 .. TTL
  /\ MaxActivate \in 0 .. TTL
  /\ WdMayFail \in BOOLEAN
  /\ DiesPromoting \in BOOLEAN

VARIABLES
  owner,         \* the node named in the leader key, NoNode when there is no key
  keyTtl,        \* what is left of the key's time to live
  view,          \* self.cluster.leader: the owner seen by the last load
  pc,            \* where the HA loop of each node is
  task,          \* what the AsyncExecutor of each node runs
  preFailed,     \* _async_response.result is False: the pre_promote script failed
  pg,            \* what postgres really is on each node
  role,          \* state_handler.role
  wdOpen,        \* watchdog.is_running: Patroni has the device open
  wd             \* time until the device resets the machine, 0: not ticking

haVars == <<view, pc, task, preFailed, role>>
dcsVars == <<owner, keyTtl>>
wdVars == <<wdOpen, wd>>
vars == <<dcsVars, haVars, pg, wdVars>>

PCs == {"down", "idle", "loaded", "dcsError", "acquired", "reload", "updated",
        "notUpdated", "follow", "recover", "healthy", "enforce", "release",
        "demote", "demoteRelease", "demoteOffline", "startOffline",
        "shutdown", "lastRelease"}
Tasks == {"none", "prePromote", "promote", "demote", "graceful", "gracefulRelease",
          "start", "startPrimary", "ending"}
PrimaryRoles == {"promoted", "primary"}

\* Every variable has its type.
TypeOK ==
  /\ owner \in Node \cup {NoNode}
  /\ keyTtl \in 0 .. TTL
  /\ view \in [Node -> Node \cup {NoNode}]
  /\ pc \in [Node -> PCs]
  /\ task \in [Node -> Tasks]
  /\ preFailed \in [Node -> BOOLEAN]
  /\ pg \in [Node -> {"down", "standby", "promoting", "primary"}]
  /\ role \in [Node -> {"replica"} \cup PrimaryRoles]
  /\ wdOpen \in [Node -> BOOLEAN]
  /\ wd \in [Node -> 0 .. WdTimeout]

Init ==
  /\ owner = NoNode /\ keyTtl = 0
  /\ view = [n \in Node |-> NoNode]
  /\ pc = [n \in Node |-> "idle"]
  /\ task = [n \in Node |-> "none"]
  /\ preFailed = [n \in Node |-> FALSE]
  /\ pg = [n \in Node |-> "standby"]
  /\ role = [n \in Node |-> "replica"]
  /\ wdOpen = [n \in Node |-> FALSE]
  /\ wd = [n \in Node |-> 0]

-----------------------------------------------------------------------------
(* Helpers *)

Goto(n, from, to) ==
  /\ pc[n] \in from
  /\ pc' = [pc EXCEPT ![n] = to]

Busy(n) == task[n] # "none"

RunTask(n, t) == task' = [task EXCEPT ![n] = t]

\* try_run_async(): refused while the executor is busy.
TryRunTask(n, t) == RunTask(n, IF Busy(n) THEN task[n] ELSE t)

\* Faulty: a key that lives longer than its ttl.
WriteLongKey(n) == owner' = n /\ keyTtl' = TTL + 1

\* The leader key written by n: the life of the key starts again.
WriteKey(n) == owner' = n /\ keyTtl' = TTL

\* Faulty: delete_leader() without comparing the previous value.
DeleteAnyKey(n) ==
  \/ owner' = NoNode /\ keyTtl' = 0
  \/ UNCHANGED dcsVars

\* delete_leader(): etcd deletes the key only when it still names n.  The
\* request may fail without an effect.
DeleteKey(n) ==
  \/ owner = n /\ owner' = NoNode /\ keyTtl' = 0
  \/ UNCHANGED dcsVars

\* watchdog.keepalive(): nothing while the watchdog is not active.
Keepalive(n) ==
  /\ wd' = IF wdOpen[n] THEN [wd EXCEPT ![n] = WdTimeout] ELSE wd
  /\ UNCHANGED wdOpen

\* watchdog.disable(): closes the device if this process has it open.  A device
\* left ticking by a Patroni that crashed goes on.
DisableWatchdog(n) ==
  /\ wd' = IF wdOpen[n] THEN [wd EXCEPT ![n] = 0] ELSE wd
  /\ wdOpen' = [wdOpen EXCEPT ![n] = FALSE]

\* postgres has stopped inside demote() or shutdown(): on_safepoint disabled the
\* watchdog before, and the role is "demoted".
Stopped(n) ==
  /\ pg' = [pg EXCEPT ![n] = "down"]
  /\ role' = [role EXCEPT ![n] = "replica"]
  /\ DisableWatchdog(n)

-----------------------------------------------------------------------------
(* run_cycle: loading the cluster and acting on what was seen *)

\* load_cluster_from_dcs() at the start of a cycle.
LoadCluster(n) ==
  /\ Goto(n, {"idle"}, "loaded")
  /\ view' = [view EXCEPT ![n] = owner]
  /\ UNCHANGED <<dcsVars, task, preFailed, role, pg, wdVars>>

\* The DCS does not answer: get_cluster() raises DCSError.
LoadFails(n) ==
  /\ Goto(n, {"idle", "reload", "follow"}, "dcsError")
  /\ UNCHANGED <<dcsVars, view, task, preFailed, role, pg, wdVars>>

\* update_lock() of a node that sees itself as the lock owner.  The write needs
\* the key to name n or, after KeyNotFound, takes it anew; it may be applied
\* and its answer lost, or fail for another reason than the connection.
UpdateLeader(n) ==
  /\ view[n] = n
  /\ \/ /\ owner \in {n, NoNode}
        /\ WriteKey(n)
        /\ Goto(n, {"loaded"}, "updated") \/ Goto(n, {"loaded"}, "dcsError")
     \/ /\ UNCHANGED dcsVars
        /\ Goto(n, {"loaded"}, "notUpdated") \/ Goto(n, {"loaded"}, "dcsError")
  /\ UNCHANGED <<view, task, preFailed, role, pg, wdVars>>

\* The answer arrives: keepalive, then the rest of the cycle of a busy node, of
\* one whose postgres is not running, and of a healthy one.
LeaderUpdated(n) ==
  /\ Goto(n, {"updated"}, IF Busy(n) THEN "idle"
                          ELSE IF pg[n] = "down" THEN "recover" ELSE "healthy")
  /\ Keepalive(n)
  /\ UNCHANGED <<dcsVars, view, task, preFailed, role, pg>>

\* A node without the lock, as it sees it, or that could not update it.
WithoutLock(n) == pc[n] = "notUpdated" \/ (pc[n] = "loaded" /\ view[n] # n)

\* handle_long_action_in_progress() without the lock: a promote is cancelled if
\* its pre_promote script is still running, and a primary is demoted; the
\* interlock of the critical task stops a start of the primary.
LostLockWhileBusy(n) ==
  /\ WithoutLock(n)
  /\ Busy(n)
  /\ \/ /\ task[n] = "prePromote"
        /\ pc' = [pc EXCEPT ![n] = "idle"]
        /\ RunTask(n, "ending")
     \/ /\ task[n] # "prePromote"
        /\ pc' = [pc EXCEPT ![n] = IF role[n] = "primary" THEN "demote" ELSE "idle"]
        /\ RunTask(n, IF task[n] = "startPrimary" THEN "ending" ELSE task[n])
  /\ UNCHANGED <<dcsVars, view, preFailed, role, pg, wdVars>>

\* recover() without the lock: the watchdog is not needed any more, and postgres
\* is started as a standby.
RecoverWithoutLock(n) ==
  /\ WithoutLock(n)
  /\ ~Busy(n) /\ pg[n] = "down"
  /\ pc' = [pc EXCEPT ![n] = "idle"]
  /\ RunTask(n, "start")
  /\ role' = [role EXCEPT ![n] = "replica"]
  /\ DisableWatchdog(n)
  /\ UNCHANGED <<dcsVars, view, preFailed, pg>>

\* recover() with the lock just updated: a crashed primary is started again (its
\* watchdog goes on), anything else as a standby.
Recover(n) ==
  /\ Goto(n, {"recover"}, "idle")
  /\ \/ /\ role[n] = "primary"
        /\ RunTask(n, "startPrimary")
        /\ UNCHANGED <<role, wdVars>>
     \/ /\ RunTask(n, "start")
        /\ role' = [role EXCEPT ![n] = "replica"]
        /\ DisableWatchdog(n)
  /\ UNCHANGED <<dcsVars, view, preFailed, pg>>

\* recover() with primary_start_timeout = 0: disable the watchdog, demote and
\* release the key at once.
RecoverByFailover(n) ==
  /\ Goto(n, {"recover"}, "release")
  /\ RunTask(n, "start")
  /\ role' = [role EXCEPT ![n] = "replica"]
  /\ DisableWatchdog(n)
  /\ UNCHANGED <<dcsVars, view, preFailed, pg>>

\* Faulty: follow() that leaves a primary alone.
FollowOnly(n) ==
  /\ \/ WithoutLock(n) /\ ~Busy(n) /\ pg[n] # "down"
     \/ pc[n] = "follow"
  /\ pc' = [pc EXCEPT ![n] = "idle"]
  /\ UNCHANGED <<dcsVars, view, task, preFailed, role, pg, wdVars>>

\* follow(): a primary that does not hold the lock is demoted; demote mode
\* immediate-nolock, in the main thread.
Follow(n) ==
  /\ \/ WithoutLock(n) /\ ~Busy(n) /\ pg[n] # "down"
     \/ pc[n] = "follow"
  /\ pc' = [pc EXCEPT ![n] = IF pg[n] = "primary" THEN "demote" ELSE "idle"]
  /\ UNCHANGED <<dcsVars, view, task, preFailed, role, pg, wdVars>>

\* _handle_dcs_error(): a primary is demoted (mode offline), in the background
\* or, when the executor is busy, in the main thread.
HandleDcsError(n) ==
  /\ Goto(n, {"dcsError"}, IF pg[n] = "primary" /\ Busy(n) THEN "demoteOffline" ELSE "idle")
  /\ RunTask(n, IF pg[n] = "primary" /\ ~Busy(n) THEN "demote" ELSE task[n])
  /\ UNCHANGED <<dcsVars, view, preFailed, role, pg, wdVars>>

-----------------------------------------------------------------------------
(* The leader race and enforce_primary_role *)

\* process_unhealthy_cluster(): nobody holds the key, as n sees it, and n finds
\* itself the healthiest node (is_healthiest_node is nondeterministic here).
\* attempt_to_acquire_leader() creates the key if there is none; when the answer
\* to a write is lost its retry finds the key and returns False.
Acquire(n) ==
  /\ view[n] = NoNode /\ ~Busy(n) /\ pg[n] # "down"
  /\ \/ /\ owner = NoNode
        /\ WriteKey(n)
        /\ \E to \in {"acquired", "follow", "dcsError"} : Goto(n, {"loaded"}, to)
     \/ /\ UNCHANGED dcsVars
        /\ \E to \in {"follow", "dcsError"} : Goto(n, {"loaded"}, to)
  /\ UNCHANGED <<view, task, preFailed, role, pg, wdVars>>

\* The answer True arrives: set_is_leader(True), and cleaning the failover key.
LeaderAcquired(n) ==
  /\ Goto(n, {"acquired"}, "reload")
  /\ UNCHANGED <<dcsVars, view, task, preFailed, role, pg, wdVars>>

\* load_cluster_from_dcs() after acquiring the lock; what it sees does not
\* change what comes next.
Reload(n) ==
  /\ Goto(n, {"reload"}, "enforce")
  /\ view' = [view EXCEPT ![n] = owner]
  /\ UNCHANGED <<dcsVars, task, preFailed, role, pg, wdVars>>

\* process_manual_failover_from_leader(): a switchover demotes in the background.
Switchover(n) ==
  /\ Goto(n, {"healthy"}, "idle")
  /\ RunTask(n, "graceful")
  /\ UNCHANGED <<dcsVars, view, preFailed, role, pg, wdVars>>

\* enforce_primary_role() when the watchdog cannot be activated.
WatchdogFails(n) ==
  /\ WdMayFail /\ WdTimeout > 0 /\ ~wdOpen[n]
  /\ Goto(n, {"healthy", "enforce"}, IF pg[n] = "primary" THEN "demoteRelease" ELSE "release")
  /\ UNCHANGED <<dcsVars, view, task, preFailed, role, pg, wdVars>>

\* Faulty: enforce_primary_role() that promotes without the watchdog.
EnforceWithoutWatchdog(n) ==
  /\ Goto(n, {"healthy", "enforce"}, "idle")
  /\ RunTask(n, IF pg[n] = "primary" \/ role[n] \in PrimaryRoles THEN task[n] ELSE "prePromote")
  /\ UNCHANGED <<dcsVars, view, preFailed, role, pg, wdVars>>

\* enforce_primary_role(): activate the watchdog unless it is running; give the
\* key up after a failed pre_promote script; otherwise promote, unless postgres
\* is a primary or on its way to be one.
EnforcePrimaryRole(n) ==
  /\ Goto(n, {"healthy", "enforce"}, IF preFailed[n] THEN "release" ELSE "idle")
  /\ wdOpen' = [wdOpen EXCEPT ![n] = WdTimeout > 0]
  /\ wd' = IF wdOpen[n] THEN wd ELSE [wd EXCEPT ![n] = WdTimeout]
  /\ preFailed' = [preFailed EXCEPT ![n] = FALSE]
  /\ role' = IF pg[n] = "primary" /\ ~preFailed[n] THEN [role EXCEPT ![n] = "primary"] ELSE role
  /\ RunTask(n, IF preFailed[n] \/ pg[n] = "primary" \/ role[n] \in PrimaryRoles
                THEN task[n] ELSE "prePromote")
  /\ UNCHANGED <<dcsVars, view, pg>>

\* release_leader_key_voluntarily() in the main thread.
ReleaseKey(n) ==
  /\ Goto(n, {"release"}, "idle")
  /\ DeleteKey(n)
  /\ UNCHANGED <<view, task, preFailed, role, pg, wdVars>>

-----------------------------------------------------------------------------
(* The background tasks *)

TaskStep(n, from, to) ==
  /\ task[n] = from
  /\ RunTask(n, to)

\* Postgresql.promote(): the pre_promote script, then task.complete(ret).
PrePromote(n, ok) ==
  /\ TaskStep(n, "prePromote", IF ok THEN "promote" ELSE "ending")
  /\ preFailed' = [preFailed EXCEPT ![n] = ~ok]
  /\ UNCHANGED <<dcsVars, view, pc, role, pg, wdVars>>

\* pg_ctl promote -W, and the role "promoted" when it succeeds: it needs a
\* running standby.
Promote(n) ==
  /\ TaskStep(n, "promote", "ending")
  /\ pg' = IF pg[n] = "standby" THEN [pg EXCEPT ![n] = "promoting"] ELSE pg
  /\ role' = IF pg[n] = "standby" THEN [role EXCEPT ![n] = "promoted"] ELSE role
  /\ UNCHANGED <<dcsVars, view, pc, preFailed, wdVars>>

\* run_cycle holds the lock of the executor.
InCycle(n) == pc[n] \notin {"idle", "shutdown", "lastRelease"}

\* The task returns (from _wait_promote, in time or not), and the finally clause
\* of AsyncExecutor.run unschedules it under the executor's lock.
TaskEnd(n) ==
  /\ ~InCycle(n)
  /\ TaskStep(n, "ending", "none")
  /\ UNCHANGED <<dcsVars, view, pc, preFailed, role, pg, wdVars>>

\* Faulty: demote() that releases the key before postgres has stopped.
ReleaseBeforeStop(n) ==
  /\ TaskStep(n, "demote", "start") \/ TaskStep(n, "graceful", "gracefulRelease")
  /\ UNCHANGED <<dcsVars, view, pc, preFailed, role, pg, wdVars>>

\* demote() in the background: postgres is stopped; a graceful demote releases
\* the key only then.
DemoteTask(n) ==
  /\ TaskStep(n, "demote", "start") \/ TaskStep(n, "graceful", "gracefulRelease")
  /\ Stopped(n)
  /\ UNCHANGED <<dcsVars, view, pc, preFailed>>

\* release_leader_key_voluntarily() under the executor's lock.
ReleaseTask(n) ==
  /\ ~InCycle(n)
  /\ TaskStep(n, "gracefulRelease", "start")
  /\ DeleteKey(n)
  /\ UNCHANGED <<view, pc, preFailed, role, pg, wdVars>>

\* follow() in the background starts postgres as a standby.
StartStandby(n) ==
  /\ TaskStep(n, "start", "ending")
  /\ pg' = IF pg[n] = "down" THEN [pg EXCEPT ![n] = "standby"] ELSE pg
  /\ UNCHANGED <<dcsVars, view, pc, preFailed, role, wdVars>>

\* 'starting primary after failure'
StartPrimary(n) ==
  /\ TaskStep(n, "startPrimary", "ending")
  /\ pg' = IF pg[n] = "down" THEN [pg EXCEPT ![n] = "primary"] ELSE pg
  /\ UNCHANGED <<dcsVars, view, pc, preFailed, role, wdVars>>

-----------------------------------------------------------------------------
(* demote() in the main thread, and the shutdown of Patroni *)

\* Modes immediate-nolock and immediate: postgres is stopped, then it is started
\* as a standby in the background unless the executor is busy.
DemoteStop(n) ==
  /\ Goto(n, {"demote"}, "idle") \/ Goto(n, {"demoteRelease"}, "release")
  /\ Stopped(n)
  /\ TryRunTask(n, "start")
  /\ UNCHANGED <<dcsVars, view, preFailed>>

\* Mode offline stops postgres and starts it again in the main thread.
DemoteOffline(n) ==
  /\ Goto(n, {"demoteOffline"}, "startOffline")
  /\ Stopped(n)
  /\ UNCHANGED <<dcsVars, view, task, preFailed>>

StartOffline(n) ==
  /\ Goto(n, {"startOffline"}, "idle")
  /\ pg' = IF pg[n] = "down" THEN [pg EXCEPT ![n] = "standby"] ELSE pg
  /\ UNCHANGED <<dcsVars, view, task, preFailed, role, wdVars>>

\* Ha.shutdown(): stops postgres, then deletes the leader key.
Shutdown(n) ==
  /\ ~Busy(n)
  /\ Goto(n, {"idle"}, "shutdown")
  /\ UNCHANGED <<dcsVars, view, task, preFailed, role, pg, wdVars>>

ShutdownStop(n) ==
  /\ Goto(n, {"shutdown"}, "lastRelease")
  /\ Stopped(n)
  /\ UNCHANGED <<dcsVars, view, task, preFailed>>

ShutdownRelease(n) ==
  /\ Goto(n, {"lastRelease"}, "down")
  /\ DeleteKey(n)
  /\ UNCHANGED <<view, task, preFailed, role, pg, wdVars>>

-----------------------------------------------------------------------------
(* Postgres, crashes and time *)

\* pg_ctl promote -W does not wait: the standby leaves recovery later.
ExitRecovery(n) ==
  /\ pg[n] = "promoting"
  /\ pg' = [pg EXCEPT ![n] = "primary"]
  /\ UNCHANGED <<dcsVars, haVars, wdVars>>

PgCrash(n) ==
  /\ pg[n] # "down"
  /\ pg' = [pg EXCEPT ![n] = "down"]
  /\ UNCHANGED <<dcsVars, haVars, wdVars>>

\* Patroni dies: postgres and the timer of the watchdog device go on.
PatroniCrash(n) ==
  /\ pc[n] # "down"
  /\ pg[n] = "promoting" => DiesPromoting
  /\ pc' = [pc EXCEPT ![n] = "down"]
  /\ RunTask(n, "none")
  /\ preFailed' = [preFailed EXCEPT ![n] = FALSE]
  /\ wdOpen' = [wdOpen EXCEPT ![n] = FALSE]
  /\ UNCHANGED <<dcsVars, view, role, pg, wd>>

\* A new Patroni finds a running primary by itself.
PatroniStart(n) ==
  /\ Goto(n, {"down"}, "idle")
  /\ view' = [view EXCEPT ![n] = NoNode]
  /\ role' = [role EXCEPT ![n] = IF pg[n] = "primary" THEN "primary" ELSE "replica"]
  /\ UNCHANGED <<dcsVars, task, preFailed, pg, wdVars>>

\* The answer to a write of the key is on its way or being acted upon.
InWindow(n) == pc[n] \in {"acquired", "reload", "updated", "healthy", "enforce"}

\* The timing assumption: the watchdog is activated within MaxActivate of the
\* write that made n the owner.  Nothing is assumed of any other delay.
ActivatedInTime(n) ==
  (InWindow(n) /\ ~wdOpen[n] /\ owner = n) => keyTtl > TTL - MaxActivate

\* One unit of time passes.  The DCS drops the key at the end of its life, and
\* a watchdog that reaches zero resets its machine.
Tick ==
  LET Fires == {n \in Node : wd[n] = 1}
      After(f, value) == [n \in Node |-> IF n \in Fires THEN value ELSE f[n]]
  IN  /\ \A n \in Node : ActivatedInTime(n)
      /\ keyTtl' = IF keyTtl = 0 THEN 0 ELSE keyTtl - 1
      /\ owner' = IF keyTtl <= 1 THEN NoNode ELSE owner
      /\ wd' = [n \in Node |-> IF wd[n] = 0 THEN 0 ELSE wd[n] - 1]
      /\ pc' = After(pc, "down")
      /\ task' = After(task, "none")
      /\ pg' = After(pg, "down")
      /\ role' = After(role, "replica")
      /\ preFailed' = After(preFailed, FALSE)
      /\ wdOpen' = After(wdOpen, FALSE)
      /\ UNCHANGED view

\* A foreign member takes the key when it is free, renews it, or lets it expire.
ForeignKey(n) ==
  /\ owner \in {n, NoNode}
  /\ WriteKey(n)
  /\ UNCHANGED <<haVars, pg, wdVars>>

-----------------------------------------------------------------------------
CycleStep(n) ==
  \/ LoadCluster(n) \/ LoadFails(n) \/ UpdateLeader(n) \/ LeaderUpdated(n)
  \/ LostLockWhileBusy(n) \/ RecoverWithoutLock(n) \/ Recover(n) \/ RecoverByFailover(n)
  \/ Follow(n) \/ HandleDcsError(n)
  \/ Acquire(n) \/ LeaderAcquired(n) \/ Reload(n) \/ Switchover(n)
  \/ WatchdogFails(n) \/ EnforcePrimaryRole(n) \/ ReleaseKey(n)
  \/ DemoteStop(n) \/ DemoteOffline(n) \/ StartOffline(n)

TaskRuns(n) ==
  \/ \E ok \in BOOLEAN : PrePromote(n, ok)
  \/ Promote(n) \/ TaskEnd(n) \/ DemoteTask(n) \/ ReleaseTask(n)
  \/ StartStandby(n) \/ StartPrimary(n)

Environment(n) ==
  \/ ExitRecovery(n) \/ PgCrash(n) \/ PatroniCrash(n) \/ PatroniStart(n)
  \/ Shutdown(n) \/ ShutdownStop(n) \/ ShutdownRelease(n)

Next ==
  \/ Tick
  \/ \E n \in Node \ Foreign : CycleStep(n) \/ TaskRuns(n) \/ Environment(n)
  \/ \E n \in Foreign : ForeignKey(n)

Spec == Init /\ [][Next]_vars

-----------------------------------------------------------------------------
(* Properties *)

Active(n) == pg[n] \in {"promoting", "primary"}

\* No two nodes run a primary, or are on their way out of recovery, at once.
AtMostOnePrimary == \A m, n \in Node : Active(m) /\ Active(n) => m = n

\* "Patroni needs to ensure PostgreSQL will not accept any transaction commits
\* after leader key expires in the DCS" (docs/watchdog.rst).
PrimaryHoldsKey == \A n \in Node : Active(n) => owner = n

\* The node that runs a primary or is promoting to one.
PrimaryNode ==
  IF \E n \in Node : Active(n) THEN CHOOSE n \in Node : Active(n) ELSE NoNode

\* The cluster implements the abstract lock on the right to run a primary.
Lock == INSTANCE LeaderLock WITH holder <- owner, primary <- PrimaryNode
ImplementsLock == Lock!Spec

\* "While watchdog is active keepalive needs to be called every time loop_wait
\* expires" (watchdog/base.py): also by a node that only follows in this cycle.
KeptAlive ==
  [][\A n \in Node : (Follow(n) /\ pg[n] = "standby" /\ wdOpen[n]) => wd'[n] = WdTimeout]_vars

\* The HA loop, the background tasks and time go on.  A task ends although the
\* HA loop takes the executor's lock in every cycle.
Fairness ==
  /\ WF_vars(Tick)
  /\ \A n \in Node \ Foreign :
       /\ WF_vars(CycleStep(n)) /\ WF_vars(PatroniStart(n))
       /\ WF_vars(ShutdownStop(n)) /\ WF_vars(ShutdownRelease(n))
       /\ WF_vars(TaskRuns(n)) /\ SF_vars(TaskEnd(n)) /\ SF_vars(ReleaseTask(n))

FairSpec == Spec /\ Fairness

\* Even without a watchdog a primary that lost the key stops being one, unless
\* it takes the key again, if its Patroni does not keep dying.
StalePrimaryStops ==
  \A n \in Node \ Foreign : <>[](pc[n] # "down") =>
    ((pg[n] = "primary" /\ owner # n) ~> (pg[n] # "primary" \/ owner = n))

-----------------------------------------------------------------------------
(* The inductive invariant behind PrimaryHoldsKey, for a watchdog that is on *)
(* (WdTimeout > 0), 2 * WdTimeout <= TTL, MaxActivate + WdTimeout <= TTL and  *)
(* ~DiesPromoting.  LeaderLeaseProofs proves it.                              *)

\* n holds the key, and its watchdog fires no later than the key expires.
Fenced(n) == owner = n /\ 0 < wd[n] /\ wd[n] <= keyTtl

Promoting(n) == task[n] \in {"prePromote", "promote"}

\* A primary, and a task that is about to make one, is fenced.
FencedInv(n) == (Active(n) \/ Promoting(n) \/ task[n] = "startPrimary") => Fenced(n)

\* A watchdog armed before the key was written leaves the whole key life but
\* what it has used up of its own; without one, time is bounded by MaxActivate.
WindowInv(n) ==
  /\ pc[n] \in {"acquired", "reload", "updated", "enforce"} /\ wd[n] > 0 =>
       owner = n /\ keyTtl >= TTL - WdTimeout + wd[n]
  /\ pc[n] \in {"healthy", "recover"} /\ wd[n] > 0 => Fenced(n)
  /\ InWindow(n) /\ ~wdOpen[n] /\ ~Busy(n) => owner = n /\ keyTtl >= TTL - MaxActivate

\* Which steps can meet which tasks, roles and states of postgres.
ControlInv(n) ==
  /\ pc[n] \in {"acquired", "reload", "enforce", "healthy", "recover", "follow",
                "shutdown", "lastRelease", "down"} => ~Busy(n)
  /\ pc[n] \in {"recover", "lastRelease"} => pg[n] = "down"
  /\ wdOpen[n] => wd[n] > 0
  /\ role[n] \in PrimaryRoles => wd[n] > 0
  /\ Active(n) => role[n] \in PrimaryRoles
  /\ pg[n] = "promoting" => wdOpen[n] /\ pc[n] # "down"
  /\ pc[n] = "release" \/ task[n] = "gracefulRelease" => ~Active(n)
  /\ pc[n] = "release" => ~Promoting(n) /\ task[n] # "startPrimary"
  /\ Promoting(n) => role[n] = "replica" /\ wdOpen[n]
  /\ task[n] = "startPrimary" => role[n] = "primary" /\ pg[n] = "down"
  /\ Promoting(n) \/ task[n] = "startPrimary" =>
       ~preFailed[n] /\ pc[n] \notin {"demote", "demoteRelease", "demoteOffline", "startOffline"}
  /\ preFailed[n] => role[n] = "replica"

NodeInv(n) == FencedInv(n) /\ WindowInv(n) /\ ControlInv(n)

LeaseInv == TypeOK /\ \A n \in Node : NodeInv(n)
=============================================================================
