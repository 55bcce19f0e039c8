------------------------------ MODULE Callbacks ------------------------------
(***************************************************************************)
(* The callback scripts of one node: when postgresql/__init__.py calls     *)
(* them while it starts, stops, restarts, promotes and follows, and how    *)
(* the thread of callback_executor.py runs one at a time.                  *)
(*                                                                         *)
(* Left out: on_reload, which has an executor of its own, and stops that   *)
(* fail.  Every callback is configured.                                    *)
(***************************************************************************)
EXTENDS Naturals

CONSTANTS
  Odd    \* see odd

CallbacksAssumption == Odd \subseteq BOOLEAN

VARIABLES
  odd,       \* whether these happen at all: the HA loop of a paused cluster finds postgres starting,
             \* Patroni is restarted while postgres is promoted, somebody else promotes postgres
  standby,   \* is_standby_cluster(): the same all the time
  lock,      \* has_lock()
  paused,
  pg,        \* what postgres is
  state,     \* Postgresql.state
  role,      \* Postgresql.role
  called,    \* __cb_called
  pending,   \* __cb_pending
  pc,        \* where the thread that controls postgres is
  change,    \* change_role of follow()
  call,      \* CallbackExecutor.call(): the step it is at, and the command
  slot,      \* CallbackExecutor._cmd
  thread,    \* CallbackExecutor.run(): the step it is at, and the command
  script,    \* the process: running, killed (with children that still run), or ended
  told       \* the last command that was run

envVars == <<odd, standby, lock, paused>>
pgVars == <<pg, state, role, called, pending, pc, change>>
vars == <<envVars, pgVars, call, slot, thread, script, told>>

Roles == {"replica", "standby_leader", "master", "promoted", "demoted"}
Starting == {"startRecovery", "startPrimary"}
NoCmd == [stop |-> FALSE, role |-> "none"]

\* A script is told the kind of the callback (only on_stop is told apart) and the role.
Command == [stop : BOOLEAN, role : Roles \ {"promoted"}]
Cmd(stop, r) == [stop |-> stop, role |-> IF r = "promoted" THEN "master" ELSE r]

Idle == [at |-> "idle", cmd |-> NoCmd]

\* Patroni joins a postgres that runs in PatroniRestarts.
Init ==
  /\ odd \in Odd /\ standby \in BOOLEAN /\ lock = FALSE /\ paused = FALSE
  /\ pg = "down" /\ state = "stopped" /\ role \in {"demoted", "replica"}
  /\ called = FALSE /\ pending = "none" /\ pc = "idle" /\ change = FALSE
  /\ call = Idle /\ slot = NoCmd /\ thread = Idle /\ script = "ended" /\ told = NoCmd

-----------------------------------------------------------------------------
(* The executor *)

\* call() begins with killing the command that runs, with its children; it may fail.  A command that
\* was killed before and has children is not killed again.
KillProcess ==
  /\ call.at = "kill"
  /\ call' = [call EXCEPT !.at = "put"]
  /\ script' \in (IF script = "running" THEN {"running", "killed"} ELSE {script})
  /\ UNCHANGED <<envVars, pgVars, slot, thread, told>>

\* Then the command is put where the thread finds it: one that is still there is replaced.
Put ==
  /\ call.at = "put"
  /\ slot' = call.cmd /\ call' = Idle
  /\ thread' = IF thread.at = "wait" THEN [thread EXCEPT !.at = "idle"] ELSE thread
  /\ UNCHANGED <<envVars, pgVars, script, told>>

\* run() waits for the condition if there is no command, and takes it otherwise.
Take ==
  /\ thread.at = "idle"
  /\ thread' = IF slot = NoCmd THEN [thread EXCEPT !.at = "wait"] ELSE [at |-> "taken", cmd |-> slot]
  /\ slot' = NoCmd
  /\ UNCHANGED <<envVars, pgVars, call, script, told>>

\* It may not be possible to start it.
StartProcess ==
  /\ thread.at = "taken"
  /\ told' = thread.cmd
  /\ \/ script' = "running" /\ thread' = [thread EXCEPT !.at = "started"]
     \/ script' = script /\ thread' = Idle
  /\ UNCHANGED <<envVars, pgVars, call, slot>>

ScriptEnds ==
  /\ script = "running" /\ script' = "ended"
  /\ UNCHANGED <<envVars, pgVars, call, slot, thread, told>>

\* The command is cleared when its process has ended.
ClearAtEnd ==
  /\ thread.at = "started" /\ script # "running"
  /\ script' = "ended" /\ thread' = Idle /\ slot' = NoCmd
  /\ UNCHANGED <<envVars, pgVars, call, told>>

\* The process is gone; the children of one that was killed are killed now.
KillChildren ==
  /\ thread.at = "started" /\ script # "running"
  /\ script' = "ended" /\ thread' = Idle
  /\ UNCHANGED <<envVars, pgVars, call, slot, told>>

-----------------------------------------------------------------------------
(* Postgresql *)

At(step) == pc = step /\ call = Idle
Rest == UNCHANGED <<envVars, slot, thread, script, told>>

\* call_nowait()
CallNowait(stop, r) == call' = [at |-> "kill", cmd |-> Cmd(stop, r)] /\ called' = TRUE
NoCall == UNCHANGED <<call, called>>

\* start(): postgres is started, or is not (it may be cancelled).  next: the pending callback.
Start(into, r, next) ==
  /\ pg' \in {into, "down"} /\ state' = "starting" /\ role' = r /\ pending' = next
  /\ pc' = "starting" /\ NoCall /\ Rest

\* check_startup_state_changed(): pg_isready says that postgres runs, or is not understood; or it is gone.
StartupStateChanged ==
  \/ /\ pg # "down" /\ state' = "running" /\ pending' = "none"
     /\ IF pending = "noop" THEN NoCall ELSE CallNowait(FALSE, role)
  \/ pg = "down" /\ state' = "stopped" /\ NoCall /\ UNCHANGED pending

\* wait_for_startup(): it may take too long, or be cancelled.
WaitForStartup ==
  /\ At("starting")
  /\ StartupStateChanged \/ (NoCall /\ UNCHANGED <<state, pending>>)
  /\ pc' = IF change THEN "roleChange" ELSE "idle"
  /\ UNCHANGED <<pg, role, change>> /\ Rest

\* follow() ends.
RoleChange ==
  /\ At("roleChange") /\ CallNowait(FALSE, role)
  /\ pc' = "idle" /\ change' = FALSE
  /\ UNCHANGED <<pg, state, role, pending>> /\ Rest

\* change_role: on_role_change is called instead of on_start or on_restart.
ChangesRole(r) == called /\ (role \in {"master", "demoted"} \/ {role, r} = {"replica", "standby_leader"})

\* follow(): postgres is started or restarted as a standby.
Follow(r) ==
  /\ change' = ChangesRole(r)
  /\ Start("startRecovery", r, IF ChangesRole(r) THEN "noop" ELSE "call")

\* follow(): postgres reads its configuration again, if pg_ctl does not fail.
Reload(r) ==
  LET changes == ChangesRole(r) IN
  /\ change' = changes /\ pc' = IF changes THEN "roleChange" ELSE "idle"
  /\ pending' = IF changes THEN "noop" ELSE pending
  /\ role' \in (IF changes THEN {role, r} ELSE {role})
  /\ NoCall /\ UNCHANGED <<pg, state>> /\ Rest

\* stop(): called while the role is r.
Stop(r) ==
  /\ pg' = "down" /\ state' = "stopped"
  /\ IF pg = "down" THEN NoCall ELSE CallNowait(TRUE, r)
  /\ UNCHANGED <<pending, change, pc>> /\ Rest

-----------------------------------------------------------------------------
(* Ha *)

FollowRole == IF standby /\ lock THEN "standby_leader" ELSE "replica"

\* handle_starting_instance().  In a paused cluster a postgres that starts counts as one that runs.
HandleStartingInstance ==
  /\ At("idle") /\ state = "starting"
  /\ \/ StartupStateChanged
     \/ /\ odd /\ paused /\ state' = (IF pg = "down" THEN "stopped" ELSE "running")
        /\ NoCall /\ UNCHANGED pending
  /\ UNCHANGED <<pg, role, pc, change>> /\ Rest

\* recover(): a primary that crashed is started as such if it has the lock, anything else as a standby.
Recover ==
  /\ At("idle") /\ pg = "down" /\ (~paused \/ role = "demoted")
  /\ \/ /\ lock /\ ~standby /\ role = "master" /\ state = "running"
        /\ Start("startPrimary", "master", "call") /\ UNCHANGED change
     \/ Follow(FollowRole)

\* post_recover(): postgres did not start, and the leader gives up.
PostRecover ==
  /\ At("idle") /\ pg = "down" /\ state = "stopped" /\ lock /\ role \in {"master", "standby_leader"}
  /\ role' = "demoted"
  /\ NoCall /\ UNCHANGED <<pg, state, pending, pc, change>> /\ Rest

\* follow() of ha.py
FollowLeader ==
  /\ At("idle") /\ pg \in {"startRecovery", "recovery", "promoting"} /\ (~lock \/ standby)
  /\ \/ Follow(FollowRole)
     \/ Reload(FollowRole)
     \/ \* nothing to be changed
        /\ FollowRole = "standby_leader" /\ role # "standby_leader"
        /\ role' = "standby_leader" /\ CallNowait(FALSE, "standby_leader")
        /\ UNCHANGED <<pg, state, pending, pc, change>> /\ Rest

\* enforce_primary_role() and follow() in a paused cluster: Patroni is told what postgres is, the script is not.
NoteRole ==
  /\ At("idle") /\ state = "running" /\ pg \in {"recovery", "promoting", "primary"}
  /\ \/ pg = "primary" /\ (paused \/ lock) /\ role' = "master"
     \/ pg # "primary" /\ paused /\ ~lock /\ role # "standby_leader" /\ role' = "replica"
  /\ NoCall /\ UNCHANGED <<pg, state, pending, pc, change>> /\ Rest

\* The callback is called before the role is set.
PromoteLate ==
  /\ At("idle") /\ pg = "recovery" /\ state = "running"
  /\ lock /\ ~standby /\ role \notin {"master", "promoted"}
  /\ pg' = "promoting" /\ role' = "promoted" /\ CallNowait(FALSE, role)
  /\ UNCHANGED <<state, pending, pc, change>> /\ Rest

Promote ==
  /\ At("idle") /\ pg = "recovery" /\ state = "running"
  /\ lock /\ ~standby /\ role \notin {"master", "promoted"}
  /\ pg' = "promoting" /\ role' = "promoted" /\ CallNowait(FALSE, "promoted")
  /\ UNCHANGED <<state, pending, pc, change>> /\ Rest

\* demote(): the role may change before postgres has stopped, or after; on_stop is called in between.
Demote ==
  /\ At("idle") /\ pg \in {"down", "startPrimary", "primary"} /\ role = "master" /\ (lock \/ ~paused)
  /\ role' = "demoted" /\ \E r \in {"master", "demoted"} : Stop(r)

\* _do_reinitialize()
Reinitialize ==
  /\ At("idle") /\ ~lock /\ pg \in {"startRecovery", "recovery"}
  /\ Stop(role) /\ UNCHANGED role

\* restart() as an operator wants it: the role is what the data directory says.
Restart ==
  /\ At("idle") /\ pg \in {"recovery", "promoting", "primary"} /\ state = "running"
  /\ \/ pg # "primary" /\ Start("startRecovery", "replica", "call")
     \/ pg # "recovery" /\ Start("startPrimary", "master", "call")
  /\ UNCHANGED change

\* The end of a cycle, if nothing has been called before.
FirstCall ==
  /\ At("idle") /\ ~called /\ pg # "down" /\ state # "starting"
  /\ CallNowait(FALSE, role)
  /\ UNCHANGED <<pg, state, role, pending, pc, change>> /\ Rest

\* Patroni is killed and started again, with the postgres it finds; what its scripts do is not known.
PatroniRestarts ==
  /\ odd \/ pg # "promoting"
  /\ slot' = NoCmd /\ thread' = Idle /\ script' = "ended" /\ pc' = "idle" /\ change' = FALSE
  /\ pending' = "none"
  /\ LET r == IF pg \in {"startPrimary", "primary"} THEN "master" ELSE "replica" IN
     \/ /\ pg \in {"recovery", "promoting", "primary"} /\ state' = "running" /\ role' = r
        /\ CallNowait(FALSE, r)
     \/ /\ pg \in Starting /\ state' = "starting" /\ role' = r
        /\ call' = Idle /\ called' = FALSE
     \/ /\ pg = "down" /\ state' = "stopped" /\ role' \in {"demoted", "replica"}
        /\ call' = Idle /\ called' = FALSE
  /\ UNCHANGED <<pg, envVars, told>>

-----------------------------------------------------------------------------
(* What the others do *)

\* The leader key is taken, lost or released; a paused cluster does not promote.
LockChanges ==
  /\ lock' = ~lock
  /\ UNCHANGED <<odd, standby, paused, pgVars, call, slot, thread, script, told>>

Pauses ==
  /\ paused' = ~paused
  /\ UNCHANGED <<odd, standby, lock, pgVars, call, slot, thread, script, told>>

PostgresMoves ==
  /\ \/ pg = "startRecovery" /\ pg' = "recovery"
     \/ pg \in {"startPrimary", "promoting"} /\ pg' = "primary"
     \/ odd /\ pg = "recovery" /\ pg' = "primary"
     \/ pg # "down" /\ pg' = "down"
  /\ UNCHANGED <<envVars, state, role, called, pending, pc, change, call, slot, thread, script, told>>

Next ==
  \/ KillProcess \/ Put \/ Take \/ StartProcess \/ ScriptEnds \/ KillChildren
  \/ WaitForStartup \/ RoleChange \/ HandleStartingInstance \/ Recover \/ PostRecover \/ FollowLeader
  \/ NoteRole \/ Promote \/ Demote \/ Reinitialize \/ Restart \/ FirstCall \/ PatroniRestarts
  \/ LockChanges \/ Pauses \/ PostgresMoves

Spec == Init /\ [][Next]_vars

-----------------------------------------------------------------------------
(* Properties *)

\* Every variable has its type.
TypeOK ==
  /\ odd \in BOOLEAN /\ standby \in BOOLEAN /\ lock \in BOOLEAN /\ paused \in BOOLEAN
  /\ pg \in Starting \cup {"down", "recovery", "promoting", "primary"}
  /\ state \in {"stopped", "starting", "running"} /\ role \in Roles
  /\ called \in BOOLEAN /\ pending \in {"none", "noop", "call"}
  /\ pc \in {"idle", "starting", "roleChange"} /\ change \in BOOLEAN
  /\ call.at \in {"idle", "kill", "put"} /\ call.cmd \in Command \cup {NoCmd}
  /\ slot \in Command \cup {NoCmd} /\ told \in Command \cup {NoCmd}
  /\ thread.at \in {"idle", "wait", "taken", "started"} /\ thread.cmd \in Command \cup {NoCmd}
  /\ script \in {"running", "killed", "ended"}

\* When all is quiet, the last callback has told its script what postgres is now: that it runs, and
\* as what.  (callback_executor.py:50-81; postgresql/__init__.py:652, 974, 1130, 1216)
LastTold ==
  ~odd /\ thread.at = "wait" /\ At("idle") /\ called /\ state = "running" /\ pg \in {"recovery", "primary"} =>
    /\ slot = NoCmd /\ script = "ended"
    /\ ~told.stop
    /\ told.role = IF pg = "primary" THEN "master" ELSE role
==============================================================================
