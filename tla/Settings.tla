------------------------------ MODULE Settings ------------------------------
(***************************************************************************)
(* How a change of the dynamic configuration reaches postgres: the /config *)
(* key and those who edit it (api.py, ctl.py), the configuration a node    *)
(* has in memory (config.py), reload_config() of the main thread           *)
(* (__main__.py, postgresql/config.py), and a restart of postgres in       *)
(* another thread (ha.py, postgresql/__init__.py).  One node.              *)
(*                                                                         *)
(* The settings are conn, which stands for those postgres reads when it is *)
(* started and a standby must not have lower than its primary, and mem,    *)
(* which stands for those it reads when it is told to reload.              *)
(***************************************************************************)
EXTENDS Naturals

CONSTANTS
  Client,       \* threads of the REST API and runs of patronictl
  Modern,       \* whether postgres is version 12 or newer
  MaxVer,       \* bound: versions of /config
  MaxRestarts,  \* bound: restarts that are asked for
  MaxFaults     \* bound: crashes, failures and edits of the configuration file

SettingsAssumption ==
  /\ Modern \in BOOLEAN
  /\ MaxVer \in Nat \ {0} /\ MaxRestarts \in Nat /\ MaxFaults \in Nat

VARIABLES
  conf,       \* /config: its version and what it says
  client,     \* what each client read, and wants to write
  dyn, modv,  \* _dynamic_configuration and _modify_version
  saved,      \* patroni.dynamic.json
  unsaved,    \* _cache_needs_saving
  disk, used, \* mem in the configuration file, and in _local_configuration; 0: not there
  sighup,     \* _received_sighup
  pc, view,   \* the main thread, and /config as it has loaded it
  rl,         \* reload_config() in progress
  want,       \* _server_parameters
  file,       \* postgresql.conf
  run,        \* what postgres runs with
  pg,         \* the postmaster
  control,    \* conn in the control file: of a standby, what the WAL of its primary says
  state, role,\* what Patroni thinks of postgres
  pending,    \* whether conn is in _pending_restart_reason
  task, launch,  \* the background thread, and the settings it starts postgres with
  sched,      \* scheduled_restart
  clean, behind, \* history: see SettingsTrue
  left        \* restarts and faults that may still come

documents == <<conf, client>>
memory == <<dyn, modv, saved, unsaved, used, view>>
server == <<file, run, pg, control>>
thread == <<task, launch>>
history == <<clean, behind>>
vars == <<documents, memory, disk, sighup, pc, rl, want, server, state, role, pending,
          thread, sched, history, left>>

\* conn = 0 is a value that CMDLINE_OPTIONS does not accept; ok is FALSE when a value
\* cannot be converted at all.
Document == [conn : 0 .. 2, mem : 1 .. 2, ok : BOOLEAN]
First == [conn |-> 1, mem |-> 1, ok |-> TRUE]
Default == 1
NoRestart == [set |-> FALSE, onlyPending |-> FALSE, stale |-> FALSE]
Reloading == {"compare", "assign", "flag"}

\* _build_effective_configuration(): the file wins, but has no say in conn.
Effective(d, localMem) ==
  [conn |-> IF d.conn = 0 THEN Default ELSE d.conn,
   mem |-> IF localMem = 0 THEN d.mem ELSE localMem]

New == Effective(dyn, used)

Init ==
  /\ conf = [ver |-> 1, data |-> First]
  /\ client = [c \in Client |-> [op |-> "none", ver |-> 0, data |-> First]]
  /\ dyn = First /\ modv = 1 /\ saved = First /\ unsaved = FALSE
  /\ disk = 0 /\ used = 0 /\ sighup = FALSE
  /\ pc = "start" /\ view = conf
  /\ rl = [sighup |-> FALSE, changed |-> FALSE, diff |-> FALSE, whole |-> FALSE]
  /\ want = Effective(First, 0) /\ file = want /\ run = want
  /\ pg = "up" /\ control = 1
  /\ state = "running" /\ role \in {"primary", "replica"}
  /\ pending = FALSE
  /\ task = "none" /\ launch = want
  /\ sched = NoRestart
  /\ clean = TRUE /\ behind = FALSE
  /\ left = [restarts |-> MaxRestarts, faults |-> MaxFaults]

Fault == left.faults > 0 /\ left' = [left EXCEPT !.faults = @ - 1]
Asked == left.restarts > 0 /\ left' = [left EXCEPT !.restarts = @ - 1]

-----------------------------------------------------------------------------
(* /config *)

\* What is written over a document: one key of it is set.
Patched(d) ==
  {[d EXCEPT !.conn = x] : x \in 0 .. 2} \cup {[d EXCEPT !.mem = x] : x \in 1 .. 2}
    \cup {[d EXCEPT !.ok = x] : x \in BOOLEAN}

ReadConfig(c) ==
  /\ client[c].op = "none"
  /\ \E op \in {"patch", "put"} : client' = [client EXCEPT ![c] = [op |-> op, ver |-> conf.ver, data |-> conf.data]]
  /\ UNCHANGED <<conf, memory, disk, sighup, pc, rl, want, server, state, role, pending, thread, sched, history, left>>

StoreConfig(c, d) ==
  /\ conf.ver < MaxVer
  /\ conf' = [ver |-> conf.ver + 1, data |-> d]

\* PATCH /config and patronictl edit-config: compare and set, 409 when it is refused.
PatchConfig(c) ==
  /\ client[c].op = "patch"
  /\ \/ \E d \in Patched(client[c].data) \ {client[c].data} : conf.ver = client[c].ver /\ StoreConfig(c, d)
     \/ UNCHANGED conf
  /\ client' = [client EXCEPT ![c].op = "none", ![c].ver = 0, ![c].data = First]
  /\ UNCHANGED <<memory, disk, sighup, pc, rl, want, server, state, role, pending, thread, sched, history, left>>

\* PUT /config: whatever is there.
PutConfig(c) ==
  /\ client[c].op = "put"
  /\ \E d \in {x \in Document : x.ok /\ x.conn # 0} \ {client[c].data} : StoreConfig(c, d)
  /\ client' = [client EXCEPT ![c].op = "none", ![c].ver = 0, ![c].data = First]
  /\ UNCHANGED <<memory, disk, sighup, pc, rl, want, server, state, role, pending, thread, sched, history, left>>

\* The configuration file is edited.
EditFile ==
  /\ Fault
  /\ disk' = 2 - disk
  /\ UNCHANGED <<documents, memory, sighup, pc, rl, want, server, state, role, pending, thread, sched, history>>

\* SIGHUP, or POST /reload.
Sighup ==
  /\ ~sighup /\ disk # used
  /\ sighup' = TRUE
  /\ UNCHANGED <<documents, memory, disk, pc, rl, want, server, state, role, pending, thread, sched, history, left>>

-----------------------------------------------------------------------------
(* The main thread *)

\* run(): a SIGHUP is looked at between two cycles.  The file may not be readable.
BeginCycle ==
  /\ pc = "start"
  /\ \/ /\ sighup
        /\ sighup' = FALSE
        /\ used' \in {used, disk}
        /\ rl' = [rl EXCEPT !.sighup = TRUE]
        /\ pc' = "compare"
     \/ /\ ~sighup
        /\ pc' = "load"
        /\ UNCHANGED <<sighup, used, rl>>
  /\ UNCHANGED <<documents, dyn, modv, saved, unsaved, view, disk, want, server, state, role, pending, thread, sched, history, left>>

\* load_cluster_from_dcs(); when it fails the cluster of before is still there.
LoadCluster ==
  /\ pc = "load"
  /\ view' \in {view, conf}
  /\ pc' = "ha"
  /\ UNCHANGED <<documents, dyn, modv, saved, unsaved, used, disk, sighup, rl, want, server, state, role, pending, thread, sched, history, left>>

\* handle_starting_instance() with check_startup_state_changed().
HandleStarting ==
  /\ pc = "ha" /\ task = "none" /\ state = "starting"
  /\ \/ pg = "up" /\ state' = "running" /\ UNCHANGED pc
     \/ pg \in {"down", "refused"} /\ state' = "failed" /\ UNCHANGED pc
     \/ pg = "booting" /\ pc' = "apply" /\ UNCHANGED state
  /\ UNCHANGED <<documents, memory, disk, sighup, rl, want, server, role, pending, thread, sched, history, left>>

\* recover(): postgres is started again, as a standby if it was one or has lost its key.
Recover ==
  /\ pc = "ha" /\ task = "none" /\ state # "starting" /\ pg \in {"down", "refused"}
  /\ role' \in {role, "replica"}
  /\ task' = "read"
  /\ pc' = "apply"
  /\ UNCHANGED <<documents, memory, disk, sighup, rl, want, server, state, pending, launch, sched, history, left>>

\* evaluate_scheduled_restart(), up to the call of restart().
EvaluateRestart ==
  /\ pc = "ha" /\ task = "none" /\ state # "starting" /\ pg \notin {"down", "refused"}
  /\ sched.set
  /\ \/ sched.stale /\ sched' = NoRestart /\ pc' = "apply"  \* postgres was started meanwhile, or it is too late
     \/ ~sched.stale /\ pc' \in {"apply", "restart"} /\ UNCHANGED sched
  /\ UNCHANGED <<documents, memory, disk, sighup, rl, want, server, state, role, pending, thread, history, left>>

\* The rest of the cycle is no concern of this module.
HaCycle ==
  /\ pc = "ha"
  /\ \/ task # "none"
     \/ state # "starting" /\ pg \notin {"down", "refused"} /\ ~sched.set
  /\ pc' = "apply"
  /\ UNCHANGED <<documents, memory, disk, sighup, rl, want, server, state, role, pending, thread, sched, history, left>>

RestartMatches(onlyPending) == onlyPending => pending

\* A background thread gets to work while reload_config() may be under way.
StartTask ==
  /\ task' = "stop"
  /\ rl' = [rl EXCEPT !.whole = FALSE]
  /\ UNCHANGED launch

\* restart(run_async=True) of the main thread; the schedule is deleted in any case.
ScheduledRestart ==
  /\ pc = "restart"
  /\ IF RestartMatches(sched.onlyPending) /\ task = "none"
     THEN StartTask
     ELSE UNCHANGED <<thread, rl>>
  /\ sched' = NoRestart
  /\ pc' = "apply"
  /\ UNCHANGED <<documents, memory, disk, sighup, want, server, state, role, pending, history, left>>

\* set_dynamic_configuration(): a version is looked at once, whatever comes of it.
SetDynamic ==
  /\ pc = "apply"
  /\ modv' = view.ver
  /\ IF view.ver # modv /\ view.data # dyn /\ view.data.ok
     THEN dyn' = view.data /\ unsaved' = TRUE /\ pc' = "compare"
     ELSE pc' = "save" /\ UNCHANGED <<dyn, unsaved>>
  /\ rl' = [rl EXCEPT !.sighup = FALSE]
  /\ UNCHANGED <<documents, saved, used, view, disk, sighup, want, server, state, role, pending, thread, sched, history, left>>

\* save_cache(); a failure is logged, and it is tried again in the next cycle.
SaveCache ==
  /\ pc = "save"
  /\ \/ unsaved /\ saved' = dyn /\ unsaved' = FALSE /\ UNCHANGED left
     \/ unsaved /\ Fault /\ UNCHANGED <<saved, unsaved>>
     \/ ~unsaved /\ UNCHANGED <<saved, unsaved, left>>
  /\ pc' = "start"
  /\ UNCHANGED <<documents, dyn, modv, used, view, disk, sighup, rl, want, server, state, role, pending, thread, sched, history>>

-----------------------------------------------------------------------------
(* reload_config() *)

AfterReload == IF rl.sighup THEN "load" ELSE "save"

\* Faulty: a value that is set back to what postgres runs with is no change.
DiffersFromRunning(new) == \E p \in {"conn", "mem"} : new[p] # run[p]

\* What has to be written: what postgres does not run with, and what was set back to that.
Differs(new) ==
  \E p \in {"conn", "mem"} : new[p] # run[p] \/ want[p] # run[p]

\* The settings of the running postgres are looked at, if Patroni thinks it runs.
ReloadCompare ==
  /\ pc = "compare"
  /\ \/ /\ state = "running" /\ pg = "up"
        /\ rl' = [rl EXCEPT !.changed = Differs(New), !.diff = New.conn # run.conn, !.whole = task = "none"]
     \/ /\ state # "running"
        /\ rl' = [rl EXCEPT !.changed = FALSE, !.diff = FALSE, !.whole = FALSE]
  /\ clean' = (clean /\ rl'.whole)
  /\ pc' = "assign"
  /\ UNCHANGED <<documents, memory, disk, sighup, want, server, state, role, pending, thread, sched, behind, left>>

\* The query fails: Patroni.reload_config() logs it, and it is not tried again.
ReloadRaises ==
  /\ pc = "compare"
  /\ state = "running"
  /\ \/ pg # "up" /\ UNCHANGED left
     \/ pg = "up" /\ Fault
  /\ clean' = FALSE /\ behind' = TRUE
  /\ pc' = AfterReload
  /\ UNCHANGED <<documents, memory, disk, sighup, rl, want, server, state, role, pending, thread, sched>>

\* The new settings are taken, written, and postgres is told.
ReloadAssign ==
  /\ pc = "assign"
  /\ want' = New
  /\ behind' = FALSE
  /\ file' = IF rl.changed THEN New ELSE file
  /\ IF rl.changed \/ rl.sighup
     THEN /\ run' = IF pg = "up" THEN [run EXCEPT !.mem = file'.mem] ELSE run
          /\ pc' = "flag"
          /\ UNCHANGED pending
     ELSE /\ pending' = rl.diff
          /\ pc' = AfterReload
          /\ UNCHANGED run
  /\ UNCHANGED <<documents, memory, disk, sighup, rl, pg, control, state, role, thread, sched, clean, left>>

\* A second later postgres is asked what waits for a restart.
ReloadFlag ==
  /\ pc = "flag"
  /\ pending' = IF pg = "up" THEN file.conn # run.conn ELSE rl.diff
  /\ clean' = (rl.whole /\ pg = "up" /\ (clean \/ rl.changed))
  /\ pc' = AfterReload
  /\ UNCHANGED <<documents, memory, disk, sighup, rl, want, server, state, role, thread, sched, behind, left>>

-----------------------------------------------------------------------------
(* Restarts *)

\* POST /restart without a schedule.
Restart(onlyPending) ==
  /\ Asked
  /\ task = "none" /\ RestartMatches(onlyPending)
  /\ StartTask
  /\ UNCHANGED <<documents, memory, disk, sighup, pc, want, server, state, role, pending, sched, history>>

\* POST /restart with a schedule, when there is none.
ScheduleRestart(onlyPending) ==
  /\ Asked
  /\ ~sched.set
  /\ sched' = [set |-> TRUE, onlyPending |-> onlyPending, stale |-> FALSE]
  /\ UNCHANGED <<documents, memory, disk, sighup, pc, rl, want, server, state, role, pending, thread, history>>

\* DELETE /restart.
DeleteRestart ==
  /\ sched.set
  /\ sched' = NoRestart
  /\ UNCHANGED <<documents, memory, disk, sighup, pc, rl, want, server, state, role, pending, thread, history, left>>

\* Postgresql.restart() and stop().
StopPostgres ==
  /\ \/ task = "stop" /\ state' = "restarting" /\ task' = "halt" /\ UNCHANGED <<pg, run>>
     \/ task = "halt" /\ pg' = "down" /\ task' = "read" /\ UNCHANGED <<state, run>>
  /\ UNCHANGED <<documents, memory, disk, sighup, pc, rl, want, file, control, role, pending, launch, sched, history, left>>

\* Faulty: a standby is started with what is wanted.
WantedConfiguration == want

\* effective_configuration: a standby gets at least what its primary has.
EffectiveConfiguration ==
  IF role = "replica" /\ control > want.conn THEN [want EXCEPT !.conn = control] ELSE want

\* start(), up to the configuration.  It may not be possible to read the control file.
ReadConfiguration ==
  /\ task = "read"
  /\ state' = "starting"
  /\ \/ /\ launch' = EffectiveConfiguration
        /\ pending' = (launch'.conn # want.conn)
        /\ task' = "launch"
        /\ clean' = (pc \notin Reloading /\ ~behind)
        /\ UNCHANGED left
     \/ /\ Fault
        /\ pending' = FALSE /\ task' = "none" /\ clean' = FALSE
        /\ UNCHANGED launch
  /\ UNCHANGED <<documents, memory, disk, sighup, pc, rl, want, server, role, sched, behind>>

\* The file is written and the postmaster started.
Launch ==
  /\ task = "launch"
  /\ file' = launch /\ run' = launch
  /\ pg' = IF role = "replica" /\ launch.conn < control THEN "refused" ELSE "booting"
  /\ sched' = [sched EXCEPT !.stale = sched.set]
  /\ task' = "wait"
  /\ UNCHANGED <<documents, memory, disk, sighup, pc, rl, want, control, state, role, pending, launch, history, left>>

\* wait_for_port_open() and wait_for_startup(), which give up after a time.
WaitForStartup ==
  /\ task = "wait"
  /\ \/ pg = "up" /\ state' = "running"
     \/ pg \in {"down", "refused"} /\ state' = "failed"
     \/ pg = "booting" /\ UNCHANGED state
  /\ task' = "none"
  /\ UNCHANGED <<documents, memory, disk, sighup, pc, rl, want, server, role, pending, launch, sched, history, left>>

-----------------------------------------------------------------------------
(* postgres, and crashes *)

\* A primary writes its settings to the WAL and to its control file.
Boot ==
  /\ pg = "booting"
  /\ pg' = "up"
  /\ control' = IF role = "primary" THEN run.conn ELSE control
  /\ UNCHANGED <<documents, memory, disk, sighup, pc, rl, want, file, run, state, role, pending, thread, sched, history, left>>

\* The primary was restarted with another value: a standby that has less stops.
ReplaySettings ==
  /\ pg = "up" /\ role = "replica"
  /\ Fault
  /\ control' \in {1, 2} \ {control}
  /\ pg' = IF control' > run.conn THEN "down" ELSE pg
  /\ UNCHANGED <<documents, memory, disk, sighup, pc, rl, want, file, run, state, role, pending, thread, sched, history>>

Promote ==
  /\ pg = "up" /\ role = "replica" /\ task = "none" /\ state = "running" /\ pc = "ha"
  /\ role' = "primary"
  /\ control' = run.conn
  /\ UNCHANGED <<documents, memory, disk, sighup, pc, rl, want, file, run, pg, state, pending, thread, sched, history, left>>

Crash ==
  /\ pg \in {"booting", "up"}
  /\ Fault
  /\ pg' = "down"
  /\ UNCHANGED <<documents, memory, disk, sighup, pc, rl, want, file, run, control, state, role, pending, thread, sched, history>>

\* Patroni is started again, beside postgres as it is: load_dynamic_configuration(), and
\* Postgresql.__init__(), which reloads unless it joins a standby of a modern version.
PatroniRestarts ==
  /\ Fault
  /\ dyn' = IF conf.data.ok THEN conf.data ELSE saved
  /\ modv' = conf.ver /\ view' = conf
  /\ unsaved' = (dyn' # saved)
  /\ used' = disk /\ sighup' = FALSE
  /\ state' = CASE pg = "up" -> "running" [] pg = "booting" -> "starting" [] OTHER -> "failed"
  /\ want' = IF pg = "up" THEN run ELSE Effective(dyn', used')
  /\ pc' = IF pg = "up" /\ (role = "primary" \/ ~Modern) THEN "compare" ELSE "start"
  /\ rl' = [rl EXCEPT !.sighup = FALSE]
  /\ behind' = (pg = "up" /\ pc' = "start")
  /\ pending' = FALSE /\ clean' = FALSE
  /\ task' = "none" /\ launch' = want' /\ sched' = NoRestart
  /\ UNCHANGED <<documents, saved, disk, server, role>>

-----------------------------------------------------------------------------

Main ==
  \/ BeginCycle \/ LoadCluster \/ HandleStarting \/ Recover \/ EvaluateRestart \/ HaCycle
  \/ ScheduledRestart \/ SetDynamic \/ SaveCache
  \/ ReloadCompare \/ ReloadRaises \/ ReloadAssign \/ ReloadFlag
Background == StopPostgres \/ ReadConfiguration \/ Launch \/ WaitForStartup

Next ==
  \/ \E c \in Client : ReadConfig(c) \/ PatchConfig(c) \/ PutConfig(c)
  \/ EditFile \/ Sighup
  \/ Main \/ Background
  \/ \E b \in BOOLEAN : Restart(b) \/ ScheduleRestart(b)
  \/ DeleteRestart
  \/ Boot \/ ReplaySettings \/ Promote \/ Crash \/ PatroniRestarts

Spec == Init /\ [][Next]_vars

-----------------------------------------------------------------------------
(* Properties *)

Values == [conn : 1 .. 2, mem : 1 .. 2]

\* Every variable has its type.
TypeOK ==
  /\ conf \in [ver : 1 .. MaxVer, data : Document] /\ view \in [ver : 1 .. MaxVer, data : Document]
  /\ dyn \in Document /\ saved \in Document /\ dyn.ok
  /\ {want, file, run, launch} \subseteq Values
  /\ pg \in {"down", "booting", "up", "refused"}
  /\ state \in {"running", "restarting", "starting", "failed"}
  /\ task \in {"none", "stop", "halt", "read", "launch", "wait"}

Settled == pg = "up" /\ state = "running" /\ task = "none" /\ pc \notin Reloading

\* A node that is at rest runs with the settings that were asked for, and those that wait
\* for a restart are flagged, no more and no fewer; postgresql.conf holds what postgres runs
\* with or is to run with; and postgres never refuses to start because of them.  clean is
\* FALSE when reload_config() failed, was left out when Patroni joined postgres, or was
\* under way beside a restart: then the code promises nothing until the next one.
SettingsTrue ==
  /\ Settled /\ clean =>
       /\ want = Effective(dyn, used)
       /\ run.mem = want.mem
       /\ pending = (run.conn # want.conn)
       /\ file.mem = want.mem /\ file.conn \in {want.conn, run.conn}
  /\ pg # "refused"

\* "If the changes require a restart, pending_restart is set" without the condition.
NothingForgotten ==
  Settled /\ dyn = conf.data /\ used = disk /\ pc = "start" => run.mem = New.mem /\ pending = (run.conn # New.conn)
=============================================================================
