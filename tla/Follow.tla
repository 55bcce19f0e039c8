-------------------------------- MODULE Follow --------------------------------
(***************************************************************************)
(* A standby and the node it replicates from (postgresql/config.py, ha.py, *)
(* PostgreSQL 12 and later): the HA loop compares what postgres runs with  *)
(* to what the cluster asks for, and asks postgres only when the time of a *)
(* file has changed; in between it relies on what it remembers and on what *)
(* the WAL receiver shows.  Operators change the same files meanwhile.     *)
(***************************************************************************)
EXTENDS Naturals, FiniteSets

CONSTANTS
  Node,        \* the other members
  Me, NoNode,
  Remote,      \* the primary of the main cluster, which a standby cluster follows
  Tags,        \* the tags this node may have: replicatefrom and nostream
  Restarts,    \* primary_conninfo needs a restart (12), or a reload is enough (13 and later)
  Edits,       \* what operators change by ALTER SYSTEM: "host", "slot"
  Careless,    \* "late": files are edited and loaded later; "slow": postgres takes a cycle to reload;
               \* "stop": postgres cannot be stopped
  MaxChanges   \* bound: what happens around the node

Host == Node \cup {Remote, NoNode}
Settings == [host : Host, slot : {"own", "other", "none"}]

FollowAssumption ==
  /\ {Me, NoNode, Remote} \cap Node = {} /\ Cardinality({Me, NoNode, Remote}) = 3
  /\ Tags \subseteq [from : Node \cup {NoNode}, nostream : BOOLEAN]
  /\ Restarts \in BOOLEAN /\ Edits \subseteq {"host", "slot"} /\ Careless \subseteq {"late", "slow", "stop"}
  /\ MaxChanges \in Nat

VARIABLES
  keys,      \* the cluster: leader, members, standby, paused; and the nodes that accept connections
  tags,
  files,     \* conf: postgresql.conf, auto: postgresql.auto.conf, pass: the passfile
  postgres,  \* state; run: its settings; recv: those of the WAL receiver; hup: a SIGHUP is on its way
  secret,    \* password: of the replication user, and of the local configuration
  memory,    \* what the ConfigHandler remembers, see Forgotten
  turn,      \* the cycle of the HA loop
  changes

vars == <<keys, tags, files, postgres, secret, memory, turn, changes>>

File == {"conf", "auto", "pass", "start"}
NoEdit == [host |-> "unset", slot |-> "unset"]
NoPass == [host |-> NoNode, password |-> 0]
NoReceiver == [host |-> NoNode, slot |-> "none"]

\* known: the files, and the start of the postmaster, whose times are those that are remembered.
\* current: _current_recovery_params, password 0 if there is none in it.  wanted: _recovery_params.
Forgotten == [known |-> {}, current |-> [host |-> NoNode, slot |-> "none", password |-> 0, any |-> FALSE],
              wanted |-> [host |-> NoNode, slot |-> "none"], called |-> FALSE]

\* postgresql.auto.conf comes last.
Effective(f) ==
  [host |-> IF f.auto.host = "unset" THEN f.conf.host ELSE f.auto.host,
   slot |-> IF f.auto.slot = "unset" THEN f.conf.slot ELSE f.auto.slot]

Resting == [pc |-> "idle", leader |-> NoNode, members |-> {}, recv |-> NoReceiver, snap |-> {},
            last |-> "none", calm |-> FALSE]

Init ==
  /\ tags \in Tags
  /\ \E s \in BOOLEAN, l \in Node :
       /\ keys = [leader |-> l, members |-> Node, standby |-> s, paused |-> FALSE, up |-> Node \cup {Remote}]
       /\ files = [conf |-> [host |-> l, slot |-> "own"], auto |-> NoEdit, pass |-> [host |-> l, password |-> 1]]
       /\ postgres = [state |-> "running", run |-> [host |-> l, slot |-> "own"],
                      recv |-> NoReceiver, hup |-> FALSE]
       /\ memory = [Forgotten EXCEPT !.wanted = [host |-> l, slot |-> "own"]]
  /\ secret = [database |-> 1, local |-> 1] /\ turn = Resting /\ changes = 0

\* Something happened: the last cycle is not the last word.
Disturbed == turn' = [turn EXCEPT !.calm = FALSE]
Change == changes < MaxChanges /\ changes' = changes + 1 /\ Disturbed

\* Files that are written have another time than the one remembered or just read.
Touched(fs) ==
  /\ memory' = [memory EXCEPT !.known = @ \ fs]
  /\ turn' = [turn EXCEPT !.snap = @ \ fs, !.calm = FALSE]

-----------------------------------------------------------------------------
(* The cycle *)

\* _get_node_to_follow().  get_member() falls back to the leader.
NodeToFollow(leader, members) ==
  LET atTop == leader = Me \/ (leader = NoNode /\ ~keys.paused)
      name == IF tags.nostream THEN NoNode
              ELSE IF keys.standby /\ atTop THEN Remote
              ELSE IF tags.from \in members THEN tags.from ELSE leader
  IN IF name = Me THEN NoNode ELSE name

\* primary_conninfo_params(): nothing for a leader that is not a member.
ConnInfo(leader, members) ==
  LET name == NodeToFollow(leader, members)
  IN IF name \in members \cup {Remote} THEN name ELSE NoNode

\* build_recovery_params()
Wanted ==
  LET host == ConnInfo(turn.leader, turn.members)
  IN [host |-> host, slot |-> IF host = NoNode THEN "none" ELSE "own"]

\* Postgres has loaded its files and the WAL receiver has noticed.
Settled == ~postgres.hup /\ postgres.recv \in {NoReceiver, postgres.run}

Load ==
  /\ turn.pc = "idle" /\ postgres.state \in {"running", "starting"} /\ (Settled \/ "slow" \in Careless)
  /\ turn' = [turn EXCEPT !.pc = "follow", !.leader = keys.leader, !.members = keys.members,
                          !.recv = IF postgres.state = "starting" THEN NoReceiver ELSE postgres.recv,
                          !.last = "none", !.calm = TRUE]
  /\ UNCHANGED <<keys, tags, files, postgres, secret, memory, changes>>

Done(last) == turn' = [Resting EXCEPT !.last = last, !.calm = turn.calm]

\* follow(): there is nobody to follow, in a paused or in a standby cluster.
LeftAlone ==
  LET node == NodeToFollow(turn.leader, turn.members)
  IN \/ keys.paused /\ node = NoNode
     \/ keys.standby /\ node # Remote /\ Wanted.host = NoNode

FollowStops ==
  /\ turn.pc = "follow" /\ LeftAlone
  /\ Done("kept") /\ UNCHANGED <<keys, tags, files, postgres, secret, memory, changes>>

\* A mutant of Unchanged: postgresql.auto.conf is not looked at.
UnchangedConf == File \ {"auto"} \subseteq memory.known

\* No file has changed, and the postmaster is the same.
Unchanged == memory.known = File

\* check_recovery_conf(), _read_recovery_params(): the times are looked at before postgres is asked.
CheckRecoveryConf ==
  /\ turn.pc = "follow" /\ ~LeftAlone
  /\ turn' = IF postgres.state = "starting" \/ Unchanged THEN [turn EXCEPT !.pc = "compare"]
             ELSE [turn EXCEPT !.pc = "query", !.snap = File]
  /\ UNCHANGED <<keys, tags, files, postgres, secret, memory, changes>>

\* The time of the passfile is remembered only by those who read or write it.
Remembered == (memory.known \cap {"pass"}) \cup (turn.snap \ {"pass"})

ReadRecoveryParams ==
  /\ turn.pc = "query" /\ postgres.state = "running"
  /\ memory' = [memory EXCEPT !.known = Remembered,
                  !.current = [host |-> postgres.run.host, slot |-> postgres.run.slot, password |-> 0, any |-> TRUE]]
  /\ turn' = [turn EXCEPT !.pc = "compare", !.snap = {}]
  /\ UNCHANGED <<keys, tags, files, postgres, secret, changes>>

\* Postgres does not answer.  If only the postmaster is another one it is taken for a crash.
ReadFails ==
  /\ turn.pc = "query" /\ (postgres.state = "running" => changes < MaxChanges)
  /\ changes' = IF postgres.state = "running" THEN changes + 1 ELSE changes
  /\ turn' = [turn EXCEPT !.pc = IF memory.known = File \ {"start"} THEN "compare" ELSE "restart", !.snap = {}]
  /\ UNCHANGED <<keys, tags, files, postgres, secret, memory>>

Streaming == turn.recv # NoReceiver

\* What the WAL receiver shows is taken for what is configured.
Current == IF Streaming /\ memory.current.any THEN [memory.current EXCEPT !.slot = turn.recv.slot] ELSE memory.current

PassfileGood == files.pass = [host |-> Wanted.host, password |-> secret.local]

\* A mutant of ConnInfoGood: the passfile is not looked at.
ConnInfoSame ==
  IF Wanted.host = NoNode \/ Current.host = NoNode THEN Current.host = Wanted.host
  ELSE IF Streaming THEN turn.recv.host = Wanted.host
  ELSE Current.host = Wanted.host

\* _check_primary_conninfo(): whoever streams has the right password.
ConnInfoGood ==
  IF Wanted.host = NoNode \/ Current.host = NoNode THEN Current.host = Wanted.host
  ELSE IF Streaming THEN turn.recv.host = Wanted.host
  ELSE Current.host = Wanted.host
       /\ IF Current.password = 0 THEN PassfileGood ELSE Current.password = secret.local

Mismatch ==
  /\ Current.any
  /\ ~ConnInfoGood \/ (Wanted.host # NoNode /\ Current.slot # Wanted.slot)

\* The passfile was read.
Verified ==
  LET looked == ~Streaming /\ Wanted.host # NoNode /\ Current.host # NoNode /\ Current.password = 0 /\ PassfileGood
  IN [memory EXCEPT !.current = IF looked THEN [Current EXCEPT !.password = secret.local] ELSE Current,
                    !.known = IF looked THEN @ \cup {"pass"} ELSE @]

\* A node that Patroni has found running gets its files written once.
Joined == ~memory.called /\ postgres.state = "running"

NothingToDo ==
  /\ turn.pc = "compare" /\ ~Mismatch /\ ~Joined
  /\ memory' = Verified
  /\ Done("nothing") /\ UNCHANGED <<keys, tags, files, postgres, secret, changes>>

\* write_recovery_conf(), write_postgresql_conf(): passfile, postgresql.conf and postgresql.auto.conf.
WriteConf(m, w) ==
  LET written == {"conf"} \cup (IF files.auto = NoEdit THEN {} ELSE {"auto"})
  IN /\ files' = [conf |-> w, auto |-> NoEdit,
                  pass |-> IF w.host = NoNode THEN files.pass ELSE [host |-> w.host, password |-> secret.local]]
     /\ memory' = [m EXCEPT !.known = (@ \ written) \cup (IF w.host = NoNode THEN {} ELSE {"pass"})]

\* From now on that is what is believed to be in force.
Asked(w) ==
  [memory EXCEPT !.wanted = w,
     !.current = [host |-> w.host, slot |-> w.slot, any |-> TRUE,
                  password |-> IF w.host = NoNode THEN 0 ELSE secret.local]]

ReloadFollow ==
  /\ turn.pc = "compare" /\ (IF Mismatch THEN ~Restarts ELSE Joined)
  /\ WriteConf([Asked(Wanted) EXCEPT !.called = @ \/ postgres.state = "running"], Wanted)
  /\ postgres' = [postgres EXCEPT !.hup = TRUE]
  /\ Done("changed") /\ UNCHANGED <<keys, tags, secret, changes>>

\* In the background: postgres is stopped, then started with the files written.
RestartFollow ==
  /\ turn.pc = "restart" \/ (turn.pc = "compare" /\ Mismatch /\ Restarts)
  /\ memory' = Asked(Wanted)
  /\ \/ /\ turn' = [turn EXCEPT !.pc = "start", !.snap = {}]
        /\ postgres' = [postgres EXCEPT !.state = "down", !.recv = NoReceiver, !.hup = FALSE]
     \/ "stop" \in Careless /\ Done("changed") /\ UNCHANGED postgres
  /\ UNCHANGED <<keys, tags, files, secret, changes>>

\* start(): postgres may need some time before it can be asked.
Started(run) ==
  \E s \in {"running", "starting"} :
    postgres' = [state |-> s, run |-> run, recv |-> NoReceiver, hup |-> FALSE]

Start ==
  /\ turn.pc = "start"
  /\ WriteConf([memory EXCEPT !.known = @ \ {"start"}, !.called = TRUE], memory.wanted)
  /\ Started(memory.wanted)
  /\ Done("changed") /\ UNCHANGED <<keys, tags, secret, changes>>

\* recover(): postgres is not running.
Recover ==
  /\ turn.pc = "idle" /\ postgres.state = "down"
  /\ turn' = [turn EXCEPT !.pc = "restart", !.leader = keys.leader, !.members = keys.members, !.last = "none",
                          !.calm = TRUE]
  /\ UNCHANGED <<keys, tags, files, postgres, secret, memory, changes>>

\* reload_config() writes the files for another parameter.
ReloadConfig ==
  /\ turn.pc = "idle" /\ postgres.state = "running" /\ Change
  /\ WriteConf(memory, memory.wanted) /\ postgres' = [postgres EXCEPT !.hup = TRUE]
  /\ UNCHANGED <<keys, tags, secret>>

\* Patroni is restarted and finds postgres running: load_current_server_parameters().
RestartPatroni ==
  /\ turn.pc = "idle" /\ postgres.state = "running" /\ changes < MaxChanges /\ changes' = changes + 1
  /\ memory' = [Forgotten EXCEPT !.wanted = postgres.run] /\ turn' = Resting
  /\ UNCHANGED <<keys, tags, files, postgres, secret>>

-----------------------------------------------------------------------------
(* Postgres, the cluster and the operators *)

StartupEnds ==
  /\ postgres.state = "starting" /\ postgres' = [postgres EXCEPT !.state = "running"] /\ Disturbed
  /\ UNCHANGED <<keys, tags, files, secret, memory, changes>>

\* By hand or by Patroni.
Reload ==
  /\ postgres.hup \/ ("late" \in Careless /\ postgres.state = "running" /\ postgres.run # Effective(files))
  /\ postgres' = [postgres EXCEPT !.hup = FALSE, !.run = Effective(files)] /\ Disturbed
  /\ UNCHANGED <<keys, tags, files, secret, memory, changes>>

\* The WAL receiver ends when its settings have changed or its primary is gone.
ReceiverEnds ==
  /\ postgres.recv # NoReceiver /\ (postgres.recv # postgres.run \/ postgres.recv.host \notin keys.up)
  /\ postgres' = [postgres EXCEPT !.recv = NoReceiver] /\ Disturbed
  /\ UNCHANGED <<keys, tags, files, secret, memory, changes>>

CanConnect ==
  /\ postgres.run.host \in keys.up /\ postgres.run.slot # "other"
  /\ files.pass = [host |-> postgres.run.host, password |-> secret.database]

ReceiverStarts ==
  /\ postgres.state # "down" /\ postgres.recv = NoReceiver /\ CanConnect
  /\ postgres' = [postgres EXCEPT !.recv = postgres.run] /\ Disturbed
  /\ UNCHANGED <<keys, tags, files, secret, memory, changes>>

\* The leader of a standby cluster may be this node.
ClusterChanges ==
  /\ Change
  /\ \/ \E l \in Node \cup {NoNode} \cup (IF keys.standby THEN {Me} ELSE {}) :
          l # keys.leader /\ keys' = [keys EXCEPT !.leader = l]
     \/ \E n \in Node : keys' = [keys EXCEPT !.members = IF n \in @ THEN @ \ {n} ELSE @ \cup {n}]
     \/ keys' = [keys EXCEPT !.paused = ~@]
     \/ \E n \in keys.up : keys' = [keys EXCEPT !.up = @ \ {n}]
  /\ UNCHANGED <<tags, files, postgres, secret, memory>>

PasswordChanges ==
  /\ Change
  /\ \/ secret.database = 1 /\ secret' = [secret EXCEPT !.database = 2]
     \/ secret.database = 2 /\ secret.local = 1 /\ secret' = [secret EXCEPT !.local = 2]
  /\ UNCHANGED <<keys, tags, files, postgres, memory>>

PostgresCrashes ==
  /\ postgres.state # "down" /\ turn.pc # "start" /\ changes < MaxChanges /\ changes' = changes + 1
  /\ postgres' = [postgres EXCEPT !.state = "down", !.recv = NoReceiver, !.hup = FALSE]
  /\ Disturbed /\ UNCHANGED <<keys, tags, files, secret, memory>>

\* Somebody else restarts postgres.
PostgresRestarted ==
  /\ postgres.state = "running" /\ changes < MaxChanges /\ changes' = changes + 1
  /\ Started(Effective(files)) /\ Touched({"start"})
  /\ UNCHANGED <<keys, tags, files, secret>>

\* ALTER SYSTEM; loaded at once unless they are careless.
AlterSystem ==
  /\ changes < MaxChanges /\ changes' = changes + 1 /\ postgres.state = "running"
  /\ \E f \in {[files EXCEPT !.auto.host = n] : n \in IF "host" \in Edits THEN Host ELSE {}}
              \cup {[files EXCEPT !.auto.slot = s] : s \in IF "slot" \in Edits THEN {"other"} ELSE {}} :
       /\ files' = f
       /\ \/ postgres' = [postgres EXCEPT !.run = Effective(f), !.hup = FALSE]
          \/ "late" \in Careless /\ UNCHANGED postgres
  /\ Touched({"auto"}) /\ UNCHANGED <<keys, tags, secret>>

DamagePassfile ==
  /\ files.pass # NoPass /\ changes < MaxChanges /\ changes' = changes + 1
  /\ files' = [files EXCEPT !.pass = NoPass] /\ Touched({"pass"})
  /\ UNCHANGED <<keys, tags, postgres, secret>>

Next ==
  \/ Load \/ FollowStops \/ CheckRecoveryConf \/ ReadRecoveryParams \/ ReadFails \/ NothingToDo
  \/ ReloadFollow \/ RestartFollow \/ Start \/ Recover \/ ReloadConfig \/ RestartPatroni
  \/ StartupEnds \/ Reload \/ ReceiverEnds \/ ReceiverStarts \/ ClusterChanges \/ PasswordChanges
  \/ PostgresCrashes \/ PostgresRestarted \/ AlterSystem \/ DamagePassfile

Spec == Init /\ [][Next]_vars

-----------------------------------------------------------------------------

\* Every variable has its type.
TypeOK ==
  /\ tags \in Tags /\ changes \in 0 .. MaxChanges
  /\ keys.leader \in Node \cup {Me, NoNode} /\ keys.members \subseteq Node /\ keys.up \subseteq Node \cup {Remote}
  /\ files.conf \in Settings /\ postgres.run \in Settings /\ postgres.recv \in Settings
  /\ postgres.state \in {"down", "starting", "running"} /\ postgres.hup \in BOOLEAN
  /\ memory.known \subseteq File /\ memory.wanted \in Settings
  /\ turn.pc \in {"idle", "follow", "query", "compare", "restart", "start"} /\ turn.snap \subseteq File

\* What the cluster asks for now.
Asks == ConnInfo(keys.leader, keys.members)

\* The last cycle found nothing to do, and nothing has happened since it began.
AtRest ==
  /\ turn.pc = "idle" /\ turn.last = "nothing" /\ turn.calm
  /\ postgres.state = "running" /\ Settled

\* A standby that is left alone replicates from the node it should, or is able to as soon as that one
\* accepts connections, although the loop looks at postgres only when the time of a file has changed
\* (ConfigHandler.check_recovery_conf, _read_recovery_params).
FollowsWanted ==
  AtRest => /\ postgres.run.host = Asks /\ (Asks # NoNode => postgres.run.slot = "own")
            /\ Asks # NoNode /\ postgres.recv = NoReceiver => files.pass = [host |-> Asks, password |-> secret.local]
===============================================================================
