------------------------------ MODULE Bootstrap ------------------------------
(***************************************************************************)
(* How a cluster comes to be: nodes with empty data directories race for   *)
(* the initialize key, the winner runs initdb in another thread, and the   *)
(* others clone its data (ha.py: _run_cycle, bootstrap, post_bootstrap,    *)
(* cancel_initialization; bootstrap.py).  Patroni or a whole node may die  *)
(* between any two steps, and finds the data directory as it was.          *)
(***************************************************************************)
EXTENDS Naturals

CONSTANTS
  Joiner,     \* the nodes
  NoJoiner,   \* not a node
  MaxCrashes  \* bound: crashes, failed scripts, and leader keys that expire

VARIABLES
  initialize,  \* the key: Absent, Empty, or the system ID; that is, the node that ran initdb
  leader,      \* the leader key
  node,        \* what each Patroni knows and does
  data,        \* the data directory of each node, and the postgres on it
  failed,      \* history: the systems whose bootstrap was given up
  crashes      \* what may still go wrong

bootVars == <<initialize, leader, node, data, failed, crashes>>

Absent == "absent"
Empty == "empty"
Sysid == Joiner            \* sysid_valid()

BootstrapAssumption == MaxCrashes \in Nat /\ {NoJoiner, Absent, Empty} \cap Joiner = {}

\* initialize and leader as loaded; the step of the main thread; bootstrapping; the task of
\* AsyncExecutor; the result of post_bootstrap; cb_called; and whether it leads.
Fresh == [init |-> Absent, leader |-> NoJoiner, step |-> "load", bootstrapping |-> FALSE,
          task |-> "none", result |-> "none", called |-> FALSE]

\* What remove_data_directory() leaves, and what there is before.
NoData == [dir |-> "empty", sysid |-> NoJoiner, pg |-> "down"]

Init ==
  /\ initialize = Absent /\ leader = NoJoiner
  /\ node = [n \in Joiner |-> Fresh]
  /\ data = [n \in Joiner |-> NoData]
  /\ failed = {} /\ crashes = MaxCrashes

Crashed == crashes > 0 /\ crashes' = crashes - 1

Go(n, step) == node' = [node EXCEPT ![n].step = step]
Rest(n) == node[n].step = "run" /\ node[n].task = "none"
IsUnlocked(n) == node[n].leader = NoJoiner
HasLock(n) == node[n].leader = n
Valid(n) == node[n].init \in Sysid

-----------------------------------------------------------------------------
(* The DCS *)

\* initialize(create_new, sysid): only if it is not there, or whatever is there.
SetInitialize(n, value) ==
  initialize' = IF node[n].init = Absent /\ initialize # Absent THEN initialize ELSE value

\* A leader that lives keeps its key.
LeaderExpires ==
  /\ leader # NoJoiner
  /\ \/ node[leader].step = "dead" /\ UNCHANGED crashes
     \/ Crashed
  /\ leader' = NoJoiner
  /\ UNCHANGED <<initialize, node, data, failed>>

-----------------------------------------------------------------------------
(* _run_cycle() *)

Load(n) ==
  /\ node[n].step = "load" /\ node[n].task = "none"
  /\ node' = [node EXCEPT ![n].init = initialize, ![n].leader = leader,
                          ![n].step = IF node[n].bootstrapping THEN "post" ELSE "run"]
  /\ UNCHANGED <<initialize, leader, data, crashes, failed>>

\* An empty data directory: a leader gives its key away.
ReleaseKey(n) ==
  /\ Rest(n) /\ data[n].dir = "empty" /\ HasLock(n)
  /\ leader' = IF leader = n THEN NoJoiner ELSE leader
  /\ Go(n, "load")
  /\ UNCHANGED <<initialize, data, crashes, failed>>

\* Faulty: the initialize key is looked at when the cluster was loaded, and not again.
RaceUnchecked(n) == initialize' = Empty

\* initialize(create_new=True).
Race(n) == initialize = Absent /\ initialize' = Empty

\* bootstrap(): the race for the initialize key.
BootstrapNew(n) ==
  /\ Rest(n) /\ data[n].dir = "empty" /\ IsUnlocked(n) /\ node[n].init = Absent
  /\ \/ /\ Race(n)
        /\ node' = [node EXCEPT ![n].step = "load", ![n].bootstrapping = TRUE,
                                ![n].task = "initdb", ![n].result = "none"]
     \/ /\ initialize # Absent
        /\ Go(n, "load")
        /\ UNCHANGED initialize
  /\ UNCHANGED <<leader, data, crashes, failed>>

\* bootstrap(): a clone of the leader, or nothing yet.
BootstrapFromLeader(n) ==
  /\ Rest(n) /\ data[n].dir = "empty"
  /\ \/ /\ node[n].leader \notin {NoJoiner, n}
        /\ node' = [node EXCEPT ![n].step = "load", ![n].task = "clone"]
     \/ /\ IsUnlocked(n) /\ node[n].init # Absent
        /\ Go(n, "load")
  /\ UNCHANGED <<initialize, leader, data, crashes, failed>>

\* A data directory that belongs to another cluster, or a standby that finds none.
Foreign(n) ==
  \/ Valid(n) /\ node[n].init # data[n].sysid
  \/ ~Valid(n) /\ IsUnlocked(n) /\ ~node[n].called /\ data[n].pg = "replica"

Exit(n) ==
  /\ Rest(n) /\ data[n].dir = "whole" /\ Foreign(n)
  /\ node' = [node EXCEPT ![n] = [Fresh EXCEPT !.step = "dead"]]
  /\ data' = [data EXCEPT ![n].pg = "down"]
  /\ UNCHANGED <<initialize, leader, crashes, failed>>

\* A data directory is there, but no system ID in the DCS: it becomes the one of the cluster.
Announce(n) ==
  /\ Rest(n) /\ data[n].dir = "whole" /\ ~Foreign(n) /\ ~Valid(n)
  /\ HasLock(n) \/ (IsUnlocked(n) /\ ~node[n].called)
  /\ SetInitialize(n, data[n].sysid)
  /\ Go(n, "joined")
  /\ UNCHANGED <<leader, data, crashes, failed>>

Join(n) ==
  /\ Rest(n) /\ data[n].dir = "whole" /\ ~Foreign(n)
  /\ Valid(n) \/ ~(HasLock(n) \/ (IsUnlocked(n) /\ ~node[n].called))
  /\ Go(n, "joined")
  /\ UNCHANGED <<initialize, leader, data, crashes, failed>>

\* "data dir for the cluster is not empty, but system ID is invalid"
Broken(n) ==
  /\ Rest(n) /\ data[n].dir = "partial"
  /\ Go(n, "load")
  /\ UNCHANGED <<initialize, leader, data, crashes, failed>>

\* recover(): as a standby.  The callback is called when it accepts connections.
StartAsStandby(n) ==
  /\ node[n].step = "joined" /\ data[n].pg = "down"
  /\ data' = [data EXCEPT ![n].pg = "replica"]
  /\ \E c \in {TRUE, node[n].called} : node' = [node EXCEPT ![n].step = "load", ![n].called = c]
  /\ UNCHANGED <<initialize, leader, crashes, failed>>

Wins(n) == (IsUnlocked(n) /\ leader = NoJoiner) \/ (HasLock(n) /\ leader = n)

\* The leader race, and what follows from it; the callback is called afterwards.
RaceForLeader(n) ==
  /\ node[n].step = "joined" /\ data[n].pg # "down"
  /\ \/ \* acquire_lock(), or update_lock() of the leader
        /\ Wins(n)
        /\ leader' = n
        /\ data' = [data EXCEPT ![n].pg = "primary"]
     \/ \* another node leads
        /\ ~Wins(n)
        /\ data' = [data EXCEPT ![n].pg = "replica"]
        /\ UNCHANGED leader
  /\ node' = [node EXCEPT ![n].step = "load", ![n].called = TRUE]
  /\ UNCHANGED <<initialize, crashes, failed>>

-----------------------------------------------------------------------------
(* The tasks of AsyncExecutor *)

\* initdb, or a script, and the start of postgres: all of it, or some of it.
Initdb(n) ==
  /\ node[n].task = "initdb"
  /\ \/ /\ data[n].dir = "empty"
        /\ data' = [data EXCEPT ![n].dir = "partial"]
        /\ UNCHANGED <<node, crashes>>
     \/ /\ data[n].dir = "partial"
        /\ data' = [data EXCEPT ![n] = [dir |-> "whole", sysid |-> n, pg |-> "primary"]]
        /\ node' = [node EXCEPT ![n].task = "none"]
        /\ UNCHANGED crashes
     \/ /\ Crashed
        /\ node' = [node EXCEPT ![n].task = "none"]
        /\ UNCHANGED data
  /\ UNCHANGED <<initialize, leader, failed>>

\* create_replica(): the data of a primary.
Replica(from) == [dir |-> "whole", sysid |-> from.sysid, pg |-> "replica"]

\* clone() and its follow(); what is left of a failure is removed.
Clone(n) ==
  /\ node[n].task = "clone" /\ node[n].leader # NoJoiner
  /\ LET from == data[node[n].leader]
         ok == from.pg = "primary"
     IN /\ data' = [data EXCEPT ![n] = IF ok THEN Replica(from) ELSE NoData]
        /\ \E c \in {ok \/ node[n].called, node[n].called} : node' = [node EXCEPT ![n].task = "none", ![n].called = c]
  /\ UNCHANGED <<initialize, leader, crashes, failed>>

\* call_post_bootstrap(): a script may fail.
ScriptFails == Crashed

\* post_bootstrap() of bootstrap.py: roles, and the script.
PostInit(n) ==
  /\ node[n].task = "post_bootstrap"
  /\ \/ node' = [node EXCEPT ![n].task = "none", ![n].result = "done"] /\ UNCHANGED crashes
     \/ node' = [node EXCEPT ![n].task = "none", ![n].result = "failed"] /\ ScriptFails
  /\ UNCHANGED <<initialize, leader, data, failed>>

-----------------------------------------------------------------------------
(* post_bootstrap() of ha.py *)

RunPostBootstrap(n) ==
  /\ node[n].step = "post" /\ node[n].result = "none" /\ data[n].pg = "primary"
  /\ node' = [node EXCEPT ![n].task = "post_bootstrap", ![n].step = "load"]
  /\ UNCHANGED <<initialize, leader, data, crashes, failed>>

\* Postgres does not run, the script failed, or the watchdog cannot be activated.
Failed(n) ==
  /\ node[n].step = "post"
  /\ \/ (data[n].pg = "down" \/ node[n].result = "failed") /\ UNCHANGED crashes
     \/ node[n].result = "done" /\ Crashed
  /\ Go(n, "cancel")
  /\ UNCHANGED <<initialize, leader, data, failed>>

\* cancel_initialization(): the key is deleted, whatever it says.
Cancel(n) ==
  /\ node[n].step = "cancel"
  /\ initialize' = Absent
  /\ failed' = failed \cup {n}
  /\ Go(n, "move")
  /\ UNCHANGED <<leader, data, crashes>>

\* Faulty: postgres is not stopped before.
MoveRunning(n) ==
  /\ node[n].step = "move"
  /\ data' = [data EXCEPT ![n] = [NoData EXCEPT !.pg = data[n].pg]]
  /\ node' = [node EXCEPT ![n] = [Fresh EXCEPT !.step = "dead"]]
  /\ failed' = {s \in failed : \E m \in Joiner \ {n} : data[m].sysid = s}
  /\ UNCHANGED <<initialize, leader, crashes>>

\* Then postgres is stopped, the data directory moved, and Patroni exits.
MoveDataDirectory(n) ==
  /\ node[n].step = "move"
  /\ data' = [data EXCEPT ![n] = NoData]
  /\ node' = [node EXCEPT ![n] = [Fresh EXCEPT !.step = "dead"]]
  /\ failed' = {s \in failed : \E m \in Joiner \ {n} : data[m].sysid = s}
  /\ UNCHANGED <<initialize, leader, crashes>>

\* The system ID is written and the leader key taken, both without looking.
AnnounceNew(n) ==
  /\ node[n].step = "post" /\ node[n].result = "done" /\ data[n].pg = "primary"
  /\ SetInitialize(n, data[n].sysid)
  /\ node' = [node EXCEPT ![n].step = "take", ![n].bootstrapping = FALSE]
  /\ UNCHANGED <<leader, data, crashes, failed>>

TakeLeader(n) ==
  /\ node[n].step = "take"
  /\ leader' = n
  /\ node' = [node EXCEPT ![n].step = "load", ![n].called = TRUE]
  /\ UNCHANGED <<initialize, data, crashes, failed>>

-----------------------------------------------------------------------------

\* Patroni dies, with postgres or without it, and is started again.
Crash(n) ==
  /\ node[n].step # "dead" /\ Crashed
  /\ node' = [node EXCEPT ![n] = [Fresh EXCEPT !.step = "dead"]]
  /\ \/ data' = [data EXCEPT ![n].pg = "down"]
     \/ UNCHANGED data
  /\ UNCHANGED <<initialize, leader, failed>>

\* A postgres that runs, and accepts connections already, has its callback called.
Restart(n) ==
  /\ node[n].step = "dead"
  /\ \E c \in {FALSE, data[n].pg # "down"} : node' = [node EXCEPT ![n] = [Fresh EXCEPT !.called = c]]
  /\ UNCHANGED <<initialize, leader, data, crashes, failed>>

Next ==
  \/ LeaderExpires
  \/ \E n \in Joiner :
       \/ Load(n) \/ ReleaseKey(n) \/ BootstrapNew(n) \/ BootstrapFromLeader(n)
       \/ Exit(n) \/ Announce(n) \/ Join(n) \/ Broken(n) \/ StartAsStandby(n) \/ RaceForLeader(n)
       \/ Initdb(n) \/ Clone(n) \/ PostInit(n)
       \/ RunPostBootstrap(n) \/ Failed(n) \/ Cancel(n) \/ MoveDataDirectory(n)
       \/ AnnounceNew(n) \/ TakeLeader(n)
       \/ Crash(n) \/ Restart(n)

Spec == Init /\ [][Next]_bootVars

-----------------------------------------------------------------------------
(* Properties *)

\* Every variable has its type; a data directory that is whole, and no other, belongs to a
\* system, and postgres runs on no other.
TypeOK ==
  /\ initialize \in {Absent, Empty} \cup Sysid /\ leader \in Joiner \cup {NoJoiner}
  /\ node \in [Joiner -> [init : {Absent, Empty} \cup Sysid, leader : Joiner \cup {NoJoiner},
                          step : {"load", "run", "post", "joined", "cancel", "move", "take", "dead"},
                          bootstrapping : BOOLEAN, task : {"none", "initdb", "clone", "post_bootstrap"},
                          result : {"none", "done", "failed"}, called : BOOLEAN]]
  /\ data \in [Joiner -> [dir : {"empty", "partial", "whole"}, sysid : Joiner \cup {NoJoiner},
                          pg : {"down", "primary", "replica"}]]
  /\ \A n \in Joiner : /\ (data[n].sysid # NoJoiner) <=> (data[n].dir = "whole")
                       /\ data[n].pg # "down" => data[n].dir = "whole"

\* There is one cluster: what two nodes have in their data directories is the same system,
\* unless it is what a failed bootstrap has left.
OneCluster ==
  \A m, n \in Joiner :
    {data[m].sysid, data[n].sysid} \cap (failed \cup {NoJoiner}) = {} => data[m].sysid = data[n].sysid
=============================================================================
