----------------------------- MODULE NodeProofs -----------------------------
(***************************************************************************)
(* Proofs about the parts of a node, for every value of the constants.     *)
(*                                                                         *)
(* Bootstrap: there is one system, for any number of nodes and of crashes. *)
(* The node that won the initialize key last is the only one that may make *)
(* data, and the only one that may delete the key again; when it does, all *)
(* data there is comes from a bootstrap that was given up.                 *)
(*                                                                         *)
(* Rewind: no node follows a leader whose WAL it has left.  Who has a      *)
(* timeline has the history before it, as the number of a promotion is     *)
(* higher than all before; nobody has more of the timeline of the node     *)
(* that leads; and a leader in whose key the others read that it has run   *)
(* its checkpoint has its timeline in the control file, by which pg_rewind *)
(* sees that there is something to do.                                     *)
(*                                                                         *)
(* Slots: what is removed on the primary is bounded by its slot when it is *)
(* asked, by the feedback from then on, and the feedback by the slot of    *)
(* the standby, which only moves on.                                       *)
(*                                                                         *)
(* Settings: what is wanted is what was asked for, and postgres has it, or *)
(* will have it when it has been started, or has been told of it.          *)
(***************************************************************************)
EXTENDS MCNode, TLAPS

\* n won the initialize key, and has neither announced its system nor given it up.
Bootstraps(n) == node[n].bootstrapping /\ node[n].step # "move"

\* What a task is for, and when a node has data.
StepInv(n) ==
  /\ node[n].task # "none" => node[n].step = "load"
  /\ node[n].task = "initdb" => node[n].bootstrapping
  /\ node[n].step \in {"post", "cancel", "move"} => node[n].bootstrapping
  /\ node[n].step = "joined" => data[n].dir = "whole"

\* What o made, or what is left of a failed bootstrap.
Allowed(n, o) == data[n].sysid \in failed \cup {NoJoiner, o}

\* o is the node that won the key last, if it did not give up.
Won(o) ==
  /\ \A n \in Joiner : Allowed(n, o) /\ (Bootstraps(n) => n = o)
  /\ initialize = Boo!Absent => o = NoJoiner

BootType == Boo!TypeOK /\ \A n \in Joiner : StepInv(n)

BootInv == BootType /\ \E o \in Joiner \cup {NoJoiner} : Won(o)

-----------------------------------------------------------------------------
\* What each Patroni knows and does, and the data directories.
Knows == [init : {Boo!Absent, Boo!Empty} \cup Joiner, leader : Joiner \cup {NoJoiner},
          step : {"load", "run", "post", "joined", "cancel", "move", "take", "dead"},
          bootstrapping : BOOLEAN, task : {"none", "initdb", "clone", "post_bootstrap"},
          result : {"none", "done", "failed"}, called : BOOLEAN]
Data == {d \in [dir : {"empty", "partial", "whole"}, sysid : Joiner \cup {NoJoiner},
                pg : {"down", "primary", "replica"}] :
           (d.sysid # NoJoiner <=> d.dir = "whole") /\ (d.pg # "down" => d.dir = "whole")}

\* The fields of what a Patroni knows.
LEMMA KnowsChange ==
  ASSUME NEW k \in Knows, NEW c \in BOOLEAN
  PROVE  /\ LET l == [k EXCEPT !.step = "load", !.called = c]
            IN l \in Knows /\ l.step = "load" /\ l.task = k.task /\ l.bootstrapping = k.bootstrapping
         /\ LET l == [k EXCEPT !.task = "none", !.called = c]
            IN l \in Knows /\ l.step = k.step /\ l.task = "none" /\ l.bootstrapping = k.bootstrapping
  BY DEF Knows

\* What is assumed of the constants.
LEMMA BootConstants ==
  MaxCrashes \in Nat /\ NoJoiner \notin Joiner /\ Boo!Absent \notin Joiner /\ Boo!Empty \notin Joiner
  /\ Boo!Absent # Boo!Empty
  BY NodeAssumption DEF NodeAssumption, Boo!BootstrapAssumption, Boo!Absent, Boo!Empty

\* TypeOK, by these types.
LEMMA BootTypes ==
  Boo!TypeOK <=> /\ initialize \in {Boo!Absent, Boo!Empty} \cup Joiner /\ leader \in Joiner \cup {NoJoiner}
                 /\ node \in [Joiner -> Knows] /\ data \in [Joiner -> Data]
  <1>1. ASSUME data \in [Joiner -> Data]
        PROVE  data \in [Joiner -> [dir : {"empty", "partial", "whole"}, sysid : Joiner \cup {NoJoiner},
                                    pg : {"down", "primary", "replica"}]]
    BY <1>1 DEF Data
  <1>2. ASSUME data \in [Joiner -> [dir : {"empty", "partial", "whole"}, sysid : Joiner \cup {NoJoiner},
                                    pg : {"down", "primary", "replica"}]],
               \A n \in Joiner : /\ (data[n].sysid # NoJoiner) <=> (data[n].dir = "whole")
                                 /\ data[n].pg # "down" => data[n].dir = "whole"
        PROVE  data \in [Joiner -> Data]
    BY <1>2 DEF Data
  <1>3. data \in [Joiner -> Data] =>
          \A n \in Joiner : /\ (data[n].sysid # NoJoiner) <=> (data[n].dir = "whole")
                            /\ data[n].pg # "down" => data[n].dir = "whole"
    BY DEF Data
  <1> QED BY <1>1, <1>2, <1>3 DEF Boo!TypeOK, Knows, Boo!Sysid

\* The step of one node.
BootNode(n) ==
  \/ Boo!Load(n) \/ Boo!ReleaseKey(n) \/ Boo!BootstrapNew(n) \/ Boo!BootstrapFromLeader(n)
  \/ Boo!Exit(n) \/ Boo!Announce(n) \/ Boo!Join(n) \/ Boo!Broken(n) \/ Boo!StartAsStandby(n)
  \/ Boo!RaceForLeader(n) \/ Boo!Initdb(n) \/ Boo!Clone(n) \/ Boo!PostInit(n)
  \/ Boo!RunPostBootstrap(n) \/ Boo!Failed(n) \/ Boo!Cancel(n) \/ Boo!MoveDataDirectory(n)
  \/ Boo!AnnounceNew(n) \/ Boo!TakeLeader(n) \/ Boo!Crash(n) \/ Boo!Restart(n)

\* A step of n changes what n knows and has.
LEMMA BootFrame ==
  ASSUME NEW n \in Joiner, node \in [Joiner -> Knows], data \in [Joiner -> Data], BootNode(n)
  PROVE  /\ \A m \in Joiner \ {n} : node'[m] = node[m] /\ data'[m] = data[m]
         /\ node' = [node EXCEPT ![n] = node'[n]] /\ data' = [data EXCEPT ![n] = data'[n]]
  BY DEF BootNode, Boo!Load, Boo!ReleaseKey, Boo!BootstrapNew, Boo!BootstrapFromLeader, Boo!Exit,
         Boo!Announce, Boo!Join, Boo!Broken, Boo!StartAsStandby, Boo!RaceForLeader, Boo!Initdb,
         Boo!Clone, Boo!PostInit, Boo!RunPostBootstrap, Boo!Failed, Boo!Cancel,
         Boo!MoveDataDirectory, Boo!AnnounceNew, Boo!TakeLeader, Boo!Crash, Boo!Restart, Boo!Go

\* The types, and what goes with a step.
LEMMA BootTyped ==
  ASSUME BootType, NEW n \in Joiner, BootNode(n)
  PROVE  BootType'
  <1> DEFINE Typed == /\ node'[n] \in Knows /\ data'[n] \in Data /\ StepInv(n)'
                      /\ initialize' \in {Boo!Absent, Boo!Empty} \cup Joiner /\ leader' \in Joiner \cup {NoJoiner}
  <1>1. /\ node \in [Joiner -> Knows] /\ data \in [Joiner -> Data] /\ StepInv(n)
        /\ initialize \in {Boo!Absent, Boo!Empty} \cup Joiner /\ leader \in Joiner \cup {NoJoiner}
    BY BootTypes DEF BootType
  <1>2. Typed => BootType'
    <2> SUFFICES ASSUME Typed PROVE BootType' OBVIOUS
    <2>1. /\ \A m \in Joiner \ {n} : node'[m] = node[m] /\ data'[m] = data[m]
          /\ node' = [node EXCEPT ![n] = node'[n]] /\ data' = [data EXCEPT ![n] = data'[n]]
      BY <1>1, BootFrame
    <2>2. node' \in [Joiner -> Knows] /\ data' \in [Joiner -> Data] BY <1>1, <2>1
    <2>3. \A m \in Joiner : /\ (data'[m].sysid # NoJoiner) <=> (data'[m].dir = "whole")
                            /\ data'[m].pg # "down" => data'[m].dir = "whole"
      BY <2>2 DEF Data
    <2>5. data' \in [Joiner -> [dir : {"empty", "partial", "whole"}, sysid : Joiner \cup {NoJoiner},
                                pg : {"down", "primary", "replica"}]]
      BY <2>2 DEF Data
    <2>6. Boo!TypeOK' BY <2>2, <2>3, <2>5 DEF Boo!TypeOK, Typed, Knows, Boo!Sysid
    <2>4. \A m \in Joiner : StepInv(m)' BY <2>1 DEF BootType, StepInv
    <2> QED BY <2>4, <2>6 DEF BootType
  <1> SUFFICES Typed BY <1>2
  <1> HIDE DEF Typed
  <1>3. CASE Boo!Load(n) \/ Boo!ReleaseKey(n) \/ Boo!BootstrapFromLeader(n) \/ Boo!Broken(n)
    BY <1>1, <1>3 DEF Typed, Boo!Load, Boo!ReleaseKey, Boo!BootstrapFromLeader, Boo!Broken, Boo!Rest, Boo!Go,
         Knows, StepInv
  <1>4. CASE Boo!BootstrapNew(n)
    BY <1>1, <1>4 DEF Typed, Boo!BootstrapNew, Boo!Race, Boo!Rest, Boo!Go, Knows, StepInv
  <1>5. CASE Boo!Exit(n) \/ Boo!Crash(n) \/ Boo!Restart(n)
    <2>1. \A s \in {"load", "dead"} : \A c \in BOOLEAN :
            /\ [Boo!Fresh EXCEPT !.step = s] \in Knows /\ [Boo!Fresh EXCEPT !.called = c] \in Knows
      BY DEF Boo!Fresh, Knows
    <2>2. node'[n] \in Knows
      <3>1. CASE Boo!Exit(n) \/ Boo!Crash(n) BY <1>1, <2>1, <3>1 DEF Boo!Exit, Boo!Crash
      <3>2. CASE Boo!Restart(n)
        <4>1. PICK c \in {FALSE, data[n].pg # "down"} : node' = [node EXCEPT ![n] = [Boo!Fresh EXCEPT !.called = c]]
          BY <3>2 DEF Boo!Restart
        <4>2. c \in BOOLEAN BY <4>1
        <4> QED BY <1>1, <2>1, <4>1, <4>2
      <3> QED BY <1>5, <3>1, <3>2
    <2>3. data'[n] \in Data BY <1>1, <1>5 DEF Boo!Exit, Boo!Crash, Boo!Restart, Data
    <2>4. StepInv(n)' BY <1>1, <1>5 DEF Boo!Exit, Boo!Crash, Boo!Restart, Boo!Fresh, StepInv
    <2> QED BY <1>1, <1>5, <2>2, <2>3, <2>4 DEF Typed, Boo!Exit, Boo!Crash, Boo!Restart
  <1>6. CASE Boo!Announce(n) \/ Boo!Join(n)
    BY <1>1, <1>6 DEF Typed, Boo!Announce, Boo!Join, Boo!SetInitialize, Boo!Rest, Boo!Go, Knows, Data, StepInv
  <1>7. CASE Boo!StartAsStandby(n) \/ Boo!RaceForLeader(n)
    <2>1. PICK c \in {TRUE, node[n].called} : node' = [node EXCEPT ![n].step = "load", ![n].called = c]
      BY <1>7 DEF Boo!StartAsStandby, Boo!RaceForLeader
    <2>2. node[n].called \in BOOLEAN BY <1>1 DEF Knows
    <2>3. c \in BOOLEAN BY <2>1, <2>2
    <2> DEFINE k == [node[n] EXCEPT !.step = "load", !.called = c]
    <2>8. node'[n] = k BY <1>1, <2>1
    <2>9. k \in Knows /\ k.step = "load" /\ k.task = node[n].task /\ k.bootstrapping = node[n].bootstrapping
      <3>1. node[n] \in Knows BY <1>1
      <3>2. c \in BOOLEAN BY <2>3
      <3> QED BY ONLY <3>1, <3>2, KnowsChange, Zenon
    <2>4. node'[n] \in Knows /\ node'[n].step = "load" /\ node'[n].task = node[n].task
          /\ node'[n].bootstrapping = node[n].bootstrapping
      BY <2>8, <2>9
    <2>5. data'[n] \in Data
      BY <1>1, <1>7 DEF Boo!StartAsStandby, Boo!RaceForLeader, Data, StepInv
    <2>6. initialize' = initialize /\ leader' \in {leader, n}
      BY <1>7 DEF Boo!StartAsStandby, Boo!RaceForLeader
    <2>7. StepInv(n)' BY <1>1, <2>4 DEF StepInv
    <2> QED BY <1>1, <2>4, <2>5, <2>6, <2>7 DEF Typed
  <1>8. CASE Boo!Initdb(n)
    <2>1. node[n].task = "initdb" /\ node[n].step = "load" /\ node[n].bootstrapping
      BY <1>1, <1>8 DEF Boo!Initdb, StepInv
    <2>2. node' = node \/ node' = [node EXCEPT ![n].task = "none"] BY <1>8 DEF Boo!Initdb
    <2>3. node'[n] \in Knows /\ node'[n].step = "load" /\ node'[n].bootstrapping
      BY <1>1, <2>1, <2>2 DEF Knows
    <2>4. data'[n] \in Data BY <1>1, <1>8, BootConstants DEF Boo!Initdb, Data
    <2>5. StepInv(n)' BY <2>3 DEF StepInv
    <2> QED BY <1>1, <1>8, <2>3, <2>4, <2>5 DEF Typed, Boo!Initdb
  <1>9. CASE Boo!Clone(n)
    <2>1. node[n].leader \in Joiner /\ data[node[n].leader] \in Data BY <1>1, <1>9 DEF Boo!Clone, Knows
    <2>2. data'[n] \in Data BY <1>1, <1>9, <2>1 DEF Boo!Clone, Boo!Replica, Boo!NoData, Data
    <2>3. PICK c : c \in BOOLEAN /\ node' = [node EXCEPT ![n].task = "none", ![n].called = c]
      <3> DEFINE ok == data[node[n].leader].pg = "primary"
      <3>1. PICK c \in {ok \/ node[n].called, node[n].called} :
              node' = [node EXCEPT ![n].task = "none", ![n].called = c]
        BY <1>9 DEF Boo!Clone
      <3>2. node[n].called \in BOOLEAN BY <1>1 DEF Knows
      <3>3. c \in BOOLEAN BY <3>1, <3>2
      <3> QED BY <3>1, <3>3
    <2> DEFINE k == [node[n] EXCEPT !.task = "none", !.called = c]
    <2>8. node'[n] = k BY <1>1, <2>3
    <2>9. k \in Knows /\ k.step = node[n].step /\ k.task = "none" /\ k.bootstrapping = node[n].bootstrapping
      <3>1. node[n] \in Knows BY <1>1
      <3>2. c \in BOOLEAN BY <2>3
      <3> QED BY ONLY <3>1, <3>2, KnowsChange, Zenon
    <2>4. node'[n] \in Knows /\ node'[n].step = node[n].step /\ node'[n].task = "none"
          /\ node'[n].bootstrapping = node[n].bootstrapping
      BY <2>8, <2>9
    <2>5. node[n].step = "load" BY <1>1, <1>9 DEF Boo!Clone, StepInv
    <2>6. StepInv(n)' BY <2>4, <2>5 DEF StepInv
    <2> QED BY <1>1, <1>9, <2>2, <2>4, <2>6 DEF Typed, Boo!Clone
  <1>10. CASE Boo!PostInit(n) \/ Boo!RunPostBootstrap(n) \/ Boo!Failed(n) \/ Boo!Cancel(n)
    BY <1>1, <1>10
    DEF Typed, Boo!PostInit, Boo!RunPostBootstrap, Boo!Failed, Boo!Cancel, Boo!Go, Knows, StepInv
  <1>11. CASE Boo!MoveDataDirectory(n)
    BY <1>1, <1>11 DEF Typed, Boo!MoveDataDirectory, Boo!Fresh, Boo!NoData, Knows, Data, StepInv
  <1>12. CASE Boo!AnnounceNew(n) \/ Boo!TakeLeader(n)
    BY <1>1, <1>12
    DEF Typed, Boo!AnnounceNew, Boo!TakeLeader, Boo!SetInitialize, Knows, Data, StepInv
  <1> QED BY <1>3, <1>4, <1>5, <1>6, <1>7, <1>8, <1>9, <1>10, <1>11, <1>12 DEF BootNode

\* There is still one node, if any, that won the key last and did not give up.
LEMMA BootWon ==
  ASSUME BootInv, NEW n \in Joiner, BootNode(n)
  PROVE  \E o \in Joiner \cup {NoJoiner} : Won(o)'
  <1>1. PICK o \in Joiner \cup {NoJoiner} : Won(o) BY DEF BootInv
  <1>2. /\ node \in [Joiner -> Knows] /\ data \in [Joiner -> Data] /\ \A m \in Joiner : StepInv(m)
        /\ initialize \in {Boo!Absent, Boo!Empty} \cup Joiner
    BY BootTypes DEF BootInv, BootType
  <1>3. \A m \in Joiner \ {n} : node'[m] = node[m] /\ data'[m] = data[m] BY <1>2, BootFrame
  <1>4. \A m \in Joiner \ {n} : Bootstraps(m)' <=> Bootstraps(m) BY <1>3 DEF Bootstraps
  <1>5. CASE Boo!BootstrapNew(n) /\ initialize = Boo!Absent
    <2>1. initialize' = Boo!Empty /\ data' = data /\ failed' = failed
      BY <1>5 DEF Boo!BootstrapNew, Boo!Race
    <2>2. o = NoJoiner /\ \A m \in Joiner : ~Bootstraps(m) BY <1>1, <1>5, BootConstants DEF Won
    <2>3. Won(n)' BY <1>1, <1>4, <2>1, <2>2, BootConstants DEF Won, Allowed
    <2> QED BY <2>3
  <1>6. CASE Boo!Cancel(n)
    <2>1. failed' = failed \cup {n} /\ data' = data /\ node' = [node EXCEPT ![n].step = "move"]
      BY <1>6 DEF Boo!Cancel, Boo!Go
    <2>2. node[n].bootstrapping /\ node[n].step = "cancel" BY <1>2, <1>6 DEF Boo!Cancel, StepInv
    <2>3. n = o BY <1>1, <2>2 DEF Won, Bootstraps
    <2>4. ~Bootstraps(n)' BY <1>2, <2>1 DEF Bootstraps, Knows
    <2>5. Won(NoJoiner)' BY <1>1, <1>4, <2>1, <2>3, <2>4 DEF Won, Allowed
    <2> QED BY <2>5
  <1>7. ASSUME Bootstraps(n)' => Bootstraps(n), initialize' = Boo!Absent => initialize = Boo!Absent,
               \A m \in Joiner : Allowed(m, o)'
        PROVE  Won(o)'
    BY <1>1, <1>4, <1>7 DEF Won
  <1>8. CASE Boo!Initdb(n)
    <2>1. node[n].bootstrapping /\ node[n].step = "load" BY <1>2, <1>8 DEF Boo!Initdb, StepInv
    <2>2. n = o /\ Bootstraps(n) BY <1>1, <2>1 DEF Won, Bootstraps
    <2>3. data'[n].sysid \in {data[n].sysid, n} BY <1>2, <1>8 DEF Boo!Initdb, Data
    <2>4. \A m \in Joiner : Allowed(m, o)' BY <1>1, <1>3, <1>8, <2>2, <2>3 DEF Boo!Initdb, Won, Allowed
    <2> QED BY <1>7, <1>8, <2>2, <2>4 DEF Boo!Initdb
  <1>9. CASE Boo!Clone(n)
    <2>1. node[n].leader \in Joiner BY <1>2, <1>9 DEF Boo!Clone, Knows
    <2>2. data'[n].sysid \in {data[node[n].leader].sysid, NoJoiner}
      BY <1>2, <1>9, <2>1 DEF Boo!Clone, Boo!Replica, Boo!NoData
    <2>3. \A m \in Joiner : Allowed(m, o)'
      BY <1>1, <1>3, <1>9, <2>1, <2>2 DEF Boo!Clone, Won, Allowed
    <2>4. Bootstraps(n)' => Bootstraps(n)
      BY <1>2, <1>9 DEF Boo!Clone, Bootstraps, Knows
    <2> QED BY <1>7, <1>9, <2>3, <2>4 DEF Boo!Clone
  <1>10. CASE Boo!MoveDataDirectory(n)
    <2>1. data'[n].sysid = NoJoiner /\ node'[n].bootstrapping = FALSE
      BY <1>2, <1>10 DEF Boo!MoveDataDirectory, Boo!NoData, Boo!Fresh
    <2>2. \A m \in Joiner \ {n} : data[m].sysid \in failed => data[m].sysid \in failed'
      BY <1>10 DEF Boo!MoveDataDirectory
    <2>3. \A m \in Joiner : Allowed(m, o)' BY <1>1, <1>3, <2>1, <2>2 DEF Won, Allowed
    <2> QED BY <1>7, <1>10, <2>1, <2>3 DEF Boo!MoveDataDirectory, Bootstraps
  <1>11. CASE Boo!Announce(n) \/ Boo!AnnounceNew(n)
    <2>1. node[n].step # "move" /\ data[n].dir = "whole" /\ data' = data /\ failed' = failed
      BY <1>2, <1>11 DEF Boo!Announce, Boo!AnnounceNew, Boo!Rest, Data
    <2>2. data[n].sysid \in Joiner BY <1>2, <2>1 DEF Data
    <2>3. initialize' = Boo!Absent => initialize = Boo!Absent
      BY <1>11, <2>2, BootConstants DEF Boo!Announce, Boo!AnnounceNew, Boo!SetInitialize
    <2>4. Bootstraps(n)' => Bootstraps(n)
      BY <1>2, <1>11, <2>1 DEF Boo!Announce, Boo!AnnounceNew, Boo!Go, Bootstraps, Knows
    <2> QED BY <1>1, <1>7, <2>1, <2>3, <2>4 DEF Won, Allowed
  <1>12. CASE \/ Boo!Load(n) \/ Boo!ReleaseKey(n) \/ (Boo!BootstrapNew(n) /\ initialize # Boo!Absent)
              \/ Boo!BootstrapFromLeader(n) \/ Boo!Join(n) \/ Boo!Broken(n) \/ Boo!PostInit(n)
              \/ Boo!RunPostBootstrap(n) \/ Boo!Failed(n) \/ Boo!TakeLeader(n)
    <2>1. data' = data /\ failed' = failed /\ initialize' = initialize
      BY <1>12
      DEF Boo!Load, Boo!ReleaseKey, Boo!BootstrapNew, Boo!Race, Boo!BootstrapFromLeader, Boo!Join, Boo!Broken,
          Boo!PostInit, Boo!RunPostBootstrap, Boo!Failed, Boo!TakeLeader
    <2>2. Bootstraps(n)' => Bootstraps(n)
      BY <1>2, <1>12
      DEF Boo!Load, Boo!ReleaseKey, Boo!BootstrapNew, Boo!Race, Boo!BootstrapFromLeader, Boo!Join, Boo!Broken,
          Boo!PostInit, Boo!RunPostBootstrap, Boo!Failed, Boo!TakeLeader, Boo!Go, Boo!Rest, Bootstraps, Knows,
          StepInv
    <2> QED BY <1>1, <1>7, <2>1, <2>2 DEF Won, Allowed
  <1>13. CASE \/ Boo!Exit(n) \/ Boo!StartAsStandby(n) \/ Boo!RaceForLeader(n) \/ Boo!Crash(n) \/ Boo!Restart(n)
    <2>1. failed' = failed /\ initialize' = initialize /\ data'[n].sysid = data[n].sysid
      BY <1>2, <1>13
      DEF Boo!Exit, Boo!StartAsStandby, Boo!RaceForLeader, Boo!Crash, Boo!Restart, Data
    <2>2. Bootstraps(n)' => Bootstraps(n)
      BY <1>2, <1>13
      DEF Boo!Exit, Boo!StartAsStandby, Boo!RaceForLeader, Boo!Crash, Boo!Restart, Boo!Fresh, Bootstraps, Knows
    <2>3. \A m \in Joiner : Allowed(m, o)' BY <1>1, <1>3, <2>1 DEF Won, Allowed
    <2> QED BY <1>7, <2>1, <2>2, <2>3
  <1> QED BY <1>5, <1>6, <1>8, <1>9, <1>10, <1>11, <1>12, <1>13 DEF BootNode

\* In the beginning no node has won, and no node has data.
LEMMA BootInit == Boo!Init => BootInv
  <1> SUFFICES ASSUME Boo!Init PROVE BootInv OBVIOUS
  <1>1. /\ Boo!Fresh \in Knows /\ Boo!NoData \in Data
    BY DEF Boo!Fresh, Knows, Boo!NoData, Data
  <1>2. Boo!TypeOK BY <1>1, BootTypes DEF Boo!Init
  <1>3. \A n \in Joiner : StepInv(n) BY DEF Boo!Init, Boo!Fresh, StepInv
  <1>4. Won(NoJoiner) BY DEF Boo!Init, Boo!Fresh, Boo!NoData, Won, Allowed, Bootstraps
  <1> QED BY <1>2, <1>3, <1>4 DEF BootInv, BootType

\* Every step keeps it so.
LEMMA BootStep == ASSUME BootInv, Boo!Next PROVE BootInv'
  <1>1. CASE \E n \in Joiner : BootNode(n)
    BY <1>1, BootTyped, BootWon DEF BootInv
  <1>2. CASE Boo!LeaderExpires
    <2>1. UNCHANGED <<initialize, node, data, failed>> /\ leader' = NoJoiner BY <1>2 DEF Boo!LeaderExpires
    <2>2. BootType' BY <2>1 DEF BootInv, BootType, Boo!TypeOK, StepInv
    <2>3. \E o \in Joiner \cup {NoJoiner} : Won(o)' BY <2>1 DEF BootInv, Won, Allowed, Bootstraps
    <2> QED BY <2>2, <2>3 DEF BootInv
  <1> QED BY <1>1, <1>2 DEF Boo!Next, BootNode

-----------------------------------------------------------------------------
\* The invariant of the bootstrap, in the system in which the parts are side by side.
LEMMA BootAlways == Spec => [](part = "bootstrap" => BootInv)
  <1>1. Init => (part = "bootstrap" => BootInv) BY BootInit DEF Init
  <1>2. (part = "bootstrap" => BootInv) /\ [Next]_allVars => (part = "bootstrap" => BootInv)'
    <2> SUFFICES ASSUME part = "bootstrap" => BootInv, [Next]_allVars, part' = "bootstrap" PROVE BootInv' OBVIOUS
    <2>1. CASE UNCHANGED allVars
      BY <2>1 DEF allVars, booVars, BootInv, BootType, Boo!TypeOK, StepInv, Won, Allowed, Bootstraps
    <2>2. CASE Next
      <3>1. part = "bootstrap" /\ Boo!Next BY <2>2 DEF Next
      <3> QED BY <3>1, BootStep
    <2> QED BY <2>1, <2>2
  <1> QED BY <1>1, <1>2, PTL DEF Spec

\* There is one cluster: no two nodes have different systems in their data directories, unless one is what
\* a failed bootstrap has left, however many nodes bootstrap and crash (ha.py, bootstrap()).
THEOREM BootstrapMakesOne == Spec => []OneCluster
  <1>1. (part = "bootstrap" => BootInv) => OneCluster
    BY BootTypes DEF BootInv, BootType, Won, Allowed, OneCluster, Boo!OneCluster
  <1> QED BY <1>1, BootAlways, PTL

-----------------------------------------------------------------------------
(* Rewind *)

\* The logs there can be, the states of pg_controldata and of Rewind.
Log == [tl : Rew!Timeline, left : [Rew!Timeline -> Rew!Position], end : Rew!Position, replayed : Rew!Position]
Ctl == [state : {"in archive recovery", "in production", "shut down"}, tl : Rew!Timeline]
Status == {"initial", "checkpoint", "check", "need", "not needed", "success", "failed"}

RewType ==
  /\ lock \in Server \cup {NoServer} /\ failures \in Nat
  /\ logs \in [Server -> Log] /\ ctl \in [Server -> Ctl]
  /\ pgs \in [Server -> {"down", "standby", "primary", "stopping"}]
  /\ rstate \in [Server -> Status] /\ exposed \in [Server -> BOOLEAN]

\* A timeline is left where the log has got to at least, and later ones are left later.
Ordered(w) ==
  /\ 0 < w.replayed /\ w.replayed <= w.end
  /\ \A t \in Rew!Timeline : w.left[t] <= w.end /\ (w.tl <= t => w.left[t] = 0)
  /\ \A t, u \in Rew!Timeline : t < u /\ w.left[u] # 0 => w.left[t] <= w.left[u]

\* A timeline of the history of w.
Past(t, w) == t = w.tl \/ w.left[t] # 0

\* Timelines are not used twice: who has one has the history before it.
SameHistory(v, w) ==
  \A t \in Rew!Timeline : Past(t, v) /\ Past(t, w) => \A u \in Rew!Timeline : u < t => v.left[u] = w.left[u]

\* p is the primary, or crashed as one and may start as one again.
Leads(p) == pgs[p] = "primary" \/ (pgs[p] = "down" /\ ctl[p].state = "in production" /\ lock = p)

\* Nobody else has as much of p's timeline, or was a primary on it.
Foremost(p) ==
  /\ logs[p].replayed = logs[p].end
  /\ \A n \in Server :
       /\ logs[n].tl <= logs[p].tl
       /\ logs[n].tl = logs[p].tl => logs[n].end <= logs[p].end
       /\ n # p /\ ctl[n].state = "in production" => logs[n].tl < logs[p].tl

\* What holds of the postgres of each node: its control file, and what it says of a checkpoint.
Postgres(n) ==
  /\ ctl[n].tl <= logs[n].tl
  /\ pgs[n] = "primary" => ctl[n].state = "in production"
  /\ pgs[n] \in {"standby", "stopping"} => ctl[n].state # "in production"
  /\ pgs[n] = "standby" => rstate[n] # "checkpoint"
  /\ Leads(n) /\ lock = n /\ (exposed[n] \/ rstate[n] = "checkpoint") => ctl[n].tl = logs[n].tl

RewInv ==
  /\ RewType
  /\ \A n \in Server : Ordered(logs[n]) /\ Postgres(n) /\ (Leads(n) => Foremost(n))
  /\ \A n, m \in Server : SameHistory(logs[n], logs[m])

-----------------------------------------------------------------------------
\* What is assumed of the constants.
LEMMA RewConstants ==
  MaxTimeline \in Nat \ {0} /\ MaxLsn \in Nat \ {0} /\ MaxFailures \in Nat /\ NoServer \notin Server
  BY NodeAssumption DEF NodeAssumption, Rew!RewindAssumption

\* What a timeline or a position is.
LEMMA Numbers ==
  /\ \A t : t \in Rew!Timeline <=> t \in Nat /\ 1 <= t /\ t <= MaxTimeline
  /\ \A e : e \in Rew!Position <=> e \in Nat /\ e <= MaxLsn
  BY RewConstants, SMT DEF Rew!Timeline, Rew!Position

\* The checkpoint after a promotion is run, and nobody takes a key from before the promotion for a sign of it.
Checkpointing == ~CheckpointFails /\ ~StaleMember

\* The order of numbers.
LEMMA Order ==
  /\ \A a, b \in Nat : a <= b \/ a > b
  /\ \A a, b \in Nat : a <= b => a < b \/ a = b
  /\ \A a, b \in Nat : a <= b /\ b <= a => a = b
  /\ \A a \in Nat : a <= a
  OBVIOUS

\* Histories are the same both ways.
LEMMA SameBothWays ==
  ASSUME NEW v \in Log, NEW w \in Log, SameHistory(v, w)
  PROVE  SameHistory(w, v)
  BY DEF SameHistory

\* Nobody's log but that of n changes.
Only(n) == logs' \in [Server -> Log] /\ \A m \in Server \ {n} : logs'[m] = logs[m]

\* One log changes.
LEMMA OneLog ==
  ASSUME RewInv, NEW n \in Server, Only(n), Ordered(logs'[n]),
         \A m \in Server \ {n} : SameHistory(logs'[n], logs[m])
  PROVE  \A m \in Server : Ordered(logs'[m]) /\ \A k \in Server : SameHistory(logs'[m], logs'[k])
  <1>1. \A m \in Server : Ordered(logs'[m]) BY DEF RewInv, Only
  <1>2. ASSUME NEW m \in Server, NEW k \in Server PROVE SameHistory(logs'[m], logs'[k])
    <2>1. CASE m # n /\ k # n BY <2>1 DEF RewInv, Only
    <2>2. CASE m = n /\ k # n BY <2>2 DEF Only
    <2>3. CASE m # n /\ k = n
      <3>1. logs'[m] \in Log /\ logs'[n] \in Log /\ logs'[m] = logs[m] BY <2>3 DEF Only
      <3>2. SameHistory(logs'[n], logs'[m]) BY <2>3, <3>1
      <3> QED BY <2>3, <3>1, <3>2, SameBothWays
    <2>4. CASE m = n /\ k = n BY <2>4 DEF SameHistory
    <2> QED BY <2>1, <2>2, <2>3, <2>4
  <1> QED BY <1>1, <1>2

\* The log of n gets longer or shorter: it has the same history.
LEMMA Resized ==
  ASSUME RewInv, NEW n \in Server, Only(n),
         logs'[n].tl = logs[n].tl, logs'[n].left = logs[n].left,
         0 < logs'[n].replayed, logs'[n].replayed <= logs'[n].end,
         \A t \in Rew!Timeline : logs[n].left[t] <= logs'[n].end
  PROVE  \A m \in Server : Ordered(logs'[m]) /\ \A k \in Server : SameHistory(logs'[m], logs'[k])
  <1>1. Ordered(logs'[n]) BY DEF RewInv, Ordered
  <1>2. \A m \in Server : SameHistory(logs[n], logs[m]) BY DEF RewInv
  <1>3. \A m \in Server \ {n} : SameHistory(logs'[n], logs[m]) BY <1>2 DEF SameHistory, Past
  <1> QED BY <1>1, <1>3, OneLog

\* There is one who leads.
LEMMA OneLeads ==
  ASSUME RewInv, NEW p \in Server, NEW q \in Server, Leads(p), Leads(q)
  PROVE  p = q
  <1>1. ctl[p].state = "in production" /\ ctl[q].state = "in production" BY DEF RewInv, Postgres, Leads
  <1>2. Foremost(p) /\ Foremost(q) BY DEF RewInv
  <1>3. logs[p].tl \in Nat /\ logs[q].tl \in Nat BY Numbers DEF RewInv, RewType, Log
  <1>4. p # q => logs[p].tl < logs[q].tl /\ logs[q].tl < logs[p].tl BY <1>1, <1>2 DEF Foremost
  <1> QED BY <1>3, <1>4

\* Somebody who does not lead gets a log that is no longer than that of who does.
LEMMA Outdone ==
  ASSUME RewInv, NEW n \in Server, Only(n),
         ~Leads(n)', \A p \in Server \ {n} : Leads(p)' => Leads(p),
         ctl'[n].state # "in production", \A m \in Server \ {n} : ctl'[m] = ctl[m],
         \A p \in Server \ {n} : Leads(p) =>
            logs'[n].tl <= logs[p].tl /\ (logs'[n].tl = logs[p].tl => logs'[n].end <= logs[p].end)
  PROVE  \A p \in Server : Leads(p)' => Foremost(p)'
  <1> SUFFICES ASSUME NEW p \in Server, Leads(p)' PROVE Foremost(p)' OBVIOUS
  <1>1. p # n /\ Leads(p) /\ Foremost(p) BY DEF RewInv
  <1>2. \A m \in Server \ {n} : logs'[m] = logs[m] BY DEF Only
  <1> QED BY <1>1, <1>2 DEF Foremost

\* Nobody's log changes, and nobody becomes a primary.
LEMMA NoLog ==
  ASSUME RewInv, logs' = logs, \A p \in Server : Leads(p)' => Leads(p),
         \A m \in Server : ctl'[m].state = "in production" => ctl[m].state = "in production"
  PROVE  /\ logs' \in [Server -> Log] /\ \A m \in Server : Ordered(logs'[m])
         /\ \A m, k \in Server : SameHistory(logs'[m], logs'[k])
         /\ \A p \in Server : Leads(p)' => Foremost(p)'
  BY DEF RewInv, RewType, Foremost

-----------------------------------------------------------------------------
(* Steps that change nobody's log. *)

\* A step that leaves the logs and the timelines of the control files alone, and makes nobody a primary.
LEMMA Quiet ==
  ASSUME RewInv, NEW n \in Server,
         \/ Rew!LoseLock \/ Rew!CrashPostgres(n) \/ Rew!StopPostgres(n) \/ Rew!Follow(n) \/ Rew!TouchMember(n)
         \/ Rew!StartPrimary(n) \/ Rew!CheckTimelineAndLsn(n) \/ Rew!StartPostgres(n) \/ (Rew!Failure /\ Rew!StartStandby(n))
  PROVE  RewInv'
  <1>1. RewType /\ \A m \in Server : Postgres(m) BY DEF RewInv
  <1>2. CASE Rew!LoseLock
    <2>1. RewType' BY <1>1, <1>2 DEF Rew!LoseLock, RewType
    <2>2. \A m \in Server : Postgres(m)' /\ (Leads(m)' => Leads(m))
      BY <1>1, <1>2, RewConstants DEF Rew!LoseLock, Postgres, Leads
    <2> QED BY <1>2, <2>1, <2>2, NoLog DEF Rew!LoseLock, RewInv
  <1>3. CASE Rew!CrashPostgres(n)
    <2>1. RewType' BY <1>1, <1>3 DEF Rew!CrashPostgres, Rew!Failure, RewType
    <2>2. \A m \in Server : Postgres(m)' /\ (Leads(m)' => Leads(m))
      BY <1>1, <1>3 DEF Rew!CrashPostgres, Postgres, Leads, RewType
    <2> QED BY <1>3, <2>1, <2>2, NoLog DEF Rew!CrashPostgres, RewInv
  <1>4. CASE Rew!StopPostgres(n)
    <2>1. RewType' BY <1>1, <1>4 DEF Rew!StopPostgres, RewType
    <2>2. \A m \in Server : Postgres(m)' /\ (Leads(m)' => Leads(m))
      BY <1>1, <1>4 DEF Rew!StopPostgres, Postgres, Leads, RewType
    <2> QED BY <1>4, <2>1, <2>2, NoLog DEF Rew!StopPostgres, RewInv
  <1>5. CASE Rew!Follow(n)
    <2>1. RewType' BY <1>1, <1>5 DEF Rew!Follow, Rew!Triggered, RewType, Status
    <2>2. \A m \in Server : Postgres(m)' /\ (Leads(m)' => Leads(m))
      BY <1>1, <1>5 DEF Rew!Follow, Rew!Triggered, Postgres, Leads, RewType
    <2> QED BY <1>5, <2>1, <2>2, NoLog DEF Rew!Follow, RewInv
  <1>6. CASE Rew!TouchMember(n)
    <2>3. UNCHANGED <<lock, logs, pgs, ctl, rstate, failures>> BY <1>6 DEF Rew!TouchMember
    <2>4. \/ exposed' = [exposed EXCEPT ![n] = TRUE] /\ (lock = n => rstate[n] = "checkpoint")
          \/ exposed' = [exposed EXCEPT ![n] = FALSE]
      <3>1. PICK e \in BOOLEAN : exposed' = [exposed EXCEPT ![n] = e] /\ (e /\ lock = n => rstate[n] = "checkpoint")
        BY <1>6, Zenon DEF Rew!TouchMember
      <3>2. CASE e = TRUE BY <3>1, <3>2, Zenon
      <3>3. CASE e = FALSE BY <3>1, <3>3, Zenon
      <3> QED BY <3>2, <3>3
    <2>5. /\ exposed' \in [Server -> BOOLEAN] /\ \A m \in Server \ {n} : exposed'[m] = exposed[m]
          /\ exposed'[n] /\ lock = n => rstate[n] = "checkpoint"
      BY <1>1, <2>4 DEF RewType
    <2>1. RewType' BY <1>1, <2>3, <2>5 DEF RewType
    <2>2. \A m \in Server : Postgres(m)' /\ (Leads(m)' => Leads(m))
      <3>1. Postgres(n)' /\ (Leads(n)' => Leads(n)) BY <1>1, <2>3, <2>5 DEF Postgres, Leads
      <3>2. ASSUME NEW m \in Server \ {n} PROVE Postgres(m)' /\ (Leads(m)' => Leads(m))
        <4>1. exposed'[m] = exposed[m] BY <2>5
        <4> QED BY <1>1, <2>3, <4>1 DEF Postgres, Leads
      <3> QED BY <3>1, <3>2
    <2> QED BY <1>6, <2>1, <2>2, NoLog DEF Rew!TouchMember, RewInv
  <1>7. CASE Rew!StartPrimary(n)
    <2>1. RewType' BY <1>1, <1>7 DEF Rew!StartPrimary, RewType
    <2>2. \A m \in Server : Postgres(m)' /\ (Leads(m)' => Leads(m))
      BY <1>1, <1>7 DEF Rew!StartPrimary, Postgres, Leads, RewType
    <2> QED BY <1>7, <2>1, <2>2, NoLog DEF Rew!StartPrimary, RewInv
  <1>8. CASE Rew!CheckTimelineAndLsn(n)
    <2>1. RewType' BY <1>1, <1>8 DEF Rew!CheckTimelineAndLsn, RewType, Status
    <2>2. \A m \in Server : Postgres(m)' /\ (Leads(m)' => Leads(m))
      BY <1>1, <1>8 DEF Rew!CheckTimelineAndLsn, Postgres, Leads, RewType
    <2> QED BY <1>8, <2>1, <2>2, NoLog DEF Rew!CheckTimelineAndLsn, RewInv
  <1>9. CASE Rew!StartPostgres(n) \/ (Rew!Failure /\ Rew!StartStandby(n))
    <2>1. Rew!StartStandby(n) BY <1>9 DEF Rew!StartPostgres
    <2>6. failures' \in Nat
      <3>1. failures' = failures \/ Rew!Failure BY <1>9 DEF Rew!StartPostgres
      <3> QED BY <1>1, <3>1 DEF Rew!Failure, RewType
    <2>7. UNCHANGED <<lock, logs, exposed>> BY <2>1 DEF Rew!StartStandby
    <2>2. RewType' BY <1>1, <2>1, <2>6 DEF Rew!StartStandby, Rew!Triggered, RewType, Status, Ctl
    <2>3. /\ pgs'[n] = "standby" /\ ctl'[n].state = "in archive recovery" /\ ctl'[n].tl = ctl[n].tl
          /\ rstate'[n] # "checkpoint"
          /\ \A m \in Server \ {n} : pgs'[m] = pgs[m] /\ ctl'[m] = ctl[m] /\ rstate'[m] = rstate[m]
      <3>1. pgs'[n] = "standby" /\ \A m \in Server \ {n} : pgs'[m] = pgs[m]
        BY <1>1, <2>1 DEF Rew!StartStandby, RewType
      <3>2. /\ ctl'[n].state = "in archive recovery" /\ ctl'[n].tl = ctl[n].tl
            /\ \A m \in Server \ {n} : ctl'[m] = ctl[m]
        BY <1>1, <2>1 DEF Rew!StartStandby, RewType, Ctl
      <3>3. rstate'[n] # "checkpoint" /\ \A m \in Server \ {n} : rstate'[m] = rstate[m]
        BY <1>1, <2>1 DEF Rew!StartStandby, Rew!Triggered, RewType
      <3> QED BY <3>1, <3>2, <3>3
    <2>4. Postgres(n)' /\ ~Leads(n)' BY <1>1, <2>3, <2>7 DEF Postgres, Leads
    <2>5. \A m \in Server \ {n} : Postgres(m)' /\ (Leads(m)' => Leads(m))
      BY <1>1, <2>3, <2>7 DEF Postgres, Leads
    <2> QED BY <2>2, <2>3, <2>4, <2>5, <2>7, NoLog DEF RewInv
  <1> QED BY <1>2, <1>3, <1>4, <1>5, <1>6, <1>7, <1>8, <1>9

\* The timeline in a control file.
LEMMA CtlTimeline ==
  ASSUME ctl \in [Server -> Ctl], NEW n \in Server, NEW t \in Rew!Timeline
  PROVE  LET c == [ctl EXCEPT ![n].tl = t]
         IN /\ c \in [Server -> Ctl] /\ c[n].tl = t /\ c[n].state = ctl[n].state
            /\ \A m \in Server \ {n} : c[m] = ctl[m]
  <1> DEFINE d == [ctl[n] EXCEPT !.tl = t]
  <1>1. d \in Ctl /\ d.tl = t /\ d.state = ctl[n].state BY DEF Ctl
  <1> HIDE DEF d
  <1>2. LET c == [ctl EXCEPT ![n] = d]
        IN c \in [Server -> Ctl] /\ c[n] = d /\ \A m \in Server \ {n} : c[m] = ctl[m]
    BY <1>1
  <1> QED BY <1>1, <1>2 DEF d

\* A checkpoint, asked for or not, brings the timeline to the control file.
LEMMA Checkpointed ==
  ASSUME RewInv, NEW n \in Server, Checkpointing, Rew!Checkpoint(n) \/ Rew!EnsureCheckpoint(n)
  PROVE  RewInv'
  <1>1. RewType /\ \A m \in Server : Postgres(m) BY DEF RewInv
  <1>2. /\ ctl' = [ctl EXCEPT ![n].tl = logs[n].tl] \/ (ctl' = ctl /\ ctl[n].tl = logs[n].tl)
        /\ UNCHANGED <<lock, logs, pgs, exposed>>
        /\ rstate' = rstate \/ (pgs[n] = "primary" /\ rstate' = [rstate EXCEPT ![n] = "checkpoint"])
        /\ failures' \in Nat
    BY <1>1 DEF Checkpointing, Rew!Checkpoint, Rew!EnsureCheckpoint, Rew!Failure, RewType
  <1>3. logs[n].tl \in Rew!Timeline BY <1>1 DEF RewType, Log
  <1>4. RewType'
    <2>1. ctl' \in [Server -> Ctl] BY <1>1, <1>2, <1>3, CtlTimeline DEF RewType
    <2>2. rstate' \in [Server -> Status] BY <1>1, <1>2 DEF RewType, Status
    <2> QED BY <1>1, <1>2, <2>1, <2>2 DEF RewType
  <1>5. /\ ctl'[n].tl = logs[n].tl /\ \A m \in Server : ctl'[m].state = ctl[m].state
        /\ \A m \in Server \ {n} : ctl'[m] = ctl[m] /\ rstate'[m] = rstate[m]
    <2>1. CASE ctl' = [ctl EXCEPT ![n].tl = logs[n].tl]
      <3>1. \A m \in Server \ {n} : rstate'[m] = rstate[m] BY <1>1, <1>2 DEF RewType
      <3> QED BY <1>1, <1>3, <2>1, <3>1, CtlTimeline DEF RewType
    <2>2. CASE ctl' = ctl /\ ctl[n].tl = logs[n].tl
      BY <1>1, <1>2, <2>2 DEF RewType
    <2> QED BY <1>2, <2>1, <2>2
  <1>6. logs[n].tl <= logs[n].tl BY <1>3, Numbers
  <1>7. \A m \in Server : Postgres(m)' /\ (Leads(m)' => Leads(m))
    BY <1>1, <1>2, <1>5, <1>6 DEF Postgres, Leads, RewType
  <1> QED BY <1>2, <1>4, <1>5, <1>7, NoLog DEF RewInv

-----------------------------------------------------------------------------
(* Steps that write, receive or replay WAL. *)

\* The lengths there can be.
LEMMA Lengths ==
  ASSUME RewInv, NEW n \in Server
  PROVE  LET w == logs[n]
         IN /\ w \in Log /\ w.end \in Nat /\ w.replayed \in Nat /\ w.tl \in Nat
            /\ 0 < w.replayed /\ w.replayed <= w.end /\ w.end <= MaxLsn
            /\ \A t \in Rew!Timeline : w.left[t] \in Nat /\ w.left[t] <= w.end
            /\ w.end < MaxLsn => w.end + 1 \in Rew!Position
  <1>1. logs[n] \in Log /\ Ordered(logs[n]) BY DEF RewInv, RewType
  <1> QED BY <1>1, Numbers, RewConstants DEF Log, Ordered

\* The log of a standby gets another length, and no longer than that of who leads on the same timeline.
LEMMA StandbyResized ==
  ASSUME RewInv, NEW n \in Server, pgs[n] = "standby", Only(n),
         UNCHANGED <<lock, pgs, ctl, rstate, exposed, failures>>,
         logs'[n].tl = logs[n].tl, logs'[n].left = logs[n].left,
         0 < logs'[n].replayed, logs'[n].replayed <= logs'[n].end,
         \A t \in Rew!Timeline : logs[n].left[t] <= logs'[n].end,
         \A p \in Server \ {n} : Leads(p) /\ logs[n].tl = logs[p].tl => logs'[n].end <= logs[p].end
  PROVE  RewInv'
  <1>1. RewType /\ \A m \in Server : Postgres(m) BY DEF RewInv
  <1>2. \A m \in Server : Ordered(logs'[m]) /\ \A k \in Server : SameHistory(logs'[m], logs'[k])
    BY Resized
  <1>3. \A m \in Server : logs'[m].tl = logs[m].tl BY DEF Only
  <1>4. RewType' BY <1>1 DEF RewType, Only
  <1>5. \A m \in Server : Postgres(m)' /\ Leads(m)' = Leads(m) BY <1>1, <1>3 DEF Postgres, Leads
  <1>6. ~Leads(n)' /\ ctl'[n].state # "in production" BY <1>1 DEF Postgres, Leads
  <1>7. \A p \in Server \ {n} : Leads(p) =>
          logs'[n].tl <= logs[p].tl /\ (logs'[n].tl = logs[p].tl => logs'[n].end <= logs[p].end)
    BY DEF RewInv, Foremost
  <1>8. \A p \in Server : Leads(p)' => Foremost(p)' BY <1>5, <1>6, <1>7, Outdone
  <1> QED BY <1>2, <1>4, <1>5, <1>8 DEF RewInv

\* The primary writes.
LEMMA Writes ==
  ASSUME RewInv, NEW n \in Server, Rew!WriteWal(n)
  PROVE  RewInv'
  <1>1. RewType /\ pgs[n] = "primary" /\ \A m \in Server : Postgres(m) BY DEF RewInv, Rew!WriteWal
  <1>2. /\ logs[n].end + 1 \in Rew!Position /\ logs[n].end \in Nat /\ 0 < logs[n].end + 1
        /\ \A t \in Rew!Timeline : logs[n].left[t] \in Nat /\ logs[n].left[t] <= logs[n].end + 1
    BY Lengths, RewConstants DEF Rew!WriteWal
  <1>3. /\ Only(n) /\ logs'[n].tl = logs[n].tl /\ logs'[n].left = logs[n].left
        /\ logs'[n].end = logs[n].end + 1 /\ logs'[n].replayed = logs[n].end + 1
    BY <1>1, <1>2 DEF Rew!WriteWal, Only, RewType, Log
  <1>4. UNCHANGED <<lock, pgs, ctl, rstate, exposed, failures>> BY DEF Rew!WriteWal
  <1>5. \A m \in Server : Ordered(logs'[m]) /\ \A k \in Server : SameHistory(logs'[m], logs'[k])
    BY <1>2, <1>3, Resized
  <1>6. \A m \in Server : logs'[m].tl = logs[m].tl BY <1>3 DEF Only
  <1>7. RewType' BY <1>1, <1>3, <1>4 DEF RewType, Only
  <1>8. \A m \in Server : Postgres(m)' /\ Leads(m)' = Leads(m) BY <1>1, <1>4, <1>6 DEF Postgres, Leads
  <1>9. \A p \in Server : Leads(p)' => p = n BY <1>1, <1>8, OneLeads DEF Leads
  <1>10. Foremost(n)'
    <2>1. Foremost(n) BY <1>1 DEF RewInv, Leads
    <2>2. \A m \in Server : logs[m].tl = logs[n].tl => logs'[m].end <= logs[n].end + 1
      <3> SUFFICES ASSUME NEW m \in Server \ {n}, logs[m].tl = logs[n].tl PROVE logs[m].end <= logs[n].end + 1
        BY <1>2, <1>3 DEF Only
      <3>1. logs[m].end <= logs[n].end BY <2>1 DEF Foremost
      <3> QED BY <3>1, Lengths
    <2> QED BY <1>3, <1>4, <1>6, <2>1, <2>2 DEF Foremost
  <1> QED BY <1>5, <1>7, <1>8, <1>9, <1>10 DEF RewInv

\* A standby replays.
LEMMA Replays ==
  ASSUME RewInv, NEW n \in Server, Rew!ReplayWal(n)
  PROVE  RewInv'
  <1>1. RewType /\ pgs[n] = "standby" /\ \A m \in Server : Postgres(m) BY DEF RewInv, Rew!ReplayWal
  <1>2. /\ logs[n].replayed + 1 \in Rew!Position /\ 0 < logs[n].replayed + 1 /\ logs[n].replayed + 1 <= logs[n].end
        /\ \A t \in Rew!Timeline : logs[n].left[t] <= logs[n].end
    BY Lengths, Numbers, RewConstants DEF Rew!ReplayWal
  <1>3. /\ Only(n) /\ logs'[n].tl = logs[n].tl /\ logs'[n].left = logs[n].left
        /\ logs'[n].end = logs[n].end /\ logs'[n].replayed = logs[n].replayed + 1
    BY <1>1, <1>2 DEF Rew!ReplayWal, Only, RewType, Log
  <1>4. UNCHANGED <<lock, pgs, ctl, rstate, exposed, failures>> BY DEF Rew!ReplayWal
  <1> QED 
    <2>1. \A p \in Server \ {n} : Leads(p) /\ logs[n].tl = logs[p].tl => logs'[n].end <= logs[p].end
      BY <1>3 DEF RewInv, Foremost
    <2> QED BY <1>1, <1>2, <1>3, <1>4, <2>1, StandbyResized

\* Where a standby that follows m stops receiving its timeline.
Limit(w, v) == IF w.tl = v.tl THEN v.end ELSE v.left[w.tl]

\* What that limit is, for a standby that may follow m.
LEMMA Limited ==
  ASSUME RewInv, NEW n \in Server, NEW m \in Server, Rew!Contained(logs[n], logs[m])
  PROVE  /\ logs[n].tl <= logs[m].tl
         /\ Limit(logs[n], logs[m]) \in Rew!Position
         /\ logs[n].replayed <= Limit(logs[n], logs[m]) /\ Limit(logs[n], logs[m]) <= logs[m].end
         /\ \A t \in Rew!Timeline : t < logs[n].tl => logs[n].left[t] = logs[m].left[t]
         /\ \A t \in Rew!Timeline : logs[n].left[t] <= Limit(logs[n], logs[m])
         /\ \A t \in Rew!Timeline : t <= logs[n].tl /\ logs[n].tl # logs[m].tl =>
              logs[m].left[t] <= Limit(logs[n], logs[m])
  <1> DEFINE w == logs[n]
             v == logs[m]
  <1>1. w \in Log /\ v \in Log /\ Ordered(w) /\ Ordered(v) /\ SameHistory(w, v) BY DEF RewInv, RewType
  <1>2. /\ w.tl \in Rew!Timeline /\ v.tl \in Rew!Timeline /\ w.tl \in Nat /\ v.tl \in Nat
        /\ w.end \in Nat /\ w.replayed \in Nat /\ v.end \in Nat /\ v.end \in Rew!Position
        /\ \A t \in Rew!Timeline : w.left[t] \in Nat /\ v.left[t] \in Nat /\ v.left[t] \in Rew!Position
    BY <1>1, Numbers DEF Log
  <1>3. \A t \in Rew!Timeline : t \in Nat BY Numbers
  <1>4. Rew!Within(w.tl, w.replayed, v) BY DEF Rew!Contained
  <1> HIDE DEF w, v
  <1>5. CASE w.tl = v.tl
    <2>1. Limit(w, v) = v.end /\ w.replayed <= v.end BY <1>4, <1>5 DEF Limit, Rew!Within
    <2>2. \A t \in Rew!Timeline : t < w.tl => w.left[t] = v.left[t]
      BY <1>1, <1>2, <1>5 DEF SameHistory, Past
    <2>3. \A t \in Rew!Timeline : w.left[t] <= v.end
      <3> SUFFICES ASSUME NEW t \in Rew!Timeline PROVE w.left[t] <= v.end OBVIOUS
      <3>1. CASE t < w.tl BY <1>1, <2>2, <3>1 DEF Ordered
      <3>2. CASE w.tl <= t
        <4>1. w.left[t] = 0 BY <1>1, <3>2 DEF Ordered
        <4> QED BY <1>2, <4>1
      <3>3. t < w.tl \/ w.tl <= t BY <1>2, <1>3
      <3> QED BY <3>1, <3>2, <3>3
    <2>4. w.tl <= v.tl BY <1>2, <1>5
    <2>5. v.end <= v.end BY <1>2
    <2> QED BY <1>2, <1>5, <2>1, <2>2, <2>3, <2>4, <2>5 DEF w, v
  <1>6. CASE w.tl # v.tl
    <2>1. Limit(w, v) = v.left[w.tl] /\ w.replayed <= v.left[w.tl] /\ w.tl < v.tl
      BY <1>4, <1>6 DEF Limit, Rew!Within
    <2>2. v.left[w.tl] # 0 BY <1>1, <1>2, <2>1 DEF Ordered
    <2>3. \A t \in Rew!Timeline : t < w.tl => w.left[t] = v.left[t]
      BY <1>1, <1>2, <2>2 DEF SameHistory, Past
    <2>4. \A t \in Rew!Timeline : t < w.tl => v.left[t] <= v.left[w.tl] BY <1>1, <1>2, <2>2 DEF Ordered
    <2>5. \A t \in Rew!Timeline : t <= w.tl => v.left[t] <= v.left[w.tl]
      <3> SUFFICES ASSUME NEW t \in Rew!Timeline, t <= w.tl PROVE v.left[t] <= v.left[w.tl] OBVIOUS
      <3>1. t < w.tl \/ t = w.tl BY <1>2, <1>3
      <3> QED BY <1>2, <2>4, <3>1
    <2>6. \A t \in Rew!Timeline : w.left[t] <= v.left[w.tl]
      <3> SUFFICES ASSUME NEW t \in Rew!Timeline PROVE w.left[t] <= v.left[w.tl] OBVIOUS
      <3>1. CASE t < w.tl BY <2>3, <2>4, <3>1
      <3>2. CASE w.tl <= t
        <4>1. w.left[t] = 0 BY <1>1, <3>2 DEF Ordered
        <4> QED BY <1>2, <4>1
      <3>3. t < w.tl \/ w.tl <= t BY <1>2, <1>3
      <3> QED BY <3>1, <3>2, <3>3
    <2>7. v.left[w.tl] <= v.end BY <1>1, <1>2 DEF Ordered
    <2>8. w.tl <= v.tl BY <1>2, <1>3, <2>1
    <2> QED BY <1>2, <2>1, <2>3, <2>5, <2>6, <2>7, <2>8 DEF w, v
  <1> QED BY <1>5, <1>6

\* A standby goes on to the next timeline of the history of m.
LEMMA SwitchedLog ==
  ASSUME RewInv, NEW n \in Server, NEW m \in Server, Rew!Contained(logs[n], logs[m]),
         NEW t \in Rew!Timeline, Rew!Onward(t, logs[n].tl, logs[m]), logs[n].end = Limit(logs[n], logs[m])
  PROVE  LET x == Rew!Switched(logs[n], logs[m], t)
         IN /\ x \in Log /\ x.tl = t /\ x.end = logs[n].end /\ logs[n].tl < t /\ t <= logs[m].tl
            /\ logs[n].end <= logs[m].end
            /\ Ordered(x) /\ \A k \in Server : SameHistory(x, logs[k])
  <1> DEFINE w == logs[n]
             v == logs[m]
             x == Rew!Switched(w, v, t)
  <1>1. w \in Log /\ v \in Log /\ Ordered(w) /\ Ordered(v) BY DEF RewInv, RewType
  <1>2. /\ w.tl \in Rew!Timeline /\ v.tl \in Rew!Timeline /\ w.tl \in Nat /\ v.tl \in Nat
        /\ w.end \in Nat /\ v.end \in Nat /\ w.replayed \in Nat /\ \A u \in Rew!Timeline : v.left[u] \in Nat
    BY <1>1, Numbers DEF Log
  <1>3. \A u \in Rew!Timeline : u \in Nat BY Numbers
  <1>4. /\ w.tl < t /\ (t = v.tl \/ v.left[t] # 0)
        /\ \A u \in Rew!Timeline : w.tl < u /\ u < t => v.left[u] = 0
    BY DEF Rew!Onward
  <1>5. t <= v.tl
    <2>1. v.left[t] # 0 => ~(v.tl <= t) BY <1>1 DEF Ordered
    <2> QED BY <1>2, <1>3, <1>4, <2>1
  <1>6. w.tl # v.tl BY <1>2, <1>3, <1>4, <1>5
  <1>7. /\ w.end = v.left[w.tl] /\ w.end <= v.end /\ \A u \in Rew!Timeline : u <= w.tl => v.left[u] <= w.end
        /\ \A u \in Rew!Timeline : u < w.tl => w.left[u] = v.left[u]
    BY <1>6, Limited DEF Limit
  <1>8. /\ x \in Log /\ x.tl = t /\ x.end = w.end /\ x.replayed = w.replayed
        /\ \A u \in Rew!Timeline : x.left[u] = IF u <= w.tl THEN v.left[u] ELSE 0
    <2>1. 0 \in Rew!Position BY Numbers, RewConstants
    <2> QED BY <1>1, <2>1 DEF Rew!Switched, Log
  <1> HIDE DEF w, v, x
  <1>9. Ordered(x)
    <2>1. 0 < x.replayed /\ x.replayed <= x.end BY <1>1, <1>8 DEF Ordered
    <2>2. ASSUME NEW u \in Rew!Timeline PROVE x.left[u] <= x.end /\ (x.tl <= u => x.left[u] = 0)
      BY <1>2, <1>3, <1>4, <1>7, <1>8
    <2>3. ASSUME NEW r \in Rew!Timeline, NEW u \in Rew!Timeline, r < u, x.left[u] # 0
          PROVE  x.left[r] <= x.left[u]
      <3>1. u <= w.tl /\ v.left[u] # 0 /\ x.left[u] = v.left[u] BY <1>8, <2>3
      <3>2. r <= w.tl BY <1>2, <1>3, <2>3, <3>1
      <3> QED BY <1>1, <1>8, <2>3, <3>1, <3>2 DEF Ordered
    <2> QED BY <2>1, <2>2, <2>3 DEF Ordered
  <1>10. ASSUME NEW k \in Server PROVE SameHistory(x, logs[k])
    <2>1. SameHistory(v, logs[k]) BY DEF RewInv, v
    <2>2. ASSUME NEW s \in Rew!Timeline, Past(s, x), Past(s, logs[k]), NEW u \in Rew!Timeline, u < s
          PROVE  x.left[u] = logs[k].left[u]
      <3>1. Past(s, v) /\ s <= t
        <4>1. CASE s = t BY <1>3, <1>4, <4>1 DEF Past
        <4>2. CASE s # t
          <5>1. x.left[s] # 0 BY <1>8, <2>2, <4>2 DEF Past
          <5>2. s <= w.tl /\ v.left[s] # 0 BY <1>8, <5>1
          <5> QED BY <1>2, <1>3, <1>4, <5>2 DEF Past
        <4> QED BY <4>1, <4>2
      <3>2. v.left[u] = logs[k].left[u] BY <2>1, <2>2, <3>1 DEF SameHistory
      <3>3. x.left[u] = v.left[u]
        <4>1. CASE u <= w.tl BY <1>8, <4>1
        <4>2. CASE ~(u <= w.tl)
          <5>1. w.tl < u /\ u < t BY <1>2, <1>3, <2>2, <3>1, <4>2
          <5> QED BY <1>4, <1>8, <4>2, <5>1
        <4> QED BY <4>1, <4>2
      <3> QED BY <3>2, <3>3
    <2> QED BY <2>2 DEF SameHistory
  <1> QED BY <1>4, <1>5, <1>7, <1>8, <1>9, <1>10 DEF w, v, x

\* n goes on to timeline t as m did.
GoesOn(n, m, t) ==
  Rew!Onward(t, logs[n].tl, logs[m]) /\ logs' = [logs EXCEPT ![n] = Rew!Switched(logs[n], logs[m], t)]

\* A standby receives WAL, drops what it has too much, or goes on to the next timeline.
LEMMA Receives ==
  ASSUME RewInv, NEW n \in Server, NEW m \in Server, Rew!Receive(n, m)
  PROVE  RewInv'
  <1> DEFINE limit == Limit(logs[n], logs[m])
  <1>1. /\ RewType /\ pgs[n] = "standby" /\ Rew!Contained(logs[n], logs[m])
        /\ \A p \in Server : Postgres(p) /\ (Leads(p) => Foremost(p))
    BY DEF RewInv, Rew!Receive
  <1>2. UNCHANGED <<lock, pgs, ctl, rstate, exposed, failures>> BY DEF Rew!Receive
  <1>3. /\ logs[n].tl <= logs[m].tl /\ limit \in Rew!Position
        /\ logs[n].replayed <= limit /\ limit <= logs[m].end
        /\ \A t \in Rew!Timeline : logs[n].left[t] <= limit
    BY <1>1, Limited
  <1>4. /\ limit \in Nat /\ limit <= MaxLsn /\ logs[n].end \in Nat /\ logs[n].replayed \in Nat /\ 0 < logs[n].replayed
        /\ logs[n].tl \in Nat /\ logs[m].tl \in Nat /\ logs[m].end \in Nat
        /\ logs[n].replayed <= logs[n].end /\ \A t \in Rew!Timeline : logs[n].left[t] \in Nat
    BY <1>3, Lengths, Numbers
  <1>5. \A p \in Server : Leads(p) => /\ logs[m].tl <= logs[p].tl /\ logs[n].tl <= logs[p].tl
                                     /\ (logs[m].tl = logs[p].tl => logs[m].end <= logs[p].end)
                                     /\ logs[p].end \in Nat /\ logs[p].tl \in Nat
    BY <1>1, Lengths DEF Foremost
  <1>6. \A p \in Server : Leads(p) /\ logs[n].tl = logs[p].tl => limit <= logs[p].end
    BY <1>3, <1>4, <1>5
  <1> HIDE DEF limit
  <1>7. \/ logs[n].end < limit /\ logs' = [logs EXCEPT ![n].end = @ + 1]
        \/ logs[n].end > limit /\ logs' = [logs EXCEPT ![n].end = limit]
        \/ /\ logs[n].end = limit
           /\ \E t \in Rew!Timeline : GoesOn(n, m, t)
    BY DEF GoesOn, Rew!Receive, Limit, limit
  <1>8. CASE logs[n].end < limit /\ logs' = [logs EXCEPT ![n].end = @ + 1]
    <2>1. logs[n].end + 1 \in Rew!Position BY <1>4, <1>8, Numbers, RewConstants
    <2>2. /\ Only(n) /\ logs'[n].tl = logs[n].tl /\ logs'[n].left = logs[n].left
          /\ logs'[n].end = logs[n].end + 1 /\ logs'[n].replayed = logs[n].replayed
      BY <1>1, <1>8, <2>1 DEF Only, RewType, Log
    <2>3. 0 < logs'[n].replayed /\ logs'[n].replayed <= logs'[n].end BY <1>4, <2>2
    <2>4. \A t \in Rew!Timeline : logs[n].left[t] <= logs'[n].end
      <3>1. \A t \in Rew!Timeline : logs[n].left[t] <= logs[n].end BY Lengths
      <3> QED BY <1>4, <2>2, <3>1
    <2>5. \A p \in Server \ {n} : Leads(p) /\ logs[n].tl = logs[p].tl => logs'[n].end <= logs[p].end
      BY <1>4, <1>5, <1>6, <1>8, <2>2
    <2> QED BY <1>1, <1>2, <2>2, <2>3, <2>4, <2>5, StandbyResized
  <1>9. CASE logs[n].end > limit /\ logs' = [logs EXCEPT ![n].end = limit]
    <2>2. /\ Only(n) /\ logs'[n].tl = logs[n].tl /\ logs'[n].left = logs[n].left
          /\ logs'[n].end = limit /\ logs'[n].replayed = logs[n].replayed
      BY <1>1, <1>3, <1>9 DEF Only, RewType, Log
    <2> QED BY <1>1, <1>2, <1>3, <1>4, <1>6, <2>2, StandbyResized
  <1>10. CASE /\ logs[n].end = limit
              /\ \E t \in Rew!Timeline : GoesOn(n, m, t)
    <2>1. PICK t \in Rew!Timeline : GoesOn(n, m, t)
      BY <1>10
    <2> DEFINE x == Rew!Switched(logs[n], logs[m], t)
    <2>2. /\ x \in Log /\ x.tl = t /\ x.end = logs[n].end /\ logs[n].tl < t /\ t <= logs[m].tl
          /\ logs[n].end <= logs[m].end /\ Ordered(x) /\ \A k \in Server : SameHistory(x, logs[k])
      BY <1>1, <1>10, <2>1, SwitchedLog DEF GoesOn, limit
    <2>3. logs' = [logs EXCEPT ![n] = x] BY <2>1 DEF GoesOn
    <2> HIDE DEF x
    <2>4. logs'[n] = x /\ Only(n) BY <1>1, <2>2, <2>3 DEF Only, RewType
    <2>5. \A k \in Server : Ordered(logs'[k]) /\ \A j \in Server : SameHistory(logs'[k], logs'[j])
      BY <2>2, <2>4, OneLog
    <2>6. RewType' BY <1>1, <1>2, <2>4 DEF RewType, Only
    <2>7. \A k \in Server : Leads(k)' = Leads(k) BY <1>2 DEF Leads
    <2>8. ~Leads(n) /\ ctl[n].state # "in production" BY <1>1 DEF Postgres, Leads
    <2>9. \A k \in Server : Postgres(k)'
      <3>1. ctl[n].tl \in Nat /\ ctl[n].tl <= logs[n].tl /\ t \in Nat
        BY <1>1, Numbers DEF Postgres, RewType, Ctl
      <3>4. ctl[n].tl <= logs'[n].tl BY <1>4, <2>2, <2>4, <3>1
      <3>2. Postgres(n)' BY <1>1, <1>2, <2>8, <3>4 DEF Postgres, Leads
      <3>3. \A k \in Server \ {n} : Postgres(k)' BY <1>1, <1>2, <2>4 DEF Postgres, Leads, Only
      <3> QED BY <3>2, <3>3
    <2>10. \A p \in Server \ {n} : Leads(p) =>
             logs'[n].tl <= logs[p].tl /\ (logs'[n].tl = logs[p].tl => logs'[n].end <= logs[p].end)
      <3> SUFFICES ASSUME NEW p \in Server \ {n}, Leads(p)
                   PROVE logs'[n].tl <= logs[p].tl /\ (logs'[n].tl = logs[p].tl => logs'[n].end <= logs[p].end)
        OBVIOUS
      <3>1. t \in Nat BY Numbers
      <3>2. t <= logs[p].tl BY <1>4, <1>5, <2>2, <3>1
      <3>3. t = logs[p].tl => logs[n].end <= logs[p].end BY <1>4, <1>5, <2>2, <3>1
      <3> QED BY <2>2, <2>4, <3>2, <3>3
    <2>11. \A p \in Server : Leads(p)' => Foremost(p)' BY <1>2, <2>4, <2>7, <2>8, <2>10, Outdone
    <2> QED BY <2>5, <2>6, <2>9, <2>11 DEF RewInv
  <1> QED BY <1>7, <1>8, <1>9, <1>10

-----------------------------------------------------------------------------
(* Steps that make or unmake a primary. *)

\* A log that another has or its own is no longer than that of who leads.
LEMMA Copied ==
  ASSUME RewInv, NEW n \in Server, NEW m \in Server, m # n, Leads(m), Only(n),
         logs'[n] = logs[n] \/ logs'[n] = logs[m]
  PROVE  /\ \A k \in Server : Ordered(logs'[k]) /\ \A j \in Server : SameHistory(logs'[k], logs'[j])
         /\ \A p \in Server \ {n} : Leads(p) =>
              logs'[n].tl <= logs[p].tl /\ (logs'[n].tl = logs[p].tl => logs'[n].end <= logs[p].end)
  <1>1. Ordered(logs'[n]) /\ \A k \in Server : SameHistory(logs'[n], logs[k]) BY DEF RewInv
  <1>2. \A k \in Server : Ordered(logs'[k]) /\ \A j \in Server : SameHistory(logs'[k], logs'[j])
    BY <1>1, OneLog
  <1>3. \A p \in Server : Leads(p) => Foremost(p) BY DEF RewInv
  <1> QED BY <1>2, <1>3 DEF Foremost

\* The control file of n is written anew.
LEMMA CtlWritten ==
  ASSUME ctl \in [Server -> Ctl], NEW n \in Server, NEW t \in Rew!Timeline,
         NEW s \in {"in archive recovery", "in production", "shut down"},
         \/ ctl' = [ctl EXCEPT ![n] = [state |-> s, tl |-> t]]
         \/ ctl' = [ctl EXCEPT ![n].state = s, ![n].tl = t]
         \/ ctl' = [ctl EXCEPT ![n].state = s] /\ t = ctl[n].tl
  PROVE  ctl' \in [Server -> Ctl] /\ ctl'[n].state = s /\ ctl'[n].tl = t /\ \A m \in Server \ {n} : ctl'[m] = ctl[m]
  <1>1. CASE ctl' = [ctl EXCEPT ![n] = [state |-> s, tl |-> t]] BY <1>1 DEF Ctl
  <1>2. CASE ctl' = [ctl EXCEPT ![n].state = s, ![n].tl = t] BY <1>2 DEF Ctl
  <1>3. CASE ctl' = [ctl EXCEPT ![n].state = s] /\ t = ctl[n].tl BY <1>3 DEF Ctl
  <1> QED BY <1>1, <1>2, <1>3

\* The record of the last checkpoint is written.
LEMMA Shutdown ==
  ASSUME RewInv, NEW n \in Server, logs[n].end < MaxLsn,
         logs' = [logs EXCEPT ![n].end = @ + 1, ![n].replayed = logs[n].end + 1]
  PROVE  /\ Only(n) /\ logs'[n].tl = logs[n].tl
         /\ \A k \in Server : Ordered(logs'[k]) /\ \A j \in Server : SameHistory(logs'[k], logs'[j])
  <1>1. /\ logs[n].end + 1 \in Rew!Position /\ logs[n].end \in Nat /\ 0 < logs[n].end + 1
        /\ logs[n].end + 1 <= logs[n].end + 1
        /\ \A t \in Rew!Timeline : logs[n].left[t] \in Nat /\ logs[n].left[t] <= logs[n].end + 1
    BY Lengths, RewConstants
  <1>2. /\ Only(n) /\ logs'[n].tl = logs[n].tl /\ logs'[n].left = logs[n].left
        /\ logs'[n].end = logs[n].end + 1 /\ logs'[n].replayed = logs[n].end + 1
    BY <1>1 DEF Only, RewInv, RewType, Log
  <1>3. /\ 0 < logs'[n].replayed /\ logs'[n].replayed <= logs'[n].end
        /\ \A t \in Rew!Timeline : logs[n].left[t] <= logs'[n].end
    BY <1>1, <1>2
  <1> QED BY <1>2, <1>3, Resized

\* A primary is demoted: nobody leads.
LEMMA Demotes ==
  ASSUME RewInv, NEW n \in Server, Rew!Demote(n)
  PROVE  RewInv'
  <1>1. RewType /\ pgs[n] = "primary" /\ logs[n].tl \in Rew!Timeline /\ \A m \in Server : Postgres(m)
    BY DEF RewInv, RewType, Log, Rew!Demote
  <1>2. \A m \in Server : Leads(m) => m = n BY <1>1, OneLeads DEF Leads
  <1>3. /\ lock' \in Server \cup {NoServer} /\ lock' # n /\ (lock' = lock \/ lock' = NoServer)
        /\ UNCHANGED exposed /\ failures' \in Nat
    <2>1. /\ Rew!Failure /\ UNCHANGED exposed /\ lock' = IF lock = n THEN NoServer ELSE lock BY DEF Rew!Demote
    <2>2. failures' \in Nat BY <1>1, <2>1 DEF Rew!Failure, RewType
    <2>3. NoServer # n BY RewConstants
    <2> QED BY <1>1, <2>1, <2>2, <2>3 DEF RewType
  <1>4. rstate' \in [Server -> Status] /\ \A m \in Server \ {n} : rstate'[m] = rstate[m]
    BY <1>1 DEF Rew!Demote, Rew!Triggered, RewType, Status
  <1>5. CASE /\ logs[n].end < MaxLsn /\ pgs' = [pgs EXCEPT ![n] = "stopping"]
             /\ logs' = [logs EXCEPT ![n].end = @ + 1, ![n].replayed = logs[n].end + 1]
             /\ ctl' = [ctl EXCEPT ![n] = [state |-> "shut down", tl |-> logs[n].tl]]
    <2>1. /\ Only(n) /\ logs'[n].tl = logs[n].tl
          /\ \A k \in Server : Ordered(logs'[k]) /\ \A j \in Server : SameHistory(logs'[k], logs'[j])
      BY <1>5, Shutdown
    <2>2. /\ ctl' \in [Server -> Ctl] /\ ctl'[n].state = "shut down" /\ ctl'[n].tl = logs[n].tl
          /\ \A m \in Server \ {n} : ctl'[m] = ctl[m]
      BY <1>1, <1>5, CtlWritten DEF RewType
    <2>3. /\ pgs' \in [Server -> {"down", "standby", "primary", "stopping"}] /\ pgs'[n] = "stopping"
          /\ \A m \in Server \ {n} : pgs'[m] = pgs[m]
      BY <1>1, <1>5 DEF RewType
    <2>4. RewType' BY <1>1, <1>3, <1>4, <2>1, <2>2, <2>3 DEF RewType, Only
    <2>5. \A m \in Server : ~Leads(m)' BY <1>2, <1>3, <2>2, <2>3, RewConstants DEF Leads
    <2>6. logs'[n].tl <= logs'[n].tl BY <1>1, <2>1, Numbers
    <2>7. \A m \in Server : Postgres(m)'
      <3>1. Postgres(n)' BY <2>1, <2>2, <2>3, <2>5, <2>6 DEF Postgres
      <3>2. ASSUME NEW m \in Server \ {n} PROVE Postgres(m)'
        <4>1. logs'[m] = logs[m] BY <2>1 DEF Only
        <4> QED BY <1>1, <1>4, <2>2, <2>3, <2>5, <4>1 DEF Postgres
      <3> QED BY <3>1, <3>2
    <2> QED BY <2>1, <2>4, <2>5, <2>7 DEF RewInv
  <1>6. CASE pgs' = [pgs EXCEPT ![n] = "down"] /\ UNCHANGED <<logs, ctl>>
    <2>1. /\ pgs' \in [Server -> {"down", "standby", "primary", "stopping"}] /\ pgs'[n] = "down"
          /\ \A m \in Server \ {n} : pgs'[m] = pgs[m]
      BY <1>1, <1>6 DEF RewType
    <2>2. RewType' BY <1>1, <1>3, <1>4, <1>6, <2>1 DEF RewType
    <2>3. \A m \in Server : ~Leads(m)' BY <1>2, <1>3, <1>6, <2>1, RewConstants DEF Leads
    <2>4. \A m \in Server : Postgres(m)'
      <3>1. Postgres(n)' BY <1>1, <1>6, <2>1, <2>3 DEF Postgres
      <3>2. \A m \in Server \ {n} : Postgres(m)' BY <1>1, <1>4, <1>6, <2>1, <2>3 DEF Postgres
      <3> QED BY <3>1, <3>2
    <2> QED BY <1>6, <2>2, <2>3, <2>4 DEF RewInv
  <1> QED BY <1>5, <1>6 DEF Rew!Demote

\* Who crashed as a primary stops cleanly in single user mode, and is behind who leads then.
LEMMA Recovers ==
  ASSUME RewInv, NEW n \in Server, Rew!CrashRecovery(n), ~(Rew!Failure /\ Rew!StartStandby(n))
  PROVE  RewInv'
  <1>1. RewType /\ logs[n].tl \in Rew!Timeline /\ \A m \in Server : Postgres(m) /\ (Leads(m) => Foremost(m))
    BY DEF RewInv, RewType, Log
  <1>2. /\ pgs[n] = "down" /\ ctl[n].state = "in production"
        /\ logs[n].end < MaxLsn
        /\ logs' = [logs EXCEPT ![n].end = @ + 1, ![n].replayed = logs[n].end + 1]
        /\ ctl' = [ctl EXCEPT ![n] = [state |-> "shut down", tl |-> logs[n].tl]]
        /\ UNCHANGED <<lock, pgs, rstate, exposed, failures>>
    BY DEF Rew!CrashRecovery
  <1>3. /\ Only(n) /\ logs'[n].tl = logs[n].tl
        /\ \A k \in Server : Ordered(logs'[k]) /\ \A j \in Server : SameHistory(logs'[k], logs'[j])
    BY <1>2, Shutdown
  <1>4. /\ ctl' \in [Server -> Ctl] /\ ctl'[n].state = "shut down" /\ ctl'[n].tl = logs[n].tl
        /\ \A m \in Server \ {n} : ctl'[m] = ctl[m]
    BY <1>1, <1>2, CtlWritten DEF RewType
  <1>5. RewType' BY <1>1, <1>2, <1>3, <1>4 DEF RewType, Only
  <1>6. ~Leads(n)' /\ \A m \in Server \ {n} : Leads(m)' = Leads(m) BY <1>2, <1>4 DEF Leads
  <1>7. logs'[n].tl <= logs'[n].tl BY <1>1, <1>3, Numbers
  <1>8. \A m \in Server : Postgres(m)'
    <2>1. Postgres(n)' BY <1>2, <1>3, <1>4, <1>6, <1>7 DEF Postgres
    <2>2. \A m \in Server \ {n} : Postgres(m)' BY <1>1, <1>2, <1>3, <1>4, <1>6 DEF Postgres, Only
    <2> QED BY <2>1, <2>2
  <1>9. \A p \in Server \ {n} : Leads(p) =>
          logs'[n].tl <= logs[p].tl /\ (logs'[n].tl = logs[p].tl => logs'[n].end <= logs[p].end)
    <2> SUFFICES ASSUME NEW p \in Server \ {n}, Leads(p) PROVE logs[n].tl < logs[p].tl /\ logs[n].tl <= logs[p].tl
      BY <1>3, Lengths
    <2> QED BY <1>1, <1>2 DEF Foremost
  <1>10. \A p \in Server : Leads(p)' => Foremost(p)' BY <1>3, <1>4, <1>6, <1>9, Outdone
  <1> QED BY <1>3, <1>5, <1>8, <1>10 DEF RewInv

\* The first log on a new timeline.
LEMMA NewLog ==
  ASSUME RewInv, NEW n \in Server, NEW t \in Rew!Timeline, Rew!NewTimeline(t),
         logs' = [logs EXCEPT ![n].tl = t, ![n].left[logs[n].tl] = logs[n].end]
  PROVE  /\ Only(n) /\ logs'[n].tl = t /\ logs'[n].end = logs[n].end /\ logs'[n].replayed = logs[n].replayed
         /\ \A k \in Server : Ordered(logs'[k]) /\ \A j \in Server : SameHistory(logs'[k], logs'[j])
  <1> DEFINE w == logs[n]
             x == logs'[n]
  <1>1. logs \in [Server -> Log] /\ w \in Log /\ Ordered(w) BY DEF RewInv, RewType
  <1>2. /\ w.tl \in Rew!Timeline /\ w.tl \in Nat /\ w.end \in Rew!Position /\ w.end \in Nat /\ t \in Nat
        /\ \A u \in Rew!Timeline : u \in Nat /\ w.left[u] \in Nat
    BY <1>1, Numbers DEF Log
  <1>3. w.tl < t /\ \A k \in Server : logs[k].tl < t BY DEF Rew!NewTimeline
  <1>4. Only(n) /\ x.tl = t /\ x.end = w.end /\ x.replayed = w.replayed
    BY <1>1, <1>2 DEF Only, Log
  <1>5. \A u \in Rew!Timeline : x.left[u] = IF u = w.tl THEN w.end ELSE w.left[u]
    BY <1>1, <1>2 DEF Log
  <1> HIDE DEF w, x
  <1>6. Ordered(x)
    <2>1. 0 < x.replayed /\ x.replayed <= x.end BY <1>1, <1>4 DEF Ordered
    <2>2. ASSUME NEW u \in Rew!Timeline PROVE x.left[u] <= x.end /\ (x.tl <= u => x.left[u] = 0)
      <3>1. w.left[u] <= w.end /\ (w.tl <= u => w.left[u] = 0) BY <1>1 DEF Ordered
      <3> QED BY <1>2, <1>3, <1>4, <1>5, <3>1
    <2>3. ASSUME NEW r \in Rew!Timeline, NEW u \in Rew!Timeline, r < u, x.left[u] # 0
          PROVE  x.left[r] <= x.left[u]
      <3>1. /\ w.tl <= u => w.left[u] = 0
            /\ w.left[r] <= w.end /\ (w.left[u] # 0 => w.left[r] <= w.left[u])
        BY <1>1, <2>3 DEF Ordered
      <3>2. u <= w.tl BY <1>2, <1>5, <2>3, <3>1
      <3>3. r # w.tl BY <1>2, <2>3, <3>2
      <3> QED BY <1>2, <1>5, <2>3, <3>1, <3>3
    <2> QED BY <2>1, <2>2, <2>3 DEF Ordered
  <1>7. ASSUME NEW k \in Server \ {n} PROVE SameHistory(x, logs[k])
    <2>1. SameHistory(w, logs[k]) /\ Ordered(logs[k]) /\ logs[k].tl < t /\ logs[k].tl \in Nat
      BY <1>3, Lengths DEF RewInv, w
    <2>2. ASSUME NEW s \in Rew!Timeline, Past(s, x), Past(s, logs[k]), NEW u \in Rew!Timeline, u < s
          PROVE  x.left[u] = logs[k].left[u]
      <3>1. ~(t <= s)
        <4>1. logs[k].tl <= s => logs[k].left[s] = 0 BY <2>1 DEF Ordered
        <4> QED BY <1>2, <2>1, <2>2, <4>1 DEF Past
      <3>2. Past(s, w) /\ s <= w.tl
        <4>1. s # t /\ x.left[s] # 0 BY <1>2, <1>4, <2>2, <3>1 DEF Past
        <4>2. w.tl <= s => w.left[s] = 0 BY <1>1 DEF Ordered
        <4> QED BY <1>2, <1>5, <4>1, <4>2 DEF Past
      <3>3. w.left[u] = logs[k].left[u] BY <2>1, <2>2, <3>2 DEF SameHistory
      <3>4. u # w.tl BY <1>2, <2>2, <3>2
      <3> QED BY <1>5, <3>3, <3>4
    <2> QED BY <2>2 DEF SameHistory
  <1> QED BY <1>4, <1>6, <1>7, OneLog DEF w, x

\* A standby becomes the primary on a timeline of its own; the key it has as a member is its own by then.
LEMMA Promotes ==
  ASSUME RewInv, NEW n \in Server, Checkpointing, Rew!Promote(n)
  PROVE  RewInv'
  <1>1. RewType /\ \A m \in Server : Postgres(m) BY DEF RewInv
  <1>2. PICK t \in Rew!Timeline :
          Rew!NewTimeline(t) /\ logs' = [logs EXCEPT ![n].tl = t, ![n].left[logs[n].tl] = logs[n].end]
    BY DEF Rew!Promote
  <1>3. /\ Only(n) /\ logs'[n].tl = t /\ logs'[n].end = logs[n].end /\ logs'[n].replayed = logs[n].replayed
        /\ \A k \in Server : Ordered(logs'[k]) /\ \A j \in Server : SameHistory(logs'[k], logs'[j])
    BY <1>2, NewLog
  <1>4. /\ pgs[n] = "standby" /\ logs[n].replayed = logs[n].end /\ \A m \in Server : pgs[m] # "primary"
        /\ lock' = n /\ pgs' = [pgs EXCEPT ![n] = "primary"]
        /\ ctl' = [ctl EXCEPT ![n].state = "in production"]
        /\ exposed' \in {exposed, [exposed EXCEPT ![n] = FALSE]} /\ ~exposed'[n]
        /\ UNCHANGED <<rstate, failures>>
    BY DEF Checkpointing, Rew!Promote
  <1>5. /\ ctl' \in [Server -> Ctl] /\ ctl'[n].state = "in production" /\ ctl'[n].tl = ctl[n].tl
        /\ \A m \in Server \ {n} : ctl'[m] = ctl[m]
    <2>1. ctl[n].tl \in Rew!Timeline BY <1>1 DEF RewType, Ctl
    <2> QED BY <1>1, <1>4, <2>1, CtlWritten DEF RewType
  <1>6. /\ pgs' \in [Server -> {"down", "standby", "primary", "stopping"}] /\ pgs'[n] = "primary"
        /\ \A m \in Server \ {n} : pgs'[m] = pgs[m]
    BY <1>1, <1>4 DEF RewType
  <1>7. exposed' \in [Server -> BOOLEAN]
    <2>1. CASE exposed' = exposed BY <1>1, <2>1 DEF RewType
    <2>2. CASE exposed' = [exposed EXCEPT ![n] = FALSE] BY <1>1, <2>2 DEF RewType
    <2> QED BY <1>4, <2>1, <2>2
  <1>8. RewType' BY <1>1, <1>3, <1>4, <1>5, <1>6, <1>7 DEF RewType, Only
  <1>9. \A m \in Server \ {n} : ~Leads(m)' BY <1>4, <1>6 DEF Leads
  <1>10. ctl[n].tl \in Nat /\ logs[n].tl \in Nat /\ t \in Nat /\ ctl[n].tl <= t /\ \A m \in Server : logs[m].tl < t
    <2>1. ctl[n].tl \in Nat /\ logs[n].tl \in Nat /\ t \in Nat BY <1>1, Lengths, Numbers DEF RewType, Ctl
    <2>2. ctl[n].tl <= logs[n].tl /\ \A m \in Server : logs[m].tl < t
      BY <1>1, <1>2 DEF Postgres, Rew!NewTimeline
    <2> QED BY <2>1, <2>2
  <1>11. \A m \in Server : Postgres(m)'
    <2>1. Postgres(n)'
      <3>1. ctl'[n].tl <= logs'[n].tl BY <1>3, <1>5, <1>10
      <3>2. rstate'[n] # "checkpoint" BY <1>1, <1>4 DEF Postgres
      <3> QED BY <1>4, <1>5, <1>6, <3>1, <3>2 DEF Postgres
    <2>2. ASSUME NEW m \in Server \ {n} PROVE Postgres(m)'
      <3>1. logs'[m] = logs[m] BY <1>3 DEF Only
      <3> QED BY <1>1, <1>4, <1>5, <1>6, <1>9, <3>1 DEF Postgres
    <2> QED BY <2>1, <2>2
  <1>12. Foremost(n)'
    <2>1. \A m \in Server \ {n} : logs'[m].tl < t BY <1>3, <1>10 DEF Only
    <2>2. ASSUME NEW m \in Server \ {n}
          PROVE  logs'[m].tl <= t /\ logs'[m].tl # t
      <3>1. logs'[m].tl \in Nat /\ logs'[m].tl < t BY <1>3, <2>1, Numbers DEF Only, Log
      <3> QED BY <1>10, <3>1
    <2>3. t <= t /\ logs'[n].end <= logs'[n].end BY <1>3, <1>10, Lengths
    <2> QED BY <1>3, <1>4, <2>1, <2>2, <2>3 DEF Foremost
  <1> QED BY <1>3, <1>8, <1>9, <1>11, <1>12 DEF RewInv

\* Who is rewound, or copied, has the log of the primary, or nothing to give up.
LEMMA Executes ==
  ASSUME RewInv, NEW n \in Server, Rew!Execute(n)
  PROVE  RewInv'
  <1>1. RewType /\ \A m \in Server : Postgres(m) BY DEF RewInv
  <1>2. /\ lock \in Server /\ lock # n /\ exposed[lock] /\ pgs[lock] = "primary"
        /\ pgs' = [pgs EXCEPT ![n] = "down"] /\ UNCHANGED <<lock, exposed>>
    BY <1>1 DEF Rew!Execute, Rew!MayRewindFrom, RewType
  <1>3. PICK m \in Server : m = lock BY <1>2
  <1>4. Leads(m) /\ m # n /\ ctl[m].tl = logs[m].tl BY <1>1, <1>2, <1>3 DEF Leads, Postgres
  <1>5. /\ pgs' \in [Server -> {"down", "standby", "primary", "stopping"}] /\ pgs'[n] = "down"
        /\ \A k \in Server \ {n} : pgs'[k] = pgs[k]
    BY <1>1, <1>2 DEF RewType
  <1>6. ~Leads(n)' BY <1>2, <1>5 DEF Leads
  <1>7. CASE /\ logs' = [logs EXCEPT ![n] = Rew!Rewound(n, lock)]
             /\ ctl' = [ctl EXCEPT ![n].state = "in archive recovery", ![n].tl = ctl[lock].tl]
             /\ rstate' = [rstate EXCEPT ![n] = "success"]
             /\ UNCHANGED failures
    <2>1. logs[n] \in Log /\ logs[m] \in Log BY <1>1 DEF RewType
    <2>2. Only(n) /\ logs'[n] = Rew!Rewound(n, m)
      <3>1. Rew!Rewound(n, m) \in Log BY <2>1 DEF Rew!Rewound
      <3> QED BY <1>1, <1>3, <1>7, <3>1 DEF Only, RewType
    <2>3. /\ \A k \in Server : Ordered(logs'[k]) /\ \A j \in Server : SameHistory(logs'[k], logs'[j])
          /\ \A p \in Server \ {n} : Leads(p) =>
               logs'[n].tl <= logs[p].tl /\ (logs'[n].tl = logs[p].tl => logs'[n].end <= logs[p].end)
      <3>1. logs'[n] = logs[n] \/ logs'[n] = logs[m] BY <2>2 DEF Rew!Rewound
      <3> QED BY <1>4, <2>2, <3>1, Copied
    <2>4. /\ ctl' \in [Server -> Ctl] /\ ctl'[n].state = "in archive recovery" /\ ctl'[n].tl = ctl[m].tl
          /\ \A k \in Server \ {n} : ctl'[k] = ctl[k]
      <3>1. ctl[m].tl \in Rew!Timeline BY <1>1 DEF RewType, Ctl
      <3>2. ctl' = [ctl EXCEPT ![n].state = "in archive recovery", ![n].tl = ctl[m].tl] BY <1>3, <1>7
      <3> QED BY <1>1, <3>1, <3>2, CtlWritten DEF RewType
    <2>5. rstate' \in [Server -> Status] /\ \A k \in Server \ {n} : rstate'[k] = rstate[k]
      BY <1>1, <1>7 DEF RewType, Status
    <2>6. RewType' BY <1>1, <1>2, <1>5, <1>7, <2>2, <2>4, <2>5 DEF RewType, Only
    <2>7. \A k \in Server \ {n} : Leads(k)' = Leads(k) BY <1>2, <1>5, <2>4 DEF Leads
    <2>8. Postgres(n)'
      <3>1. ctl'[n].tl <= logs'[n].tl
        <4>1. logs[m].tl <= logs[m].tl BY Lengths
        <4> QED BY <1>1, <1>4, <2>2, <2>4, <4>1 DEF Rew!Rewound, Postgres
      <3> QED BY <1>5, <1>6, <3>1 DEF Postgres
    <2>9. ASSUME NEW k \in Server \ {n} PROVE Postgres(k)'
      <3>1. logs'[k] = logs[k] BY <2>2 DEF Only
      <3>2. /\ pgs'[k] = pgs[k] /\ ctl'[k] = ctl[k] /\ rstate'[k] = rstate[k] /\ exposed'[k] = exposed[k]
            /\ lock' = lock /\ Postgres(k)
        BY <1>1, <1>2, <1>5, <2>4, <2>5
      <3> QED BY <3>1, <3>2 DEF Postgres, Leads
    <2>10. \A p \in Server : Leads(p)' => Foremost(p)' BY <1>6, <2>2, <2>3, <2>4, <2>7, Outdone
    <2> QED BY <2>3, <2>6, <2>8, <2>9, <2>10 DEF RewInv
  <1>8. CASE Rew!Failure /\ rstate' = [rstate EXCEPT ![n] = "failed"] /\ UNCHANGED <<logs, ctl>>
    <2>1. rstate' \in [Server -> Status] /\ \A k \in Server \ {n} : rstate'[k] = rstate[k]
      BY <1>1, <1>8 DEF RewType, Status
    <2>2. failures' \in Nat BY <1>1, <1>8 DEF Rew!Failure, RewType
    <2>3. RewType' BY <1>1, <1>2, <1>5, <1>8, <2>1, <2>2 DEF RewType
    <2>4. \A k \in Server \ {n} : Leads(k)' = Leads(k) BY <1>2, <1>5, <1>8 DEF Leads
    <2>5. Postgres(n)' BY <1>1, <1>5, <1>6, <1>8 DEF Postgres
    <2>6. \A k \in Server \ {n} : Postgres(k)' BY <1>1, <1>2, <1>5, <1>8, <2>1, <2>4 DEF Postgres
    <2>7. \A k \in Server : Leads(k)' => Leads(k) BY <1>6, <2>4
    <2> QED BY <1>8, <2>3, <2>5, <2>6, <2>7, NoLog DEF RewInv
  <1> QED BY <1>7, <1>8 DEF Rew!Execute

\* A clone has the log of the primary.
LEMMA Reinits ==
  ASSUME RewInv, NEW n \in Server, Rew!Reinit(n)
  PROVE  RewInv'
  <1>1. RewType /\ \A m \in Server : Postgres(m) BY DEF RewInv
  <1>2. /\ lock \in Server /\ lock # n /\ pgs[lock] = "primary"
        /\ logs' = [logs EXCEPT ![n] = logs[lock]]
        /\ ctl' = [ctl EXCEPT ![n] = [state |-> "in archive recovery", tl |-> logs[lock].tl]]
        /\ pgs' = [pgs EXCEPT ![n] = "standby"] /\ rstate' = [rstate EXCEPT ![n] = "initial"]
        /\ UNCHANGED <<lock, exposed, failures>>
    BY <1>1 DEF Rew!Reinit, RewType
  <1>3. PICK m \in Server : m = lock BY <1>2
  <1>4. Leads(m) /\ m # n /\ logs[m] \in Log BY <1>1, <1>2, <1>3 DEF Leads, RewType
  <1>5. /\ pgs' \in [Server -> {"down", "standby", "primary", "stopping"}] /\ pgs'[n] = "standby"
        /\ \A k \in Server \ {n} : pgs'[k] = pgs[k]
    BY <1>1, <1>2 DEF RewType
  <1>6. Only(n) /\ logs'[n] = logs[m] BY <1>1, <1>2, <1>3, <1>4 DEF Only, RewType
  <1>7. /\ \A k \in Server : Ordered(logs'[k]) /\ \A j \in Server : SameHistory(logs'[k], logs'[j])
        /\ \A p \in Server \ {n} : Leads(p) =>
             logs'[n].tl <= logs[p].tl /\ (logs'[n].tl = logs[p].tl => logs'[n].end <= logs[p].end)
    BY <1>4, <1>6, Copied
  <1>8. /\ ctl' \in [Server -> Ctl] /\ ctl'[n].state = "in archive recovery" /\ ctl'[n].tl = logs[m].tl
        /\ \A k \in Server \ {n} : ctl'[k] = ctl[k]
    <2>1. logs[m].tl \in Rew!Timeline BY <1>4 DEF Log
    <2>2. ctl' = [ctl EXCEPT ![n] = [state |-> "in archive recovery", tl |-> logs[m].tl]] BY <1>2, <1>3
    <2> QED BY <1>1, <2>1, <2>2, CtlWritten DEF RewType
  <1>9. rstate' \in [Server -> Status] /\ rstate'[n] = "initial" /\ \A k \in Server \ {n} : rstate'[k] = rstate[k]
    BY <1>1, <1>2 DEF RewType, Status
  <1>10. RewType' BY <1>1, <1>2, <1>5, <1>6, <1>8, <1>9 DEF RewType, Only
  <1>11. ~Leads(n)' /\ \A k \in Server \ {n} : Leads(k)' = Leads(k) BY <1>2, <1>5, <1>8 DEF Leads
  <1>12. Postgres(n)'
    <2>1. ctl'[n].tl <= logs'[n].tl
      <3>1. logs[m].tl <= logs[m].tl BY Lengths
      <3> QED BY <1>6, <1>8, <3>1
    <2> QED BY <1>5, <1>8, <1>9, <1>11, <2>1 DEF Postgres
  <1>13. ASSUME NEW k \in Server \ {n} PROVE Postgres(k)'
    <2>1. /\ pgs'[k] = pgs[k] /\ ctl'[k] = ctl[k] /\ rstate'[k] = rstate[k] /\ exposed'[k] = exposed[k]
          /\ logs'[k] = logs[k] /\ lock' = lock /\ Postgres(k)
      BY <1>1, <1>2, <1>5, <1>6, <1>8, <1>9 DEF Only
    <2> QED BY <2>1 DEF Postgres, Leads
  <1>14. \A p \in Server : Leads(p)' => Foremost(p)' BY <1>6, <1>7, <1>8, <1>11, Outdone
  <1> QED BY <1>7, <1>10, <1>12, <1>13, <1>14 DEF RewInv

-----------------------------------------------------------------------------

\* In the beginning all nodes have the same log.
LEMMA RewInit == Rew!Init => RewInv
  <1> SUFFICES ASSUME Rew!Init PROVE RewInv OBVIOUS
  <1>1. 1 \in Rew!Timeline /\ 0 \in Rew!Position /\ 1 \in Rew!Position /\ \A t \in Rew!Timeline : t \in Nat /\ 1 <= t
    BY Numbers, RewConstants
  <1> DEFINE z == [tl |-> 1, left |-> [t \in Rew!Timeline |-> 0], end |-> 1, replayed |-> 1]
             c == [state |-> "in archive recovery", tl |-> 1]
  <1>2. z \in Log /\ z.tl = 1 /\ z.end = 1 /\ z.replayed = 1 /\ \A t \in Rew!Timeline : z.left[t] = 0
    BY <1>1 DEF Log
  <1>3. c \in Ctl /\ c.tl = 1 /\ c.state = "in archive recovery" BY <1>1 DEF Ctl
  <1>4. logs = [n \in Server |-> z] /\ ctl = [n \in Server |-> c] BY DEF Rew!Init
  <1> HIDE DEF z, c
  <1>5. /\ logs \in [Server -> Log] /\ \A n \in Server : logs[n] = z
        /\ ctl \in [Server -> Ctl] /\ \A n \in Server : ctl[n] = c
    BY <1>2, <1>3, <1>4
  <1>6. RewType BY <1>5, RewConstants DEF Rew!Init, RewType, Status
  <1>7. \A n \in Server : Ordered(logs[n])
    <2>1. Ordered(z) BY <1>2 DEF Ordered
    <2> QED BY <1>5, <2>1
  <1>8. ASSUME NEW n \in Server PROVE Postgres(n) /\ ~Leads(n)
    <2>1. ctl[n].tl = 1 /\ logs[n].tl = 1 /\ ctl[n].state = "in archive recovery" BY <1>2, <1>3, <1>5
    <2>2. pgs[n] = "standby" /\ rstate[n] = "initial" BY DEF Rew!Init
    <2>3. ctl[n].tl <= logs[n].tl BY <2>1, Order
    <2> QED BY <2>1, <2>2, <2>3 DEF Postgres, Leads
  <1>9. \A n, m \in Server : SameHistory(logs[n], logs[m]) BY <1>2, <1>5 DEF SameHistory
  <1> QED BY <1>6, <1>7, <1>8, <1>9 DEF RewInv

\* Every step of the rewind keeps it so.
LEMMA RewStep == ASSUME Checkpointing, RewInv, Rew!Next PROVE RewInv'
  <1>2. CASE Rew!LoseLock
    <2>1. CASE Server = {} BY <1>2, <2>1 DEF Rew!LoseLock, RewInv, RewType
    <2>2. CASE Server # {} BY <1>2, <2>2, Quiet
    <2> QED BY <2>1, <2>2
  <1>3. ASSUME NEW n \in Server,
               \/ Rew!WriteWal(n) \/ Rew!ReplayWal(n) \/ Rew!Checkpoint(n) \/ Rew!CrashPostgres(n) \/ Rew!StopPostgres(n)
               \/ \E m \in Server : Rew!Receive(n, m)
               \/ Rew!Demote(n) \/ Rew!Follow(n) \/ Rew!Promote(n) \/ Rew!TouchMember(n)
               \/ Rew!StartPrimary(n) \/ Rew!CrashRecovery(n) \/ Rew!StartPostgres(n)
               \/ Rew!EnsureCheckpoint(n) \/ Rew!CheckTimelineAndLsn(n) \/ Rew!Execute(n) \/ Rew!Reinit(n)
        PROVE  RewInv'
    <2>1. CASE Rew!CrashPostgres(n) \/ Rew!StopPostgres(n) \/ Rew!Follow(n) \/ Rew!TouchMember(n) \/ Rew!StartPrimary(n)
               \/ Rew!CheckTimelineAndLsn(n) \/ Rew!StartPostgres(n)
      BY <2>1, Quiet
    <2>2. CASE Rew!WriteWal(n) BY <2>2, Writes
    <2>3. CASE Rew!ReplayWal(n) BY <2>3, Replays
    <2>4. CASE \E m \in Server : Rew!Receive(n, m) BY <2>4, Receives
    <2>5. CASE Rew!Checkpoint(n) \/ Rew!EnsureCheckpoint(n) BY <2>5, Checkpointed
    <2>6. CASE Rew!Demote(n) BY <2>6, Demotes
    <2>7. CASE Rew!Promote(n) BY <2>7, Promotes
    <2>8. CASE Rew!CrashRecovery(n)
      <3>1. CASE Rew!Failure /\ Rew!StartStandby(n) BY <3>1, Quiet
      <3>2. CASE ~(Rew!Failure /\ Rew!StartStandby(n)) BY <2>8, <3>2, Recovers
      <3> QED BY <3>1, <3>2
    <2>9. CASE Rew!Execute(n) BY <2>9, Executes
    <2>10. CASE Rew!Reinit(n) BY <2>10, Reinits
    <2> QED BY <1>3, <2>1, <2>2, <2>3, <2>4, <2>5, <2>6, <2>7, <2>8, <2>9, <2>10
  <1> QED BY <1>2, <1>3 DEF Rew!Next

\* The invariant of the rewind, in the system in which the parts are side by side.
LEMMA RewAlways == ASSUME Checkpointing PROVE Spec => []RewInv
  <1>1. Init => RewInv BY RewInit DEF Init
  <1>2. RewInv /\ [Next]_allVars => RewInv'
    <2> SUFFICES ASSUME RewInv, [Next]_allVars PROVE RewInv' OBVIOUS
    <2>1. CASE UNCHANGED rewVars
      BY <2>1 DEF rewVars, RewInv, RewType, Postgres, Leads, Foremost
    <2>2. CASE Rew!Next BY <2>2, RewStep
    <2>3. UNCHANGED rewVars \/ Rew!Next BY DEF Next, allVars
    <2> QED BY <2>1, <2>2, <2>3
  <1> QED BY <1>1, <1>2, PTL DEF Spec

\* Who stands on the timeline of who leads has no more than it.
LEMMA OnTimeline ==
  ASSUME RewInv, NEW n \in Server, NEW m \in Server, Leads(m), logs[n].tl = logs[m].tl
  PROVE  Rew!Contained(logs[n], logs[m])
  <1>1. logs[n].end <= logs[m].end BY DEF RewInv, Foremost
  <1>2. logs[n].replayed <= logs[m].end BY <1>1, Lengths
  <1> QED BY <1>2 DEF Rew!Contained, Rew!Within

\* A node is told that it need not rewind, or has rewound.
Cleared(n) ==
  (rstate[n] = "check" /\ rstate'[n] = "not needed") \/ (rstate[n] = "need" /\ rstate'[n] = "success")

\* Who is cleared has nothing of its own.
LEMMA ClearedIsContained ==
  ASSUME RewInv, Rew!Next, NEW n \in Server, Cleared(n)
  PROVE  Rew!Contained(logs'[n], logs'[lock])
  <1>1. RewType BY DEF RewInv
  <1>2. Rew!CheckTimelineAndLsn(n) \/ Rew!Execute(n)
    <2>1. rstate'[n] # rstate[n] BY DEF Cleared
    <2>2. PICK k \in Server :
             \/ Rew!Demote(k) \/ Rew!Follow(k) \/ Rew!CrashRecovery(k) \/ Rew!StartPostgres(k)
             \/ Rew!EnsureCheckpoint(k) \/ Rew!CheckTimelineAndLsn(k) \/ Rew!Execute(k) \/ Rew!Reinit(k)
      BY <2>1 DEF Rew!Next, Rew!LoseLock, Rew!WriteWal, Rew!ReplayWal, Rew!Checkpoint, Rew!CrashPostgres,
                  Rew!StopPostgres, Rew!Receive,
                  Rew!Promote, Rew!TouchMember, Rew!StartPrimary
    <2>3. CASE Rew!Demote(k) \/ Rew!Follow(k)
      BY <1>1, <2>3 DEF Cleared, Rew!Demote, Rew!Follow, Rew!Triggered, RewType
    <2>4. CASE Rew!CrashRecovery(k) \/ Rew!StartPostgres(k)
      BY <1>1, <2>1, <2>4 DEF Cleared, Rew!CrashRecovery, Rew!StartPostgres, Rew!StartStandby,
                              Rew!Triggered, RewType
    <2>5. CASE Rew!EnsureCheckpoint(k) \/ Rew!Reinit(k)
      BY <1>1, <2>5 DEF Cleared, Rew!EnsureCheckpoint, Rew!Reinit, RewType
    <2>6. CASE Rew!CheckTimelineAndLsn(k) \/ Rew!Execute(k)
      <3>1. k = n BY <1>1, <2>1, <2>6 DEF Rew!CheckTimelineAndLsn, Rew!Execute, RewType
      <3> QED BY <2>6, <3>1
    <2> QED BY <2>2, <2>3, <2>4, <2>5, <2>6
  <1>3. PICK m \in Server : m = lock BY <1>1, <1>2 DEF Rew!CheckTimelineAndLsn, Rew!Execute, RewType
  <1>4. m # n /\ Leads(m) /\ pgs[m] = "primary"
    BY <1>2, <1>3 DEF Rew!CheckTimelineAndLsn, Rew!Execute, Rew!MayRewindFrom, Leads
  <1>5. CASE Rew!CheckTimelineAndLsn(n)
    <2>1. ~Rew!NeedRewind(n, logs[m]) /\ logs' = logs
      <3>1. rstate' = [rstate EXCEPT ![n] = IF Rew!NeedRewind(n, logs[m]) THEN "need" ELSE "not needed"] /\ logs' = logs
        BY <1>3, <1>5 DEF Rew!CheckTimelineAndLsn
      <3>2. rstate'[n] = "not needed" BY <1>5 DEF Cleared, Rew!CheckTimelineAndLsn
      <3> QED BY <1>1, <3>1, <3>2 DEF RewType
    <2>2. Rew!Contained(logs[n], logs[m])
      <3> DEFINE w == logs[n]
                 v == logs[m]
      <3>1. /\ w.tl \in Rew!Timeline /\ w.tl \in Nat /\ v.tl \in Nat /\ w.replayed \in Nat
            /\ \A t \in Rew!Timeline : v.left[t] \in Nat
        BY <1>1, Lengths DEF RewType, Log
      <3>4. /\ ~(w.tl > v.tl)
            /\ w.tl < v.tl => w.replayed = v.left[w.tl] \/ ~(w.replayed > v.left[w.tl])
        BY <2>1 DEF Rew!NeedRewind, Rew!Diverged
      <3>2. CASE w.tl = v.tl BY <1>4, <3>2, OnTimeline
      <3>3. CASE w.tl # v.tl
        <4> HIDE DEF w, v
        <4>1. w.tl < v.tl BY <3>1, <3>3, <3>4, Order
        <4>2. w.replayed = v.left[w.tl] \/ ~(w.replayed > v.left[w.tl]) BY <3>4, <4>1
        <4>3. v.left[w.tl] \in Nat /\ w.replayed \in Nat BY <3>1
        <4>4. w.replayed <= v.left[w.tl] BY <4>2, <4>3, Order
        <4>5. Rew!Contained(w, v) BY <3>3, <4>1, <4>4 DEF Rew!Contained, Rew!Within
        <4> QED BY <4>5 DEF w, v
      <3> QED BY <3>2, <3>3
    <2> QED BY <1>3, <2>1, <2>2
  <1>6. CASE Rew!Execute(n)
    <2>1. logs' = [logs EXCEPT ![n] = Rew!Rewound(n, m)] /\ exposed[m]
      <3>1. rstate'[n] # "failed" BY <1>6 DEF Cleared, Rew!Execute
      <3>2. rstate' = [rstate EXCEPT ![n] = "failed"] => rstate'[n] = "failed" BY <1>1 DEF RewType
      <3> QED BY <1>3, <1>6, <3>1, <3>2 DEF Rew!Execute, Rew!MayRewindFrom
    <2>2. logs'[n] = Rew!Rewound(n, m) /\ logs'[m] = logs[m] BY <1>1, <1>4, <2>1 DEF RewType
    <2>3. CASE ctl[m].tl # ctl[n].tl
      <3>1. logs'[n] = logs[m] BY <2>2, <2>3 DEF Rew!Rewound
      <3>2. Rew!Contained(logs[m], logs[m]) BY <1>4, OnTimeline
      <3> QED BY <1>3, <2>2, <3>1, <3>2
    <2>4. CASE ctl[m].tl = ctl[n].tl
      <3>1. logs'[n] = logs[n] BY <2>2, <2>4 DEF Rew!Rewound
      <3>2. ctl[m].tl = logs[m].tl /\ ctl[n].tl <= logs[n].tl BY <1>3, <1>4, <2>1 DEF RewInv, Postgres
      <3>3. logs[n].tl <= logs[m].tl BY <1>4 DEF RewInv, Foremost
      <3>6. ctl[m].tl \in Nat /\ ctl[n].tl \in Nat /\ logs[n].tl \in Nat /\ logs[m].tl \in Nat
        BY <1>1, Lengths, Numbers DEF RewType, Ctl
      <3>4. logs[n].tl = logs[m].tl BY <2>4, <3>2, <3>3, <3>6, Order
      <3>5. Rew!Contained(logs[n], logs[m]) BY <1>4, <3>4, OnTimeline
      <3> QED BY <1>3, <2>2, <3>1, <3>5
    <2> QED BY <2>3, <2>4
  <1> QED BY <1>2, <1>5, <1>6

\* A node that is said to need no rewind has replayed nothing that its leader has not, and so has one that
\* was rewound, in any order of promotions, crashes and failed attempts (rewind.py, ha.py).
THEOREM RewindFindsDivergence == ASSUME Checkpointing PROVE Spec => DivergenceFound
  <1> DEFINE Found == \A n \in Server : Cleared(n) => Rew!Contained(logs'[n], logs'[lock])
  <1>1. RewInv /\ [Next]_allVars => [Found]_rewVars
    <2> SUFFICES ASSUME RewInv, [Next]_allVars PROVE [Found]_rewVars OBVIOUS
    <2>1. UNCHANGED rewVars \/ Rew!Next BY DEF Next, allVars
    <2>2. Rew!Next => Found BY ClearedIsContained
    <2> HIDE DEF Found
    <2> QED BY <2>1, <2>2
  <1>2. Spec => [][Found]_rewVars BY <1>1, RewAlways, PTL DEF Spec
  <1>3. ([][Found]_rewVars) <=> DivergenceFound
    BY Zenon DEF DivergenceFound, Rew!DivergenceFound, Cleared, rewVars, Rew!rewVars
  <1> QED BY <1>2, <1>3

-----------------------------------------------------------------------------
\* No slot of the primary is behind this position, and all that is removed is.
Front == IF prim.slot.plugin # 0 THEN prim.slot.pos ELSE wal

\* Slots, and what the members and their threads know.
SlotAt == [plugin : 0 .. 2, pos : Nat]
Kvs == [plugin : 0 .. 2, pause : BOOLEAN, lsn : Nat, member : BOOLEAN]
Prim == [slot : SlotAt, phys : BOOLEAN, xmin : Nat, horizon : Nat \ {0}]
Stby == [up : BOOLEAN, streams : BOOLEAN, feedback : BOOLEAN, slot : SlotAt, horizon : Nat \ {0}]
Ph == [step : {"load", "lock", "sync"}, plugin : 0 .. 2, pause : BOOLEAN, member : BOOLEAN,
       slot : SlotAt, phys : BOOLEAN, load : BOOLEAN]
Sh == [step : {"load", "drop", "check", "ensure"}, plugin : 0 .. 2, pause : BOOLEAN, lsn : Nat,
       slot : SlotAt, load : BOOLEAN, force : BOOLEAN, queue : Nat]
Adv == [lsn : Nat, failed : BOOLEAN, copy : BOOLEAN]
Copying == [step : {"idle", "read", "stop", "write", "start"}, plugin : 0 .. 2, slot : SlotAt]

\* What each variable holds.
SloTypes ==
  /\ kvs \in Kvs /\ wal \in 1 .. MaxPos /\ prim \in Prim /\ stby \in Stby /\ ph \in Ph /\ sh \in Sh
  /\ adv \in Adv /\ copying \in Copying /\ kept \in BOOLEAN

\* Every position that is known anywhere comes from the primary.
Behind ==
  /\ Front <= wal
  /\ stby.horizon <= prim.horizon /\ prim.horizon <= Front
  /\ prim.slot.plugin = 0 => prim.slot.pos = 0
  /\ prim.xmin <= Front /\ stby.slot.pos <= Front /\ copying.slot.pos <= Front
  /\ kvs.lsn <= Front /\ sh.lsn <= Front /\ adv.lsn <= Front
  /\ sh.slot.pos <= Front /\ ph.slot.pos <= wal
  /\ sh.queue = Slo!Checked \/ sh.queue <= wal

\* What the standby asks for by its feedback its slot needs, or no longer needs.
Streaming ==
  /\ stby.streams => prim.phys
  /\ prim.xmin # Slo!NoXmin => prim.phys
  /\ prim.xmin # Slo!NoXmin /\ stby.slot.plugin # 0 => prim.xmin <= stby.slot.pos

\* What is copied is not behind what is there.
CopyInv ==
  /\ sh.step # "load" => copying.step = "idle"
  /\ copying.step \in {"stop", "write"} =>
       adv.lsn <= copying.slot.pos /\ prim.xmin <= copying.slot.pos /\ stby.slot.pos <= copying.slot.pos

\* Nothing that the slot needs is removed once the feedback has arrived and overtaken.
Heeded ==
  kept =>
    /\ prim.xmin # Slo!NoXmin
    /\ sh.queue = Slo!Checked /\ stby.slot.plugin # 0 => prim.horizon <= stby.slot.pos
    /\ sh.queue \notin {Slo!Unknown, Slo!Checked} => prim.horizon <= sh.queue \/ prim.horizon <= prim.xmin

SloInv == SloTypes /\ Behind /\ Streaming /\ CopyInv /\ Heeded

\* What is assumed of the constants.
LEMMA SloConstants == MaxPos \in Nat \ {0} /\ MaxChanges \in Nat /\ MaxTroubles \in Nat
  BY NodeAssumption DEF Slo!SlotsAssumption

\* The least of a few numbers.
LEMMA LowestOf ==
  ASSUME NEW a \in Nat, NEW b \in Nat, NEW c \in Nat, NEW S, a \in S, S \subseteq {a, b, c}
  PROVE  Slo!Lowest(S) \in S /\ \A y \in S : Slo!Lowest(S) <= y
  <1>1. \E x \in S : \A y \in S : x <= y
    <2>1. CASE S = {a} BY <2>1
    <2>2. CASE S = {a, b} BY <2>2
    <2>3. CASE S = {a, c} BY <2>3
    <2>4. CASE S = {a, b, c} BY <2>4
    <2> QED BY <2>1, <2>2, <2>3, <2>4
  <1> QED BY <1>1 DEF Slo!Lowest

\* In the beginning.
LEMMA SloInit == Slo!Init => SloInv
  <1> SUFFICES ASSUME Slo!Init PROVE SloInv OBVIOUS
  <1> USE SloConstants DEF Slo!Init, Slo!Missing, Slo!Checked, Slo!NoXmin, Slo!Unknown
  <1>1. SloTypes
    <2>1. kvs \in Kvs /\ wal \in 1 .. MaxPos BY DEF Kvs
    <2>2. prim \in Prim /\ stby \in Stby BY DEF Prim, Stby, SlotAt
    <2>3. ph \in Ph BY DEF Ph, SlotAt
    <2>4. sh \in Sh BY DEF Sh, SlotAt
    <2>5. adv \in Adv /\ copying \in Copying BY DEF Adv, Copying, SlotAt
    <2> QED BY <2>1, <2>2, <2>3, <2>4, <2>5 DEF SloTypes
  <1>2. Behind BY DEF Behind, Front
  <1>3. Streaming BY DEF Streaming
  <1>4. CopyInv /\ Heeded BY DEF CopyInv, Heeded
  <1> QED BY <1>1, <1>2, <1>3, <1>4 DEF SloInv

\* The surroundings.
LEMMA SloAround ==
  ASSUME SloInv,
         \/ Slo!ChangeConfig \/ Slo!Write \/ Slo!Consume \/ Slo!Vacuum \/ Slo!Replay \/ Slo!Feedback
         \/ Slo!Disconnect \/ Slo!Connect \/ Slo!MemberExpires \/ Slo!DropByHand \/ Slo!Crash \/ Slo!Recover
  PROVE  SloInv'
  <1> USE DEF Slo!Missing, Slo!Checked, Slo!NoXmin, Slo!Unknown
  <1>1. CASE Slo!ChangeConfig
    <2> USE <1>1 DEF Slo!ChangeConfig
    <2>1. SloTypes' BY SloConstants DEF SloInv, SloTypes, SlotAt, Kvs
    <2> USE SloConstants DEF SloInv, SloTypes, SlotAt, Kvs, Prim, Stby, Ph, Sh, Adv, Copying
    <2>2. Behind' BY DEF Behind, Front
    <2>3. Streaming' BY DEF Streaming
    <2>4. CopyInv' BY DEF CopyInv
    <2>5. Heeded' BY DEF Heeded
    <2> QED BY <2>1, <2>2, <2>3, <2>4, <2>5 DEF SloInv
  <1>2. CASE Slo!Write
    <2> USE <1>2 DEF Slo!Write
    <2>1. SloTypes' BY SloConstants DEF SloInv, SloTypes, SlotAt
    <2> USE SloConstants DEF SloInv, SloTypes, SlotAt, Kvs, Prim, Stby, Ph, Sh, Adv, Copying
    <2>2. Behind' BY DEF Behind, Front
    <2>3. Streaming' BY DEF Streaming
    <2>4. CopyInv' BY DEF CopyInv
    <2>5. Heeded' BY DEF Heeded
    <2> QED BY <2>1, <2>2, <2>3, <2>4, <2>5 DEF SloInv
  <1>3. CASE Slo!Consume
    <2> USE <1>3 DEF Slo!Consume
    <2>1. SloTypes' BY SloConstants DEF SloInv, SloTypes, SlotAt, Prim
    <2> USE SloConstants DEF SloInv, SloTypes, SlotAt, Kvs, Prim, Stby, Ph, Sh, Adv, Copying
    <2>2. Behind' BY DEF Behind, Front
    <2>3. Streaming' BY DEF Streaming
    <2>4. CopyInv' BY DEF CopyInv
    <2>5. Heeded' BY DEF Heeded
    <2> QED BY <2>1, <2>2, <2>3, <2>4, <2>5 DEF SloInv
  <1>4. CASE Slo!Vacuum
    <2> USE DEF SloInv, SloTypes, SlotAt, Kvs, Prim, Stby, Sh, Adv, Copying
    <2>1. PICK limit \in Nat :
            /\ prim' = [prim EXCEPT !.horizon = limit] /\ limit > prim.horizon /\ limit <= wal
            /\ prim.xmin # 0 => limit <= prim.xmin
            /\ prim.slot.plugin # 0 => limit <= prim.slot.pos
      <3> DEFINE S == {wal} \cup ({prim.xmin} \ {0}) \cup {x \in {prim.slot.pos} : prim.slot.plugin # 0}
      <3>1. wal \in Nat /\ prim.xmin \in Nat /\ prim.slot.pos \in Nat BY SloConstants
      <3>2. wal \in S /\ S \subseteq {wal, prim.xmin, prim.slot.pos} OBVIOUS
      <3>3. /\ prim' = [prim EXCEPT !.horizon = Slo!Lowest(S)]
            /\ Slo!Lowest(S) > prim.horizon
        <4>1. S = {wal} \cup (({prim.xmin} \ {0}) \cup {x \in {prim.slot.pos} : prim.slot.plugin # 0}) OBVIOUS
        <4> QED BY <1>4, <4>1 DEF Slo!Vacuum
      <3>4. prim.xmin # 0 => prim.xmin \in S OBVIOUS
      <3>5. prim.slot.plugin # 0 => prim.slot.pos \in S OBVIOUS
      <3> HIDE DEF S
      <3>6. Slo!Lowest(S) \in S /\ \A y \in S : Slo!Lowest(S) <= y BY <3>1, <3>2, LowestOf
      <3> QED BY <3>1, <3>2, <3>3, <3>4, <3>5, <3>6
    <2>2. UNCHANGED <<kvs, wal, stby, ph, sh, adv, copying, kept, budget>> BY <1>4 DEF Slo!Vacuum
    <2>3. SloTypes' BY <2>1, <2>2
    <2>4. Behind' BY <2>1, <2>2, SloConstants DEF Behind, Front
    <2>5. Streaming' /\ CopyInv' BY <2>1, <2>2 DEF Streaming, CopyInv
    <2>6. Heeded'
      <3>1. SUFFICES ASSUME kept PROVE Heeded' BY <2>2 DEF Heeded
      <3>2. prim'.horizon = limit /\ prim'.xmin = prim.xmin BY <2>1
      <3>3. prim.xmin # 0 /\ limit <= prim.xmin BY <2>1, <3>1 DEF Heeded
      <3>4. stby.slot.plugin # 0 => limit <= stby.slot.pos
        <4>1. prim.xmin \in Nat /\ stby.slot.pos \in Nat OBVIOUS
        <4>2. stby.slot.plugin # 0 => prim.xmin <= stby.slot.pos BY <3>3 DEF Streaming
        <4> QED BY <3>3, <4>1, <4>2
      <3> QED BY <2>2, <3>2, <3>3, <3>4 DEF Heeded
    <2> QED BY <2>3, <2>4, <2>5, <2>6
  <1>5. CASE Slo!Replay
    <2> USE <1>5 DEF Slo!Replay
    <2>1. SloTypes' BY SloConstants DEF SloInv, SloTypes, SlotAt, Stby, Prim
    <2> USE SloConstants DEF SloInv, SloTypes, SlotAt, Kvs, Prim, Stby, Ph, Sh, Adv, Copying
    <2>2. Behind' BY DEF Behind, Front
    <2>3. Streaming' BY DEF Streaming
    <2>4. CopyInv' BY DEF CopyInv
    <2>5. Heeded' BY DEF Heeded
    <2> QED BY <2>1, <2>2, <2>3, <2>4, <2>5 DEF SloInv
  <1>6. CASE Slo!Feedback
    <2> USE DEF SloInv, SloTypes, SlotAt, Kvs, Prim, Stby, Sh, Adv, Copying
    <2>1. PICK x \in Nat :
            /\ prim' = [prim EXCEPT !.xmin = x] /\ kept' = (kept /\ x # 0)
            /\ x # 0 => x = stby.slot.pos /\ stby.slot.plugin # 0
      BY <1>6 DEF Slo!Feedback
    <2>2. stby.streams /\ UNCHANGED <<kvs, wal, stby, ph, sh, adv, copying, budget>> BY <1>6 DEF Slo!Feedback
    <2>3. SloTypes' BY <2>1, <2>2
    <2>4. Behind' BY <2>1, <2>2 DEF Behind, Front
    <2>5. Streaming' BY <2>1, <2>2 DEF Streaming
    <2>6. CopyInv' BY <2>1, <2>2 DEF CopyInv
    <2>7. Heeded'
      <3>1. SUFFICES ASSUME kept' PROVE Heeded' BY DEF Heeded
      <3>2. kept /\ x # 0 /\ prim'.xmin = x /\ prim'.horizon = prim.horizon BY <2>1, <3>1
      <3>3. prim.xmin <= x /\ prim.xmin # 0 BY <2>1, <3>2 DEF Streaming, Heeded
      <3>4. prim.horizon <= prim.xmin => prim.horizon <= x
        <4>1. prim.horizon \in Nat /\ prim.xmin \in Nat OBVIOUS
        <4> QED BY <3>3, <4>1
      <3> QED BY <2>2, <3>2, <3>4 DEF Heeded
    <2> QED BY <2>3, <2>4, <2>5, <2>6, <2>7
  <1>7. CASE Slo!Disconnect
    <2> USE <1>7 DEF Slo!Disconnect
    <2>1. SloTypes' BY SloConstants DEF SloInv, SloTypes, SlotAt, Stby
    <2> USE SloConstants DEF SloInv, SloTypes, SlotAt, Kvs, Prim, Stby, Ph, Sh, Adv, Copying
    <2>2. Behind' BY DEF Behind, Front
    <2>3. Streaming' BY DEF Streaming
    <2>4. CopyInv' BY DEF CopyInv
    <2>5. Heeded' BY DEF Heeded
    <2> QED BY <2>1, <2>2, <2>3, <2>4, <2>5 DEF SloInv
  <1>8. CASE Slo!Connect
    <2> USE <1>8 DEF Slo!Connect
    <2>1. SloTypes' BY SloConstants DEF SloInv, SloTypes, SlotAt, Stby
    <2> USE SloConstants DEF SloInv, SloTypes, SlotAt, Kvs, Prim, Stby, Ph, Sh, Adv, Copying
    <2>2. Behind' BY DEF Behind, Front
    <2>3. Streaming' BY DEF Streaming
    <2>4. CopyInv' BY DEF CopyInv
    <2>5. Heeded' BY DEF Heeded
    <2> QED BY <2>1, <2>2, <2>3, <2>4, <2>5 DEF SloInv
  <1>9. CASE Slo!MemberExpires
    <2> USE <1>9 DEF Slo!MemberExpires
    <2>1. SloTypes' BY SloConstants DEF SloInv, SloTypes, SlotAt, Kvs
    <2> USE SloConstants DEF SloInv, SloTypes, SlotAt, Kvs, Prim, Stby, Ph, Sh, Adv, Copying
    <2>2. Behind' BY DEF Behind, Front
    <2>3. Streaming' BY DEF Streaming
    <2>4. CopyInv' BY DEF CopyInv
    <2>5. Heeded' BY DEF Heeded
    <2> QED BY <2>1, <2>2, <2>3, <2>4, <2>5 DEF SloInv
  <1>10. CASE Slo!DropByHand
    <2> USE <1>10 DEF Slo!DropByHand
    <2>1. SloTypes' BY SloConstants DEF SloInv, SloTypes, SlotAt, Prim
    <2> USE SloConstants DEF SloInv, SloTypes, SlotAt, Kvs, Prim, Stby, Ph, Sh, Adv, Copying
    <2>2. Behind' BY DEF Behind, Front
    <2>3. Streaming' BY DEF Streaming
    <2>4. CopyInv' BY DEF CopyInv
    <2>5. Heeded' BY DEF Heeded
    <2> QED BY <2>1, <2>2, <2>3, <2>4, <2>5 DEF SloInv
  <1>11. CASE Slo!Crash
    <2> USE <1>11 DEF Slo!Crash
    <2>1. SloTypes' BY SloConstants DEF SloInv, SloTypes, SlotAt, Stby
    <2> USE SloConstants DEF SloInv, SloTypes, SlotAt, Kvs, Prim, Stby, Ph, Sh, Adv, Copying
    <2>2. Behind' BY DEF Behind, Front
    <2>3. Streaming' BY DEF Streaming
    <2>4. CopyInv' BY DEF CopyInv
    <2>5. Heeded' BY DEF Heeded
    <2> QED BY <2>1, <2>2, <2>3, <2>4, <2>5 DEF SloInv
  <1>12. CASE Slo!Recover
    <2> USE <1>12 DEF Slo!Recover
    <2>1. SloTypes' BY SloConstants DEF SloInv, SloTypes, SlotAt, Stby, Sh
    <2> USE SloConstants DEF SloInv, SloTypes, SlotAt, Kvs, Prim, Stby, Ph, Sh, Adv, Copying
    <2>2. Behind' BY DEF Behind, Front
    <2>3. Streaming' BY DEF Streaming
    <2>4. CopyInv' BY DEF CopyInv
    <2>5. Heeded' BY DEF Heeded
    <2> QED BY <2>1, <2>2, <2>3, <2>4, <2>5 DEF SloInv
  <1> QED BY <1>1, <1>2, <1>3, <1>4, <1>5, <1>6, <1>7, <1>8, <1>9, <1>10, <1>11, <1>12

\* The primary.
LEMMA SloPrimary ==
  ASSUME SloInv, Slo!LoadOnPrimary \/ Slo!UpdateStatus \/ Slo!SyncOnPrimary
  PROVE  SloInv'
  <1> USE DEF Slo!Missing, Slo!Checked, Slo!NoXmin, Slo!Unknown
  <1>1. CASE Slo!LoadOnPrimary
    <2> USE <1>1 DEF Slo!LoadOnPrimary, Slo!PermanentSlot, Slo!MemberSlot
    <2>1. SloTypes' BY SloConstants DEF SloInv, SloTypes, SlotAt, Ph, Kvs
    <2> USE SloConstants DEF SloInv, SloTypes, SlotAt, Kvs, Prim, Stby, Ph, Sh, Adv, Copying
    <2>2. Behind' BY DEF Behind, Front
    <2>3. Streaming' BY DEF Streaming
    <2>4. CopyInv' BY DEF CopyInv
    <2>5. Heeded' BY DEF Heeded
    <2> QED BY <2>1, <2>2, <2>3, <2>4, <2>5 DEF SloInv
  <1>2. CASE Slo!UpdateStatus
    <2> USE <1>2 DEF Slo!UpdateStatus, Slo!Published, Slo!Remembered
    <2>1. SloTypes' BY SloConstants DEF SloInv, SloTypes, SlotAt, Kvs, Ph, Prim
    <2> USE SloConstants DEF SloInv, SloTypes, SlotAt, Kvs, Prim, Stby, Ph, Sh, Adv, Copying
    <2>2. Behind' BY DEF Behind, Front
    <2>3. Streaming' BY DEF Streaming
    <2>4. CopyInv' BY DEF CopyInv
    <2>5. Heeded' BY DEF Heeded
    <2> QED BY <2>1, <2>2, <2>3, <2>4, <2>5 DEF SloInv
  <1>3. CASE Slo!SyncOnPrimary
    <2>1. PICK s \in SlotAt, p \in BOOLEAN, x \in Nat :
            /\ prim' = [prim EXCEPT !.slot = s, !.phys = p, !.xmin = x]
            /\ s \in {prim.slot, [plugin |-> 0, pos |-> 0]} \/ (s.plugin # 0 /\ s.pos = wal)
            /\ stby.streams => p
            /\ x # 0 => p /\ x = prim.xmin
            /\ kept' => kept /\ x = prim.xmin
      <3> DEFINE known == Slo!KnownSlot(ph, prim.slot)
                 drop == Slo!Incorrect(known, ph)
                 knowsPhys == IF ph.load THEN prim.phys ELSE ph.phys
                 dropPhys == knowsPhys /\ ~ph.member /\ ~ph.pause
                 p == (prim.phys /\ ~(dropPhys /\ ~stby.streams)) \/ (ph.member /\ ~knowsPhys)
                 slot(active) == IF drop THEN Slo!DropSlot(prim.slot, active) ELSE prim.slot
                 create(active) == /\ ph.plugin # 0 /\ (known.plugin = 0 \/ (drop /\ ~active))
                                   /\ slot(active).plugin = 0
      <3>1. PICK active \in BOOLEAN :
              prim' = [prim EXCEPT !.slot = IF create(active) THEN [plugin |-> ph.plugin, pos |-> wal]
                                            ELSE slot(active),
                                   !.phys = p, !.xmin = IF p /\ prim.phys THEN @ ELSE 0]
        BY <1>3 DEF Slo!SyncOnPrimary
      <3>2. kept' = (kept /\ (p => prim.phys) /\ p) BY <1>3 DEF Slo!SyncOnPrimary
      <3>3. slot(active) \in {prim.slot, [plugin |-> 0, pos |-> 0]} BY DEF Slo!DropSlot
      <3>4. p \in BOOLEAN /\ (stby.streams /\ prim.phys => p) OBVIOUS
      <3>5. stby.streams => prim.phys BY DEF SloInv, Streaming
      <3>6. ph.plugin \in 0 .. 2 /\ wal \in Nat /\ prim.slot \in SlotAt /\ prim.xmin \in Nat
        BY SloConstants DEF SloInv, SloTypes, Ph, Prim
      <3>7. create(active) => ph.plugin # 0 OBVIOUS
      <3> DEFINE c == create(active)
                 o == slot(active)
                 s == IF c THEN [plugin |-> ph.plugin, pos |-> wal] ELSE o
                 x == IF p /\ prim.phys THEN prim.xmin ELSE 0
      <3>8. prim' = [prim EXCEPT !.slot = s, !.phys = p, !.xmin = x] BY <3>1
      <3> HIDE DEF c, o, p
      <3>9. s \in SlotAt /\ (s \in {prim.slot, [plugin |-> 0, pos |-> 0]} \/ (s.plugin # 0 /\ s.pos = wal))
        BY <3>3, <3>6, <3>7 DEF SlotAt, c, o
      <3> HIDE DEF s
      <3>10. x \in Nat /\ (x # 0 => p /\ x = prim.xmin) /\ (kept' => kept /\ x = prim.xmin) BY <3>2, <3>6
      <3> QED BY <3>4, <3>5, <3>8, <3>9, <3>10
    <2>2. UNCHANGED <<kvs, wal, stby, sh, adv, copying, budget>> BY <1>3 DEF Slo!SyncOnPrimary
    <2>3. ph' \in Ph /\ ph'.slot.pos <= wal /\ kept' \in BOOLEAN
      <3> DEFINE known == Slo!KnownSlot(ph, prim.slot)
      <3>1. PICK l : ph' = [ph EXCEPT !.step = "load",
                                   !.slot = IF ph.plugin = 0 THEN [plugin |-> 0, pos |-> 0]
                                            ELSE [plugin |-> ph.plugin, pos |-> known.pos],
                                   !.phys = ph.member, !.load = l] /\ l \in BOOLEAN
        BY <1>3 DEF Slo!SyncOnPrimary
      <3>2. known.pos \in Nat /\ known.pos <= wal
        BY SloConstants DEF Slo!KnownSlot, SloInv, SloTypes, Ph, Prim, SlotAt, Behind, Front
      <3> HIDE DEF known
      <3>3. kept' \in BOOLEAN BY <1>3 DEF Slo!SyncOnPrimary
      <3>4. wal \in Nat /\ ph \in Ph BY SloConstants DEF SloInv, SloTypes
      <3>5. ph'.slot = IF ph.plugin = 0 THEN [plugin |-> 0, pos |-> 0] ELSE [plugin |-> ph.plugin, pos |-> known.pos]
        BY <3>1, <3>4 DEF Ph
      <3>6. ph' \in Ph BY <3>1, <3>2, <3>4 DEF Ph, SlotAt
      <3>7. ph'.slot.pos <= wal BY <3>2, <3>4, <3>5
      <3> QED BY <3>3, <3>6, <3>7
    <2>4. SloTypes' BY <2>1, <2>2, <2>3 DEF SloInv, SloTypes, Prim, SlotAt
    <2> USE DEF SloInv, SloTypes, SlotAt, Kvs, Prim, Stby, Sh, Adv, Copying
    <2>5. Behind' BY <2>1, <2>2, <2>3, SloConstants DEF Behind, Front
    <2>6. Streaming' BY <2>1, <2>2 DEF Streaming
    <2>7. CopyInv' BY <2>1, <2>2 DEF CopyInv
    <2>8. Heeded' BY <2>1, <2>2 DEF Heeded
    <2> QED BY <2>4, <2>5, <2>6, <2>7, <2>8
  <1> QED BY <1>1, <1>2, <1>3

\* The standby.
LEMMA SloStandby ==
  ASSUME SloInv,
         Slo!LoadOnStandby \/ Slo!DropOnStandby \/ Slo!CheckReadiness \/ Slo!EnsureOnStandby \/ Slo!Advance
  PROVE  SloInv'
  <1> USE DEF Slo!Missing, Slo!Checked, Slo!NoXmin, Slo!Unknown
  <1>1. CASE Slo!LoadOnStandby
    <2> USE DEF SloInv, SloTypes, SlotAt, Kvs, Stby, Sh, Copying
    <2>1. PICK p \in Nat, l \in BOOLEAN, f \in BOOLEAN, t \in {"load", "drop"} :
            /\ sh' = [sh EXCEPT !.plugin = kvs.plugin, !.lsn = kvs.lsn, !.pause = kvs.pause, !.slot.pos = p,
                                !.load = l, !.force = f, !.step = t]
            /\ p \in {stby.slot.pos, sh.slot.pos}
            /\ t = "drop" => copying.step = "idle"
      <3> DEFINE resumed == sh.pause /\ ~kvs.pause
                 same == sh.slot.plugin # 0 /\ sh.slot.plugin = stby.slot.plugin
                 p == IF same THEN stby.slot.pos ELSE sh.slot.pos
                 l == sh.load \/ resumed \/ ~Slo!Remembered(sh.slot, stby.slot)
                 f == sh.force \/ resumed
                 t == IF copying.step = "idle" THEN "drop" ELSE "load"
      <3>1. sh' = [sh EXCEPT !.plugin = kvs.plugin, !.lsn = kvs.lsn, !.pause = kvs.pause, !.slot.pos = p,
                                !.load = l, !.force = f, !.step = t]
        BY <1>1 DEF Slo!LoadOnStandby, Slo!PermanentSlot
      <3>2. p \in {stby.slot.pos, sh.slot.pos} /\ p \in Nat OBVIOUS
      <3>3. l \in BOOLEAN /\ f \in BOOLEAN BY DEF Slo!Remembered
      <3>4. t \in {"load", "drop"} /\ (t = "drop" => copying.step = "idle") OBVIOUS
      <3> HIDE DEF p, l, f, t
      <3> QED BY <3>1, <3>2, <3>3, <3>4
    <2>2. /\ stby' = [stby EXCEPT !.feedback = kvs.plugin # 0] /\ kvs' = [kvs EXCEPT !.member = TRUE]
          /\ UNCHANGED <<wal, prim, ph, adv, copying, kept, budget>>
      BY <1>1 DEF Slo!LoadOnStandby
    <2>3. SloTypes' BY <2>1, <2>2
    <2>4. Behind' BY <2>1, <2>2 DEF Prim, Ph, Adv, Behind, Front
    <2>5. Streaming' /\ CopyInv' BY <2>1, <2>2 DEF Streaming, CopyInv
    <2>6. Heeded' BY <2>1, <2>2 DEF Heeded
    <2> QED BY <2>3, <2>4, <2>5, <2>6
  <1>2. CASE Slo!DropOnStandby
    <2> USE DEF SloInv, SloTypes, SlotAt, Stby, Sh
    <2>1. PICK s \in SlotAt, k \in SlotAt, q \in Nat, f \in BOOLEAN :
            /\ sh' = [sh EXCEPT !.slot = k, !.queue = q, !.force = f, !.load = FALSE, !.step = "check"]
            /\ stby' = [stby EXCEPT !.slot = s]
            /\ s \in {stby.slot, [plugin |-> 0, pos |-> 0]}
            /\ k \in {stby.slot, sh.slot, [plugin |-> 0, pos |-> 0]}
            /\ q = sh.queue \/ q = 0 \/ (q = MaxPos + 1 /\ s.plugin = 0)
      <3> DEFINE known == Slo!KnownSlot(sh, stby.slot)
                 drop == Slo!Incorrect(known, sh)
                 s == IF drop THEN [plugin |-> 0, pos |-> 0] ELSE stby.slot
                 k == IF drop THEN [plugin |-> 0, pos |-> 0] ELSE known
                 q == CASE ~(sh.load /\ sh.force) -> sh.queue
                        [] known.plugin # 0 -> 0
                        [] OTHER -> MaxPos + 1
                 f == sh.force /\ ~sh.load
      <3>1. /\ sh' = [sh EXCEPT !.slot = k, !.queue = q, !.force = f, !.load = FALSE, !.step = "check"]
            /\ stby' = [stby EXCEPT !.slot = s]
        BY <1>2 DEF Slo!DropOnStandby
      <3>2. known = IF sh.load THEN stby.slot ELSE sh.slot BY DEF Slo!KnownSlot
      <3> HIDE DEF known, drop
      <3>3. s \in SlotAt /\ s \in {stby.slot, [plugin |-> 0, pos |-> 0]} OBVIOUS
      <3>4. k \in SlotAt /\ k \in {stby.slot, sh.slot, [plugin |-> 0, pos |-> 0]} BY <3>2
      <3>5. q \in Nat /\ (q = sh.queue \/ q = 0 \/ (q = MaxPos + 1 /\ s.plugin = 0)) BY <3>2, SloConstants
      <3>6. f \in BOOLEAN OBVIOUS
      <3> HIDE DEF s, k, q, f
      <3> QED BY <3>1, <3>3, <3>4, <3>5, <3>6
    <2>2. sh.step = "drop" /\ UNCHANGED <<kvs, wal, prim, ph, adv, copying, kept, budget>> BY <1>2 DEF Slo!DropOnStandby
    <2>3. SloTypes' BY <2>1, <2>2
    <2>4. Behind' BY <2>1, <2>2, SloConstants DEF Prim, Behind, Front
    <2>5. Streaming' /\ CopyInv' BY <2>1, <2>2 DEF Prim, Copying, Streaming, CopyInv
    <2>6. Heeded' BY <2>1, <2>2, SloConstants DEF Prim, Heeded
    <2> QED BY <2>3, <2>4, <2>5, <2>6
  <1>3. CASE Slo!CheckReadiness
    <2> USE DEF SloInv, SloTypes, SlotAt, Prim, Sh
    <2>1. PICK q \in Nat, l \in BOOLEAN, t \in {"ensure", "load"} : 
            /\ sh' = [sh EXCEPT !.queue = q, !.load = l, !.step = t]
            /\ q = MaxPos + 1 \/ q <= wal
            /\ kept' => \/ kept /\ q = sh.queue
                        \/ prim.xmin # 0 /\ q \notin {0, MaxPos + 1} /\ prim.horizon <= q
                        \/ prim.xmin # 0 /\ q = MaxPos + 1 /\ prim.horizon <= prim.xmin
      <3>1. /\ wal \in Nat /\ wal <= MaxPos /\ sh.queue \in Nat /\ sh.load \in BOOLEAN /\ prim.slot.pos \in Nat
            /\ prim.xmin \in Nat /\ prim.horizon \in Nat /\ MaxPos \in Nat
        BY SloConstants
      <3>2. /\ sh.queue = MaxPos + 1 \/ sh.queue <= wal
            /\ prim.slot.pos <= wal /\ (prim.slot.plugin = 0 => prim.slot.pos = 0)
            /\ prim.slot.plugin # 0 => prim.horizon <= prim.slot.pos
        BY <3>1 DEF Behind, Front
      <3> DEFINE r == IF sh.queue = 0 THEN prim.slot.pos ELSE sh.queue
                 ready == sh.slot.plugin = 0 \/ Slo!SafeAfterFailover(r, prim.xmin, sh.slot.pos)
      <3>3. CASE /\ sh' = [sh EXCEPT !.step = "ensure"] /\ UNCHANGED kept
        <4>1. sh' = [sh EXCEPT !.queue = sh.queue, !.load = sh.load, !.step = "ensure"] BY <3>3
        <4> QED BY <3>1, <3>2, <3>3, <4>1
      <3>4. CASE /\ sh' = [sh EXCEPT !.load = TRUE, !.step = "load"] /\ UNCHANGED kept
        <4>1. sh' = [sh EXCEPT !.queue = sh.queue, !.load = TRUE, !.step = "load"] BY <3>4
        <4> QED BY <3>1, <3>2, <3>4, <4>1
      <3>5. CASE /\ sh.queue # MaxPos + 1 /\ prim.xmin # 0 /\ (r # 0 \/ sh.slot.plugin = 0)
                 /\ sh' = [sh EXCEPT !.queue = IF ready THEN MaxPos + 1 ELSE r, !.step = "ensure"]
                 /\ kept' = (sh.slot.plugin # 0 /\ (kept \/ sh.queue = 0))
        <4> DEFINE q == IF ready THEN MaxPos + 1 ELSE r
        <4>1. r \in Nat /\ r <= wal BY <3>1, <3>2, <3>5
        <4>2. q \in Nat /\ (q = MaxPos + 1 \/ q <= wal) BY <3>1, <4>1
        <4>3. sh' = [sh EXCEPT !.queue = q, !.load = sh.load, !.step = "ensure"] BY <3>5
        <4>4. ASSUME kept', ~(kept /\ q = sh.queue)
              PROVE  \/ prim.xmin # 0 /\ q \notin {0, MaxPos + 1} /\ prim.horizon <= q
                     \/ prim.xmin # 0 /\ q = MaxPos + 1 /\ prim.horizon <= prim.xmin
          <5>1. r # 0 /\ sh.slot.plugin # 0 BY <3>5, <4>4
          <5>2. prim.horizon <= r \/ (prim.horizon <= prim.xmin /\ q # r)
            <6>1. CASE sh.queue = 0 BY <3>1, <3>2, <5>1, <6>1
            <6>2. CASE sh.queue # 0
              <7>1. kept /\ r = sh.queue BY <3>5, <4>4, <6>2
              <7> HIDE DEF r, ready
              <7>2. q # r BY <4>4, <7>1
              <7>3. prim.horizon <= sh.queue \/ prim.horizon <= prim.xmin
                BY <3>5, <6>2, <7>1 DEF Heeded, Slo!Unknown, Slo!Checked
              <7> QED BY <7>1, <7>2, <7>3
            <6> QED BY <6>1, <6>2
          <5>3. CASE ready
            <6>1. r <= prim.xmin BY <5>1, <5>3 DEF Slo!SafeAfterFailover
            <6> HIDE DEF r
            <6> QED BY <3>1, <3>5, <4>1, <5>2, <5>3, <6>1
          <5>4. CASE ~ready
            <6> HIDE DEF r, ready
            <6> QED BY <3>1, <3>5, <4>1, <5>1, <5>2, <5>4
          <5> QED BY <5>3, <5>4
        <4> HIDE DEF q
        <4> QED BY <3>1, <4>2, <4>3, <4>4
      <3> HIDE DEF r, ready
      <3> QED BY <1>3, <3>3, <3>4, <3>5 DEF Slo!CheckReadiness, Slo!Checked, Slo!Unknown, Slo!NoXmin, r, ready
    <2>2. /\ sh.step = "check" /\ kept' \in BOOLEAN
          /\ UNCHANGED <<kvs, wal, prim, stby, ph, adv, copying>>
      BY <1>3 DEF Slo!CheckReadiness
    <2>3. SloTypes' BY <2>1, <2>2
    <2>4. Behind' BY <2>1, <2>2 DEF Behind, Front
    <2>5. Streaming' /\ CopyInv' BY <2>1, <2>2 DEF Streaming, CopyInv
    <2>6. Heeded' BY <2>1, <2>2 DEF Heeded, Streaming, Stby
    <2> QED BY <2>3, <2>4, <2>5, <2>6
  <1>4. CASE Slo!EnsureOnStandby
    <2> USE DEF SloInv, SloTypes, SlotAt, Sh, Adv, Copying
    <2>1. PICK a \in Nat, k \in SlotAt, l \in BOOLEAN :
            /\ adv' = [lsn |-> a, failed |-> FALSE, copy |-> FALSE] /\ a \in {sh.lsn, adv.lsn}
            /\ sh' = [sh EXCEPT !.slot = k, !.load = l, !.step = "load"]
            /\ k = sh.slot \/ k.pos = 0
            /\ sh.step = "ensure"
            /\ UNCHANGED <<kvs, wal, prim, stby, ph, kept, budget>>
      <3> DEFINE mine == sh.slot.plugin # 0 /\ sh.slot.plugin = sh.plugin
                 none == sh.plugin = 0 \/ (sh.plugin # 0 /\ sh.slot.plugin = 0 /\ sh.lsn # 0)
                 a == IF mine /\ sh.slot.pos < sh.lsn THEN sh.lsn ELSE adv.lsn
                 k == IF mine THEN sh.slot ELSE IF none THEN [plugin |-> 0, pos |-> 0]
                                                ELSE [plugin |-> sh.plugin, pos |-> 0]
                 l == sh.load \/ adv.failed
      <3>1. /\ adv' = [lsn |-> a, failed |-> FALSE, copy |-> FALSE]
            /\ sh' = [sh EXCEPT !.slot = k, !.load = l, !.step = "load"]
            /\ sh.step = "ensure"
            /\ UNCHANGED <<kvs, wal, prim, stby, ph, kept, budget>>
        BY <1>4 DEF Slo!EnsureOnStandby
      <3> HIDE DEF mine, none
      <3>2. a \in Nat /\ a \in {sh.lsn, adv.lsn} OBVIOUS
      <3>3. k \in SlotAt /\ (k = sh.slot \/ k.pos = 0) OBVIOUS
      <3>4. l \in BOOLEAN OBVIOUS
      <3> HIDE DEF a, k, l
      <3> QED BY <3>1, <3>2, <3>3, <3>4
    <2>2. copying' \in Copying /\ (copying' = copying \/ (copying'.step = "read" /\ copying'.slot.pos = 0))
      BY <1>4 DEF Slo!EnsureOnStandby, Slo!Missing
    <2>3. SloTypes' BY <2>1, <2>2
    <2>4. Behind' BY <2>1, <2>2 DEF Prim, Behind, Front
    <2>5. Streaming' /\ CopyInv' BY <2>1, <2>2 DEF Streaming, CopyInv
    <2>6. Heeded' BY <2>1, <2>2 DEF Heeded
    <2> QED BY <2>3, <2>4, <2>5, <2>6
  <1>5. CASE Slo!Advance
    <2> USE DEF SloInv, SloTypes, SlotAt, Prim, Stby, Adv
    <2>1. /\ UNCHANGED <<kvs, wal, prim, ph, sh, copying, kept>>
          /\ adv' \in Adv /\ adv'.lsn = 0
          /\ \/ stby' = stby
             \/ \E p \in Nat : stby' = [stby EXCEPT !.slot.pos = p] /\ stby.slot.pos <= p /\ p \in {stby.slot.pos, adv.lsn}
      <3>1. UNCHANGED <<kvs, wal, prim, ph, sh, copying, kept>> BY <1>5 DEF Slo!Advance
      <3>2. \E b \in BOOLEAN, c \in BOOLEAN : adv' = [lsn |-> 0, failed |-> b, copy |-> c] BY <1>5 DEF Slo!Advance
      <3>3. \/ stby' = stby
            \/ stby' = [stby EXCEPT !.slot.pos = IF @ < adv.lsn THEN adv.lsn ELSE @]
        BY <1>5 DEF Slo!Advance
      <3>4. stby.slot.pos \in Nat /\ adv.lsn \in Nat OBVIOUS
      <3> QED BY <3>1, <3>2, <3>3, <3>4
    <2>2. SloTypes' BY <2>1
    <2>3. Behind' BY <2>1 DEF Behind, Front
    <2>4. Streaming' BY <2>1 DEF Streaming
    <2>5. CopyInv' BY <2>1 DEF Copying, CopyInv
    <2>6. Heeded' BY <2>1 DEF Heeded
    <2> QED BY <2>2, <2>3, <2>4, <2>5, <2>6
  <1> QED BY <1>1, <1>2, <1>3, <1>4, <1>5

\* Copying.
LEMMA SloCopy ==
  ASSUME SloInv, Slo!CopyRead \/ Slo!CopyStop \/ Slo!CopyWrite \/ Slo!CopyStart
  PROVE  SloInv'
  <1> USE DEF Slo!Missing, Slo!Checked, Slo!NoXmin, Slo!Unknown
  <1>1. CASE Slo!CopyRead
    <2> USE DEF SloInv, SloTypes, SlotAt, Prim, Copying
    <2>1. /\ UNCHANGED <<kvs, wal, prim, stby, ph, sh, adv, kept, budget>> /\ copying.step = "read"
          /\ \/ copying' = [copying EXCEPT !.step = "stop", !.slot = prim.slot] /\ prim.slot.plugin # 0
             \/ copying' = [copying EXCEPT !.step = "idle"]
      BY <1>1 DEF Slo!CopyRead
    <2>2. SloTypes' BY <2>1
    <2>3. Behind'
      <3>1. copying'.slot.pos <= Front
        <4>1. CASE copying' = [copying EXCEPT !.step = "stop", !.slot = prim.slot] /\ prim.slot.plugin # 0
          BY <4>1 DEF Front
        <4>2. CASE copying' = [copying EXCEPT !.step = "idle"] BY <4>2 DEF Behind
        <4> QED BY <2>1, <4>1, <4>2
      <3> QED BY <2>1, <3>1 DEF Behind, Front
    <2>4. Streaming' /\ Heeded' BY <2>1 DEF Streaming, Heeded
    <2>5. CopyInv' BY <2>1 DEF CopyInv, Behind, Front
    <2> QED BY <2>2, <2>3, <2>4, <2>5
  <1>2. CASE Slo!CopyStop
    <2> USE <1>2 DEF Slo!CopyStop
    <2>1. SloTypes' BY SloConstants DEF SloInv, SloTypes, SlotAt, Stby, Copying
    <2> USE SloConstants DEF SloInv, SloTypes, SlotAt, Kvs, Prim, Stby, Ph, Sh, Adv, Copying
    <2>2. Behind' BY DEF Behind, Front
    <2>3. Streaming' BY DEF Streaming
    <2>4. CopyInv' BY DEF CopyInv
    <2>5. Heeded' BY DEF Heeded
    <2> QED BY <2>1, <2>2, <2>3, <2>4, <2>5 DEF SloInv
  <1>3. CASE Slo!CopyWrite
    <2>1. /\ UNCHANGED <<kvs, wal, prim, ph, adv, kept, budget>> /\ copying.step = "write"
          /\ stby' = [stby EXCEPT !.slot = copying.slot] /\ sh' = [sh EXCEPT !.queue = 0]
          /\ copying' = [copying EXCEPT !.step = "start", !.slot = [plugin |-> 0, pos |-> 0]]
      BY <1>3 DEF Slo!CopyWrite
    <2>2. SloTypes'
      <3>1. stby' \in Stby /\ sh' \in Sh BY <2>1 DEF SloInv, SloTypes, SlotAt, Stby, Sh, Copying
      <3>2. copying' \in Copying
        <4> DEFINE c == [copying EXCEPT !.step = "start"]
        <4>1. c \in Copying BY DEF SloInv, SloTypes, Copying
        <4>2. copying' = [c EXCEPT !.slot = [plugin |-> 0, pos |-> 0]] BY <2>1
        <4> HIDE DEF c
        <4> QED BY <4>1, <4>2 DEF Copying, SlotAt
      <3> QED BY <2>1, <3>1, <3>2 DEF SloInv, SloTypes
    <2> USE DEF SloInv, SloTypes, SlotAt, Stby, Sh, Copying
    <2>3. Behind' BY <2>1, SloConstants DEF Prim, Behind, Front
    <2>4. Streaming' BY <2>1 DEF Prim, Streaming, CopyInv
    <2>5. CopyInv' BY <2>1 DEF CopyInv
    <2>6. Heeded' BY <2>1, SloConstants DEF Heeded
    <2> QED BY <2>2, <2>3, <2>4, <2>5, <2>6
  <1>4. CASE Slo!CopyStart
    <2>1. /\ UNCHANGED <<kvs, wal, prim, ph, adv, kept, budget>> /\ copying.step = "start"
          /\ stby' = [stby EXCEPT !.up = TRUE] /\ sh' = [sh EXCEPT !.load = TRUE, !.force = TRUE, !.step = "load"]
          /\ copying' = [copying EXCEPT !.step = "idle", !.plugin = 0]
      BY <1>4 DEF Slo!CopyStart
    <2>2. SloTypes'
      <3>1. stby' \in Stby /\ sh' \in Sh BY <2>1 DEF SloInv, SloTypes, SlotAt, Stby, Sh, Copying
      <3>2. copying' \in Copying
        <4> DEFINE c == [copying EXCEPT !.step = "idle"]
        <4>1. c \in Copying BY DEF SloInv, SloTypes, Copying
        <4>2. copying' = [c EXCEPT !.plugin = 0] BY <2>1
        <4> HIDE DEF c
        <4> QED BY <4>1, <4>2 DEF Copying, SlotAt
      <3> QED BY <2>1, <3>1, <3>2 DEF SloInv, SloTypes
    <2> USE DEF SloInv, SloTypes, SlotAt, Stby, Sh, Copying
    <2>3. Behind' BY <2>1 DEF Behind, Front
    <2>4. Streaming' /\ CopyInv' BY <2>1 DEF Streaming, CopyInv
    <2>5. Heeded' BY <2>1 DEF Heeded
    <2> QED BY <2>2, <2>3, <2>4, <2>5
  <1> QED BY <1>1, <1>2, <1>3, <1>4

\* What the property says follows.
LEMMA SloSafe == SloInv => Slo!SlotSurvivesFailover
  BY SloConstants DEF SloInv, SloTypes, Kvs, Prim, Stby, Ph, Sh, Adv, Copying, Behind, Front, Heeded, SlotAt, Slo!SlotSurvivesFailover, Slo!Ready,
     Slo!Checked, Slo!NoXmin, Slo!Unknown

\* Every step of the slots.
LEMMA SloStep == ASSUME SloInv, Slo!Next PROVE SloInv'
  BY SloAround, SloPrimary, SloStandby, SloCopy DEF Slo!Next

\* The invariant of the slots, in the system in which the parts are side by side.
LEMMA SloAlways == Spec => []SloInv
  <1>1. Init => SloInv BY SloInit DEF Init
  <1>2. SloInv /\ [Next]_allVars => SloInv'
    <2> SUFFICES ASSUME SloInv, [Next]_allVars PROVE SloInv' OBVIOUS
    <2>1. CASE Slo!Next BY <2>1, SloStep
    <2>2. CASE UNCHANGED sloVars
      BY <2>2 DEF sloVars, SloInv, SloTypes, Behind, Front, Streaming, CopyInv, Heeded
    <2> QED BY <2>1, <2>2 DEF Next, allVars
  <1> QED BY <1>1, <1>2, PTL DEF Spec

\* A logical slot that the standby holds for safe has the rows it needs for as long as the feedback is
\* not lost and the slot not forgotten, and is never ahead of the slot of the primary, through changes
\* of the configuration, copies, crashes and lost connections (slots.py).
THEOREM SlotsSurviveFailover == Spec => []SlotSurvivesFailover
  <1>1. SloInv => SlotSurvivesFailover BY SloSafe DEF SlotSurvivesFailover
  <1> QED BY <1>1, SloAlways, PTL

-----------------------------------------------------------------------------
\* What a version of /config says, what a client has read of it, the stages of a reload, the cycle
\* of the main thread, and a scheduled restart.
Versioned == [ver : 1 .. MaxVer, data : Set!Document]
Read == [op : {"none", "patch", "put"}, ver : Nat, data : Set!Document]
Reload == [sighup : BOOLEAN, changed : BOOLEAN, diff : BOOLEAN, whole : BOOLEAN]
Stage == {"start", "load", "ha", "apply", "restart", "save", "compare", "assign", "flag"}
Scheduled == [set : BOOLEAN, onlyPending : BOOLEAN, stale : BOOLEAN]

\* What each variable holds.
SetTypes ==
  /\ conf \in Versioned /\ view \in Versioned /\ client \in [Client -> Read]
  /\ dyn \in Set!Document /\ saved \in Set!Document /\ dyn.ok /\ saved.ok
  /\ used \in {0, 2} /\ disk \in {0, 2}
  /\ want \in Set!Values /\ file \in Set!Values /\ run \in Set!Values /\ launch \in Set!Values
  /\ pg \in {"down", "booting", "up", "refused"}
  /\ state \in {"running", "restarting", "starting", "failed"}
  /\ task \in {"none", "stop", "halt", "read", "launch", "wait"}
  /\ pc \in Stage /\ rl \in Reload /\ control \in 1 .. 2 /\ role \in {"primary", "replica"}
  /\ pending \in BOOLEAN /\ sched \in Scheduled /\ clean \in BOOLEAN /\ behind \in BOOLEAN

\* What is wanted is what was asked for, unless a reload is under way or has failed.
Taken ==
  /\ clean => ~behind
  /\ pc = "flag" => ~behind /\ want = Set!New
  /\ ~behind /\ pc \notin Set!Reloading => want = Set!New

\* No restart has come between the steps of a reload.
Alone ==
  /\ rl.whole /\ pc \in {"assign", "flag"} => task = "none" /\ pg \in {"up", "down"}
  /\ clean /\ pc \in {"assign", "flag"} => task \in {"none", "stop", "halt", "read"}

\* What was compared is still what it was.
Compared == clean /\ pc = "assign" => rl.changed = Set!Differs(Set!New) /\ rl.diff = (Set!New.conn # run.conn)

\* postgres has what is wanted, will have it when it has been started, or is about to be asked.
InForce ==
  /\ clean /\ task # "launch" /\ pc # "flag" =>
       /\ run.mem = want.mem /\ pending = (run.conn # want.conn)
       /\ file.mem = want.mem /\ file.conn \in {want.conn, run.conn}
  /\ clean /\ task = "launch" => launch.mem = want.mem /\ pending = (launch.conn # want.conn)
  /\ pc = "flag" /\ rl.whole /\ pg = "up" /\ (clean \/ rl.changed) => file = want /\ run.mem = want.mem

\* A standby is started with no less than its primary has.
Starts ==
  /\ pg # "refused"
  /\ task \in {"read", "launch"} => pg = "down"
  /\ task = "launch" /\ role = "replica" => control <= launch.conn

\* All of it.
SetRel == Taken /\ Alone /\ Compared /\ InForce /\ Starts
SetInv == SetTypes /\ SetRel

\* What is assumed of the constants.
LEMMA SetConstants == MaxVer \in Nat \ {0} /\ Modern \in BOOLEAN
  BY NodeAssumption DEF Set!SettingsAssumption

\* A document becomes settings.
LEMMA SetEffective ==
  ASSUME NEW d \in Set!Document, NEW u \in {0, 2} PROVE Set!Effective(d, u) \in Set!Values
  BY DEF Set!Effective, Set!Document, Set!Values, Set!Default

\* The stages of a reload.
LEMMA ReloadChange ==
  ASSUME NEW r \in Reload, NEW x \in BOOLEAN, NEW y \in BOOLEAN, NEW z \in BOOLEAN
  PROVE  /\ [r EXCEPT !.sighup = x] \in Reload /\ [r EXCEPT !.whole = x] \in Reload
         /\ [r EXCEPT !.changed = x, !.diff = y, !.whole = z] \in Reload
         /\ [r EXCEPT !.changed = x, !.diff = y, !.whole = z].changed = x
         /\ [r EXCEPT !.changed = x, !.diff = y, !.whole = z].diff = y
         /\ [r EXCEPT !.changed = x, !.diff = y, !.whole = z].whole = z
  <1>1. [r EXCEPT !.sighup = x] \in Reload /\ [r EXCEPT !.whole = x] \in Reload BY DEF Reload
  <1> DEFINE s == [r EXCEPT !.changed = x]
             t == [s EXCEPT !.diff = y]
  <1>2. s \in Reload /\ s.changed = x BY DEF Reload
  <1> HIDE DEF s
  <1>3. t \in Reload /\ t.changed = x /\ t.diff = y BY <1>2 DEF Reload
  <1> HIDE DEF t
  <1>4. [t EXCEPT !.whole = z] \in Reload /\ [t EXCEPT !.whole = z].changed = x
        /\ [t EXCEPT !.whole = z].diff = y /\ [t EXCEPT !.whole = z].whole = z
    BY <1>3 DEF Reload
  <1>5. [r EXCEPT !.changed = x, !.diff = y, !.whole = z] = [t EXCEPT !.whole = z] BY DEF s, t
  <1> QED BY <1>1, <1>4, <1>5

\* In the beginning.
LEMMA SetInit == Set!Init => SetInv
  <1> SUFFICES ASSUME Set!Init PROVE SetInv OBVIOUS
  <1>1. want = [conn |-> 1, mem |-> 1] /\ file = want /\ run = want /\ launch = want
    BY DEF Set!Init, Set!Effective, Set!First
  <1>2. Set!New = want BY DEF Set!Init, Set!New
  <1>3. SetTypes
    <2>1. Set!First \in Set!Document /\ Set!First.ok BY DEF Set!First, Set!Document
    <2>2. conf \in Versioned /\ view \in Versioned BY <2>1, SetConstants DEF Set!Init, Versioned
    <2>3. client \in [Client -> Read] BY <2>1 DEF Set!Init, Read
    <2>4. want \in Set!Values BY <1>1 DEF Set!Values
    <2>5. rl \in Reload /\ pc \in Stage BY DEF Set!Init, Reload, Stage
    <2>6. sched \in Scheduled BY DEF Set!Init, Scheduled, Set!NoRestart
    <2>7. dyn \in Set!Document /\ saved \in Set!Document /\ dyn.ok /\ saved.ok BY <2>1 DEF Set!Init
    <2>8. /\ used = 0 /\ disk = 0 /\ pg = "up" /\ state = "running" /\ task = "none" /\ control = 1
          /\ role \in {"primary", "replica"} /\ pending = FALSE /\ clean = TRUE /\ behind = FALSE
      BY DEF Set!Init
    <2>9. file \in Set!Values /\ run \in Set!Values /\ launch \in Set!Values BY <1>1, <2>4
    <2>10. /\ used \in {0, 2} /\ disk \in {0, 2} /\ pg \in {"down", "booting", "up", "refused"}
           /\ state \in {"running", "restarting", "starting", "failed"}
           /\ task \in {"none", "stop", "halt", "read", "launch", "wait"}
           /\ pending \in BOOLEAN /\ clean \in BOOLEAN /\ behind \in BOOLEAN
      BY <2>8, Zenon
    <2>11. control \in 1 .. 2 BY <2>8
    <2> QED BY <2>2, <2>3, <2>4, <2>5, <2>6, <2>7, <2>8, <2>9, <2>10, <2>11 DEF SetTypes
  <1>4. SetRel
    BY <1>1, <1>2 DEF Set!Init, SetRel, Taken, Alone, Compared, InForce, Starts, Set!Reloading
  <1> QED BY <1>3, <1>4 DEF SetInv

\* What the relation between what is wanted and what postgres has depends on.
relVars == <<dyn, used, want, file, run, launch, pending, rl, clean, behind, pg, control, role, task>>
LEMMA SetQuiet ==
  ASSUME SetRel, UNCHANGED relVars, pc' = pc \/ (pc \notin Set!Reloading /\ pc' \notin Set!Reloading)
  PROVE  SetRel'
  BY DEF SetRel, relVars, Taken, Alone, Compared, InForce, Starts, Set!Reloading, Set!New, Set!Effective,
         Set!Differs, Set!Default

\* The clients of /config, the cycle of the main thread, and schedules.
LEMMA SetOutside ==
  ASSUME SetInv,
         \/ \E c \in Client : Set!ReadConfig(c) \/ Set!PatchConfig(c) \/ Set!PutConfig(c)
         \/ Set!EditFile \/ Set!Sighup
         \/ Set!LoadCluster \/ Set!HandleStarting \/ Set!EvaluateRestart \/ Set!HaCycle \/ Set!SaveCache
         \/ \E b \in BOOLEAN : Set!ScheduleRestart(b)
         \/ Set!DeleteRestart
  PROVE  SetInv'
  <1> USE DEF Set!documents, Set!memory, Set!server, Set!thread, Set!history
  <1>1. UNCHANGED relVars /\ (pc' = pc \/ (pc \notin Set!Reloading /\ pc' \notin Set!Reloading))
    BY DEF Set!ReadConfig, Set!PatchConfig, Set!PutConfig, Set!EditFile, Set!Sighup, Set!LoadCluster,
           Set!HandleStarting, Set!EvaluateRestart, Set!HaCycle, Set!SaveCache, Set!ScheduleRestart,
           Set!DeleteRestart, relVars, Set!Reloading
  <1>2. SetRel' BY <1>1, SetQuiet DEF SetInv
  <1>3. SetTypes'
    <2> USE DEF SetInv, SetTypes
    <2>1. ASSUME NEW c \in Client, Set!ReadConfig(c) PROVE SetTypes'
      BY <2>1, SetConstants DEF Set!ReadConfig, Read, Versioned
    <2>2. ASSUME NEW c \in Client, Set!PatchConfig(c) PROVE SetTypes'
      <3>1. client' = [client EXCEPT ![c].op = "none", ![c].ver = 0, ![c].data = Set!First] BY <2>2 DEF Set!PatchConfig
      <3>2. client[c] \in Read BY DEF SetInv, SetTypes
      <3>3. Set!First \in Set!Document BY DEF Set!First, Set!Document
      <3>4. client' \in [Client -> Read]
        <4> DEFINE f == [client EXCEPT ![c].op = "none"]
                   g == [f EXCEPT ![c].ver = 0]
        <4>1. f \in [Client -> Read] BY DEF SetInv, SetTypes, Read
        <4> HIDE DEF f
        <4>2. g \in [Client -> Read] BY <4>1 DEF Read
        <4> HIDE DEF g
        <4>3. [g EXCEPT ![c].data = Set!First] \in [Client -> Read] BY <3>3, <4>2 DEF Read
        <4> QED BY <3>1, <4>3 DEF f, g
      <3>5. ASSUME conf' # conf PROVE conf' \in Versioned
        <4>1. PICK d \in Set!Document : Set!StoreConfig(c, d)
          <5>1. client[c].data \in Set!Document BY <3>2 DEF Read
          <5>2. PICK d \in Set!Patched(client[c].data) : Set!StoreConfig(c, d) BY <2>2, <3>5 DEF Set!PatchConfig
          <5>3. Set!Patched(client[c].data) \subseteq Set!Document BY <5>1 DEF Set!Patched, Set!Document
          <5> QED BY <5>2, <5>3
        <4> QED BY <4>1, SetConstants DEF Set!StoreConfig, Versioned
      <3>6. UNCHANGED <<Set!memory, disk, pc, rl, want, Set!server, state, role, pending, Set!thread, sched, Set!history>>
        BY <2>2 DEF Set!PatchConfig
      <3> QED BY <3>4, <3>5, <3>6
    <2>3. ASSUME NEW c \in Client, Set!PutConfig(c) PROVE SetTypes'
      <3>1. client' = [client EXCEPT ![c].op = "none", ![c].ver = 0, ![c].data = Set!First] BY <2>3 DEF Set!PutConfig
      <3>2. client[c] \in Read BY DEF SetInv, SetTypes
      <3>3. Set!First \in Set!Document BY DEF Set!First, Set!Document
      <3>4. client' \in [Client -> Read]
        <4> DEFINE f == [client EXCEPT ![c].op = "none"]
                   g == [f EXCEPT ![c].ver = 0]
        <4>1. f \in [Client -> Read] BY DEF SetInv, SetTypes, Read
        <4> HIDE DEF f
        <4>2. g \in [Client -> Read] BY <4>1 DEF Read
        <4> HIDE DEF g
        <4>3. [g EXCEPT ![c].data = Set!First] \in [Client -> Read] BY <3>3, <4>2 DEF Read
        <4> QED BY <3>1, <4>3 DEF f, g
      <3>5. ASSUME conf' # conf PROVE conf' \in Versioned
        <4>1. PICK d \in Set!Document : Set!StoreConfig(c, d)
          BY <2>3 DEF Set!PutConfig
        <4> QED BY <4>1, SetConstants DEF Set!StoreConfig, Versioned
      <3>6. UNCHANGED <<Set!memory, disk, pc, rl, want, Set!server, state, role, pending, Set!thread, sched, Set!history>>
        BY <2>3 DEF Set!PutConfig
      <3> QED BY <3>4, <3>5, <3>6
    <2>4. CASE Set!EditFile BY <2>4 DEF Set!EditFile
    <2>5. CASE Set!Sighup BY <2>5 DEF Set!Sighup
    <2>6. CASE Set!LoadCluster BY <2>6 DEF Set!LoadCluster, Stage
    <2>7. CASE Set!HandleStarting BY <2>7 DEF Set!HandleStarting, Stage
    <2>8. CASE Set!EvaluateRestart
      <3>1. Set!NoRestart \in Scheduled BY DEF Set!NoRestart, Scheduled
      <3>2. sched' \in Scheduled /\ pc' \in Stage BY <2>8, <3>1 DEF Set!EvaluateRestart, Stage
      <3> QED BY <2>8, <3>2 DEF Set!EvaluateRestart
    <2>9. CASE Set!HaCycle BY <2>9 DEF Set!HaCycle, Stage
    <2>10. CASE Set!SaveCache BY <2>10 DEF Set!SaveCache, Stage
    <2>11. ASSUME NEW b \in BOOLEAN, Set!ScheduleRestart(b) PROVE SetTypes'
      BY <2>11 DEF Set!ScheduleRestart, Scheduled
    <2>12. CASE Set!DeleteRestart BY <2>12 DEF Set!DeleteRestart, Scheduled, Set!NoRestart
    <2> QED BY <2>1, <2>2, <2>3, <2>4, <2>5, <2>6, <2>7, <2>8, <2>9, <2>10, <2>11, <2>12
  <1> QED BY <1>2, <1>3 DEF SetInv

\* The main thread.
LEMMA SetMain ==
  ASSUME SetInv,
         \/ Set!BeginCycle
         \/ Set!Recover
         \/ Set!ScheduledRestart
         \/ Set!SetDynamic
         \/ Set!ReloadCompare
         \/ Set!ReloadRaises
         \/ Set!ReloadAssign
         \/ Set!ReloadFlag
  PROVE  SetInv'
  <1> USE DEF Set!documents, Set!memory, Set!server, Set!thread, Set!history
  <1>1. CASE Set!BeginCycle
    <2> USE <1>1 DEF Set!BeginCycle
    <2>1. SetTypes'
      <3>1. rl \in Reload /\ used \in {0, 2} /\ disk \in {0, 2} BY DEF SetInv, SetTypes
      <3>2. rl' \in Reload BY <3>1, ReloadChange
      <3>3. used' \in {0, 2} /\ pc' \in Stage BY <3>1 DEF Stage
      <3> QED BY <3>2, <3>3 DEF SetInv, SetTypes
    <2> USE DEF SetInv, SetRel, SetTypes, Reload, Set!Reloading, Set!AfterReload, Set!StartTask
    <2>2. Taken' BY DEF Taken, Set!New
    <2>3. Alone' BY DEF Alone
    <2>4. Compared' BY DEF Compared, Set!New, Set!Differs
    <2>5. InForce' BY DEF InForce
    <2>6. Starts' BY DEF Starts
    <2> QED BY <2>1, <2>2, <2>3, <2>4, <2>5, <2>6
  <1>2. CASE Set!Recover
    <2> USE <1>2 DEF Set!Recover
    <2>1. SetTypes' BY SetEffective, SetConstants DEF SetInv, SetTypes, Stage
    <2> USE DEF SetInv, SetRel, SetTypes, Reload, Set!Reloading, Set!AfterReload, Set!StartTask
    <2>2. Taken' BY DEF Taken, Set!New
    <2>3. Alone' BY DEF Alone
    <2>4. Compared' BY DEF Compared, Set!New, Set!Differs
    <2>5. InForce' BY DEF InForce
    <2>6. Starts' BY DEF Starts
    <2> QED BY <2>1, <2>2, <2>3, <2>4, <2>5, <2>6
  <1>3. CASE Set!ScheduledRestart
    <2> USE <1>3 DEF Set!ScheduledRestart
    <2>1. SetTypes'
      <3>1. rl \in Reload BY DEF SetInv, SetTypes
      <3>2. rl' \in Reload /\ task' \in {task, "stop"} /\ launch' = launch
        BY <3>1, ReloadChange DEF Set!StartTask
      <3>3. sched' \in Scheduled /\ pc' \in Stage BY DEF Scheduled, Set!NoRestart, Stage
      <3> QED BY <3>2, <3>3 DEF SetInv, SetTypes
    <2> USE DEF SetInv, SetRel, SetTypes, Reload, Set!Reloading, Set!AfterReload, Set!StartTask
    <2>2. Taken' BY DEF Taken, Set!New
    <2>3. Alone' BY DEF Alone
    <2>4. Compared' BY DEF Compared, Set!New, Set!Differs
    <2>5. InForce' BY DEF InForce
    <2>6. Starts' BY DEF Starts
    <2> QED BY <2>1, <2>2, <2>3, <2>4, <2>5, <2>6
  <1>4. CASE Set!SetDynamic
    <2> USE <1>4 DEF Set!SetDynamic
    <2>1. SetTypes'
      <3>1. rl \in Reload /\ view.data \in Set!Document BY DEF SetInv, SetTypes, Versioned
      <3>2. rl' \in Reload BY <3>1, ReloadChange
      <3>3. dyn' \in Set!Document /\ dyn'.ok BY <3>1 DEF SetInv, SetTypes
      <3>4. pc' \in Stage BY DEF Stage
      <3> QED BY <3>2, <3>3, <3>4 DEF SetInv, SetTypes
    <2> USE DEF SetInv, SetRel, SetTypes, Reload, Set!Reloading, Set!AfterReload, Set!StartTask
    <2>2. Taken' BY DEF Taken, Set!New
    <2>3. Alone' BY DEF Alone
    <2>4. Compared' BY DEF Compared, Set!New, Set!Differs
    <2>5. InForce' BY DEF InForce
    <2>6. Starts' BY DEF Starts
    <2> QED BY <2>1, <2>2, <2>3, <2>4, <2>5, <2>6
  <1>5. CASE Set!ReloadCompare
    <2> USE <1>5 DEF Set!ReloadCompare
    <2>1. SetTypes'
      <3>1. rl \in Reload BY DEF SetInv, SetTypes
      <3> DEFINE x == Set!Differs(Set!New)
                 y == Set!New.conn # run.conn
                 z == task = "none"
      <3>2. x \in BOOLEAN /\ y \in BOOLEAN /\ z \in BOOLEAN BY DEF Set!Differs
      <3>3. rl' \in Reload
        <4>1. \/ rl' = [rl EXCEPT !.changed = x, !.diff = y, !.whole = z]
              \/ rl' = [rl EXCEPT !.changed = FALSE, !.diff = FALSE, !.whole = FALSE]
          OBVIOUS
        <4> HIDE DEF x, y, z
        <4>2. [rl EXCEPT !.changed = x, !.diff = y, !.whole = z] \in Reload BY <3>1, <3>2, ReloadChange
        <4>3. [rl EXCEPT !.changed = FALSE, !.diff = FALSE, !.whole = FALSE] \in Reload BY <3>1, ReloadChange
        <4> QED BY <4>1, <4>2, <4>3, Zenon
      <3>4. clean' \in BOOLEAN /\ pc' \in Stage BY DEF Stage
      <3> QED BY <3>3, <3>4 DEF SetInv, SetTypes
    <2> USE DEF SetInv, SetRel, SetTypes, Reload, Set!Reloading, Set!AfterReload, Set!StartTask
    <2>2. Taken' BY DEF Taken, Set!New
    <2>3. Alone' BY DEF Alone
    <2>4. Compared' BY DEF Compared, Set!New, Set!Differs
    <2>5. InForce' BY DEF InForce
    <2>6. Starts' BY DEF Starts
    <2> QED BY <2>1, <2>2, <2>3, <2>4, <2>5, <2>6
  <1>6. CASE Set!ReloadRaises
    <2> USE <1>6 DEF Set!ReloadRaises
    <2>1. SetTypes' BY SetEffective, SetConstants DEF SetInv, SetTypes, Stage, Set!AfterReload
    <2> USE DEF SetInv, SetRel, SetTypes, Reload, Set!Reloading, Set!AfterReload, Set!StartTask
    <2>2. Taken' BY DEF Taken, Set!New
    <2>3. Alone' BY DEF Alone
    <2>4. Compared' BY DEF Compared, Set!New, Set!Differs
    <2>5. InForce' BY DEF InForce
    <2>6. Starts' BY DEF Starts
    <2> QED BY <2>1, <2>2, <2>3, <2>4, <2>5, <2>6
  <1>7. CASE Set!ReloadAssign
    <2> USE <1>7 DEF Set!ReloadAssign
    <2>1. SetTypes'
      <3>1. Set!New \in Set!Values BY SetEffective DEF SetInv, SetTypes, Set!New
      <3>2. file' \in Set!Values BY <3>1 DEF SetInv, SetTypes
      <3>3. run' \in Set!Values BY <3>2 DEF SetInv, SetTypes, Set!Values
      <3>4. pending' \in BOOLEAN /\ pc' \in Stage BY DEF SetInv, SetTypes, Reload, Stage, Set!AfterReload
      <3> QED BY <3>1, <3>2, <3>3, <3>4 DEF SetInv, SetTypes
    <2> USE DEF SetInv, SetRel, SetTypes, Reload, Set!Reloading, Set!AfterReload, Set!StartTask
    <2>2. Taken' BY DEF Taken, Set!New
    <2>3. Alone' BY DEF Alone
    <2>4. Compared' BY DEF Compared, Set!New, Set!Differs
    <2>5. InForce'
      <3>1. ASSUME clean', task' # "launch", pc' # "flag"
            PROVE  /\ run'.mem = want'.mem /\ pending' = (run'.conn # want'.conn)
                   /\ file'.mem = want'.mem /\ file'.conn \in {want'.conn, run'.conn}
        <4>1. clean /\ ~rl.changed /\ task \notin {"launch"} BY <3>1
        <4>2. /\ ~Set!Differs(Set!New) /\ rl.diff = (Set!New.conn # run.conn)
              /\ run.mem = want.mem /\ file.mem = want.mem /\ file.conn \in {want.conn, run.conn}
          BY <4>1 DEF Compared, InForce
        <4>3. /\ Set!New.conn = run.conn /\ Set!New.mem = run.mem
              /\ want.conn = run.conn /\ want.mem = run.mem
          BY <4>2 DEF Set!Differs
        <4>4. want' = Set!New /\ file' = file /\ run' = run /\ pending' = rl.diff BY <3>1
        <4> QED BY <4>2, <4>3, <4>4
      <3>2. ~(clean' /\ task' = "launch") BY DEF Alone
      <3>3. ASSUME pc' = "flag", rl'.whole, pg' = "up", clean' \/ rl'.changed
            PROVE  file' = want' /\ run'.mem = want'.mem
        <4>1. want' = Set!New /\ rl' = rl /\ pg = "up" /\ run' = [run EXCEPT !.mem = file'.mem]
              /\ file' = IF rl.changed THEN Set!New ELSE file
          BY <3>3
        <4>2. run'.mem = file'.mem BY <4>1 DEF Set!Values
        <4>3. CASE rl.changed BY <4>1, <4>2, <4>3
        <4>4. CASE ~rl.changed
          <5>1. clean /\ task = "none" BY <3>3, <4>1, <4>4 DEF Alone
          <5>2. ~Set!Differs(Set!New) /\ file.mem = want.mem /\ file.conn \in {want.conn, run.conn}
            BY <4>4, <5>1 DEF Compared, InForce
          <5>3. /\ Set!New.conn = run.conn /\ Set!New.mem = run.mem
                /\ want.conn = run.conn /\ want.mem = run.mem
            BY <5>2 DEF Set!Differs
          <5>4. Set!New \in Set!Values BY SetEffective DEF Set!New
          <5>5. file = Set!New BY <5>2, <5>3, <5>4 DEF Set!Values
          <5> QED BY <4>1, <4>2, <4>4, <5>5
        <4> QED BY <4>3, <4>4
      <3> QED BY <3>1, <3>2, <3>3 DEF InForce
    <2>6. Starts' BY DEF Starts
    <2> QED BY <2>1, <2>2, <2>3, <2>4, <2>5, <2>6
  <1>8. CASE Set!ReloadFlag
    <2> USE <1>8 DEF Set!ReloadFlag
    <2>1. SetTypes'
      <3>1. pending' \in BOOLEAN BY DEF SetInv, SetTypes, Reload
      <3>2. clean' \in BOOLEAN /\ pc' \in Stage BY DEF Stage, Set!AfterReload
      <3> QED BY <3>1, <3>2 DEF SetInv, SetTypes
    <2> USE DEF SetInv, SetRel, SetTypes, Reload, Set!Reloading, Set!AfterReload, Set!StartTask
    <2>2. Taken' BY DEF Taken, Set!New
    <2>3. Alone' BY DEF Alone
    <2>4. Compared' BY DEF Compared, Set!New, Set!Differs
    <2>5. InForce'
      <3>1. ASSUME clean', task' # "launch"
            PROVE  /\ run'.mem = want'.mem /\ pending' = (run'.conn # want'.conn)
                   /\ file'.mem = want'.mem /\ file'.conn \in {want'.conn, run'.conn}
        <4>1. rl.whole /\ pg = "up" /\ (clean \/ rl.changed) BY <3>1
        <4>2. file = want /\ run.mem = want.mem BY <4>1 DEF InForce
        <4>3. pending' = (file.conn # run.conn) BY <4>1
        <4> QED BY <4>2, <4>3
      <3>2. ~(clean' /\ task' = "launch") BY DEF Alone
      <3> QED BY <3>1, <3>2 DEF InForce
    <2>6. Starts' BY DEF Starts
    <2> QED BY <2>1, <2>2, <2>3, <2>4, <2>5, <2>6
  <1> QED BY <1>1, <1>2, <1>3, <1>4, <1>5, <1>6, <1>7, <1>8

\* Restarts, postgres, and crashes.
LEMMA SetBack ==
  ASSUME SetInv,
         \/ \E b \in BOOLEAN : Set!Restart(b)
         \/ Set!StopPostgres
         \/ Set!ReadConfiguration
         \/ Set!Launch
         \/ Set!WaitForStartup
         \/ Set!Boot
         \/ Set!ReplaySettings
         \/ Set!Promote
         \/ Set!Crash
         \/ Set!PatroniRestarts
  PROVE  SetInv'
  <1> USE DEF Set!documents, Set!memory, Set!server, Set!thread, Set!history
  <1>1. ASSUME NEW b \in BOOLEAN, Set!Restart(b) PROVE SetInv'
    <2> USE <1>1 DEF Set!Restart
    <2>1. SetTypes'
      <3>1. rl \in Reload BY DEF SetInv, SetTypes
      <3>2. rl' \in Reload /\ task' = "stop" /\ launch' = launch
        BY <3>1, ReloadChange DEF Set!StartTask
      <3> QED BY <3>2 DEF SetInv, SetTypes
    <2> USE DEF SetInv, SetRel, SetTypes, Reload, Set!Reloading, Set!AfterReload, Set!StartTask
    <2>2. Taken' BY DEF Taken, Set!New
    <2>3. Alone' BY DEF Alone
    <2>4. Compared' BY DEF Compared, Set!New, Set!Differs
    <2>5. InForce' BY DEF InForce
    <2>6. Starts' BY DEF Starts
    <2> QED BY <2>1, <2>2, <2>3, <2>4, <2>5, <2>6
  <1>2. CASE Set!StopPostgres
    <2> USE <1>2 DEF Set!StopPostgres
    <2>1. SetTypes' BY SetEffective, SetConstants DEF SetInv, SetTypes
    <2> USE DEF SetInv, SetRel, SetTypes, Reload, Set!Reloading, Set!AfterReload, Set!StartTask
    <2>2. Taken' BY DEF Taken, Set!New
    <2>3. Alone' BY DEF Alone
    <2>4. Compared' BY DEF Compared, Set!New, Set!Differs
    <2>5. InForce' BY DEF InForce
    <2>6. Starts' BY DEF Starts
    <2> QED BY <2>1, <2>2, <2>3, <2>4, <2>5, <2>6
  <1>3. CASE Set!ReadConfiguration
    <2> USE <1>3 DEF Set!ReadConfiguration
    <2>1. SetTypes' BY SetEffective, SetConstants DEF SetInv, SetTypes, Set!Values, Set!EffectiveConfiguration
    <2> USE DEF SetInv, SetRel, SetTypes, Reload, Set!Reloading, Set!AfterReload, Set!StartTask
    <2>2. Taken' BY DEF Taken, Set!New
    <2>3. Alone' BY DEF Alone
    <2>4. Compared' BY DEF Compared, Set!New, Set!Differs
    <2> DEFINE e == Set!EffectiveConfiguration
    <2>7. e.mem = want.mem /\ (role = "replica" => control <= e.conn)
      BY DEF Set!EffectiveConfiguration, Set!Values
    <2>8. \/ launch' = e /\ pending' = (e.conn # want.conn) /\ task' = "launch"
          \/ task' = "none" /\ clean' = FALSE
      OBVIOUS
    <2> HIDE DEF e
    <2>5. InForce' BY <2>7, <2>8 DEF InForce
    <2>6. Starts' BY <2>7, <2>8 DEF Starts
    <2> QED BY <2>1, <2>2, <2>3, <2>4, <2>5, <2>6
  <1>4. CASE Set!Launch
    <2> USE <1>4 DEF Set!Launch
    <2>1. SetTypes' BY SetEffective, SetConstants DEF SetInv, SetTypes, Scheduled
    <2> USE DEF SetInv, SetRel, SetTypes, Reload, Set!Reloading, Set!AfterReload, Set!StartTask
    <2>2. Taken' BY DEF Taken, Set!New
    <2>3. Alone' BY DEF Alone
    <2>4. Compared'
      <3>1. ~(clean /\ pc = "assign") BY DEF Alone
      <3> QED BY <3>1 DEF Compared
    <2>5. InForce' BY DEF InForce
    <2>6. Starts'
      <3>1. role = "replica" => ~(launch.conn < control) BY DEF Starts, Set!Values
      <3> QED BY <3>1 DEF Starts
    <2> QED BY <2>1, <2>2, <2>3, <2>4, <2>5, <2>6
  <1>5. CASE Set!WaitForStartup
    <2> USE <1>5 DEF Set!WaitForStartup
    <2>1. SetTypes' BY SetEffective, SetConstants DEF SetInv, SetTypes
    <2> USE DEF SetInv, SetRel, SetTypes, Reload, Set!Reloading, Set!AfterReload, Set!StartTask
    <2>2. Taken' BY DEF Taken, Set!New
    <2>3. Alone' BY DEF Alone
    <2>4. Compared' BY DEF Compared, Set!New, Set!Differs
    <2>5. InForce' BY DEF InForce
    <2>6. Starts' BY DEF Starts
    <2> QED BY <2>1, <2>2, <2>3, <2>4, <2>5, <2>6
  <1>6. CASE Set!Boot
    <2> USE <1>6 DEF Set!Boot
    <2>1. SetTypes' BY SetEffective, SetConstants DEF SetInv, SetTypes, Set!Values
    <2> USE DEF SetInv, SetRel, SetTypes, Reload, Set!Reloading, Set!AfterReload, Set!StartTask
    <2>2. Taken' BY DEF Taken, Set!New
    <2>3. Alone' BY DEF Alone
    <2>4. Compared' BY DEF Compared, Set!New, Set!Differs
    <2>5. InForce'
      <3>1. ~(pc = "flag" /\ rl.whole) BY DEF Alone
      <3>2. UNCHANGED <<clean, task, pc, run, want, file, pending, launch, rl>> OBVIOUS
      <3> QED BY <3>1, <3>2 DEF InForce
    <2>6. Starts' BY DEF Starts
    <2> QED BY <2>1, <2>2, <2>3, <2>4, <2>5, <2>6
  <1>7. CASE Set!ReplaySettings
    <2> USE <1>7 DEF Set!ReplaySettings
    <2>1. SetTypes' BY SetEffective, SetConstants DEF SetInv, SetTypes
    <2> USE DEF SetInv, SetRel, SetTypes, Reload, Set!Reloading, Set!AfterReload, Set!StartTask
    <2>2. Taken' BY DEF Taken, Set!New
    <2>3. Alone' BY DEF Alone
    <2>4. Compared' BY DEF Compared, Set!New, Set!Differs
    <2>5. InForce' BY DEF InForce
    <2>6. Starts' BY DEF Starts
    <2> QED BY <2>1, <2>2, <2>3, <2>4, <2>5, <2>6
  <1>8. CASE Set!Promote
    <2> USE <1>8 DEF Set!Promote
    <2>1. SetTypes' BY SetEffective, SetConstants DEF SetInv, SetTypes, Set!Values
    <2> USE DEF SetInv, SetRel, SetTypes, Reload, Set!Reloading, Set!AfterReload, Set!StartTask
    <2>2. Taken' BY DEF Taken, Set!New
    <2>3. Alone' BY DEF Alone
    <2>4. Compared' BY DEF Compared, Set!New, Set!Differs
    <2>5. InForce' BY DEF InForce
    <2>6. Starts' BY DEF Starts
    <2> QED BY <2>1, <2>2, <2>3, <2>4, <2>5, <2>6
  <1>9. CASE Set!Crash
    <2> USE <1>9 DEF Set!Crash
    <2>1. SetTypes' BY SetEffective, SetConstants DEF SetInv, SetTypes
    <2> USE DEF SetInv, SetRel, SetTypes, Reload, Set!Reloading, Set!AfterReload, Set!StartTask
    <2>2. Taken' BY DEF Taken, Set!New
    <2>3. Alone' BY DEF Alone
    <2>4. Compared' BY DEF Compared, Set!New, Set!Differs
    <2>5. InForce' BY DEF InForce
    <2>6. Starts' BY DEF Starts
    <2> QED BY <2>1, <2>2, <2>3, <2>4, <2>5, <2>6
  <1>10. CASE Set!PatroniRestarts
    <2> USE <1>10 DEF Set!PatroniRestarts
    <2>1. SetTypes' BY SetEffective, SetConstants DEF SetInv, SetTypes, Stage, Reload, Versioned, Scheduled, Set!NoRestart
    <2> USE DEF SetInv, SetRel, SetTypes, Reload, Set!Reloading, Set!AfterReload, Set!StartTask
    <2>2. Taken' BY DEF Taken, Set!New
    <2>3. Alone' BY DEF Alone
    <2>4. Compared' BY DEF Compared, Set!New, Set!Differs
    <2>5. InForce' BY DEF InForce
    <2>6. Starts' BY DEF Starts
    <2> QED BY <2>1, <2>2, <2>3, <2>4, <2>5, <2>6
  <1> QED BY <1>1, <1>2, <1>3, <1>4, <1>5, <1>6, <1>7, <1>8, <1>9, <1>10

\* What the property says follows.
LEMMA SetTrue == SetInv => Set!SettingsTrue
  BY DEF SetInv, SetRel, Taken, InForce, Starts, Set!SettingsTrue, Set!Settled, Set!New, Set!Reloading

\* And the types.
LEMMA SetTyped == SetInv => Set!TypeOK
  BY DEF SetInv, SetTypes, Versioned, Set!TypeOK

\* Every step of the settings.
LEMMA SetStep == ASSUME SetInv, Set!Next PROVE SetInv'
  <1>1. CASE Set!Main BY <1>1, SetMain, SetOutside, SetBack DEF Set!Main
  <1>2. CASE Set!Background BY <1>2, SetBack DEF Set!Background
  <1> QED BY <1>1, <1>2, SetOutside, SetBack DEF Set!Next

\* The invariant of the settings, in the system in which the parts are side by side.
LEMMA SetAlways == Spec => []SetInv
  <1>1. Init => SetInv BY SetInit DEF Init
  <1>2. SetInv /\ [Next]_allVars => SetInv'
    <2> SUFFICES ASSUME SetInv, [Next]_allVars PROVE SetInv' OBVIOUS
    <2>1. CASE Set!Next BY <2>1, SetStep
    <2>2. CASE UNCHANGED setVars
      <3>1. SetTypes' BY <2>2 DEF setVars, SetInv, SetTypes
      <3>2. SetRel' BY <2>2, SetQuiet DEF setVars, relVars, SetInv
      <3> QED BY <3>1, <3>2 DEF SetInv
    <2> QED BY <2>1, <2>2 DEF Next, allVars
  <1> QED BY <1>1, <1>2, PTL DEF Spec

\* A node at rest runs with the settings that were asked for, says of those that wait for a restart that
\* they do, and starts with no less than its primary has, whatever reloads, restarts and failures meet,
\* unless a reload failed or was left out, or came together with a restart (config.py, ha.py).
THEOREM SettingsAreTrue == Spec => []SettingsTrue
  <1>1. SetInv => SettingsTrue BY SetTrue DEF SettingsTrue
  <1> QED BY <1>1, SetAlways, PTL

\* Every variable of each part has its type.
THEOREM NodeType == ASSUME Checkpointing PROVE Spec => []TypeOK
  <1>1. SloInv => Slo!TypeOK
    BY SloConstants DEF SloInv, SloTypes, Behind, Front, Streaming, SlotAt, Kvs, Prim, Stby, Ph, Sh, Copying,
       Slo!TypeOK, Slo!Slot, Slo!Checked, Slo!NoXmin
  <1>2. RewInv => Rew!TypeOK
    BY DEF RewInv, RewType, Log, Ordered, Postgres, Rew!TypeOK
  <1>3. BootInv => Boo!TypeOK BY DEF BootInv, BootType
  <1>4. SetInv => Set!TypeOK BY SetTyped
  <1>5. part \in Part /\ SetInv /\ SloInv /\ RewInv /\ (part = "bootstrap" => BootInv) => TypeOK
    BY <1>1, <1>2, <1>3, <1>4, NodeAssumption DEF TypeOK
  <1>6. Spec => [](part \in Part)
    <2>1. Init => part \in Part BY DEF Init
    <2>2. part \in Part /\ [Next]_allVars => (part \in Part)' BY DEF Next, allVars
    <2> QED BY <2>1, <2>2, PTL DEF Spec
  <1> QED BY <1>5, <1>6, SetAlways, SloAlways, RewAlways, BootAlways, PTL
=============================================================================
