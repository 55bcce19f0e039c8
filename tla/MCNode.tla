-------------------------------- MODULE MCNode --------------------------------
(***************************************************************************)
(* Model-checking instance of the parts of a node that share no state with *)
(* each other: one state space for each, side by side.  In a behaviour the *)
(* one that is chosen at the beginning moves, the others stay as they are. *)
(***************************************************************************)
EXTENDS Naturals, TLC

CONSTANTS
  Part,                                               \* the parts to be checked
  Client, Modern, MaxVer, MaxRestarts, MaxFaults,     \* Settings
  MaxPos, MaxChanges, MaxTroubles,                    \* Slots
  Joiner, NoJoiner, MaxCrashes,                       \* Bootstrap
  Server, NoServer, MaxTimeline, MaxLsn, MaxFailures, CheckpointFails, StaleMember, Reinitialize   \* Rewind

VARIABLES
  part,
  conf, client, dyn, modv, saved, unsaved, disk, used, sighup, pc, view, rl, want, file, run,
  pg, control, state, role, pending, task, launch, sched, clean, behind, left,
  kvs, wal, prim, stby, ph, sh, adv, copying, kept, budget,
  initialize, leader, node, data, failed, crashes,
  lock, logs, pgs, ctl, rstate, exposed, failures

Set == INSTANCE Settings
Slo == INSTANCE Slots
Boo == INSTANCE Bootstrap
Rew == INSTANCE Rewind

ASSUME NodeAssumption ==
  /\ Part \subseteq {"settings", "slots", "bootstrap", "rewind"}
  /\ Set!SettingsAssumption /\ Slo!SlotsAssumption /\ Boo!BootstrapAssumption
  /\ Rew!RewindAssumption

Init ==
  /\ part \in Part
  /\ Set!Init /\ (part # "settings" => role = "primary")
  /\ Slo!Init /\ Boo!Init /\ Rew!Init

setVars == <<conf, client, dyn, modv, saved, unsaved, disk, used, sighup, pc, view, rl, want,
             file, run, pg, control, state, role, pending, task, launch, sched, clean, behind, left>>
sloVars == <<kvs, wal, prim, stby, ph, sh, adv, copying, kept, budget>>
booVars == <<initialize, leader, node, data, failed, crashes>>
rewVars == <<lock, logs, pgs, ctl, rstate, exposed, failures>>

Next ==
  \/ part = "settings" /\ UNCHANGED <<part, sloVars, booVars, rewVars>> /\ Set!Next
  \/ part = "slots" /\ UNCHANGED <<part, setVars, booVars, rewVars>> /\ Slo!Next
  \/ part = "bootstrap" /\ UNCHANGED <<part, setVars, sloVars, rewVars>> /\ Boo!Next
  \/ part = "rewind" /\ UNCHANGED <<part, setVars, sloVars, booVars>> /\ Rew!Next

allVars == <<part, setVars, sloVars, booVars, rewVars>>

Spec == Init /\ [][Next]_allVars

-----------------------------------------------------------------------------

\* In Bootstrap: what a node has loaded is read in the cycle that loaded it, and by a clone.
Known(n) ==
  IF node[n].step \in {"run", "joined", "post"} \/ node[n].task = "clone" THEN <<node[n].init, node[n].leader>>
  ELSE <<>>

\* The others need not be looked at, nor what nothing reads any more.
Moving == CASE part = "settings" -> setVars
            [] part = "slots" -> sloVars
            [] part = "bootstrap" ->
                 <<initialize, leader, data, failed, crashes,
                   [n \in Joiner |-> <<node[n].step, node[n].bootstrapping, node[n].task, node[n].called, Known(n),
                                      IF node[n].bootstrapping THEN node[n].result ELSE "none">>]>>
            [] part = "rewind" -> rewVars
View == <<part, Moving>>

\* Every variable has its type.
TypeOK ==
  CASE part = "settings" -> Set!TypeOK
    [] part = "slots" -> Slo!TypeOK
    [] part = "bootstrap" -> Boo!TypeOK
    [] part = "rewind" -> Rew!TypeOK

\* Settings: a node at rest runs with what was asked for, or says that a restart is due.
SettingsTrue == part = "settings" => Set!SettingsTrue

\* Slots: what is said to be safe after a failover is.
SlotSurvivesFailover == part = "slots" => Slo!SlotSurvivesFailover

\* Bootstrap: there is one system.
OneCluster == part = "bootstrap" => Boo!OneCluster

\* Rewind: a node that follows without a rewind, or after one, has not diverged.
DivergenceFound == Rew!DivergenceFound
===============================================================================
