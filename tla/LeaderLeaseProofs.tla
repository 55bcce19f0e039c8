-------------------------- MODULE LeaderLeaseProofs --------------------------
(***************************************************************************)
(* A primary holds the leader key, for any number of nodes and any ttl,    *)
(* when the watchdog is on, its timeout is at most half of the ttl, and it *)
(* is activated in time.  The argument: the watchdog is never set to fire  *)
(* later than the key expires (Fenced), because each keepalive follows a   *)
(* write of the key that was made while the watchdog was ticking           *)
(* (WindowInv).                                                            *)
(***************************************************************************)
EXTENDS LeaderLease, TLAPS

\* The configuration in which the watchdog protects the leader key.
SafeTiming ==
  /\ WdTimeout > 0 /\ 2 * WdTimeout <= TTL
  /\ MaxActivate + WdTimeout <= TTL
  /\ ~DiesPromoting

\* A step of n leaves the other nodes alone, and their key too.
OthersKept(n) ==
  /\ \A m \in Node \ {n} :
       /\ pc'[m] = pc[m] /\ task'[m] = task[m] /\ preFailed'[m] = preFailed[m]
       /\ pg'[m] = pg[m] /\ role'[m] = role[m]
       /\ wdOpen'[m] = wdOpen[m] /\ wd'[m] = wd[m]
  /\ UNCHANGED dcsVars \/ (owner \in {n, NoNode} /\ owner' \in {n, NoNode})

\* A step of the HA loop of n is well typed and n's own.
LEMMA CycleFrame ==
  ASSUME TypeOK, NEW n \in Node, CycleStep(n) PROVE TypeOK' /\ OthersKept(n)
  <1> USE LeaseAssumption DEF Goto, RunTask, TryRunTask, TaskStep, Busy, InCycle, WithoutLock,
          WriteKey, DeleteKey, Keepalive, DisableWatchdog, Stopped, haVars, dcsVars, wdVars
  <1> USE DEF TypeOK, OthersKept, PCs, Tasks, PrimaryRoles
  <1>1. CASE LoadCluster(n) BY <1>1 DEF LoadCluster
  <1>2. CASE LoadFails(n) BY <1>2 DEF LoadFails
  <1>3. CASE UpdateLeader(n) BY <1>3 DEF UpdateLeader
  <1>4. CASE LeaderUpdated(n) BY <1>4 DEF LeaderUpdated
  <1>5. CASE LostLockWhileBusy(n) BY <1>5 DEF LostLockWhileBusy
  <1>6. CASE RecoverWithoutLock(n) BY <1>6 DEF RecoverWithoutLock
  <1>7. CASE Recover(n)
    <2>1. CASE task' = [task EXCEPT ![n] = "startPrimary"] /\ UNCHANGED <<role, wdVars>>
      BY <1>7, <2>1 DEF Recover
    <2>2. CASE role' = [role EXCEPT ![n] = "replica"] /\ DisableWatchdog(n)
      BY <1>7, <2>2 DEF Recover
    <2> QED BY <1>7, <2>1, <2>2 DEF Recover
  <1>8. CASE RecoverByFailover(n) BY <1>8 DEF RecoverByFailover
  <1>9. CASE Follow(n) BY <1>9 DEF Follow
  <1>10. CASE HandleDcsError(n) BY <1>10 DEF HandleDcsError
  <1>11. CASE Acquire(n) BY <1>11 DEF Acquire
  <1>12. CASE LeaderAcquired(n) BY <1>12 DEF LeaderAcquired
  <1>13. CASE Reload(n) BY <1>13 DEF Reload
  <1>14. CASE Switchover(n) BY <1>14 DEF Switchover
  <1>15. CASE WatchdogFails(n) BY <1>15 DEF WatchdogFails
  <1>16. CASE EnforcePrimaryRole(n) BY <1>16 DEF EnforcePrimaryRole
  <1>17. CASE ReleaseKey(n) BY <1>17 DEF ReleaseKey
  <1>18. CASE DemoteStop(n) BY <1>18 DEF DemoteStop
  <1>19. CASE DemoteOffline(n) BY <1>19 DEF DemoteOffline
  <1>20. CASE StartOffline(n) BY <1>20 DEF StartOffline
  <1> HIDE DEF TypeOK, OthersKept
  <1> QED BY <1>1, <1>2, <1>3, <1>4, <1>5, <1>6, <1>7, <1>8, <1>9, <1>10,
         <1>11, <1>12, <1>13, <1>14, <1>15, <1>16, <1>17, <1>18, <1>19,
         <1>20 DEF CycleStep

\* So is a step of its background task.
LEMMA TaskFrame ==
  ASSUME TypeOK, NEW n \in Node, TaskRuns(n) PROVE TypeOK' /\ OthersKept(n)
  <1> USE LeaseAssumption DEF Goto, RunTask, TryRunTask, TaskStep, Busy, InCycle, WithoutLock,
          WriteKey, DeleteKey, Keepalive, DisableWatchdog, Stopped, haVars, dcsVars, wdVars
  <1> USE DEF TypeOK, OthersKept, PCs, Tasks, PrimaryRoles
  <1>1. ASSUME NEW ok \in BOOLEAN, PrePromote(n, ok) PROVE TypeOK' /\ OthersKept(n)
    BY <1>1 DEF PrePromote
  <1>2. CASE Promote(n) BY <1>2 DEF Promote
  <1>3. CASE TaskEnd(n) BY <1>3 DEF TaskEnd
  <1>4. CASE DemoteTask(n) BY <1>4 DEF DemoteTask
  <1>5. CASE ReleaseTask(n) BY <1>5 DEF ReleaseTask
  <1>6. CASE StartStandby(n) BY <1>6 DEF StartStandby
  <1>7. CASE StartPrimary(n) BY <1>7 DEF StartPrimary
  <1> HIDE DEF TypeOK, OthersKept
  <1> QED BY <1>1, <1>2, <1>3, <1>4, <1>5, <1>6, <1>7 DEF TaskRuns

\* So are crashes, restarts and the shutdown of n.
LEMMA EnvironmentFrame ==
  ASSUME TypeOK, NEW n \in Node, Environment(n) PROVE TypeOK' /\ OthersKept(n)
  <1> USE LeaseAssumption DEF Goto, RunTask, TryRunTask, TaskStep, Busy, InCycle, WithoutLock,
          WriteKey, DeleteKey, Keepalive, DisableWatchdog, Stopped, haVars, dcsVars, wdVars
  <1> USE DEF TypeOK, OthersKept, PCs, Tasks, PrimaryRoles
  <1>1. CASE ExitRecovery(n) BY <1>1 DEF ExitRecovery
  <1>2. CASE PgCrash(n) BY <1>2 DEF PgCrash
  <1>3. CASE PatroniCrash(n) BY <1>3 DEF PatroniCrash
  <1>4. CASE PatroniStart(n) BY <1>4 DEF PatroniStart
  <1>5. CASE Shutdown(n) BY <1>5 DEF Shutdown
  <1>6. CASE ShutdownStop(n) BY <1>6 DEF ShutdownStop
  <1>7. CASE ShutdownRelease(n) BY <1>7 DEF ShutdownRelease
  <1> HIDE DEF TypeOK, OthersKept
  <1> QED BY <1>1, <1>2, <1>3, <1>4, <1>5, <1>6, <1>7 DEF Environment

\* Every step of the HA loop of n keeps its part of the invariant.
LEMMA CycleInv ==
  ASSUME TypeOK, TypeOK', SafeTiming, NEW n \in Node, NodeInv(n), CycleStep(n)
  PROVE  NodeInv(n)'
  <1> USE LeaseAssumption DEF Goto, RunTask, TryRunTask, TaskStep, Busy, InCycle, WithoutLock,
          WriteKey, DeleteKey, Keepalive, DisableWatchdog, Stopped, haVars, dcsVars, wdVars
  <1> USE DEF TypeOK, PCs, Tasks, PrimaryRoles, SafeTiming, NodeInv, FencedInv, WindowInv, ControlInv,
          Fenced, Promoting, Active, InWindow
  <1>1. CASE LoadCluster(n) BY <1>1 DEF LoadCluster
  <1>2. CASE LoadFails(n) BY <1>2 DEF LoadFails
  <1>3. CASE UpdateLeader(n) BY <1>3 DEF UpdateLeader
  <1>4. CASE LeaderUpdated(n) BY <1>4 DEF LeaderUpdated
  <1>5. CASE LostLockWhileBusy(n) BY <1>5 DEF LostLockWhileBusy
  <1>6. CASE RecoverWithoutLock(n) BY <1>6 DEF RecoverWithoutLock
  <1>7. CASE Recover(n) BY <1>7 DEF Recover
  <1>8. CASE RecoverByFailover(n) BY <1>8 DEF RecoverByFailover
  <1>9. CASE Follow(n) BY <1>9 DEF Follow
  <1>10. CASE HandleDcsError(n) BY <1>10 DEF HandleDcsError
  <1>11. CASE Acquire(n) BY <1>11 DEF Acquire
  <1>12. CASE LeaderAcquired(n) BY <1>12 DEF LeaderAcquired
  <1>13. CASE Reload(n) BY <1>13 DEF Reload
  <1>14. CASE Switchover(n) BY <1>14 DEF Switchover
  <1>15. CASE WatchdogFails(n) BY <1>15 DEF WatchdogFails
  <1>16. CASE EnforcePrimaryRole(n)
    <2>a. pc[n] \in {"healthy", "enforce"} BY <1>16 DEF EnforcePrimaryRole
    <2>b. ASSUME wdOpen[n] PROVE Fenced(n)'
      <3>1. Fenced(n) BY <2>a, <2>b
      <3>2. wd'[n] = wd[n] /\ UNCHANGED dcsVars BY <1>16, <2>b DEF EnforcePrimaryRole
      <3> QED BY <3>1, <3>2
    <2>c. ASSUME ~wdOpen[n] PROVE Fenced(n)'
      <3>1. owner = n /\ WdTimeout <= keyTtl BY <2>a, <2>c
      <3>2. wd'[n] = WdTimeout /\ UNCHANGED dcsVars BY <1>16, <2>c DEF EnforcePrimaryRole
      <3> QED BY <3>1, <3>2
    <2>1. ~Busy(n) BY <2>a
    <2>d. wdOpen' = [wdOpen EXCEPT ![n] = TRUE]
      <3>1. wdOpen' = [wdOpen EXCEPT ![n] = (WdTimeout > 0)]
        BY <1>16 DEF EnforcePrimaryRole
      <3>2. (WdTimeout > 0) = TRUE OBVIOUS
      <3> QED BY <3>1, <3>2
    <2>e. preFailed' = [preFailed EXCEPT ![n] = FALSE] /\ pg' = pg
      BY <1>16 DEF EnforcePrimaryRole
    <2>2. wdOpen'[n] /\ ~preFailed'[n] /\ pg'[n] = pg[n] BY <2>d, <2>e
    <2>3. Fenced(n)' BY <2>b, <2>c
    <2>4. CASE preFailed[n]
      BY <1>16, <2>1, <2>2, <2>3, <2>4 DEF EnforcePrimaryRole
    <2>5. CASE ~preFailed[n]
      BY <1>16, <2>1, <2>2, <2>3, <2>5 DEF EnforcePrimaryRole
    <2> QED BY <2>4, <2>5
  <1>17. CASE ReleaseKey(n) BY <1>17 DEF ReleaseKey
  <1>18. CASE DemoteStop(n) BY <1>18 DEF DemoteStop
  <1>19. CASE DemoteOffline(n) BY <1>19 DEF DemoteOffline
  <1>20. CASE StartOffline(n) BY <1>20 DEF StartOffline
  <1> HIDE DEF NodeInv
  <1> QED BY <1>1, <1>2, <1>3, <1>4, <1>5, <1>6, <1>7, <1>8, <1>9, <1>10,
         <1>11, <1>12, <1>13, <1>14, <1>15, <1>16, <1>17, <1>18, <1>19,
         <1>20 DEF CycleStep

\* So does every step of its background task.
LEMMA TaskInv ==
  ASSUME TypeOK, TypeOK', SafeTiming, NEW n \in Node, NodeInv(n), TaskRuns(n)
  PROVE  NodeInv(n)'
  <1> USE LeaseAssumption DEF Goto, RunTask, TryRunTask, TaskStep, Busy, InCycle, WithoutLock,
          WriteKey, DeleteKey, Keepalive, DisableWatchdog, Stopped, haVars, dcsVars, wdVars
  <1> USE DEF TypeOK, PCs, Tasks, PrimaryRoles, SafeTiming, NodeInv, FencedInv, WindowInv, ControlInv,
          Fenced, Promoting, Active, InWindow
  <1>1. ASSUME NEW ok \in BOOLEAN, PrePromote(n, ok) PROVE NodeInv(n)'
    BY <1>1 DEF PrePromote
  <1>2. CASE Promote(n) BY <1>2 DEF Promote
  <1>3. CASE TaskEnd(n) BY <1>3 DEF TaskEnd
  <1>4. CASE DemoteTask(n) BY <1>4 DEF DemoteTask
  <1>5. CASE ReleaseTask(n) BY <1>5 DEF ReleaseTask
  <1>6. CASE StartStandby(n) BY <1>6 DEF StartStandby
  <1>7. CASE StartPrimary(n) BY <1>7 DEF StartPrimary
  <1> HIDE DEF NodeInv
  <1> QED BY <1>1, <1>2, <1>3, <1>4, <1>5, <1>6, <1>7 DEF TaskRuns

\* So do crashes, restarts and the shutdown of n.
LEMMA EnvironmentInv ==
  ASSUME TypeOK, TypeOK', SafeTiming, NEW n \in Node, NodeInv(n), Environment(n)
  PROVE  NodeInv(n)'
  <1> USE LeaseAssumption DEF Goto, RunTask, TryRunTask, TaskStep, Busy, InCycle, WithoutLock,
          WriteKey, DeleteKey, Keepalive, DisableWatchdog, Stopped, haVars, dcsVars, wdVars
  <1> USE DEF TypeOK, PCs, Tasks, PrimaryRoles, SafeTiming, NodeInv, FencedInv, WindowInv, ControlInv,
          Fenced, Promoting, Active, InWindow
  <1>1. CASE ExitRecovery(n) BY <1>1 DEF ExitRecovery
  <1>2. CASE PgCrash(n) BY <1>2 DEF PgCrash
  <1>3. CASE PatroniCrash(n) BY <1>3 DEF PatroniCrash
  <1>4. CASE PatroniStart(n) BY <1>4 DEF PatroniStart
  <1>5. CASE Shutdown(n) BY <1>5 DEF Shutdown
  <1>6. CASE ShutdownStop(n) BY <1>6 DEF ShutdownStop
  <1>7. CASE ShutdownRelease(n) BY <1>7 DEF ShutdownRelease
  <1> HIDE DEF NodeInv
  <1> QED BY <1>1, <1>2, <1>3, <1>4, <1>5, <1>6, <1>7 DEF Environment

-----------------------------------------------------------------------------
\* A step of n keeps the invariant of every other node.
LEMMA OthersInv ==
  ASSUME TypeOK, TypeOK', SafeTiming, NEW n \in Node, NEW m \in Node \ {n},
         NodeInv(m), OthersKept(n)
  PROVE  NodeInv(m)'
  <1> USE LeaseAssumption DEF OthersKept, NodeInv, FencedInv, WindowInv, ControlInv, Fenced,
          Promoting, Active, InWindow, Busy, SafeTiming
  <1>1. CASE UNCHANGED dcsVars BY <1>1 DEF dcsVars
  <1>2. CASE owner \in {n, NoNode} /\ owner' \in {n, NoNode} BY <1>2
  <1> QED BY <1>1, <1>2

\* Time keeps the types: what the machines that stop and the clocks become.
LEMMA TickType == ASSUME TypeOK, Tick PROVE TypeOK'
  <1> USE LeaseAssumption DEF TypeOK, PCs, Tasks, PrimaryRoles, Tick
  <1>1. owner' \in Node \cup {NoNode} /\ keyTtl' \in 0 .. TTL OBVIOUS
  <1>2. wd' \in [Node -> 0 .. WdTimeout]
    <2>1. \A n \in Node : wd[n] \in 0 .. WdTimeout /\ WdTimeout \in Nat
      BY DEF TypeOK
    <2>2. wd' = [n \in Node |-> IF wd[n] = 0 THEN 0 ELSE wd[n] - 1]
      BY DEF Tick
    <2> HIDE DEF Tick, TypeOK
    <2> QED BY <2>1, <2>2
  <1>3. view' \in [Node -> Node \cup {NoNode}] /\ pc' \in [Node -> PCs]
    OBVIOUS
  <1>4. task' \in [Node -> Tasks] /\ preFailed' \in [Node -> BOOLEAN]
    OBVIOUS
  <1>5. /\ pg' \in [Node -> {"down", "standby", "promoting", "primary"}]
        /\ role' \in [Node -> {"replica"} \cup PrimaryRoles]
    OBVIOUS
  <1>6. wdOpen' \in [Node -> BOOLEAN] OBVIOUS
  <1> HIDE DEF Tick
  <1> QED BY <1>1, <1>2, <1>3, <1>4, <1>5, <1>6

\* Time passes: a primary is reset no later than its key expires.
LEMMA TickInv == ASSUME LeaseInv, SafeTiming, Tick PROVE LeaseInv'
  <1> USE LeaseAssumption DEF SafeTiming, LeaseInv
  <1>1. TypeOK' BY TickType
  <1>2. ASSUME NEW n \in Node PROVE NodeInv(n)'
    <2> USE DEF NodeInv, FencedInv, WindowInv, ControlInv, Fenced, Promoting, Active, InWindow,
                Busy, TypeOK, PCs, Tasks, PrimaryRoles
    <2>1. CASE wd[n] = 1 BY <2>1 DEF Tick
    <2>2. CASE wd[n] # 1
      <3>1. UNCHANGED <<pc[n], task[n], pg[n], role[n], preFailed[n], wdOpen[n]>>
        BY <2>2 DEF Tick
      <3>2. wd'[n] = (IF wd[n] = 0 THEN 0 ELSE wd[n] - 1) /\ ActivatedInTime(n)
        BY DEF Tick
      <3>3. keyTtl' = (IF keyTtl = 0 THEN 0 ELSE keyTtl - 1)
            /\ owner' = (IF keyTtl <= 1 THEN NoNode ELSE owner)
        BY DEF Tick
      <3>4. FencedInv(n)' BY <2>2, <3>1, <3>2, <3>3
      <3>5. WindowInv(n)' BY <2>2, <3>1, <3>2, <3>3 DEF ActivatedInTime
      <3>6. ControlInv(n)' BY <2>2, <3>1, <3>2, <3>3
      <3> QED BY <3>4, <3>5, <3>6
    <2> QED BY <2>1, <2>2
  <1> QED BY <1>1, <1>2

\* The state stays within its types, whatever the settings and the timing.
THEOREM LeaseType == Spec => []TypeOK
  <1>1. Init => TypeOK
    BY LeaseAssumption DEF Init, TypeOK, PCs, Tasks, PrimaryRoles
  <1>2. ASSUME TypeOK, [Next]_vars PROVE TypeOK'
    <2>1. CASE UNCHANGED vars BY <1>2, <2>1 DEF vars, dcsVars, haVars, wdVars, TypeOK
    <2>2. ASSUME NEW n \in Foreign, ForeignKey(n) PROVE TypeOK'
      BY <1>2, <2>2, LeaseAssumption DEF ForeignKey, WriteKey, haVars, wdVars, TypeOK
    <2> QED BY <1>2, <2>1, <2>2, TickType, CycleFrame, TaskFrame, EnvironmentFrame DEF Next
  <1> QED BY <1>1, <1>2, PTL DEF Spec

\* At the start nobody holds the key and every postgres is a standby.
LEMMA InitInv == SafeTiming /\ Init => LeaseInv
  BY LeaseAssumption DEF Init, SafeTiming, LeaseInv, NodeInv, FencedInv, WindowInv, ControlInv,
     Fenced, Promoting, Active, InWindow, Busy, TypeOK, PCs, Tasks, PrimaryRoles

\* The inductive invariant.
THEOREM LeaseInvariant == ASSUME SafeTiming PROVE Spec => []LeaseInv
  <1>1. ASSUME LeaseInv, [Next]_vars PROVE LeaseInv'
    <2>1. CASE UNCHANGED vars
      BY <1>1, <2>1 DEF vars, dcsVars, haVars, wdVars, LeaseInv, NodeInv, FencedInv, WindowInv,
         ControlInv, Fenced, Promoting, Active, InWindow, Busy, TypeOK
    <2>2. CASE Tick BY <1>1, <2>2, TickInv
    <2>3. ASSUME NEW n \in Node, CycleStep(n) \/ TaskRuns(n) \/ Environment(n) PROVE LeaseInv'
      <3>1. TypeOK /\ TypeOK' /\ OthersKept(n)
        BY <1>1, <2>3, CycleFrame, TaskFrame, EnvironmentFrame DEF LeaseInv
      <3>2. NodeInv(n)'
        BY <1>1, <2>3, <3>1, CycleInv, TaskInv, EnvironmentInv DEF LeaseInv
      <3>3. ASSUME NEW m \in Node \ {n} PROVE NodeInv(m)'
        BY <1>1, <3>1, OthersInv DEF LeaseInv
      <3> QED BY <3>1, <3>2, <3>3 DEF LeaseInv
    <2>4. ASSUME NEW n \in Foreign, ForeignKey(n) PROVE LeaseInv'
      <3> USE LeaseAssumption DEF ForeignKey, WriteKey, haVars, wdVars
      <3>1. TypeOK /\ TypeOK' /\ OthersKept(n)
        BY <1>1, <2>4 DEF LeaseInv, TypeOK, OthersKept
      <3>2. NodeInv(n)'
        BY <1>1, <2>4, <3>1 DEF LeaseInv, NodeInv, FencedInv, WindowInv, ControlInv, Fenced,
           Promoting, Active, InWindow, Busy, TypeOK, SafeTiming
      <3>3. ASSUME NEW m \in Node \ {n} PROVE NodeInv(m)'
        BY <1>1, <3>1, OthersInv DEF LeaseInv
      <3> QED BY <3>1, <3>2, <3>3 DEF LeaseInv
    <2> QED BY <1>1, <2>1, <2>2, <2>3, <2>4 DEF Next
  <1> QED BY <1>1, InitInv, PTL DEF Spec

\* A node whose postgres is, or is becoming, a primary holds the leader key: no
\* commit is accepted after the key expires.
THEOREM PrimaryHoldsKeyAlways == ASSUME SafeTiming PROVE Spec => []PrimaryHoldsKey
  <1>1. LeaseInv => PrimaryHoldsKey
    BY DEF LeaseInv, NodeInv, FencedInv, Fenced, PrimaryHoldsKey
  <1> QED BY <1>1, LeaseInvariant, PTL

\* There is no split brain: never two primaries at once.
THEOREM NoSplitBrain == ASSUME SafeTiming PROVE Spec => []AtMostOnePrimary
  <1>1. LeaseInv => AtMostOnePrimary
    BY DEF LeaseInv, NodeInv, FencedInv, Fenced, AtMostOnePrimary
  <1> QED BY <1>1, LeaseInvariant, PTL

-----------------------------------------------------------------------------
\* The key is taken only when it is free, by a step that leaves postgres alone.
KeyMoves == owner' \in {owner, NoNode} \/ (owner = NoNode /\ owner' \in Node /\ pg' = pg)

LEMMA KeyStep == ASSUME Next PROVE KeyMoves
  <1> USE DEF KeyMoves
  <1>1. CASE Tick BY <1>1 DEF Tick
  <1> USE DEF dcsVars, haVars, WriteKey, DeleteKey
  <1>2. ASSUME NEW n \in Node, CycleStep(n) PROVE KeyMoves
    <2>1. CASE UpdateLeader(n) BY <2>1 DEF UpdateLeader
    <2>2. CASE Acquire(n) BY <2>2 DEF Acquire
    <2>3. CASE ReleaseKey(n) BY <2>3 DEF ReleaseKey
    <2>4. CASE owner' = owner BY <2>4
    <2> QED BY <1>2, <2>1, <2>2, <2>3, <2>4 DEF CycleStep, LoadCluster, LoadFails,
       LeaderUpdated, LostLockWhileBusy, RecoverWithoutLock, Recover, RecoverByFailover, Follow,
       HandleDcsError, LeaderAcquired, Reload, Switchover, WatchdogFails, EnforcePrimaryRole,
       DemoteStop, DemoteOffline, StartOffline
  <1>3. ASSUME NEW n \in Node, TaskRuns(n) PROVE owner' \in {owner, NoNode}
    BY <1>3 DEF TaskRuns, PrePromote, Promote, TaskEnd, DemoteTask, ReleaseTask, StartStandby,
       StartPrimary
  <1>4. ASSUME NEW n \in Node, Environment(n) PROVE owner' \in {owner, NoNode}
    BY <1>4 DEF Environment, ExitRecovery, PgCrash, PatroniCrash, PatroniStart, Shutdown,
       ShutdownStop, ShutdownRelease
  <1>5. ASSUME NEW n \in Foreign, ForeignKey(n) PROVE KeyMoves
    BY <1>5, LeaseAssumption DEF ForeignKey
  <1> QED BY <1>1, <1>2, <1>3, <1>4, <1>5 DEF Next

\* The primary, if there is one, is the holder of the key.
OwnerPrimary ==
  \/ PrimaryNode = NoNode /\ \A n \in Node : ~Active(n)
  \/ PrimaryNode = owner /\ owner \in Node

LEMMA PrimaryIsOwner == ASSUME LeaseInv PROVE OwnerPrimary
  <1>1. \A n \in Node : Active(n) => n = owner
    BY DEF LeaseInv, NodeInv, FencedInv, Fenced
  <1> QED BY <1>1 DEF PrimaryNode, OwnerPrimary

\* The whole cluster, HA loops, background tasks, crashes and time, implements
\* the abstract lock on the right to run a primary.
THEOREM LeaseImplementsLock == ASSUME SafeTiming PROVE Spec => ImplementsLock
  <1>1. Init => Lock!Init
    BY DEF Init, Lock!Init, PrimaryNode, Active
  <1>2. ASSUME LeaseInv, LeaseInv', [Next]_vars PROVE [Lock!Next]_(Lock!vars)
    <2> USE LeaseAssumption DEF Lock!Next, Lock!vars, Lock!Acquire, Lock!Start, Lock!Release,
            Lock!Fence, Lock!Stop
    <2>1. CASE UNCHANGED vars
      BY <2>1 DEF vars, dcsVars, PrimaryNode, Active
    <2>a. OwnerPrimary BY <1>2, PrimaryIsOwner
    <2>b. OwnerPrimary'
      <3>1. \A n \in Node : Active(n)' => n = owner'
        BY <1>2 DEF LeaseInv, NodeInv, FencedInv, Fenced
      <3> QED BY <3>1 DEF PrimaryNode, OwnerPrimary
    <2>2. CASE owner' = owner
      BY <2>2, <2>a, <2>b DEF OwnerPrimary
    <2>3. CASE owner' = NoNode
      BY <2>3, <2>a, <2>b DEF OwnerPrimary
    <2>4. CASE owner = NoNode /\ owner' \in Node /\ pg' = pg
      BY <2>4, <2>a DEF OwnerPrimary, PrimaryNode, Active
    <2> QED BY <1>2, <2>1, <2>2, <2>3, <2>4, KeyStep DEF KeyMoves
  <1> QED BY <1>1, <1>2, LeaseInvariant, PTL DEF Spec, ImplementsLock, Lock!Spec
==============================================================================
