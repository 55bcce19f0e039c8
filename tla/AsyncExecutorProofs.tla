------------------------ MODULE AsyncExecutorProofs ------------------------
(***************************************************************************)
(* What the asynchronous executor guarantees, for any number of threads,   *)
(* as long as no client forces a reinitialize.  (With force, OneProcess    *)
(* and CancelWaits are refuted by TLC: see the README.)                    *)
(***************************************************************************)
EXTENDS AsyncExecutor, FiniteSetTheorems, TLAPS

\* Nobody is inside AsyncExecutor.cancel().
NobodyCancels ==
  /\ isCancelled = FALSE
  /\ \A a \in Api : pc[a] \notin CancelPcs \ {"schedule"}

\* A thread is inside run() exactly when the scheduled action is its own.
RunnerIsScheduled == \A t \in Thread : (pc[t] \in RunPcs) <=> (scheduled = t)

\* The cancellable subprocess is that of the thread which waits for it.
ProcessOfWaiter ==
  /\ process # NoThread => pc[process] = "wait"
  /\ \A t \in alive : process = t

\* A critical task that is over cannot run again before finally resets it, and
\* a demoted node has its critical task cancelled or over.
CriticalInv ==
  /\ critical.done => (scheduled # NoThread /\ pc[scheduled] \in {"started", "finally"})
  /\ fenced # NoThread =>
       fenced = scheduled /\ ~postmaster /\ (critical.cancelled \/ critical.done)

ExecInv == TypeOK /\ NobodyCancels /\ RunnerIsScheduled /\ ProcessOfWaiter /\ CriticalInv

-----------------------------------------------------------------------------
\* No task is scheduled at the start.
LEMMA InitExec == Init => ExecInv
  <1> SUFFICES ASSUME Init PROVE ExecInv
    OBVIOUS
  <1> USE ThreadAssumption DEF Init, Thread, RunPcs, CancelPcs
  <1>1. TypeOK BY DEF TypeOK
  <1>2. NobodyCancels BY DEF NobodyCancels
  <1>3. RunnerIsScheduled BY DEF RunnerIsScheduled
  <1>4. ProcessOfWaiter /\ CriticalInv BY DEF ProcessOfWaiter, CriticalInv
  <1> QED BY <1>1, <1>2, <1>3, <1>4 DEF ExecInv

\* Every step of run() and of the function it runs keeps the invariant.
LEMMA RunStepExec ==
  ASSUME ExecInv, NEW t \in Thread, RunStep(t) PROVE ExecInv'
  <1> USE ThreadAssumption DEF Thread, Goto, RunPcs, CancelPcs, ExecInv
  <1> USE DEF execVars, subVars, pgVars, TypeOK, NobodyCancels, RunnerIsScheduled,
              ProcessOfWaiter, CriticalInv
  <1>1. CASE RunEnter(t) BY <1>1 DEF RunEnter
  <1>2. CASE RunReset(t) BY <1>2 DEF RunReset
  <1>3. CASE RunReturn(t) BY <1>3 DEF RunReturn
  <1>4. CASE RunFinally(t) BY <1>4 DEF RunFinally
  <1>5. CASE CallStart(t) BY <1>5 DEF CallStart
  <1>6. CASE ProcessExit(t) BY <1>6 DEF ProcessExit
  <1>7. CASE CallEnd(t) BY <1>7 DEF CallEnd
  <1>8. CASE StartPostmaster(t) BY <1>8 DEF StartPostmaster
  <1>9. CASE StartReturn(t) BY <1>9 DEF StartReturn
  <1> QED BY <1>1, <1>2, <1>3, <1>4, <1>5, <1>6, <1>7, <1>8, <1>9 DEF RunStep

\* So does every step of the HA loop.
LEMMA HaStepExec == ASSUME ExecInv, HaStep PROVE ExecInv'
  <1> USE ThreadAssumption DEF Thread, Goto, RunPcs, CancelPcs, ExecInv
  <1> USE DEF execVars, subVars, pgVars, TypeOK, NobodyCancels, RunnerIsScheduled,
              ProcessOfWaiter, CriticalInv
  <1>1. CASE RunCycleBegin BY <1>1 DEF RunCycleBegin
  <1>2. CASE RunCycleEnd BY <1>2 DEF RunCycleEnd
  <1>3. ASSUME NEW t \in Worker, NEW k \in {"start", "other"}, TryRunAsync(t, k)
        PROVE ExecInv'
    BY <1>3 DEF TryRunAsync, Schedule
  <1>4. CASE DemoteDuringStart BY <1>4 DEF DemoteDuringStart
  <1>5. CASE CancelBeforePromote BY <1>5 DEF CancelBeforePromote
  <1> HIDE DEF ExecInv
  <1> QED BY <1>1, <1>2, <1>3, <1>4, <1>5 DEF HaStep

\* So does every step of a REST API thread that does not force.
LEMMA ApiStepExec ==
  ASSUME ForceAllowed = FALSE, ExecInv, NEW a \in Api, ApiStep(a) PROVE ExecInv'
  <1> USE ThreadAssumption DEF Thread, Goto, RunPcs, CancelPcs, ExecInv
  <1> USE DEF execVars, subVars, pgVars, TypeOK, NobodyCancels, RunnerIsScheduled,
              ProcessOfWaiter, CriticalInv
  <1>1. CASE Restart(a) BY <1>1 DEF Restart, Schedule
  <1>2. ASSUME NEW force \in {FALSE, ForceAllowed}, Reinitialize(a, force) PROVE ExecInv'
    <2>a. force = FALSE BY ForceAllowed = FALSE
    <2>1. pc[a] = "idle" /\ pc' = [pc EXCEPT ![a] = "schedule"]
      BY <1>2, <2>a DEF Reinitialize
    <2>2. TypeOK' BY <1>2, <2>1 DEF Reinitialize
    <2>3. (NobodyCancels /\ RunnerIsScheduled)' BY <1>2, <2>1 DEF Reinitialize
    <2>4. (ProcessOfWaiter /\ CriticalInv)' BY <1>2, <2>1 DEF Reinitialize
    <2> QED BY <2>2, <2>3, <2>4
  <1>3. CASE Cancel(a) BY <1>3 DEF Cancel
  <1>4. CASE CancelSubprocess(a) BY <1>4 DEF CancelSubprocess
  <1>5. CASE KillProcess(a)
    <2>1. pc[a] = "kill" BY <1>5 DEF KillProcess
    <2> QED BY <2>1
  <1>6. CASE WaitFinish(a) BY <1>6 DEF WaitFinish
  <1>7. CASE CancelReset(a) BY <1>7 DEF CancelReset
  <1>8. ASSUME NEW t \in Worker, ScheduleReinitialize(a, t) PROVE ExecInv'
    <2>1. CASE scheduled = NoThread
      <3>1. /\ pc[a] = "schedule" /\ pc[t] = "idle" /\ a # t
            /\ pc' = [pc EXCEPT ![a] = "idle", ![t] = "enter"]
            /\ scheduled' = t /\ UNCHANGED <<lock, subVars, pgVars, victim>>
            /\ isCancelled' = FALSE /\ finishEvent' = TRUE /\ kind' = [kind EXCEPT ![t] = "other"]
        BY <1>8, <2>1 DEF ScheduleReinitialize, Schedule
      <3>a. pc' \in [Thread -> {"idle"} \cup RunPcs \cup CancelPcs]
        BY <3>1
      <3>b. kind' \in [Thread -> {"start", "other"}]
        BY <3>1
      <3>2. TypeOK' BY <3>1, <3>a, <3>b
      <3>3. (NobodyCancels /\ RunnerIsScheduled)' BY <2>1, <3>1
      <3>4. (ProcessOfWaiter /\ CriticalInv)' BY <2>1, <3>1
      <3> QED BY <3>2, <3>3, <3>4
    <2>2. CASE scheduled # NoThread BY <1>8, <2>2 DEF ScheduleReinitialize
    <2> QED BY <2>1, <2>2
  <1> HIDE DEF ExecInv
  <1> QED BY <1>1, <1>2, <1>3, <1>4, <1>5, <1>6, <1>7, <1>8 DEF ApiStep

\* The executor's invariant: types, and every run is that of the scheduled action.
THEOREM ExecutorInvariant == ASSUME ForceAllowed = FALSE PROVE Spec => []ExecInv
  <1>1. ASSUME ExecInv, [Next]_vars PROVE ExecInv'
    <2>1. CASE UNCHANGED vars
      BY <1>1, <2>1 DEF vars, execVars, subVars, pgVars, ExecInv, TypeOK, NobodyCancels,
         RunnerIsScheduled, ProcessOfWaiter, CriticalInv
    <2>2. CASE Next
      BY <1>1, <2>2, RunStepExec, HaStepExec, ApiStepExec, ForceAllowed = FALSE DEF Next
    <2> QED BY <1>1, <2>1, <2>2
  <1> QED BY <1>1, InitExec, PTL DEF Spec

\* At most one scheduled function runs at a time (try_run_async refuses a second).
THEOREM OneBody == ASSUME ForceAllowed = FALSE PROVE Spec => []OneBodyAtATime
  <1>1. ASSUME ExecInv PROVE OneBodyAtATime
    <2>1. Running \subseteq {scheduled}
      BY <1>1 DEF ExecInv, RunnerIsScheduled, Running, RunPcs
    <2>2. IsFiniteSet({scheduled}) /\ Cardinality({scheduled}) = 1
      BY FS_Singleton
    <2>3. IsFiniteSet(Running) /\ Cardinality(Running) <= Cardinality({scheduled})
      BY <2>1, <2>2, FS_Subset
    <2> QED BY <2>2, <2>3 DEF OneBodyAtATime
  <1> QED BY <1>1, ExecutorInvariant, PTL

\* While a function runs, run_cycle finds the executor busy with that function.
THEOREM Busy == ASSUME ForceAllowed = FALSE PROVE Spec => []BusyWhileRunning
  <1>1. ASSUME ExecInv PROVE BusyWhileRunning
    BY <1>1 DEF ExecInv, RunnerIsScheduled, BusyWhileRunning, Running, RunPcs
  <1> QED BY <1>1, ExecutorInvariant, PTL

\* Every running subprocess is the one CancellableSubprocess.cancel() terminates.
THEOREM Cancellable == ASSUME ForceAllowed = FALSE PROVE Spec => []ProcessIsCancellable
  <1>1. ASSUME ExecInv PROVE ProcessIsCancellable
    BY <1>1 DEF ExecInv, ProcessOfWaiter, ProcessIsCancellable
  <1> QED BY <1>1, ExecutorInvariant, PTL

\* After the HA loop demoted the node, the interrupted start does not bring
\* postgres back: the interlock of CriticalTask.
THEOREM Fenced == ASSUME ForceAllowed = FALSE PROVE Spec => []FencedStaysDown
  <1>1. ASSUME ExecInv PROVE FencedStaysDown
    BY <1>1 DEF ExecInv, CriticalInv, FencedStaysDown
  <1> QED BY <1>1, ExecutorInvariant, PTL

-----------------------------------------------------------------------------
\* The state stays within its types, forced reinitialize or not.
THEOREM ExecutorType == Spec => []TypeOK
  <1>1. Init => TypeOK BY InitExec DEF ExecInv
  <1>2. ASSUME TypeOK, [Next]_vars PROVE TypeOK'
    <2> USE <1>2, ThreadAssumption
        DEF Thread, Goto, RunPcs, CancelPcs, execVars, subVars, pgVars, TypeOK
    <2>1. CASE UNCHANGED vars BY <2>1 DEF vars
    <2>2. ASSUME NEW t \in Thread, RunStep(t) PROVE TypeOK'
      <3>1. CASE RunEnter(t) BY <3>1 DEF RunEnter
      <3>2. CASE RunReset(t) BY <3>2 DEF RunReset
      <3>3. CASE RunReturn(t) BY <3>3 DEF RunReturn
      <3>4. CASE RunFinally(t) BY <3>4 DEF RunFinally
      <3>5. CASE CallStart(t) BY <3>5 DEF CallStart
      <3>6. CASE ProcessExit(t) BY <3>6 DEF ProcessExit
      <3>7. CASE CallEnd(t) BY <3>7 DEF CallEnd
      <3>8. CASE StartPostmaster(t) BY <3>8 DEF StartPostmaster
      <3>9. CASE StartReturn(t) BY <3>9 DEF StartReturn
      <3> HIDE DEF TypeOK
      <3> QED BY <2>2, <3>1, <3>2, <3>3, <3>4, <3>5, <3>6, <3>7, <3>8, <3>9 DEF RunStep
    <2>3. CASE HaStep
      <3>1. CASE RunCycleBegin BY <3>1 DEF RunCycleBegin
      <3>2. CASE RunCycleEnd BY <3>2 DEF RunCycleEnd
      <3>3. ASSUME NEW t \in Worker, NEW k \in {"start", "other"}, TryRunAsync(t, k)
            PROVE TypeOK' BY <3>3 DEF TryRunAsync, Schedule
      <3>4. CASE DemoteDuringStart BY <3>4 DEF DemoteDuringStart
      <3>5. CASE CancelBeforePromote BY <3>5 DEF CancelBeforePromote
      <3> HIDE DEF TypeOK
      <3> QED BY <2>3, <3>1, <3>2, <3>3, <3>4, <3>5 DEF HaStep
    <2>4. ASSUME NEW a \in Api, ApiStep(a) PROVE TypeOK'
      <3>1. CASE Restart(a) BY <3>1 DEF Restart, Schedule
      <3>2. ASSUME NEW force \in {FALSE, ForceAllowed}, Reinitialize(a, force)
            PROVE TypeOK' BY <3>2 DEF Reinitialize
      <3>3. CASE Cancel(a) BY <3>3 DEF Cancel
      <3>4. CASE CancelSubprocess(a) BY <3>4 DEF CancelSubprocess
      <3>5. CASE KillProcess(a) BY <3>5 DEF KillProcess
      <3>6. CASE WaitFinish(a) BY <3>6 DEF WaitFinish
      <3>7. CASE CancelReset(a) BY <3>7 DEF CancelReset
      <3>8. ASSUME NEW t \in Worker, ScheduleReinitialize(a, t)
            PROVE TypeOK'
        <4>1. \/ pc' = [pc EXCEPT ![a] = "idle", ![t] = "enter"]
              \/ pc' = [pc EXCEPT ![a] = "idle"]
          BY <3>8 DEF ScheduleReinitialize
        <4>2. pc' \in [Thread -> {"idle"} \cup RunPcs \cup CancelPcs] BY <4>1
        <4>3. scheduled' \in {scheduled, t} /\ kind' \in [Thread -> {"start", "other"}]
          BY <3>8 DEF ScheduleReinitialize, Schedule
        <4>4. isCancelled' \in BOOLEAN /\ finishEvent' \in BOOLEAN
          BY <3>8 DEF ScheduleReinitialize, Schedule
        <4> QED BY <3>8, <4>2, <4>3, <4>4 DEF ScheduleReinitialize
      <3> HIDE DEF TypeOK
      <3> QED BY <2>4, <3>1, <3>2, <3>3, <3>4, <3>5, <3>6, <3>7, <3>8 DEF ApiStep
    <2> HIDE DEF TypeOK
    <2> QED BY <2>1, <2>2, <2>3, <2>4 DEF Next
  <1> QED BY <1>1, <1>2, PTL DEF Spec
=============================================================================
