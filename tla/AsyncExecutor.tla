--------------------------- MODULE AsyncExecutor ---------------------------
(***************************************************************************)
(* The asynchronous executor of a Patroni node (async_executor.py) with    *)
(* the threads that use it: the HA loop, which holds the executor's lock   *)
(* during a whole run_cycle, the REST API threads that restart or          *)
(* reinitialize the node, and one worker thread per run_async.             *)
(*                                                                         *)
(* A step of a thread is what it does between two points where another     *)
(* thread may run: taking the executor's lock, the lock of the cancellable *)
(* subprocess or of the critical task, or waiting for an event.            *)
(***************************************************************************)
EXTENDS Naturals, FiniteSets

CONSTANTS
  Worker,        \* threads that Thread(target=self.run).start() may create
  Api,           \* REST API threads
  HA,            \* the main thread, running the HA loop
  NoThread,      \* None, for the lock, the scheduled action and the process
  ForceAllowed   \* whether clients send {"force": true} with a reinitialize

Thread == Worker \cup Api

ASSUME ThreadAssumption ==
  /\ Worker \cap Api = {}
  /\ HA \notin Thread
  /\ NoThread \notin Thread \cup {HA}
  /\ ForceAllowed \in BOOLEAN

VARIABLES
  lock,           \* owner of _thread_lock
  scheduled,      \* _scheduled_action, named by the thread that will run it
  isCancelled,    \* AsyncExecutor._is_cancelled
  finishEvent,    \* _finish_event
  critical,       \* critical_task: [cancelled |-> is_cancelled, done |-> result # None]
  subCancelled,   \* CancellableSubprocess._is_cancelled
  process,        \* the thread whose subprocess is in CancellableExecutor._process
  alive,          \* threads whose subprocess is running
  kind,           \* "start": the task starts a postmaster under the critical task
  pc,             \* where each thread is
  postmaster,     \* a postmaster started under the critical task is running
  fenced,         \* history: the task during which the HA loop demoted the node
  victim          \* history: the task a cancel() found scheduled, until it ends

execVars == <<lock, scheduled, isCancelled, finishEvent>>
subVars  == <<subCancelled, process, alive>>
pgVars   == <<critical, postmaster, fenced>>
vars     == <<execVars, subVars, pgVars, kind, pc, victim>>

\* Points of AsyncExecutor.run, from its call to the end of its finally clause.
RunPcs == {"enter", "reset", "body", "started", "wait", "finally"}
\* Points of Ha.reinitialize and of the AsyncExecutor.cancel it calls.
CancelPcs == {"cancel", "cancelSub", "kill", "waitFinish", "resetAction", "schedule"}

\* Every variable has its type.
TypeOK ==
  /\ lock \in {HA, NoThread}
  /\ scheduled \in Thread \cup {NoThread}
  /\ isCancelled \in BOOLEAN
  /\ finishEvent \in BOOLEAN
  /\ critical \in [cancelled : BOOLEAN, done : BOOLEAN]
  /\ subCancelled \in BOOLEAN
  /\ process \in Thread \cup {NoThread}
  /\ alive \in SUBSET Thread
  /\ kind \in [Thread -> {"start", "other"}]
  /\ pc \in [Thread -> {"idle"} \cup RunPcs \cup CancelPcs]
  /\ postmaster \in BOOLEAN
  /\ fenced \in Thread \cup {NoThread}
  /\ victim \in [Api -> Thread \cup {NoThread}]

Init ==
  /\ lock = NoThread
  /\ scheduled = NoThread
  /\ isCancelled = FALSE
  /\ finishEvent = FALSE
  /\ critical = [cancelled |-> FALSE, done |-> FALSE]
  /\ subCancelled = FALSE
  /\ process = NoThread
  /\ alive = {}
  /\ kind = [t \in Thread |-> "other"]
  /\ pc = [t \in Thread |-> "idle"]
  /\ postmaster = FALSE
  /\ fenced = NoThread
  /\ victim = [a \in Api |-> NoThread]

-----------------------------------------------------------------------------
(* AsyncExecutor *)

\* Faulty: schedule() that does not look whether an action is scheduled.
ScheduleAnyway(t, k) ==
  /\ scheduled' = t
  /\ isCancelled' = FALSE
  /\ finishEvent' = TRUE
  /\ kind' = [kind EXCEPT ![t] = k]

\* Faulty: schedule() that stores something else than the action.
ScheduleKind(t, k) ==
  /\ scheduled = NoThread
  /\ scheduled' = k
  /\ UNCHANGED <<isCancelled, finishEvent, kind>>

\* schedule(): refused while another action is scheduled.  The action is run
\* by thread t, which is about to enter run().
Schedule(t, k) ==
  /\ scheduled = NoThread
  /\ scheduled' = t
  /\ isCancelled' = FALSE
  /\ finishEvent' = TRUE
  /\ kind' = [kind EXCEPT ![t] = k]

Goto(t, from, to) ==
  /\ pc[t] = from
  /\ pc' = [pc EXCEPT ![t] = to]

\* The entry of run(): a task that was cancelled before it began does nothing.
RunEnter(t) ==
  /\ lock = NoThread
  /\ Goto(t, "enter", IF isCancelled THEN "finally" ELSE "reset")
  /\ finishEvent' = (isCancelled /\ finishEvent)
  /\ UNCHANGED <<lock, scheduled, isCancelled, subVars, pgVars, kind, victim>>

\* self._cancellable.reset_is_cancelled()
RunReset(t) ==
  /\ Goto(t, "reset", "body")
  /\ subCancelled' = FALSE
  /\ UNCHANGED <<execVars, process, alive, pgVars, kind, victim>>

\* The function returns, or raises.
RunReturn(t) ==
  /\ Goto(t, "body", "finally")
  /\ UNCHANGED <<execVars, subVars, pgVars, kind, victim>>

\* Faulty: a finally clause that does not reset the scheduled action.
RunFinallyBusy(t) ==
  /\ lock = NoThread
  /\ Goto(t, "finally", "idle")
  /\ finishEvent' = TRUE
  /\ UNCHANGED <<lock, scheduled, isCancelled, subVars, pgVars, kind, victim>>

\* Faulty: a finally clause that does not set the finish event.
RunFinallySilent(t) ==
  /\ lock = NoThread
  /\ Goto(t, "finally", "idle")
  /\ scheduled' = NoThread
  /\ UNCHANGED <<lock, isCancelled, finishEvent, subVars, pgVars, kind, victim>>

\* The finally clause of run().
RunFinally(t) ==
  /\ lock = NoThread
  /\ Goto(t, "finally", "idle")
  /\ scheduled' = NoThread
  /\ finishEvent' = TRUE
  /\ critical' = [cancelled |-> FALSE, done |-> FALSE]
  /\ fenced' = NoThread
  /\ victim' = [a \in Api |-> IF victim[a] = t THEN NoThread ELSE victim[a]]
  /\ UNCHANGED <<lock, isCancelled, subVars, postmaster, kind>>

-----------------------------------------------------------------------------
(* What the scheduled functions do: subprocesses and the critical task *)

\* CancellableSubprocess.call(): raises when cancelled (the function may catch
\* it and go on), otherwise starts the process and makes it the one that
\* cancel() would terminate.
CallStart(t) ==
  /\ Goto(t, "body", IF subCancelled THEN "body" ELSE "wait")
  /\ process' = IF subCancelled THEN NoThread ELSE t
  /\ alive' = IF subCancelled THEN alive ELSE alive \cup {t}
  /\ UNCHANGED <<execVars, subCancelled, pgVars, kind, victim>>

\* The process ends by itself.
ProcessExit(t) ==
  /\ t \in alive
  /\ alive' = alive \ {t}
  /\ UNCHANGED <<execVars, subCancelled, process, pgVars, kind, pc, victim>>

\* Faulty: call() that does not wait for the process.
CallEndEarly(t) ==
  /\ Goto(t, "wait", "body")
  /\ process' = NoThread
  /\ UNCHANGED <<execVars, subCancelled, alive, pgVars, kind, victim>>

\* wait() returned: the finally clause of call() forgets the process.
CallEnd(t) ==
  /\ t \notin alive
  /\ Goto(t, "wait", "body")
  /\ process' = NoThread
  /\ UNCHANGED <<execVars, subCancelled, alive, pgVars, kind, victim>>

\* Faulty: start() that ignores is_cancelled of the critical task.
StartAlways(t) ==
  /\ kind[t] = "start"
  /\ Goto(t, "body", "started")
  /\ critical' = [critical EXCEPT !.done = TRUE]
  /\ postmaster' = TRUE
  /\ UNCHANGED <<execVars, subVars, fenced, kind, victim>>

\* Postgresql.start() under the critical task.  Its check of
\* cancellable.is_cancelled, made before and without a lock, promises nothing
\* at this point; when it returns early the step is RunReturn.
StartPostmaster(t) ==
  /\ kind[t] = "start"
  /\ Goto(t, "body", IF critical.cancelled THEN "finally" ELSE "started")
  /\ critical' = [critical EXCEPT !.done = ~critical.cancelled]
  /\ postmaster' = (postmaster \/ ~critical.cancelled)
  /\ UNCHANGED <<execVars, subVars, fenced, kind, victim>>

\* wait_for_port_open() and wait_for_startup() are over.
StartReturn(t) ==
  /\ Goto(t, "started", "finally")
  /\ UNCHANGED <<execVars, subVars, pgVars, kind, victim>>

-----------------------------------------------------------------------------
(* The HA loop, which holds the executor's lock between these two steps *)

RunCycleBegin ==
  /\ lock = NoThread
  /\ lock' = HA
  /\ UNCHANGED <<scheduled, isCancelled, finishEvent, subVars, pgVars, kind, pc, victim>>

RunCycleEnd ==
  /\ lock = HA
  /\ lock' = NoThread
  /\ UNCHANGED <<scheduled, isCancelled, finishEvent, subVars, pgVars, kind, pc, victim>>

\* try_run_async() in run_cycle.
TryRunAsync(t, k) ==
  /\ lock = HA
  /\ Schedule(t, k)
  /\ Goto(t, "idle", "enter")
  /\ UNCHANGED <<lock, subVars, pgVars, victim>>

\* handle_long_action_in_progress() without the leader lock, during a restart
\* or a start of the primary: CriticalTask.cancel(), or else the postmaster the
\* task has started is terminated; then demote() stops postgres.
DemoteDuringStart ==
  /\ lock = HA
  /\ scheduled # NoThread
  /\ kind[scheduled] = "start"
  /\ critical' = [critical EXCEPT !.cancelled = @ \/ ~critical.done]
  /\ postmaster' = FALSE
  /\ fenced' = scheduled
  /\ UNCHANGED <<execVars, subVars, kind, pc, victim>>

\* 'lost leader before promote': cancellable.cancel() from the HA loop, which
\* terminates the subprocess of the pre_promote script.
CancelBeforePromote ==
  /\ lock = HA
  /\ scheduled # NoThread
  /\ kind[scheduled] = "other"
  /\ subCancelled' = TRUE
  /\ alive' = alive \ {process}
  /\ UNCHANGED <<execVars, process, pgVars, kind, pc, victim>>

-----------------------------------------------------------------------------
(* REST API threads *)

\* Ha.restart() schedules the action and runs it in the API thread.
Restart(a) ==
  /\ lock = NoThread
  /\ Schedule(a, "start")
  /\ Goto(a, "idle", "enter")
  /\ UNCHANGED <<lock, subVars, pgVars, victim>>

\* Ha.reinitialize() has found a leader other than this node.
Reinitialize(a, force) ==
  /\ lock = NoThread
  /\ Goto(a, "idle", IF force THEN "cancel" ELSE "schedule")
  /\ UNCHANGED <<execVars, subVars, pgVars, kind, victim>>

\* The first half of AsyncExecutor.cancel(), under the lock.
Cancel(a) ==
  /\ lock = NoThread
  /\ Goto(a, "cancel", IF scheduled = NoThread THEN "schedule" ELSE "cancelSub")
  /\ isCancelled' = (isCancelled \/ scheduled # NoThread)
  /\ victim' = [victim EXCEPT ![a] = scheduled]
  /\ UNCHANGED <<lock, scheduled, finishEvent, subVars, pgVars, kind>>

\* CancellableSubprocess.cancel() sets the flag and terminates the process.
CancelSubprocess(a) ==
  /\ Goto(a, "cancelSub", IF process \in alive THEN "kill" ELSE "waitFinish")
  /\ subCancelled' = TRUE
  /\ UNCHANGED <<execVars, process, alive, pgVars, kind, victim>>

\* The process ended within the ten seconds, or _kill_process() kills it.
KillProcess(a) ==
  /\ Goto(a, "kill", "waitFinish")
  /\ alive' = alive \ {process}
  /\ UNCHANGED <<execVars, subCancelled, process, pgVars, kind, victim>>

\* self._finish_event.wait()
WaitFinish(a) ==
  /\ finishEvent
  /\ Goto(a, "waitFinish", "resetAction")
  /\ UNCHANGED <<execVars, subVars, pgVars, kind, victim>>

\* The second half of cancel(): it unschedules whatever is scheduled by now.
CancelReset(a) ==
  /\ lock = NoThread
  /\ Goto(a, "resetAction", "schedule")
  /\ scheduled' = NoThread
  /\ UNCHANGED <<lock, isCancelled, finishEvent, subVars, pgVars, kind, victim>>

\* reinitialize() schedules its action and starts a thread for it, unless
\* another action is in progress.
ScheduleReinitialize(a, t) ==
  /\ lock = NoThread
  /\ pc[a] = "schedule"
  /\ IF scheduled = NoThread
     THEN /\ pc[t] = "idle"
          /\ Schedule(t, "other")
          /\ pc' = [pc EXCEPT ![a] = "idle", ![t] = "enter"]
     ELSE /\ pc' = [pc EXCEPT ![a] = "idle"]
          /\ UNCHANGED <<scheduled, isCancelled, finishEvent, kind>>
  /\ UNCHANGED <<lock, subVars, pgVars, victim>>

-----------------------------------------------------------------------------
RunStep(t) ==
  \/ RunEnter(t) \/ RunReset(t) \/ RunReturn(t) \/ RunFinally(t)
  \/ CallStart(t) \/ ProcessExit(t) \/ CallEnd(t)
  \/ StartPostmaster(t) \/ StartReturn(t)

HaStep ==
  \/ RunCycleBegin \/ RunCycleEnd
  \/ \E t \in Worker, k \in {"start", "other"} : TryRunAsync(t, k)
  \/ DemoteDuringStart \/ CancelBeforePromote

ApiStep(a) ==
  \/ Restart(a)
  \/ \E force \in {FALSE, ForceAllowed} : Reinitialize(a, force)
  \/ Cancel(a) \/ CancelSubprocess(a) \/ KillProcess(a) \/ WaitFinish(a) \/ CancelReset(a)
  \/ \E t \in Worker : ScheduleReinitialize(a, t)

Next ==
  \/ HaStep
  \/ \E t \in Thread : RunStep(t)
  \/ \E a \in Api : ApiStep(a)

Spec == Init /\ [][Next]_vars

\* Every thread that can run does, run_cycle ends, a subprocess ends, and a
\* task makes finitely many calls.  A thread waiting for the lock gets it in
\* spite of the HA loop, which sleeps between two cycles: strong fairness.
Fairness ==
  /\ WF_vars(RunCycleEnd)
  /\ \A t \in Thread :
       /\ SF_vars(RunEnter(t)) /\ WF_vars(RunReset(t)) /\ SF_vars(RunReturn(t))
       /\ SF_vars(RunFinally(t)) /\ WF_vars(ProcessExit(t)) /\ WF_vars(CallEnd(t))
       /\ WF_vars(StartReturn(t))
  /\ \A a \in Api :
       /\ SF_vars(Cancel(a)) /\ WF_vars(CancelSubprocess(a)) /\ WF_vars(KillProcess(a))
       /\ SF_vars(WaitFinish(a)) /\ SF_vars(CancelReset(a))
       /\ SF_vars(\E t \in Worker : ScheduleReinitialize(a, t))

FairSpec == Spec /\ Fairness

-----------------------------------------------------------------------------
(* Properties *)

\* The body of a task runs between reset and finally.
Running == {t \in Thread : pc[t] \in RunPcs \ {"enter", "finally"}}

\* No two scheduled functions run at the same time: everything that stops,
\* starts, promotes or rebuilds postgres relies on it (try_run_async).
OneBodyAtATime == Cardinality(Running) <= 1

\* While a function runs the executor is busy with that very function, so that
\* run_cycle never takes the node for idle and starts something else.
BusyWhileRunning == \A t \in Running : scheduled = t

\* "There must be only one such process so that AsyncExecutor can easily
\* cancel it": cancellable.py.
OneProcess == Cardinality(alive) <= 1

\* A process that runs is the one that cancel() would terminate: none is lost.
ProcessIsCancellable == \A t \in alive : process = t

\* Once the HA loop has demoted the node during a start, the task it
\* interrupted does not bring a postmaster back (CriticalTask).
FencedStaysDown == (fenced # NoThread /\ fenced = scheduled) => ~postmaster

\* cancel(): "Wait until task is cancelled before returning control to caller".
\* When it returns, the run of the task it cancelled has ended.
CancelWaits == \A a \in Api : pc[a] = "schedule" => victim[a] = NoThread

\* Every scheduled action is unscheduled in the end: the HA loop is not left
\* with 'in progress' for ever.
EventuallyUnscheduled == \A t \in Thread : (scheduled = t) ~> (scheduled # t)

\* A forced reinitialize does not hang in cancel(), waiting for an event that
\* no thread sets any more.
CancelReturns == \A a \in Api : (pc[a] \in CancelPcs) ~> (pc[a] \notin CancelPcs)
=============================================================================
