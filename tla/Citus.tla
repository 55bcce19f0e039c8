-------------------------------- MODULE Citus --------------------------------
(***************************************************************************)
(* CitusHandler of the leader of the coordinator (postgresql/mpp/citus.py):*)
(* the table pg_dist_node says where the leaders of the workers are.  It is*)
(* changed by one thread, that is given tasks by the HA loop and, through  *)
(* the REST API, by the workers: a worker that is about to be demoted is   *)
(* paused in a transaction, which ends when its successor is there.        *)
(***************************************************************************)
EXTENDS Naturals, Sequences, SequencesExt, Functions

CONSTANTS
  MaxGroup,    \* the groups of the workers are 1 .. MaxGroup; 0 is the coordinator
  MaxEvents,   \* bound: demotions and crashes of workers
  MaxMishaps, \* bound: what happens to the coordinator, and queries that fail
  RestartsInFlight \* whether Patroni restarts the coordinator in place during a transaction

CitusAssumption ==
  /\ {MaxGroup, MaxEvents, MaxMishaps} \subseteq Nat /\ MaxGroup > 0
  /\ RestartsInFlight \in BOOLEAN

Worker == 1 .. MaxGroup
Group == 0 .. MaxGroup
Host == {"a", "b"}       \* of a worker; the coordinator is "a", its other node "b"
NoHost == "nobody"
NoTable == [g \in {} |-> ""]
NoTask == [group |-> 0, host |-> NoHost, paused |-> FALSE, event |-> "none", timed |-> FALSE, picked |-> FALSE]

VARIABLES
  table,     \* pg_dist_node: the row of each group
  tx,        \* the same as the transaction sees it, NoTable when there is none
  link,      \* the connection of the handler: good, or broken without its knowledge
  cache,     \* _pg_dist_node
  reload,    \* _schedule_load_pg_dist_node
  tasks,     \* _tasks; picked marks the task at work
  flight,    \* _in_flight
  expired,   \* its deadline is over
  thread,    \* where the thread is, the task it works on, where it was in the list, and
             \* what became of it
  notified,  \* _condition.notify() was called while the thread was waiting
  seen,      \* the leaders in the HA loop's view of the cluster that it has not made a task of yet
  coord,     \* the coordinator: leader, demoting, replica
  worker,    \* each worker: its leader, and what that is doing
  posts,     \* requests that are on their way to the coordinator
  fate       \* what may still happen

citusVars == <<table, tx, link, cache, reload, tasks, flight, expired, thread, notified, seen,
               coord, worker, posts, fate>>
workVars == <<seen, coord, worker, posts>>

NoRow == [host |-> NoHost, paused |-> FALSE]
Row(t) == [host |-> t.host, paused |-> t.paused]
Idle == [pc |-> "top", task |-> NoTask, i |-> 0, known |-> FALSE, result |-> "none"]

Init ==
  /\ table = [g \in Group |-> IF g = 0 THEN [NoRow EXCEPT !.host = "b"] ELSE NoRow]
  /\ tx = NoTable
  /\ link = "good"
  /\ cache = [g \in Group |-> NoHost]
  /\ reload = TRUE
  /\ tasks = <<>>
  /\ flight = NoTask
  /\ expired = FALSE
  /\ thread = [Idle EXCEPT !.pc = "not started"]
  /\ notified = FALSE
  /\ seen = NoTable
  /\ coord = "leader"
  /\ worker = [g \in Worker |-> [leader |-> "a", state |-> "running"]]
  /\ posts = {}
  /\ fate = [events |-> MaxEvents, troubles |-> MaxMishaps]

InFlight == flight # NoTask
Trouble == fate.troubles > 0 /\ fate' = [fate EXCEPT !.troubles = @ - 1]
Go(pc) == thread' = [thread EXCEPT !.pc = pc]

-----------------------------------------------------------------------------
(* Adding tasks *)

\* find_task_by_group()
Find(list, g) == SelectInSeq(list, LAMBDA t : t.group = g)

Task(g, event, host, timed) ==
  [group |-> g, host |-> host, paused |-> event = "before_demote", event |-> event,
   timed |-> timed, picked |-> FALSE]

\* __eq__()
SameTask(t, u) == t.event = u.event /\ Row(t) = Row(u)

Cached(t) == t.event = "after_promote" /\ t.host = cache[t.group]

\* A task of the HA loop gives way to one of the API, and to a transaction in time.
GivesWay(list, t) ==
  LET i == Find(list, t.group)
  IN  ~t.timed /\ \/ i # 0 /\ list[i].timed
                  \/ InFlight /\ flight.group = t.group /\ ~expired

\* Faulty: the task that is there for the group is not looked for.
AddedBehind(list, t) ==
  IF ~GivesWay(list, t) /\ (reload \/ ~Cached(t)) THEN Append(list, t) ELSE list

\* _add_task(): what becomes of the list.
Added(list, t) ==
  LET i == Find(list, t.group)
  IN  IF GivesWay(list, t) THEN list
      ELSE IF i # 0 THEN IF SameTask(t, list[i]) THEN list ELSE [list EXCEPT ![i] = t]
      ELSE IF reload \/ ~Cached(t) \/ (InFlight /\ flight.group = t.group) THEN Append(list, t)
      ELSE list

\* notify() is for a thread that waits.
TakeOn(list) ==
  /\ tasks' = list
  /\ notified' = (notified \/ (list # tasks /\ thread.pc \in {"waiting", "waiting until"}))

-----------------------------------------------------------------------------
(* The HA loop *)

\* get_cluster(): the leaders that run as primaries, and the coordinator itself.
GetCluster ==
  /\ coord = "leader" /\ seen = NoTable
  /\ seen' = [g \in {0} \cup {w \in Worker : worker[w].state \in {"running", "stopping"}} |->
               IF g = 0 THEN "a" ELSE worker[g].leader]
  /\ UNCHANGED <<table, tx, link, cache, reload, tasks, flight, expired, thread, notified, coord,
                 worker, posts, fate>>

\* sync_meta_data(): starts the thread, and adds a task for one leader after the other, the
\* coordinator first; others may come in between.
SyncMetaData(g) ==
  /\ coord = "leader" /\ g \in DOMAIN seen /\ (0 \in DOMAIN seen => g = 0)
  /\ TakeOn(Added(tasks, Task(g, "after_promote", seen[g], FALSE)))
  /\ IF thread.pc = "not started" THEN Go("top") ELSE UNCHANGED thread
  /\ seen' = Restrict(seen, DOMAIN seen \ {g})
  /\ UNCHANGED <<table, tx, link, cache, reload, flight, expired, coord, worker, posts, fate>>

\* The HA loop does nothing else meanwhile.
Syncing == seen # NoTable /\ 0 \notin DOMAIN seen

\* demote(): a graceful one calls on_demote() before postgres is stopped.
OnDemote ==
  /\ coord = "leader" /\ ~Syncing /\ Trouble
  /\ coord' = "demoting"
  /\ cache' = [g \in Group |-> NoHost]
  /\ tasks' = <<>>
  /\ flight' = NoTask
  /\ UNCHANGED <<table, tx, link, reload, expired, thread, notified, seen, worker, posts>>

\* postgres is stopped; another node keeps the table meanwhile.
StopCoordinator ==
  /\ \/ coord = "demoting" /\ UNCHANGED fate
     \/ coord = "leader" /\ ~Syncing /\ Trouble
  /\ coord' = "replica"
  /\ tx' = NoTable
  /\ seen' = NoTable
  /\ table' = [g \in Group |->
       IF g # 0 /\ worker[g].state # "running" THEN table[g]
       ELSE [NoRow EXCEPT !.host = IF g = 0 THEN "b" ELSE worker[g].leader]]
  /\ UNCHANGED <<link, cache, reload, tasks, flight, expired, thread, notified, worker, posts>>

\* The thread has waited, or is done with what it was about, when postgres is back.
ThreadWaits == thread.pc \in {"not started", "waiting", "waiting until"}

\* Faulty: the table is not loaded again.
PromoteOnly ==
  /\ coord = "replica" /\ ThreadWaits
  /\ coord' = "leader"
  /\ link' = "good"
  /\ UNCHANGED <<table, tx, cache, reload, tasks, flight, expired, thread, notified, seen, worker, posts, fate>>

\* start() has closed the connections; promote() schedules the load.
PromoteCoordinator ==
  /\ coord = "replica" /\ ThreadWaits
  /\ coord' = "leader"
  /\ link' = "good"
  /\ reload' = TRUE
  /\ UNCHANGED <<table, tx, cache, tasks, flight, expired, thread, notified, seen, worker, posts, fate>>

\* restart(): stop() ends the transaction, start() closes the connection.
RestartCoordinator ==
  /\ coord = "leader" /\ ThreadWaits /\ (RestartsInFlight \/ ~InFlight) /\ Trouble
  /\ tx' = NoTable
  /\ link' = "good"
  /\ UNCHANGED <<table, cache, reload, tasks, flight, expired, thread, notified, seen, coord, worker, posts>>

LoseConnection ==
  /\ coord = "leader" /\ link = "good" /\ Trouble
  /\ tx' = NoTable
  /\ link' = "broken"
  /\ UNCHANGED <<table, cache, reload, tasks, flight, expired, thread, notified, seen, coord, worker, posts>>

-----------------------------------------------------------------------------
(* The workers: notify_mpp_coordinator() *)

Post(g, type, h) == posts' = posts \cup {[group |-> g, type |-> type, leader |-> h]}
Event == fate.events > 0 /\ fate' = [fate EXCEPT !.events = @ - 1]
Becomes(g, h, state) == worker' = [worker EXCEPT ![g] = [leader |-> h, state |-> state]]
handlerVars == <<table, tx, link, cache, reload, tasks, flight, expired, thread, notified, seen, coord>>

\* demote(), restart(), shutdown(): the request may be answered, or not be waited for.
BeforeDemote(g) ==
  /\ worker[g].state = "running" /\ Event
  /\ Becomes(g, worker[g].leader, "stopping")
  /\ Post(g, "before_demote", worker[g].leader)
  /\ UNCHANGED handlerVars

\* The leader stops, or crashes.
LoseLeader(g) ==
  /\ \/ worker[g].state = "stopping" /\ UNCHANGED fate
     \/ worker[g].state \in {"running", "promoting"} /\ Event
  /\ Becomes(g, NoHost, "vacant")
  /\ UNCHANGED <<handlerVars, posts>>

\* promote() and its before_promote().
BeforePromote(g) ==
  /\ worker[g].state = "vacant"
  /\ \E h \in Host : Becomes(g, h, "promoting") /\ Post(g, "before_promote", h)
  /\ UNCHANGED <<handlerVars, fate>>

\* touch_member() of a new primary, or of one that was restarted.
AfterPromote(g) ==
  /\ worker[g].state \in {"promoting", "stopping"}
  /\ Becomes(g, worker[g].leader, "running")
  /\ Post(g, "after_promote", worker[g].leader)
  /\ UNCHANGED <<handlerVars, fate>>

\* handle_event(): events of who is not the leader are ignored.
Heeded(p) == thread.pc # "not started" /\ worker[p.group].leader = p.leader

\* do_POST_mpp().  A request that is lost is one that never arrives.
HandleEvent(p) ==
  /\ p \in posts
  /\ posts' = posts \ {p}
  /\ IF coord \in {"leader", "demoting"} /\ Heeded(p)
     THEN TakeOn(Added(tasks, Task(p.group, p.type, p.leader, TRUE)))
     ELSE UNCHANGED <<tasks, notified>>
  /\ UNCHANGED <<table, tx, link, cache, reload, flight, expired, thread, seen, coord, worker, fate>>

-----------------------------------------------------------------------------
(* The thread *)

Deadline ==
  /\ InFlight /\ ~expired
  /\ expired' = TRUE
  /\ UNCHANGED <<table, tx, link, cache, reload, tasks, flight, thread, notified, workVars, fate>>

\* run(): the deadline is looked at only when there are tasks.
Run ==
  /\ thread.pc = "top"
  /\ Go(IF reload \/ (InFlight /\ expired /\ tasks # <<>>)
        THEN IF InFlight THEN "rollback" ELSE "next"
        ELSE IF tasks = <<>> THEN "waiting" ELSE IF InFlight THEN "waiting until" ELSE "next")
  /\ notified' = FALSE
  /\ UNCHANGED <<table, tx, link, cache, reload, tasks, flight, expired, workVars, fate>>

Wake ==
  /\ \/ thread.pc \in {"waiting", "waiting until"} /\ notified
     \/ thread.pc = "waiting until" /\ expired
  /\ Go("next")
  /\ notified' = FALSE
  /\ UNCHANGED <<table, tx, link, cache, reload, tasks, flight, expired, workVars, fate>>

\* On a replica the table can be read; a task that is at work fails.
CanRead == link = "good"
CanQuery == CanRead /\ coord # "replica"

\* query() fails: the connection is closed, and the handler starts anew.
Fails(pc) ==
  /\ \/ ~CanQuery /\ UNCHANGED fate
     \/ CanQuery /\ Trouble
  /\ tx' = NoTable
  /\ link' = "good"
  /\ flight' = NoTask
  /\ reload' = TRUE
  /\ thread' = [thread EXCEPT !.pc = pc, !.result = "error"]
  /\ UNCHANGED <<cache, tasks, expired, notified, workVars>>

Rollback ==
  /\ thread.pc = "rollback"
  /\ \/ /\ CanQuery
        /\ tx' = NoTable
        /\ flight' = NoTask
        /\ Go("next")
        /\ UNCHANGED <<table, link, cache, reload, tasks, expired, notified, workVars, fate>>
     \/ Fails("top") /\ UNCHANGED table

\* process_tasks(), load_pg_dist_node()
StartLoad ==
  /\ thread.pc = "next"
  /\ IF ~InFlight /\ reload THEN Go("load") /\ reload' = FALSE ELSE Go("pick") /\ UNCHANGED reload
  /\ UNCHANGED <<table, tx, link, cache, tasks, flight, expired, notified, workVars, fate>>

LoadPgDistNode ==
  /\ thread.pc = "load"
  /\ \/ /\ CanRead
        /\ cache' = [g \in Group |-> (IF tx = NoTable THEN table ELSE tx)[g].host]
        /\ Go("pick")
        /\ UNCHANGED <<table, tx, link, reload, tasks, flight, expired, notified, workVars, fate>>
     \/ Fails("top") /\ UNCHANGED table

\* pick_task(): the one of the transaction; or that of the coordinator; or the oldest.  Those
\* that have nothing to change are dropped on the way.
PickTask ==
  LET c == Find(tasks, 0)
      rest == IF c # 0 /\ Cached(tasks[c]) THEN RemoveAt(tasks, c) ELSE tasks
      first == SelectInSeq(rest, LAMBDA t : ~Cached(t))
      list == IF InFlight \/ Find(rest, 0) # 0 THEN rest
              ELSE IF first = 0 THEN <<>> ELSE SubSeq(rest, first, Len(rest))
      i == IF InFlight THEN Find(tasks, flight.group)
           ELSE IF Find(rest, 0) # 0 THEN Find(rest, 0) ELSE IF first = 0 THEN 0 ELSE 1
  IN  /\ thread.pc = "pick"
      /\ LET left == IF InFlight THEN tasks ELSE list
         IN  IF i = 0 THEN thread' = Idle /\ tasks' = left
             ELSE /\ tasks' = [left EXCEPT ![i].picked = TRUE]
                  /\ thread' = [pc |-> "begin", i |-> i, result |-> "none",
                                task |-> [left[i] EXCEPT !.picked = TRUE],
                                known |-> cache[left[i].group] # NoHost]
      /\ UNCHANGED <<table, tx, link, cache, reload, flight, expired, notified, workVars, fate>>

\* The transaction did it already.
DoneInTransaction ==
  /\ thread.task.event = "after_promote"
  /\ InFlight /\ Row(flight) = Row(thread.task)

\* process_task(): a transaction before a demotion or a promotion, unless there is one.
Begin ==
  /\ thread.pc = "begin"
  /\ \/ /\ DoneInTransaction
        /\ Go("commit")
        /\ UNCHANGED <<table, tx, link, reload, flight, fate, cache, tasks, expired, notified, workVars>>
     \/ /\ ~DoneInTransaction /\ (InFlight \/ thread.task.event = "after_promote")
        /\ Go("update")
        /\ UNCHANGED <<table, tx, link, reload, flight, fate, cache, tasks, expired, notified, workVars>>
     \/ /\ ~InFlight /\ thread.task.event # "after_promote"
        /\ \/ /\ CanQuery
              /\ tx' = IF tx = NoTable THEN table ELSE tx
              /\ Go("update")
              /\ UNCHANGED <<table, link, reload, flight, fate, cache, tasks, expired, notified, workVars>>
           \/ Fails("done") /\ UNCHANGED table

\* update_node(): a node that is there already is not added.
UpdateNode ==
  LET t == thread.task
      rows == IF tx = NoTable THEN table ELSE tx
      new == IF thread.known \/ (t.event # "before_demote" /\ rows[t.group] = NoRow)
             THEN [rows EXCEPT ![t.group] = Row(t)] ELSE rows
      nothing == ~thread.known /\ t.event = "before_demote"
      refused == ~thread.known /\ ~nothing /\ rows[t.group] \notin {NoRow, Row(t)}
  IN  /\ thread.pc = "update"
      /\ \/ /\ nothing \/ (CanQuery /\ ~refused)
            /\ IF tx = NoTable THEN table' = new /\ UNCHANGED tx ELSE tx' = new /\ UNCHANGED table
            /\ thread' = [thread EXCEPT
                 !.pc = IF t.event = "after_promote" THEN "commit" ELSE "done",
                 !.result = IF t.event = "after_promote" THEN "changed" ELSE "begun"]
            /\ UNCHANGED <<link, cache, reload, tasks, flight, expired, notified, workVars, fate>>
         \/ /\ ~nothing /\ ~refused /\ Fails("done") /\ UNCHANGED table
         \/ /\ CanQuery /\ refused
            /\ tx' = NoTable /\ flight' = NoTask /\ reload' = TRUE
            /\ thread' = [thread EXCEPT !.pc = "done", !.result = "error"]
            /\ UNCHANGED <<table, link, cache, tasks, expired, notified, workVars, fate>>

\* A COMMIT that fails may have been done.
Commit ==
  /\ thread.pc = "commit"
  /\ \/ /\ CanQuery \/ ~InFlight
        /\ IF InFlight /\ tx # NoTable THEN table' = tx /\ tx' = NoTable ELSE UNCHANGED <<table, tx>>
        /\ thread' = [thread EXCEPT !.pc = "done", !.result = "changed"]
        /\ UNCHANGED <<link, cache, reload, tasks, flight, expired, notified, workVars, fate>>
     \/ /\ InFlight /\ Fails("done")
        /\ UNCHANGED table \/ (CanQuery /\ tx # NoTable /\ table' = tx)

Noted == IF thread.result = "changed" THEN [cache EXCEPT ![thread.task.group] = thread.task.host] ELSE cache

\* The end of process_tasks(): a task that was replaced meanwhile stays in the list.  When the
\* list was cleared by on_demote() nothing is noted; the index may be out of its range.
Finish ==
  /\ thread.pc = "done"
  /\ IF tasks = <<>> THEN thread' = [Idle EXCEPT !.pc = "next"] /\ UNCHANGED <<cache, flight, expired, tasks>>
     ELSE /\ cache' = Noted
          /\ flight' = IF thread.result = "begun" THEN thread.task ELSE NoTask
          /\ expired' = FALSE
          /\ thread' = IF thread.i > Len(tasks) THEN Idle ELSE [Idle EXCEPT !.pc = "next"]
          /\ tasks' = IF thread.i <= Len(tasks) /\ tasks[thread.i].picked THEN RemoveAt(tasks, thread.i) ELSE tasks
  /\ UNCHANGED <<table, tx, link, reload, notified, workVars, fate>>

-----------------------------------------------------------------------------

Next ==
  \/ GetCluster \/ \E g \in Group : SyncMetaData(g)
  \/ OnDemote \/ StopCoordinator \/ PromoteCoordinator \/ RestartCoordinator \/ LoseConnection
  \/ \E g \in Worker : BeforeDemote(g) \/ LoseLeader(g) \/ BeforePromote(g) \/ AfterPromote(g)
  \/ \E p \in posts : HandleEvent(p)
  \/ Deadline \/ Run \/ Wake \/ Rollback \/ StartLoad \/ LoadPgDistNode \/ PickTask
  \/ Begin \/ UpdateNode \/ Commit \/ Finish

Spec == Init /\ [][Next]_citusVars

-----------------------------------------------------------------------------
(* Properties *)

\* Every variable has its type.
TypeOK ==
  /\ table \in [Group -> [host : Host \cup {NoHost}, paused : BOOLEAN]]
  /\ cache \in [Group -> Host \cup {NoHost}]
  /\ reload \in BOOLEAN /\ expired \in BOOLEAN /\ notified \in BOOLEAN
  /\ link \in {"good", "broken"} /\ coord \in {"leader", "demoting", "replica"}
  /\ \A i, j \in 1 .. Len(tasks) : tasks[i].group = tasks[j].group => i = j

\* When the thread is done with its work and waits for more, what it remembers of the table
\* is what is in the table; otherwise sync_meta_data() would find nothing to do
\* about a row that points to the wrong node.
CacheTrue ==
  thread.pc = "waiting" /\ ~InFlight /\ ~reload /\ coord = "leader" /\ link = "good" =>
    \A g \in Group : tx = NoTable /\ cache[g] \in {NoHost, table[g].host}

\* A worker that is paused is never left so by a transaction that ended.
NeverLeftPaused == \A g \in Group : ~table[g].paused
=============================================================================
