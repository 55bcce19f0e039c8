------------------------------- MODULE Commands -------------------------------
(***************************************************************************)
(* patronictl (ctl.py) and the REST API (api.py) beside the HA loops: each *)
(* operator gives one command, which loads the cluster, asks one or more   *)
(* members, may lose their answers, goes on without them, and tells the    *)
(* operator how it ended.  The DCS is there all the time.                  *)
(***************************************************************************)
EXTENDS Naturals, FiniteSets

CONSTANTS
  Node, NoNode,
  Operator, NoOperator,
  Scripts,       \* the commands that are given at the same time: sets of kinds, see Kind
  MaxFailures    \* how many times nodes crash, or answers are lost

Kind == {"switchover", "schedule", "failover", "flush", "pause", "resume", "restart", "unrestart",
         "reinit"}

CommandsAssumption ==
  /\ NoNode \notin Node /\ NoOperator \notin Operator /\ Scripts \subseteq SUBSET Kind /\ MaxFailures \in Nat

VARIABLES
  dcs,    \* leader, failover, paused and member: the keys
  node,   \* each node: whether it is up, its HA loop (pc, view), the background task, scheduled_restart
  op,     \* each operator: his command and what he was told, see NewOp
  due,    \* the operators whose scheduled switchover is due
  faults

vars == <<dcs, node, op, due, faults>>

NoFailover == [by |-> NoOperator, leader |-> NoNode, candidate |-> NoNode, timed |-> FALSE, ver |-> 0]

\* by: who asked for it.  ver: the version of the key.
Request == [by : Operator \cup {NoOperator}, leader : Node \cup {NoNode}, candidate : Node \cup {NoNode},
            timed : BOOLEAN, ver : Nat]

NoView == [leader |-> NoNode, failover |-> NoFailover, paused |-> FALSE]

\* seen: the cluster as ctl loaded it; api: as the handler of m loaded it; todo: the members it may
\* still ask; fresh: those that updated their key since seen; steady: nobody else paused or resumed
\* the cluster since; forced: reinit --force; removed: the request that a flush removed.
NewOp(kind) ==
  [kind |-> kind, pc |-> "begin", want |-> NoFailover, seen |-> NoView, api |-> NoView, m |-> NoNode,
   todo |-> {}, fresh |-> {}, steady |-> TRUE, forced |-> FALSE, removed |-> NoFailover, told |-> "nothing"]

Init ==
  /\ \E l \in Node, p \in BOOLEAN :
       dcs = [leader |-> l, failover |-> NoFailover, paused |-> p, ver |-> 0,
              member |-> [n \in Node |-> [pause |-> p, sched |-> FALSE]]]
  /\ \E down \in SUBSET (Node \ {dcs.leader}) :
       node = [n \in Node |-> [up |-> n \notin down, pc |-> "idle", view |-> NoView, task |-> "none",
                               by |-> NoOperator, sched |-> FALSE]]
  /\ \E s \in Scripts : op \in {f \in [Operator -> {NewOp(k) : k \in s}] : {f[o].kind : o \in Operator} = s}
  /\ due = {} /\ faults = 0

Cluster == [leader |-> dcs.leader, failover |-> dcs.failover, paused |-> dcs.paused]

\* manual_failover(): the key is written, conditionally if a version is given.
Written(request) == [dcs EXCEPT !.failover = [request EXCEPT !.ver = dcs.ver + 1], !.ver = @ + 1]
Removed(version) ==
  IF dcs.failover.ver = version THEN [dcs EXCEPT !.failover = NoFailover] ELSE dcs

-----------------------------------------------------------------------------
(* The nodes *)

\* A request does not concern a standby while there is a leader.
Load(n) ==
  /\ node[n].up /\ node[n].pc = "idle"
  /\ node' = [node EXCEPT ![n].pc = "loaded",
                 ![n].view = IF dcs.leader \in {n, NoNode} THEN Cluster
                             ELSE [Cluster EXCEPT !.failover = NoFailover]]
  /\ UNCHANGED <<dcs, op, due, faults>>

\* touch_member() at the end of the cycle; keys: the rest of the DCS after the cycle.
TouchMember(n, keys) ==
  /\ dcs' = [keys EXCEPT !.member[n] = [pause |-> node[n].view.paused, sched |-> node[n].sched]]
  /\ op' = [o \in Operator |->
              IF op[o].pc \in {"patch", "wait"} THEN [op[o] EXCEPT !.fresh = @ \cup {n}] ELSE op[o]]
  /\ UNCHANGED <<due, faults>>

Idle(n) == [node[n] EXCEPT !.pc = "idle", !.view = NoView]

\* A standby that may be promoted.
Fit(m) == node[m].up /\ node[m].task = "none"

\* process_manual_failover_from_leader()
Handover(n) ==
  LET view == node[n].view
      f == view.failover
      mine == f.leader \in {NoNode, n} /\ f.candidate # n
      possible == \E m \in Node \ {n} : Fit(m) /\ f.candidate \in {NoNode, m}
  IN /\ node[n].pc = "loaded" /\ view.leader = n /\ dcs.leader = n /\ node[n].task = "none"
     /\ f # NoFailover /\ (f.timed => f.by \in due /\ ~view.paused)
     /\ IF mine /\ possible /\ (f.candidate = NoNode => ~view.paused)
        THEN /\ node' = [node EXCEPT ![n] = [Idle(n) EXCEPT !.task = "demote", !.by = f.by]]
             /\ TouchMember(n, dcs)
        ELSE node' = [node EXCEPT ![n] = Idle(n)] /\ TouchMember(n, Removed(f.ver))

\* demote() stops postgres in the background and releases the key.
Demote(n) ==
  /\ node[n].up /\ node[n].task = "demote"
  /\ dcs' = [dcs EXCEPT !.leader = IF @ = n THEN NoNode ELSE @]
  /\ node' = [node EXCEPT ![n].task = "none", ![n].by = NoOperator]
  /\ UNCHANGED <<op, due, faults>>

\* The race for a key that nobody has.  In a paused cluster only the candidate of a request takes part.
Race(n) ==
  LET view == node[n].view
      f == view.failover
  IN /\ node[n].pc = "loaded" /\ view.leader = NoNode /\ node[n].task = "none"
     /\ f.candidate # n => /\ ~view.paused
                           /\ f.candidate # NoNode => ~Fit(f.candidate)
                           /\ f.leader = n => \A m \in Node \ {n} : ~Fit(m)
     /\ dcs.leader = NoNode
     /\ IF f = NoFailover
        THEN node' = [node EXCEPT ![n] = Idle(n)] /\ TouchMember(n, [dcs EXCEPT !.leader = n])
        ELSE /\ node' = [node EXCEPT ![n].pc = "clean"] /\ dcs' = [dcs EXCEPT !.leader = n]
             /\ UNCHANGED <<op, due, faults>>

\* The winner removes the request, whatever it is now; in a paused cluster it keeps what it needs.
Clean(n) ==
  LET f == node[n].view.failover
  IN /\ node[n].pc = "clean" /\ node' = [node EXCEPT ![n] = Idle(n)]
     /\ TouchMember(n, IF node[n].view.paused /\ f.leader # NoNode /\ f.candidate # NoNode
                       THEN IF dcs.failover.ver = f.ver THEN Written([f EXCEPT !.leader = NoNode]) ELSE dcs
                       ELSE [dcs EXCEPT !.failover = NoFailover])

\* Whatever else a cycle does.
Nothing(n) ==
  /\ node[n].pc = "loaded"
  /\ node[n].task # "none" \/ node[n].view.leader # NoNode \/ node[n].view.failover.candidate # n
     \/ dcs.leader # NoNode
  /\ node' = [node EXCEPT ![n] = Idle(n)] /\ TouchMember(n, dcs)

\* _do_reinitialize(): postgres is stopped, then the replica created.
Reinitialize(n) ==
  /\ node[n].up
  /\ \/ node[n].task = "stop" /\ node' = [node EXCEPT ![n].task = "create"]
     \/ node[n].task = "create" /\ node' = [node EXCEPT ![n].task = "none"]
  /\ UNCHANGED <<dcs, op, due, faults>>

\* evaluate_scheduled_restart()
RestartRuns(n) ==
  /\ node[n].up /\ node[n].sched /\ node' = [node EXCEPT ![n].sched = FALSE]
  /\ UNCHANGED <<dcs, op, due, faults>>

\* The time of a scheduled switchover has come, within loop_wait.
TimePasses ==
  /\ dcs.failover.timed /\ dcs.failover.by \notin due /\ due' = due \cup {dcs.failover.by}
  /\ UNCHANGED <<dcs, node, op, faults>>

Fault == faults < MaxFailures /\ faults' = faults + 1

\* The machine crashes: its leader key expires.
Crash(n) ==
  /\ node[n].up /\ Fault
  /\ node' = [node EXCEPT ![n] = [up |-> FALSE, pc |-> "idle", view |-> NoView, task |-> "none",
                                  by |-> NoOperator, sched |-> FALSE]]
  /\ UNCHANGED <<dcs, op, due>>

Expire ==
  /\ dcs.leader # NoNode /\ ~node[dcs.leader].up /\ dcs' = [dcs EXCEPT !.leader = NoNode]
  /\ UNCHANGED <<node, op, due, faults>>

Return(n) ==
  /\ ~node[n].up /\ dcs.leader # n /\ node' = [node EXCEPT ![n].up = TRUE]
  /\ UNCHANGED <<dcs, op, due, faults>>

-----------------------------------------------------------------------------
(* The operators *)

\* The command ends; what it had loaded is forgotten.
Tells(o, what) ==
  op' = [op EXCEPT ![o] = [NewOp(@.kind) EXCEPT !.pc = "done", !.told = what,
                             !.m = IF what = "completed" THEN op[o].m ELSE NoNode,
                             !.fresh = op[o].fresh, !.steady = op[o].steady]]

\* What the cluster is to be.
Goal(o) == op[o].kind = "pause"

\* The members, the leader first.
Preferred(todo, leader) == IF leader \in todo THEN {leader} ELSE todo

\* get_cluster(), and what each command makes of it: _do_failover_or_switchover().
BeginSwitchover(o) ==
  LET timed == op[o].kind = "schedule"
      leader == IF op[o].kind = "failover" THEN NoNode ELSE dcs.leader
  IN /\ op[o].kind \in {"switchover", "schedule", "failover"} /\ op[o].pc = "begin"
     /\ IF op[o].kind # "failover" /\ (dcs.leader = NoNode \/ (timed /\ dcs.paused)) THEN Tells(o, "error")
        ELSE \E c \in (Node \cup {NoNode}) \ {dcs.leader} :
               /\ op[o].kind = "failover" => c # NoNode
               /\ op' = [op EXCEPT ![o].pc = "post",
                           ![o].m = IF dcs.leader # NoNode THEN dcs.leader ELSE c,
                           ![o].want = [by |-> o, leader |-> leader, candidate |-> c, timed |-> timed, ver |-> 0]]
     /\ UNCHANGED <<dcs, node, due, faults>>

\* flush(), with target switchover
BeginFlush(o) ==
  /\ op[o].kind = "flush" /\ op[o].pc = "begin"
  /\ IF ~dcs.failover.timed THEN Tells(o, "no pending switchover")
     ELSE op' = [op EXCEPT ![o].pc = "delete", ![o].seen = Cluster, ![o].todo = Node]
  /\ UNCHANGED <<dcs, node, due, faults>>

\* toggle_pause()
BeginToggle(o) ==
  /\ op[o].kind \in {"pause", "resume"} /\ op[o].pc = "begin"
  /\ IF dcs.paused = Goal(o) THEN Tells(o, "error")
     ELSE op' = [op EXCEPT ![o].pc = "patch", ![o].seen = Cluster, ![o].todo = Node]
  /\ UNCHANGED <<dcs, node, due, faults>>

\* restart() with --scheduled and --force, flush() with target restart: of one member each.
BeginRestart(o) ==
  /\ op[o].kind \in {"restart", "unrestart"} /\ op[o].pc = "begin"
  /\ IF op[o].kind = "restart" /\ dcs.paused THEN Tells(o, "error")
     ELSE \E m \in Node :
       IF dcs.member[m].sched THEN op' = [op EXCEPT ![o].pc = "drop", ![o].m = m]
       ELSE IF op[o].kind = "restart" THEN op' = [op EXCEPT ![o].pc = "plan", ![o].m = m]
       ELSE Tells(o, "no scheduled restart")
  /\ UNCHANGED <<dcs, node, due, faults>>

\* reinit() of one replica
BeginReinit(o) ==
  /\ op[o].kind = "reinit" /\ op[o].pc = "begin"
  /\ \E m \in Node \ {dcs.leader}, f \in BOOLEAN : op' = [op EXCEPT ![o].pc = "clone", ![o].m = m, ![o].forced = f]
  /\ UNCHANGED <<dcs, node, due, faults>>

\* do_POST_failover(): the checks.
Acceptable(o, cluster) ==
  LET w == op[o].want
      targets == {m \in Node \ {cluster.leader} : w.candidate \in {NoNode, m}}
  IN IF w.timed THEN ~cluster.paused
     ELSE /\ w.leader # NoNode => cluster.leader = w.leader
          /\ w.candidate # cluster.leader \/ w.leader = NoNode
          /\ w.candidate = NoNode => ~cluster.paused
          /\ \E m \in targets \cup ({w.candidate} \ {NoNode}) : Fit(m)

PostSwitchover(o) ==
  /\ op[o].pc = "post" /\ node[op[o].m].up
  /\ IF Acceptable(o, Cluster) THEN op' = [op EXCEPT ![o].pc = "write", ![o].api = Cluster]
     ELSE Tells(o, "rejected")
  /\ UNCHANGED <<dcs, node, due, faults>>

WriteFailover(o) ==
  /\ op[o].pc = "write" /\ node[op[o].m].up /\ dcs' = Written(op[o].want)
  /\ IF op[o].want.timed THEN Tells(o, "scheduled") ELSE op' = [op EXCEPT ![o].pc = "poll"]
  /\ UNCHANGED <<node, due, faults>>

\* A mutant of PollFailover: a request that is not there any more has failed.
PollGone(o) ==
  /\ op[o].pc = "poll" /\ node[op[o].m].up
  /\ \/ dcs.leader \notin {NoNode, op[o].api.leader} /\ Tells(o, "moved")
     \/ dcs.leader \in {NoNode, op[o].api.leader} /\ dcs.failover.by # o /\ Tells(o, "failed")
     \/ Tells(o, "unknown")
  /\ UNCHANGED <<dcs, node, due, faults>>

\* poll_failover_result()
PollFailover(o) ==
  /\ op[o].pc = "poll" /\ node[op[o].m].up
  /\ \/ dcs.leader \notin {NoNode, op[o].api.leader} /\ Tells(o, "moved")
     \/ dcs.leader \in {NoNode, op[o].api.leader} /\ dcs.failover = NoFailover /\ Tells(o, "failed")
     \/ Tells(o, "unknown")
  /\ UNCHANGED <<dcs, node, due, faults>>

\* The member is down, or its answer is lost: the key is written again by ctl itself.
FallBack(o) ==
  /\ op[o].pc \in {"post", "write", "poll"}
  /\ IF node[op[o].m].up THEN op[o].pc = "poll" /\ Fault ELSE UNCHANGED faults
  /\ dcs' = Written(op[o].want) /\ Tells(o, "fell back") /\ UNCHANGED <<node, due>>

\* do_DELETE_switchover(): the key is loaded, then removed unless it has changed; a member that fails
\* or finds it changed is followed by another, and the last one by ctl itself.
Dropped(o, m) == op' = [op EXCEPT ![o].pc = "delete", ![o].todo = @ \ {m}, ![o].m = NoNode]

DeleteSwitchover(o) ==
  /\ op[o].pc = "delete"
  /\ \E m \in Preferred(op[o].todo, op[o].seen.leader) :
       IF ~node[m].up THEN Dropped(o, m)
       ELSE IF ~dcs.failover.timed THEN Tells(o, "no switchover is scheduled")
       ELSE op' = [op EXCEPT ![o].pc = "remove", ![o].m = m, ![o].api = Cluster]
  /\ UNCHANGED <<dcs, node, due, faults>>

Flushed(o) == op' = [op EXCEPT ![o] = [NewOp("flush") EXCEPT !.pc = "done", !.told = "flushed",
                                                            !.removed = dcs.failover]]

\* A mutant of RemoveSwitchover: whatever the key is now.
RemoveAnything(o) ==
  /\ op[o].pc = "remove"
  /\ IF ~node[op[o].m].up THEN UNCHANGED dcs /\ Dropped(o, op[o].m)
     ELSE /\ dcs' = [dcs EXCEPT !.failover = NoFailover]
          /\ Flushed(o)
  /\ UNCHANGED <<node, due, faults>>

RemoveSwitchover(o) ==
  LET f == op[o].api.failover
  IN /\ op[o].pc = "remove"
     /\ IF ~node[op[o].m].up THEN UNCHANGED dcs /\ Dropped(o, op[o].m)
        ELSE /\ dcs' = Removed(f.ver)
             /\ IF dcs.failover.ver = f.ver
                THEN Flushed(o)
                ELSE Dropped(o, op[o].m)
     /\ UNCHANGED <<node, due, faults>>

FlushFallBack(o) ==
  /\ op[o].pc = "delete" /\ op[o].todo = {}
  /\ dcs' = Removed(op[o].seen.failover.ver) /\ Tells(o, "fell back") /\ UNCHANGED <<node, due, faults>>

\* do_PATCH_config() of a member; one that fails is followed by another.
PatchConfig(o) ==
  /\ op[o].pc = "patch"
  /\ IF op[o].todo = {} THEN Tells(o, "error") /\ UNCHANGED <<dcs, faults>>
     ELSE \E m \in Preferred(op[o].todo, op[o].seen.leader), lost \in BOOLEAN :
       /\ IF lost /\ node[m].up THEN Fault ELSE UNCHANGED faults
       /\ dcs' = IF node[m].up THEN [dcs EXCEPT !.paused = Goal(o)] ELSE dcs
       /\ op' = [p \in Operator |->
                   IF p # o THEN [op[p] EXCEPT !.steady = @ /\ dcs'.paused = dcs.paused]
                   ELSE IF lost \/ ~node[m].up THEN [op[p] EXCEPT !.todo = @ \ {m}]
                   ELSE [op[p] EXCEPT !.pc = "wait", !.todo = {}]]
  /\ UNCHANGED <<node, due>>

\* A mutant of WaitUntilApplied: when the time is over it is taken for done.
WaitAnyhow(o) ==
  /\ op[o].pc = "wait" /\ Tells(o, "applied") /\ UNCHANGED <<dcs, node, due, faults>>

\* wait_until_pause_is_applied(): when the time is over, members that have not updated their keys
\* since the command began are not waited for.
WaitUntilApplied(o) ==
  LET behind == {m \in Node : dcs.member[m].pause # Goal(o)}
  IN /\ op[o].pc = "wait"
     /\ \/ behind = {} /\ Tells(o, "applied")
        \/ behind # {} /\ Tells(o, IF behind \cap op[o].fresh = {} THEN "applied" ELSE "not recognized")
     /\ UNCHANGED <<dcs, node, due, faults>>

\* do_DELETE_restart(), do_POST_restart(): what is planned is in the memory of the member.
DropRestart(o) ==
  /\ op[o].pc = "drop"
  /\ IF ~node[op[o].m].up THEN Tells(o, "error") /\ UNCHANGED node
     ELSE /\ node' = [node EXCEPT ![op[o].m].sched = FALSE]
          /\ IF op[o].kind = "restart" THEN op' = [op EXCEPT ![o].pc = "plan"]
             ELSE Tells(o, IF node[op[o].m].sched THEN "flushed" ELSE "no scheduled restart")
  /\ UNCHANGED <<dcs, due, faults>>

PlanRestart(o) ==
  /\ op[o].pc = "plan"
  /\ IF ~node[op[o].m].up THEN Tells(o, "error") /\ UNCHANGED node
     ELSE /\ node' = [node EXCEPT ![op[o].m].sched = TRUE]
          /\ Tells(o, IF node[op[o].m].sched THEN "another restart is scheduled" ELSE "scheduled")
  /\ UNCHANGED <<dcs, due, faults>>

\* do_POST_reinitialize(), Ha.reinitialize(): whoever insists cancels what runs.
PostReinitialize(o) ==
  LET m == op[o].m
      busy == node[m].task # "none" /\ ~op[o].forced
  IN /\ op[o].pc = "clone"
     /\ IF ~node[m].up \/ dcs.leader \in {NoNode, m} THEN Tells(o, "error") /\ UNCHANGED node
        ELSE IF busy
        THEN /\ UNCHANGED node
             /\ \/ op' = [op EXCEPT ![o].forced = TRUE]
                \/ Tells(o, "already in progress")
        ELSE /\ node' = [node EXCEPT ![m].task = "stop", ![m].by = NoOperator]
             /\ op' = [op EXCEPT ![o].pc = "cloning"]
     /\ UNCHANGED <<dcs, due, faults>>

\* Whoever waits asks for the state until it is not 'creating replica'.
WaitReinitialize(o) ==
  /\ op[o].pc = "cloning"
  /\ \/ node[op[o].m].up /\ node[op[o].m].task # "create" /\ Tells(o, "completed")
     \/ ~node[op[o].m].up /\ Tells(o, "error")
  /\ UNCHANGED <<dcs, node, due, faults>>

Next ==
  \/ \E n \in Node : \/ Load(n) \/ Handover(n) \/ Demote(n) \/ Race(n) \/ Clean(n) \/ Nothing(n)
                     \/ Reinitialize(n) \/ RestartRuns(n) \/ Crash(n) \/ Return(n)
  \/ TimePasses \/ Expire
  \/ \E o \in Operator :
       \/ BeginSwitchover(o) \/ BeginFlush(o) \/ BeginToggle(o) \/ BeginRestart(o) \/ BeginReinit(o)
       \/ PostSwitchover(o) \/ WriteFailover(o) \/ PollFailover(o) \/ FallBack(o)
       \/ DeleteSwitchover(o) \/ RemoveSwitchover(o) \/ FlushFallBack(o)
       \/ PatchConfig(o) \/ WaitUntilApplied(o) \/ DropRestart(o) \/ PlanRestart(o)
       \/ PostReinitialize(o) \/ WaitReinitialize(o)

Spec == Init /\ [][Next]_vars

-----------------------------------------------------------------------------

\* Every variable has its type.
TypeOK ==
  /\ dcs.leader \in Node \cup {NoNode} /\ dcs.failover \in Request /\ dcs.paused \in BOOLEAN
  /\ dcs.member \in [Node -> [pause : BOOLEAN, sched : BOOLEAN]]
  /\ \A n \in Node : /\ node[n].pc \in {"idle", "loaded", "clean"}
                     /\ node[n].task \in {"none", "demote", "stop", "create"}
                     /\ {node[n].up, node[n].sched} \subseteq BOOLEAN
  /\ \A o \in Operator : op[o].want \in Request /\ op[o].todo \subseteq Node /\ op[o].fresh \subseteq Node
  /\ due \subseteq Operator /\ faults \in 0 .. MaxFailures

\* "Success: cluster management is paused": a member that has been heard of since the command began
\* does not act on an older configuration, unless it is changed again.
PauseTold(o) ==
  op[o].told = "applied" /\ op[o].steady =>
    \A n \in op[o].fresh : node[n].pc = "loaded" => node[n].view.paused = Goal(o)

\* "scheduled switchover deleted": it was one, and not a request that somebody made meanwhile.
FlushTold(o) == op[o].told = "flushed" /\ op[o].kind = "flush" => op[o].removed.timed

\* The leader has loaded the request of o.
HandsOver(n, o) ==
  /\ node[n].pc = "loaded" /\ node[n].view.failover.by = o
  /\ dcs.leader = n /\ node[n].view.leader = n

\* "Switchover failed": the request is not waiting, and no leader is carrying it out.
FailedTold(o) ==
  op[o].told = "failed" =>
    /\ dcs.failover.by # o
    /\ \A n \in Node : node[n].by # o /\ ~HandsOver(n, o)

\* What the operators are told is so, whatever others do at the same time.
AnswersTrue == \A o \in Operator : PauseTold(o) /\ FlushTold(o) /\ FailedTold(o)

\* docs/patronictl.rst:1162: Wait until the reinitialization of the Postgres standby node(s) is finished.
CompletedIsOver == \A o \in Operator : op[o].told = "completed" => node[op[o].m].task # "stop"
===============================================================================
