------------------------------- MODULE Requests -------------------------------
(***************************************************************************)
(* How long a leader may go on without the DCS: the settings that bound    *)
(* its cycle (config.py), the cycle itself (__main__.py), and the client   *)
(* of etcd that divides retry_timeout among the machines it knows          *)
(* (dcs/etcd.py, utils.py).  Machines fail one after the other and do not  *)
(* come back.  A step that takes time moves the clocks by as much as the   *)
(* code waits; a machine that is up answers at once.                       *)
(***************************************************************************)
EXTENDS Integers, FiniteSets

CONSTANTS
  Server,        \* the members of the etcd cluster
  Host,          \* those the configuration names
  Kinds,         \* how a machine fails: it "refuses" connections, is "silent", or accepts one and "hangs"
  Configured,    \* <<loop_wait, retry_timeout, ttl>> as the operator may configure them, in seconds
  Second           \* units of time in a second

RequestsAssumption ==
  /\ IsFiniteSet(Server) /\ Host \subseteq Server /\ Host # {}
  /\ Kinds \subseteq {"refuses", "silent", "hangs"}
  /\ Configured \subseteq Nat \X Nat \X Nat /\ Second \in Nat \ {0}

VARIABLES
  cfg,      \* loop_wait, retry_timeout and ttl in force
  cond,     \* of each machine: "up" or how it failed
  elected,  \* etcd has a leader of its own
  client,   \* base: _base_uri, cache: _machines_cache, stale: _update_machines_cache
  call,     \* the request under way, see Idle
  age,      \* time since etcd last wrote the leader key
  cycle     \* time since next_run: the cycle began

vars == <<cfg, cond, elected, client, call, age, cycle>>

MaxOf(a, b) == IF a >= b THEN a ELSE b
MinOf(a, b) == IF a <= b THEN a ELSE b

\* A mutant of Adjusted: the values as they are.
Unadjusted(l, r, t) == [loop |-> l, retry |-> r, ttl |-> t]

\* loop_wait + 2 * retry_timeout <= ttl, at the cost of loop_wait first.
Adjusted(l, r, t) ==
  LET loop == MaxOf(l, 1)  retry == MaxOf(r, 3)  ttl == MaxOf(t, 20)
  IN IF 1 + 2 * retry > ttl THEN [loop |-> 1, retry |-> (ttl - 1) \div 2, ttl |-> ttl]
     ELSE [loop |-> MinOf(loop, ttl - 2 * retry), retry |-> retry, ttl |-> ttl]

\* (nodes, time for one attempt, attempts per node) to spend timeout on so many nodes; nodes is 0 if
\* there is less than a second.
Timeouts(nodes, timeout) ==
  LET fit == {n \in 1 .. nodes : timeout \div n >= Second}
      n == CHOOSE m \in fit : \A k \in fit : k <= m
      most == IF n < nodes THEN 1 ELSE 4 - MinOf(nodes, 3)
      tries == CHOOSE k \in 1 .. most : /\ k = 1 \/ (timeout \div n) \div k >= Second
                                        /\ k < most => (timeout \div n) \div (k + 1) < Second
  IN IF timeout <= 0 \/ fit = {} THEN [nodes |-> 0, each |-> 0, tries |-> 0]
     ELSE [nodes |-> n, each |-> (timeout \div n) \div tries, tries |-> tries]

\* A mutant of Cost: a connection may take as long as the answer.
CostFull(kind, budget) == IF kind = "refuses" THEN 0 ELSE budget.tries * budget.each

\* How long a request to a failed machine takes: half of its time is for the connection, at least a second.
Cost(kind, budget) ==
  CASE kind = "refuses" -> 0
    [] kind = "silent" -> budget.tries * MinOf(MaxOf(Second, budget.each \div 2), budget.each)
    [] kind = "hangs" -> budget.tries * budget.each

ReadTimeout == cfg.retry * Second

\* No request: kind is "none".  phase: what the client is doing; machines: those of this round; todo:
\* those not asked yet; failed: another one failed before; delay: Retry._cur_delay.
Idle == [kind |-> "none", phase |-> "none", machines |-> {}, todo |-> {}, failed |-> FALSE,
         budget |-> [nodes |-> 0, each |-> 0, tries |-> 0], stop |-> 0, delay |-> 0]

Init ==
  /\ \E c \in Configured : cfg = Adjusted(c[1], c[2], c[3])
  /\ cond = [s \in Server |-> "up"] /\ elected = TRUE
  /\ \E base \in Server : client = [base |-> base, cache |-> Server, stale |-> FALSE]
  /\ call = Idle /\ age = 0 /\ cycle = 0

\* Machines fail one after the other, or etcd loses its leader; not both.
Failure ==
  /\ call.kind # "over" /\ elected
  /\ \/ \E s \in Server, k \in Kinds :
          cond[s] = "up" /\ cond' = [cond EXCEPT ![s] = k] /\ UNCHANGED elected
     \/ (\A s \in Server : cond[s] = "up") /\ elected' = FALSE /\ UNCHANGED cond
  /\ UNCHANGED <<cfg, client, call, age, cycle>>

-----------------------------------------------------------------------------

\* api_execute(): the whole budget, for all the machines in the cache.
Sent(c, machines) ==
  [c EXCEPT !.phase = "send", !.machines = machines, !.todo = machines, !.failed = FALSE,
            !.budget = Timeouts(Cardinality(machines), ReadTimeout)]

\* _load_machines_cache(), _refresh_machines_cache(): whoever answers knows the members.
Listing(c, phase, machines) ==
  [c EXCEPT !.phase = phase, !.todo = machines, !.budget = Timeouts(Cardinality(machines), ReadTimeout)]

Executed(c) ==
  IF client.stale THEN Listing(c, "loadFirst", Host \cup client.cache) ELSE Sent(c, client.cache)

\* The current machine is asked first, then the others in some order.
First == IF client.base \in call.todo THEN {client.base} ELSE call.todo

Passes(d) == age' = age + d /\ cycle' = cycle + d

\* The HA loop loads the cluster, then updates the key; now and then the list of machines is old.
GetCluster ==
  /\ call.kind = "none"
  /\ LET c == [Idle EXCEPT !.kind = "get", !.stop = age + ReadTimeout, !.delay = Second \div 10]
     IN call' \in {Executed(c)} \cup
                  (IF client.stale THEN {} ELSE {Listing(c, "refreshFirst", client.cache)})
  /\ UNCHANGED <<cfg, cond, elected, client, age, cycle>>

UpdateLeader ==
  /\ call.kind = "got"
  /\ call' = Executed([Idle EXCEPT !.kind = "update", !.stop = age + ReadTimeout, !.delay = Second \div 10])
  /\ UNCHANGED <<cfg, cond, elected, client, age, cycle>>

\* The other keys are written without a retry, and the cycle goes on if that fails.
WriteStatus ==
  /\ call.kind = "updated"
  /\ call' = Executed([Idle EXCEPT !.kind = "status"])
  /\ UNCHANGED <<cfg, cond, elected, client, age, cycle>>

\* get_cluster() and update_leader() raise when they fail, and the leader demotes itself.
Returned(c, works) ==
  CASE c.kind = "status" -> [Idle EXCEPT !.kind = "done"]
    [] ~works -> [Idle EXCEPT !.kind = "over"]
    [] c.kind = "get" -> [Idle EXCEPT !.kind = "got"]
    [] c.kind = "update" -> [Idle EXCEPT !.kind = "updated"]

\* The machine answers.  The key is written then; if another one had failed before, this one is the
\* current one from now on and is asked for the list of machines before the call returns.
Answered(s) ==
  /\ cond[s] = "up" /\ elected
  /\ client' = IF call.failed THEN [client EXCEPT !.base = s] ELSE client
  /\ call' = IF call.failed THEN Listing(call, "refreshLast", client.cache) ELSE Returned(call, TRUE)
  /\ age' = IF call.kind = "update" THEN 0 ELSE age
  /\ UNCHANGED cycle

\* EtcdLeaderElectionInProgress is one of Retry.retry_exceptions.
Leaderless(s) ==
  /\ cond[s] = "up" /\ ~elected
  /\ IF call.kind = "status" THEN call' = Returned(call, FALSE) /\ UNCHANGED <<age, cycle>>
     ELSE \E jitter \in {0, (8 * Second) \div 10} :
            LET nap == call.delay + jitter
            IN IF age + nap >= call.stop THEN call' = Returned(call, FALSE) /\ UNCHANGED <<age, cycle>>
               ELSE /\ call' = Executed([call EXCEPT !.delay = MinOf(2 * @, Second)])
                    /\ Passes(nap)
  /\ UNCHANGED client

\* Without a retry the next machine is the current one from now on, and the request has failed.
Failed(s) ==
  /\ cond[s] # "up"
  /\ Passes(Cost(cond[s], call.budget))
  /\ LET rest == call.todo \ {s}
     IN IF call.kind = "status"
        THEN /\ call' = Returned(call, FALSE)
             /\ \E b \in IF rest = {} THEN {client.base} ELSE rest : client' = [client EXCEPT !.base = b]
        ELSE IF rest = {}
        THEN /\ call' = Listing(call, "load", Host \cup client.cache)
             /\ client' = [client EXCEPT !.stale = TRUE]
        ELSE call' = [call EXCEPT !.todo = rest, !.failed = TRUE] /\ UNCHANGED client

Send ==
  /\ call.phase = "send"
  /\ \E s \in First : Answered(s) \/ Leaderless(s) \/ Failed(s)
  /\ UNCHANGED <<cfg, cond, elected>>

\* What follows when the list of machines was loaded or could not be.
Listed(c, works) ==
  CASE c.phase = "refreshLast" -> Returned(c, TRUE)
    [] c.phase = "refreshFirst" -> Sent(c, IF works THEN Server ELSE client.cache)
    [] c.phase = "loadFirst" -> IF works THEN Sent(c, Server) ELSE Returned(c, FALSE)
    [] c.phase = "load" ->
         [c EXCEPT !.phase = "decide", !.machines = IF works /\ client.cache # Server THEN Server ELSE @]

\* The members of the cluster are all in the list, those that failed too.
AskForMachines ==
  /\ call.phase \in {"load", "loadFirst", "refreshFirst", "refreshLast"}
  /\ \E s \in call.todo :
       \/ /\ cond[s] = "up"
          /\ client' = [client EXCEPT !.cache = Server, !.stale = FALSE]
          /\ call' = Listed(call, TRUE) /\ UNCHANGED <<age, cycle>>
       \/ /\ cond[s] # "up"
          /\ Passes(Cost(cond[s], call.budget))
          /\ call' = IF call.todo = {s} THEN Listed(call, FALSE) ELSE [call EXCEPT !.todo = @ \ {s}]
          /\ client' = IF call.todo = {s} /\ call.phase = "loadFirst"
                       THEN [client EXCEPT !.stale = TRUE] ELSE client
  /\ UNCHANGED <<cfg, cond, elected>>

\* The time that is left after the next sleep.
Remaining(nap) == call.stop - nap - age

\* All have failed: another round, with fewer machines if time is short, or the request has failed.
Decide ==
  /\ call.phase = "decide"
  /\ \E jitter \in {0, (8 * Second) \div 10} :
       LET nap == call.delay + jitter
           next == Timeouts(Cardinality(call.machines), Remaining(nap))
       IN IF next.nodes = 0
          THEN /\ call' = Returned(call, FALSE) /\ client' = [client EXCEPT !.stale = TRUE]
               /\ UNCHANGED <<age, cycle>>
          ELSE /\ \E m \in SUBSET call.machines :
                    /\ Cardinality(m) = next.nodes
                    /\ client.base \in call.machines => client.base \in m
                    /\ call' = [call EXCEPT !.phase = "send", !.machines = m, !.todo = m,
                                            !.failed = FALSE, !.budget = next,
                                            !.delay = MinOf(2 * @, Second)]
               /\ Passes(nap) /\ UNCHANGED client
  /\ UNCHANGED <<cfg, cond, elected>>

\* The next cycle begins loop_wait after this one, at once if that has passed, or when woken up.
ScheduleNextRun ==
  /\ call.kind = "done"
  /\ LET nap == MaxOf(0, cfg.loop * Second - cycle)
     IN \E d \in {0, nap} : age' = age + d
  /\ cycle' = 0 /\ call' = Idle /\ UNCHANGED <<cfg, cond, elected, client>>

Next ==
  \/ Failure \/ GetCluster \/ UpdateLeader \/ WriteStatus \/ Send \/ AskForMachines \/ Decide
  \/ ScheduleNextRun

Spec == Init /\ [][Next]_vars

-----------------------------------------------------------------------------

\* Every variable has its type.
TypeOK ==
  /\ cfg \in [loop : Nat, retry : Nat, ttl : Nat] /\ cond \in [Server -> {"up"} \cup Kinds]
  /\ elected \in BOOLEAN
  /\ client \in [base : Server, cache : SUBSET Server, stale : BOOLEAN]
  /\ call.kind \in {"none", "get", "got", "update", "updated", "status", "done", "over"}
  /\ call.todo \subseteq Server /\ call.machines \subseteq Server
  /\ age \in Nat /\ cycle \in Nat

\* A leader that is cut off from etcd has begun to demote itself before its key expires, if the rule
\* "loop_wait + 2 * retry_timeout <= ttl" of Config._validate_and_adjust_timeouts leaves time to spare:
\* asking for the list of machines, before and after a request, has a retry_timeout of its own.
DemotesInTime == age <= cfg.ttl * Second
===============================================================================
