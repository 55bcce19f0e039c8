------------------------------ MODULE Failsafe ------------------------------
(***************************************************************************)
(* DCS failsafe mode: a primary that cannot reach the DCS goes on without  *)
(* the leader key for as long as every member named in /failsafe accepts   *)
(* its POST /failsafe requests.                                            *)
(*                                                                         *)
(* A request to the DCS may fail, or take effect and lose its answer; a    *)
(* POST may be lost, or delivered and its answer lost; any time may pass   *)
(* between two steps.  As in LeaderLease, a node can only rely on its      *)
(* watchdog, which is here always active while postgres is a primary or on *)
(* its way to be one.                                                      *)
(*                                                                         *)
(* Not in this module: what LeaderLease has in detail (the background      *)
(* tasks, shutdown, a Patroni that dies beside its primary), WAL positions *)
(* (Election), replication slots, and turning failsafe_mode on or off.     *)
(***************************************************************************)
EXTENDS Naturals, FiniteSets

CONSTANTS
  Node,          \* the members of the cluster
  NoNode,        \* None
  TTL,           \* ttl
  WdTimeout,     \* WatchdogConfig.timeout
  LostAnswers,   \* whether /failsafe may be written and the answer lost
  QuickRestart,  \* whether Patroni may restart within ttl of the last POST it received
  Prompt         \* whether a node that found no key, or its own, tries to take it
                 \* before the key that another has taken meanwhile is gone again

ASSUME FailsafeAssumption ==
  /\ NoNode \notin Node
  /\ TTL \in Nat \ {0} /\ WdTimeout \in 1 .. TTL
  /\ LostAnswers \in BOOLEAN /\ QuickRestart \in BOOLEAN /\ Prompt \in BOOLEAN

VARIABLES
  owner,     \* the node named in the leader key, NoNode when there is no key
  keyTtl,    \* what is left of the key's time to live
  failsafe,  \* the /failsafe key; empty: there is none
  pc,        \* where the HA loop of each node is
  cached,    \* dcs.failsafe: /failsafe as last read or written by each node
  todo,      \* the members whose answer check_failsafe_topology() waits for
  pinger,    \* Failsafe._name: the primary whose POST was accepted last
  pingTtl,   \* Failsafe._last_update + ttl, from now; 0: not active
  pg,        \* postgres on each node; promoting: role "promoted", in recovery or not
  wd         \* time until the watchdog resets the machine, 0: not ticking

keyVars == <<owner, keyTtl>>
dcsVars == <<owner, keyTtl, failsafe>>
haVars == <<pc, cached, todo>>
pingVars == <<pinger, pingTtl>>
vars == <<dcsVars, haVars, pingVars, pg, wd>>

PCs == {"down", "idle", "update", "writeFailsafe", "updated", "race", "reload", "promote",
        "ask", "refused", "demote"}

\* A postgres that may accept writes.
Active(n) == pg[n] \in {"promoting", "primary"}

Init ==
  /\ owner = NoNode /\ keyTtl = 0
  /\ failsafe = {}
  /\ pc = [n \in Node |-> "idle"]
  /\ cached = [n \in Node |-> {}]
  /\ todo = [n \in Node |-> {}]
  /\ pinger = [n \in Node |-> NoNode]
  /\ pingTtl = [n \in Node |-> 0]
  /\ pg = [n \in Node |-> "standby"]
  /\ wd = [n \in Node |-> 0]

-----------------------------------------------------------------------------
(* Helpers *)

Goto(n, to) == pc' = [pc EXCEPT ![n] = to]

WriteKey(n) == owner' = n /\ keyTtl' = TTL

\* set_is_active(0), and Failsafe._reset_state().
Deactivate(n) ==
  /\ pinger' = [pinger EXCEPT ![n] = NoNode]
  /\ pingTtl' = [pingTtl EXCEPT ![n] = 0]

\* Faulty: what the POSTs said is not used.
LeaderInKey(n) == owner

\* Failsafe.update_cluster(): without a key, the leader of the cluster is the
\* primary that is known from its POST.
LeaderSeenBy(n) == IF owner = NoNode /\ pingTtl[n] > 0 THEN pinger[n] ELSE owner

\* Faulty: the /failsafe key plays no part in the race.
AnyoneMayRace(n) == TRUE

\* is_healthiest_node(): a node that is missing in a nonempty /failsafe does not
\* take part in the race.
MayRace(n) == failsafe = {} \/ n \in failsafe

\* Faulty: the primary asks itself too.
AskItself(n) ==
  \/ /\ Active(n)
     /\ Goto(n, IF n \in cached[n] THEN "ask" ELSE "refused")
     /\ todo' = [todo EXCEPT ![n] = IF n \in cached[n] THEN cached[n] ELSE {}]
  \/ /\ pg[n] # "primary"
     /\ Goto(n, "idle")
     /\ UNCHANGED todo

\* _handle_dcs_error(), and check_failsafe_topology() up to its requests: only
\* a primary named in the /failsafe it has cached asks the others.  A postgres
\* that is being promoted may be a primary already, or not.
DcsError(n) ==
  \/ /\ Active(n)
     /\ Goto(n, IF n \in cached[n] THEN "ask" ELSE "refused")
     /\ todo' = [todo EXCEPT ![n] = IF n \in cached[n] THEN cached[n] \ {n} ELSE {}]
  \/ /\ pg[n] # "primary"
     /\ Goto(n, "idle")
     /\ UNCHANGED todo

-----------------------------------------------------------------------------
(* The HA loop while the DCS answers *)

\* load_cluster_from_dcs() at the start of a cycle, and what follows from the
\* leader it finds.
LoadCluster(n) ==
  LET leader == LeaderSeenBy(n) IN
  /\ pc[n] = "idle"
  /\ Goto(n, IF leader = n THEN "update"
             ELSE IF leader # NoNode THEN (IF pg[n] = "primary" THEN "demote" ELSE "idle")
             ELSE IF pg[n] = "primary" \/ (pg[n] = "standby" /\ MayRace(n)) THEN "race"
             ELSE "idle")
  /\ cached' = [cached EXCEPT ![n] = failsafe]
  /\ UNCHANGED <<dcsVars, todo, pingVars, pg, wd>>

\* get_cluster() raises DCSError.
LoadFails(n) ==
  /\ pc[n] \in {"idle", "reload"}
  /\ DcsError(n)
  /\ UNCHANGED <<dcsVars, cached, pingVars, pg, wd>>

\* update_leader(): needs the key to name n, or to be gone.  When it is refused
\* a primary is demoted.
UpdateLeader(n) ==
  /\ pc[n] = "update"
  /\ \/ /\ owner \in {n, NoNode}
        /\ WriteKey(n)
        /\ \/ Goto(n, "writeFailsafe") /\ UNCHANGED todo
           \/ DcsError(n)
     \/ /\ UNCHANGED keyVars
        /\ \/ Goto(n, IF pg[n] = "primary" THEN "demote" ELSE "idle") /\ UNCHANGED todo
           \/ DcsError(n)
  /\ UNCHANGED <<failsafe, cached, pingVars, pg, wd>>

\* write_failsafe(): n itself and the members of the cluster, which may be any, as
\* member keys are created and expire all the time; nothing is written when that
\* is what n has cached.  A failure is ignored.
WriteFailsafe(n) ==
  \E value \in {others \cup {n} : others \in SUBSET Node} :
    /\ pc[n] = "writeFailsafe"
    /\ \/ /\ cached[n] # value
          /\ failsafe' = value
          /\ \/ cached' = [cached EXCEPT ![n] = value]
             \/ LostAnswers /\ UNCHANGED cached
       \/ UNCHANGED <<failsafe, cached>>
    /\ Goto(n, "updated")
    /\ UNCHANGED <<keyVars, todo, pingVars, pg, wd>>

\* watchdog.keepalive(), the rest of a cycle with the key, and the finally
\* clause of _run_cycle(): failsafe mode ends.
Updated(n) ==
  /\ pc[n] = "updated"
  /\ Goto(n, IF pg[n] = "standby" THEN "promote" ELSE "idle")
  /\ wd' = IF Active(n) THEN [wd EXCEPT ![n] = WdTimeout] ELSE wd
  /\ Deactivate(n)
  /\ UNCHANGED <<dcsVars, cached, todo, pg>>

\* A standby in the race gets the answer of a primary that is still alive.
Defer(n) ==
  /\ pc[n] = "race" /\ pg[n] = "standby"
  /\ \E m \in Node \ {n} : pc[m] # "down" /\ Active(m)
  /\ Goto(n, "idle")
  /\ UNCHANGED <<dcsVars, cached, todo, pingVars, pg, wd>>

\* acquire_lock().  The primaries among the other members, if there are any, did
\* not answer.
AcquireLock(n) ==
  /\ pc[n] = "race"
  /\ \/ /\ owner = NoNode
        /\ WriteKey(n)
        /\ \/ Goto(n, "reload") /\ UNCHANGED todo
           \/ DcsError(n)
     \/ /\ UNCHANGED keyVars
        /\ \/ Goto(n, IF pg[n] = "primary" THEN "demote" ELSE "idle") /\ UNCHANGED todo
           \/ DcsError(n)
  /\ UNCHANGED <<failsafe, cached, pingVars, pg, wd>>

\* load_cluster_from_dcs() after it took the key.  A primary only goes on; its
\* watchdog is kept alive in the next cycle.
Reload(n) ==
  /\ pc[n] = "reload"
  /\ cached' = [cached EXCEPT ![n] = failsafe]
  /\ IF pg[n] = "standby"
     THEN Goto(n, "promote") /\ UNCHANGED pingVars
     ELSE Goto(n, "idle") /\ Deactivate(n)
  /\ UNCHANGED <<dcsVars, todo, pg, wd>>

\* enforce_primary_role() of a standby: activate the watchdog, reset the
\* failsafe state, promote in the background.
Promote(n) ==
  /\ pc[n] = "promote"
  /\ Goto(n, "idle")
  /\ pg' = [pg EXCEPT ![n] = "promoting"]
  /\ wd' = [wd EXCEPT ![n] = WdTimeout]
  /\ Deactivate(n)
  /\ UNCHANGED <<dcsVars, cached, todo>>

\* _wait_promote(): postgres is in production, the role becomes "master".
Promoted(n) ==
  /\ pg[n] = "promoting"
  /\ pg' = [pg EXCEPT ![n] = "primary"]
  /\ UNCHANGED <<dcsVars, haVars, pingVars, wd>>

-----------------------------------------------------------------------------
(* Failsafe mode *)

\* update_failsafe() on m, the handler of POST /failsafe from n: only a node
\* whose role is primary refuses.
UpdateFailsafe(m, n) ==
  /\ pinger' = [pinger EXCEPT ![m] = n]
  /\ pingTtl' = [pingTtl EXCEPT ![m] = TTL]

\* call_failsafe_member(): accepted, with the answer received or lost; refused;
\* or not delivered.  The calls run in parallel, and all of them are awaited.
CallMember(n, m) ==
  /\ pc[n] \in {"ask", "refused"} /\ m \in todo[n]
  /\ todo' = [todo EXCEPT ![n] = @ \ {m}]
  /\ \/ /\ pc[m] # "down" /\ pg[m] # "primary"
        /\ UpdateFailsafe(m, n)
        /\ UNCHANGED pc \/ Goto(n, "refused")
     \/ Goto(n, "refused") /\ UNCHANGED pingVars
  /\ UNCHANGED <<dcsVars, cached, pg, wd>>

\* Faulty: the primary goes on when some member has accepted.
ContinueEarly(n) ==
  /\ pc[n] = "ask" /\ (todo[n] = {} \/ todo[n] # cached[n] \ {n})
  /\ Goto(n, "idle")
  /\ todo' = [todo EXCEPT ![n] = {}]
  /\ pingTtl' = [pingTtl EXCEPT ![n] = TTL]
  /\ wd' = [wd EXCEPT ![n] = WdTimeout]
  /\ UNCHANGED <<dcsVars, cached, pinger, pg>>

\* All members accepted: failsafe mode is active on the primary, and its
\* watchdog is kept alive.
Continue(n) ==
  /\ pc[n] = "ask" /\ todo[n] = {}
  /\ Goto(n, "idle")
  /\ pingTtl' = [pingTtl EXCEPT ![n] = TTL]
  /\ wd' = [wd EXCEPT ![n] = WdTimeout]
  /\ UNCHANGED <<dcsVars, cached, todo, pinger, pg>>

\* demote(): postgres stops, the watchdog is disabled, postgres starts again as
\* a standby.  After a refusal failsafe mode ends first.
Demote(n) ==
  /\ \/ pc[n] = "demote" /\ UNCHANGED pingVars
     \/ pc[n] = "refused" /\ todo[n] = {} /\ Deactivate(n)
  /\ Goto(n, "idle")
  /\ pg' = [pg EXCEPT ![n] = "standby"]
  /\ wd' = [wd EXCEPT ![n] = 0]
  /\ UNCHANGED <<dcsVars, cached, todo>>

-----------------------------------------------------------------------------
(* Crashes and time *)

\* The machines in S stop.  What Patroni had in memory is gone; pingTtl goes on
\* as the time since the last POST.
Stop(S) ==
  LET After(f, value) == [n \in Node |-> IF n \in S THEN value ELSE f[n]] IN
  /\ pc' = After(pc, "down")
  /\ cached' = After(cached, {})
  /\ todo' = After(todo, {})
  /\ pinger' = After(pinger, NoNode)
  /\ pg' = After(pg, "down")

Crash(n) ==
  /\ pc[n] # "down"
  /\ Stop({n})
  /\ wd' = [wd EXCEPT ![n] = 0]
  /\ UNCHANGED <<dcsVars, pingTtl>>

\* Patroni starts, and with it postgres as a standby.
Restart(n) ==
  /\ pc[n] = "down"
  /\ QuickRestart \/ pingTtl[n] = 0
  /\ Goto(n, "idle")
  /\ pg' = [pg EXCEPT ![n] = "standby"]
  /\ pingTtl' = [pingTtl EXCEPT ![n] = 0]
  /\ UNCHANGED <<dcsVars, cached, todo, pinger, wd>>

\* The timing that LeaderLease assumes and shows enough: the watchdog of a new
\* leader is activated while the key has WdTimeout left.
ActivatedInTime(n) ==
  pg[n] = "standby" /\ owner = n /\ pc[n] \in {"writeFailsafe", "updated", "reload", "promote"}
    => keyTtl > WdTimeout

\* One unit of time passes.
Tick ==
  LET Less(t) == IF t = 0 THEN 0 ELSE t - 1
      Fires == {n \in Node : wd[n] = 1}
  IN  /\ \A n \in Node : ActivatedInTime(n)
      /\ Prompt /\ keyTtl = 1 =>
           \A n \in Node \ {owner} : pc[n] \notin {"race", "update"}
      /\ keyTtl' = Less(keyTtl)
      /\ owner' = IF keyTtl <= 1 THEN NoNode ELSE owner
      /\ pingTtl' = [n \in Node |-> Less(pingTtl[n])]
      /\ wd' = [n \in Node |-> Less(wd[n])]
      /\ Stop(Fires)
      /\ UNCHANGED failsafe

-----------------------------------------------------------------------------
NodeStep(n) ==
  \/ LoadCluster(n) \/ LoadFails(n)
  \/ UpdateLeader(n) \/ WriteFailsafe(n) \/ Updated(n)
  \/ Defer(n) \/ AcquireLock(n) \/ Reload(n) \/ Promote(n) \/ Promoted(n)
  \/ \E m \in Node : CallMember(n, m)
  \/ Continue(n) \/ Demote(n)
  \/ Crash(n) \/ Restart(n)

Next == Tick \/ \E n \in Node : NodeStep(n)

Spec == Init /\ [][Next]_vars

-----------------------------------------------------------------------------
(* Properties *)

\* The values that the state of the code can have; a key without an owner has no
\* life left, and no node is told by itself that it is alive.
TypeOK ==
  /\ owner \in Node \cup {NoNode} /\ keyTtl \in 0 .. TTL
  /\ owner = NoNode <=> keyTtl = 0
  /\ failsafe \subseteq Node
  /\ pc \in [Node -> PCs]
  /\ cached \in [Node -> SUBSET Node]
  /\ todo \in [Node -> SUBSET Node]
  /\ pinger \in [Node -> Node \cup {NoNode}] /\ pingTtl \in [Node -> 0 .. TTL]
  /\ \A n \in Node : pinger[n] # n
  /\ pg \in [Node -> {"down", "standby", "promoting", "primary"}]
  /\ wd \in [Node -> 0 .. WdTimeout]

\* No split brain: at most one postgres accepts writes, though a primary may go
\* on without the leader key.
AtMostOnePrimary == Cardinality({n \in Node : Active(n)}) <= 1

\* A primary without the key has the word of all that may take it: every other
\* member in /failsafe accepted its POST within ttl and remembers it, unless it is
\* down; and that is so for longer than the primary's watchdog lets it live.
Vouched ==
  \A n \in Node : Active(n) /\ owner # n =>
    /\ n \in failsafe
    /\ \A m \in failsafe \ {n} : pingTtl[m] >= wd[n] /\ (pinger[m] = n \/ pc[m] = "down")

\* The lock of which LeaderLock speaks is the key or, without a key, what a
\* primary in failsafe mode has in its place.
Running == IF \E n \in Node : Active(n) THEN CHOOSE n \in Node : Active(n) ELSE NoNode
Lock == INSTANCE LeaderLock WITH
          holder <- IF owner = NoNode THEN Running ELSE owner,
          primary <- Running

\* Failsafe mode keeps the promise of the leader key: nobody takes the key from a
\* primary that goes on without it, and none becomes a primary without the key.
ImplementsLock == Lock!Spec
=============================================================================
