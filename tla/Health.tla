-------------------------------- MODULE Health --------------------------------
(***************************************************************************)
(* What the REST API of one node answers to load balancers and probes      *)
(* (api.py: do_GET, do_GET_liveness, do_GET_readiness), while its HA loop  *)
(* runs, hangs, loses the leader key to another node, and demotes itself.  *)
(* Each answer is made of what several threads have left, and of the time. *)
(*                                                                         *)
(* Left out: failsafe mode, and standby clusters that stop being ones.     *)
(***************************************************************************)
EXTENDS Integers

CONSTANTS
  Ttl,        \* ttl
  Wait,       \* loop_wait
  MaxAnswer   \* bound of a request to the DCS: retry_timeout

HealthAssumption == Wait \in Nat \ {0} /\ Ttl \in Nat /\ Wait <= Ttl /\ MaxAnswer \in 0 .. Ttl

VARIABLES
  standby,  \* is_standby_cluster
  paused,   \* is_paused: the same all the time
  owner,    \* who the leader key names: "me", "other" or "nobody"
  left,     \* of the time to live of the key
  lost,     \* how long ago it ceased to be mine
  pc,       \* where the HA loop is
  bg,       \* where the demotion of the background thread is
  answer,   \* to the write of the key that was sent, and when it was sent
  view,     \* self.cluster.leader
  next,     \* next_run: in how much time
  since,    \* when the last cycle began
  expiry,   \* _leader_expiry: in how much time
  valid,    \* _cluster_valid_till: in how much time
  heard,    \* when the DCS was heard the last time
  pg,       \* what postgres is
  known,    \* Postgresql.state and Postgresql.role
  sync,     \* whether /sync of the cached cluster names this node
  asked     \* the status that the handler of a request has read, see Status

clock == <<left, lost, next, since, expiry, valid, heard>>
loop == <<pc, bg, answer, view>>
vars == <<standby, paused, owner, loop, clock, pg, known, sync, asked>>

NoAnswer == [ok |-> "none", sent |-> 0]
NoStatus == [state |-> "none", role |-> "none", sync |-> FALSE, pause |-> FALSE]

Init ==
  /\ standby \in BOOLEAN /\ paused \in BOOLEAN
  /\ owner \in {"other", "nobody"} /\ left = (IF owner = "other" THEN Ttl ELSE 0)
  /\ lost = MaxAnswer + 1 /\ since = 0 /\ next = 0 /\ expiry = 0 /\ valid = 0 /\ heard = Ttl
  /\ pc = "run" /\ bg = "none" /\ answer = NoAnswer /\ view = "nobody"
  /\ pg \in (IF standby THEN {"replica"} ELSE {"replica", "primary"})
  /\ known = [state |-> "running", role |-> IF pg = "primary" THEN "master" ELSE "replica"]
  /\ sync = FALSE /\ asked = NoStatus

Elapse(t) == IF t = 0 THEN 0 ELSE t - 1
Count(t, most) == IF t = most THEN t ELSE t + 1

\* Time passes.  The HA loop may hang, but it wakes up in time, and its requests end.
Tick ==
  /\ pc = "sleep" => next > 0
  /\ pc = "asking" => answer.sent < MaxAnswer
  /\ left' = Elapse(left) /\ owner' = IF left = 1 THEN "nobody" ELSE owner
  /\ lost' = IF owner' = "me" THEN 0 ELSE Count(lost, MaxAnswer + 1)
  /\ next' = (IF next > -2 * Ttl THEN next - 1 ELSE next)
  /\ since' = Count(since, 2 * Ttl) /\ heard' = Count(heard, Ttl)
  /\ expiry' = Elapse(expiry) /\ valid' = Elapse(valid)
  /\ answer' = (IF pc = "asking" THEN [answer EXCEPT !.sent = @ + 1] ELSE answer)
  /\ UNCHANGED <<standby, paused, pc, bg, view, pg, known, sync, asked>>

\* Another node takes a key that nobody has, keeps it, or gives it back.
OtherNode ==
  /\ \/ owner # "me" /\ owner' = "other" /\ left' = Ttl
     \/ owner = "other" /\ owner' = "nobody" /\ left' = 0
  /\ UNCHANGED <<standby, paused, loop, lost, next, since, expiry, valid, heard, pg, known, sync, asked>>

-----------------------------------------------------------------------------
(* The HA loop *)

Env == UNCHANGED <<standby, paused, sync, asked>>
Rest == UNCHANGED <<owner, left, lost, heard, answer, view>> /\ Env

\* run_cycle() has the AsyncExecutor, and so has a thread that is about to delete the key.
Cycling == pc \notin {"run", "sleep"}
Deleting == bg \in {"delete", "deleteEarly"}

\* set_is_leader()
SetIsLeader(value) == expiry' = IF value THEN Ttl ELSE 0

\* A loop that is late does not begin anew.
NextRunKept ==
  IF next + Wait <= 0 THEN next' = next + Wait /\ pc' = "run" /\ UNCHANGED since
  ELSE next' = next + Wait /\ pc' = "sleep" /\ UNCHANGED since

\* schedule_next_run()
ScheduleNextRun ==
  LET nap == next + Wait IN
  IF nap <= 0 THEN next' = 0 /\ since' = 0 /\ pc' = "run"
  ELSE next' = nap /\ pc' = "sleep" /\ UNCHANGED since

\* The cycle begins because it is time, or because something has happened.
Wake ==
  /\ pc = "sleep" /\ pc' = "run" /\ next' = 0 /\ since' = 0
  /\ UNCHANGED <<expiry, valid, bg, pg, known>> /\ Rest

\* load_cluster_from_dcs()
Load ==
  /\ pc = "run" /\ ~Deleting
  /\ valid' = Ttl /\ heard' = 0 /\ view' = owner
  /\ (IF owner = "me" THEN UNCHANGED expiry ELSE SetIsLeader(FALSE))
  /\ pc' = "loaded"
  /\ sync' \in BOOLEAN
  /\ UNCHANGED <<owner, left, lost, next, since, answer, bg, pg, known, standby, paused, asked>>

\* A node with a background task only keeps the key.  In a paused cluster only a primary takes it.
Wants ==
  IF bg # "none" THEN view = "me" ELSE view # "other" /\ (paused => pg = "primary")

\* A primary that may not go on: the task that demotes it is started, or it is done at once.
DemoteOr(now, rest) ==
  IF pg = "primary" /\ ~paused
  THEN IF now \/ bg # "none" THEN pc' = "demote" /\ UNCHANGED <<next, since, bg>>
       ELSE bg' = "offline" /\ ScheduleNextRun
  ELSE UNCHANGED bg /\ rest

\* The DCS is not accessible when the cluster is loaded, or when the key is written: before that, or
\* after.  A primary demotes itself.
DcsError ==
  /\ \/ pc = "run" /\ ~Deleting /\ valid' = 0
     \/ ((pc = "loaded" /\ Wants) \/ pc = "asking") /\ UNCHANGED valid
  /\ answer' = NoAnswer
  /\ DemoteOr(FALSE, ScheduleNextRun)
  /\ UNCHANGED <<owner, left, lost, expiry, heard, view, pg, known>> /\ Env

\* attempt_to_acquire_leader() or update_leader() arrives at the DCS.
Write ==
  /\ pc = "loaded" /\ Wants
  /\ LET ok == owner = view IN
     /\ answer' = [ok |-> IF ok THEN "yes" ELSE "no", sent |-> 0]
     /\ owner' = (IF ok THEN "me" ELSE owner) /\ left' = (IF ok THEN Ttl ELSE left)
     /\ lost' = IF ok THEN 0 ELSE lost
  /\ pc' = "asking"
  /\ UNCHANGED <<next, since, expiry, valid, heard, view, bg, pg, known>> /\ Env

\* The answer: a node without the key demotes, also during a task if it was a primary.
Answered ==
  /\ pc = "asking" /\ answer' = NoAnswer /\ heard' = 0
  /\ SetIsLeader(answer.ok = "yes")
  /\ IF answer.ok = "no" /\ (bg # "none" => known.role = "master") THEN DemoteOr(TRUE, ScheduleNextRun)
     ELSE /\ UNCHANGED bg
          /\ IF answer.ok = "yes" /\ bg = "none" THEN pc' = "leader" /\ UNCHANGED <<next, since>>
             ELSE ScheduleNextRun
  /\ UNCHANGED <<owner, left, lost, valid, view, pg, known>> /\ Env

\* The rest of the cycle of the leader.  Postgres is promoted in another thread.
LeaderCycle ==
  /\ pc = "leader"
  /\ known' = (IF pg # "replica" THEN known
               ELSE [known EXCEPT !.role = IF standby THEN "standby_leader" ELSE "promoted"])
  /\ ScheduleNextRun
  /\ UNCHANGED <<expiry, valid, bg, pg>> /\ Rest

\* The leader hands over in the background, or demotes itself at once since there is no watchdog.
LeaderDemotes ==
  /\ pc = "leader"
  /\ \/ pg # "down" /\ bg' = "graceful" /\ ScheduleNextRun
     \/ pg = "primary" /\ ~paused /\ pc' = "immediate" /\ UNCHANGED <<next, since, bg>>
  /\ UNCHANGED <<expiry, valid, pg, known>> /\ Rest

\* In a paused cluster a standby gives the key back.
GiveBack ==
  /\ pc = "loaded" /\ view = "me" /\ ~Wants
  /\ SetIsLeader(FALSE) /\ pc' = "delete"
  /\ UNCHANGED <<next, since, valid, bg, pg, known>> /\ Rest

\* Somebody else has the key, or nobody has it and this node does not take it.
FollowerCycle ==
  /\ pc = "loaded" /\ view # "me" /\ ~Wants
  /\ \/ /\ bg # "none" => known.role = "master"
        /\ DemoteOr(TRUE, ScheduleNextRun)
     \/ bg # "none" /\ known.role # "master" /\ ScheduleNextRun /\ UNCHANGED bg
  /\ known' = [known EXCEPT !.role = IF pg = "replica" /\ @ = "standby_leader" THEN "replica" ELSE @]
  /\ UNCHANGED <<expiry, valid, pg>> /\ Rest

-----------------------------------------------------------------------------
(* demote(): by the HA loop, or by the thread of the background task *)

\* Postgres is stopped, which takes a while.
Stopped == pg' = "down" /\ known' = [state |-> "stopped", role |-> "demoted"]

\* Then the node is not the leader any more.
Stop ==
  /\ \/ /\ pc \in {"demote", "immediate"} /\ Stopped
        /\ pc' = (IF pc = "demote" THEN "stopped" ELSE "release") /\ UNCHANGED <<next, since, expiry>>
     \/ /\ pc \in {"stopped", "release"} /\ SetIsLeader(FALSE) /\ UNCHANGED <<pg, known>>
        /\ IF pc = "release" THEN pc' = "delete" /\ UNCHANGED <<next, since>> ELSE ScheduleNextRun
  /\ UNCHANGED <<valid, bg>> /\ Rest

\* The same in the background.  The key is given back when postgres has stopped, or, when it has written
\* all that a standby needs, before ("early", "gone").
TaskStops ==
  /\ \/ /\ bg \in {"offline", "graceful", "gone"} /\ Stopped
        /\ bg' = (IF bg = "graceful" THEN "stoppedKey" ELSE "stopped") /\ UNCHANGED expiry
     \/ /\ bg \in {"stopped", "stoppedKey"} /\ SetIsLeader(FALSE)
        /\ bg' = (IF bg = "stopped" THEN "end" ELSE "release") /\ UNCHANGED <<pg, known>>
     \/ /\ bg = "graceful" /\ bg' = "early" /\ known' = [known EXCEPT !.role = "demoted"]
        /\ UNCHANGED <<pg, expiry>>
  /\ UNCHANGED <<pc, next, since, valid>> /\ Rest

\* The leader remembers that it is one while the key is deleted.
DeleteAnyhow ==
  /\ bg \in {"release", "early"} /\ ~Cycling
  /\ bg' = IF bg = "release" THEN "delete" ELSE "deleteEarly"
  /\ UNCHANGED <<pc, next, since, expiry, valid, pg, known>> /\ Rest

\* _delete_leader() begins, in the background as soon as no cycle runs.
DeleteBegins ==
  /\ bg \in {"release", "early"} /\ ~Cycling
  /\ SetIsLeader(FALSE) /\ bg' = IF bg = "release" THEN "delete" ELSE "deleteEarly"
  /\ UNCHANGED <<pc, next, since, valid, pg, known>> /\ Rest

\* delete_leader()
DeleteLeader ==
  /\ \/ pc = "delete" /\ ScheduleNextRun /\ UNCHANGED bg
     \/ /\ Deleting /\ bg' = (IF bg = "delete" THEN "end" ELSE "gone")
        /\ UNCHANGED <<pc, next, since>>
  /\ owner' = (IF owner = "me" THEN "nobody" ELSE owner) /\ left' = (IF owner = "me" THEN 0 ELSE left)
  /\ UNCHANGED <<lost, expiry, valid, heard, answer, view, pg, known>> /\ Env

TaskEnds ==
  /\ bg = "end" /\ ~Cycling /\ bg' = "none"
  /\ UNCHANGED <<pc, next, since, expiry, valid, pg, known>> /\ Rest

\* Postgres: it is promoted, it crashes, and it is started as a standby.
Postgres ==
  /\ \/ /\ pg = "replica" /\ known.role = "promoted"
        /\ pg' = "primary" /\ known' = [known EXCEPT !.role = "master"]
     \/ pg # "down" /\ pg' = "down" /\ UNCHANGED known
     \/ /\ pg = "down" /\ ~Cycling /\ bg \in {"none", "end"} /\ (paused => known.role = "demoted")
        /\ pg' = "replica" /\ known' = [state |-> "running", role |-> "replica"]
  /\ UNCHANGED <<owner, clock, loop>> /\ Env

-----------------------------------------------------------------------------
(* The handlers *)

\* get_postgresql_status(): postgres is asked what it is, or nobody can tell.
Status ==
  [state |-> IF pg # "down" THEN known.state ELSE IF known.state = "running" THEN "unknown" ELSE known.state,
   role |-> CASE pg = "down" -> known.role
              [] pg = "primary" -> "master"
              [] pg = "replica" -> IF standby THEN known.role ELSE "replica",
   sync |-> sync /\ valid > 0 /\ pg = "replica" /\ ~standby,
   pause |-> paused]

Request ==
  /\ asked = NoStatus /\ asked' = Status
  /\ UNCHANGED <<standby, paused, owner, loop, clock, pg, known, sync>>

Respond ==
  /\ asked # NoStatus /\ asked' = NoStatus
  /\ UNCHANGED <<standby, paused, owner, loop, clock, pg, known, sync>>

IsLeader == expiry > 0

\* Whether do_GET answers 200 to a request for the path, given the status that it has read.
\* welcome: it does not lag and is not tagged noloadbalance; tagged: its tags are those asked for.
Trusted == valid = 0 /\ asked.pause       \* a paused cluster, and no DCS: the role decides
LeaderCode == IF Trusted THEN asked.role \in {"master", "standby_leader"} ELSE IsLeader
PrimaryCode == IF Trusted THEN asked.role = "master" ELSE IsLeader /\ ~standby
StandbyLeaderCode ==
  IF Trusted THEN asked.role = "standby_leader"
  ELSE IsLeader /\ standby /\ asked.role \in {"replica", "standby_leader"}
ReplicaCode(welcome) ==
  /\ welcome /\ asked.role = "replica" /\ asked.state = "running"
  /\ ~Trusted => ~(IsLeader /\ standby)
WriterCode == PrimaryCode \/ StandbyLeaderCode

\* Only GET /sync and GET /async ask for a synchronous standby.
CodeNoSync(path, welcome, tagged) ==
  /\ path \in {"standby-leader", "leader", "primary"} \/ tagged
  /\ CASE path = "standby-leader" -> StandbyLeaderCode
       [] path = "leader" -> LeaderCode
       [] path = "primary" -> PrimaryCode
       [] path = "replica" -> ReplicaCode(welcome)
       [] path \in {"read-only", "read-only-sync"} -> WriterCode \/ ReplicaCode(welcome)
       [] path = "health" -> asked.state = "running"
       [] path = "sync" -> valid > 0 /\ asked.sync /\ ReplicaCode(welcome)
       [] path = "async" -> valid > 0 /\ ~asked.sync /\ ReplicaCode(welcome)

Code(path, welcome, tagged) ==
  /\ path \in {"standby-leader", "leader", "primary"} \/ tagged
  /\ CASE path = "standby-leader" -> StandbyLeaderCode
       [] path = "leader" -> LeaderCode
       [] path = "primary" -> PrimaryCode
       [] path = "replica" -> ReplicaCode(welcome)
       [] path = "read-only" -> WriterCode \/ ReplicaCode(welcome)
       [] path = "health" -> asked.state = "running"
       [] path = "sync" -> valid > 0 /\ asked.sync /\ ReplicaCode(welcome)
       [] path = "async" -> valid > 0 /\ ~asked.sync /\ ReplicaCode(welcome)
       [] path = "read-only-sync" -> valid > 0 /\ (WriterCode \/ (asked.sync /\ ReplicaCode(welcome)))

\* do_GET_liveness() and do_GET_readiness()
Live == paused \/ next + (IF known.role = "master" /\ pg # "down" THEN Ttl ELSE 2 * Ttl) > 0
Ready == IsLeader \/ (known.state = "running" /\ valid > 0)

-----------------------------------------------------------------------------

Next ==
  \/ Tick \/ OtherNode \/ Wake \/ Load \/ DcsError \/ Write \/ Answered \/ LeaderCycle \/ LeaderDemotes
  \/ GiveBack \/ FollowerCycle \/ Stop \/ TaskStops \/ DeleteBegins \/ DeleteLeader \/ TaskEnds \/ Postgres \/ Request \/ Respond

Spec == Init /\ [][Next]_vars

(* Properties *)

\* Every variable has its type.
TypeOK ==
  /\ standby \in BOOLEAN /\ paused \in BOOLEAN /\ sync \in BOOLEAN
  /\ owner \in {"me", "other", "nobody"} /\ view \in {"me", "other", "nobody"}
  /\ left \in 0 .. Ttl /\ expiry \in 0 .. Ttl /\ valid \in 0 .. Ttl
  /\ lost \in 0 .. MaxAnswer + 1 /\ since \in 0 .. 2 * Ttl /\ heard \in 0 .. Ttl /\ next \in -2 * Ttl .. Wait
  /\ pc \in {"run", "loaded", "asking", "leader", "demote", "immediate", "stopped", "release", "delete", "sleep"}
  /\ bg \in {"none", "offline", "graceful", "early", "deleteEarly", "gone", "stopped", "stoppedKey", "release",
             "delete", "end"}
  /\ answer \in [ok : {"none", "yes", "no"}, sent : 0 .. MaxAnswer]
  /\ pg \in {"replica", "primary", "down"}
  /\ known.state \in {"running", "stopped"} /\ known.role \in {"replica", "standby_leader", "promoted", "master", "demoted"}
  /\ asked.state \in {"running", "stopped", "unknown", "none"}

\* Writes are sent to one node: when another one has the key, this one has stopped to answer 200 to
\* GET /primary, or the key was lost no longer ago than a request takes.  (ha.py:213-222, 1204-1206)
OneWriter ==
  asked # NoStatus /\ ~paused /\ Code("primary", FALSE, FALSE) /\ owner = "other" => lost <= MaxAnswer

\* The paths agree with each other, whatever happens between the two reads of a request:
\* a writer is a leader, and only a synchronous standby is taken for one.  (api.py:303-352)
PathsAgree ==
  asked # NoStatus =>
    \A welcome, tagged \in BOOLEAN :
      LET Ok(path) == Code(path, welcome, tagged) IN
      /\ ~(Ok("primary") /\ Ok("standby-leader")) /\ (WriterCode => Ok("leader"))
      /\ ~(Ok("sync") /\ Ok("async"))
      /\ Ok("read-only-sync") => Ok("read-only") /\ (WriterCode \/ Ok("sync"))

\* A probe says that the HA loop hangs when it does: a cycle has begun less than ttl ago, on a
\* primary, and twice that on a standby, or the next one is not due.  (api.py:393-418; __main__.py:167)
ProbesTrue ==
  /\ ~paused => (Live <=> pc = "sleep" \/ since < IF known.role = "master" /\ pg # "down" THEN Ttl ELSE 2 * Ttl)
  /\ Ready => heard < Ttl

AnswersTrue == OneWriter /\ PathsAgree /\ ProbesTrue
===============================================================================
