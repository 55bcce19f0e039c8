------------------------------ MODULE Election ------------------------------
(***************************************************************************)
(* The leader race of Patroni, and the manual failovers and switchovers    *)
(* that interfere with it.                                                 *)
(*                                                                         *)
(* When nobody holds the leader key every node compares itself with the    *)
(* members it can reach, asking each over the REST API, and asks for the   *)
(* key when none of them is a better choice.  A /failover key in the DCS   *)
(* changes who may race; the primary reads it too, and steps down for it.  *)
(*                                                                         *)
(* The WAL of a node is a sequence of the timelines its records belong to: *)
(* an LSN is a length, and a promotion adds a record of a new timeline.    *)
(* The old leader is among the known members although its member key has   *)
(* expired.  The watchdog device is usable.  Not in this module: pause,    *)
(* standby clusters, failsafe mode.                                        *)
(***************************************************************************)
EXTENDS Naturals, FiniteSets, Sequences, SequencesExt

CONSTANTS
  Node,           \* the members of the cluster
  NoNode,         \* None
  NoFailover,     \* the members with the tag nofailover
  Priority,       \* failover_priority of each member
  MaxLag,         \* maximum_lag_on_failover
  CheckTimeline,  \* check_timeline
  SyncModes,      \* the values of synchronous_mode to be considered
  Scheduling,     \* whether clients schedule switchovers for later
  Watchdog,       \* whether a node that stalls is reset when its key expires
  PromptRace,     \* whether a race ends while the key it lost is still held
  MaxLsn,         \* bound on the WAL of a node that still accepts writes
  MaxRequests,    \* bound on the failover requests of a behaviour
  MaxEvents       \* bound on its requests, crashes and stalls together

ASSUME ElectionAssumption ==
  /\ NoNode \notin Node /\ NoFailover \subseteq Node
  /\ Priority \in [Node -> Nat]
  /\ {MaxLag, MaxLsn, MaxRequests, MaxEvents} \subseteq Nat
  /\ {CheckTimeline, Scheduling, Watchdog, PromptRace} \cup SyncModes \subseteq BOOLEAN

VARIABLES
  syncMode,  \* synchronous_mode, the same during a behaviour
  owner,     \* the node named in the leader key
  lastLsn,   \* cluster.last_lsn: the LSN in the /status key
  timeline,  \* cluster.timeline: one more than the last timeline in /history
  failover,  \* the /failover key
  sync,      \* the /sync key: its leader (NoNode: empty) and its members
  request,   \* a request that a REST API thread has checked and not written yet
  up,        \* Patroni runs, and reaches the DCS and the other nodes
  pg,        \* what postgres is on each node
  wal,       \* the WAL of each node
  pc,        \* where the HA loop of each node is
  look,      \* what the HA loop has loaded and learnt in this cycle
  faults, requests  \* how many of them so far

dcsVars == <<owner, lastLsn, timeline, failover, sync>>
apiVars == <<request, requests>>
nodeVars == <<up, pg, wal>>
haVars == <<pc, look>>
vars == <<syncMode, dcsVars, apiVars, nodeVars, haVars, faults>>

\* scheduled_at: absent, in the future, now, or more than 1.5 loop_wait ago.
Times == {"none", "later", "due", "past"}
Key == [leader : Node \cup {NoNode}, candidate : Node \cup {NoNode}, at : Times,
        version : 0 .. MaxRequests]
NoKey == [leader |-> NoNode, candidate |-> NoNode, at |-> "none", version |-> 0]
NoSync == [leader |-> NoNode, members |-> {}]
\* self.cluster (key: /failover, sync, last: last_lsn, tl: timeline) and lsn, the
\* node's own; waiting: the members whose answers it still needs; heard: those
\* that answered.
NoLook == [key |-> NoKey, sync |-> NoSync, last |-> 0, tl |-> 0, lsn |-> 0,
           waiting |-> {}, heard |-> {}]
Racing == {"race", "candidate", "retake", "acquire"}

\* Every variable has its type.
TypeOK ==
  /\ syncMode \in SyncModes
  /\ owner \in Node \cup {NoNode}
  /\ lastLsn \in Nat /\ timeline \in Nat
  /\ failover \in Key
  /\ sync \in [leader : Node \cup {NoNode}, members : SUBSET Node]
  /\ request \in Key
  /\ up \in [Node -> BOOLEAN]
  /\ pg \in [Node -> {"down", "standby", "primary"}]
  /\ \A n \in Node : wal[n] \in Seq(Nat) /\ wal[n] # <<>>
  /\ pc \in [Node -> Racing \cup {"idle", "clean", "enforce", "promote", "handover",
                                  "unkey", "demote", "release"}]
  /\ \A n \in Node : /\ look[n].key \in Key /\ {look[n].last, look[n].tl, look[n].lsn} \subseteq Nat
                      /\ look[n].waiting \cup look[n].heard \subseteq Node \ {n}
  /\ faults \in 0 .. MaxEvents /\ requests \in 0 .. MaxRequests

\* A healthy cluster: one primary, and replicas that may lag behind it.
Init ==
  /\ syncMode \in SyncModes
  /\ owner \in Node \ NoFailover
  /\ lastLsn = 1 /\ timeline = 1
  /\ failover = NoKey /\ request = NoKey
  /\ sync = IF syncMode THEN [NoSync EXCEPT !.leader = owner] ELSE NoSync
  /\ up = [n \in Node |-> TRUE]
  /\ pg = [n \in Node |-> IF n = owner THEN "primary" ELSE "standby"]
  /\ wal = [n \in Node |-> <<1>>]
  /\ pc = [n \in Node |-> "idle"]
  /\ look = [n \in Node |-> NoLook]
  /\ faults = 0 /\ requests = 0

-----------------------------------------------------------------------------
(* Helpers *)

Lsn(n) == Len(wal[n])
Timeline(n) == Last(wal[n])

\* The HA loop goes on at to having learnt seen; an idle one has learnt nothing.
Go(n, to, seen) ==
  /\ pc' = [pc EXCEPT ![n] = to]
  /\ look' = [look EXCEPT ![n] = IF to = "idle" THEN NoLook ELSE seen]

\* Go on at "ask" while there are members to be asked, or else at to.
AskOr(n, ask, members, to, seen) ==
  Go(n, IF members = {} THEN to ELSE ask, [seen EXCEPT !.waiting = members])

\* What n knows after loading the cluster and looking at its own WAL.
Loaded(n) == [NoLook EXCEPT !.key = failover, !.sync = sync, !.last = lastLsn,
                            !.tl = timeline, !.lsn = Lsn(n)]

\* sync_mode_is_active(), and SyncState.matches(name, True), of a cluster c.
SyncActive(c) == syncMode /\ c.sync.leader # NoNode
InSync(c, n) == n \in c.sync.members \cup {c.sync.leader}

\* fetch_node_status(m) is answered; failover_limitation() is None.
Answers(m) == up[m] /\ pg[m] # "down"
Fit(m) == Answers(m) /\ m \notin NoFailover

Lagging(c, lsn) == c.last > lsn + MaxLag

\* The wal_position in the answer of m: none of a primary.
Position(m) == IF pg[m] = "primary" THEN 0 ELSE Lsn(m)

\* get_failover_candidates(exclude_failover_candidate)
Candidates(c, n, exclude) ==
  {m \in Node \ (NoFailover \cup {n}) :
     /\ SyncActive(c) /\ m \notin c.sync.members => c.key # NoKey /\ c.key.leader = NoNode
     /\ exclude => m # c.key.candidate
     /\ c.key.candidate \in {NoNode, m}}

-----------------------------------------------------------------------------
(* The leader race *)

\* A primary without a leader key takes it back, but not when it knows that
\* another node has been promoted meanwhile.
PrimaryMayReturn(n) == Timeline(n) >= timeline

\* is_healthiest_node() of a running primary.
PrimaryRaces(n) ==
  /\ up[n] /\ pc[n] = "idle" /\ owner = NoNode /\ pg[n] = "primary"
  /\ IF PrimaryMayReturn(n) THEN Go(n, "acquire", Loaded(n)) /\ UNCHANGED pg
     ELSE pg' = [pg EXCEPT ![n] = "standby"] /\ UNCHANGED haVars
  /\ UNCHANGED <<syncMode, dcsVars, apiVars, up, wal, faults>>

\* Faulty: n asks itself as well.
AskEveryone(c, n, members) == AskOr(n, "race", members \ NoFailover, "acquire", c)

\* _is_healthiest_node(members): n asks those of them which may be promoted.
AskRivals(c, n, members) ==
  IF CheckTimeline /\ Timeline(n) < c.tl THEN Go(n, "idle", c)
  ELSE AskOr(n, "race", members \ (NoFailover \cup {n}), "acquire", c)

\* manual_failover_process_no_leader(), from "try to pick some other members" on.
\* The former leader takes the key back when no other node is fit.
PickOther(c, n) ==
  IF c.key.leader = n
  THEN AskOr(n, "retake", Candidates(c, n, c.key.candidate # NoNode), "acquire", c)
  ELSE AskRivals(c, n, Node \ {c.key.leader})

StandbyRaces(n) ==
  /\ up[n] /\ pc[n] = "idle" /\ owner = NoNode /\ pg[n] = "standby"
  /\ n \notin NoFailover
  /\ UNCHANGED <<syncMode, dcsVars, apiVars, nodeVars, faults>>

\* is_healthiest_node() of a standby when there is a /failover key, whatever the
\* time the switchover is scheduled at.
RaceForRequest(n) ==
  LET c == Loaded(n) IN
  /\ StandbyRaces(n) /\ failover # NoKey
  /\ SyncActive(c) /\ failover.leader # NoNode => InSync(c, n)
  /\ \/ failover.candidate = n /\ Go(n, "acquire", c)
     \/ /\ failover.candidate \notin {n, NoNode}
        /\ syncMode => InSync(c, n)
        /\ Go(n, "candidate", c)
     \/ failover.candidate = NoNode /\ PickOther(c, n)

\* Faulty: an asynchronous standby may race.
RaceAsync(n) ==
  LET c == Loaded(n) IN
  /\ StandbyRaces(n) /\ failover = NoKey
  /\ ~Lagging(c, Lsn(n))
  /\ AskRivals(c, n, IF SyncActive(c) THEN {m \in Node : InSync(c, m)} ELSE Node)

\* is_healthiest_node() of a standby in an automatic failover.
Race(n) ==
  LET c == Loaded(n) IN
  /\ StandbyRaces(n) /\ failover = NoKey
  /\ ~Lagging(c, Lsn(n))
  /\ SyncActive(c) => InSync(c, n)
  /\ AskRivals(c, n, IF SyncActive(c) THEN {m \in Node : InSync(c, m)} ELSE Node)

\* n goes on without m, at to when m was the last it asked.
Without(n, m, to, heard) ==
  AskOr(n, pc[n], look[n].waiting \ {m}, to,
        [look[n] EXCEPT !.heard = IF heard THEN @ \cup {m} ELSE @])

\* Faulty: two equals give way to each other.
BetterOrEqual(n, m) ==
  \/ pg[m] = "primary"
  \/ look[n].lsn <= Position(m) /\ ~(SyncActive(look[n]) /\ look[n].sync.leader = m)

\* Faulty: a rival is only asked whether it is a primary.
BetterPrimary(n, m) == pg[m] = "primary" \/ Priority[n] < Priority[m]

\* m is a better choice than n, by its answer.
Better(n, m) ==
  \/ pg[m] = "primary"
  \/ look[n].lsn < Position(m) /\ ~(SyncActive(look[n]) /\ look[n].sync.leader = m)
  \/ look[n].lsn = Position(m) /\ Priority[n] < Priority[m]

\* The answer, or the timeout, of a rival in _is_healthiest_node.
AskRival(n, m) ==
  /\ up[n] /\ pc[n] = "race" /\ m \in look[n].waiting
  /\ IF ~Fit(m) THEN Without(n, m, "acquire", FALSE)
     ELSE IF Better(n, m) THEN Go(n, "idle", look[n])
     ELSE Without(n, m, "acquire", TRUE)
  /\ UNCHANGED <<syncMode, dcsVars, apiVars, nodeVars, faults>>

\* The candidate of the /failover key: when it is fit n leaves the key to it.
AskCandidate(n) ==
  /\ up[n] /\ pc[n] = "candidate"
  /\ IF Fit(look[n].key.candidate) THEN Go(n, "idle", look[n])
     ELSE PickOther([look[n] EXCEPT !.lsn = Lsn(n)], n)
  /\ UNCHANGED <<syncMode, dcsVars, apiVars, nodeVars, faults>>

\* is_failover_possible(): the answer of one of the candidates.
Possible(c, m) ==
  Fit(m) /\ ~Lagging(c, Position(m)) /\ (CheckTimeline => Timeline(m) >= c.tl)

\* The former leader asks whether any other node is fit.
AskSuccessor(n, m) ==
  /\ up[n] /\ pc[n] = "retake" /\ m \in look[n].waiting
  /\ IF Possible(look[n], m) THEN Go(n, "idle", look[n]) ELSE Without(n, m, "acquire", FALSE)
  /\ UNCHANGED <<syncMode, dcsVars, apiVars, nodeVars, faults>>

\* acquire_lock(): a node that fails follows the winner.
Acquire(n) ==
  /\ up[n] /\ pc[n] = "acquire"
  /\ IF owner = NoNode
     THEN /\ owner' = n
          /\ Go(n, IF look[n].key # NoKey THEN "clean" ELSE "enforce", look[n])
     ELSE Go(n, "idle", look[n]) /\ UNCHANGED owner
  /\ UNCHANGED <<syncMode, lastLsn, timeline, failover, sync, apiVars, nodeVars, faults>>

\* 'Cleaning up failover key after acquiring leader lock': whatever is there.
CleanKey(n) ==
  /\ up[n] /\ pc[n] = "clean"
  /\ failover' = NoKey
  /\ Go(n, "enforce", look[n])
  /\ UNCHANGED <<syncMode, owner, lastLsn, timeline, sync, apiVars, nodeVars, faults>>

\* enforce_primary_role(): update_cluster_history() of a primary; a standby
\* claims /sync and promotes.
EnforcePrimaryRole(n) ==
  /\ up[n] /\ pc[n] = "enforce"
  /\ timeline' = IF pg[n] = "primary" THEN Timeline(n) ELSE timeline
  /\ Go(n, IF pg[n] = "standby" THEN "promote" ELSE "idle", NoLook)
  /\ sync' = IF syncMode /\ pg[n] = "standby" THEN [leader |-> n, members |-> {}] ELSE sync
  /\ UNCHANGED <<syncMode, owner, lastLsn, failover, apiVars, nodeVars, faults>>

\* The background task: a new timeline begins with a record of its own.
Promote(n) ==
  /\ up[n] /\ pc[n] = "promote"
  /\ pg[n] = "standby"
  /\ pg' = [pg EXCEPT ![n] = "primary"]
  /\ wal' = [wal EXCEPT ![n] = Append(@, Timeline(n) + 1)]
  /\ Go(n, "idle", NoLook)
  /\ UNCHANGED <<syncMode, dcsVars, apiVars, up, faults>>

-----------------------------------------------------------------------------
(* The leader *)

\* process_healthy_cluster() with the lock: update_lock(True), and then
\* process_manual_failover_from_leader() for a key whose time has come.
LeaderCycle(n) ==
  LET c == Loaded(n)
      Now == failover # NoKey /\ failover.at # "later"
      Mine == failover.leader \in {NoNode, n} /\ failover.candidate # n
      next == IF ~Now THEN "enforce"
              ELSE IF failover.at = "past" \/ ~Mine THEN "unkey" ELSE "handover"
  IN  /\ up[n] /\ pc[n] = "idle" /\ owner = n /\ pg[n] # "down"
      /\ lastLsn' = Lsn(n)
      /\ IF next = "handover" THEN AskOr(n, "handover", Candidates(c, n, FALSE), "unkey", c)
         ELSE Go(n, next, c)
      /\ UNCHANGED <<syncMode, owner, timeline, failover, sync, apiVars, nodeVars, faults>>

\* is_failover_possible() of the leader: any fit candidate will do.
AskHeir(n, m) ==
  /\ up[n] /\ pc[n] = "handover" /\ m \in look[n].waiting
  /\ IF Possible(look[n], m) THEN Go(n, "demote", look[n]) ELSE Without(n, m, "unkey", FALSE)
  /\ UNCHANGED <<syncMode, dcsVars, apiVars, nodeVars, faults>>

\* Faulty: the key is left in place.
KeepKey(n) ==
  /\ up[n] /\ pc[n] = "unkey"
  /\ Go(n, "enforce", look[n])
  /\ UNCHANGED <<syncMode, dcsVars, apiVars, nodeVars, faults>>

\* 'Cleaning up failover key', unless it was written since it was loaded.
RemoveKey(n) ==
  /\ up[n] /\ pc[n] = "unkey"
  /\ failover' = IF failover.version = look[n].key.version THEN NoKey ELSE failover
  /\ Go(n, "enforce", look[n])
  /\ UNCHANGED <<syncMode, owner, lastLsn, timeline, sync, apiVars, nodeVars, faults>>

\* demote('graceful'): postgres is stopped, and then the key released with the
\* LSN of the shutdown checkpoint.
StopPostgres(n) ==
  /\ up[n] /\ pc[n] = "demote"
  /\ pg' = [pg EXCEPT ![n] = "down"]
  /\ Go(n, "release", NoLook)
  /\ UNCHANGED <<syncMode, dcsVars, apiVars, up, wal, faults>>

ReleaseKey(n) ==
  /\ up[n] /\ pc[n] = "release"
  /\ PromptRace => \A m \in Node : pc[m] \notin Racing
  /\ owner' = IF owner = n THEN NoNode ELSE owner
  /\ lastLsn' = IF owner = n THEN Lsn(n) ELSE lastLsn
  /\ Go(n, "idle", NoLook)
  /\ UNCHANGED <<syncMode, timeline, failover, sync, apiVars, nodeVars, faults>>

\* process_sync_replication(): the primary publishes some of its standbys.
PublishSync(n) ==
  /\ syncMode /\ up[n] /\ pc[n] = "idle" /\ owner = n /\ pg[n] = "primary"
  /\ \E members \in SUBSET {m \in Node \ {n} : pg[m] = "standby" /\ wal[m] = wal[n]} :
       sync' = [leader |-> n, members |-> members]
  /\ sync' # sync
  /\ UNCHANGED <<syncMode, owner, lastLsn, timeline, failover, apiVars, nodeVars, haVars, faults>>

-----------------------------------------------------------------------------
(* The REST API: do_POST_failover and do_POST_switchover *)

\* The members of which one must be fit for an immediate request.
Targets(leader, candidate) ==
  IF candidate # NoNode
  THEN {candidate} \cap (IF syncMode /\ leader # NoNode THEN sync.members ELSE Node)
  ELSE IF syncMode THEN sync.members ELSE Node \ {owner}

\* A switchover names the leader, a failover a candidate only.  The candidate of
\* a scheduled switchover is not checked yet; that it names the leader is what
\* patronictl sees to.
CheckRequest(leader, candidate, at) ==
  /\ request = NoKey /\ requests < MaxRequests /\ faults + requests < MaxEvents
  /\ leader # candidate
  /\ leader \in {owner, NoNode}
  /\ \/ at = "later" /\ Scheduling /\ leader # NoNode
     \/ at = "none" /\ \E m \in Targets(leader, candidate) : Fit(m)
  /\ leader = NoNode => candidate # NoNode
  /\ request' = [leader |-> leader, candidate |-> candidate, at |-> at,
                 version |-> requests + 1]
  /\ requests' = requests + 1
  /\ UNCHANGED <<syncMode, dcsVars, nodeVars, haVars, faults>>

\* manual_failover(): the key is written, whatever it was.
WriteRequest ==
  /\ request # NoKey
  /\ failover' = request /\ request' = NoKey
  /\ UNCHANGED <<syncMode, owner, lastLsn, timeline, sync, requests, nodeVars, haVars, faults>>

TimePasses ==
  /\ failover.at \in {"later", "due"}
  /\ failover' = [failover EXCEPT !.at = IF @ = "later" THEN "due" ELSE "past"]
  /\ UNCHANGED <<syncMode, owner, lastLsn, timeline, sync, apiVars, nodeVars, haVars, faults>>

-----------------------------------------------------------------------------
(* Postgres *)

Commit(n) ==
  /\ pg[n] = "primary" /\ Lsn(n) < MaxLsn
  /\ wal' = [wal EXCEPT ![n] = Append(@, Timeline(n))]
  /\ UNCHANGED <<syncMode, dcsVars, apiVars, up, pg, haVars, faults>>

\* A standby receives the next record of a primary it may stream from.
Stream(s, p) ==
  /\ pg[s] = "standby" /\ pg[p] = "primary"
  /\ IsStrictPrefix(wal[s], wal[p])
  /\ wal' = [wal EXCEPT ![s] = SubSeq(wal[p], 1, Len(@) + 1)]
  /\ UNCHANGED <<syncMode, dcsVars, apiVars, up, pg, haVars, faults>>

\* A standby whose WAL has diverged from that of the leader is rewound.
Rewind(s) ==
  /\ up[s] /\ pc[s] = "idle" /\ pg[s] = "standby"
  /\ owner \notin {s, NoNode} /\ pg[owner] = "primary"
  /\ ~IsPrefix(wal[s], wal[owner])
  /\ wal' = [wal EXCEPT ![s] = wal[owner]]
  /\ UNCHANGED <<syncMode, dcsVars, apiVars, up, pg, haVars, faults>>

\* recover(), or the end of demote(): postgres is started as a standby.
StartStandby(n) ==
  /\ up[n] /\ pc[n] = "idle" /\ pg[n] = "down"
  /\ pg' = [pg EXCEPT ![n] = "standby"]
  /\ UNCHANGED <<syncMode, dcsVars, apiVars, up, wal, haVars, faults>>

\* follow(): a primary demotes itself when another node has the key.
FollowLeader(n) ==
  /\ up[n] /\ pc[n] = "idle" /\ pg[n] = "primary" /\ owner \notin {n, NoNode}
  /\ pg' = [pg EXCEPT ![n] = "standby"]
  /\ UNCHANGED <<syncMode, dcsVars, apiVars, up, wal, haVars, faults>>

-----------------------------------------------------------------------------
(* Faults *)

Fault == faults + requests < MaxEvents /\ faults' = faults + 1

\* The machine of n stops.
Crash(n) ==
  /\ Fault /\ up[n]
  /\ up' = [up EXCEPT ![n] = FALSE]
  /\ pg' = [pg EXCEPT ![n] = "down"]
  /\ Go(n, "idle", NoLook)
  /\ UNCHANGED <<syncMode, dcsVars, apiVars, wal>>

\* Patroni is suspended, or cut off; postgres goes on.
Stall(n) ==
  /\ Fault /\ up[n]
  /\ up' = [up EXCEPT ![n] = FALSE]
  /\ UNCHANGED <<syncMode, dcsVars, apiVars, pg, wal, haVars>>

Return(n) ==
  /\ ~up[n]
  /\ up' = [up EXCEPT ![n] = TRUE]
  /\ UNCHANGED <<syncMode, dcsVars, apiVars, pg, wal, haVars, faults>>

\* The key of a leader that does not update it expires; its watchdog has fired
\* before.  The timing assumption: a node in a race asks for the key before the
\* key has been taken by another and is free again.
KeyExpires(n) ==
  /\ owner = n /\ ~up[n]
  /\ PromptRace => \A m \in Node \ {n} : pc[m] \notin Racing
  /\ owner' = NoNode
  /\ pg' = IF Watchdog THEN [pg EXCEPT ![n] = "down"] ELSE pg
  /\ IF Watchdog THEN Go(n, "idle", NoLook) ELSE UNCHANGED haVars
  /\ UNCHANGED <<syncMode, lastLsn, timeline, failover, sync, apiVars, up, wal, faults>>

-----------------------------------------------------------------------------
HaStep(n) ==
  \/ PrimaryRaces(n) \/ RaceForRequest(n) \/ Race(n)
  \/ AskCandidate(n) \/ Acquire(n) \/ CleanKey(n) \/ EnforcePrimaryRole(n) \/ Promote(n)
  \/ \E m \in Node : AskRival(n, m) \/ AskSuccessor(n, m) \/ AskHeir(n, m)
  \/ LeaderCycle(n) \/ RemoveKey(n) \/ StopPostgres(n) \/ ReleaseKey(n)
  \/ StartStandby(n) \/ FollowLeader(n)

PostgresStep(n) == Commit(n) \/ Rewind(n) \/ \E p \in Node : Stream(n, p)

ApiStep ==
  \/ \E leader, candidate \in Node \cup {NoNode}, at \in {"none", "later"} :
       CheckRequest(leader, candidate, at)
  \/ WriteRequest \/ TimePasses

Next ==
  \/ \E n \in Node : HaStep(n) \/ PostgresStep(n) \/ PublishSync(n)
  \/ \E n \in Node : Crash(n) \/ Stall(n) \/ Return(n) \/ KeyExpires(n)
  \/ ApiStep

Spec == Init /\ [][Next]_vars

\* Every node goes on with its cycles, a node that stopped comes back, and the
\* key of one that does not update it expires.
Fairness ==
  /\ \A n \in Node :
       /\ WF_vars(HaStep(n)) /\ WF_vars(Rewind(n)) /\ WF_vars(Return(n))
       /\ WF_vars(KeyExpires(n))
       /\ \A p \in Node : WF_vars(Stream(n, p))
  /\ WF_vars(WriteRequest) /\ WF_vars(TimePasses)

FairSpec == Spec /\ Fairness

-----------------------------------------------------------------------------
(* Properties *)

Wins(n) == owner # n /\ owner' = n

\* "In case of [...] an automatic failover, not exceed maximum replication lag"
\* (docs/rest_api.rst): a standby that takes the key when no failover has been
\* asked for now is within MaxLag of the last LSN that a leader reported.
WinnerWithinLag ==
  [][\A n \in Node : Wins(n) /\ pg[n] = "standby" /\ (failover = NoKey \/ failover.at = "later")
                       => lastLsn <= Lsn(n) + MaxLag]_vars

\* The winner of a race is not behind any member that answered it, other than
\* the former leader in synchronous mode: what reached a standby that stays
\* reachable survives the failover.
WinnerAhead ==
  [][\A n \in Node : Wins(n) =>
       \A m \in look[n].heard : Lsn(m) <= Lsn(n) \/ (syncMode /\ look[n].sync.leader = m)]_vars

\* "Patroni will not promote a standby unless it is certain that the standby
\* contains all transactions that may have returned a successful commit status"
\* (docs/replication_modes.rst): unless a failover has been asked for, the winner
\* is listed in /sync, not only when it looked but at the moment it wins.
WinnerInSync ==
  [][\A n \in Node : Wins(n) /\ pg[n] = "standby" /\ sync.leader # NoNode
                       /\ (look[n].key = NoKey \/ look[n].key.leader # NoNode)
                       => n \in sync.members \cup {sync.leader}]_vars

\* "node1 discarded promotion of node2. To avoid it we want to detect timeline
\* change" (ha.py): a primary does not take the key back after a promotion.
PromotionKept ==
  [][\A n \in Node : Wins(n) /\ pg[n] = "primary" =>
       \A m \in Node : Timeline(m) <= Timeline(n)]_vars

\* "I was the leader and it looks like currently I am the only healthy member"
\* (manual_failover_process_no_leader): the former leader takes the key back
\* when the candidate is unfit only if every other member is unfit too.
RetakesAlone ==
  [][\A n \in Node : pc[n] = "candidate" /\ pc'[n] = "acquire" /\ look[n].key.leader = n =>
       \A m \in Node \ {n} : ~Possible(look[n], m)]_vars

\* "Patroni will automatically promote a sufficiently healthy standby"
\* (docs/replication_modes.rst): when all nodes are back the cluster elects a
\* leader.
LeaderElected == []<>(owner # NoNode)

\* A failover request is dealt with in the end.
RequestSettled ==
  \A v \in 1 .. MaxRequests : (failover.version = v) ~> (failover.version # v)
=============================================================================
