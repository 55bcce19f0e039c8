--------------------------- MODULE SyncReplication ---------------------------
(***************************************************************************)
(* Synchronous replication in Patroni: the /sync key in the DCS, the       *)
(* synchronous_standby_names of postgres, and the promotion of a standby.  *)
(*                                                                         *)
(* The primary publishes in /sync the standbys that may replace it.  The   *)
(* nodes compare and set the key by its version; between two requests to   *)
(* the DCS or to postgres anything may happen.  synchronous_mode is on in  *)
(* all the states of this module.                                          *)
(*                                                                         *)
(* The leader key is taken as LeaderLease proves it: a node with a primary *)
(* that loses the key is reset at that moment (PrimaryHoldsKey).           *)
(***************************************************************************)
EXTENDS Naturals, FiniteSets, Sequences, SequencesExt

CONSTANTS
  Node,          \* the members of the cluster, and their application_names
  NoNode,        \* None
  Star,          \* '*', in synchronous_standby_names
  NodeCount,     \* synchronous_node_count
  Strictness,    \* the values of synchronous_mode_strict to be considered
  PromptRace,    \* whether a leader race ends while the key it lost is still held
  Joining,       \* whether Patroni may restart while its primary keeps running: the values considered
  MaxTxns        \* bound on the transactions of a behaviour

ASSUME SyncAssumption ==
  /\ NoNode \notin Node /\ Star \notin Node
  /\ NodeCount \in Nat \ {0} /\ MaxTxns \in Nat
  /\ Strictness \subseteq BOOLEAN /\ PromptRace \in BOOLEAN /\ Joining \subseteq BOOLEAN

VARIABLES
  owner,    \* the node named in the leader key
  sync,     \* the /sync key: leader and members; no leader: the key is empty
  fresh,    \* the nodes whose version of /sync is the current one
  pc,       \* where the HA loop of each node is
  sr,       \* what process_sync_replication has read and decided in this cycle:
            \* self.cluster.sync.members, picked, allow_promote and sync_common
  strict,   \* synchronous_mode_strict, the same during a behaviour
  joins,    \* whether Patroni may restart beside its primary in this behaviour
  conf,     \* synchronous_standby_names in postgresql.conf and _server_parameters
  known,    \* SyncHandler._synchronous_standby_names
  flush,    \* SyncHandler._primary_flush_lsn
  ready,    \* SyncHandler._ready_replicas
  pg,       \* what postgres is on each node; crashed: Patroni remembers a primary
  ssn,      \* synchronous_standby_names, as the running postgres applies it
  wal,      \* the WAL of each node: a sequence of transactions
  link,     \* the primary that a standby is streaming from
  acked     \* history: the transactions reported as committed to a client

dcsVars == <<owner, sync, fresh>>
haVars == <<pc, sr>>
handlerVars == <<known, flush, ready>>
pgVars == <<pg, ssn, wal, link, acked>>
vars == <<dcsVars, haVars, strict, joins, conf, handlerVars, pgVars>>

Names == (SUBSET Node) \cup {{Star}}
NoSr == [seen |-> {}, picked |-> {}, allow |-> {}, common |-> {}]
Txns == UNION {Range(wal[n]) : n \in Node}

\* Every variable has its type.
TypeOK ==
  /\ owner \in Node \cup {NoNode}
  /\ sync \in [leader : Node \cup {NoNode}, members : SUBSET Node]
  /\ fresh \in SUBSET Node
  /\ strict \in Strictness /\ joins \in Joining
  /\ pc \in [Node -> {"idle", "race", "reload", "claim", "promote", "enable", "assess",
                      "shrink", "names", "settle", "recheck", "publish"}]
  /\ sr \in [Node -> [seen : SUBSET Node, picked : SUBSET Node, allow : SUBSET Node,
                     common : SUBSET Node]]
  /\ conf \in [Node -> Names] /\ known \in [Node -> Names] /\ ssn \in [Node -> Names]
  /\ flush \in [Node -> 0 .. MaxTxns]
  /\ ready \in [Node -> SUBSET Node]
  /\ pg \in [Node -> {"primary", "standby", "crashed", "down"}]
  /\ \A n \in Node : wal[n] \in Seq(1 .. MaxTxns)
  /\ link \in [Node -> Node \cup {NoNode}]
  /\ acked \in SUBSET (1 .. MaxTxns)

\* synchronous_mode has just been turned on in a healthy cluster: with
\* synchronous_mode_strict the primary takes '*' when it reloads the configuration.
Init ==
  /\ owner \in Node
  /\ sync = [leader |-> NoNode, members |-> {}]
  /\ fresh = {}
  /\ strict \in Strictness /\ joins \in Joining
  /\ pc = [n \in Node |-> "idle"]
  /\ sr = [n \in Node |-> NoSr]
  /\ conf = [n \in Node |-> IF strict /\ n = owner THEN {Star} ELSE {}]
  /\ ssn = [n \in Node |-> {}] /\ known = ssn /\ ready = ssn
  /\ flush = [n \in Node |-> 0]
  /\ pg = [n \in Node |-> IF n = owner THEN "primary" ELSE "standby"]
  /\ wal = [n \in Node |-> <<>>]
  /\ link = [n \in Node |-> NoNode]
  /\ acked = {}

-----------------------------------------------------------------------------
(* Helpers *)

Goto(n, to) == pc' = [pc EXCEPT ![n] = to]

\* process_sync_replication goes on at next, or returns.
Continue(n, next) ==
  /\ Goto(n, next)
  /\ sr' = IF next = "idle" THEN [sr EXCEPT ![n] = NoSr] ELSE sr

\* Faulty: every node may race.
AnyMayRace(n) == n \in Node

\* SyncState.matches(name, True)
MayRace(n) == sync.leader = NoNode \/ n \in sync.members \cup {sync.leader}

\* write_sync_state(n, members, version) with the version n has: it goes on at
\* next, or the key was written by somebody else or the request failed, or it
\* was applied and its answer lost; then the cycle ends.
WriteSync(n, members, next) ==
  LET Write == sync' = [leader |-> n, members |-> members]
  IN  \/ n \in fresh /\ Write /\ fresh' = {n} /\ Continue(n, next)
      \/ n \in fresh /\ Write /\ fresh' = {} /\ Continue(n, "idle")
      \/ UNCHANGED <<sync, fresh>> /\ Continue(n, "idle")

\* The timing assumption: a reload signalled to postgres is over two seconds
\* later, and so before the second look of the same cycle and before the next.
Reloaded(n) == ssn[n] = conf[n]

\* The standbys listed in pg_stat_replication in state streaming.
Streaming(n) == {s \in Node : link[s] = n}

\* Faulty: one past the flush position.
NamesChangeAhead(n) ==
  /\ known' = [known EXCEPT ![n] = ssn[n]]
  /\ flush' = [flush EXCEPT ![n] = Len(wal[n]) + 1]

\* _handle_synchronous_standby_names_change(), on the values of one query.
NamesChange(n) ==
  /\ known' = [known EXCEPT ![n] = ssn[n]]
  /\ flush' = IF ssn[n] = known[n] THEN flush ELSE [flush EXCEPT ![n] = Len(wal[n])]

KeptReady(n) == IF ssn[n] = known[n] THEN ready[n] ELSE ready[n] \cap ssn[n]

\* Faulty: a replica is ready as soon as it is listed.
AllReady(n, list) == ready' = [ready EXCEPT ![n] = KeptReady(n) \cup (list \cap ssn[n])]

\* _process_replica_readiness() for the replicas in list: one that is listed in
\* synchronous_standby_names becomes ready when it was listed in /sync, or when
\* it is sync and has reached the flush position.
ProcessReadiness(n, list) ==
  ready' = [ready EXCEPT ![n] = KeptReady(n) \cup
             {s \in list \cap ssn[n] : s \in sr[n].seen \/ Len(wal[s]) >= flush'[n]}]

\* current_state(): candidates are chosen among the streaming replicas that
\* have no nosync tag, run, and do not lag: any set, here, of at most NodeCount.
\* Those of them that are sync and ready may be published.
CurrentState(n, picked) ==
  \E list \in SUBSET Streaming(n) :
    /\ NamesChange(n)
    /\ ProcessReadiness(n, list)
    /\ picked \subseteq list
    /\ Cardinality(picked) <= NodeCount

\* current_state().sync: the picked ones that postgres treats as sync by now.
SyncOf(n, picked) == picked \cap ssn[n] \cap ready'[n]

-----------------------------------------------------------------------------
(* The leader race and the promotion *)

\* load_cluster_from_dcs() at the start of a cycle, and what follows from it: the
\* primary with the lock processes synchronous replication, another node with
\* the lock claims /sync, and without a leader the nodes in /sync race.
LoadCluster(n) ==
  /\ pc[n] = "idle"
  /\ \/ pg[n] = "primary" /\ owner = n /\ Reloaded(n) /\
        Goto(n, IF sync.leader = NoNode THEN "enable" ELSE "assess")
     \/ pg[n] = "standby" /\ owner = n /\ Goto(n, "claim")
     \/ pg[n] = "standby" /\ owner = NoNode /\ MayRace(n) /\ Goto(n, "race")
  /\ sr' = IF pg[n] = "primary" THEN [sr EXCEPT ![n].seen = sync.members] ELSE sr
  /\ fresh' = fresh \cup {n}
  /\ UNCHANGED <<owner, sync, conf, handlerVars, pgVars>>

\* acquire_lock()
Acquire(n) ==
  /\ pc[n] = "race"
  /\ owner' = IF owner = NoNode THEN n ELSE owner
  /\ Goto(n, IF owner = NoNode THEN "reload" ELSE "idle")
  /\ UNCHANGED <<sync, fresh, sr, conf, handlerVars, pgVars>>

\* load_cluster_from_dcs() after acquiring the lock
Reload(n) ==
  /\ pc[n] = "reload"
  /\ Goto(n, "claim")
  /\ fresh' = fresh \cup {n}
  /\ UNCHANGED <<owner, sync, sr, conf, handlerVars, pgVars>>

\* Faulty: a promotion that leaves /sync to the first cycle of the primary.
ClaimNothing(n) ==
  /\ pc[n] = "claim"
  /\ Goto(n, "promote")
  /\ conf' = [conf EXCEPT ![n] = IF strict THEN {Star} ELSE {}]
  /\ UNCHANGED <<dcsVars, sr, handlerVars, pgVars>>

\* enforce_primary_role() of a node that is not a primary yet.
Claim(n) ==
  /\ pc[n] = "claim"
  /\ WriteSync(n, {}, "promote")
  /\ conf' = IF pc'[n] = "promote"
             THEN [conf EXCEPT ![n] = IF strict THEN {Star} ELSE {}] ELSE conf
  /\ UNCHANGED <<owner, handlerVars, pgVars>>

\* The standby ends recovery, and stops streaming.
Promote(n) ==
  /\ pc[n] = "promote"
  /\ Goto(n, "idle")
  /\ pg' = [pg EXCEPT ![n] = "primary"]
  /\ ssn' = [ssn EXCEPT ![n] = conf[n]]
  /\ link' = [link EXCEPT ![n] = NoNode]
  /\ UNCHANGED <<dcsVars, sr, conf, handlerVars, wal, acked>>

-----------------------------------------------------------------------------
(* process_sync_replication() *)

\* The key is empty: it is written with the leader and no members.
Enable(n) ==
  /\ pc[n] = "enable"
  /\ WriteSync(n, {}, "assess")
  /\ UNCHANGED <<owner, conf, handlerVars, pgVars>>

\* The first current_state(): nothing to do, or the key does not say what
\* postgres does, or other standbys are picked.
Assess(n) ==
  /\ pc[n] = "assess"
  /\ \E picked \in SUBSET Streaming(n) :
       LET seen == sr[n].seen
           allow == SyncOf(n, picked)
           common == IF picked = seen THEN allow ELSE seen \cap allow IN
       /\ CurrentState(n, picked)
       /\ IF picked = seen /\ allow = seen THEN Continue(n, "idle")
          ELSE /\ Goto(n, IF common = seen THEN "names" ELSE "shrink")
               /\ sr' = [sr EXCEPT ![n] = [seen |-> seen, picked |-> picked, allow |-> allow,
                                          common |-> common]]
  /\ UNCHANGED <<dcsVars, conf, pgVars>>

\* Faulty: the names change before the key does.
SkipShrink(n) ==
  /\ pc[n] = "shrink"
  /\ Goto(n, "names")
  /\ UNCHANGED <<dcsVars, sr, conf, handlerVars, pgVars>>

\* 'Inconsistent state between synchronous_standby_names and /sync', where the
\* key becomes allow_promote, or 'Updating synchronous privilege temporarily'.
Shrink(n) ==
  /\ pc[n] = "shrink"
  /\ WriteSync(n, sr[n].common, "names")
  /\ UNCHANGED <<owner, conf, handlerVars, pgVars>>

NewNames(n) == IF strict /\ sr[n].picked = {} THEN {Star} ELSE sr[n].picked

\* Names given to standbys that postgres does not treat as sync yet.
Recheck(n) == sr[n].picked # {} /\ sr[n].allow # sr[n].picked

\* set_synchronous_standby_names() writes the file and signals a reload.
SetNames(n) ==
  /\ pc[n] = "names"
  /\ conf' = [conf EXCEPT ![n] = NewNames(n)]
  /\ Goto(n, IF NewNames(n) \notin {conf[n], {Star}} THEN "settle"
             ELSE IF Recheck(n) THEN "recheck" ELSE "publish")
  /\ UNCHANGED <<dcsVars, sr, handlerVars, pgVars>>

\* 0.1 seconds later it looks whether postgres has taken the new value.
Settle(n) ==
  /\ pc[n] = "settle"
  /\ NamesChange(n)
  /\ ready' = [ready EXCEPT ![n] = KeptReady(n)]
  /\ Goto(n, IF Recheck(n) THEN "recheck" ELSE "publish")
  /\ UNCHANGED <<dcsVars, sr, conf, pgVars>>

\* The second current_state(), two seconds later, of the same self.cluster.
AssessAgain(n) ==
  /\ pc[n] = "recheck" /\ Reloaded(n)
  /\ \E picked \in SUBSET Streaming(n) :
       /\ CurrentState(n, picked)
       /\ sr' = [sr EXCEPT ![n].allow = SyncOf(n, picked)]
  /\ Goto(n, "publish")
  /\ UNCHANGED <<dcsVars, conf, pgVars>>

Publish(n) ==
  /\ pc[n] = "publish"
  /\ IF sr[n].allow \in {{}, sr[n].common}
     THEN Continue(n, "idle") /\ UNCHANGED <<sync, fresh>>
     ELSE WriteSync(n, sr[n].allow, "idle")
  /\ UNCHANGED <<owner, conf, handlerVars, pgVars>>

-----------------------------------------------------------------------------
(* Postgres *)

\* The running postgres takes synchronous_standby_names from the file.
ReloadNames(n) ==
  /\ pg[n] = "primary" /\ ssn[n] # conf[n]
  /\ ssn' = [ssn EXCEPT ![n] = conf[n]]
  /\ UNCHANGED <<dcsVars, haVars, conf, handlerVars, pg, wal, link, acked>>

Commit(n) ==
  /\ pg[n] = "primary" /\ Cardinality(Txns \cup acked) < MaxTxns
  /\ wal' = [wal EXCEPT ![n] =
               Append(@, CHOOSE t \in 1 .. MaxTxns : t \notin Txns \cup acked)]
  /\ UNCHANGED <<dcsVars, haVars, conf, handlerVars, pg, ssn, link, acked>>

\* The clients of a primary may hear of the commit of its first k transactions:
\* all the names, or any one for '*', have received them.
Ack(n) ==
  /\ pg[n] = "primary" /\ sync.leader # NoNode
  /\ \E k \in 1 .. Len(wal[n]) :
       /\ IF ssn[n] = {Star} THEN \E s \in Streaming(n) : Len(wal[s]) >= k
          ELSE \A s \in ssn[n] : link[s] = n /\ Len(wal[s]) >= k
       /\ acked' = acked \cup {wal[n][i] : i \in 1 .. k}
  /\ acked' # acked
  /\ UNCHANGED <<dcsVars, haVars, conf, handlerVars, pg, ssn, wal, link>>

\* The lengths up to which the WAL of s is that of p.
Shared(s, p) == {k \in 0 .. Len(wal[p]) :
                   k <= Len(wal[s]) /\ SubSeq(wal[s], 1, k) = SubSeq(wal[p], 1, k)}

\* A standby connects to the primary that holds the key, after pg_rewind when
\* its WAL has diverged, and streams when it has caught up.
Connect(s, p) ==
  /\ pg[s] = "standby" /\ link[s] = NoNode /\ pc[s] = "idle"
  /\ pg[p] = "primary" /\ owner = p
  /\ \E k \in 0 .. Len(wal[p]) :
       /\ \A j \in Shared(s, p) : j <= k
       /\ wal' = [wal EXCEPT ![s] = SubSeq(wal[p], 1, k)]
       /\ link' = [link EXCEPT ![s] = IF k = Len(wal[p]) THEN p ELSE NoNode]
  /\ UNCHANGED <<dcsVars, haVars, conf, handlerVars, pg, ssn, acked>>

Stream(s) ==
  /\ link[s] # NoNode /\ Len(wal[s]) < Len(wal[link[s]])
  /\ wal' = [wal EXCEPT ![s] = SubSeq(wal[link[s]], 1, Len(@) + 1)]
  /\ UNCHANGED <<dcsVars, haVars, conf, handlerVars, pg, ssn, link, acked>>

Disconnect(s) ==
  /\ link[s] # NoNode
  /\ link' = [link EXCEPT ![s] = NoNode]
  /\ UNCHANGED <<dcsVars, haVars, conf, handlerVars, pg, ssn, wal, acked>>

-----------------------------------------------------------------------------
(* Faults *)

Unlink(n) == link' = [s \in Node |-> IF s = n \/ link[s] = n THEN NoNode ELSE link[s]]

\* A new Patroni process: SyncHandler and _server_parameters start anew.
NewProcess(n) ==
  /\ Continue(n, "idle")
  /\ known' = [known EXCEPT ![n] = {}]
  /\ flush' = [flush EXCEPT ![n] = 0]
  /\ ready' = [ready EXCEPT ![n] = {}]
  /\ conf' = [conf EXCEPT ![n] = {}]

\* The machine of n stops or is reset.
MachineStops(n) ==
  /\ NewProcess(n)
  /\ pg' = [pg EXCEPT ![n] = "down"]
  /\ Unlink(n)
  /\ ssn' = [ssn EXCEPT ![n] = {}]
  /\ UNCHANGED <<wal, acked>>

MachineCrash(n) ==
  /\ pg[n] # "down"
  /\ MachineStops(n)
  /\ UNCHANGED dcsVars

\* Postgres crashes; the HA loop ends its cycle.
PgCrash(n) ==
  /\ pg[n] \in {"primary", "standby"}
  /\ Continue(n, "idle")
  /\ pg' = [pg EXCEPT ![n] = IF pg[n] = "primary" THEN "crashed" ELSE "down"]
  /\ ssn' = [ssn EXCEPT ![n] = {}]
  /\ Unlink(n)
  /\ UNCHANGED <<dcsVars, conf, handlerVars, wal, acked>>

\* 'starting primary after failure', with the names of before.
RecoverPrimary(n) ==
  /\ pg[n] = "crashed" /\ owner = n
  /\ pg' = [pg EXCEPT ![n] = "primary"]
  /\ ssn' = [ssn EXCEPT ![n] = conf[n]]
  /\ UNCHANGED <<dcsVars, haVars, conf, handlerVars, wal, link, acked>>

\* recover() or demote(): postgres starts as a standby, without names.
StartStandby(n) ==
  /\ pg[n] \in {"crashed", "down"} \/ (pg[n] = "primary" /\ pc[n] = "idle" /\ owner # n)
  /\ pg' = [pg EXCEPT ![n] = "standby"]
  /\ conf' = [conf EXCEPT ![n] = {}]
  /\ ssn' = [ssn EXCEPT ![n] = {}]
  /\ Unlink(n)
  /\ UNCHANGED <<dcsVars, haVars, handlerVars, wal, acked>>

\* Patroni is restarted and joins its running primary: the constructor of
\* Postgresql reloads the configuration before global_config is set, so that it
\* takes synchronous_mode for off and removes the names from the file.
JoinRunning(n) ==
  /\ joins /\ pg[n] = "primary"
  /\ NewProcess(n)
  /\ UNCHANGED <<dcsVars, pgVars>>

\* The leader key expires or is released.  The timing assumption: a node that
\* has found itself fit for the leader race asks for the key before the key has
\* been taken by another and is free again.
LoseKey(n) ==
  /\ owner = n
  /\ PromptRace => \A m \in Node : pc[m] # "race"
  /\ owner' = NoNode
  /\ UNCHANGED <<sync, fresh>>
  /\ IF pg[n] = "primary" \/ pc[n] \in {"reload", "claim", "promote"}
     THEN MachineStops(n)
     ELSE UNCHANGED <<haVars, conf, handlerVars, pgVars>>

-----------------------------------------------------------------------------
ProcessSync(n) ==
  \/ Enable(n) \/ Assess(n) \/ Shrink(n) \/ SetNames(n) \/ Settle(n) \/ AssessAgain(n)
  \/ Publish(n)

NodeStep(n) ==
  \/ LoadCluster(n) \/ Acquire(n) \/ Reload(n) \/ Claim(n) \/ Promote(n) \/ ProcessSync(n)
  \/ ReloadNames(n) \/ Commit(n) \/ Ack(n) \/ Stream(n) \/ Disconnect(n)
  \/ \E p \in Node : Connect(n, p)
  \/ MachineCrash(n) \/ PgCrash(n) \/ RecoverPrimary(n) \/ StartStandby(n)
  \/ JoinRunning(n) \/ LoseKey(n)

Next == (\E n \in Node : NodeStep(n)) /\ UNCHANGED <<strict, joins>>

Spec == Init /\ [][Next]_vars

-----------------------------------------------------------------------------
(* Properties *)

\* "Patroni will not promote a standby unless it is certain that the standby
\* contains all transactions that may have returned a successful commit status
\* to client" (docs/replication_modes.rst), as long as no Patroni restarts beside its
\* running primary: then PublishedIsSet does not hold, nor does this.
NoAcknowledgedLoss ==
  ~joins => \A n \in Node : (pg[n] = "primary" /\ owner = n) => acked \subseteq Range(wal[n])

\* "A node must be set as the synchronous standby in PostgreSQL as long as it is
\* published as the synchronous standby" (docs/replication_modes.rst).
PublishedIsSet ==
  ~joins => \A n \in Node : (pg[n] = "primary" /\ sync.leader = n) => sync.members \subseteq ssn[n]

\* "A node must be marked as the latest leader whenever it can accept write
\* transactions" (docs/replication_modes.rst): the primary with the leader key is
\* the leader in /sync, from the first time the key is written.
MarkedAsLeader ==
  \A n \in Node : (pg[n] = "primary" /\ owner = n) => sync.leader \in {n, NoNode}
=============================================================================
