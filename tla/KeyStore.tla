------------------------------ MODULE KeyStore ------------------------------
(***************************************************************************)
(* What the backends of dcs/ have in common: keys with versions in a       *)
(* store, the cluster as each node has it cached, and the operations of    *)
(* AbstractDCS, each a sequence of requests.  Between two requests the     *)
(* store may change.  A request may not arrive, or its answer may be lost; *)
(* it is then repeated, or the operation fails.                            *)
(***************************************************************************)
EXTENDS Naturals, Sequences, FiniteSets

CONSTANTS
  Node,     \* the members
  None,     \* no node
  MaxRev,   \* bound: writes the store accepts
  MaxLag,   \* bound: events that a watcher was not told yet
  Session,  \* numbers for sessions and leases, bounds how many there are at a time
  OpGroups  \* sets of operations: those that a behaviour has beside one another

\* What the owner of a key is, when it is not a session or a lease: the key has a time
\* to live, or its time has passed and the store does not know; 0: none.
Ttl == 1
Lapsed == 100

ASSUME KeyStoreAssumption ==
  /\ None \notin Node /\ MaxRev \in Nat /\ MaxLag \in Nat
  /\ Session \subseteq Nat \ {0, Lapsed}
  /\ Node \cap {"leader", "sync", "initialize"} = {}

VARIABLES
  ops,     \* the operations that are called
  kv,      \* the keys in the store; member keys are named by their node
  rev,     \* how many writes the store has accepted
  live,    \* the sessions or leases that have not expired
  sess,    \* the session or lease each node believes to have, 0: none
  view,    \* the cluster each node has cached
  call,    \* the operation of each node: its next request, or how it ended
  stream,  \* what changed in the store and the watcher was not told yet
  seen,    \* the keys as of the last event that was delivered
  cache,   \* the keys as the node's watcher knows them
  had,     \* history: who has had the leader key since its operation began
  wrote,   \* history: what each node wrote to /sync or /initialize in its operation, and over what
  winners  \* the nodes that bootstrap: they were told that they won the initialize key

store == <<kv, rev, live>>
watcher == <<stream, seen, cache>>
history == <<had, wrote, winners>>
vars == <<ops, store, sess, view, call, watcher, history>>

Key == {"leader", "sync", "initialize"} \cup Node

\* A key without a value is not there.
Absent == [val |-> None, ver |-> 0, own |-> 0]
Entry(v, own) == [val |-> v, ver |-> rev + 1, own |-> own]
There(e) == e.val # None

Idle == [op |-> "none", pc |-> "done", ver |-> 0, ret |-> "none", got |-> 0]

Init ==
  /\ ops \in OpGroups
  /\ kv = [k \in Key |-> Absent] /\ rev = 0
  /\ live = {} /\ sess = [n \in Node |-> 0]
  /\ view = [n \in Node |-> kv]
  /\ call = [n \in Node |-> Idle]
  /\ stream = [n \in Node |-> <<>>]
  /\ seen = [n \in Node |-> kv] /\ cache = [n \in Node |-> kv]
  /\ had = {} /\ wrote = [n \in Node |-> {}] /\ winners = {}

-----------------------------------------------------------------------------
(* The store *)

Same == UNCHANGED store

Write(k, e) ==
  /\ rev < MaxRev
  /\ kv' = [kv EXCEPT ![k] = e]
  /\ rev' = rev + 1
  /\ UNCHANGED live

\* A session ends: its keys go with it.
Expire(s) ==
  /\ rev < MaxRev
  /\ s \in live
  /\ live' = live \ {s}
  /\ kv' = [k \in Key |-> IF kv[k].own = s THEN Absent ELSE kv[k]]
  /\ rev' = IF kv' # kv THEN rev + 1 ELSE rev

\* A key with a time to live that was not written in time goes.
Lapse(k) ==
  /\ kv[k].own # 0
  /\ Write(k, Absent)

Referenced(s) ==
  \/ s \in live
  \/ \E n \in Node : sess[n] = s \/ \E k \in Key : s \in {view[n][k].own, cache[n][k].own, seen[n][k].own}

Unused == {s \in Session : ~Referenced(s)}

-----------------------------------------------------------------------------
(* Watchers: the keys that changed are sent to every node, in order. *)

Changes == [k \in {x \in Key : kv'[x] # kv[x]} |-> [kv'[k] EXCEPT !.ver = rev']]

Publish ==
  /\ kv' # kv => \A n \in Node : Len(stream[n]) < MaxLag
  /\ stream' = [n \in Node |-> IF kv' # kv THEN Append(stream[n], Changes) ELSE stream[n]]

\* The keys after an event, without looking at what is newer.
After(keys, event) ==
  [k \in Key |-> IF k \notin DOMAIN event THEN keys[k]
                 ELSE IF There(event[k]) THEN event[k] ELSE Absent]

-----------------------------------------------------------------------------
(* Operations and requests *)

Goto(n, pc) == call' = [call EXCEPT ![n].pc = pc]

Answer(n, ret, got) == call' = [call EXCEPT ![n].pc = "done", ![n].ret = ret, ![n].got = got]

\* No answer: the request is repeated, or the operation ends with err.
Repeat(n, err) == UNCHANGED call \/ Answer(n, err, 0)

\* get_cluster(): the keys are read, and what came before is done with.
Cached(n, keys) ==
  /\ call[n].pc = "done"
  /\ view' = [view EXCEPT ![n] = keys]
  /\ call' = [call EXCEPT ![n] = Idle]

Begin(n, op, pc, ver) ==
  /\ op \in ops
  /\ call[n].pc = "done"
  /\ call' = [call EXCEPT ![n] = [op |-> op, pc |-> pc, ver |-> ver, ret |-> "none", got |-> 0]]

At(n, pc) == call[n].pc = pc

\* A request that is granted when ok, and then writes e to k.  unanswered is
\* what becomes of the operation when the answer is lost, or the request.
CompareAndSet(ok, k, e, granted, refused, unanswered) ==
  \/ ok /\ Write(k, e) /\ (granted \/ unanswered)
  \/ ~ok /\ Same /\ (refused \/ unanswered)
  \/ Same /\ unanswered

\* The guards with which ha.py and patronictl call the operations.
MayAcquire(n) == ~There(view[n]["leader"])
IsLeader(n) == view[n]["leader"].val = n
MayInitialize(n) == n \notin winners /\ ~There(view[n]["leader"]) /\ ~There(view[n]["initialize"])
WonInitialize(n) == n \in winners

\* The version that goes with a conditional write, 0 when the key was not there.
SyncVersion(n) == view[n]["sync"].ver
\* Whether a conditional write is granted: without a version it always is.
SyncMatches(n) == call[n].ver \in {0, kv["sync"].ver}

-----------------------------------------------------------------------------
(* History variables, for the properties: every step of a backend comes with this. *)

Began(n) == call[n].pc = "done" /\ call'[n].pc # "done"
Holds(n, e) == e.val = n /\ e.own # Lapsed

\* The write of n to the key that its operation is named after.
Wrote(n) ==
  LET k == call'[n].op
  IN  IF kv'[k] = kv[k] \/ kv'[k].val # n THEN {}
      ELSE {[new |-> kv'[k].ver, over |-> kv[k].ver, free |-> ~There(kv[k])]}

\* n is told that it won the initialize key: it bootstraps, until it gives up.
Wins(n) ==
  /\ call[n].pc # "done" /\ call'[n].pc = "done"
  /\ call'[n].op = "initialize" /\ call'[n].ret = "true"

GivesUp(n) == Began(n) /\ call'[n].op = "cancel"

Observe ==
  /\ UNCHANGED ops
  /\ had' = {n \in Node : Holds(n, kv'["leader"]) \/ (n \in had /\ ~Began(n))}
  /\ wrote' = [n \in Node |->
       IF call'[n].op \notin {"sync", "initialize"} \/ Began(n) THEN {} ELSE wrote[n] \cup Wrote(n)]
  /\ winners' = {n \in Node : Wins(n) \/ (n \in winners /\ ~GivesUp(n))}

-----------------------------------------------------------------------------
(* Properties *)

Item == [val : Node \cup {None}, ver : 0 .. MaxRev, own : Session \cup {0, Ttl, Lapsed}]

\* Where an operation may be.
Pc == {"done", "granted", "members", "create", "swap", "delete", "write", "erase", "first", "last", "touch",
       "refresh", "grant", "again", "renew", "lock", "relock", "drop", "retake", "read", "untouch",
       "same", "restart", "get", "set", "patch"}

Call == [op : {"none", "acquire", "update", "release", "sync", "unsync", "initialize", "cancel", "touch"},
         pc : Pc, ver : 0 .. MaxRev, ret : {"none", "true", "false", "error"}, got : Nat]

\* Every variable has its type.
TypeOK ==
  /\ kv \in [Key -> Item] /\ rev \in 0 .. MaxRev
  /\ live \subseteq Session /\ sess \in [Node -> Session \cup {0}]
  /\ view \in [Node -> [Key -> Item]]
  /\ call \in [Node -> Call]
  /\ seen \in [Node -> [Key -> Item]] /\ cache \in [Node -> [Key -> Item]]
  /\ had \subseteq Node /\ winners \subseteq Node

\* A call of one of which that ended well.
Succeeded(n, which) == call[n].pc = "done" /\ call[n].op \in which /\ call[n].ret = "true"

\* write_sync_state() returns the version of a /sync that this call wrote, and wrote over
\* the version it was given, unless that is one of free.
WroteOver(free) ==
  \A n \in Node :
    Succeeded(n, {"sync"}) =>
      \E w \in wrote[n] : /\ w.new = call[n].got
                          /\ call[n].ver \in free \/ w.over = call[n].ver

\* When all that changed was delivered, and no answer is on its way, what a watcher
\* knows of a key that exists is what the key is.
WatcherCatchesUp ==
  \A n \in Node :
    stream[n] = <<>> /\ call[n].pc # "granted" =>
      \A k \in Key : There(kv[k]) /\ seen[n] = kv => cache[n][k] = kv[k]

\* A node that is told that it won the initialize key wrote it in this call, when it
\* was not there.
InitializedFree == \A n \in Node : Succeeded(n, {"initialize"}) => \E w \in wrote[n] : w.free
=============================================================================
