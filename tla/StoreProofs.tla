---------------------------- MODULE StoreProofs ----------------------------
(***************************************************************************)
(* Proofs about the backends of dcs/, for every number of nodes, every     *)
(* bound and every set of backends and operations: the types, what a node  *)
(* is told of a conditional write, what a watcher knows, and that every    *)
(* backend keeps the promise about the leader key (LeaderKey).             *)
(*                                                                         *)
(* The argument.  Core is what the backends have in common: no key is      *)
(* newer than the store, whoever is named in the leader key has had it     *)
(* since it asked, and whoever was told, or is about to be, had or wrote   *)
(* what it is told of.  A step acts for an operation (Acts), begins or     *)
(* ends one (Resets), or belongs to the store or a watcher (Waits); each   *)
(* of these keeps Core, and is a step of the abstract key.  That a request *)
(* of a backend is of the first kind follows from the backend's own        *)
(* invariant: which operation a request belongs to, whose session the      *)
(* leader key has (Consul), what the answer on its way is (etcd3), and     *)
(* what the version that was seen says of the object (Kubernetes).         *)
(***************************************************************************)
EXTENDS MCStores, TLAPS

\* What the leader key says to others.
Owner(e) == IF e.own = Lapsed THEN None ELSE e.val

\* n was told that its request was granted, or the answer is on its way.
Told(n) == call[n].pc = "granted" \/ (call[n].pc = "done" /\ call[n].ret = "true")

\* The version that write_sync_state() takes for none.
Free == IF backend = "zookeeper" THEN {0, 1} ELSE {0}

-----------------------------------------------------------------------------
VersionInv == \A k \in Key : kv[k].ver <= rev

HadInv == \A n \in Node : Holds(n, kv["leader"]) => n \in had

Shown(n, got) ==
  /\ call[n].op \in LeaderOps => n \in had
  /\ call[n].op = "sync" => \E w \in wrote[n] : w.new = got /\ (call[n].ver \in Free \/ w.over = call[n].ver)
  /\ call[n].op = "initialize" => \E w \in wrote[n] : w.free

ToldInv == \A n \in Node : Told(n) => Shown(n, call[n].got)

Core == TypeOK /\ VersionInv /\ HadInv /\ ToldInv

-----------------------------------------------------------------------------
Moves(n) ==
  /\ call[n].pc # "done"
  /\ call' \in [Node -> Call]
  /\ \A m \in Node \ {n} : call'[m] = call[m]
  /\ call'[n].op = call[n].op
  /\ call[n].op = "sync" => call'[n].ver = call[n].ver

\* Keys go, and nothing is written.
Drops ==
  /\ kv' \in [Key -> Item] /\ rev' \in 0 .. MaxRev /\ rev <= rev'
  /\ \A k \in Key : kv'[k].ver <= kv[k].ver
  /\ \A k \in Key \ {"leader"} : kv'[k] = kv[k] \/ ~There(kv'[k])
  /\ kv'["leader"] = kv["leader"] \/ Owner(kv'["leader"]) = None

Puts(n, k) ==
  /\ kv' \in [Key -> Item] /\ rev' \in 0 .. MaxRev /\ rev' = rev + 1
  /\ kv'[k].ver <= rev' /\ kv'[k].val \in {n, None}
  /\ \A x \in Key \ {k} : kv'[x] = kv[x]
  /\ k = "leader" => \/ ~There(kv'[k])
                     \/ kv'[k].val = n /\ kv'[k].own # Lapsed /\ Owner(kv[k]) \in {None, n}

\* The step wrote what n asks for.
Deserved(n) ==
  /\ call[n].op \in LeaderOps => Holds(n, kv'["leader"])
  /\ call[n].op = "sync" => /\ kv'["sync"] # kv["sync"] /\ kv'["sync"].val = n
                            /\ call'[n].got = kv'["sync"].ver
                            /\ call[n].ver \in Free \/ kv["sync"].ver = call[n].ver
  /\ call[n].op = "initialize" => /\ kv'["initialize"] # kv["initialize"] /\ kv'["initialize"].val = n
                                  /\ ~There(kv["initialize"])

Acts(n, k) ==
  /\ Moves(n)
  /\ Drops \/ Puts(n, k)
  /\ Told(n)' => Deserved(n) \/ (kv' = kv /\ Shown(n, call'[n].got))

Resets(n) ==
  /\ call[n].pc = "done" /\ call'[n].ret # "true" /\ call'[n].pc # "granted"
  /\ call' \in [Node -> Call]
  /\ \A m \in Node \ {n} : call'[m] = call[m]
  /\ kv' = kv /\ rev' = rev

Waits == Drops /\ UNCHANGED call

\* The names of the keys differ.
LEMMA KeyFacts == {"leader", "sync", "initialize"} \subseteq Key /\ \A n \in Node : n \in Key \ {"leader", "sync", "initialize"}
  BY KeyStoreAssumption DEF Key

\* Observe, by node.
LEMMA Observed ==
  ASSUME Observe, TypeOK, NEW n \in Node
  PROVE  /\ n \in had' <=> Holds(n, kv'["leader"]) \/ (n \in had /\ ~Began(n))
         /\ had' \subseteq Node /\ winners' \subseteq Node
         /\ ~Began(n) /\ call'[n].op \in {"sync", "initialize"} => wrote'[n] = wrote[n] \cup Wrote(n)
         /\ UNCHANGED ops
  BY DEF Observe

\* Who is named in the leader key has had it.
LEMMA HadKept ==
  ASSUME Observe, TypeOK
  PROVE  HadInv'
  BY Observed DEF HadInv

\* A step that drops keys or puts one leaves no version ahead of the store.
LEMMA VersionsKept ==
  ASSUME TypeOK, VersionInv, NEW n \in Node, NEW k \in Key, Drops \/ Puts(n, k)
  PROVE  VersionInv' /\ kv' \in [Key -> Item] /\ rev' \in 0 .. MaxRev
  <1>1. CASE Drops
    <2>1. \A x \in Key : kv'[x].ver \in Nat /\ kv[x].ver \in Nat
      BY <1>1, KeyStoreAssumption DEF Drops, TypeOK, Item
    <2>2. \A x \in Key : kv'[x].ver <= kv[x].ver /\ kv[x].ver <= rev
      BY <1>1 DEF Drops, VersionInv
    <2>3. rev <= rev' /\ rev \in Nat /\ rev' \in Nat
      BY <1>1, KeyStoreAssumption DEF Drops, TypeOK
    <2> QED BY <1>1, <2>1, <2>2, <2>3 DEF VersionInv, Drops
  <1>2. CASE Puts(n, k)
    <2>1. \A x \in Key : kv'[x].ver \in Nat /\ kv[x].ver \in Nat
      BY <1>2, KeyStoreAssumption DEF Puts, TypeOK, Item
    <2>2. rev \in Nat /\ rev' = rev + 1
      BY <1>2, KeyStoreAssumption DEF Puts, TypeOK
    <2>3. \A x \in Key : kv'[x].ver <= rev'
      BY <1>2, <2>1, <2>2 DEF Puts, VersionInv
    <2> QED BY <1>2, <2>3 DEF VersionInv, Puts
  <1> QED BY <1>1, <1>2

\* Who was told, and does nothing, has what it was told.
LEMMA ShownKept ==
  ASSUME Observe, TypeOK, NEW m \in Node, Shown(m, call[m].got), call'[m] = call[m], UNCHANGED backend
  PROVE  Shown(m, call[m].got)'
  <1>1. ~Began(m)
    BY DEF Began
  <1>2. m \in had => m \in had'
    BY <1>1, Observed
  <1>3. call[m].op \in {"sync", "initialize"} => wrote[m] \subseteq wrote'[m]
    BY <1>1, Observed
  <1> QED BY <1>2, <1>3 DEF Shown, LeaderOps, Free

\* Who is told, has what it was told.
LEMMA ShownToActor ==
  ASSUME Observe, TypeOK, NEW n \in Node, Moves(n), Deserved(n) \/ Shown(n, call'[n].got), UNCHANGED backend
  PROVE  Shown(n, call[n].got)'
  <1>1. ~Began(n) /\ call'[n].op = call[n].op
    BY DEF Began, Moves
  <1>2. CASE Shown(n, call'[n].got)
    <2>1. n \in had => n \in had'
      BY <1>1, Observed
    <2>2. call[n].op \in {"sync", "initialize"} => wrote[n] \subseteq wrote'[n]
      BY <1>1, Observed
    <2> QED BY <1>1, <1>2, <2>1, <2>2 DEF Shown, LeaderOps, Free, Moves
  <1>3. CASE Deserved(n)
    <2>1. call[n].op \in LeaderOps => n \in had'
      BY <1>3, Observed DEF Deserved
    <2>2. call[n].op \in {"sync", "initialize"} => Wrote(n) \subseteq wrote'[n]
      BY <1>1, Observed
    <2>3. ASSUME call[n].op = "sync"
          PROVE  [new |-> kv'["sync"].ver, over |-> kv["sync"].ver, free |-> ~There(kv["sync"])] \in wrote'[n]
      BY <1>1, <1>3, <2>2, <2>3 DEF Wrote, Deserved
    <2>4. ASSUME call[n].op = "initialize"
          PROVE  [new |-> kv'["initialize"].ver, over |-> kv["initialize"].ver, free |-> TRUE] \in wrote'[n]
      BY <1>1, <1>3, <2>2, <2>4 DEF Wrote, Deserved
    <2> QED BY <1>1, <1>3, <2>1, <2>3, <2>4 DEF Deserved, Shown, LeaderOps, Free, Moves
  <1> QED BY <1>2, <1>3

\* A step of an operation keeps what the store has and what was told.
LEMMA ActsCore ==
  ASSUME Core, Observe, NEW n \in Node, NEW k \in Key, Acts(n, k), UNCHANGED backend
  PROVE  VersionInv' /\ HadInv' /\ ToldInv'
  <1>1. VersionInv' /\ HadInv'
    BY VersionsKept, HadKept DEF Core, Acts
  <1>2. ToldInv'
    <2> SUFFICES ASSUME NEW m \in Node, Told(m)' PROVE Shown(m, call[m].got)'
      BY DEF ToldInv
    <2>1. CASE m = n
      BY <2>1, ShownToActor DEF Acts, Core
    <2>2. CASE m # n
      <3>1. call'[m] = call[m]
        BY <2>2 DEF Acts, Moves
      <3>2. Shown(m, call[m].got)
        BY <3>1 DEF Core, ToldInv, Told
      <3> QED BY <3>1, <3>2, ShownKept DEF Core
    <2> QED BY <2>1, <2>2
  <1> QED BY <1>1, <1>2

\* A new operation, or the cluster loaded, keeps what the store has and what was told.
LEMMA ResetsCore ==
  ASSUME Core, Observe, NEW n \in Node, Resets(n), UNCHANGED backend
  PROVE  VersionInv' /\ HadInv' /\ ToldInv'
  <1>1. VersionInv' /\ HadInv'
    BY HadKept DEF Core, Resets, VersionInv
  <1>2. ToldInv'
    <2> SUFFICES ASSUME NEW m \in Node, Told(m)' PROVE Shown(m, call[m].got)'
      BY DEF ToldInv
    <2>1. m # n
      BY DEF Resets, Told
    <2>2. call'[m] = call[m]
      BY <2>1 DEF Resets
    <2>3. Shown(m, call[m].got)
      BY <2>2 DEF Core, ToldInv, Told
    <2> QED BY <2>2, <2>3, ShownKept DEF Core
  <1> QED BY <1>1, <1>2

\* A step of the store or a watcher keeps what the store has and what was told.
LEMMA WaitsCore ==
  ASSUME Core, Observe, Waits, UNCHANGED backend
  PROVE  VersionInv' /\ HadInv' /\ ToldInv'
  <1>1. VersionInv' /\ HadInv'
    BY HadKept, KeyStoreAssumption DEF Core, Waits, VersionInv, Drops, TypeOK, Item
  <1>2. ToldInv'
    <2> SUFFICES ASSUME NEW m \in Node, Told(m)' PROVE Shown(m, call[m].got)'
      BY DEF ToldInv
    <2>1. call'[m] = call[m]
      BY DEF Waits
    <2>2. Shown(m, call[m].got)
      BY <2>1 DEF Core, ToldInv, Told
    <2> QED BY <2>1, <2>2, ShownKept DEF Core
  <1> QED BY <1>1, <1>2

Holder == Owner(kv["leader"])
Answered == {n \in Node : Succeeded(n, LeaderOps)}

\* Whom the leader key names, by node.
LEMMA HolderIs ==
  ASSUME Core, Observe, NEW n \in Node
  PROVE  /\ Holder = n <=> Holds(n, kv["leader"])
         /\ Holder' = n <=> Holds(n, kv'["leader"])
  BY KeyStoreAssumption DEF Holder, Owner, Holds

\* Nobody begins an operation: who is named is added to those that have had the key.
LEMMA HadIs ==
  ASSUME Core, Observe, \A m \in Node : ~Began(m)
  PROVE  had' = had \cup {m \in Node : Holder' = m}
  <1>1. \A m \in Node : m \in had' <=> Holder' = m \/ m \in had
    BY Observed, HolderIs DEF Core
  <1>2. had \subseteq Node /\ had' \subseteq Node
    BY DEF Observe, Core, TypeOK
  <1> QED BY <1>1, <1>2

\* A step of an operation takes the abstract key, loses it, tells of it or leaves it.
LEMMA ActsKey ==
  ASSUME Core, Observe, NEW n \in Node, NEW k \in Key, Acts(n, k), UNCHANGED backend
  PROVE  K!Next \/ UNCHANGED K!vars
  <1>1. Answered' \in {Answered, Answered \cup {n}}
    <2>1. \A m \in Node \ {n} : call'[m] = call[m]
      BY DEF Acts, Moves
    <2>2. \A m \in Node \ {n} : m \in Answered' <=> m \in Answered
      BY <2>1 DEF Answered, Succeeded, LeaderOps
    <2>3. Answered \subseteq Node /\ Answered' \subseteq Node /\ n \notin Answered
      BY DEF Answered, Succeeded, Acts, Moves
    <2> QED BY <2>2, <2>3
  <1>2. had' = had \cup {m \in Node : Holder' = m}
    BY HadIs DEF Acts, Moves, Began
  <1>3. \A m \in Node : Holder = m => m \in had
    BY HolderIs DEF Core, HadInv
  <1>4. Answered' # Answered => \/ Holder' = n
                                \/ kv' = kv /\ n \in had
    <2> SUFFICES ASSUME Answered' # Answered PROVE Holder' = n \/ (kv' = kv /\ n \in had)
      OBVIOUS
    <2>1. n \in Answered'
      BY <1>1
    <2>2. Told(n)' /\ call[n].op \in LeaderOps
      BY <2>1 DEF Answered, Succeeded, Told, Acts, Moves, LeaderOps
    <2>3. Deserved(n) \/ (kv' = kv /\ Shown(n, call'[n].got))
      BY <2>2 DEF Acts
    <2> QED BY <2>2, <2>3, HolderIs DEF Deserved, Shown
  <1>5. \/ Holder' = Holder
        \/ Holder' = None
        \/ Holder' = n /\ Holder = None
    <2>1. CASE Drops
      BY <2>1 DEF Drops, Holder
    <2>2. CASE Puts(n, k)
      BY <2>2, KeyFacts DEF Puts, Holder, Owner, There
    <2> QED BY <2>1, <2>2 DEF Acts
  <1>6. CASE Holder' = Holder
    <2>1. had' = had
      BY <1>2, <1>3, <1>6 DEF Core, TypeOK
    <2>2. CASE Answered' = Answered
      BY <1>6, <2>1, <2>2 DEF K!vars, Answered, Holder, Owner
    <2>3. CASE Answered' # Answered
      <3>1. n \in had
        BY <1>3, <1>4, <1>6, <2>3
      <3>2. Answered' = Answered \cup {n}
        BY <1>1, <2>3
      <3>3. K!Tell(n)
        BY <1>6, <2>1, <3>1, <3>2 DEF K!Tell, Answered, Holder, Owner
      <3> QED BY <3>3 DEF K!Next
    <2> QED BY <2>2, <2>3
  <1>7. CASE Holder' = None /\ Holder # None
    <2>1. had' = had
      BY <1>2, <1>7, KeyStoreAssumption
    <2>2. Answered' = Answered
      BY <1>4, <1>7, KeyStoreAssumption DEF Holder
    <2>3. K!Lose
      BY <1>7, <2>1, <2>2 DEF K!Lose, Answered, Holder, Owner
    <2> QED BY <2>3 DEF K!Next
  <1>8. CASE Holder' = n /\ Holder = None
    <2>1. had' = had \cup {n}
      BY <1>2, <1>8
    <2>2. K!Take(n)
      BY <1>1, <1>8, <2>1 DEF K!Take, Answered, Holder, Owner
    <2> QED BY <2>2 DEF K!Next
  <1> QED BY <1>5, <1>6, <1>7, <1>8

\* A new operation asks for the abstract key, and the cluster loaded forgets what was told.
LEMMA ResetsKey ==
  ASSUME Core, Observe, NEW n \in Node, Resets(n), UNCHANGED backend
  PROVE  K!Next \/ UNCHANGED K!vars
  <1>1. Answered' = Answered \ {n}
    <2>1. \A m \in Node \ {n} : call'[m] = call[m]
      BY DEF Resets
    <2>2. \A m \in Node \ {n} : m \in Answered' <=> m \in Answered
      BY <2>1 DEF Answered, Succeeded, LeaderOps
    <2>3. Answered \subseteq Node /\ Answered' \subseteq Node /\ n \notin Answered'
      BY DEF Answered, Succeeded, Resets
    <2> QED BY <2>2, <2>3
  <1>2. Holder' = Holder
    BY DEF Resets, Holder
  <1>3. \A m \in Node \ {n} : ~Began(m)
    BY DEF Began, Resets
  <1>4. \A m \in Node : m \in had' <=> Holder = m \/ (m \in had /\ ~Began(m))
    BY <1>2, Observed, HolderIs DEF Core
  <1>5. \A m \in Node : Holder = m => m \in had
    BY HolderIs DEF Core, HadInv
  <1>6. had \subseteq Node /\ had' \subseteq Node
    BY Observed DEF Core, TypeOK
  <1>7. CASE Began(n)
    <2>1. had' = IF Holder = n THEN had \cup {n} ELSE had \ {n}
      BY <1>3, <1>4, <1>5, <1>6, <1>7
    <2>2. K!Ask(n)
      BY <1>1, <1>2, <2>1 DEF K!Ask, Answered, Holder, Owner
    <2> QED BY <2>2 DEF K!Next
  <1>8. CASE ~Began(n)
    <2>1. had' = had
      BY <1>3, <1>4, <1>5, <1>6, <1>8
    <2>2. K!Forget(n)
      BY <1>1, <1>2, <2>1 DEF K!Forget, Answered, Holder, Owner
    <2> QED BY <2>2 DEF K!Next
  <1> QED BY <1>7, <1>8

\* A step of the store or a watcher loses the abstract key, or leaves it.
LEMMA WaitsKey ==
  ASSUME Core, Observe, Waits, UNCHANGED backend
  PROVE  K!Next \/ UNCHANGED K!vars
  <1>1. Answered' = Answered
    BY DEF Answered, Succeeded, Waits, LeaderOps
  <1>2. had' = had \cup {m \in Node : Holder' = m}
    BY HadIs DEF Waits, Began
  <1>3. \A m \in Node : Holder = m => m \in had
    BY HolderIs DEF Core, HadInv
  <1>4. Holder' = Holder \/ Holder' = None
    BY DEF Waits, Drops, Holder
  <1>5. CASE Holder' = Holder
    <2>1. had' = had
      BY <1>2, <1>3, <1>5 DEF Core, TypeOK
    <2> QED BY <1>1, <1>5, <2>1 DEF K!vars, Answered, Holder, Owner
  <1>6. CASE Holder' = None
    <2>1. had' = had
      BY <1>2, <1>6, KeyStoreAssumption
    <2>2. K!Lose
      BY <1>1, <1>6, <2>1 DEF K!Lose, Answered, Holder, Owner
    <2> QED BY <2>2 DEF K!Next
  <1> QED BY <1>4, <1>5, <1>6

-----------------------------------------------------------------------------
Kept == kv' = kv /\ rev' = rev /\ live' = live

\* The request is repeated, fails, or the operation goes on at one of next.
Quiet(n, next) ==
  \/ UNCHANGED call
  \/ Answer(n, "false", 0)
  \/ Answer(n, "error", 0)
  \/ \E pc \in next : Goto(n, pc)

Goes(n, pc, got) == call' = [call EXCEPT ![n].pc = pc, ![n].got = got]
Grants(n, got) == Goes(n, "granted", got)

\* A request that, when it is granted, writes e to k; the answer is taken at once,
\* or goes to the cache first.
Asks(n, k, e, next, how, got) ==
  \/ Kept /\ Quiet(n, next)
  \/ Write(k, e) /\ (Quiet(n, next) \/ IF how = "done" THEN Answer(n, "true", got) ELSE Grants(n, got))

Fits(n, k, e, got) ==
  /\ e \in Item /\ e.ver <= rev + 1 /\ e.val \in {n, None}
  /\ k = "leader" => \/ ~There(e)
                     \/ e.val = n /\ e.own # Lapsed /\ Owner(kv[k]) \in {None, n}
  /\ call[n].op \in LeaderOps => k = "leader" /\ e.val = n /\ e.own # Lapsed
  /\ call[n].op = "sync" => /\ k = "sync" /\ e.val = n /\ e # kv[k] /\ got = e.ver
                            /\ call[n].ver \in Free \/ kv[k].ver = call[n].ver
  /\ call[n].op = "initialize" => k = "initialize" /\ e.val = n /\ ~There(kv[k])

\* An operation may have ended, or wait for its answer.
LEMMA Pcs == "done" \in Pc /\ "granted" \in Pc
  BY DEF Pc

\* What a step leaves of a call.
LEMMA Answers ==
  ASSUME call \in [Node -> Call], NEW n \in Node, call[n].pc # "done",
         NEW r \in {"none", "true", "false", "error"}, NEW g \in Nat, Answer(n, r, g)
  PROVE  /\ Moves(n)
         /\ call'[n] = [op |-> call[n].op, pc |-> "done", ver |-> call[n].ver, ret |-> r, got |-> g]
  <1> DEFINE a == [call EXCEPT ![n] = [call[n] EXCEPT !.pc = "done"]]
             b == [a EXCEPT ![n] = [a[n] EXCEPT !.ret = r]]
             c == [b EXCEPT ![n] = [b[n] EXCEPT !.got = g]]
  <1>1. call' = c  BY DEF Answer
  <1>2. a[n] = [op |-> call[n].op, pc |-> "done", ver |-> call[n].ver, ret |-> call[n].ret, got |-> call[n].got]
    BY DEF Call
  <1>3. a \in [Node -> Call] /\ \A m \in Node \ {n} : a[m] = call[m]
    <2>1. call[n] \in Call
      OBVIOUS
    <2>2. a[n] \in Call
      BY <1>2, <2>1, Pcs DEF Call
    <2> QED BY <2>2
  <1> HIDE DEF a
  <1>4. b[n] = [op |-> call[n].op, pc |-> "done", ver |-> call[n].ver, ret |-> r, got |-> call[n].got]
    BY <1>2, <1>3
  <1>5. b \in [Node -> Call] /\ \A m \in Node \ {n} : b[m] = call[m]
    BY <1>3, <1>4 DEF Call
  <1> HIDE DEF b
  <1>6. c[n] = [op |-> call[n].op, pc |-> "done", ver |-> call[n].ver, ret |-> r, got |-> g]
    BY <1>4, <1>5
  <1>7. c \in [Node -> Call] /\ \A m \in Node \ {n} : c[m] = call[m]
    BY <1>5, <1>6 DEF Call
  <1> HIDE DEF c
  <1> QED BY <1>1, <1>6, <1>7 DEF Moves

\* An operation goes on elsewhere, with what it got.
LEMMA Going ==
  ASSUME call \in [Node -> Call], NEW n \in Node, call[n].pc # "done", NEW pc \in Pc, NEW g \in Nat,
         Goes(n, pc, g)
  PROVE  /\ Moves(n)
         /\ call'[n] = [op |-> call[n].op, pc |-> pc, ver |-> call[n].ver, ret |-> call[n].ret, got |-> g]
  <1> DEFINE a == [call EXCEPT ![n] = [call[n] EXCEPT !.pc = pc]]
             c == [a EXCEPT ![n] = [a[n] EXCEPT !.got = g]]
  <1>1. call' = c  BY DEF Goes
  <1>2. a[n] = [op |-> call[n].op, pc |-> pc, ver |-> call[n].ver, ret |-> call[n].ret, got |-> call[n].got]
    BY DEF Call
  <1>3. a \in [Node -> Call] /\ \A m \in Node \ {n} : a[m] = call[m]
    <2>1. call[n] \in Call
      OBVIOUS
    <2>2. a[n] \in Call
      BY <1>2, <2>1 DEF Call
    <2> QED BY <2>2
  <1> HIDE DEF a
  <1>4. c[n] = [op |-> call[n].op, pc |-> pc, ver |-> call[n].ver, ret |-> call[n].ret, got |-> g]
    BY <1>2, <1>3
  <1>5. c \in [Node -> Call] /\ \A m \in Node \ {n} : c[m] = call[m]
    BY <1>3, <1>4 DEF Call
  <1> HIDE DEF c
  <1> QED BY <1>1, <1>4, <1>5 DEF Moves

\* An operation was granted, and its answer is on its way.
LEMMA Granting ==
  ASSUME call \in [Node -> Call], NEW n \in Node, call[n].pc # "done", NEW g \in Nat, Grants(n, g)
  PROVE  /\ Moves(n)
         /\ call'[n] = [op |-> call[n].op, pc |-> "granted", ver |-> call[n].ver, ret |-> call[n].ret, got |-> g]
  BY Going, Pcs DEF Grants

\* An operation goes on elsewhere.
LEMMA GoingOn ==
  ASSUME call \in [Node -> Call], NEW n \in Node, call[n].pc # "done", NEW pc \in Pc, Goto(n, pc)
  PROVE  /\ Moves(n)
         /\ call'[n] = [op |-> call[n].op, pc |-> pc, ver |-> call[n].ver, ret |-> call[n].ret, got |-> call[n].got]
  <1> DEFINE a == [call EXCEPT ![n] = [call[n] EXCEPT !.pc = pc]]
  <1>2. a[n] = [op |-> call[n].op, pc |-> pc, ver |-> call[n].ver, ret |-> call[n].ret, got |-> call[n].got]
    BY DEF Call
  <1>3. a \in [Node -> Call] /\ \A m \in Node \ {n} : a[m] = call[m]
    <2>1. call[n] \in Call
      OBVIOUS
    <2>2. a[n] \in Call
      BY <1>2, <2>1, Pcs DEF Call
    <2> QED BY <2>2
  <1> QED BY <1>2, <1>3 DEF Goto, Moves

\* An operation that goes on, fails or is repeated tells nothing.
LEMMA QuietMoves ==
  ASSUME call \in [Node -> Call], NEW n \in Node, call[n].pc \notin {"done", "granted"},
         NEW next, next \subseteq Pc \ {"done", "granted"}, Quiet(n, next)
  PROVE  /\ Moves(n) /\ ~Told(n)'
         /\ call'[n].pc \in {call[n].pc, "done"} \cup next
         /\ call'[n].op = call[n].op /\ call'[n].ver = call[n].ver
         /\ call'[n].pc # "done" => call'[n].got = call[n].got
  <1>1. CASE UNCHANGED call
    BY <1>1 DEF Moves, Told
  <1>2. CASE Answer(n, "false", 0)
    <2>1. Moves(n) /\ call'[n] = [op |-> call[n].op, pc |-> "done", ver |-> call[n].ver, ret |-> "false", got |-> 0]
      BY <1>2, Answers
    <2> QED BY <2>1 DEF Told
  <1>3. CASE Answer(n, "error", 0)
    <2>1. Moves(n) /\ call'[n] = [op |-> call[n].op, pc |-> "done", ver |-> call[n].ver, ret |-> "error", got |-> 0]
      BY <1>3, Answers
    <2> QED BY <2>1 DEF Told
  <1>4. ASSUME NEW pc \in next, Goto(n, pc)
        PROVE  /\ Moves(n) /\ ~Told(n)'
               /\ call'[n].pc \in {call[n].pc, "done"} \cup next
               /\ call'[n].op = call[n].op /\ call'[n].ver = call[n].ver
               /\ call'[n].pc # "done" => call'[n].got = call[n].got
    <2>1. Moves(n) /\ call'[n] = [op |-> call[n].op, pc |-> pc, ver |-> call[n].ver, ret |-> call[n].ret, got |-> call[n].got]
      BY <1>4, GoingOn
    <2> QED BY <2>1 DEF Told
  <1> QED BY <1>1, <1>2, <1>3, <1>4 DEF Quiet

\* Another request, with another version.
Turns(n, pc, ver) == call' = [call EXCEPT ![n].pc = pc, ![n].ver = ver]

\* An operation goes on elsewhere, with another version.
LEMMA Turning ==
  ASSUME call \in [Node -> Call], NEW n \in Node, call[n].pc # "done", call[n].op # "sync", NEW pc \in Pc, NEW v \in 0 .. MaxRev,
         Turns(n, pc, v)
  PROVE  /\ Moves(n)
         /\ call'[n] = [op |-> call[n].op, pc |-> pc, ver |-> v, ret |-> call[n].ret, got |-> call[n].got]
  <1> DEFINE a == [call EXCEPT ![n] = [call[n] EXCEPT !.pc = pc]]
             c == [a EXCEPT ![n] = [a[n] EXCEPT !.ver = v]]
  <1>1. call' = c  BY DEF Turns
  <1>2. a[n] = [op |-> call[n].op, pc |-> pc, ver |-> call[n].ver, ret |-> call[n].ret, got |-> call[n].got]
    BY DEF Call
  <1>3. a \in [Node -> Call] /\ \A m \in Node \ {n} : a[m] = call[m]
    <2>1. call[n] \in Call
      OBVIOUS
    <2>2. a[n] \in Call
      BY <1>2, <2>1 DEF Call
    <2> QED BY <2>2
  <1> HIDE DEF a
  <1>4. c[n] = [op |-> call[n].op, pc |-> pc, ver |-> v, ret |-> call[n].ret, got |-> call[n].got]
    BY <1>2, <1>3
  <1>5. c \in [Node -> Call] /\ \A m \in Node \ {n} : c[m] = call[m]
    BY <1>3, <1>4 DEF Call
  <1> HIDE DEF c
  <1> QED BY <1>1, <1>4, <1>5 DEF Moves

\* A step that writes nothing drops nothing.
LEMMA KeptDrops ==
  ASSUME TypeOK, kv' = kv, rev' = rev
  PROVE  Drops
  <1>1. \A x \in Key : kv[x].ver \in Nat
    BY KeyStoreAssumption DEF TypeOK, Item
  <1> QED BY <1>1, KeyStoreAssumption DEF Drops, TypeOK

\* A write that fits what its node asks for.
LEMMA WritePuts ==
  ASSUME TypeOK, NEW n \in Node, NEW k \in Key, NEW e, NEW got, Write(k, e), Fits(n, k, e, got)
  PROVE  Puts(n, k) /\ (call'[n].got = got => Deserved(n))
  <1>1. kv' \in [Key -> Item] /\ rev' = rev + 1 /\ rev' \in 0 .. MaxRev /\ kv'[k] = e
        /\ \A x \in Key \ {k} : kv'[x] = kv[x]
    BY KeyStoreAssumption DEF Write, Fits, TypeOK
  <1>2. Puts(n, k)
    BY <1>1 DEF Puts, Fits
  <1>3. call'[n].got = got => Deserved(n)
    BY <1>1, KeyStoreAssumption DEF Deserved, Fits, Holds, There
  <1> QED BY <1>2, <1>3

\* A request is a step of its operation, when what it writes fits.
LEMMA AsksActs ==
  ASSUME TypeOK, NEW n \in Node, call[n].pc \notin {"done", "granted"}, NEW k \in Key, NEW e, NEW got \in Nat,
         NEW next, next \subseteq Pc \ {"done", "granted"}, NEW how \in {"done", "granted"},
         Asks(n, k, e, next, how, got), Kept \/ Fits(n, k, e, got)
  PROVE  /\ Acts(n, k)
         /\ call'[n].pc \in {call[n].pc, "done", how} \cup next
         /\ call'[n].op = call[n].op /\ call'[n].ver = call[n].ver
         /\ live' = live
  <1>0. live' = live
    BY DEF Asks, Kept, Write
  <1>1. Write(k, e) => Fits(n, k, e, got)
    BY KeyStoreAssumption DEF Write, Kept, TypeOK
  <1>2. Drops \/ Puts(n, k)
    BY <1>1, KeptDrops, WritePuts DEF Asks, Kept
  <1>3. call \in [Node -> Call]
    BY DEF TypeOK
  <1>4. CASE Quiet(n, next)
    BY <1>0, <1>2, <1>3, <1>4, QuietMoves DEF Acts
  <1>5. CASE Write(k, e) /\ how = "done" /\ Answer(n, "true", got)
    <2>1. Moves(n) /\ call'[n] = [op |-> call[n].op, pc |-> "done", ver |-> call[n].ver, ret |-> "true", got |-> got]
      BY <1>3, <1>5, Answers
    <2>2. Deserved(n)
      BY <1>1, <1>5, <2>1, WritePuts
    <2> QED BY <1>0, <1>2, <2>1, <2>2 DEF Acts
  <1>6. CASE Write(k, e) /\ how = "granted" /\ Grants(n, got)
    <2>1. Moves(n) /\ call'[n] = [op |-> call[n].op, pc |-> "granted", ver |-> call[n].ver, ret |-> call[n].ret, got |-> got]
      BY <1>3, <1>6, Granting
    <2>2. Deserved(n)
      BY <1>1, <1>6, <2>1, WritePuts
    <2> QED BY <1>0, <1>2, <1>6, <2>1, <2>2 DEF Acts
  <1> QED BY <1>0, <1>4, <1>5, <1>6 DEF Asks

\* An operation of which the answer means nothing goes on, or ends.
LEMMA LooseMoves ==
  ASSUME TypeOK, NEW n \in Node, call[n].pc \notin {"done", "granted"},
         NEW next, next \subseteq Pc \ {"done", "granted"}, Quiet(n, next) \/ Answer(n, "true", 0)
  PROVE  /\ Moves(n) /\ call'[n].op = call[n].op
         /\ call'[n].pc \in {call[n].pc, "done"} \cup next
         /\ call'[n].pc # "done" => call'[n].got = call[n].got
  <1>1. call \in [Node -> Call]
    BY DEF TypeOK
  <1>2. CASE Quiet(n, next)
    BY <1>1, <1>2, QuietMoves
  <1>3. CASE Answer(n, "true", 0)
    <2>1. Moves(n) /\ call'[n] = [op |-> call[n].op, pc |-> "done", ver |-> call[n].ver, ret |-> "true", got |-> 0]
      BY <1>1, <1>3, Answers
    <2> QED BY <2>1
  <1> QED BY <1>2, <1>3

\* The record that goes to the store.
Sound(e, v) == e \in Item /\ e.ver <= rev + 1 /\ e.val = v /\ e.own # Lapsed

\* What an entry is: it has a version that no key has.
LEMMA Entries ==
  ASSUME TypeOK, VersionInv, rev < MaxRev, NEW v \in Node \cup {None}, NEW own \in Session \cup {0, Ttl}
  PROVE  /\ Sound(Entry(v, own), v) /\ Entry(v, own).ver = rev + 1
         /\ \A k \in Key : Entry(v, own) # kv[k]
  <1> DEFINE e == Entry(v, own)
  <1>1. rev \in Nat
    BY KeyStoreAssumption DEF TypeOK
  <1>2. own # Lapsed
    BY KeyStoreAssumption DEF Ttl, Lapsed
  <1>3. e.val = v /\ e.own = own /\ e.ver = rev + 1
    BY DEF Entry
  <1>4. e \in Item
    BY <1>1, KeyStoreAssumption DEF Entry, Item, TypeOK
  <1> HIDE DEF e
  <1>5. ASSUME NEW k \in Key PROVE e # kv[k]
    <2>1. kv[k].ver \in Nat /\ kv[k].ver <= rev
      BY <1>5, KeyStoreAssumption DEF VersionInv, TypeOK, Item
    <2> QED BY <1>1, <1>3, <2>1
  <1>6. e.ver <= rev + 1
    BY <1>1, <1>3
  <1>7. Sound(e, v) /\ e.ver = rev + 1 /\ \A k \in Key : e # kv[k]
    BY <1>2, <1>3, <1>4, <1>5, <1>6 DEF Sound
  <1> QED BY <1>7 DEF e

\* What a key that is not there is.
LEMMA AbsentIs == Absent \in Item /\ ~There(Absent) /\ Absent.ver = 0 /\ Absent.val = None
  BY KeyStoreAssumption DEF Absent, Item, There

\* A request of the operation op of n, from where it is.
Onward(n, next, how) ==
  /\ call'[n].pc \in {call[n].pc, "done", how} \cup next
  /\ call'[n].op = call[n].op /\ call'[n].ver = call[n].ver
  /\ live' = live

\* A request for the leader key, which is free or has the name of the node.
LEMMA LeaderActs ==
  ASSUME Core, NEW n \in Node, call[n].pc \notin {"done", "granted"}, call[n].op \in {"acquire", "update"},
         NEW next, next \subseteq Pc \ {"done", "granted"}, NEW how \in {"done", "granted"}, NEW got \in Nat, NEW e,
         Asks(n, "leader", e, next, how, got),
         Kept \/ (Sound(e, n) /\ Owner(kv["leader"]) \in {None, n})
  PROVE  Acts(n, "leader") /\ Onward(n, next, how)
  <1>1. Kept \/ Fits(n, "leader", e, got)
    BY DEF Fits, Sound
  <1> QED BY <1>1, AsksActs, KeyFacts DEF Onward, Core

\* A request to write /sync, over the version that was given.
LEMMA SyncActs ==
  ASSUME Core, NEW n \in Node, call[n].pc \notin {"done", "granted"}, call[n].op = "sync",
         NEW next, next \subseteq Pc \ {"done", "granted"}, NEW how \in {"done", "granted"}, NEW got \in Nat, NEW e,
         Asks(n, "sync", e, next, how, got),
         Kept \/ (Sound(e, n) /\ e # kv["sync"] /\ got = e.ver /\ (call[n].ver \in Free \/ kv["sync"].ver = call[n].ver))
  PROVE  Acts(n, "sync") /\ Onward(n, next, how)
  <1>1. Kept \/ Fits(n, "sync", e, got)
    BY DEF Fits, Sound, LeaderOps
  <1> QED BY <1>1, AsksActs, KeyFacts DEF Onward, Core

\* A request to write the initialize key, which is not there.
LEMMA InitializeActs ==
  ASSUME Core, NEW n \in Node, call[n].pc \notin {"done", "granted"}, call[n].op = "initialize",
         NEW how \in {"done", "granted"}, NEW got \in Nat, NEW e,
         Asks(n, "initialize", e, {}, how, got),
         Kept \/ (Sound(e, n) /\ e # kv["initialize"] /\ ~There(kv["initialize"]))
  PROVE  Acts(n, "initialize") /\ Onward(n, {}, how)
  <1>1. Kept \/ Fits(n, "initialize", e, got)
    BY DEF Fits, Sound, LeaderOps
  <1>2. {} \subseteq Pc \ {"done", "granted"}
    OBVIOUS
  <1> QED BY <1>1, <1>2, AsksActs, KeyFacts DEF Onward, Core

\* A request of an operation of which nobody relies on the answer.
LEMMA OtherActs ==
  ASSUME Core, NEW n \in Node, call[n].pc \notin {"done", "granted"}, call[n].op \notin LeaderOps \cup {"sync", "initialize"},
         NEW next, next \subseteq Pc \ {"done", "granted"}, NEW how \in {"done", "granted"}, NEW got \in Nat, NEW e,
         NEW v \in {n, None}, NEW k \in Key, k = "leader" => v = None,
         Asks(n, k, e, next, how, got), Kept \/ Sound(e, v)
  PROVE  Acts(n, k) /\ Onward(n, next, how)
  <1>1. Kept \/ Fits(n, k, e, got)
    BY DEF Fits, Sound, There
  <1> QED BY <1>1, AsksActs DEF Onward, Core

\* An operation of which nobody relies on the answer.
LEMMA LooseActs ==
  ASSUME Core, NEW n \in Node, call[n].op \notin LeaderOps \cup {"sync", "initialize"}, NEW k \in Key,
         Moves(n), (kv' = kv /\ rev' = rev) \/ Puts(n, k)
  PROVE  Acts(n, k)
  BY KeptDrops DEF Acts, Deserved, Core

\* A step that only moves on.
LEMMA MoveActs ==
  ASSUME Core, NEW n \in Node, call[n].pc \notin {"done", "granted"}, NEW next, next \subseteq Pc \ {"done", "granted"},
         kv' = kv, rev' = rev, Quiet(n, next), NEW k \in Key
  PROVE  /\ Acts(n, k)
         /\ call'[n].pc \in {call[n].pc, "done"} \cup next
         /\ call'[n].op = call[n].op /\ call'[n].ver = call[n].ver
         /\ call'[n].pc # "done" => call'[n].got = call[n].got
  <1>1. TypeOK /\ call \in [Node -> Call]
    BY DEF Core, TypeOK
  <1> QED BY <1>1, KeptDrops, QuietMoves DEF Acts

\* A request to write the key of a member.
LEMMA TouchActs ==
  ASSUME Core, NEW n \in Node, call[n].pc \notin {"done", "granted"}, call[n].op = "touch",
         NEW next, next \subseteq Pc \ {"done", "granted"}, NEW how \in {"done", "granted"}, NEW got \in Nat, NEW e,
         Asks(n, n, e, next, how, got), Kept \/ Sound(e, n)
  PROVE  Acts(n, n) /\ Onward(n, next, how)
  <1>1. Kept \/ Fits(n, n, e, got)
    BY KeyFacts DEF Fits, Sound, LeaderOps
  <1> QED BY <1>1, AsksActs, KeyFacts DEF Onward, Core

-----------------------------------------------------------------------------

\* The types of what the shapes of the steps leave out.
Rest ==
  /\ live' \subseteq Session /\ sess' \in [Node -> Session \cup {0}]
  /\ view' \in [Node -> [Key -> Item]]
  /\ seen' \in [Node -> [Key -> Item]] /\ cache' \in [Node -> [Key -> Item]]

\* Every step that acts, resets or waits keeps Core and is a step of the abstract key.
LEMMA CoreStep ==
  ASSUME Core, Observe, UNCHANGED backend, Rest,
         \/ Waits
         \/ \E n \in Node : Resets(n)
         \/ \E n \in Node, k \in Key : Acts(n, k)
  PROVE  Core' /\ (K!Next \/ UNCHANGED K!vars)
  <1>1. TypeOK
    BY DEF Core
  <1>2. ASSUME call' \in [Node -> Call], kv' \in [Key -> Item], rev' \in 0 .. MaxRev PROVE TypeOK'
    BY <1>1, <1>2 DEF TypeOK, Rest, Observe
  <1>3. CASE Waits
    <2>1. TypeOK'
      BY <1>1, <1>2, <1>3 DEF Waits, Drops, TypeOK
    <2> QED BY <1>3, <2>1, WaitsCore, WaitsKey DEF Core
  <1>4. ASSUME NEW n \in Node, Resets(n) PROVE Core' /\ (K!Next \/ UNCHANGED K!vars)
    <2>1. TypeOK'
      BY <1>1, <1>2, <1>4 DEF Resets, TypeOK
    <2> QED BY <1>4, <2>1, ResetsCore, ResetsKey DEF Core
  <1>5. ASSUME NEW n \in Node, NEW k \in Key, Acts(n, k) PROVE Core' /\ (K!Next \/ UNCHANGED K!vars)
    <2>1. TypeOK'
      <3>1. kv' \in [Key -> Item] /\ rev' \in 0 .. MaxRev
        BY <1>5 DEF Acts, Drops, Puts
      <3> QED BY <1>2, <1>5, <3>1 DEF Acts, Moves
    <2> QED BY <1>5, <2>1, ActsCore, ActsKey DEF Core
  <1> QED BY <1>3, <1>4, <1>5

\* A call that is put in place of one that ended.
LEMMA Beginning ==
  ASSUME TypeOK, NEW n \in Node, NEW c \in Call, c.pc # "granted", c.ret = "none",
         call[n].pc = "done", call' = [call EXCEPT ![n] = c], kv' = kv, rev' = rev
  PROVE  Resets(n) /\ call'[n] = c
  BY DEF Resets, TypeOK

\* What an idle call is.
LEMMA IdleIs == Idle \in Call /\ Idle.pc = "done" /\ Idle.ret = "none" /\ Idle.op = "none"
  BY KeyStoreAssumption DEF Idle, Call, Pc

\* A key that expires.
LEMMA ExpiresDrops ==
  ASSUME TypeOK, NEW k \in Key, rev < MaxRev, kv' = [kv EXCEPT ![k] = Absent], rev' = rev + 1
  PROVE  Drops
  <1>1. rev \in Nat /\ rev' \in 0 .. MaxRev /\ \A x \in Key : kv[x].ver \in Nat
    BY KeyStoreAssumption DEF TypeOK, Item
  <1>2. kv' \in [Key -> Item] /\ \A x \in Key : kv'[x] = kv[x] \/ kv'[x] = Absent
    BY AbsentIs DEF TypeOK
  <1>3. Owner(Absent) = None
    BY AbsentIs DEF Owner
  <1> QED BY <1>1, <1>2, <1>3, AbsentIs, KeyFacts DEF Drops

\* A session that expires takes its keys with it.
LEMMA SessionDrops ==
  ASSUME TypeOK, rev < MaxRev, NEW s \in live, kv' = [k \in Key |-> IF kv[k].own = s THEN Absent ELSE kv[k]],
         rev' = IF kv' # kv THEN rev + 1 ELSE rev
  PROVE  Drops
  <1>1. rev \in Nat /\ rev' \in 0 .. MaxRev /\ rev <= rev' /\ \A x \in Key : kv[x].ver \in Nat
    BY KeyStoreAssumption DEF TypeOK, Item
  <1>2. kv' \in [Key -> Item] /\ \A x \in Key : kv'[x] = kv[x] \/ kv'[x] = Absent
    BY AbsentIs DEF TypeOK
  <1>3. Owner(Absent) = None
    BY AbsentIs DEF Owner
  <1> QED BY <1>1, <1>2, <1>3, AbsentIs, KeyFacts DEF Drops

-----------------------------------------------------------------------------
\* What the watchers are told of a change.
Event == UNION {[S -> Item] : S \in SUBSET Key}

\* What changed is an event.
LEMMA ChangesAre ==
  ASSUME kv' \in [Key -> Item], rev' \in 0 .. MaxRev
  PROVE  Changes \in Event
  <1> DEFINE S == {x \in Key : kv'[x] # kv[x]}
  <1>1. \A k \in S : [kv'[k] EXCEPT !.ver = rev'] \in Item
    <2> TAKE k \in S
    <2>1. kv'[k] \in Item
      OBVIOUS
    <2> QED BY <2>1 DEF Item
  <1>2. Changes \in [S -> Item]
    BY <1>1 DEF Changes
  <1>3. S \in SUBSET Key
    OBVIOUS
  <1> HIDE DEF S
  <1> QED BY <1>2, <1>3 DEF Event

\* What a node is told next leaves the types of its keys.
LEMMA AfterIs ==
  ASSUME NEW keys \in [Key -> Item], NEW event \in Event
  PROVE  After(keys, event) \in [Key -> Item]
  <1>1. PICK S \in SUBSET Key : event \in [S -> Item]
    BY DEF Event
  <1> QED BY <1>1, AbsentIs DEF After

StreamInv == stream \in [Node -> Seq(Event)]

\* The key that an operation is about.
OpKey(n) ==
  CASE call[n].op \in {"acquire", "update", "release"} -> "leader"
    [] call[n].op \in {"sync", "unsync"} -> "sync"
    [] call[n].op \in {"initialize", "cancel"} -> "initialize"
    [] OTHER -> n

\* The answer to a write waits to go to the cache.
LEMMA GrantedIs ==
  ASSUME TypeOK, NEW n \in Node, call[n].pc \notin {"done", "granted"}, NEW k, NEW e, NEW got \in Nat,
         NEW next, next \subseteq Pc \ {"done", "granted"}, Asks(n, k, e, next, "granted", got)
  PROVE  /\ call'[n].op = call[n].op
         /\ call'[n].pc = "granted" => Write(k, e) /\ call'[n].got = got
         /\ Write(k, e) \/ Kept
  <1>1. call \in [Node -> Call]
    BY DEF TypeOK
  <1>2. CASE Quiet(n, next)
    BY <1>1, <1>2, QuietMoves DEF Asks
  <1>3. CASE Write(k, e) /\ Grants(n, got)
    <2>1. call'[n] = [op |-> call[n].op, pc |-> "granted", ver |-> call[n].ver, ret |-> call[n].ret, got |-> got]
      BY <1>1, <1>3, Granting
    <2> QED BY <1>3, <2>1
  <1> QED BY <1>2, <1>3 DEF Asks

-----------------------------------------------------------------------------
(* etcd *)

\* Where the operations of etcd and Raft may be.
PlainPc(c) ==
  /\ c.pc = "create" => c.op \in {"acquire", "update"}
  /\ c.pc = "swap" => c.op = "update"
  /\ c.pc = "delete" => c.op = "release"
  /\ c.pc = "write" => c.op = "sync"
  /\ c.pc = "erase" => c.op = "unsync"
  /\ c.pc = "first" => c.op = "initialize"
  /\ c.pc = "last" => c.op = "cancel"
  /\ c.pc = "touch" => c.op = "touch"
  /\ c.pc # "granted"

EtcdInv == backend = "etcd" /\ Core /\ \A n \in Node : PlainPc(call[n])

EtcdActs(n) == \E k \in Key : Acts(n, k) /\ PlainPc(call'[n]) /\ live' = live

\* An operation of etcd begins.
LEMMA EtcdStart ==
  ASSUME EtcdInv, NEW n \in Node, Etcd!Start(n)
  PROVE  Resets(n) /\ PlainPc(call'[n]) /\ live' = live
  <1>1. call[n].pc = "done" /\ Kept
    BY DEF Etcd!Start, Etcd!Begin, Etcd!store, Kept
  <1>2. \E c \in Call : c.pc # "granted" /\ c.ret = "none" /\ PlainPc(c) /\ call' = [call EXCEPT ![n] = c]
    <2>1. 0 \in 0 .. MaxRev /\ view[n]["sync"].ver \in 0 .. MaxRev
      BY KeyStoreAssumption, KeyFacts DEF EtcdInv, Core, TypeOK, Item
    <2> QED BY <2>1 DEF Etcd!Start, Etcd!Begin, Etcd!SyncVersion, PlainPc, Call, Pc
  <1> QED BY <1>1, <1>2, Beginning DEF EtcdInv, Core, Kept

\* A request to etcd is a step of its operation.
LEMMA EtcdRequest ==
  ASSUME EtcdInv, NEW n \in Node, Etcd!Request(n)
  PROVE  EtcdActs(n)
  <1>1. ASSUME Etcd!Create(n)
        PROVE  EtcdActs(n)
    <2> DEFINE e == Entry(n, Ttl)
    <2>1. /\ call[n].pc = "create"
          /\ Asks(n, "leader", e, {}, "done", 0)
          /\ Kept \/ (rev < MaxRev /\ Owner(kv["leader"]) = None)
      BY <1>1 DEF Etcd!Create, Etcd!CompareAndSet, Etcd!Answer, Etcd!Repeat, Etcd!Write, Etcd!Same, Etcd!At, Etcd!There, Etcd!store,
         Etcd!Raises, Etcd!Entry, Etcd!Ttl, Entry, Ttl, There, Owner, Asks, Quiet, Write, Answer, Kept
    <2>2. Kept \/ (Sound(e, n))
      BY <2>1, Entries, KeyFacts, KeyStoreAssumption DEF EtcdInv, Core
    <2> HIDE DEF e
    <2>3. call[n].op \in {"acquire", "update"}
      BY <2>1 DEF EtcdInv, PlainPc
    <2>4. Acts(n, "leader") /\ Onward(n, {}, "done")
      BY <2>1, <2>2, <2>3, LeaderActs, KeyFacts DEF EtcdInv
    <2> QED BY <2>1, <2>3, <2>4, KeyFacts DEF EtcdActs, PlainPc, Onward
  <1>2. ASSUME Etcd!Swap(n)
        PROVE  EtcdActs(n)
    <2> DEFINE e == Entry(n, Ttl)
    <2>1. /\ call[n].pc = "swap"
          /\ Asks(n, "leader", e, {"create"}, "done", 0)
          /\ Kept \/ (rev < MaxRev /\ Owner(kv["leader"]) \in {None, n})
      BY <1>2 DEF Etcd!Swap, Etcd!CompareAndSet, Etcd!Answer, Etcd!Repeat, Etcd!Write, Etcd!Same, Etcd!At, Etcd!There, Etcd!store,
         Etcd!Raises, Etcd!Entry, Etcd!Ttl, Etcd!Goto, Goto, Entry, Ttl, Owner, Asks, Quiet, Write, Answer, Kept
    <2>2. Kept \/ (Sound(e, n))
      BY <2>1, Entries, KeyFacts, KeyStoreAssumption DEF EtcdInv, Core
    <2> HIDE DEF e
    <2>3. call[n].op = "update"
      BY <2>1 DEF EtcdInv, PlainPc
    <2>4. Acts(n, "leader") /\ Onward(n, {"create"}, "done")
      <3>1. {"create"} \subseteq Pc \ {"done", "granted"}
        BY DEF Pc
      <3> QED BY <2>1, <2>2, <2>3, <3>1, LeaderActs DEF EtcdInv
    <2> QED BY <2>1, <2>3, <2>4, KeyFacts DEF EtcdActs, PlainPc, Onward
  <1>3. ASSUME Etcd!Delete(n)
        PROVE  EtcdActs(n)
    <2> DEFINE e == Absent
    <2>1. /\ call[n].pc = "delete"
          /\ Asks(n, "leader", e, {}, "done", 0)
          /\ Kept \/ (rev < MaxRev)
      BY <1>3 DEF Etcd!Delete, Etcd!CompareAndSet, Etcd!Answer, Etcd!Repeat, Etcd!Write, Etcd!Same, Etcd!At, Etcd!There, Etcd!store,
         Etcd!Absent, Absent, Asks, Quiet, Write, Answer, Kept
    <2>2. Kept \/ (Sound(e, None))
      BY <2>1, AbsentIs, KeyStoreAssumption DEF EtcdInv, Core, Sound, Lapsed, TypeOK, Absent
    <2> HIDE DEF e
    <2>3. call[n].op = "release"
      BY <2>1 DEF EtcdInv, PlainPc
    <2>4. Acts(n, "leader") /\ Onward(n, {}, "done")
      BY <2>1, <2>2, <2>3, OtherActs, KeyFacts DEF EtcdInv, LeaderOps
    <2> QED BY <2>1, <2>3, <2>4, KeyFacts DEF EtcdActs, PlainPc, Onward
  <1>4. ASSUME Etcd!WriteSync(n)
        PROVE  EtcdActs(n)
    <2> DEFINE e == Entry(n, 0)
    <2>1. /\ call[n].pc = "write"
          /\ Asks(n, "sync", e, {}, "done", rev + 1)
          /\ Kept \/ (rev < MaxRev /\ call[n].ver \in {0, kv["sync"].ver})
      BY <1>4 DEF Etcd!WriteSync, Etcd!CompareAndSet, Etcd!Answer, Etcd!Repeat, Etcd!Write, Etcd!Same, Etcd!At, Etcd!There, Etcd!store,
         Etcd!Fails, Etcd!Entry, Etcd!SyncMatches, Entry, Asks, Quiet, Write, Answer, Kept
    <2>2. Kept \/ (Sound(e, n) /\ e # kv["sync"] /\ e.ver = rev + 1)
      BY <2>1, Entries, KeyFacts, KeyStoreAssumption DEF EtcdInv, Core
    <2> HIDE DEF e
    <2>3. call[n].op = "sync"
      BY <2>1 DEF EtcdInv, PlainPc
    <2>4. Acts(n, "sync") /\ Onward(n, {}, "done")
      <3>1. rev + 1 \in Nat
        BY KeyStoreAssumption DEF EtcdInv, Core, TypeOK
      <3>2. Kept \/ call[n].ver \in Free \/ kv["sync"].ver = call[n].ver
        BY <2>1 DEF Free
      <3> QED BY <2>1, <2>2, <2>3, <3>1, <3>2, SyncActs DEF EtcdInv
    <2> QED BY <2>1, <2>3, <2>4, KeyFacts DEF EtcdActs, PlainPc, Onward
  <1>5. ASSUME Etcd!DeleteSync(n)
        PROVE  EtcdActs(n)
    <2> DEFINE e == Absent
    <2>1. /\ call[n].pc = "erase"
          /\ Asks(n, "sync", e, {}, "done", 0)
          /\ Kept \/ (rev < MaxRev)
      BY <1>5 DEF Etcd!DeleteSync, Etcd!CompareAndSet, Etcd!Answer, Etcd!Repeat, Etcd!Write, Etcd!Same, Etcd!At, Etcd!There, Etcd!store,
         Etcd!Fails, Etcd!Absent, Etcd!SyncMatches, Absent, Asks, Quiet, Write, Answer, Kept
    <2>2. Kept \/ (Sound(e, None))
      BY <2>1, AbsentIs, KeyStoreAssumption DEF EtcdInv, Core, Sound, Lapsed, TypeOK, Absent
    <2> HIDE DEF e
    <2>3. call[n].op = "unsync"
      BY <2>1 DEF EtcdInv, PlainPc
    <2>4. Acts(n, "sync") /\ Onward(n, {}, "done")
      BY <2>1, <2>2, <2>3, OtherActs, KeyFacts DEF EtcdInv, LeaderOps
    <2> QED BY <2>1, <2>3, <2>4, KeyFacts DEF EtcdActs, PlainPc, Onward
  <1>6. ASSUME Etcd!Initialize(n)
        PROVE  EtcdActs(n)
    <2> DEFINE e == Entry(n, 0)
    <2>1. /\ call[n].pc = "first"
          /\ Asks(n, "initialize", e, {}, "done", 0)
          /\ Kept \/ (rev < MaxRev /\ ~There(kv["initialize"]))
      BY <1>6 DEF Etcd!Initialize, Etcd!CompareAndSet, Etcd!Answer, Etcd!Repeat, Etcd!Write, Etcd!Same, Etcd!At, Etcd!There, Etcd!store,
         Etcd!Fails, Etcd!Entry, Entry, There, Asks, Quiet, Write, Answer, Kept
    <2>2. Kept \/ (Sound(e, n) /\ e # kv["initialize"])
      BY <2>1, Entries, KeyFacts, KeyStoreAssumption DEF EtcdInv, Core
    <2> HIDE DEF e
    <2>3. call[n].op = "initialize"
      BY <2>1 DEF EtcdInv, PlainPc
    <2>4. Acts(n, "initialize") /\ Onward(n, {}, "done")
      BY <2>1, <2>2, <2>3, InitializeActs, KeyFacts DEF EtcdInv
    <2> QED BY <2>1, <2>3, <2>4, KeyFacts DEF EtcdActs, PlainPc, Onward
  <1>7. ASSUME Etcd!CancelInitialization(n)
        PROVE  EtcdActs(n)
    <2> DEFINE e == Absent
    <2>1. /\ call[n].pc = "last"
          /\ Asks(n, "initialize", e, {}, "done", 0)
          /\ Kept \/ (rev < MaxRev)
      BY <1>7 DEF Etcd!CancelInitialization, Etcd!CompareAndSet, Etcd!Answer, Etcd!Repeat, Etcd!Write, Etcd!Same, Etcd!At, Etcd!There, Etcd!store,
         Etcd!Fails, Etcd!Absent, Absent, Asks, Quiet, Write, Answer, Kept
    <2>2. Kept \/ (Sound(e, None))
      BY <2>1, AbsentIs, KeyStoreAssumption DEF EtcdInv, Core, Sound, Lapsed, TypeOK, Absent
    <2> HIDE DEF e
    <2>3. call[n].op = "cancel"
      BY <2>1 DEF EtcdInv, PlainPc
    <2>4. Acts(n, "initialize") /\ Onward(n, {}, "done")
      BY <2>1, <2>2, <2>3, OtherActs, KeyFacts DEF EtcdInv, LeaderOps
    <2> QED BY <2>1, <2>3, <2>4, KeyFacts DEF EtcdActs, PlainPc, Onward
  <1>8. ASSUME Etcd!TouchMember(n)
        PROVE  EtcdActs(n)
    <2> DEFINE e == Entry(n, Ttl)
    <2>1. /\ call[n].pc = "touch"
          /\ Asks(n, n, e, {}, "done", 0)
          /\ Kept \/ (rev < MaxRev)
      BY <1>8 DEF Etcd!TouchMember, Etcd!CompareAndSet, Etcd!Answer, Etcd!Repeat, Etcd!Write, Etcd!Same, Etcd!At, Etcd!There, Etcd!store,
         Etcd!Entry, Etcd!Ttl, Entry, Ttl, Asks, Quiet, Write, Answer, Kept
    <2>2. Kept \/ (Sound(e, n))
      BY <2>1, Entries, KeyFacts, KeyStoreAssumption DEF EtcdInv, Core
    <2> HIDE DEF e
    <2>3. call[n].op = "touch"
      BY <2>1 DEF EtcdInv, PlainPc
    <2>4. Acts(n, n) /\ Onward(n, {}, "done")
      BY <2>1, <2>2, <2>3, TouchActs, KeyFacts DEF EtcdInv
    <2> QED BY <2>1, <2>3, <2>4, KeyFacts DEF EtcdActs, PlainPc, Onward
  <1> QED BY <1>1, <1>2, <1>3, <1>4, <1>5, <1>6, <1>7, <1>8 DEF Etcd!Request

\* Every step of etcd keeps its invariant and is a step of the abstract key.
LEMMA EtcdStep ==
  ASSUME EtcdInv, Etcd!Next, UNCHANGED backend
  PROVE  EtcdInv' /\ (K!Next \/ UNCHANGED K!vars) /\ UNCHANGED watcher
  <1>0. UNCHANGED watcher /\ Observe
    <2>1. UNCHANGED watcher /\ Etcd!Observe
      BY DEF Etcd!Next, Etcd!watcher, watcher
    <2> QED BY <2>1 DEF Etcd!Observe, Etcd!Began, Etcd!Holds, Etcd!Wrote, Etcd!Wins, Etcd!GivesUp, Etcd!There, Etcd!Lapsed,
          Observe, Began, Holds, Wrote, Wins, GivesUp, There, Lapsed
  <1>1. Rest /\ (Waits \/ \E n \in Node : Resets(n) \/ \E k \in Key : Acts(n, k))
        /\ \A n \in Node : PlainPc(call'[n])
    <2>1. TypeOK
      BY DEF EtcdInv, Core
    <2>2. CASE Etcd!KeyExpires
      <3>1. UNCHANGED <<sess, view, call>> /\ live' = live
        BY <2>2 DEF Etcd!KeyExpires, Etcd!Lapse, Etcd!Write
      <3>2. PICK k \in Key : rev < MaxRev /\ kv' = [kv EXCEPT ![k] = Absent] /\ rev' = rev + 1
        BY <2>2 DEF Etcd!KeyExpires, Etcd!Lapse, Etcd!Write, Etcd!Key, Key, Etcd!Absent, Absent
      <3>3. Drops
        BY <2>1, <3>2, ExpiresDrops
      <3> QED BY <1>0, <2>1, <3>1, <3>3 DEF Waits, Rest, watcher, TypeOK, EtcdInv
    <2>3. ASSUME NEW n \in Node, Etcd!Load(n)
          PROVE  Rest /\ Resets(n) /\ \A m \in Node : PlainPc(call'[m])
      <3>1. /\ call[n].pc = "done" /\ UNCHANGED <<kv, rev, live, sess>>
            /\ view' = [view EXCEPT ![n] = kv] /\ call' = [call EXCEPT ![n] = Idle]
        BY <2>3 DEF Etcd!Load, Etcd!Cached, Etcd!store, Etcd!Idle, Idle
      <3>2. Resets(n) /\ call'[n] = Idle
        BY <2>1, <3>1, IdleIs, Beginning
      <3> QED BY <1>0, <2>1, <3>1, <3>2, IdleIs DEF Resets, Rest, watcher, TypeOK, EtcdInv, PlainPc
    <2>4. ASSUME NEW n \in Node, Etcd!Start(n)
          PROVE  Rest /\ Resets(n) /\ \A m \in Node : PlainPc(call'[m])
      <3>1. UNCHANGED <<sess, view>>
        BY <2>4 DEF Etcd!Start
      <3> QED BY <1>0, <2>1, <2>4, <3>1, EtcdStart DEF Resets, Rest, watcher, TypeOK, EtcdInv
    <2>5. ASSUME NEW n \in Node, Etcd!Request(n)
          PROVE  Rest /\ (\E k \in Key : Acts(n, k)) /\ \A m \in Node : PlainPc(call'[m])
      <3>1. UNCHANGED <<sess, view>>
        BY <2>5 DEF Etcd!Request
      <3> QED BY <1>0, <2>1, <2>5, <3>1, EtcdRequest DEF EtcdActs, Acts, Moves, Rest, watcher, TypeOK, EtcdInv
    <2> QED BY <2>2, <2>3, <2>4, <2>5 DEF Etcd!Next
  <1> QED BY <1>0, <1>1, CoreStep DEF EtcdInv

-----------------------------------------------------------------------------
(* Raft: every node has a copy of the keys *)

\* Every node knows the keys as of the last command that it applied.
RaftInv ==
  /\ backend = "raft" /\ Core /\ \A n \in Node : PlainPc(call[n])
  /\ StreamInv /\ seen = cache

Copied(n) ==
  /\ seen' = cache' /\ UNCHANGED <<sess, view>>
  /\ UNCHANGED <<cache, stream>> \/ Raft!AppliedHere(n) \/ Raft!AppliedElsewhere

RaftActs(n) == Copied(n) /\ \E k \in Key : Acts(n, k) /\ PlainPc(call'[n]) /\ live' = live

\* What a step of Raft leaves of the copies and of what was not applied yet.
LEMMA RaftCopies ==
  ASSUME RaftInv, NEW n \in Node, Copied(n), kv' \in [Key -> Item], rev' \in 0 .. MaxRev
  PROVE  StreamInv' /\ cache' \in [Node -> [Key -> Item]]
  <1>1. Changes \in Event
    BY ChangesAre
  <1>2. cache \in [Node -> [Key -> Item]] /\ stream \in [Node -> Seq(Event)]
    BY DEF RaftInv, Core, TypeOK, StreamInv
  <1>3. \A x \in Node : Append(stream[x], Changes) \in Seq(Event) /\ stream[x] \in Seq(Event) /\ <<>> \in Seq(Event)
    BY <1>1, <1>2
  <1>4. CASE UNCHANGED <<cache, stream>>
    BY <1>2, <1>4 DEF StreamInv
  <1>5. CASE Raft!AppliedHere(n)
    <2>1. cache' \in [Node -> [Key -> Item]]
      BY <1>2, <1>5 DEF Raft!AppliedHere
    <2>2. stream' = [x \in Node |-> IF x = n THEN <<>>
                               ELSE IF kv' # kv THEN Append(stream[x], Changes) ELSE stream[x]]
      BY <1>5 DEF Raft!AppliedHere, Raft!Changes, Changes, Raft!Key, Key
    <2> QED BY <1>3, <2>1, <2>2 DEF StreamInv
  <1>6. CASE Raft!AppliedElsewhere
    <2>1. cache' = cache /\ stream' = [x \in Node |-> IF kv' # kv THEN Append(stream[x], Changes) ELSE stream[x]]
      BY <1>6 DEF Raft!AppliedElsewhere, Raft!Publish, Raft!Changes, Changes, Raft!Key, Key
    <2> QED BY <1>2, <1>3, <2>1 DEF StreamInv
  <1> QED BY <1>4, <1>5, <1>6 DEF Copied

\* An operation of Raft begins.
LEMMA RaftStart ==
  ASSUME RaftInv, NEW n \in Node, Raft!Start(n)
  PROVE  Resets(n) /\ PlainPc(call'[n]) /\ live' = live
  <1>1. call[n].pc = "done" /\ Kept
    BY DEF Raft!Start, Raft!Begin, Raft!store, Kept
  <1>2. \E c \in Call : c.pc # "granted" /\ c.ret = "none" /\ PlainPc(c) /\ call' = [call EXCEPT ![n] = c]
    <2>1. 0 \in 0 .. MaxRev /\ view[n]["sync"].ver \in 0 .. MaxRev
      BY KeyStoreAssumption, KeyFacts DEF RaftInv, Core, TypeOK, Item
    <2> QED BY <2>1 DEF Raft!Start, Raft!Begin, Raft!SyncVersion, PlainPc, Call, Pc
  <1> QED BY <1>1, <1>2, Beginning DEF RaftInv, Core, Kept

\* A command to Raft is a step of its operation.
LEMMA RaftRequest ==
  ASSUME RaftInv, NEW n \in Node,
         \/ Raft!Create(n) \/ Raft!Swap(n) \/ Raft!Delete(n) \/ Raft!WriteSync(n) \/ Raft!DeleteSync(n)
         \/ Raft!Initialize(n) \/ Raft!CancelInitialization(n) \/ Raft!TouchMember(n)
  PROVE  RaftActs(n)
  <1>1. ASSUME Raft!Create(n)
        PROVE  RaftActs(n)
    <2> DEFINE e == Entry(n, Ttl)
    <2>1. /\ call[n].pc = "create"
          /\ Asks(n, "leader", e, {}, "done", 0)
          /\ Kept \/ (rev < MaxRev /\ Owner(kv["leader"]) = None)
      BY <1>1 DEF Raft!Create, Raft!Command, Raft!AppliedHere, Raft!AppliedElsewhere, Raft!Publish, Raft!Answer, Raft!Repeat, Raft!Write, Raft!Same, Raft!At, Raft!There, Raft!store,
         Raft!Raises, Raft!Entry, Raft!Ttl, Entry, Ttl, There, Owner, Asks, Quiet, Write, Answer, Kept
    <2>2. Kept \/ (Sound(e, n))
      BY <2>1, Entries, KeyFacts, KeyStoreAssumption DEF RaftInv, Core
    <2> HIDE DEF e
    <2>3. call[n].op \in {"acquire", "update"}
      BY <2>1 DEF RaftInv, PlainPc
    <2>4. Acts(n, "leader") /\ Onward(n, {}, "done")
      BY <2>1, <2>2, <2>3, LeaderActs, KeyFacts DEF RaftInv
    <2>5. Copied(n)
      BY <1>1 DEF Raft!Create, Raft!Command, Raft!Same, Raft!store, Copied
    <2> QED BY <2>1, <2>3, <2>4, <2>5, KeyFacts DEF RaftActs, PlainPc, Onward
  <1>2. ASSUME Raft!Swap(n)
        PROVE  RaftActs(n)
    <2> DEFINE e == Entry(n, Ttl)
    <2>1. /\ call[n].pc = "swap"
          /\ Asks(n, "leader", e, {"create"}, "done", 0)
          /\ Kept \/ (rev < MaxRev /\ Owner(kv["leader"]) \in {None, n})
      BY <1>2 DEF Raft!Swap, Raft!Command, Raft!AppliedHere, Raft!AppliedElsewhere, Raft!Publish, Raft!Answer, Raft!Repeat, Raft!Write, Raft!Same, Raft!At, Raft!There, Raft!store,
         Raft!Raises, Raft!Entry, Raft!Ttl, Raft!Goto, Goto, Entry, Ttl, Owner, Asks, Quiet, Write, Answer, Kept
    <2>2. Kept \/ (Sound(e, n))
      BY <2>1, Entries, KeyFacts, KeyStoreAssumption DEF RaftInv, Core
    <2> HIDE DEF e
    <2>3. call[n].op = "update"
      BY <2>1 DEF RaftInv, PlainPc
    <2>4. Acts(n, "leader") /\ Onward(n, {"create"}, "done")
      <3>1. {"create"} \subseteq Pc \ {"done", "granted"}
        BY DEF Pc
      <3> QED BY <2>1, <2>2, <2>3, <3>1, LeaderActs DEF RaftInv
    <2>5. Copied(n)
      BY <1>2 DEF Raft!Swap, Raft!Command, Raft!Same, Raft!store, Copied
    <2> QED BY <2>1, <2>3, <2>4, <2>5, KeyFacts DEF RaftActs, PlainPc, Onward
  <1>3. ASSUME Raft!Delete(n)
        PROVE  RaftActs(n)
    <2> DEFINE e == Absent
    <2>1. /\ call[n].pc = "delete"
          /\ Asks(n, "leader", e, {}, "done", 0)
          /\ Kept \/ (rev < MaxRev)
      BY <1>3 DEF Raft!Delete, Raft!Command, Raft!AppliedHere, Raft!AppliedElsewhere, Raft!Publish, Raft!Answer, Raft!Repeat, Raft!Write, Raft!Same, Raft!At, Raft!There, Raft!store,
         Raft!Fails, Raft!Absent, Absent, Asks, Quiet, Write, Answer, Kept
    <2>2. Kept \/ (Sound(e, None))
      BY <2>1, AbsentIs, KeyStoreAssumption DEF RaftInv, Core, Sound, Lapsed, TypeOK, Absent
    <2> HIDE DEF e
    <2>3. call[n].op = "release"
      BY <2>1 DEF RaftInv, PlainPc
    <2>4. Acts(n, "leader") /\ Onward(n, {}, "done")
      BY <2>1, <2>2, <2>3, OtherActs, KeyFacts DEF RaftInv, LeaderOps
    <2>5. Copied(n)
      BY <1>3 DEF Raft!Delete, Raft!Command, Raft!Same, Raft!store, Copied
    <2> QED BY <2>1, <2>3, <2>4, <2>5, KeyFacts DEF RaftActs, PlainPc, Onward
  <1>4. ASSUME Raft!WriteSync(n)
        PROVE  RaftActs(n)
    <2> DEFINE e == Entry(n, 0)
    <2>1. /\ call[n].pc = "write"
          /\ Asks(n, "sync", e, {}, "done", rev + 1)
          /\ Kept \/ (rev < MaxRev /\ call[n].ver \in {0, kv["sync"].ver})
      BY <1>4 DEF Raft!WriteSync, Raft!Command, Raft!AppliedHere, Raft!AppliedElsewhere, Raft!Publish, Raft!Answer, Raft!Repeat, Raft!Write, Raft!Same, Raft!At, Raft!There, Raft!store,
         Raft!Fails, Raft!Entry, Raft!VersionIs, Entry, Asks, Quiet, Write, Answer, Kept
    <2>2. Kept \/ (Sound(e, n) /\ e # kv["sync"] /\ e.ver = rev + 1)
      BY <2>1, Entries, KeyFacts, KeyStoreAssumption DEF RaftInv, Core
    <2> HIDE DEF e
    <2>3. call[n].op = "sync"
      BY <2>1 DEF RaftInv, PlainPc
    <2>4. Acts(n, "sync") /\ Onward(n, {}, "done")
      <3>1. rev + 1 \in Nat
        BY KeyStoreAssumption DEF RaftInv, Core, TypeOK
      <3>2. Kept \/ call[n].ver \in Free \/ kv["sync"].ver = call[n].ver
        BY <2>1 DEF Free
      <3> QED BY <2>1, <2>2, <2>3, <3>1, <3>2, SyncActs DEF RaftInv
    <2>5. Copied(n)
      BY <1>4 DEF Raft!WriteSync, Raft!Command, Raft!Same, Raft!store, Copied
    <2> QED BY <2>1, <2>3, <2>4, <2>5, KeyFacts DEF RaftActs, PlainPc, Onward
  <1>5. ASSUME Raft!DeleteSync(n)
        PROVE  RaftActs(n)
    <2> DEFINE e == Absent
    <2>1. /\ call[n].pc = "erase"
          /\ Asks(n, "sync", e, {}, "done", 0)
          /\ Kept \/ (rev < MaxRev)
      BY <1>5 DEF Raft!DeleteSync, Raft!Command, Raft!AppliedHere, Raft!AppliedElsewhere, Raft!Publish, Raft!Answer, Raft!Repeat, Raft!Write, Raft!Same, Raft!At, Raft!There, Raft!store,
         Raft!Fails, Raft!Absent, Raft!VersionIs, Absent, Asks, Quiet, Write, Answer, Kept
    <2>2. Kept \/ (Sound(e, None))
      BY <2>1, AbsentIs, KeyStoreAssumption DEF RaftInv, Core, Sound, Lapsed, TypeOK, Absent
    <2> HIDE DEF e
    <2>3. call[n].op = "unsync"
      BY <2>1 DEF RaftInv, PlainPc
    <2>4. Acts(n, "sync") /\ Onward(n, {}, "done")
      BY <2>1, <2>2, <2>3, OtherActs, KeyFacts DEF RaftInv, LeaderOps
    <2>5. Copied(n)
      BY <1>5 DEF Raft!DeleteSync, Raft!Command, Raft!Same, Raft!store, Copied
    <2> QED BY <2>1, <2>3, <2>4, <2>5, KeyFacts DEF RaftActs, PlainPc, Onward
  <1>6. ASSUME Raft!Initialize(n)
        PROVE  RaftActs(n)
    <2> DEFINE e == Entry(n, 0)
    <2>1. /\ call[n].pc = "first"
          /\ Asks(n, "initialize", e, {}, "done", 0)
          /\ Kept \/ (rev < MaxRev /\ ~There(kv["initialize"]))
      BY <1>6 DEF Raft!Initialize, Raft!Command, Raft!AppliedHere, Raft!AppliedElsewhere, Raft!Publish, Raft!Answer, Raft!Repeat, Raft!Write, Raft!Same, Raft!At, Raft!There, Raft!store,
         Raft!Fails, Raft!Entry, Entry, There, Asks, Quiet, Write, Answer, Kept
    <2>2. Kept \/ (Sound(e, n) /\ e # kv["initialize"])
      BY <2>1, Entries, KeyFacts, KeyStoreAssumption DEF RaftInv, Core
    <2> HIDE DEF e
    <2>3. call[n].op = "initialize"
      BY <2>1 DEF RaftInv, PlainPc
    <2>4. Acts(n, "initialize") /\ Onward(n, {}, "done")
      BY <2>1, <2>2, <2>3, InitializeActs, KeyFacts DEF RaftInv
    <2>5. Copied(n)
      BY <1>6 DEF Raft!Initialize, Raft!Command, Raft!Same, Raft!store, Copied
    <2> QED BY <2>1, <2>3, <2>4, <2>5, KeyFacts DEF RaftActs, PlainPc, Onward
  <1>7. ASSUME Raft!CancelInitialization(n)
        PROVE  RaftActs(n)
    <2> DEFINE e == Absent
    <2>1. /\ call[n].pc = "last"
          /\ Asks(n, "initialize", e, {}, "done", 0)
          /\ Kept \/ (rev < MaxRev)
      BY <1>7 DEF Raft!CancelInitialization, Raft!Command, Raft!AppliedHere, Raft!AppliedElsewhere, Raft!Publish, Raft!Answer, Raft!Repeat, Raft!Write, Raft!Same, Raft!At, Raft!There, Raft!store,
         Raft!Fails, Raft!Absent, Absent, Asks, Quiet, Write, Answer, Kept
    <2>2. Kept \/ (Sound(e, None))
      BY <2>1, AbsentIs, KeyStoreAssumption DEF RaftInv, Core, Sound, Lapsed, TypeOK, Absent
    <2> HIDE DEF e
    <2>3. call[n].op = "cancel"
      BY <2>1 DEF RaftInv, PlainPc
    <2>4. Acts(n, "initialize") /\ Onward(n, {}, "done")
      BY <2>1, <2>2, <2>3, OtherActs, KeyFacts DEF RaftInv, LeaderOps
    <2>5. Copied(n)
      BY <1>7 DEF Raft!CancelInitialization, Raft!Command, Raft!Same, Raft!store, Copied
    <2> QED BY <2>1, <2>3, <2>4, <2>5, KeyFacts DEF RaftActs, PlainPc, Onward
  <1>8. ASSUME Raft!TouchMember(n)
        PROVE  RaftActs(n)
    <2> DEFINE e == Entry(n, Ttl)
    <2>1. /\ call[n].pc = "touch"
          /\ Asks(n, n, e, {}, "done", 0)
          /\ Kept \/ (rev < MaxRev)
      BY <1>8 DEF Raft!TouchMember, Raft!Command, Raft!AppliedHere, Raft!AppliedElsewhere, Raft!Publish, Raft!Answer, Raft!Repeat, Raft!Write, Raft!Same, Raft!At, Raft!There, Raft!store,
         Raft!Fails, Raft!Entry, Raft!Ttl, Entry, Ttl, Asks, Quiet, Write, Answer, Kept
    <2>2. Kept \/ (Sound(e, n))
      BY <2>1, Entries, KeyFacts, KeyStoreAssumption DEF RaftInv, Core
    <2> HIDE DEF e
    <2>3. call[n].op = "touch"
      BY <2>1 DEF RaftInv, PlainPc
    <2>4. Acts(n, n) /\ Onward(n, {}, "done")
      BY <2>1, <2>2, <2>3, TouchActs, KeyFacts DEF RaftInv
    <2>5. Copied(n)
      BY <1>8 DEF Raft!TouchMember, Raft!Command, Raft!Same, Raft!store, Copied
    <2> QED BY <2>1, <2>3, <2>4, <2>5, KeyFacts DEF RaftActs, PlainPc, Onward
  <1> QED BY <1>1, <1>2, <1>3, <1>4, <1>5, <1>6, <1>7, <1>8

\* Every step of Raft keeps its invariant and is a step of the abstract key.
LEMMA RaftStep ==
  ASSUME RaftInv, Raft!Next, UNCHANGED backend
  PROVE  RaftInv' /\ (K!Next \/ UNCHANGED K!vars)
  <1>0. Observe
    <2>1. Raft!Observe
      BY DEF Raft!Next
    <2> QED BY <2>1 DEF Raft!Observe, Raft!Began, Raft!Holds, Raft!Wrote, Raft!Wins, Raft!GivesUp, Raft!There, Raft!Lapsed,
          Observe, Began, Holds, Wrote, Wins, GivesUp, There, Lapsed
  <1> DEFINE Goal == /\ Rest /\ StreamInv' /\ seen' = cache'
                     /\ Waits \/ \E n \in Node : Resets(n) \/ \E k \in Key : Acts(n, k)
                     /\ \A n \in Node : PlainPc(call'[n])
  <1>1. Goal
    <2>1. TypeOK /\ StreamInv /\ seen = cache /\ \A n \in Node : PlainPc(call[n])
      BY DEF RaftInv, Core
    <2>2. CASE Raft!KeyExpires
      <3>1. UNCHANGED <<sess, view, call, seen, cache>> /\ live' = live
        BY <2>2 DEF Raft!KeyExpires, Raft!Lapse, Raft!Write
      <3>2. PICK k \in Key : rev < MaxRev /\ kv' = [kv EXCEPT ![k] = Absent] /\ rev' = rev + 1
        BY <2>2 DEF Raft!KeyExpires, Raft!Lapse, Raft!Write, Raft!Key, Key, Raft!Absent, Absent
      <3>3. Drops
        BY <2>1, <3>2, ExpiresDrops
      <3>4. StreamInv'
        <4>1. Changes \in Event
          BY <3>3, ChangesAre DEF Drops
        <4>2. stream' = [x \in Node |-> IF kv' # kv THEN Append(stream[x], Changes) ELSE stream[x]]
          BY <2>2 DEF Raft!KeyExpires, Raft!Publish, Raft!Changes, Changes, Raft!Key, Key
        <4> QED BY <2>1, <4>1, <4>2 DEF StreamInv
      <3> QED BY <2>1, <3>1, <3>3, <3>4 DEF Waits, Rest, TypeOK
    <2>3. ASSUME NEW n \in Node, Raft!Load(n)
          PROVE  Goal
      <3>1. /\ call[n].pc = "done" /\ UNCHANGED <<kv, rev, live, sess, stream, seen, cache>>
            /\ view' = [view EXCEPT ![n] = cache[n]] /\ call' = [call EXCEPT ![n] = Idle]
        BY <2>3 DEF Raft!Load, Raft!Cached, Raft!store, Raft!Idle, Idle, Raft!watcher
      <3>2. Resets(n) /\ call'[n] = Idle
        BY <2>1, <3>1, IdleIs, Beginning
      <3>3. Rest
        BY <2>1, <3>1 DEF Rest, TypeOK
      <3> QED BY <2>1, <3>1, <3>2, <3>3, IdleIs DEF Resets, PlainPc, StreamInv
    <2>4. ASSUME NEW n \in Node, Raft!Start(n)
          PROVE  Goal
      <3>1. UNCHANGED <<sess, view, stream, seen, cache>>
        BY <2>4 DEF Raft!Start, Raft!watcher
      <3> QED BY <2>1, <2>4, <3>1, RaftStart DEF Resets, Rest, TypeOK, StreamInv
    <2>5. ASSUME NEW n \in Node, Raft!Apply(n)
          PROVE  Goal
      <3>1. stream[n] # <<>> /\ UNCHANGED <<kv, rev, live, sess, view, call>> /\ seen' = cache'
            /\ cache' = [cache EXCEPT ![n] = After(cache[n], Head(stream[n]))]
            /\ stream' = [stream EXCEPT ![n] = Tail(stream[n])]
        BY <2>5 DEF Raft!Apply, Raft!store, Raft!After, After, Raft!Key, Key, Raft!There, There, Raft!Absent, Absent
      <3>2. Head(stream[n]) \in Event /\ Tail(stream[n]) \in Seq(Event)
        BY <2>1, <3>1 DEF StreamInv
      <3>3. After(cache[n], Head(stream[n])) \in [Key -> Item]
        BY <2>1, <3>2, AfterIs DEF TypeOK
      <3>4. Rest /\ StreamInv'
        BY <2>1, <3>1, <3>2, <3>3 DEF Rest, TypeOK, StreamInv
      <3> QED BY <2>1, <3>1, <3>4, KeptDrops DEF Waits
    <2>6. ASSUME NEW n \in Node, RaftActs(n)
          PROVE  Goal
      <3>1. PICK k \in Key : Acts(n, k) /\ PlainPc(call'[n]) /\ live' = live
        BY <2>6 DEF RaftActs
      <3>2. kv' \in [Key -> Item] /\ rev' \in 0 .. MaxRev /\ \A m \in Node \ {n} : call'[m] = call[m]
        BY <3>1 DEF Acts, Drops, Puts, Moves
      <3>3. StreamInv' /\ cache' \in [Node -> [Key -> Item]] /\ seen' = cache' /\ UNCHANGED <<sess, view>>
        BY <2>6, <3>2, RaftCopies DEF RaftActs, Copied
      <3>4. Rest
        BY <2>1, <3>1, <3>3 DEF Rest, TypeOK
      <3> QED BY <2>1, <3>1, <3>2, <3>3, <3>4
    <2> HIDE DEF Goal
    <2> QED BY <2>2, <2>3, <2>4, <2>5, <2>6, RaftRequest DEF Raft!Next
  <1> QED BY <1>0, <1>1, CoreStep DEF RaftInv

-----------------------------------------------------------------------------
(* Consul: keys belong to sessions *)

\* Where the operations of Consul may be.
ConsulPc(c) ==
  /\ c.pc \in {"renew", "create", "relock"} => c.op \in {"acquire", "update", "touch"}
  /\ c.pc = "lock" => c.op = "acquire"
  /\ c.pc \in {"drop", "retake"} => c.op = "update"
  /\ c.pc = "delete" => c.op = "release"
  /\ c.pc \in {"write", "read"} => c.op = "sync"
  /\ c.pc = "erase" => c.op = "unsync"
  /\ c.pc = "first" => c.op = "initialize"
  /\ c.pc = "last" => c.op = "cancel"
  /\ c.pc \in {"touch", "untouch"} => c.op = "touch"
  /\ c.pc # "granted"

\* A session is one node's, and the leader key belongs to the session of the node
\* that it names.
SessionInv ==
  /\ There(kv["leader"]) => kv["leader"].own \in live
  /\ \A m, n \in Node : sess[m] = sess[n] /\ sess[m] # 0 => m = n
  /\ \A m \in Node : There(kv["leader"]) /\ kv["leader"].own = sess[m] => kv["leader"].val = m

\* What n is about to read is what it wrote, when it has its name.
ReadInv ==
  \A n \in Node : call[n].pc = "read" /\ kv["sync"].val = n =>
    \E w \in wrote[n] : w.new = kv["sync"].ver /\ (call[n].ver \in Free \/ w.over = call[n].ver)

ConsulInv == backend = "consul" /\ Core /\ (\A n \in Node : ConsulPc(call[n])) /\ SessionInv /\ ReadInv

\* What becomes of the leader key and the sessions.
SessionStep(n) ==
  \/ (kv'["leader"] = kv["leader"] \/ ~There(kv'["leader"])) /\ UNCHANGED <<live, sess>>
  \/ /\ kv'["leader"].val = n /\ kv'["leader"].own = sess[n] /\ sess[n] \in live
     /\ UNCHANGED <<live, sess>>
  \/ UNCHANGED <<kv, live>> /\ sess' = [sess EXCEPT ![n] = 0]
  \/ /\ UNCHANGED kv
     /\ \E s \in Session : /\ s \notin live /\ \A m \in Node : sess[m] # s
                           /\ live' = live \cup {s} /\ sess' = [sess EXCEPT ![n] = s]

\* Sessions, and the leader key that belongs to one, when a node acts.
LEMMA SessionKept ==
  ASSUME TypeOK, SessionInv, NEW n \in Node, SessionStep(n)
  PROVE  SessionInv' /\ live' \subseteq Session /\ sess' \in [Node -> Session \cup {0}]
  <1>1. sess \in [Node -> Session \cup {0}] /\ live \subseteq Session /\ 0 \notin Session
    BY KeyStoreAssumption DEF TypeOK
  <1>2. CASE (kv'["leader"] = kv["leader"] \/ ~There(kv'["leader"])) /\ UNCHANGED <<live, sess>>
    BY <1>1, <1>2 DEF SessionInv, There
  <1>3. CASE /\ kv'["leader"].val = n /\ kv'["leader"].own = sess[n] /\ sess[n] \in live
             /\ UNCHANGED <<live, sess>>
    BY <1>1, <1>3 DEF SessionInv, There
  <1>4. CASE UNCHANGED <<kv, live>> /\ sess' = [sess EXCEPT ![n] = 0]
    BY <1>1, <1>4 DEF SessionInv, There
  <1>5. ASSUME UNCHANGED kv, NEW s \in Session, s \notin live, \A m \in Node : sess[m] # s,
               live' = live \cup {s}, sess' = [sess EXCEPT ![n] = s]
        PROVE  SessionInv' /\ live' \subseteq Session /\ sess' \in [Node -> Session \cup {0}]
    BY <1>1, <1>5 DEF SessionInv, There
  <1> QED BY <1>2, <1>3, <1>4, <1>5 DEF SessionStep

\* A node comes to read only after it wrote.
ReadStep(n) ==
  call'[n].pc = "read" =>
    \/ call[n].pc = "read" /\ kv' = kv
    \/ /\ call[n].op = "sync" /\ kv'["sync"] # kv["sync"] /\ kv'["sync"].val = n
       /\ call[n].ver \in Free \/ kv["sync"].ver = call[n].ver

\* A node that has yet to read what it wrote is not disturbed by the others.
LEMMA ReadKept ==
  ASSUME TypeOK, Observe, UNCHANGED backend, ReadInv, \A n \in Node : ConsulPc(call[n]), NEW m \in Node,
         \/ Waits
         \/ Resets(m) /\ call'[m].pc # "read"
         \/ ReadStep(m) /\ \E k \in Key : Acts(m, k)
  PROVE  ReadInv'
  <1> SUFFICES ASSUME NEW n \in Node, call'[n].pc = "read", kv'["sync"].val = n
               PROVE  \E w \in wrote'[n] : w.new = kv'["sync"].ver /\ (call'[n].ver \in Free \/ w.over = call'[n].ver)
    BY DEF ReadInv, Free
  <1>1. ASSUME call'[n] = call[n], kv'["sync"] = kv["sync"]
        PROVE  \E w \in wrote'[n] : w.new = kv'["sync"].ver /\ (call'[n].ver \in Free \/ w.over = call'[n].ver)
    <2>1. ~Began(n) /\ call'[n].op = "sync"
      BY <1>1 DEF Began, ConsulPc
    <2>2. wrote[n] \subseteq wrote'[n]
      BY <2>1, Observed
    <2> QED BY <1>1, <2>2 DEF ReadInv
  <1>2. \A k \in Key : Acts(m, k) => kv'["sync"] = kv["sync"] \/ kv'["sync"].val \in {m, None}
    BY KeyFacts DEF Acts, Drops, Puts, There
  <1>3. CASE Waits
    BY <1>1, <1>3, KeyFacts, KeyStoreAssumption DEF Waits, Drops, There
  <1>4. CASE Resets(m) /\ call'[m].pc # "read"
    BY <1>1, <1>4 DEF Resets
  <1>5. ASSUME ReadStep(m), NEW k \in Key, Acts(m, k)
        PROVE  \E w \in wrote'[n] : w.new = kv'["sync"].ver /\ (call'[n].ver \in Free \/ w.over = call'[n].ver)
    <2>1. CASE n # m
      <3>1. call'[n] = call[n]
        BY <1>5, <2>1 DEF Acts, Moves
      <3>2. kv'["sync"] = kv["sync"]
        BY <1>2, <1>5, <2>1, KeyStoreAssumption
      <3> QED BY <1>1, <3>1, <3>2
    <2>2. CASE n = m
      <3>1. ~Began(n) /\ call'[n].op = call[n].op /\ (call[n].op = "sync" => call'[n].ver = call[n].ver)
        BY <1>5, <2>2 DEF Acts, Moves, Began
      <3>2. CASE call[n].pc = "read" /\ kv' = kv
        <4>1. call[n].op = "sync"
          BY <3>2 DEF ConsulPc
        <4>2. wrote[n] \subseteq wrote'[n]
          BY <3>1, <4>1, Observed
        <4> QED BY <3>1, <3>2, <4>1, <4>2 DEF ReadInv
      <3>3. CASE /\ call[n].op = "sync" /\ kv'["sync"] # kv["sync"]
                 /\ call[n].ver \in Free \/ kv["sync"].ver = call[n].ver
        <4>1. Wrote(n) \subseteq wrote'[n]
          BY <3>1, <3>3, Observed
        <4>2. [new |-> kv'["sync"].ver, over |-> kv["sync"].ver, free |-> ~There(kv["sync"])] \in wrote'[n]
          BY <3>1, <3>3, <4>1 DEF Wrote
        <4> QED BY <3>1, <3>3, <4>2
      <3> QED BY <1>5, <2>2, <3>2, <3>3 DEF ReadStep
    <2> QED BY <2>1, <2>2
  <1> QED BY <1>3, <1>4, <1>5

ConsulActs(n) ==
  /\ SessionStep(n) /\ ReadStep(n) /\ ConsulPc(call'[n])
  /\ \E k \in Key : Acts(n, k)

\* An operation of Consul begins.
LEMMA ConsulStart ==
  ASSUME ConsulInv, NEW n \in Node, Consul!Start(n)
  PROVE  Resets(n) /\ ConsulPc(call'[n]) /\ live' = live /\ call'[n].pc # "read"
  <1>1. call[n].pc = "done" /\ Kept
    BY DEF Consul!Start, Consul!Begin, Consul!store, Kept
  <1>2. \E c \in Call : /\ c.pc \notin {"granted", "read"} /\ c.ret = "none" /\ ConsulPc(c)
                        /\ call' = [call EXCEPT ![n] = c]
    <2>1. 0 \in 0 .. MaxRev /\ view[n]["sync"].ver \in 0 .. MaxRev
      BY KeyStoreAssumption, KeyFacts DEF ConsulInv, Core, TypeOK, Item
    <2> QED BY <2>1 DEF Consul!Start, Consul!Begin, Consul!SyncVersion, ConsulPc, Call, Pc
  <1> QED BY <1>1, <1>2, Beginning DEF ConsulInv, Core, Kept

\* A request without a write, of an operation that takes care of its answer or does not.
LEMMA ConsulGoesOn ==
  ASSUME ConsulInv, NEW n \in Node, call[n].pc \notin {"done", "granted"}, kv' = kv, rev' = rev,
         \/ call[n].op = "acquire" /\ Quiet(n, {"lock", "create", "relock"})
         \/ /\ call[n].op = "touch"
            /\ Quiet(n, {"untouch", "touch", "create", "relock"}) \/ Answer(n, "true", 0)
         \/ /\ call[n].op = "update"
            /\ Quiet(n, {"drop", "retake", "create", "relock"}) \/ Answer(n, "true", 0)
  PROVE  Acts(n, "leader") /\ ConsulPc(call'[n]) /\ call'[n].pc # "read"
  <1>1. Core /\ TypeOK /\ ConsulPc(call[n]) /\ "leader" \in Key /\ backend = "consul"
    BY KeyFacts DEF ConsulInv, Core
  <1>2. CASE call[n].op = "acquire" /\ Quiet(n, {"lock", "create", "relock"})
    <2>1. {"lock", "create", "relock"} \subseteq Pc \ {"done", "granted"}
      BY DEF Pc
    <2>2. /\ Acts(n, "leader")
          /\ call'[n].pc \in {call[n].pc, "done"} \cup {"lock", "create", "relock"}
          /\ call'[n].op = call[n].op
      BY <1>1, <1>2, <2>1, MoveActs
    <2> QED BY <1>1, <1>2, <2>2 DEF ConsulPc
  <1>3. CASE /\ call[n].op = "touch"
             /\ Quiet(n, {"untouch", "touch", "create", "relock"}) \/ Answer(n, "true", 0)
    <2>1. {"untouch", "touch", "create", "relock"} \subseteq Pc \ {"done", "granted"}
      BY DEF Pc
    <2>2. /\ Moves(n) /\ call'[n].op = call[n].op
          /\ call'[n].pc \in {call[n].pc, "done"} \cup {"untouch", "touch", "create", "relock"}
      BY <1>1, <1>3, <2>1, LooseMoves
    <2>3. Acts(n, "leader")
      BY <1>1, <1>3, <2>2, LooseActs DEF LeaderOps
    <2> QED BY <1>1, <1>3, <2>2, <2>3 DEF ConsulPc
  <1>4. CASE /\ call[n].op = "update"
             /\ Quiet(n, {"drop", "retake", "create", "relock"}) \/ Answer(n, "true", 0)
    <2>1. {"drop", "retake", "create", "relock"} \subseteq Pc \ {"done", "granted"}
      BY DEF Pc
    <2>2. /\ Moves(n) /\ call'[n].op = call[n].op
          /\ call'[n].pc \in {call[n].pc, "done"} \cup {"drop", "retake", "create", "relock"}
      BY <1>1, <1>4, <2>1, LooseMoves
    <2>3. Acts(n, "leader")
      BY <1>1, <1>4, <2>2, LooseActs DEF LeaderOps
    <2> QED BY <1>1, <1>4, <2>2, <2>3 DEF ConsulPc
  <1> QED BY <1>2, <1>3, <1>4

\* A step with the session of a node is a step of its operation.
LEMMA ConsulSession ==
  ASSUME ConsulInv, NEW n \in Node, Consul!Renew(n) \/ Consul!CreateSession(n)
  PROVE  ConsulActs(n)
  <1>1. ConsulPc(call[n]) /\ TypeOK /\ "leader" \in Key
    BY KeyFacts DEF ConsulInv, Core
  <1>2. ASSUME Consul!Renew(n)
        PROVE  ConsulActs(n)
    <2>1. call[n].pc = "renew" /\ UNCHANGED <<kv, rev, live>> /\ (UNCHANGED sess \/ sess' = [sess EXCEPT ![n] = 0])
      BY <1>2 DEF Consul!Renew, Consul!At, Consul!Same, Consul!store
    <2>2. \/ call[n].op = "acquire" /\ Quiet(n, {"lock", "create", "relock"})
          \/ /\ call[n].op = "touch"
             /\ Quiet(n, {"untouch", "touch", "create", "relock"}) \/ Answer(n, "true", 0)
          \/ /\ call[n].op = "update"
             /\ Quiet(n, {"drop", "retake", "create", "relock"}) \/ Answer(n, "true", 0)
      BY <1>1, <1>2, <2>1 DEF Consul!Renew, Consul!Refreshed, Consul!Raises, Consul!Fails, Consul!Repeat, Consul!Answer, Consul!Goto,
         ConsulPc, Quiet, Answer, Goto
    <2>3. Acts(n, "leader") /\ ConsulPc(call'[n]) /\ call'[n].pc # "read"
      BY <2>1, <2>2, ConsulGoesOn
    <2> QED BY <1>1, <2>1, <2>3 DEF ConsulActs, SessionStep, ReadStep
  <1>3. ASSUME Consul!CreateSession(n)
        PROVE  ConsulActs(n)
    <2>1. call[n].pc = "create" /\ UNCHANGED <<kv, rev>>
      BY <1>3 DEF Consul!CreateSession, Consul!At
    <2>2. \/ call[n].op = "acquire" /\ Quiet(n, {"lock", "create", "relock"})
          \/ /\ call[n].op = "touch"
             /\ Quiet(n, {"untouch", "touch", "create", "relock"}) \/ Answer(n, "true", 0)
          \/ /\ call[n].op = "update"
             /\ Quiet(n, {"drop", "retake", "create", "relock"}) \/ Answer(n, "true", 0)
      BY <1>1, <1>3, <2>1 DEF Consul!CreateSession, Consul!Refreshed, Consul!Raises, Consul!Fails, Consul!Repeat, Consul!Answer, Consul!Goto,
         ConsulPc, Quiet, Answer, Goto
    <2>3. Acts(n, "leader") /\ ConsulPc(call'[n]) /\ call'[n].pc # "read"
      BY <2>1, <2>2, ConsulGoesOn
    <2>4. \/ UNCHANGED <<live, sess>>
          \/ \E s \in Session : /\ s \notin live /\ \A m \in Node : sess[m] # s
                                /\ live' = live \cup {s} /\ sess' = [sess EXCEPT ![n] = s]
      BY <1>3 DEF Consul!CreateSession, Consul!Unused, Consul!Referenced
    <2> QED BY <1>1, <2>1, <2>3, <2>4 DEF ConsulActs, SessionStep, ReadStep
  <1> QED BY <1>2, <1>3

\* A request to Consul is a step of its operation.
LEMMA ConsulRequest ==
  ASSUME ConsulInv, NEW n \in Node,
         \/ Consul!Drop(n) \/ Consul!Delete(n) \/ Consul!WriteSync(n) \/ Consul!DeleteSync(n)
         \/ Consul!Initialize(n) \/ Consul!CancelInitialization(n) \/ Consul!Untouch(n)
  PROVE  ConsulActs(n)
  <1>1. ASSUME Consul!Drop(n)
        PROVE  ConsulActs(n)
    <2> DEFINE e == Absent
    <2>1. /\ call[n].pc = "drop" /\ UNCHANGED sess
          /\ Asks(n, "leader", e, {"retake"}, "done", 0)
          /\ Kept \/ (rev < MaxRev)
      BY <1>1 DEF Consul!Drop, Consul!CompareAndSet, Consul!Answer, Consul!Repeat, Consul!Write, Consul!Same, Consul!At, Consul!There, Consul!store,
         Consul!Raises, Consul!Absent, Absent, Consul!Goto, Goto, Asks, Quiet, Write, Answer, Kept
    <2>2. Kept \/ (Sound(e, None))
      BY <2>1, AbsentIs, KeyStoreAssumption DEF ConsulInv, Core, Sound, Lapsed, TypeOK, Absent
    <2>5. kv'["leader"] = kv["leader"] \/ ~There(kv'["leader"])
      BY <2>1, KeyFacts, AbsentIs DEF Asks, Write, Kept, ConsulInv, Core, TypeOK
    <2> HIDE DEF e
    <2>3. call[n].op = "update"
      BY <2>1 DEF ConsulInv, ConsulPc
    <2>4. Acts(n, "leader") /\ Onward(n, {"retake"}, "done")
      <3>1. {"retake"} \subseteq Pc \ {"done", "granted"}
        BY DEF Pc
      <3> QED BY <2>1, <2>2, <2>3, <3>1, OtherActs, KeyFacts DEF ConsulInv, LeaderOps
    <2> QED BY <2>1, <2>3, <2>4, <2>5, KeyFacts DEF ConsulActs, ConsulPc, Onward, SessionStep, ReadStep
  <1>2. ASSUME Consul!Delete(n)
        PROVE  ConsulActs(n)
    <2> DEFINE e == Absent
    <2>1. /\ call[n].pc = "delete" /\ UNCHANGED sess
          /\ Asks(n, "leader", e, {}, "done", 0)
          /\ Kept \/ (rev < MaxRev)
      BY <1>2 DEF Consul!Delete, Consul!CompareAndSet, Consul!Answer, Consul!Repeat, Consul!Write, Consul!Same, Consul!At, Consul!There, Consul!store,
         Consul!Absent, Absent, Asks, Quiet, Write, Answer, Kept
    <2>2. Kept \/ (Sound(e, None))
      BY <2>1, AbsentIs, KeyStoreAssumption DEF ConsulInv, Core, Sound, Lapsed, TypeOK, Absent
    <2>5. kv'["leader"] = kv["leader"] \/ ~There(kv'["leader"])
      BY <2>1, KeyFacts, AbsentIs DEF Asks, Write, Kept, ConsulInv, Core, TypeOK
    <2> HIDE DEF e
    <2>3. call[n].op = "release"
      BY <2>1 DEF ConsulInv, ConsulPc
    <2>4. Acts(n, "leader") /\ Onward(n, {}, "done")
      BY <2>1, <2>2, <2>3, OtherActs, KeyFacts DEF ConsulInv, LeaderOps
    <2> QED BY <2>1, <2>3, <2>4, <2>5, KeyFacts DEF ConsulActs, ConsulPc, Onward, SessionStep, ReadStep
  <1>4. ASSUME Consul!DeleteSync(n)
        PROVE  ConsulActs(n)
    <2> DEFINE e == Absent
    <2>1. /\ call[n].pc = "erase" /\ UNCHANGED sess
          /\ Asks(n, "sync", e, {}, "done", 0)
          /\ Kept \/ (rev < MaxRev)
      BY <1>4 DEF Consul!DeleteSync, Consul!CompareAndSet, Consul!Answer, Consul!Repeat, Consul!Write, Consul!Same, Consul!At, Consul!There, Consul!store,
         Consul!Fails, Consul!Absent, Consul!SyncMatches, Absent, Asks, Quiet, Write, Answer, Kept
    <2>2. Kept \/ (Sound(e, None))
      BY <2>1, AbsentIs, KeyStoreAssumption DEF ConsulInv, Core, Sound, Lapsed, TypeOK, Absent
    <2>5. kv'["leader"] = kv["leader"] \/ ~There(kv'["leader"])
      BY <2>1, KeyFacts, AbsentIs DEF Asks, Write, Kept, ConsulInv, Core, TypeOK
    <2> HIDE DEF e
    <2>3. call[n].op = "unsync"
      BY <2>1 DEF ConsulInv, ConsulPc
    <2>4. Acts(n, "sync") /\ Onward(n, {}, "done")
      BY <2>1, <2>2, <2>3, OtherActs, KeyFacts DEF ConsulInv, LeaderOps
    <2> QED BY <2>1, <2>3, <2>4, <2>5, KeyFacts DEF ConsulActs, ConsulPc, Onward, SessionStep, ReadStep
  <1>5. ASSUME Consul!Initialize(n)
        PROVE  ConsulActs(n)
    <2> DEFINE e == Entry(n, 0)
    <2>1. /\ call[n].pc = "first" /\ UNCHANGED sess
          /\ Asks(n, "initialize", e, {}, "done", 0)
          /\ Kept \/ (rev < MaxRev /\ ~There(kv["initialize"]))
      BY <1>5 DEF Consul!Initialize, Consul!CompareAndSet, Consul!Answer, Consul!Repeat, Consul!Write, Consul!Same, Consul!At, Consul!There, Consul!store,
         Consul!Fails, Consul!Entry, Entry, There, Asks, Quiet, Write, Answer, Kept
    <2>2. Kept \/ (Sound(e, n) /\ e # kv["initialize"])
      BY <2>1, Entries, KeyFacts, KeyStoreAssumption DEF ConsulInv, Core
    <2>5. kv'["leader"] = kv["leader"] \/ ~There(kv'["leader"])
      BY <2>1, KeyFacts, AbsentIs DEF Asks, Write, Kept, ConsulInv, Core, TypeOK
    <2> HIDE DEF e
    <2>3. call[n].op = "initialize"
      BY <2>1 DEF ConsulInv, ConsulPc
    <2>4. Acts(n, "initialize") /\ Onward(n, {}, "done")
      BY <2>1, <2>2, <2>3, InitializeActs, KeyFacts DEF ConsulInv
    <2> QED BY <2>1, <2>3, <2>4, <2>5, KeyFacts DEF ConsulActs, ConsulPc, Onward, SessionStep, ReadStep
  <1>6. ASSUME Consul!CancelInitialization(n)
        PROVE  ConsulActs(n)
    <2> DEFINE e == Absent
    <2>1. /\ call[n].pc = "last" /\ UNCHANGED sess
          /\ Asks(n, "initialize", e, {}, "done", 0)
          /\ Kept \/ (rev < MaxRev)
      BY <1>6 DEF Consul!CancelInitialization, Consul!CompareAndSet, Consul!Answer, Consul!Repeat, Consul!Write, Consul!Same, Consul!At, Consul!There, Consul!store,
         Consul!Fails, Consul!Absent, Absent, Asks, Quiet, Write, Answer, Kept
    <2>2. Kept \/ (Sound(e, None))
      BY <2>1, AbsentIs, KeyStoreAssumption DEF ConsulInv, Core, Sound, Lapsed, TypeOK, Absent
    <2>5. kv'["leader"] = kv["leader"] \/ ~There(kv'["leader"])
      BY <2>1, KeyFacts, AbsentIs DEF Asks, Write, Kept, ConsulInv, Core, TypeOK
    <2> HIDE DEF e
    <2>3. call[n].op = "cancel"
      BY <2>1 DEF ConsulInv, ConsulPc
    <2>4. Acts(n, "initialize") /\ Onward(n, {}, "done")
      BY <2>1, <2>2, <2>3, OtherActs, KeyFacts DEF ConsulInv, LeaderOps
    <2> QED BY <2>1, <2>3, <2>4, <2>5, KeyFacts DEF ConsulActs, ConsulPc, Onward, SessionStep, ReadStep
  <1>7. ASSUME Consul!Untouch(n)
        PROVE  ConsulActs(n)
    <2> DEFINE e == Absent
    <2>1. /\ call[n].pc = "untouch" /\ UNCHANGED sess
          /\ Asks(n, n, e, {"touch"}, "done", 0)
          /\ Kept \/ (rev < MaxRev)
      BY <1>7 DEF Consul!Untouch, Consul!CompareAndSet, Consul!Answer, Consul!Repeat, Consul!Write, Consul!Same, Consul!At, Consul!There, Consul!store,
         Consul!Absent, Absent, Consul!Goto, Goto, Asks, Quiet, Write, Answer, Kept
    <2>2. Kept \/ (Sound(e, None))
      BY <2>1, AbsentIs, KeyStoreAssumption DEF ConsulInv, Core, Sound, Lapsed, TypeOK, Absent
    <2>5. kv'["leader"] = kv["leader"] \/ ~There(kv'["leader"])
      BY <2>1, KeyFacts, AbsentIs DEF Asks, Write, Kept, ConsulInv, Core, TypeOK
    <2> HIDE DEF e
    <2>3. call[n].op = "touch"
      BY <2>1 DEF ConsulInv, ConsulPc
    <2>4. Acts(n, n) /\ Onward(n, {"touch"}, "done")
      <3>1. {"touch"} \subseteq Pc \ {"done", "granted"}
        BY DEF Pc
      <3> QED BY <2>1, <2>2, <2>3, <3>1, OtherActs, KeyFacts DEF ConsulInv, LeaderOps
    <2> QED BY <2>1, <2>3, <2>4, <2>5, KeyFacts DEF ConsulActs, ConsulPc, Onward, SessionStep, ReadStep
  <1>3. ASSUME Consul!WriteSync(n)
        PROVE  ConsulActs(n)
    <2> DEFINE e == Entry(n, 0)
    <2>1. /\ call[n].pc = "write" /\ UNCHANGED <<sess, live>>
          /\ \/ Kept /\ Quiet(n, {})
             \/ /\ Write("sync", e) /\ Quiet(n, {"read"})
                /\ rev < MaxRev /\ call[n].ver \in {0, kv["sync"].ver}
      BY <1>3 DEF Consul!WriteSync, Consul!CompareAndSet, Consul!Answer, Consul!Repeat, Consul!Write, Consul!Same, Consul!At, Consul!store,
         Consul!Fails, Consul!Entry, Consul!SyncMatches, Consul!Goto, Goto, Entry, Quiet, Write, Answer, Kept
    <2>2. rev < MaxRev => Sound(e, n) /\ e # kv["sync"] /\ e.ver = rev + 1
      BY Entries, KeyFacts DEF ConsulInv, Core
    <2> HIDE DEF e
    <2>3. call[n].op = "sync" /\ TypeOK /\ call \in [Node -> Call] /\ Core
      BY <2>1 DEF ConsulInv, ConsulPc, Core, TypeOK
    <2>4. CASE Kept /\ Quiet(n, {})
      <3>1. {} \subseteq Pc \ {"done", "granted"}
        OBVIOUS
      <3>2. Acts(n, "leader") /\ call'[n].pc \in {call[n].pc, "done"} \cup {} /\ call'[n].op = call[n].op
        BY <2>1, <2>3, <2>4, <3>1, MoveActs, KeyFacts DEF Kept
      <3> QED BY <2>1, <2>3, <2>4, <3>2, KeyFacts DEF ConsulActs, ConsulPc, SessionStep, ReadStep, Kept
    <2>5. CASE /\ Write("sync", e) /\ Quiet(n, {"read"})
               /\ rev < MaxRev /\ call[n].ver \in {0, kv["sync"].ver}
      <3>1. {"read"} \subseteq Pc \ {"done", "granted"} /\ rev + 1 \in Nat
        BY <2>3, KeyStoreAssumption DEF Pc, TypeOK
      <3>2. Asks(n, "sync", e, {"read"}, "done", rev + 1)
        BY <2>5 DEF Asks
      <3>3. call[n].ver \in Free \/ kv["sync"].ver = call[n].ver
        BY <2>5 DEF Free
      <3>4. Acts(n, "sync") /\ Onward(n, {"read"}, "done")
        BY <2>1, <2>2, <2>3, <2>5, <3>1, <3>2, <3>3, SyncActs
      <3>5. kv'["leader"] = kv["leader"] /\ kv'["sync"] = e
        BY <2>3, <2>5, KeyFacts DEF Write, TypeOK
      <3>6. SessionStep(n) /\ ReadStep(n)
        BY <2>1, <2>2, <2>3, <2>5, <3>3, <3>5 DEF SessionStep, ReadStep, Sound
      <3> QED BY <2>1, <2>3, <3>4, <3>6, KeyFacts DEF ConsulActs, ConsulPc, Onward
    <2> QED BY <2>1, <2>4, <2>5
  <1> QED BY <1>1, <1>2, <1>3, <1>4, <1>5, <1>6, <1>7

\* /sync is read for the version that was written.
LEMMA ConsulRead ==
  ASSUME ConsulInv, NEW n \in Node, Consul!ReadSync(n)
  PROVE  ConsulActs(n)
  <1>1. /\ call[n].pc = "read" /\ UNCHANGED <<kv, rev, live, sess>>
        /\ \/ UNCHANGED call \/ Answer(n, "false", 0)
           \/ Answer(n, IF kv["sync"].val = n THEN "true" ELSE "false", kv["sync"].ver)
    BY DEF Consul!ReadSync, Consul!At, Consul!Answer, Consul!Fails, Consul!Repeat, Consul!Same, Consul!store, Answer
  <1>2. call[n].op = "sync" /\ TypeOK /\ call \in [Node -> Call] /\ kv["sync"].ver \in Nat
    BY <1>1, KeyFacts, KeyStoreAssumption DEF ConsulInv, ConsulPc, Core, TypeOK, Item
  <1>3. SessionStep(n) /\ ReadStep(n) /\ Drops /\ kv' = kv
    BY <1>1, <1>2, KeptDrops DEF SessionStep, ReadStep
  <1>4. CASE UNCHANGED call
    BY <1>1, <1>2, <1>3, <1>4, KeyFacts DEF ConsulActs, ConsulInv, ConsulPc, Acts, Moves, Told
  <1>5. CASE Answer(n, "false", 0)
    <2>1. Moves(n) /\ call'[n] = [op |-> call[n].op, pc |-> "done", ver |-> call[n].ver, ret |-> "false", got |-> 0]
      BY <1>1, <1>2, <1>5, Answers
    <2> QED BY <1>2, <1>3, <2>1, KeyFacts DEF ConsulActs, ConsulPc, Acts, Told
  <1>6. CASE kv["sync"].val = n /\ Answer(n, "true", kv["sync"].ver)
    <2>1. Moves(n) /\ call'[n] = [op |-> call[n].op, pc |-> "done", ver |-> call[n].ver, ret |-> "true", got |-> kv["sync"].ver]
      BY <1>1, <1>2, <1>6, Answers
    <2>2. Shown(n, call'[n].got)
      BY <1>1, <1>2, <1>6, <2>1 DEF Shown, ConsulInv, ReadInv, LeaderOps
    <2>3. Acts(n, "leader")
      BY <1>3, <2>1, <2>2 DEF Acts
    <2> QED BY <1>2, <1>3, <2>1, <2>3, KeyFacts DEF ConsulActs, ConsulPc
  <1>7. CASE kv["sync"].val # n /\ Answer(n, "false", kv["sync"].ver)
    <2>1. Moves(n) /\ call'[n] = [op |-> call[n].op, pc |-> "done", ver |-> call[n].ver, ret |-> "false", got |-> kv["sync"].ver]
      BY <1>1, <1>2, <1>7, Answers
    <2> QED BY <1>2, <1>3, <2>1, KeyFacts DEF ConsulActs, ConsulPc, Acts, Told
  <1> QED BY <1>1, <1>4, <1>5, <1>6, <1>7

\* The leader key is locked with the session of the node.
LEMMA ConsulLock ==
  ASSUME ConsulInv, NEW n \in Node, Consul!Lock(n) \/ Consul!Relock(n)
  PROVE  ConsulActs(n)
  <1> DEFINE e == Entry(n, sess[n])
  <1>1. call[n].pc \in {"lock", "relock"} /\ call[n].op = "acquire"
    BY DEF Consul!Lock, Consul!Relock, Consul!At, ConsulInv, ConsulPc
  <1>2. TypeOK /\ Core /\ call \in [Node -> Call] /\ sess[n] \in Session \cup {0}
    BY DEF ConsulInv, Core, TypeOK
  <1>3. CASE Consul!Acquire(n, Consul!Answer(n, "true", 0), Consul!Answer(n, "false", 0))
    <2>1. /\ sess[n] \in live /\ UNCHANGED <<live, sess>>
          /\ Asks(n, "leader", e, {}, "done", 0)
          /\ Kept \/ (rev < MaxRev /\ (~There(kv["leader"]) \/ kv["leader"].own = sess[n]))
      BY <1>3 DEF Consul!Acquire, Consul!CompareAndSet, Consul!Answer, Consul!Raises, Consul!Repeat, Consul!Write, Consul!Same, Consul!There, Consul!store,
         Consul!Entry, Entry, There, Asks, Quiet, Write, Answer, Kept
    <2>2. Kept \/ (Sound(e, n) /\ Owner(kv["leader"]) \in {None, n})
      <3>1. Kept \/ Sound(e, n)
        BY <1>2, <2>1, Entries DEF Core
      <3>2. Kept \/ kv["leader"].val \in {None, n}
        BY <2>1 DEF ConsulInv, SessionInv, There
      <3> QED BY <3>1, <3>2 DEF Owner
    <2>3. kv'["leader"] = kv["leader"] \/ (kv'["leader"].val = n /\ kv'["leader"].own = sess[n])
      BY <1>2, <2>1, KeyFacts DEF Asks, Write, Kept, Entry, TypeOK
    <2> HIDE DEF e
    <2>4. Acts(n, "leader") /\ Onward(n, {}, "done")
      BY <1>1, <1>2, <2>1, <2>2, LeaderActs
    <2> QED BY <1>1, <2>1, <2>3, <2>4, KeyFacts DEF ConsulActs, ConsulPc, Onward, SessionStep, ReadStep
  <1>4. CASE /\ UNCHANGED <<kv, rev, live>> /\ (UNCHANGED sess \/ sess' = [sess EXCEPT ![n] = 0])
             /\ Answer(n, "false", 0) \/ Answer(n, "error", 0)
    <2>1. Quiet(n, {"lock", "create", "relock"})
      BY <1>4 DEF Quiet
    <2>2. Acts(n, "leader") /\ ConsulPc(call'[n]) /\ call'[n].pc # "read"
      BY <1>1, <1>4, <2>1, ConsulGoesOn
    <2> QED BY <1>4, <2>2, KeyFacts DEF ConsulActs, SessionStep, ReadStep
  <1>5. CASE /\ UNCHANGED <<kv, rev, live>> /\ sess' = [sess EXCEPT ![n] = 0]
             /\ call' = [call EXCEPT ![n].pc = "create", ![n].got = 1]
    <2>1. "create" \in Pc /\ Goes(n, "create", 1) /\ 1 \in Nat
      BY <1>5 DEF Pc, Goes
    <2>2. /\ Moves(n)
          /\ call'[n] = [op |-> call[n].op, pc |-> "create", ver |-> call[n].ver, ret |-> call[n].ret, got |-> 1]
      BY <1>1, <1>2, <1>5, <2>1, Going
    <2>3. Acts(n, "leader")
      BY <1>2, <1>5, <2>2, KeptDrops DEF Acts, Told
    <2> QED BY <1>1, <1>5, <2>2, <2>3, KeyFacts DEF ConsulActs, ConsulPc, SessionStep, ReadStep
  <1> QED BY <1>3, <1>4, <1>5 DEF Consul!Lock, Consul!Relock, Consul!Same, Consul!store, Consul!Answer, Answer

\* The answer to the write of a key of the session is not looked at.
LEMMA ConsulPuts ==
  ASSUME ConsulInv, NEW n \in Node, Consul!Retake(n) \/ Consul!TouchMember(n)
  PROVE  ConsulActs(n)
  <1> DEFINE k == IF call[n].pc = "retake" THEN "leader" ELSE n
             e == Entry(n, sess[n])
  <1>1. /\ call[n].pc \in {"retake", "touch"} /\ live' = live
        /\ Quiet(n, {}) \/ Answer(n, "true", 0)
        /\ \/ UNCHANGED <<kv, rev>> /\ (UNCHANGED sess \/ sess' = [sess EXCEPT ![n] = 0])
           \/ /\ sess[n] \in live /\ UNCHANGED sess
              /\ Write(k, e) /\ (~There(kv[k]) \/ kv[k].own = sess[n])
    BY DEF Consul!Retake, Consul!TouchMember, Consul!CompareAndSet, Consul!Answer, Consul!Repeat, Consul!Write, Consul!Same, Consul!At,
       Consul!There, Consul!store, Consul!Entry, Entry, There, Quiet, Write, Answer
  <1>2. /\ TypeOK /\ Core /\ sess[n] \in Session \cup {0} /\ call[n].op \in {"update", "touch"} /\ k \in Key
        /\ call[n].pc = "retake" => call[n].op = "update"
        /\ call[n].pc = "touch" => call[n].op = "touch"
        /\ call[n].op \notin LeaderOps \cup {"sync", "initialize"}
    BY <1>1, KeyFacts DEF ConsulInv, ConsulPc, Core, TypeOK, LeaderOps
  <1>3. {} \subseteq Pc \ {"done", "granted"}
    OBVIOUS
  <1>4. Moves(n) /\ call'[n].op = call[n].op /\ call'[n].pc \in {call[n].pc, "done"} \cup {}
    BY <1>1, <1>2, <1>3, LooseMoves
  <1>5. ConsulPc(call'[n]) /\ ReadStep(n)
    BY <1>1, <1>2, <1>4 DEF ConsulPc, ReadStep
  <1>6. CASE UNCHANGED <<kv, rev>> /\ (UNCHANGED sess \/ sess' = [sess EXCEPT ![n] = 0])
    <2>1. Acts(n, k)
      BY <1>2, <1>4, <1>6, LooseActs
    <2> QED BY <1>1, <1>2, <1>5, <1>6, <2>1 DEF ConsulActs, SessionStep
  <1>7. CASE /\ sess[n] \in live /\ UNCHANGED sess
             /\ Write(k, e) /\ (~There(kv[k]) \/ kv[k].own = sess[n])
    <2>1. Sound(e, n)
      BY <1>2, <1>7, Entries DEF Core, Write
    <2>2. k = "leader" => kv["leader"].val \in {None, n}
      BY <1>7 DEF ConsulInv, SessionInv, There
    <2>3. k = "leader" => kv'["leader"] = e
      BY <1>2, <1>7 DEF Write, TypeOK
    <2>4. k # "leader" => kv'["leader"] = kv["leader"]
      BY <1>2, <1>7, KeyFacts DEF Write, TypeOK
    <2>5. e.val = n /\ e.own = sess[n]
      BY DEF Entry
    <2> HIDE DEF e, k
    <2>6. Fits(n, k, e, 0)
      BY <1>2, <2>1, <2>2 DEF Fits, Sound, Owner
    <2>7. Puts(n, k)
      BY <1>2, <1>7, <2>6, WritePuts
    <2>8. Acts(n, k)
      BY <1>2, <1>4, <2>7, LooseActs
    <2>9. SessionStep(n)
      BY <1>1, <1>7, <2>3, <2>4, <2>5 DEF SessionStep
    <2> QED BY <1>2, <1>5, <2>8, <2>9 DEF ConsulActs
  <1> QED BY <1>1, <1>6, <1>7

\* Every step of Consul keeps its invariant and is a step of the abstract key.
LEMMA ConsulStep ==
  ASSUME ConsulInv, Consul!Next, UNCHANGED backend
  PROVE  ConsulInv' /\ (K!Next \/ UNCHANGED K!vars) /\ UNCHANGED watcher
  <1>0. UNCHANGED watcher /\ Observe
    <2>1. UNCHANGED watcher /\ Consul!Observe
      BY DEF Consul!Next, Consul!watcher, watcher
    <2> QED BY <2>1 DEF Consul!Observe, Consul!Began, Consul!Holds, Consul!Wrote, Consul!Wins, Consul!GivesUp, Consul!There, Consul!Lapsed,
          Observe, Began, Holds, Wrote, Wins, GivesUp, There, Lapsed
  <1> DEFINE Goal == /\ Rest
                     /\ Waits \/ \E n \in Node : Resets(n) \/ \E k \in Key : Acts(n, k)
                     /\ \A n \in Node : ConsulPc(call'[n])
                     /\ SessionInv' /\ ReadInv'
  <1>2. TypeOK /\ SessionInv /\ ReadInv /\ \A n \in Node : ConsulPc(call[n])
    BY DEF ConsulInv, Core
  <1>1. Goal
    <2>1. ASSUME view' \in [Node -> [Key -> Item]], live' \subseteq Session, sess' \in [Node -> Session \cup {0}]
          PROVE  Rest
      BY <1>0, <1>2, <2>1 DEF Rest, TypeOK, watcher
    <2>2. CASE Consul!SessionExpires
      <3>1. UNCHANGED <<sess, view, call>>
        BY <2>2 DEF Consul!SessionExpires
      <3>2. PICK s \in live : /\ rev < MaxRev /\ live' = live \ {s}
                              /\ kv' = [k \in Key |-> IF kv[k].own = s THEN Absent ELSE kv[k]]
                              /\ rev' = IF kv' # kv THEN rev + 1 ELSE rev
        BY <2>2 DEF Consul!SessionExpires, Consul!Expire, Consul!Key, Key, Consul!Absent, Absent
      <3>3. Drops
        BY <1>2, <3>2, SessionDrops
      <3>4. SessionInv'
        <4>1. kv'["leader"] = IF kv["leader"].own = s THEN Absent ELSE kv["leader"]
          BY <3>2, KeyFacts
        <4> QED BY <1>2, <3>1, <3>2, <4>1, AbsentIs DEF SessionInv
      <3>5. ReadInv'
        <4>1. CASE Node = {}
          BY <4>1 DEF ReadInv
        <4>2. ASSUME NEW m \in Node PROVE ReadInv'
          <5>1. Waits
            BY <3>1, <3>3 DEF Waits
          <5> QED BY <1>0, <1>2, <5>1, ReadKept
        <4> QED BY <4>1, <4>2
      <3> QED BY <1>2, <2>1, <3>1, <3>2, <3>3, <3>4, <3>5 DEF Waits, TypeOK
    <2>3. ASSUME NEW n \in Node, Consul!Load(n)
          PROVE  Goal
      <3>1. /\ call[n].pc = "done" /\ UNCHANGED <<kv, rev, live, sess>>
            /\ view' = [view EXCEPT ![n] = kv] /\ call' = [call EXCEPT ![n] = Idle]
        BY <2>3 DEF Consul!Load, Consul!Cached, Consul!store, Consul!Idle, Idle
      <3>2. Resets(n) /\ call'[n] = Idle
        BY <1>2, <3>1, IdleIs, Beginning
      <3>3. ReadInv' /\ SessionInv'
        BY <1>0, <1>2, <3>1, <3>2, IdleIs, ReadKept DEF SessionInv
      <3> QED BY <1>2, <2>1, <3>1, <3>2, <3>3, IdleIs DEF Resets, TypeOK, ConsulPc
    <2>4. ASSUME NEW n \in Node, Consul!Start(n)
          PROVE  Goal
      <3>1. UNCHANGED <<kv, live, sess, view>>
        BY <2>4 DEF Consul!Start, Consul!store
      <3>2. Resets(n) /\ ConsulPc(call'[n]) /\ call'[n].pc # "read"
        BY <2>4, ConsulStart
      <3>3. ReadInv' /\ SessionInv'
        BY <1>0, <1>2, <3>1, <3>2, ReadKept DEF SessionInv
      <3> QED BY <1>2, <2>1, <3>1, <3>2, <3>3 DEF Resets, TypeOK
    <2>5. ASSUME NEW n \in Node, Consul!Request(n)
          PROVE  Goal
      <3>1. view' = view
        BY <2>5 DEF Consul!Request
      <3>2. ConsulActs(n)
        BY <2>5, ConsulSession, ConsulRequest, ConsulRead, ConsulLock, ConsulPuts DEF Consul!Request
      <3>3. SessionInv' /\ live' \subseteq Session /\ sess' \in [Node -> Session \cup {0}]
        BY <1>2, <3>2, SessionKept DEF ConsulActs
      <3>4. ReadInv'
        BY <1>0, <1>2, <3>2, ReadKept DEF ConsulActs
      <3> QED BY <1>2, <2>1, <3>1, <3>2, <3>3, <3>4 DEF ConsulActs, Acts, Moves, TypeOK
    <2> HIDE DEF Goal
    <2> QED BY <2>2, <2>3, <2>4, <2>5 DEF Consul!Next
  <1> QED BY <1>0, <1>1, CoreStep DEF ConsulInv

-----------------------------------------------------------------------------
(* ZooKeeper: znodes count their own versions *)

\* Where the operations of ZooKeeper may be.
ZooKeeperPc(c) ==
  /\ c.pc = "create" => c.op \in {"acquire", "update"}
  /\ c.pc \in {"same", "drop"} => c.op = "update"
  /\ c.pc = "restart" => c.op = "release"
  /\ c.pc = "write" => c.op \in {"sync", "unsync"}
  /\ c.pc = "first" => c.op = "initialize"
  /\ c.pc \in {"get", "last"} => c.op = "cancel"
  /\ c.pc \in {"touch", "untouch", "set"} => c.op = "touch"
  /\ c.pc = "members" => c.op = "none"
  /\ c.pc # "granted"

ZooKeeperInv == backend = "zookeeper" /\ Core /\ \A n \in Node : ZooKeeperPc(call[n])

\* The next state of a znode, which counts its own versions.
Znode(k, v, own) == [val |-> v, ver |-> kv[k].ver + 1, own |-> own]

\* What the next state of a znode is.
LEMMA Znodes ==
  ASSUME TypeOK, VersionInv, rev < MaxRev, NEW k \in Key, NEW v \in Node \cup {None}, NEW own \in Session \cup {0, Ttl, Lapsed}
  PROVE  /\ Znode(k, v, own) \in Item /\ Znode(k, v, own).ver = kv[k].ver + 1 /\ kv[k].ver + 1 \in Nat
         /\ Znode(k, v, own).ver <= rev + 1 /\ Znode(k, v, own).val = v /\ Znode(k, v, own).own = own
         /\ Znode(k, v, own) # kv[k]
  <1> DEFINE e == Znode(k, v, own)
  <1>1. e.val = v /\ e.own = own /\ e.ver = kv[k].ver + 1
    BY DEF Znode
  <1>2. rev \in Nat /\ kv[k].ver \in Nat /\ kv[k].ver <= rev /\ kv[k].ver + 1 \in 0 .. MaxRev
    BY KeyStoreAssumption DEF TypeOK, Item, VersionInv
  <1>3. e \in Item
    BY <1>2 DEF Znode, Item
  <1> HIDE DEF e
  <1>4. e # kv[k] /\ e.ver <= rev + 1
    BY <1>1, <1>2
  <1>5. e \in Item /\ e.ver = kv[k].ver + 1 /\ kv[k].ver + 1 \in Nat /\ e.ver <= rev + 1 /\ e.val = v /\ e.own = own /\ e # kv[k]
    BY <1>1, <1>2, <1>3, <1>4
  <1> QED BY <1>5 DEF e

\* An ephemeral znode that is put over one that went with its session.
LEMMA ZnodesOfSessions ==
  ASSUME TypeOK, VersionInv, rev < MaxRev, NEW k \in Key, NEW v \in Node \cup {None}, NEW n \in Node, NEW own \in {0, sess[n]}
  PROVE  Sound(Znode(k, v, own), v)
  <1>1. own \in Session \cup {0, Ttl, Lapsed} /\ own # Lapsed
    BY KeyStoreAssumption DEF TypeOK, Lapsed
  <1> QED BY <1>1, Znodes DEF Sound

ZooKeeperActs(n) == ZooKeeperPc(call'[n]) /\ \E k \in Key : Acts(n, k)

\* An operation of ZooKeeper begins.
LEMMA ZooKeeperStart ==
  ASSUME ZooKeeperInv, NEW n \in Node, ZooKeeper!Start(n)
  PROVE  Resets(n) /\ ZooKeeperPc(call'[n]) /\ live' = live
  <1>1. call[n].pc = "done" /\ Kept
    BY DEF ZooKeeper!Start, ZooKeeper!Begin, ZooKeeper!store, Kept
  <1>2. \E c \in Call : c.pc # "granted" /\ c.ret = "none" /\ ZooKeeperPc(c) /\ call' = [call EXCEPT ![n] = c]
    <2>1. 0 \in 0 .. MaxRev /\ view[n]["sync"].ver \in 0 .. MaxRev
      BY KeyStoreAssumption, KeyFacts DEF ZooKeeperInv, Core, TypeOK, Item
    <2> QED BY <2>1 DEF ZooKeeper!Start, ZooKeeper!Begin, ZooKeeper!SyncVersion, ZooKeeperPc, Call, Pc
  <1> QED BY <1>1, <1>2, Beginning DEF ZooKeeperInv, Core, Kept

\* A request to ZooKeeper is a step of its operation.
LEMMA ZooKeeperRequest ==
  ASSUME ZooKeeperInv, NEW n \in Node,
         \/ ZooKeeper!Create(n) \/ ZooKeeper!Drop(n) \/ ZooKeeper!Initialize(n)
         \/ ZooKeeper!CancelInitialization(n) \/ ZooKeeper!Untouch(n) \/ ZooKeeper!TouchMember(n)
  PROVE  ZooKeeperActs(n)
  <1>1. ASSUME ZooKeeper!Create(n)
        PROVE  ZooKeeperActs(n)
    <2> DEFINE e == Znode("leader", n, sess[n])
    <2>1. /\ call[n].pc = "create"
          /\ Asks(n, "leader", e, {}, "done", 0)
          /\ Kept \/ (rev < MaxRev /\ Owner(kv["leader"]) = None)
      BY <1>1 DEF ZooKeeper!Create, ZooKeeper!Send, ZooKeeper!CompareAndSet, ZooKeeper!Answer, ZooKeeper!Repeat, ZooKeeper!Write, ZooKeeper!Same, ZooKeeper!At, ZooKeeper!There,
         ZooKeeper!store, ZooKeeper!Raises, ZooKeeper!Fails, ZooKeeper!Once, ZooKeeper!Znode, ZooKeeper!Absent, ZooKeeper!Goto,
         Goto, Znode, Absent, There, Owner, Asks, Quiet, Write, Answer, Kept
    <2>2. Kept \/ (Sound(e, n))
      BY <2>1, Znodes, ZnodesOfSessions, KeyFacts DEF ZooKeeperInv, Core
    <2> HIDE DEF e
    <2>3. call[n].op \in {"acquire", "update"}
      BY <2>1 DEF ZooKeeperInv, ZooKeeperPc
    <2>4. Acts(n, "leader") /\ Onward(n, {}, "done")
      BY <2>1, <2>2, <2>3, LeaderActs, KeyFacts DEF ZooKeeperInv, LeaderOps
    <2> QED BY <2>1, <2>3, <2>4, KeyFacts DEF ZooKeeperActs, ZooKeeperPc, Onward
  <1>2. ASSUME ZooKeeper!Drop(n)
        PROVE  ZooKeeperActs(n)
    <2> DEFINE e == Absent
    <2>1. /\ call[n].pc = "drop"
          /\ Asks(n, "leader", e, {"create"}, "done", 0)
          /\ Kept \/ (rev < MaxRev)
      BY <1>2 DEF ZooKeeper!Drop, ZooKeeper!Send, ZooKeeper!CompareAndSet, ZooKeeper!Answer, ZooKeeper!Repeat, ZooKeeper!Write, ZooKeeper!Same, ZooKeeper!At, ZooKeeper!There,
         ZooKeeper!store, ZooKeeper!Raises, ZooKeeper!Fails, ZooKeeper!Once, ZooKeeper!Znode, ZooKeeper!Absent, ZooKeeper!Goto,
         Goto, Znode, Absent, There, Owner, Asks, Quiet, Write, Answer, Kept
    <2>2. Kept \/ Sound(e, None)
      BY <2>1, AbsentIs, KeyStoreAssumption DEF ZooKeeperInv, Core, Sound, Lapsed, TypeOK, Absent
    <2> HIDE DEF e
    <2>3. call[n].op = "update"
      BY <2>1 DEF ZooKeeperInv, ZooKeeperPc
    <2>4. Acts(n, "leader") /\ Onward(n, {"create"}, "done")
      <3>1. {"create"} \subseteq Pc \ {"done", "granted"}
        BY DEF Pc
      <3> QED BY <2>1, <2>2, <2>3, <3>1, OtherActs, KeyFacts DEF ZooKeeperInv, LeaderOps
    <2> QED BY <2>1, <2>3, <2>4, KeyFacts DEF ZooKeeperActs, ZooKeeperPc, Onward
  <1>3. ASSUME ZooKeeper!Initialize(n)
        PROVE  ZooKeeperActs(n)
    <2> DEFINE e == Znode("initialize", n, 0)
    <2>1. /\ call[n].pc = "first"
          /\ Asks(n, "initialize", e, {}, "done", 0)
          /\ Kept \/ (rev < MaxRev /\ ~There(kv["initialize"]))
      BY <1>3 DEF ZooKeeper!Initialize, ZooKeeper!Send, ZooKeeper!CompareAndSet, ZooKeeper!Answer, ZooKeeper!Repeat, ZooKeeper!Write, ZooKeeper!Same, ZooKeeper!At, ZooKeeper!There,
         ZooKeeper!store, ZooKeeper!Raises, ZooKeeper!Fails, ZooKeeper!Once, ZooKeeper!Znode, ZooKeeper!Absent, ZooKeeper!Goto,
         Goto, Znode, Absent, There, Owner, Asks, Quiet, Write, Answer, Kept
    <2>2. Kept \/ (Sound(e, n) /\ e # kv["initialize"])
      BY <2>1, Znodes, ZnodesOfSessions, KeyFacts DEF ZooKeeperInv, Core
    <2> HIDE DEF e
    <2>3. call[n].op = "initialize"
      BY <2>1 DEF ZooKeeperInv, ZooKeeperPc
    <2>4. Acts(n, "initialize") /\ Onward(n, {}, "done")
      BY <2>1, <2>2, <2>3, InitializeActs, KeyFacts DEF ZooKeeperInv, LeaderOps
    <2> QED BY <2>1, <2>3, <2>4, KeyFacts DEF ZooKeeperActs, ZooKeeperPc, Onward
  <1>4. ASSUME ZooKeeper!CancelInitialization(n)
        PROVE  ZooKeeperActs(n)
    <2> DEFINE e == Absent
    <2>1. /\ call[n].pc = "last"
          /\ Asks(n, "initialize", e, {"get"}, "done", 0)
          /\ Kept \/ (rev < MaxRev)
      BY <1>4 DEF ZooKeeper!CancelInitialization, ZooKeeper!Send, ZooKeeper!CompareAndSet, ZooKeeper!Answer, ZooKeeper!Repeat, ZooKeeper!Write, ZooKeeper!Same, ZooKeeper!At, ZooKeeper!There,
         ZooKeeper!store, ZooKeeper!Raises, ZooKeeper!Fails, ZooKeeper!Once, ZooKeeper!Znode, ZooKeeper!Absent, ZooKeeper!Goto,
         Goto, Znode, Absent, There, Owner, Asks, Quiet, Write, Answer, Kept
    <2>2. Kept \/ Sound(e, None)
      BY <2>1, AbsentIs, KeyStoreAssumption DEF ZooKeeperInv, Core, Sound, Lapsed, TypeOK, Absent
    <2> HIDE DEF e
    <2>3. call[n].op = "cancel"
      BY <2>1 DEF ZooKeeperInv, ZooKeeperPc
    <2>4. Acts(n, "initialize") /\ Onward(n, {"get"}, "done")
      <3>1. {"get"} \subseteq Pc \ {"done", "granted"}
        BY DEF Pc
      <3> QED BY <2>1, <2>2, <2>3, <3>1, OtherActs, KeyFacts DEF ZooKeeperInv, LeaderOps
    <2> QED BY <2>1, <2>3, <2>4, KeyFacts DEF ZooKeeperActs, ZooKeeperPc, Onward
  <1>5. ASSUME ZooKeeper!Untouch(n)
        PROVE  ZooKeeperActs(n)
    <2> DEFINE e == Absent
    <2>1. /\ call[n].pc = "untouch"
          /\ Asks(n, n, e, {"touch"}, "done", 0)
          /\ Kept \/ (rev < MaxRev)
      BY <1>5 DEF ZooKeeper!Untouch, ZooKeeper!Send, ZooKeeper!CompareAndSet, ZooKeeper!Answer, ZooKeeper!Repeat, ZooKeeper!Write, ZooKeeper!Same, ZooKeeper!At, ZooKeeper!There,
         ZooKeeper!store, ZooKeeper!Raises, ZooKeeper!Fails, ZooKeeper!Once, ZooKeeper!Znode, ZooKeeper!Absent, ZooKeeper!Goto,
         Goto, Znode, Absent, There, Owner, Asks, Quiet, Write, Answer, Kept
    <2>2. Kept \/ Sound(e, None)
      BY <2>1, AbsentIs, KeyStoreAssumption DEF ZooKeeperInv, Core, Sound, Lapsed, TypeOK, Absent
    <2> HIDE DEF e
    <2>3. call[n].op = "touch"
      BY <2>1 DEF ZooKeeperInv, ZooKeeperPc
    <2>4. Acts(n, n) /\ Onward(n, {"touch"}, "done")
      <3>1. {"touch"} \subseteq Pc \ {"done", "granted"}
        BY DEF Pc
      <3> QED BY <2>1, <2>2, <2>3, <3>1, OtherActs, KeyFacts DEF ZooKeeperInv, LeaderOps
    <2> QED BY <2>1, <2>3, <2>4, KeyFacts DEF ZooKeeperActs, ZooKeeperPc, Onward
  <1>6. ASSUME ZooKeeper!TouchMember(n)
        PROVE  ZooKeeperActs(n)
    <2> DEFINE e == Znode(n, n, sess[n])
    <2>1. /\ call[n].pc = "touch"
          /\ Asks(n, n, e, {"set"}, "done", 0)
          /\ Kept \/ (rev < MaxRev)
      BY <1>6 DEF ZooKeeper!TouchMember, ZooKeeper!Send, ZooKeeper!CompareAndSet, ZooKeeper!Answer, ZooKeeper!Repeat, ZooKeeper!Write, ZooKeeper!Same, ZooKeeper!At, ZooKeeper!There,
         ZooKeeper!store, ZooKeeper!Raises, ZooKeeper!Fails, ZooKeeper!Once, ZooKeeper!Znode, ZooKeeper!Absent, ZooKeeper!Goto,
         Goto, Znode, Absent, There, Owner, Asks, Quiet, Write, Answer, Kept
    <2>2. Kept \/ (Sound(e, n))
      BY <2>1, Znodes, ZnodesOfSessions, KeyFacts DEF ZooKeeperInv, Core
    <2> HIDE DEF e
    <2>3. call[n].op = "touch"
      BY <2>1 DEF ZooKeeperInv, ZooKeeperPc
    <2>4. Acts(n, n) /\ Onward(n, {"set"}, "done")
      <3>1. {"set"} \subseteq Pc \ {"done", "granted"}
        BY DEF Pc
      <3> QED BY <2>1, <2>2, <2>3, <3>1, TouchActs, KeyFacts DEF ZooKeeperInv, LeaderOps
    <2> QED BY <2>1, <2>3, <2>4, KeyFacts DEF ZooKeeperActs, ZooKeeperPc, Onward
  <1> QED BY <1>1, <1>2, <1>3, <1>4, <1>5, <1>6

\* /sync is set, by its version, or created.
LEMMA ZooKeeperSync ==
  ASSUME ZooKeeperInv, NEW n \in Node, ZooKeeper!WriteSync(n)
  PROVE  ZooKeeperActs(n)
  <1> DEFINE e == Znode("sync", n, 0)
  <1>1. /\ call[n].pc = "write"
        /\ Asks(n, "sync", e, {}, "done", kv["sync"].ver + 1)
        /\ Kept \/ (rev < MaxRev /\ (call[n].ver \in {0, 1} \/ kv["sync"].ver = call[n].ver))
    BY DEF ZooKeeper!WriteSync, ZooKeeper!Send, ZooKeeper!CompareAndSet, ZooKeeper!Answer, ZooKeeper!Repeat, ZooKeeper!Write, ZooKeeper!Same, ZooKeeper!At, ZooKeeper!There,
         ZooKeeper!store, ZooKeeper!Raises, ZooKeeper!Fails, ZooKeeper!Once, ZooKeeper!Znode, ZooKeeper!Absent, ZooKeeper!Goto,
         Goto, Znode, Absent, There, Owner, Asks, Quiet, Write, Answer, Kept
  <1>2. kv["sync"].ver + 1 \in Nat
    BY KeyFacts, KeyStoreAssumption DEF ZooKeeperInv, Core, TypeOK, Item
  <1>3. Kept \/ (Sound(e, n) /\ e # kv["sync"] /\ kv["sync"].ver + 1 = e.ver)
    BY <1>1, Znodes, ZnodesOfSessions, KeyFacts DEF ZooKeeperInv, Core
  <1> HIDE DEF e
  <1>4. call[n].op \in {"sync", "unsync"} /\ Core
    BY <1>1 DEF ZooKeeperInv, ZooKeeperPc
  <1>5. Kept \/ call[n].ver \in Free \/ kv["sync"].ver = call[n].ver
    BY <1>1 DEF Free, ZooKeeperInv
  <1>6. CASE call[n].op = "sync"
    <2>1. Acts(n, "sync") /\ Onward(n, {}, "done")
      BY <1>1, <1>2, <1>3, <1>4, <1>5, <1>6, SyncActs
    <2> QED BY <1>1, <1>6, <2>1, KeyFacts DEF ZooKeeperActs, ZooKeeperPc, Onward
  <1>7. CASE call[n].op = "unsync"
    <2>1. Acts(n, "sync") /\ Onward(n, {}, "done")
      BY <1>1, <1>2, <1>3, <1>4, <1>7, OtherActs, KeyFacts DEF LeaderOps
    <2> QED BY <1>1, <1>7, <2>1, KeyFacts DEF ZooKeeperActs, ZooKeeperPc, Onward
  <1> QED BY <1>4, <1>6, <1>7

\* The client is restarted: the keys of the session go with it, or stay until it expires.
LEMMA ZooKeeperRestart ==
  ASSUME ZooKeeperInv, NEW n \in Node, ZooKeeper!Restart(n)
  PROVE  ZooKeeperActs(n) /\ live' \subseteq Session /\ sess' \in [Node -> Session \cup {0}]
  <1>1. call[n].pc = "restart" /\ Answer(n, "true", 0)
    BY DEF ZooKeeper!Restart, ZooKeeper!At, ZooKeeper!Answer, Answer
  <1>2. PICK closed \in BOOLEAN, s \in Session :
          /\ closed => rev < MaxRev
          /\ sess' = [sess EXCEPT ![n] = s]
          /\ live' = (IF closed THEN live \ {sess[n]} ELSE live) \cup {s}
          /\ kv' = [k \in Key |-> IF closed /\ sess[n] # 0 /\ kv[k].own = sess[n] THEN Absent ELSE kv[k]]
          /\ rev' = IF kv' # kv THEN rev + 1 ELSE rev
    BY DEF ZooKeeper!Restart, ZooKeeper!Unused, ZooKeeper!Key, Key, ZooKeeper!Absent, Absent
  <1>3. TypeOK /\ call \in [Node -> Call] /\ call[n].op = "release" /\ backend = "zookeeper"
    BY <1>1 DEF ZooKeeperInv, ZooKeeperPc, Core, TypeOK
  <1>4. Drops
    <2>1. rev \in Nat /\ \A x \in Key : kv[x].ver \in Nat
      BY <1>3, KeyStoreAssumption DEF TypeOK, Item
    <2>2. kv' \in [Key -> Item] /\ \A x \in Key : kv'[x] = kv[x] \/ kv'[x] = Absent
      BY <1>2, <1>3, AbsentIs DEF TypeOK
    <2>3. ~closed => kv' = kv
      BY <1>2, <1>3 DEF TypeOK
    <2>4. rev' \in 0 .. MaxRev /\ rev <= rev'
      BY <1>2, <1>3, <2>1, <2>3, KeyStoreAssumption DEF TypeOK
    <2>5. Owner(Absent) = None
      BY AbsentIs DEF Owner
    <2> QED BY <2>1, <2>2, <2>4, <2>5, AbsentIs, KeyFacts DEF Drops
  <1>5. Moves(n) /\ call'[n] = [op |-> call[n].op, pc |-> "done", ver |-> call[n].ver, ret |-> "true", got |-> 0]
    BY <1>1, <1>3, Answers
  <1>6. Acts(n, "leader")
    BY <1>3, <1>4, <1>5 DEF Acts, Deserved, LeaderOps
  <1> QED BY <1>2, <1>3, <1>5, <1>6, KeyFacts DEF ZooKeeperActs, ZooKeeperPc, TypeOK

\* The steps that ask nothing of the store, or write a key that nobody relies on.
LEMMA ZooKeeperMoves ==
  ASSUME ZooKeeperInv, NEW n \in Node,
         ZooKeeper!SameSession(n) \/ ZooKeeper!GetInitialize(n) \/ ZooKeeper!LoadMembers(n)
  PROVE  ZooKeeperActs(n)
  <1>1. UNCHANGED <<kv, rev, live>>
    BY DEF ZooKeeper!SameSession, ZooKeeper!GetInitialize, ZooKeeper!LoadMembers, ZooKeeper!Same, ZooKeeper!store
  <1>2. /\ TypeOK /\ Core /\ call \in [Node -> Call] /\ "leader" \in Key /\ backend = "zookeeper" /\ ZooKeeperPc(call[n])
        /\ kv["initialize"].ver \in 0 .. MaxRev
    BY KeyFacts DEF ZooKeeperInv, Core, TypeOK, Item
  <1>3. CASE ZooKeeper!SameSession(n) \/ (ZooKeeper!GetInitialize(n) /\ Answer(n, "true", 0))
    <2>1. call[n].pc \in {"same", "get"} /\ Answer(n, "true", 0)
      BY <1>3 DEF ZooKeeper!SameSession, ZooKeeper!GetInitialize, ZooKeeper!At, ZooKeeper!Answer, Answer
    <2>2. call[n].op \notin LeaderOps \cup {"sync", "initialize"}
      BY <1>2, <2>1 DEF ZooKeeperPc, LeaderOps
    <2>3. Moves(n) /\ call'[n] = [op |-> call[n].op, pc |-> "done", ver |-> call[n].ver, ret |-> "true", got |-> 0]
      BY <1>2, <2>1, Answers
    <2>4. Acts(n, "leader")
      BY <1>1, <1>2, <2>2, <2>3, LooseActs
    <2> QED BY <1>2, <2>3, <2>4 DEF ZooKeeperActs, ZooKeeperPc
  <1>4. CASE ZooKeeper!LoadMembers(n)
    <2>1. call[n].pc = "members" /\ Answer(n, "none", 0)
      BY <1>4 DEF ZooKeeper!LoadMembers, ZooKeeper!At, ZooKeeper!Answer, Answer
    <2>2. Moves(n) /\ call'[n] = [op |-> call[n].op, pc |-> "done", ver |-> call[n].ver, ret |-> "none", got |-> 0]
      BY <1>2, <2>1, Answers
    <2>3. Acts(n, "leader")
      BY <1>1, <1>2, <2>2, KeptDrops DEF Acts, Told
    <2> QED BY <1>2, <2>2, <2>3 DEF ZooKeeperActs, ZooKeeperPc
  <1>5. CASE ZooKeeper!GetInitialize(n) /\ call' = [call EXCEPT ![n].pc = "last", ![n].ver = kv["initialize"].ver]
    <2>1. call[n].pc = "get"
      BY <1>5 DEF ZooKeeper!GetInitialize, ZooKeeper!At
    <2>2. call[n].op = "cancel"
      BY <1>2, <2>1 DEF ZooKeeperPc
    <2>3. "last" \in Pc
      BY DEF Pc
    <2>4. Moves(n) /\ call'[n] = [op |-> call[n].op, pc |-> "last", ver |-> kv["initialize"].ver, ret |-> call[n].ret, got |-> call[n].got]
      BY <1>2, <1>5, <2>1, <2>2, <2>3, Turning DEF Turns
    <2>5. Acts(n, "leader")
      BY <1>1, <1>2, <2>2, <2>4, LooseActs DEF LeaderOps
    <2> QED BY <1>2, <2>2, <2>4, <2>5 DEF ZooKeeperActs, ZooKeeperPc
  <1> QED BY <1>3, <1>4, <1>5 DEF ZooKeeper!GetInitialize, ZooKeeper!Answer, Answer

\* The znode of a member is set.
LEMMA ZooKeeperSet ==
  ASSUME ZooKeeperInv, NEW n \in Node, ZooKeeper!SetMember(n)
  PROVE  ZooKeeperActs(n)
  <1> DEFINE e == Znode(n, n, kv[n].own)
  <1>1. /\ call[n].pc = "set" /\ (Quiet(n, {}) \/ Answer(n, "true", 0))
        /\ UNCHANGED <<kv, rev>> \/ (rev < MaxRev /\ Write(n, e))
    BY DEF ZooKeeper!SetMember, ZooKeeper!Send, ZooKeeper!CompareAndSet, ZooKeeper!Answer, ZooKeeper!Repeat, ZooKeeper!Write, ZooKeeper!Same, ZooKeeper!At, ZooKeeper!There,
         ZooKeeper!store, ZooKeeper!Raises, ZooKeeper!Fails, ZooKeeper!Once, ZooKeeper!Znode, ZooKeeper!Absent, ZooKeeper!Goto,
         Goto, Znode, Absent, There, Owner, Asks, Quiet, Write, Answer, Kept
  <1>2. TypeOK /\ Core /\ n \in Key \ {"leader"} /\ n \in Key /\ call[n].op = "touch" /\ backend = "zookeeper"
    BY <1>1, KeyFacts DEF ZooKeeperInv, ZooKeeperPc, Core
  <1>3. rev < MaxRev => e \in Item /\ e.ver <= rev + 1 /\ e.val = n
    <2>1. kv[n].own \in Session \cup {0, Ttl, Lapsed}
      BY <1>2 DEF TypeOK, Item
    <2> QED BY <1>2, <2>1, Znodes DEF Core
  <1> HIDE DEF e
  <1>4. {} \subseteq Pc \ {"done", "granted"}
    OBVIOUS
  <1>5. Moves(n) /\ call'[n].op = call[n].op /\ call'[n].pc \in {call[n].pc, "done"} \cup {}
    BY <1>1, <1>2, <1>4, LooseMoves
  <1>6. rev < MaxRev => Fits(n, n, e, 0)
    BY <1>2, <1>3, KeyFacts DEF Fits, LeaderOps
  <1>7. UNCHANGED <<kv, rev>> \/ Puts(n, n)
    BY <1>1, <1>2, <1>6, WritePuts
  <1>8. Acts(n, n)
    BY <1>2, <1>5, <1>7, LooseActs DEF LeaderOps
  <1> QED BY <1>1, <1>2, <1>5, <1>8 DEF ZooKeeperActs, ZooKeeperPc

\* Every step of ZooKeeper keeps its invariant and is a step of the abstract key.
LEMMA ZooKeeperStep ==
  ASSUME ZooKeeperInv, ZooKeeper!Next, UNCHANGED backend
  PROVE  ZooKeeperInv' /\ (K!Next \/ UNCHANGED K!vars) /\ UNCHANGED watcher
  <1>0. UNCHANGED watcher /\ Observe
    <2>1. UNCHANGED watcher /\ ZooKeeper!Observe
      BY DEF ZooKeeper!Next, ZooKeeper!watcher, watcher
    <2> QED BY <2>1 DEF ZooKeeper!Observe, ZooKeeper!Began, ZooKeeper!Holds, ZooKeeper!Wrote, ZooKeeper!Wins, ZooKeeper!GivesUp, ZooKeeper!There, ZooKeeper!Lapsed,
          Observe, Began, Holds, Wrote, Wins, GivesUp, There, Lapsed
  <1> DEFINE Goal == /\ Rest
                     /\ Waits \/ \E n \in Node : Resets(n) \/ \E k \in Key : Acts(n, k)
                     /\ \A n \in Node : ZooKeeperPc(call'[n])
  <1>1. TypeOK /\ \A n \in Node : ZooKeeperPc(call[n])
    BY DEF ZooKeeperInv, Core
  <1>2. ASSUME view' \in [Node -> [Key -> Item]], live' \subseteq Session, sess' \in [Node -> Session \cup {0}]
        PROVE  Rest
    BY <1>0, <1>1, <1>2 DEF Rest, TypeOK, watcher
  <1>3. ASSUME ZooKeeper!SessionExpires
        PROVE  Goal
    <2>1. UNCHANGED <<sess, view, call>>
      BY <1>3 DEF ZooKeeper!SessionExpires
    <2>2. PICK s \in live : /\ rev < MaxRev /\ live' = live \ {s}
                            /\ kv' = [k \in Key |-> IF kv[k].own = s THEN Absent ELSE kv[k]]
                            /\ rev' = IF kv' # kv THEN rev + 1 ELSE rev
      BY <1>3 DEF ZooKeeper!SessionExpires, ZooKeeper!Expire, ZooKeeper!Key, Key, ZooKeeper!Absent, Absent
    <2>3. Drops
      BY <1>1, <2>2, SessionDrops
    <2> QED BY <1>1, <1>2, <2>1, <2>2, <2>3 DEF Waits, TypeOK
  <1>4. ASSUME NEW n \in Node, ZooKeeper!Connect(n)
        PROVE  Goal
    <2>1. UNCHANGED <<kv, rev, view, call>>
          /\ \E s \in Session : sess' = [sess EXCEPT ![n] = s] /\ live' = live \cup {s}
      BY <1>4 DEF ZooKeeper!Connect, ZooKeeper!NewSession, ZooKeeper!Unused
    <2>2. Rest
      BY <1>1, <1>2, <2>1 DEF TypeOK
    <2> QED BY <1>1, <2>1, <2>2, KeptDrops DEF Waits
  <1>5. ASSUME NEW n \in Node, ZooKeeper!Load(n)
        PROVE  Goal
    <2> DEFINE c == [Idle EXCEPT !.pc = "members"]
               w == [view[n] EXCEPT !["initialize"] = kv["initialize"], !["sync"] = kv["sync"]]
    <2>1. /\ call[n].pc = "done" /\ UNCHANGED <<kv, rev, live, sess>>
          /\ view' = [view EXCEPT ![n] = w]
          /\ call' = [call EXCEPT ![n] = c]
      BY <1>5 DEF ZooKeeper!Load, ZooKeeper!Same, ZooKeeper!store, ZooKeeper!Idle, Idle
    <2>2. c \in Call /\ c.pc = "members" /\ c.ret = "none" /\ c.op = "none"
      BY KeyStoreAssumption DEF Idle, Call, Pc
    <2>3. w \in [Key -> Item]
      BY <1>1, KeyFacts DEF TypeOK
    <2> HIDE DEF c, w
    <2>4. Resets(n) /\ call'[n] = c
      BY <1>1, <2>1, <2>2, Beginning
    <2>5. Rest
      BY <1>1, <1>2, <2>1, <2>3 DEF TypeOK
    <2> QED BY <1>1, <2>2, <2>4, <2>5 DEF Resets, ZooKeeperPc
  <1>6. ASSUME NEW n \in Node, ZooKeeper!LoadMembers(n)
        PROVE  Goal
    <2>1. UNCHANGED <<live, sess>> /\ view' \in [Node -> [Key -> Item]]
      <3>1. view' = [view EXCEPT ![n] = [k \in Key |-> IF k \in Node \cup {"leader"} THEN kv[k] ELSE view[n][k]]]
        BY <1>6 DEF ZooKeeper!LoadMembers, ZooKeeper!Key, Key
      <3>2. [k \in Key |-> IF k \in Node \cup {"leader"} THEN kv[k] ELSE view[n][k]] \in [Key -> Item]
        BY <1>1 DEF TypeOK
      <3> QED BY <1>1, <1>6, <3>1, <3>2 DEF TypeOK, ZooKeeper!LoadMembers, ZooKeeper!Same, ZooKeeper!store
    <2>2. ZooKeeperActs(n)
      BY <1>6, ZooKeeperMoves
    <2> QED BY <1>1, <1>2, <2>1, <2>2 DEF ZooKeeperActs, Acts, Moves, TypeOK
  <1>7. ASSUME NEW n \in Node, ZooKeeper!Start(n)
        PROVE  Goal
    <2>1. UNCHANGED <<sess, view>>
      BY <1>7 DEF ZooKeeper!Start
    <2>2. Resets(n) /\ ZooKeeperPc(call'[n]) /\ live' = live
      BY <1>7, ZooKeeperStart
    <2> QED BY <1>1, <1>2, <2>1, <2>2 DEF Resets, TypeOK
  <1>8. ASSUME NEW n \in Node, ZooKeeper!Request(n)
        PROVE  Goal
    <2>1. CASE ZooKeeper!Restart(n)
      <3>1. view' = view
        BY <2>1 DEF ZooKeeper!Restart
      <3>2. ZooKeeperActs(n) /\ live' \subseteq Session /\ sess' \in [Node -> Session \cup {0}]
        BY <2>1, ZooKeeperRestart
      <3> QED BY <1>1, <1>2, <3>1, <3>2 DEF ZooKeeperActs, Acts, Moves, TypeOK
    <2>2. CASE ~ZooKeeper!Restart(n)
      <3>1. UNCHANGED <<live, sess, view>>
        BY <1>8, <2>2 DEF ZooKeeper!Request, ZooKeeper!Create, ZooKeeper!SameSession, ZooKeeper!Drop, ZooKeeper!WriteSync, ZooKeeper!Initialize,
           ZooKeeper!GetInitialize, ZooKeeper!CancelInitialization, ZooKeeper!Untouch, ZooKeeper!TouchMember, ZooKeeper!SetMember,
           ZooKeeper!Send, ZooKeeper!CompareAndSet, ZooKeeper!Write, ZooKeeper!Same, ZooKeeper!store
      <3>2. ZooKeeperActs(n)
        BY <1>8, <2>2, ZooKeeperRequest, ZooKeeperSync, ZooKeeperMoves, ZooKeeperSet DEF ZooKeeper!Request
      <3> QED BY <1>1, <1>2, <3>1, <3>2 DEF ZooKeeperActs, Acts, Moves, TypeOK
    <2> QED BY <2>1, <2>2
  <1>9. Goal
    <2> HIDE DEF Goal
    <2> QED BY <1>3, <1>4, <1>5, <1>6, <1>7, <1>8 DEF ZooKeeper!Next
  <1> QED BY <1>0, <1>9, CoreStep DEF ZooKeeperInv

-----------------------------------------------------------------------------
(* etcd3: a watcher for each node *)

\* Where the operations of etcd3 may be.  Only attempt_to_acquire_leader() is repeated with
\* a new lease.
Etcd3Pc(c) ==
  /\ c.pc \in {"refresh", "grant"} => c.op \in {"acquire", "update", "touch"} /\ (c.got = 1 => c.op = "acquire")
  /\ c.pc \in {"create", "again"} => c.op = "acquire"
  /\ c.pc = "swap" => c.op = "update"
  /\ c.pc = "delete" => c.op = "release"
  /\ c.pc = "write" => c.op = "sync"
  /\ c.pc = "erase" => c.op = "unsync"
  /\ c.pc = "first" => c.op = "initialize"
  /\ c.pc = "last" => c.op = "cancel"
  /\ c.pc = "touch" => c.op = "touch"

\* What was known of a key is not newer than the key.
Past(e, now, r) == e.ver <= r /\ (There(now) => e.ver <= now.ver)

EventsInv ==
  \A n \in Node : \A i \in 1 .. Len(stream[n]) : \A k \in DOMAIN (stream[n][i]) : Past(stream[n][i][k], kv[k], rev)

PastInv == \A n \in Node, k \in Key : Past(seen[n][k], kv[k], rev) /\ Past(cache[n][k], kv[k], rev)

\* Where the watcher was told of the last write, the cache has it.
WatchInv == \A n \in Node, k \in Key : There(kv[k]) /\ seen[n][k] = kv[k] => cache[n][k] = kv[k]

\* The answer that waits is of the last write of the key, or of one that is past.
Sent(n) ==
  LET k == OpKey(n)
  IN  /\ call[n].got <= rev
      /\ There(kv[k]) => call[n].got <= kv[k].ver
      /\ There(kv[k]) /\ call[n].got = kv[k].ver =>
           /\ call[n].op \notin {"release", "unsync", "cancel"}
           /\ kv[k] = [val |-> n, ver |-> call[n].got, own |-> IF k \in {"leader", n} THEN sess[n] ELSE 0]

SentInv == \A n \in Node : call[n].pc = "granted" => Sent(n)

WatchersInv == StreamInv /\ EventsInv /\ PastInv /\ WatchInv

Etcd3Inv ==
  /\ backend = "etcd3" /\ Core /\ \A n \in Node : Etcd3Pc(call[n])
  /\ WatchersInv /\ SentInv

-----------------------------------------------------------------------------
\* Every write has a version of its own.
Writes ==
  /\ kv' \in [Key -> Item] /\ rev' \in 0 .. MaxRev /\ rev <= rev'
  /\ \A k \in Key : \/ kv'[k] = kv[k]
                    \/ rev' = rev + 1 /\ (There(kv'[k]) => kv'[k].ver = rev')

\* What is past stays past.
LEMMA PastKept ==
  ASSUME TypeOK, Writes, NEW e, e.ver \in Nat, NEW k \in Key, Past(e, kv[k], rev)
  PROVE  Past(e, kv'[k], rev')
  <1>1. rev \in Nat /\ rev' \in Nat /\ kv[k].ver \in Nat /\ kv'[k].ver \in Nat
    BY KeyStoreAssumption DEF TypeOK, Writes, Item
  <1>2. e.ver <= rev' /\ rev <= rev'
    BY <1>1 DEF Past, Writes
  <1>3. CASE kv'[k] = kv[k]
    BY <1>2, <1>3 DEF Past
  <1>4. CASE rev' = rev + 1 /\ (There(kv'[k]) => kv'[k].ver = rev')
    BY <1>1, <1>2, <1>4 DEF Past, There
  <1> QED BY <1>3, <1>4 DEF Writes

\* The watchers, when keys change and they are told.
LEMMA WatchersTold ==
  ASSUME TypeOK, WatchersInv, Writes, UNCHANGED <<seen, cache>>, Publish \/ (kv' = kv /\ stream' = stream)
  PROVE  WatchersInv'
  <1>1. /\ seen \in [Node -> [Key -> Item]] /\ cache \in [Node -> [Key -> Item]] /\ stream \in [Node -> Seq(Event)]
        /\ \A e \in Item : e.ver \in Nat
        /\ rev \in Nat /\ rev' \in Nat
    BY KeyStoreAssumption DEF TypeOK, WatchersInv, StreamInv, Item, Writes
  <1>2. Changes \in Event
    BY ChangesAre DEF Writes
  <1>3. \A n \in Node : stream'[n] = stream[n] \/ stream'[n] = Append(stream[n], Changes)
    BY <1>1 DEF Publish
  <1>4. StreamInv'
    <2>1. \A n \in Node : Append(stream[n], Changes) \in Seq(Event)
      BY <1>1, <1>2
    <2> QED BY <1>1, <2>1 DEF Publish, StreamInv
  <1>5. EventsInv'
    <2> SUFFICES ASSUME NEW n \in Node, NEW i \in 1 .. Len(stream'[n]), NEW k \in DOMAIN (stream'[n][i])
                 PROVE  Past(stream'[n][i][k], kv'[k], rev')
      BY DEF EventsInv
    <2>1. CASE i \in 1 .. Len(stream[n]) /\ stream'[n][i] = stream[n][i]
      <3>1. stream[n][i] \in Event
        BY <1>1, <2>1
      <3>2. PICK S \in SUBSET Key : stream[n][i] \in [S -> Item]
        BY <3>1 DEF Event
      <3> DEFINE e == stream[n][i][k]
      <3>3. e \in Item /\ k \in Key /\ Past(e, kv[k], rev)
        BY <2>1, <3>2 DEF WatchersInv, EventsInv
      <3> HIDE DEF e
      <3>4. Past(e, kv'[k], rev')
        BY <1>1, <3>3, PastKept
      <3> QED BY <2>1, <3>4 DEF Past, e
    <2>2. CASE stream'[n][i] = Changes
      <3>1. k \in Key /\ kv'[k] # kv[k] /\ Changes[k].ver = rev'
        <4>1. k \in Key /\ kv'[k] # kv[k] /\ Changes[k] = [kv'[k] EXCEPT !.ver = rev']
          BY <2>2 DEF Changes
        <4>2. kv'[k] \in Item
          BY <4>1 DEF Writes
        <4> QED BY <4>1, <4>2 DEF Item
      <3>2. There(kv'[k]) => kv'[k].ver = rev'
        BY <3>1 DEF Writes
      <3> QED BY <1>1, <2>2, <3>1, <3>2 DEF Past, There
    <2>3. (i \in 1 .. Len(stream[n]) /\ stream'[n][i] = stream[n][i]) \/ stream'[n][i] = Changes
      <3>1. stream[n] \in Seq(Event)
        BY <1>1
      <3>2. CASE stream'[n] = stream[n]
        BY <3>2
      <3>3. CASE stream'[n] = Append(stream[n], Changes)
        <4>1. ASSUME NEW s \in Seq(Event), NEW x \in Event, NEW j \in 1 .. Len(Append(s, x))
              PROVE  (j \in 1 .. Len(s) /\ Append(s, x)[j] = s[j]) \/ Append(s, x)[j] = x
          OBVIOUS
        <4> QED BY <1>2, <3>1, <3>3, <4>1
      <3> QED BY <1>3, <3>2, <3>3
    <2> QED BY <2>1, <2>2, <2>3
  <1>6. PastInv'
    <2>1. ASSUME NEW n \in Node, NEW k \in Key PROVE Past(seen'[n][k], kv'[k], rev') /\ Past(cache'[n][k], kv'[k], rev')
      <3> DEFINE s == seen[n][k]
                 c == cache[n][k]
      <3>1. s.ver \in Nat /\ c.ver \in Nat /\ Past(s, kv[k], rev) /\ Past(c, kv[k], rev)
        BY <1>1 DEF WatchersInv, PastInv
      <3> HIDE DEF s, c
      <3>2. Past(s, kv'[k], rev') /\ Past(c, kv'[k], rev')
        BY <3>1, PastKept
      <3> QED BY <3>2 DEF s, c, Past
    <2> QED BY <2>1 DEF PastInv
  <1>7. WatchInv'
    <2> SUFFICES ASSUME NEW n \in Node, NEW k \in Key, There(kv'[k]), seen[n][k] = kv'[k] PROVE cache[n][k] = kv'[k]
      BY DEF WatchInv, There
    <2>1. kv'[k] = kv[k]
      <3>1. seen[n][k].ver <= rev /\ seen[n][k].ver \in Nat
        BY <1>1 DEF WatchersInv, PastInv, Past
      <3> QED BY <1>1, <3>1 DEF Writes, There
    <2> QED BY <2>1 DEF WatchersInv, WatchInv
  <1> QED BY <1>4, <1>5, <1>6, <1>7 DEF WatchersInv

\* One key of one watcher.
LEMMA WatcherStep ==
  ASSUME TypeOK, WatchersInv, UNCHANGED <<kv, rev>>, NEW n \in Node,
         NEW s \in [Key -> Item], NEW c \in [Key -> Item],
         seen' = [seen EXCEPT ![n] = s], cache' = [cache EXCEPT ![n] = c],
         \A k \in Key : Past(s[k], kv[k], rev) /\ Past(c[k], kv[k], rev) /\ (There(kv[k]) /\ s[k] = kv[k] => c[k] = kv[k])
  PROVE  /\ PastInv' /\ WatchInv'
         /\ seen' \in [Node -> [Key -> Item]] /\ cache' \in [Node -> [Key -> Item]]
  <1>1. seen \in [Node -> [Key -> Item]] /\ cache \in [Node -> [Key -> Item]]
    BY DEF TypeOK
  <1>2. PastInv'
    BY <1>1 DEF WatchersInv, PastInv, Past, There
  <1>3. WatchInv'
    BY <1>1 DEF WatchersInv, WatchInv, There
  <1> QED BY <1>1, <1>2, <1>3

\* An event that is processed is in the cache.
LEMMA EventTaken ==
  ASSUME TypeOK, WatchersInv, NEW n \in Node, Etcd3!ProcessEvent(n)
  PROVE  WatchersInv' /\ seen' \in [Node -> [Key -> Item]] /\ cache' \in [Node -> [Key -> Item]]
  <1> DEFINE E == Head(stream[n])
             s == After(seen[n], E)
             c == Etcd3!Newer(cache[n], E)
  <1>1. /\ stream[n] # <<>> /\ UNCHANGED <<kv, rev>>
        /\ cache' = [cache EXCEPT ![n] = c] /\ seen' = [seen EXCEPT ![n] = s]
        /\ stream' = [stream EXCEPT ![n] = Tail(stream[n])]
    BY DEF Etcd3!ProcessEvent, Etcd3!store, Etcd3!After, After, Etcd3!Key, Key, Etcd3!There, There, Etcd3!Absent, Absent
  <1>2. stream \in [Node -> Seq(Event)] /\ seen[n] \in [Key -> Item] /\ cache[n] \in [Key -> Item]
        /\ \A e \in Item : e.ver \in Nat
        /\ \A k \in Key : kv[k].ver \in Nat
    BY KeyStoreAssumption DEF TypeOK, WatchersInv, StreamInv, Item
  <1>3. E \in Event /\ Tail(stream[n]) \in Seq(Event) /\ E = stream[n][1] /\ 1 \in 1 .. Len(stream[n])
        /\ \A i \in 1 .. Len(Tail(stream[n])) : i + 1 \in 1 .. Len(stream[n]) /\ Tail(stream[n])[i] = stream[n][i + 1]
    <2>1. stream[n] \in Seq(Event)
      BY <1>2
    <2> QED BY <1>1, <2>1
  <1>4. PICK S \in SUBSET Key : E \in [S -> Item]
    BY <1>3 DEF Event
  <1>5. \A k \in S : Past(E[k], kv[k], rev)
    BY <1>3, <1>4 DEF WatchersInv, EventsInv
  <1>6. StreamInv' /\ EventsInv'
    <2>1. StreamInv'
      BY <1>1, <1>2, <1>3 DEF StreamInv
    <2>2. ASSUME NEW m \in Node, NEW i \in 1 .. Len(stream'[m]), NEW k \in DOMAIN (stream'[m][i])
          PROVE  Past(stream'[m][i][k], kv'[k], rev')
      <3>1. CASE m = n
        BY <1>1, <1>2, <1>3, <3>1 DEF WatchersInv, EventsInv, Past, There
      <3>2. CASE m # n
        BY <1>1, <1>2, <2>2, <3>2 DEF WatchersInv, EventsInv, Past, There
      <3> QED BY <3>1, <3>2
    <2> QED BY <2>1, <2>2 DEF EventsInv
  <1> HIDE DEF E
  <1>7. s \in [Key -> Item]
    BY <1>2, <1>3, AfterIs
  <1>8. c \in [Key -> Item]
    BY <1>2, <1>4, AbsentIs DEF Etcd3!Newer, Etcd3!Key, Key, Etcd3!There, There, Etcd3!Absent, Absent
  <1>9. ASSUME NEW k \in Key
        PROVE  Past(s[k], kv[k], rev) /\ Past(c[k], kv[k], rev) /\ (There(kv[k]) /\ s[k] = kv[k] => c[k] = kv[k])
    <2>1. Past(Absent, kv[k], rev)
      BY <1>2, AbsentIs, KeyStoreAssumption DEF Past, TypeOK
    <2>2. Past(seen[n][k], kv[k], rev) /\ Past(cache[n][k], kv[k], rev)
      BY DEF WatchersInv, PastInv
    <2>3. CASE k \notin S
      <3>1. s[k] = seen[n][k] /\ c[k] = cache[n][k]
        BY <1>4, <2>3 DEF After, Etcd3!Newer, Etcd3!Key, Key
      <3> QED BY <2>2, <3>1 DEF WatchersInv, WatchInv
    <2>4. CASE k \in S
      <3>1. s[k] = IF There(E[k]) THEN E[k] ELSE Absent
        BY <1>4, <2>4 DEF After
      <3>2. c[k] = IF cache[n][k].ver > E[k].ver THEN cache[n][k]
                   ELSE IF There(E[k]) THEN E[k]
                   ELSE IF cache[n][k].ver < E[k].ver THEN Absent ELSE cache[n][k]
        BY <1>4, <2>4 DEF Etcd3!Newer, Etcd3!Key, Key, Etcd3!There, There, Etcd3!Absent, Absent
      <3>3. Past(E[k], kv[k], rev) /\ E[k].ver \in Nat /\ cache[n][k].ver \in Nat
        BY <1>2, <1>4, <1>5, <2>4
      <3>4. Past(s[k], kv[k], rev) /\ Past(c[k], kv[k], rev)
        BY <2>1, <2>2, <3>1, <3>2, <3>3
      <3>5. ASSUME There(kv[k]), s[k] = kv[k] PROVE c[k] = kv[k]
        <4>1. There(E[k]) /\ E[k] = kv[k]
          BY <3>1, <3>5, AbsentIs
        <4>2. cache[n][k].ver <= E[k].ver
          BY <2>2, <3>5, <4>1 DEF Past
        <4> QED BY <1>2, <3>2, <3>3, <4>1, <4>2
      <3> QED BY <3>4, <3>5
    <2> QED BY <2>3, <2>4
  <1> HIDE DEF s, c
  <1> QED BY <1>1, <1>6, <1>7, <1>8, <1>9, WatcherStep DEF WatchersInv

\* The cache is read anew.
LEMMA CacheBuilt ==
  ASSUME TypeOK, VersionInv, WatchersInv, NEW n \in Node, Etcd3!BuildCache(n)
  PROVE  WatchersInv' /\ seen' \in [Node -> [Key -> Item]] /\ cache' \in [Node -> [Key -> Item]]
  <1>1. PICK keys \in {seen[n], kv} :
          /\ cache' = [cache EXCEPT ![n] = keys] /\ seen' = [seen EXCEPT ![n] = keys]
          /\ stream' = [stream EXCEPT ![n] = IF keys = kv THEN <<>> ELSE stream[n]]
    BY DEF Etcd3!BuildCache
  <1>2. UNCHANGED <<kv, rev>>
    BY DEF Etcd3!BuildCache, Etcd3!store
  <1>3. keys \in [Key -> Item] /\ stream \in [Node -> Seq(Event)] /\ \A k \in Key : kv[k].ver \in Nat
    BY <1>1, KeyStoreAssumption DEF TypeOK, WatchersInv, StreamInv, Item
  <1>4. \A k \in Key : Past(keys[k], kv[k], rev)
    BY <1>1, <1>3 DEF Past, VersionInv, WatchersInv, PastInv
  <1>5. StreamInv' /\ EventsInv'
    <2>1. \A m \in Node : stream'[m] = stream[m] \/ stream'[m] = <<>>
      BY <1>1, <1>3
    <2>2. StreamInv'
      BY <1>1, <1>3 DEF StreamInv
    <2>3. EventsInv'
      BY <1>2, <2>1 DEF WatchersInv, EventsInv, Past, There
    <2> QED BY <2>2, <2>3
  <1>6. PastInv' /\ WatchInv' /\ seen' \in [Node -> [Key -> Item]] /\ cache' \in [Node -> [Key -> Item]]
    BY <1>1, <1>2, <1>3, <1>4, WatcherStep
  <1> QED BY <1>5, <1>6 DEF WatchersInv

\* What was written goes to the cache.
LEMMA AnswerTaken ==
  ASSUME Core, WatchersInv, SentInv, NEW n \in Node, Etcd3!CallRpc(n)
  PROVE  WatchersInv' /\ seen' \in [Node -> [Key -> Item]] /\ cache' \in [Node -> [Key -> Item]]
  <1> DEFINE k0 == OpKey(n)
             put == [val |-> n, ver |-> call[n].got, own |-> IF k0 \in {"leader", n} THEN sess[n] ELSE 0]
             delete == [val |-> None, ver |-> call[n].got, own |-> 0]
             e0 == IF call[n].op \in {"release", "unsync", "cancel"} THEN delete ELSE put
             event == [k \in {k0} |-> e0]
             c == Etcd3!Newer(cache[n], event)
  <1>1. /\ call[n].pc = "granted" /\ UNCHANGED <<kv, rev, stream, seen>>
        /\ cache' = [cache EXCEPT ![n] = c]
    BY DEF Etcd3!CallRpc, Etcd3!store, Etcd3!At, Etcd3!OpKey, OpKey
  <1>2. /\ TypeOK /\ seen[n] \in [Key -> Item] /\ cache[n] \in [Key -> Item] /\ call[n] \in Call
        /\ \A e \in Item : e.ver \in Nat
        /\ \A k \in Key : kv[k].ver \in Nat
    BY KeyStoreAssumption DEF Core, TypeOK, WatchersInv, StreamInv, Item
  <1>3. k0 \in Key
    BY KeyFacts DEF OpKey
  <1>4. call[n].got \in 0 .. MaxRev /\ call[n].got <= rev /\ Sent(n)
    <2>1. Sent(n)
      BY <1>1 DEF SentInv
    <2>2. call[n].got <= rev
      BY <2>1 DEF Sent
    <2>3. call[n].got \in Nat /\ rev \in 0 .. MaxRev
      BY <1>2 DEF Call, TypeOK
    <2> QED BY <2>1, <2>2, <2>3, KeyStoreAssumption
  <1>5. e0 \in Item /\ e0.ver = call[n].got
    BY <1>2, <1>4, KeyStoreAssumption DEF Item, TypeOK
  <1>6. There(kv[k0]) /\ call[n].got = kv[k0].ver => e0 = kv[k0]
    BY <1>4 DEF Sent
  <1>7. Past(e0, kv[k0], rev)
    BY <1>4, <1>5 DEF Sent, Past
  <1> HIDE DEF k0, e0
  <1>8. \A k \in Key : c[k] = IF k # k0 \/ cache[n][k].ver > e0.ver THEN cache[n][k]
                              ELSE IF There(e0) THEN e0
                              ELSE IF cache[n][k].ver < e0.ver THEN Absent ELSE cache[n][k]
    BY <1>3 DEF Etcd3!Newer, Etcd3!Key, Key, Etcd3!There, There, Etcd3!Absent, Absent
  <1>9. c \in [Key -> Item]
    <2>1. c = [k \in Key |-> c[k]]
      BY DEF Etcd3!Newer, Etcd3!Key, Key
    <2>2. \A k \in Key : c[k] \in Item
      BY <1>2, <1>5, <1>8, AbsentIs
    <2> HIDE DEF c
    <2> QED BY <2>1, <2>2
  <1> HIDE DEF c
  <1>10. ASSUME NEW k \in Key
         PROVE  /\ Past(seen[n][k], kv[k], rev) /\ Past(c[k], kv[k], rev)
                /\ There(kv[k]) /\ seen[n][k] = kv[k] => c[k] = kv[k]
    <2>1. Past(Absent, kv[k], rev)
      BY <1>2, AbsentIs, KeyStoreAssumption DEF Past, TypeOK
    <2>2. Past(seen[n][k], kv[k], rev) /\ Past(cache[n][k], kv[k], rev)
      BY DEF WatchersInv, PastInv
    <2>3. There(kv[k]) /\ seen[n][k] = kv[k] => cache[n][k] = kv[k]
      BY DEF WatchersInv, WatchInv
    <2>4. CASE k # k0
      BY <1>8, <2>2, <2>3, <2>4
    <2>5. CASE k = k0
      <3>1. Past(c[k], kv[k], rev)
        BY <1>7, <1>8, <2>1, <2>2, <2>5
      <3>2. ASSUME There(kv[k]), seen[n][k] = kv[k] PROVE c[k] = kv[k]
        <4>1. cache[n][k] = kv[k] /\ e0.ver <= kv[k].ver /\ e0.ver \in Nat /\ kv[k].ver \in Nat
          BY <1>2, <1>5, <1>7, <2>3, <2>5, <3>2 DEF Past
        <4>2. CASE e0.ver < kv[k].ver
          BY <1>8, <2>5, <4>1, <4>2
        <4>3. CASE e0.ver = kv[k].ver
          BY <1>5, <1>6, <1>8, <2>5, <3>2, <4>1, <4>3
        <4> QED BY <4>1, <4>2, <4>3
      <3> QED BY <2>2, <3>1, <3>2
    <2> QED BY <2>4, <2>5
  <1>11. StreamInv' /\ EventsInv'
    BY <1>1 DEF WatchersInv, StreamInv, EventsInv
  <1>12. seen' = [seen EXCEPT ![n] = seen[n]]
    BY <1>1, <1>2 DEF TypeOK
  <1>13. PastInv' /\ WatchInv' /\ seen' \in [Node -> [Key -> Item]] /\ cache' \in [Node -> [Key -> Item]]
    BY <1>1, <1>2, <1>9, <1>10, <1>12, WatcherStep
  <1> QED BY <1>11, <1>13 DEF WatchersInv

-----------------------------------------------------------------------------
\* The answer that waits stays what it is when others write.
LEMMA SentKept ==
  ASSUME TypeOK, Writes, NEW m \in Node, call'[m] = call[m], sess'[m] = sess[m], Sent(m)
  PROVE  Sent(m)'
  <1> DEFINE k == OpKey(m)
  <1>1. k \in Key /\ OpKey(m)' = k
    BY KeyFacts DEF OpKey
  <1>2. rev \in Nat /\ rev' \in Nat /\ call[m].got \in Nat /\ kv[k].ver \in Nat /\ kv'[k].ver \in Nat
    <2>1. call[m] \in Call /\ kv[k] \in Item /\ kv'[k] \in Item
      BY <1>1 DEF TypeOK, Writes
    <2> QED BY <2>1, KeyStoreAssumption DEF TypeOK, Writes, Call, Item
  <1>3. call[m].got <= rev' /\ rev <= rev'
    BY <1>2 DEF Sent, Writes
  <1>4. CASE kv'[k] = kv[k]
    BY <1>1, <1>3, <1>4 DEF Sent, There
  <1>5. CASE rev' = rev + 1 /\ (There(kv'[k]) => kv'[k].ver = rev')
    <2>1. call[m].got < rev'
      BY <1>2, <1>5 DEF Sent
    <2> QED BY <1>1, <1>2, <1>3, <1>5, <2>1 DEF Sent, There
  <1> QED BY <1>1, <1>4, <1>5 DEF Writes

\* What becomes of a node when it does not take an answer.
Etcd3Acts(n) ==
  /\ \E k \in Key : Acts(n, k)
  /\ Writes /\ Etcd3Pc(call'[n])
  /\ call'[n].pc = "granted" => Sent(n)'
  /\ live' \subseteq Session
  /\ sess' \in [Node -> Session \cup {0}] /\ \A m \in Node \ {n} : sess'[m] = sess[m]

\* A step that writes nothing gives no version.
LEMMA KeptWrites ==
  ASSUME TypeOK, kv' = kv, rev' = rev
  PROVE  Writes
  BY KeyStoreAssumption DEF Writes, TypeOK

\* What a request puts or deletes.
LEMMA Puttings ==
  ASSUME Core, NEW n \in Node, call[n].pc \notin {"done", "granted"}, NEW k \in Key, k = OpKey(n), NEW e,
         NEW next, next \subseteq Pc \ {"done", "granted"},
         Asks(n, k, e, next, "granted", rev + 1), sess'[n] = sess[n],
         \/ Kept
         \/ e = Absent
         \/ /\ e = Entry(n, IF k \in {"leader", n} THEN sess[n] ELSE 0)
            /\ call[n].op \notin {"release", "unsync", "cancel"}
  PROVE  Writes /\ (call'[n].pc = "granted" => Sent(n)') /\ live' = live
  <1>1. TypeOK /\ rev \in Nat /\ rev + 1 \in Nat /\ MaxRev \in Nat
    BY KeyStoreAssumption DEF Core, TypeOK
  <1>2. /\ call'[n].op = call[n].op
        /\ call'[n].pc = "granted" => Write(k, e) /\ call'[n].got = rev + 1
        /\ Write(k, e) \/ Kept
    BY <1>1, GrantedIs
  <1>3. OpKey(n)' = k
    BY <1>2 DEF OpKey
  <1>4. CASE Kept
    BY <1>1, <1>2, <1>4, KeptWrites DEF Kept, Write
  <1>5. CASE Write(k, e) /\ e = Absent
    <2>1. kv' \in [Key -> Item] /\ kv'[k] = Absent /\ rev' = rev + 1 /\ \A x \in Key \ {k} : kv'[x] = kv[x]
      BY <1>1, <1>5, AbsentIs DEF Write, TypeOK
    <2>2. Writes
      BY <1>1, <1>5, <2>1, AbsentIs DEF Writes, Write
    <2>3. call'[n].pc = "granted" => Sent(n)'
      BY <1>1, <1>2, <1>3, <2>1, AbsentIs DEF Sent, There
    <2> QED BY <1>5, <2>2, <2>3 DEF Write
  <1>6. CASE /\ Write(k, e) /\ e = Entry(n, IF k \in {"leader", n} THEN sess[n] ELSE 0)
             /\ call[n].op \notin {"release", "unsync", "cancel"}
    <2> DEFINE o == IF k \in {"leader", n} THEN sess[n] ELSE 0
    <2>1. o \in Session \cup {0} /\ e = [val |-> n, ver |-> rev + 1, own |-> o] /\ e \in Item
      BY <1>1, <1>6, KeyStoreAssumption DEF Entry, Item, Write, TypeOK
    <2> HIDE DEF o
    <2>2. kv' \in [Key -> Item] /\ kv'[k] = e /\ rev' = rev + 1 /\ \A x \in Key \ {k} : kv'[x] = kv[x]
      BY <1>1, <1>6, <2>1 DEF Write, TypeOK
    <2>3. Writes
      BY <1>1, <1>6, <2>1, <2>2 DEF Writes, Write
    <2>4. call'[n].pc = "granted" => Sent(n)'
      BY <1>1, <1>2, <1>3, <1>6, <2>1, <2>2 DEF Sent, There, o
    <2> QED BY <1>6, <2>3, <2>4 DEF Write
  <1> QED BY <1>2, <1>4, <1>5, <1>6

\* A step that writes nothing, and does not wait for an answer.
LEMMA Standing ==
  ASSUME Etcd3Inv, NEW n \in Node, NEW k \in Key, Acts(n, k), Etcd3Pc(call'[n]), kv' = kv, rev' = rev,
         call'[n].pc # "granted", live' \subseteq Session, NEW s \in Session \cup {0}, sess' = sess \/ sess' = [sess EXCEPT ![n] = s]
  PROVE  Etcd3Acts(n)
  <1>1. TypeOK /\ sess \in [Node -> Session \cup {0}]
    BY DEF Etcd3Inv, Core, TypeOK
  <1> QED BY <1>1, KeptWrites DEF Etcd3Acts

\* An operation of etcd3 begins.
LEMMA Etcd3Start ==
  ASSUME Etcd3Inv, NEW n \in Node, Etcd3!Start(n)
  PROVE  Resets(n) /\ Etcd3Pc(call'[n]) /\ live' = live
  <1>1. call[n].pc = "done" /\ Kept
    BY DEF Etcd3!Start, Etcd3!Begin, Etcd3!store, Kept
  <1>2. \E c \in Call : c.pc # "granted" /\ c.ret = "none" /\ Etcd3Pc(c) /\ call' = [call EXCEPT ![n] = c]
    <2>1. 0 \in 0 .. MaxRev /\ view[n]["sync"].ver \in 0 .. MaxRev
      BY KeyStoreAssumption, KeyFacts DEF Etcd3Inv, Core, TypeOK, Item
    <2>2. PICK o, p, v :
            /\ call' = [call EXCEPT ![n] = [op |-> o, pc |-> p, ver |-> v, ret |-> "none", got |-> 0]]
            /\ v \in {0, view[n]["sync"].ver}
            /\ \/ p = "refresh" /\ o \in {"acquire", "update", "touch"}
               \/ p = "delete" /\ o = "release"
               \/ p = "write" /\ o = "sync"
               \/ p = "erase" /\ o = "unsync"
               \/ p = "first" /\ o = "initialize"
               \/ p = "last" /\ o = "cancel"
      BY DEF Etcd3!Start, Etcd3!Begin, Etcd3!SyncVersion
    <2> DEFINE c == [op |-> o, pc |-> p, ver |-> v, ret |-> "none", got |-> 0]
    <2>3. c \in Call
      BY <2>1, <2>2 DEF Call, Pc
    <2>4. c.pc # "granted" /\ c.ret = "none" /\ Etcd3Pc(c)
      BY <2>2 DEF Etcd3Pc
    <2> QED BY <2>2, <2>3, <2>4
  <1> QED BY <1>1, <1>2, Beginning DEF Etcd3Inv, Core, Kept

\* An operation goes on, with its lease.
LEMMA Etcd3GoesOn ==
  ASSUME Etcd3Inv, NEW n \in Node, call[n].pc \in {"refresh", "grant"}, kv' = kv, rev' = rev,
         \/ call[n].op = "acquire" /\ Quiet(n, {"create", "grant", "again"})
         \/ /\ call[n].op = "touch"
            /\ Quiet(n, {"touch", "grant"}) \/ Answer(n, "true", 0)
         \/ /\ call[n].op = "update"
            /\ Quiet(n, {"swap", "grant"}) \/ Answer(n, "true", 0)
  PROVE  Acts(n, "leader") /\ Etcd3Pc(call'[n]) /\ call'[n].pc # "granted"
  <1>1. Core /\ TypeOK /\ Etcd3Pc(call[n]) /\ "leader" \in Key /\ backend = "etcd3" /\ call[n].pc \notin {"done", "granted"}
    BY KeyFacts DEF Etcd3Inv, Core
  <1>2. CASE call[n].op = "acquire" /\ Quiet(n, {"create", "grant", "again"})
    <2>1. {"create", "grant", "again"} \subseteq Pc \ {"done", "granted"}
      BY DEF Pc
    <2>2. /\ Acts(n, "leader")
          /\ call'[n].pc \in {call[n].pc, "done"} \cup {"create", "grant", "again"}
          /\ call'[n].op = call[n].op
      BY <1>1, <1>2, <2>1, MoveActs
    <2> QED BY <1>1, <1>2, <2>2 DEF Etcd3Pc
  <1>3. CASE /\ call[n].op = "touch"
             /\ Quiet(n, {"touch", "grant"}) \/ Answer(n, "true", 0)
    <2>1. {"touch", "grant"} \subseteq Pc \ {"done", "granted"}
      BY DEF Pc
    <2>2. /\ Moves(n) /\ call'[n].op = call[n].op
          /\ call'[n].pc \in {call[n].pc, "done"} \cup {"touch", "grant"}
          /\ call'[n].pc # "done" => call'[n].got = call[n].got
      BY <1>1, <1>3, <2>1, LooseMoves
    <2>3. Acts(n, "leader")
      BY <1>1, <1>3, <2>2, LooseActs DEF LeaderOps
    <2> QED BY <1>1, <1>3, <2>2, <2>3 DEF Etcd3Pc
  <1>4. CASE /\ call[n].op = "update"
             /\ Quiet(n, {"swap", "grant"}) \/ Answer(n, "true", 0)
    <2>1. {"swap", "grant"} \subseteq Pc \ {"done", "granted"}
      BY DEF Pc
    <2>2. /\ Moves(n) /\ call'[n].op = call[n].op
          /\ call'[n].pc \in {call[n].pc, "done"} \cup {"swap", "grant"}
          /\ call'[n].pc # "done" => call'[n].got = call[n].got
      BY <1>1, <1>4, <2>1, LooseMoves
    <2>3. Acts(n, "leader")
      BY <1>1, <1>4, <2>2, LooseActs DEF LeaderOps
    <2> QED BY <1>1, <1>4, <2>2, <2>3 DEF Etcd3Pc
  <1> QED BY <1>2, <1>3, <1>4

\* A step with the lease of a node is a step of its operation.
LEMMA Etcd3Lease ==
  ASSUME Etcd3Inv, NEW n \in Node, Etcd3!RefreshLease(n) \/ Etcd3!GrantLease(n)
  PROVE  Etcd3Acts(n)
  <1>1. /\ call[n].pc \in {"refresh", "grant"} /\ UNCHANGED <<kv, rev>>
        /\ \/ live' = live /\ (sess' = sess \/ sess' = [sess EXCEPT ![n] = 0])
           \/ \E s \in Session : live' = live \cup {s} /\ sess' = [sess EXCEPT ![n] = s]
    BY DEF Etcd3!RefreshLease, Etcd3!GrantLease, Etcd3!At, Etcd3!store, Etcd3!Unused
  <1>2. Etcd3Pc(call[n]) /\ TypeOK /\ live \subseteq Session /\ "leader" \in Key
    BY KeyFacts DEF Etcd3Inv, Core, TypeOK
  <1>3. call[n].op \in {"acquire", "update", "touch"} /\ (call[n].got = 1 => call[n].op = "acquire")
    BY <1>1, <1>2 DEF Etcd3Pc
  <1>4. \/ call[n].op = "acquire" /\ Quiet(n, {"create", "grant", "again"})
        \/ /\ call[n].op = "touch"
           /\ Quiet(n, {"touch", "grant"}) \/ Answer(n, "true", 0)
        \/ /\ call[n].op = "update"
           /\ Quiet(n, {"swap", "grant"}) \/ Answer(n, "true", 0)
    BY <1>3 DEF Etcd3!RefreshLease, Etcd3!GrantLease, Etcd3!Refreshed, Etcd3!Raises, Etcd3!Fails, Etcd3!Repeat, Etcd3!Answer, Etcd3!Goto,
       Quiet, Answer, Goto
  <1>5. Acts(n, "leader") /\ Etcd3Pc(call'[n]) /\ call'[n].pc # "granted"
    BY <1>1, <1>4, Etcd3GoesOn
  <1>6. live' \subseteq Session
    BY <1>1, <1>2
  <1> QED BY <1>1, <1>2, <1>5, <1>6, Standing

\* A request to etcd3 is a step of its operation.
LEMMA Etcd3Request ==
  ASSUME Etcd3Inv, NEW n \in Node, Etcd3!Request(n)
  PROVE  Etcd3Acts(n)
  <1>1. ASSUME Etcd3!Create(n)
        PROVE  Etcd3Acts(n)
    <2> DEFINE e == Entry(n, sess[n])
    <2>1. /\ call[n].pc = "create"
          /\ \/ /\ sess' = sess /\ Asks(n, "leader", e, {}, "granted", rev + 1)
                /\ Kept \/ (rev < MaxRev /\ Owner(kv["leader"]) \in {None, n})
             \/ /\ Kept /\ sess' = [sess EXCEPT ![n] = 0]
                /\ Answer(n, "false", 0) \/ Goes(n, "grant", 1)
      BY <1>1 DEF Etcd3!Create, Etcd3!Put, Etcd3!CompareAndSet, Etcd3!Granted, Etcd3!Answer, Etcd3!Repeat, Etcd3!Write, Etcd3!Same, Etcd3!At, Etcd3!There,
         Etcd3!store, Etcd3!Raises, Etcd3!Fails, Etcd3!Once, Etcd3!Entry, Etcd3!Absent, Etcd3!SyncMatches,
         Entry, Absent, There, Owner, Asks, Quiet, Write, Answer, Grants, Goes, Kept
    <2>2. call[n].op = "acquire" /\ backend = "etcd3" /\ Core /\ rev + 1 \in Nat /\ sess[n] \in Session \cup {0}
      BY <2>1, KeyStoreAssumption DEF Etcd3Inv, Etcd3Pc, Core, TypeOK
    <2>3. {} \subseteq Pc \ {"done", "granted"} /\ call[n].pc \notin {"done", "granted"} /\ "leader" \in Key
      BY <2>1, KeyFacts
    <2>4. rev < MaxRev => Sound(e, n)
      BY <2>2, Entries, KeyFacts DEF Core
    <2>5. CASE sess' = sess /\ Asks(n, "leader", e, {}, "granted", rev + 1) /\ (Kept \/ (rev < MaxRev /\ Owner(kv["leader"]) \in {None, n}))
      <3>1. OpKey(n) = "leader" /\ (Kept \/ e = Absent \/ (/\ e = Entry(n, IF "leader" \in {"leader", n} THEN sess[n] ELSE 0)
                                                   /\ call[n].op \notin {"release", "unsync", "cancel"}))
        BY <2>2, KeyFacts DEF OpKey
      <3> HIDE DEF e
      <3>2. Acts(n, "leader") /\ Onward(n, {}, "granted")
        BY <2>2, <2>3, <2>4, <2>5, LeaderActs, KeyFacts DEF LeaderOps, Free
      <3>3. Writes /\ (call'[n].pc = "granted" => Sent(n)') /\ live' = live
        BY <2>2, <2>3, <2>5, <3>1, Puttings
      <3>4. Etcd3Pc(call'[n])
        BY <2>1, <2>2, <3>2 DEF Etcd3Pc, Onward
      <3> QED BY <2>2, <2>3, <2>5, <3>2, <3>3, <3>4 DEF Etcd3Acts, Core, TypeOK
    <2>6. CASE /\ Kept /\ sess' = [sess EXCEPT ![n] = 0]
               /\ Answer(n, "false", 0) \/ Goes(n, "grant", 1)
      <3>1. CASE Answer(n, "false", 0)
        <4>1. Acts(n, "leader") /\ call'[n].pc \in {call[n].pc, "done"} \cup {} /\ call'[n].op = call[n].op
          BY <2>2, <2>3, <2>6, <3>1, MoveActs, KeyFacts DEF Quiet, Kept
        <4>2. Etcd3Pc(call'[n]) /\ call'[n].pc # "granted"
          BY <2>1, <2>2, <2>3, <4>1 DEF Etcd3Pc
        <4> QED BY <2>2, <2>6, <4>1, <4>2, KeyFacts, Standing DEF Kept, Core, TypeOK
      <3>2. CASE Goes(n, "grant", 1)
        <4>1. "grant" \in Pc /\ 1 \in Nat /\ call \in [Node -> Call]
          BY <2>2 DEF Pc, Core, TypeOK
        <4>2. /\ Moves(n)
              /\ call'[n] = [op |-> call[n].op, pc |-> "grant", ver |-> call[n].ver, ret |-> call[n].ret, got |-> 1]
          BY <2>3, <3>2, <4>1, Going
        <4>3. Acts(n, "leader")
          BY <2>2, <2>6, <4>2, KeptDrops DEF Acts, Told, Kept, Core
        <4>4. Etcd3Pc(call'[n]) /\ call'[n].pc # "granted"
          BY <2>2, <4>2 DEF Etcd3Pc
        <4> QED BY <2>2, <2>6, <4>3, <4>4, KeyFacts, Standing DEF Kept, Core, TypeOK
      <3> QED BY <2>6, <3>1, <3>2
    <2> QED BY <2>1, <2>5, <2>6
  <1>2. ASSUME Etcd3!CreateAgain(n)
        PROVE  Etcd3Acts(n)
    <2> DEFINE e == Entry(n, sess[n])
    <2>1. /\ call[n].pc = "again"
          /\ \/ /\ sess' = sess /\ Asks(n, "leader", e, {}, "granted", rev + 1)
                /\ Kept \/ (rev < MaxRev /\ Owner(kv["leader"]) \in {None, n})
             \/ /\ Kept /\ (sess' = sess \/ sess' = [sess EXCEPT ![n] = 0])
                /\ Answer(n, "error", 0) \/ Answer(n, "false", 0)
      BY <1>2 DEF Etcd3!CreateAgain, Etcd3!Put, Etcd3!CompareAndSet, Etcd3!Granted, Etcd3!Answer, Etcd3!Repeat, Etcd3!Write, Etcd3!Same, Etcd3!At, Etcd3!There,
         Etcd3!store, Etcd3!Raises, Etcd3!Fails, Etcd3!Once, Etcd3!Entry, Etcd3!Absent, Etcd3!SyncMatches,
         Entry, Absent, There, Owner, Asks, Quiet, Write, Answer, Grants, Goes, Kept
    <2>2. call[n].op = "acquire" /\ backend = "etcd3" /\ Core /\ rev + 1 \in Nat /\ sess[n] \in Session \cup {0}
      BY <2>1, KeyStoreAssumption DEF Etcd3Inv, Etcd3Pc, Core, TypeOK
    <2>3. {} \subseteq Pc \ {"done", "granted"} /\ call[n].pc \notin {"done", "granted"} /\ "leader" \in Key
      BY <2>1, KeyFacts
    <2>4. rev < MaxRev => Sound(e, n)
      BY <2>2, Entries, KeyFacts DEF Core
    <2>5. CASE sess' = sess /\ Asks(n, "leader", e, {}, "granted", rev + 1) /\ (Kept \/ (rev < MaxRev /\ Owner(kv["leader"]) \in {None, n}))
      <3>1. OpKey(n) = "leader" /\ (Kept \/ e = Absent \/ (/\ e = Entry(n, IF "leader" \in {"leader", n} THEN sess[n] ELSE 0)
                                                   /\ call[n].op \notin {"release", "unsync", "cancel"}))
        BY <2>2, KeyFacts DEF OpKey
      <3> HIDE DEF e
      <3>2. Acts(n, "leader") /\ Onward(n, {}, "granted")
        BY <2>2, <2>3, <2>4, <2>5, LeaderActs, KeyFacts DEF LeaderOps, Free
      <3>3. Writes /\ (call'[n].pc = "granted" => Sent(n)') /\ live' = live
        BY <2>2, <2>3, <2>5, <3>1, Puttings
      <3>4. Etcd3Pc(call'[n])
        BY <2>1, <2>2, <3>2 DEF Etcd3Pc, Onward
      <3> QED BY <2>2, <2>3, <2>5, <3>2, <3>3, <3>4 DEF Etcd3Acts, Core, TypeOK
    <2>6. CASE /\ Kept /\ (sess' = sess \/ sess' = [sess EXCEPT ![n] = 0])
               /\ Answer(n, "error", 0) \/ Answer(n, "false", 0)
      <3>1. Acts(n, "leader") /\ call'[n].pc \in {call[n].pc, "done"} \cup {} /\ call'[n].op = call[n].op
        BY <2>2, <2>3, <2>6, MoveActs, KeyFacts DEF Quiet, Kept
      <3>2. Etcd3Pc(call'[n]) /\ call'[n].pc # "granted"
        BY <2>1, <2>2, <2>3, <3>1 DEF Etcd3Pc
      <3> QED BY <2>2, <2>6, <3>1, <3>2, KeyFacts, Standing DEF Kept, Core, TypeOK
    <2> QED BY <2>1, <2>5, <2>6
  <1>3. ASSUME Etcd3!Swap(n)
        PROVE  Etcd3Acts(n)
    <2> DEFINE e == Entry(n, sess[n])
    <2>1. /\ call[n].pc = "swap"
          /\ \/ /\ sess' = sess /\ Asks(n, "leader", e, {}, "granted", rev + 1)
                /\ Kept \/ (rev < MaxRev /\ Owner(kv["leader"]) \in {None, n})
             \/ /\ Kept /\ (sess' = sess \/ sess' = [sess EXCEPT ![n] = 0])
                /\ Answer(n, "error", 0) \/ Answer(n, "false", 0)
      BY <1>3 DEF Etcd3!Swap, Etcd3!Put, Etcd3!CompareAndSet, Etcd3!Granted, Etcd3!Answer, Etcd3!Repeat, Etcd3!Write, Etcd3!Same, Etcd3!At, Etcd3!There,
         Etcd3!store, Etcd3!Raises, Etcd3!Fails, Etcd3!Once, Etcd3!Entry, Etcd3!Absent, Etcd3!SyncMatches,
         Entry, Absent, There, Owner, Asks, Quiet, Write, Answer, Grants, Goes, Kept
    <2>2. call[n].op = "update" /\ backend = "etcd3" /\ Core /\ rev + 1 \in Nat /\ sess[n] \in Session \cup {0}
      BY <2>1, KeyStoreAssumption DEF Etcd3Inv, Etcd3Pc, Core, TypeOK
    <2>3. {} \subseteq Pc \ {"done", "granted"} /\ call[n].pc \notin {"done", "granted"} /\ "leader" \in Key
      BY <2>1, KeyFacts
    <2>4. rev < MaxRev => Sound(e, n)
      BY <2>2, Entries, KeyFacts DEF Core
    <2>5. CASE sess' = sess /\ Asks(n, "leader", e, {}, "granted", rev + 1) /\ (Kept \/ (rev < MaxRev /\ Owner(kv["leader"]) \in {None, n}))
      <3>1. OpKey(n) = "leader" /\ (Kept \/ e = Absent \/ (/\ e = Entry(n, IF "leader" \in {"leader", n} THEN sess[n] ELSE 0)
                                                   /\ call[n].op \notin {"release", "unsync", "cancel"}))
        BY <2>2, KeyFacts DEF OpKey
      <3> HIDE DEF e
      <3>2. Acts(n, "leader") /\ Onward(n, {}, "granted")
        BY <2>2, <2>3, <2>4, <2>5, LeaderActs, KeyFacts DEF LeaderOps, Free
      <3>3. Writes /\ (call'[n].pc = "granted" => Sent(n)') /\ live' = live
        BY <2>2, <2>3, <2>5, <3>1, Puttings
      <3>4. Etcd3Pc(call'[n])
        BY <2>1, <2>2, <3>2 DEF Etcd3Pc, Onward
      <3> QED BY <2>2, <2>3, <2>5, <3>2, <3>3, <3>4 DEF Etcd3Acts, Core, TypeOK
    <2>6. CASE /\ Kept /\ (sess' = sess \/ sess' = [sess EXCEPT ![n] = 0])
               /\ Answer(n, "error", 0) \/ Answer(n, "false", 0)
      <3>1. Acts(n, "leader") /\ call'[n].pc \in {call[n].pc, "done"} \cup {} /\ call'[n].op = call[n].op
        BY <2>2, <2>3, <2>6, MoveActs, KeyFacts DEF Quiet, Kept
      <3>2. Etcd3Pc(call'[n]) /\ call'[n].pc # "granted"
        BY <2>1, <2>2, <2>3, <3>1 DEF Etcd3Pc
      <3> QED BY <2>2, <2>6, <3>1, <3>2, KeyFacts, Standing DEF Kept, Core, TypeOK
    <2> QED BY <2>1, <2>5, <2>6
  <1>4. ASSUME Etcd3!Delete(n)
        PROVE  Etcd3Acts(n)
    <2> DEFINE e == Absent
    <2>1. /\ call[n].pc = "delete"
          /\ sess' = sess /\ Asks(n, "leader", e, {}, "granted", rev + 1)
          /\ Kept \/ (rev < MaxRev)
      BY <1>4 DEF Etcd3!Delete, Etcd3!Put, Etcd3!CompareAndSet, Etcd3!Granted, Etcd3!Answer, Etcd3!Repeat, Etcd3!Write, Etcd3!Same, Etcd3!At, Etcd3!There,
         Etcd3!store, Etcd3!Raises, Etcd3!Fails, Etcd3!Once, Etcd3!Entry, Etcd3!Absent, Etcd3!SyncMatches,
         Entry, Absent, There, Owner, Asks, Quiet, Write, Answer, Grants, Goes, Kept
    <2>2. call[n].op = "release" /\ backend = "etcd3" /\ Core /\ rev + 1 \in Nat /\ sess[n] \in Session \cup {0}
      BY <2>1, KeyStoreAssumption DEF Etcd3Inv, Etcd3Pc, Core, TypeOK
    <2>3. {} \subseteq Pc \ {"done", "granted"} /\ call[n].pc \notin {"done", "granted"} /\ "leader" \in Key
      BY <2>1, KeyFacts
    <2>4. Sound(e, None)
      BY <2>2, AbsentIs, KeyStoreAssumption DEF Core, Sound, Lapsed, TypeOK, Absent
    <2>5. CASE sess' = sess /\ Asks(n, "leader", e, {}, "granted", rev + 1) /\ (Kept \/ (rev < MaxRev))
      <3>1. OpKey(n) = "leader" /\ (Kept \/ e = Absent \/ (/\ e = Entry(n, IF "leader" \in {"leader", n} THEN sess[n] ELSE 0)
                                                   /\ call[n].op \notin {"release", "unsync", "cancel"}))
        BY <2>2, KeyFacts DEF OpKey
      <3> HIDE DEF e
      <3>2. Acts(n, "leader") /\ Onward(n, {}, "granted")
        BY <2>2, <2>3, <2>4, <2>5, OtherActs, KeyFacts DEF LeaderOps, Free
      <3>3. Writes /\ (call'[n].pc = "granted" => Sent(n)') /\ live' = live
        BY <2>2, <2>3, <2>5, <3>1, Puttings
      <3>4. Etcd3Pc(call'[n])
        BY <2>1, <2>2, <3>2 DEF Etcd3Pc, Onward
      <3> QED BY <2>2, <2>3, <2>5, <3>2, <3>3, <3>4 DEF Etcd3Acts, Core, TypeOK
    <2> QED BY <2>1, <2>5
  <1>5. ASSUME Etcd3!WriteSync(n)
        PROVE  Etcd3Acts(n)
    <2> DEFINE e == Entry(n, 0)
    <2>1. /\ call[n].pc = "write"
          /\ sess' = sess /\ Asks(n, "sync", e, {}, "granted", rev + 1)
          /\ Kept \/ (rev < MaxRev /\ call[n].ver \in {0, kv["sync"].ver})
      BY <1>5 DEF Etcd3!WriteSync, Etcd3!Put, Etcd3!CompareAndSet, Etcd3!Granted, Etcd3!Answer, Etcd3!Repeat, Etcd3!Write, Etcd3!Same, Etcd3!At, Etcd3!There,
         Etcd3!store, Etcd3!Raises, Etcd3!Fails, Etcd3!Once, Etcd3!Entry, Etcd3!Absent, Etcd3!SyncMatches,
         Entry, Absent, There, Owner, Asks, Quiet, Write, Answer, Grants, Goes, Kept
    <2>2. call[n].op = "sync" /\ backend = "etcd3" /\ Core /\ rev + 1 \in Nat /\ sess[n] \in Session \cup {0}
      BY <2>1, KeyStoreAssumption DEF Etcd3Inv, Etcd3Pc, Core, TypeOK
    <2>3. {} \subseteq Pc \ {"done", "granted"} /\ call[n].pc \notin {"done", "granted"} /\ "sync" \in Key
      BY <2>1, KeyFacts
    <2>4. rev < MaxRev => Sound(e, n) /\ e # kv["sync"] /\ e.ver = rev + 1
      BY <2>2, Entries, KeyFacts DEF Core
    <2>5. CASE sess' = sess /\ Asks(n, "sync", e, {}, "granted", rev + 1) /\ (Kept \/ (rev < MaxRev /\ call[n].ver \in {0, kv["sync"].ver}))
      <3>1. OpKey(n) = "sync" /\ (Kept \/ e = Absent \/ (/\ e = Entry(n, IF "sync" \in {"leader", n} THEN sess[n] ELSE 0)
                                                   /\ call[n].op \notin {"release", "unsync", "cancel"}))
        BY <2>2, KeyFacts DEF OpKey
      <3> HIDE DEF e
      <3>2. Acts(n, "sync") /\ Onward(n, {}, "granted")
        BY <2>2, <2>3, <2>4, <2>5, SyncActs, KeyFacts DEF LeaderOps, Free
      <3>3. Writes /\ (call'[n].pc = "granted" => Sent(n)') /\ live' = live
        BY <2>2, <2>3, <2>5, <3>1, Puttings
      <3>4. Etcd3Pc(call'[n])
        BY <2>1, <2>2, <3>2 DEF Etcd3Pc, Onward
      <3> QED BY <2>2, <2>3, <2>5, <3>2, <3>3, <3>4 DEF Etcd3Acts, Core, TypeOK
    <2> QED BY <2>1, <2>5
  <1>6. ASSUME Etcd3!DeleteSync(n)
        PROVE  Etcd3Acts(n)
    <2> DEFINE e == Absent
    <2>1. /\ call[n].pc = "erase"
          /\ sess' = sess /\ Asks(n, "sync", e, {}, "granted", rev + 1)
          /\ Kept \/ (rev < MaxRev)
      BY <1>6 DEF Etcd3!DeleteSync, Etcd3!Put, Etcd3!CompareAndSet, Etcd3!Granted, Etcd3!Answer, Etcd3!Repeat, Etcd3!Write, Etcd3!Same, Etcd3!At, Etcd3!There,
         Etcd3!store, Etcd3!Raises, Etcd3!Fails, Etcd3!Once, Etcd3!Entry, Etcd3!Absent, Etcd3!SyncMatches,
         Entry, Absent, There, Owner, Asks, Quiet, Write, Answer, Grants, Goes, Kept
    <2>2. call[n].op = "unsync" /\ backend = "etcd3" /\ Core /\ rev + 1 \in Nat /\ sess[n] \in Session \cup {0}
      BY <2>1, KeyStoreAssumption DEF Etcd3Inv, Etcd3Pc, Core, TypeOK
    <2>3. {} \subseteq Pc \ {"done", "granted"} /\ call[n].pc \notin {"done", "granted"} /\ "sync" \in Key
      BY <2>1, KeyFacts
    <2>4. Sound(e, None)
      BY <2>2, AbsentIs, KeyStoreAssumption DEF Core, Sound, Lapsed, TypeOK, Absent
    <2>5. CASE sess' = sess /\ Asks(n, "sync", e, {}, "granted", rev + 1) /\ (Kept \/ (rev < MaxRev))
      <3>1. OpKey(n) = "sync" /\ (Kept \/ e = Absent \/ (/\ e = Entry(n, IF "sync" \in {"leader", n} THEN sess[n] ELSE 0)
                                                   /\ call[n].op \notin {"release", "unsync", "cancel"}))
        BY <2>2, KeyFacts DEF OpKey
      <3> HIDE DEF e
      <3>2. Acts(n, "sync") /\ Onward(n, {}, "granted")
        BY <2>2, <2>3, <2>4, <2>5, OtherActs, KeyFacts DEF LeaderOps, Free
      <3>3. Writes /\ (call'[n].pc = "granted" => Sent(n)') /\ live' = live
        BY <2>2, <2>3, <2>5, <3>1, Puttings
      <3>4. Etcd3Pc(call'[n])
        BY <2>1, <2>2, <3>2 DEF Etcd3Pc, Onward
      <3> QED BY <2>2, <2>3, <2>5, <3>2, <3>3, <3>4 DEF Etcd3Acts, Core, TypeOK
    <2> QED BY <2>1, <2>5
  <1>7. ASSUME Etcd3!Initialize(n)
        PROVE  Etcd3Acts(n)
    <2> DEFINE e == Entry(n, 0)
    <2>1. /\ call[n].pc = "first"
          /\ sess' = sess /\ Asks(n, "initialize", e, {}, "granted", rev + 1)
          /\ Kept \/ (rev < MaxRev /\ ~There(kv["initialize"]))
      BY <1>7 DEF Etcd3!Initialize, Etcd3!Put, Etcd3!CompareAndSet, Etcd3!Granted, Etcd3!Answer, Etcd3!Repeat, Etcd3!Write, Etcd3!Same, Etcd3!At, Etcd3!There,
         Etcd3!store, Etcd3!Raises, Etcd3!Fails, Etcd3!Once, Etcd3!Entry, Etcd3!Absent, Etcd3!SyncMatches,
         Entry, Absent, There, Owner, Asks, Quiet, Write, Answer, Grants, Goes, Kept
    <2>2. call[n].op = "initialize" /\ backend = "etcd3" /\ Core /\ rev + 1 \in Nat /\ sess[n] \in Session \cup {0}
      BY <2>1, KeyStoreAssumption DEF Etcd3Inv, Etcd3Pc, Core, TypeOK
    <2>3. {} \subseteq Pc \ {"done", "granted"} /\ call[n].pc \notin {"done", "granted"} /\ "initialize" \in Key
      BY <2>1, KeyFacts
    <2>4. rev < MaxRev => Sound(e, n) /\ e # kv["initialize"]
      BY <2>2, Entries, KeyFacts DEF Core
    <2>5. CASE sess' = sess /\ Asks(n, "initialize", e, {}, "granted", rev + 1) /\ (Kept \/ (rev < MaxRev /\ ~There(kv["initialize"])))
      <3>1. OpKey(n) = "initialize" /\ (Kept \/ e = Absent \/ (/\ e = Entry(n, IF "initialize" \in {"leader", n} THEN sess[n] ELSE 0)
                                                   /\ call[n].op \notin {"release", "unsync", "cancel"}))
        BY <2>2, KeyFacts DEF OpKey
      <3> HIDE DEF e
      <3>2. Acts(n, "initialize") /\ Onward(n, {}, "granted")
        BY <2>2, <2>3, <2>4, <2>5, InitializeActs, KeyFacts DEF LeaderOps, Free
      <3>3. Writes /\ (call'[n].pc = "granted" => Sent(n)') /\ live' = live
        BY <2>2, <2>3, <2>5, <3>1, Puttings
      <3>4. Etcd3Pc(call'[n])
        BY <2>1, <2>2, <3>2 DEF Etcd3Pc, Onward
      <3> QED BY <2>2, <2>3, <2>5, <3>2, <3>3, <3>4 DEF Etcd3Acts, Core, TypeOK
    <2> QED BY <2>1, <2>5
  <1>8. ASSUME Etcd3!CancelInitialization(n)
        PROVE  Etcd3Acts(n)
    <2> DEFINE e == Absent
    <2>1. /\ call[n].pc = "last"
          /\ sess' = sess /\ Asks(n, "initialize", e, {}, "granted", rev + 1)
          /\ Kept \/ (rev < MaxRev)
      BY <1>8 DEF Etcd3!CancelInitialization, Etcd3!Put, Etcd3!CompareAndSet, Etcd3!Granted, Etcd3!Answer, Etcd3!Repeat, Etcd3!Write, Etcd3!Same, Etcd3!At, Etcd3!There,
         Etcd3!store, Etcd3!Raises, Etcd3!Fails, Etcd3!Once, Etcd3!Entry, Etcd3!Absent, Etcd3!SyncMatches,
         Entry, Absent, There, Owner, Asks, Quiet, Write, Answer, Grants, Goes, Kept
    <2>2. call[n].op = "cancel" /\ backend = "etcd3" /\ Core /\ rev + 1 \in Nat /\ sess[n] \in Session \cup {0}
      BY <2>1, KeyStoreAssumption DEF Etcd3Inv, Etcd3Pc, Core, TypeOK
    <2>3. {} \subseteq Pc \ {"done", "granted"} /\ call[n].pc \notin {"done", "granted"} /\ "initialize" \in Key
      BY <2>1, KeyFacts
    <2>4. Sound(e, None)
      BY <2>2, AbsentIs, KeyStoreAssumption DEF Core, Sound, Lapsed, TypeOK, Absent
    <2>5. CASE sess' = sess /\ Asks(n, "initialize", e, {}, "granted", rev + 1) /\ (Kept \/ (rev < MaxRev))
      <3>1. OpKey(n) = "initialize" /\ (Kept \/ e = Absent \/ (/\ e = Entry(n, IF "initialize" \in {"leader", n} THEN sess[n] ELSE 0)
                                                   /\ call[n].op \notin {"release", "unsync", "cancel"}))
        BY <2>2, KeyFacts DEF OpKey
      <3> HIDE DEF e
      <3>2. Acts(n, "initialize") /\ Onward(n, {}, "granted")
        BY <2>2, <2>3, <2>4, <2>5, OtherActs, KeyFacts DEF LeaderOps, Free
      <3>3. Writes /\ (call'[n].pc = "granted" => Sent(n)') /\ live' = live
        BY <2>2, <2>3, <2>5, <3>1, Puttings
      <3>4. Etcd3Pc(call'[n])
        BY <2>1, <2>2, <3>2 DEF Etcd3Pc, Onward
      <3> QED BY <2>2, <2>3, <2>5, <3>2, <3>3, <3>4 DEF Etcd3Acts, Core, TypeOK
    <2> QED BY <2>1, <2>5
  <1>9. ASSUME Etcd3!TouchMember(n)
        PROVE  Etcd3Acts(n)
    <2> DEFINE e == Entry(n, sess[n])
    <2>1. /\ call[n].pc = "touch"
          /\ \/ /\ sess' = sess /\ Asks(n, n, e, {}, "granted", rev + 1)
                /\ Kept \/ (rev < MaxRev)
             \/ /\ Kept /\ (sess' = sess \/ sess' = [sess EXCEPT ![n] = 0])
                /\ Answer(n, "error", 0) \/ Answer(n, "false", 0)
      BY <1>9 DEF Etcd3!TouchMember, Etcd3!Put, Etcd3!CompareAndSet, Etcd3!Granted, Etcd3!Answer, Etcd3!Repeat, Etcd3!Write, Etcd3!Same, Etcd3!At, Etcd3!There,
         Etcd3!store, Etcd3!Raises, Etcd3!Fails, Etcd3!Once, Etcd3!Entry, Etcd3!Absent, Etcd3!SyncMatches,
         Entry, Absent, There, Owner, Asks, Quiet, Write, Answer, Grants, Goes, Kept
    <2>2. call[n].op = "touch" /\ backend = "etcd3" /\ Core /\ rev + 1 \in Nat /\ sess[n] \in Session \cup {0}
      BY <2>1, KeyStoreAssumption DEF Etcd3Inv, Etcd3Pc, Core, TypeOK
    <2>3. {} \subseteq Pc \ {"done", "granted"} /\ call[n].pc \notin {"done", "granted"} /\ n \in Key
      BY <2>1, KeyFacts
    <2>4. rev < MaxRev => Sound(e, n)
      BY <2>2, Entries, KeyFacts DEF Core
    <2>5. CASE sess' = sess /\ Asks(n, n, e, {}, "granted", rev + 1) /\ (Kept \/ (rev < MaxRev))
      <3>1. OpKey(n) = n /\ (Kept \/ e = Absent \/ (/\ e = Entry(n, IF n \in {"leader", n} THEN sess[n] ELSE 0)
                                                   /\ call[n].op \notin {"release", "unsync", "cancel"}))
        BY <2>2, KeyFacts DEF OpKey
      <3> HIDE DEF e
      <3>2. Acts(n, n) /\ Onward(n, {}, "granted")
        BY <2>2, <2>3, <2>4, <2>5, TouchActs, KeyFacts DEF LeaderOps, Free
      <3>3. Writes /\ (call'[n].pc = "granted" => Sent(n)') /\ live' = live
        BY <2>2, <2>3, <2>5, <3>1, Puttings
      <3>4. Etcd3Pc(call'[n])
        BY <2>1, <2>2, <3>2 DEF Etcd3Pc, Onward
      <3> QED BY <2>2, <2>3, <2>5, <3>2, <3>3, <3>4 DEF Etcd3Acts, Core, TypeOK
    <2>6. CASE /\ Kept /\ (sess' = sess \/ sess' = [sess EXCEPT ![n] = 0])
               /\ Answer(n, "error", 0) \/ Answer(n, "false", 0)
      <3>1. Acts(n, "leader") /\ call'[n].pc \in {call[n].pc, "done"} \cup {} /\ call'[n].op = call[n].op
        BY <2>2, <2>3, <2>6, MoveActs, KeyFacts DEF Quiet, Kept
      <3>2. Etcd3Pc(call'[n]) /\ call'[n].pc # "granted"
        BY <2>1, <2>2, <2>3, <3>1 DEF Etcd3Pc
      <3> QED BY <2>2, <2>6, <3>1, <3>2, KeyFacts, Standing DEF Kept, Core, TypeOK
    <2> QED BY <2>1, <2>5, <2>6
  <1> QED BY <1>1, <1>2, <1>3, <1>4, <1>5, <1>6, <1>7, <1>8, <1>9 DEF Etcd3!Request

\* Every step of etcd3 keeps its invariant and is a step of the abstract key.
LEMMA Etcd3Step ==
  ASSUME Etcd3Inv, Etcd3!Next, UNCHANGED backend
  PROVE  Etcd3Inv' /\ (K!Next \/ UNCHANGED K!vars)
  <1>0. Observe
    <2>1. Etcd3!Observe
      BY DEF Etcd3!Next
    <2> QED BY <2>1 DEF Etcd3!Observe, Etcd3!Began, Etcd3!Holds, Etcd3!Wrote, Etcd3!Wins, Etcd3!GivesUp, Etcd3!There, Etcd3!Lapsed,
          Observe, Began, Holds, Wrote, Wins, GivesUp, There, Lapsed
  <1> DEFINE Goal == /\ Rest
                     /\ Waits \/ \E n \in Node : Resets(n) \/ \E k \in Key : Acts(n, k)
                     /\ \A n \in Node : Etcd3Pc(call'[n])
                     /\ WatchersInv' /\ SentInv'
  <1>1. TypeOK /\ Core /\ VersionInv /\ WatchersInv /\ SentInv /\ \A n \in Node : Etcd3Pc(call[n])
    BY DEF Etcd3Inv, Core
  <1>2. ASSUME Writes, UNCHANGED <<call, sess>> PROVE SentInv'
    <2>1. ASSUME NEW m \in Node, call'[m].pc = "granted" PROVE Sent(m)'
      BY <1>1, <1>2, <2>1, SentKept DEF SentInv
    <2> QED BY <2>1 DEF SentInv
  <1>3. CASE Etcd3!LeaseExpires
    <2>1. UNCHANGED <<sess, view, call, seen, cache>> /\ Publish
      BY <1>3 DEF Etcd3!LeaseExpires, Etcd3!Publish, Publish, Etcd3!Changes, Changes, Etcd3!Key, Key
    <2>2. PICK s \in live : /\ rev < MaxRev /\ live' = live \ {s}
                            /\ kv' = [k \in Key |-> IF kv[k].own = s THEN Absent ELSE kv[k]]
                            /\ rev' = IF kv' # kv THEN rev + 1 ELSE rev
      BY <1>3 DEF Etcd3!LeaseExpires, Etcd3!Expire, Etcd3!Key, Key, Etcd3!Absent, Absent
    <2>3. Drops
      BY <1>1, <2>2, SessionDrops
    <2>4. Writes
      <3>1. \A k \in Key : kv'[k] = kv[k] \/ (rev' = rev + 1 /\ ~There(kv'[k]))
        BY <2>2, AbsentIs
      <3> QED BY <2>3, <3>1 DEF Writes, Drops
    <2>5. SentInv' /\ WatchersInv'
      BY <1>1, <1>2, <2>1, <2>4, WatchersTold
    <2>6. Rest
      BY <1>1, <2>1, <2>2 DEF Rest, TypeOK
    <2>7. Goal
      BY <1>1, <2>1, <2>3, <2>5, <2>6 DEF Waits
    <2> QED BY <1>0, <1>1, <2>7, CoreStep DEF Etcd3Inv
  <1>4. ASSUME NEW n \in Node, Etcd3Acts(n), UNCHANGED <<view, seen, cache>>, Publish \/ (kv' = kv /\ stream' = stream)
        PROVE  Goal
    <2>1. PICK k \in Key : Acts(n, k)
      BY <1>4 DEF Etcd3Acts
    <2>2. \A m \in Node \ {n} : call'[m] = call[m] /\ sess'[m] = sess[m]
      BY <1>4, <2>1 DEF Etcd3Acts, Acts, Moves
    <2>3. WatchersInv'
      BY <1>1, <1>4, WatchersTold DEF Etcd3Acts
    <2>4. ASSUME NEW m \in Node, call'[m].pc = "granted" PROVE Sent(m)'
      <3>1. CASE m = n
        BY <1>4, <2>4, <3>1 DEF Etcd3Acts
      <3>2. CASE m # n
        BY <1>1, <1>4, <2>2, <2>4, <3>2, SentKept DEF Etcd3Acts, SentInv
      <3> QED BY <3>1, <3>2
    <2>5. SentInv'
      BY <2>4 DEF SentInv
    <2>6. Rest
      BY <1>1, <1>4 DEF Rest, TypeOK, Etcd3Acts
    <2>7. \A m \in Node : Etcd3Pc(call'[m])
      BY <1>1, <1>4, <2>2 DEF Etcd3Acts
    <2> QED BY <2>1, <2>3, <2>5, <2>6, <2>7
  <1>5. ASSUME NEW n \in Node, Etcd3!Request(n)
        PROVE  Goal
    <2>1. UNCHANGED <<view, seen, cache>> /\ Publish
      BY <1>5 DEF Etcd3!Request, Etcd3!Publish, Publish, Etcd3!Changes, Changes, Etcd3!Key, Key
    <2>2. Etcd3Acts(n)
      BY <1>5, Etcd3Request
    <2> QED BY <1>4, <2>1, <2>2
  <1>6. ASSUME NEW n \in Node, Etcd3!RefreshLease(n) \/ Etcd3!GrantLease(n), UNCHANGED view
        PROVE  Goal
    <2>1. UNCHANGED <<seen, cache, stream, kv>>
      BY <1>6 DEF Etcd3!RefreshLease, Etcd3!GrantLease, Etcd3!watcher, Etcd3!store
    <2>2. Etcd3Acts(n)
      BY <1>6, Etcd3Lease
    <2> QED BY <1>4, <1>6, <2>1, <2>2
  <1>7. ASSUME NEW n \in Node, Resets(n), UNCHANGED <<live, sess, stream, seen, cache>>, Etcd3Pc(call'[n]),
               view' \in [Node -> [Key -> Item]]
        PROVE  Goal
    <2>1. Writes /\ kv' = kv /\ \A m \in Node \ {n} : call'[m] = call[m]
      BY <1>1, <1>7, KeptWrites DEF Resets
    <2>2. WatchersInv'
      BY <1>1, <1>7, <2>1, WatchersTold
    <2>3. ASSUME NEW m \in Node, call'[m].pc = "granted" PROVE Sent(m)'
      <3>1. m # n
        BY <1>7, <2>3 DEF Resets
      <3> QED BY <1>1, <1>7, <2>1, <2>3, <3>1, SentKept DEF SentInv
    <2>4. SentInv'
      BY <2>3 DEF SentInv
    <2>5. Rest
      BY <1>1, <1>7 DEF Rest, TypeOK
    <2> QED BY <1>1, <1>7, <2>1, <2>2, <2>4, <2>5
  <1>8. ASSUME NEW n \in Node, Etcd3!Load(n) PROVE Goal
    <2>1. /\ call[n].pc = "done" /\ UNCHANGED <<kv, rev, live, sess, stream, seen, cache>>
          /\ view' = [view EXCEPT ![n] = cache[n]] /\ call' = [call EXCEPT ![n] = Idle]
      BY <1>8 DEF Etcd3!Load, Etcd3!Cached, Etcd3!store, Etcd3!watcher, Etcd3!Idle, Idle
    <2>2. Resets(n) /\ call'[n] = Idle
      BY <1>1, <2>1, IdleIs, Beginning
    <2>3. view' \in [Node -> [Key -> Item]] /\ Etcd3Pc(Idle)
      BY <1>1, <2>1, IdleIs DEF TypeOK, Etcd3Pc
    <2> QED BY <1>7, <2>1, <2>2, <2>3
  <1>9. ASSUME NEW n \in Node, Etcd3!Start(n) PROVE Goal
    <2>1. UNCHANGED <<sess, view, stream, seen, cache>>
      BY <1>9 DEF Etcd3!Start, Etcd3!watcher
    <2>2. Resets(n) /\ Etcd3Pc(call'[n]) /\ live' = live
      BY <1>9, Etcd3Start
    <2>3. view' \in [Node -> [Key -> Item]]
      BY <1>1, <2>1 DEF TypeOK
    <2> QED BY <1>7, <2>1, <2>2, <2>3
  <1>10. ASSUME NEW n \in Node, Etcd3!ProcessEvent(n) \/ Etcd3!BuildCache(n) PROVE Goal
    <2>1. UNCHANGED <<kv, rev, live, sess, view, call>>
      BY <1>10 DEF Etcd3!ProcessEvent, Etcd3!BuildCache, Etcd3!store
    <2>2. WatchersInv' /\ seen' \in [Node -> [Key -> Item]] /\ cache' \in [Node -> [Key -> Item]]
      BY <1>1, <1>10, EventTaken, CacheBuilt
    <2>3. SentInv' /\ Drops
      BY <1>1, <1>2, <2>1, KeptWrites, KeptDrops
    <2>4. Rest
      BY <1>1, <2>1, <2>2 DEF Rest, TypeOK
    <2> QED BY <1>1, <2>1, <2>2, <2>3, <2>4 DEF Waits
  <1>11. ASSUME NEW n \in Node, Etcd3!CallRpc(n) PROVE Goal
    <2>1. call[n].pc = "granted" /\ UNCHANGED <<kv, rev, live, sess, view>> /\ Answer(n, "true", call[n].got)
      BY <1>11 DEF Etcd3!CallRpc, Etcd3!store, Etcd3!At, Etcd3!Answer, Answer
    <2>2. WatchersInv' /\ seen' \in [Node -> [Key -> Item]] /\ cache' \in [Node -> [Key -> Item]]
      BY <1>1, <1>11, AnswerTaken
    <2>3. call \in [Node -> Call] /\ call[n].got \in Nat /\ call[n].pc # "done"
      BY <1>1, <2>1 DEF TypeOK, Call
    <2>4. Moves(n) /\ call'[n] = [op |-> call[n].op, pc |-> "done", ver |-> call[n].ver, ret |-> "true", got |-> call[n].got]
      BY <2>1, <2>3, Answers
    <2>5. Acts(n, "leader")
      <3>1. Shown(n, call[n].got)
        BY <1>1, <2>1 DEF Core, ToldInv, Told
      <3>2. Shown(n, call'[n].got)
        BY <2>4, <3>1
      <3> QED BY <1>1, <2>1, <2>4, <3>2, KeptDrops DEF Acts
    <2>6. ASSUME NEW m \in Node, call'[m].pc = "granted" PROVE Sent(m)'
      <3>1. m # n
        BY <2>4, <2>6
      <3>2. call'[m] = call[m] /\ Writes
        BY <1>1, <2>1, <2>4, <3>1, KeptWrites DEF Moves
      <3> QED BY <1>1, <2>1, <2>6, <3>2, SentKept DEF SentInv
    <2>7. SentInv'
      BY <2>6 DEF SentInv
    <2>8. Rest
      BY <1>1, <2>1, <2>2 DEF Rest, TypeOK
    <2>9. \A m \in Node : Etcd3Pc(call'[m])
      BY <1>1, <2>4 DEF Moves, Etcd3Pc
    <2> QED BY <2>2, <2>5, <2>7, <2>8, <2>9, KeyFacts
  <1> HIDE DEF Goal
  <1>12. CASE ~Etcd3!LeaseExpires
    <2>1. Goal
      BY <1>5, <1>6, <1>8, <1>9, <1>10, <1>11, <1>12 DEF Etcd3!Next
    <2> QED BY <1>0, <1>1, <2>1, CoreStep DEF Goal, Etcd3Inv
  <1> QED BY <1>3, <1>12

-----------------------------------------------------------------------------
(* Kubernetes: objects that stay, and a watcher for each node *)

\* Where the operations of Kubernetes may be.
KubernetesPc(c) ==
  /\ c.pc = "patch" => c.op \in {"acquire", "update"}
  /\ c.pc \in {"renew", "read"} => c.op = "update"
  /\ c.pc = "delete" => c.op = "release"
  /\ c.pc = "write" => c.op = "sync"
  /\ c.pc = "erase" => c.op = "unsync"
  /\ c.pc = "first" => c.op = "initialize"
  /\ c.pc = "last" => c.op = "cancel"
  /\ c.pc = "touch" => c.op = "touch"

\* What is known of an object is not newer than the object, and of one version there is one value.
Agrees(e, now) == e.ver <= now.ver /\ (e.ver = now.ver => e.val = now.val)

\* An object that has a value has a version, and only the leader's may be marked.
ObjectsInv ==
  /\ \A k \in Key : kv[k].ver = 0 => ~There(kv[k])
  /\ \A k \in Key \ {"leader"} : kv[k].own = 0
  /\ kv["leader"].own \in {0, Lapsed}

\* The cache is as new as what was delivered, or newer.
CacheInv ==
  \A n \in Node, k \in Key :
    /\ Agrees(seen[n][k], kv[k]) /\ seen[n][k].own = 0
    /\ Agrees(cache[n][k], kv[k]) /\ cache[n][k].own = 0
    /\ seen[n][k].ver <= cache[n][k].ver

DeliveriesInv ==
  \A n \in Node : \A i \in 1 .. Len(stream[n]) : \A k \in DOMAIN (stream[n][i]) :
    Agrees(stream[n][i][k], kv[k]) /\ stream[n][i][k].own = 0

\* A version of the leader object at which a node may take it.
Vacant(n, ver, now, last) == ver <= last /\ (ver = now.ver => Owner(now) \in {None, n})

\* What a node loaded: a leader that was not there has not become one at the same version.
LoadedInv ==
  \A n \in Node : /\ Agrees(view[n]["initialize"], kv["initialize"])
                  /\ ~There(view[n]["leader"]) => Vacant(n, view[n]["leader"].ver, kv["leader"], rev)

\* The versions that go with the conditional requests.
AskedInv ==
  \A n \in Node :
    /\ call[n].pc \in {"patch", "renew"} => Vacant(n, call[n].ver, kv["leader"], rev)
    /\ call[n].pc = "first" => /\ call[n].ver <= rev
                               /\ call[n].ver = kv["initialize"].ver => ~There(kv["initialize"])

\* The object that the answer has.
Answering(n) ==
  [val |-> IF call[n].op \in {"release", "unsync", "cancel"} THEN None ELSE n, ver |-> call[n].got, own |-> 0]

AnsweredInv == \A n \in Node : call[n].pc = "granted" => Agrees(Answering(n), kv[OpKey(n)])

KubernetesInv ==
  /\ backend = "kubernetes" /\ Core /\ \A n \in Node : KubernetesPc(call[n])
  /\ ObjectsInv /\ StreamInv /\ CacheInv /\ DeliveriesInv /\ LoadedInv /\ AskedInv /\ AnsweredInv

-----------------------------------------------------------------------------
\* Every write of an object gives it a new version, and removes the mark of the leader.
Edits ==
  /\ kv' \in [Key -> Item] /\ rev' \in 0 .. MaxRev /\ rev <= rev'
  /\ \A k \in Key : \/ kv'[k] = kv[k]
                    \/ rev' = rev + 1 /\ kv'[k].ver = rev' /\ kv'[k].own = 0
                    \/ /\ k = "leader" /\ kv'[k].own = Lapsed
                       /\ kv'[k].val = kv[k].val /\ kv'[k].ver = kv[k].ver

\* Versions are numbers.
LEMMA Versions ==
  ASSUME TypeOK
  PROVE  /\ rev \in Nat /\ \A e \in Item : e.ver \in Nat
         /\ \A k \in Key : kv[k].ver \in Nat /\ kv[k] \in Item
         /\ \A n \in Node, k \in Key : seen[n][k].ver \in Nat /\ cache[n][k].ver \in Nat /\ view[n][k].ver \in Nat
         /\ \A n \in Node : call[n].ver \in Nat /\ call[n].got \in Nat
  BY KeyStoreAssumption DEF TypeOK, Item, Call

\* What is known of an object stays true when the object is edited.
LEMMA AgreesKept ==
  ASSUME TypeOK, VersionInv, Edits, NEW e, e.ver \in Nat, NEW k \in Key, Agrees(e, kv[k])
  PROVE  Agrees(e, kv'[k])
  <1>1. rev \in Nat /\ kv[k].ver \in Nat /\ kv[k].ver <= rev
    BY Versions DEF VersionInv
  <1> QED BY <1>1 DEF Agrees, Edits

\* A version at which a node may take the leader object stays one.
LEMMA VacantKept ==
  ASSUME TypeOK, Edits, NEW n \in Node, NEW v \in Nat, Vacant(n, v, kv["leader"], rev)
  PROVE  Vacant(n, v, kv'["leader"], rev')
  <1>1. rev \in Nat /\ rev' \in Nat /\ rev <= rev' /\ "leader" \in Key
    BY KeyStoreAssumption, KeyFacts DEF TypeOK, Edits
  <1>2. v <= rev'
    BY <1>1 DEF Vacant
  <1>3. ASSUME v = kv'["leader"].ver PROVE Owner(kv'["leader"]) \in {None, n}
    BY <1>1, <1>3 DEF Vacant, Edits, Owner
  <1> QED BY <1>2, <1>3 DEF Vacant, Owner

\* Objects stay as they are described when they are edited.
LEMMA ObjectsKept ==
  ASSUME TypeOK, ObjectsInv, Edits
  PROVE  ObjectsInv'
  <1>1. rev \in Nat /\ "leader" \in Key
    BY KeyStoreAssumption, KeyFacts DEF TypeOK
  <1> QED BY <1>1 DEF ObjectsInv, Edits, There

\* What a node loaded stays true when objects are edited.
LEMMA LoadedKept ==
  ASSUME TypeOK, VersionInv, LoadedInv, Edits, view' = view
  PROVE  LoadedInv'
  <1> SUFFICES ASSUME NEW n \in Node
               PROVE  /\ Agrees(view[n]["initialize"], kv'["initialize"])
                      /\ ~There(view[n]["leader"]) => Vacant(n, view[n]["leader"].ver, kv'["leader"], rev')
    BY DEF LoadedInv, There
  <1>1. view[n]["initialize"].ver \in Nat /\ view[n]["leader"].ver \in Nat /\ "initialize" \in Key
    BY Versions, KeyFacts
  <1>2. Agrees(view[n]["initialize"], kv'["initialize"])
    BY <1>1, AgreesKept DEF LoadedInv
  <1>3. ASSUME ~There(view[n]["leader"]) PROVE Vacant(n, view[n]["leader"].ver, kv'["leader"], rev')
    <2> DEFINE v == view[n]["leader"].ver
    <2>1. Vacant(n, v, kv["leader"], rev) /\ v \in Nat
      BY <1>1, <1>3 DEF LoadedInv
    <2> HIDE DEF v
    <2>2. Vacant(n, v, kv'["leader"], rev')
      BY <2>1, VacantKept
    <2> QED BY <2>2 DEF v
  <1> QED BY <1>2, <1>3

\* Of one node, whose call stays.
Asked(n) ==
  /\ call[n].pc \in {"patch", "renew"} => Vacant(n, call[n].ver, kv["leader"], rev)
  /\ call[n].pc = "first" => /\ call[n].ver <= rev
                             /\ call[n].ver = kv["initialize"].ver => ~There(kv["initialize"])

Taken(n) == call[n].pc = "granted" => Agrees(Answering(n), kv[OpKey(n)])

\* The version that goes with a request stays one that may be asked for.
LEMMA AskedKept ==
  ASSUME TypeOK, Edits, NEW n \in Node, call'[n].pc = call[n].pc, call'[n].ver = call[n].ver, Asked(n)
  PROVE  Asked(n)'
  <1>1. call[n].ver \in Nat /\ "initialize" \in Key /\ rev \in Nat /\ rev' \in Nat
    BY Versions, KeyFacts, KeyStoreAssumption DEF Edits
  <1>2. ASSUME call[n].pc \in {"patch", "renew"} PROVE Vacant(n, call[n].ver, kv'["leader"], rev')
    <2> DEFINE v == call[n].ver
    <2>1. Vacant(n, v, kv["leader"], rev) /\ v \in Nat
      BY <1>1, <1>2 DEF Asked
    <2> HIDE DEF v
    <2>2. Vacant(n, v, kv'["leader"], rev')
      BY <2>1, VacantKept
    <2> QED BY <2>2 DEF v
  <1>3. ASSUME call[n].pc = "first"
        PROVE  call[n].ver <= rev' /\ (call[n].ver = kv'["initialize"].ver => ~There(kv'["initialize"]))
    BY <1>1, <1>3 DEF Asked, Edits, There
  <1> QED BY <1>2, <1>3 DEF Asked

\* A call that waits is not disturbed by the others.
LEMMA CallKept ==
  ASSUME TypeOK, VersionInv, Edits, NEW n \in Node, call'[n] = call[n], Asked(n), Taken(n)
  PROVE  Asked(n)' /\ Taken(n)'
  <1>1. call[n].got \in Nat /\ OpKey(n) \in Key
    BY Versions, KeyFacts DEF OpKey
  <1>2. ASSUME call[n].pc = "granted" PROVE Agrees(Answering(n), kv'[OpKey(n)])
    <2> DEFINE e == Answering(n)
               k == OpKey(n)
    <2>1. Agrees(e, kv[k]) /\ e.ver \in Nat /\ k \in Key
      BY <1>1, <1>2 DEF Taken, Answering
    <2> HIDE DEF e, k
    <2> QED BY <2>1, AgreesKept DEF e, k
  <1>3. Answering(n)' = Answering(n) /\ OpKey(n)' = OpKey(n)
    BY DEF Answering, OpKey
  <1> QED BY <1>2, <1>3, AskedKept DEF Taken

\* The watchers, when objects change and they are told.
Watched == StreamInv /\ CacheInv /\ DeliveriesInv

\* The watchers, when objects change and they are told.
LEMMA WatchedTold ==
  ASSUME TypeOK, VersionInv, Watched, Edits, UNCHANGED <<seen, cache>>,
         \/ kv' = kv /\ stream' = stream
         \/ UNCHANGED stream /\ \A k \in Key : kv'[k].ver = kv[k].ver /\ kv'[k].val = kv[k].val
         \/ Publish /\ \A k \in Key : kv'[k] # kv[k] => kv'[k].own = 0 /\ kv'[k].ver = rev'
  PROVE  Watched'
  <1>1. /\ stream \in [Node -> Seq(Event)]
        /\ rev \in Nat /\ rev' \in Nat
        /\ \A e \in Item : e.ver \in Nat
    BY Versions, KeyStoreAssumption DEF Watched, StreamInv, Edits
  <1>2. Changes \in Event
    BY ChangesAre DEF Edits
  <1>3. \A n \in Node : stream'[n] = stream[n] \/ stream'[n] = Append(stream[n], Changes)
    BY <1>1 DEF Publish
  <1>4. StreamInv'
    <2>1. \A n \in Node : Append(stream[n], Changes) \in Seq(Event)
      BY <1>1, <1>2
    <2> QED BY <1>1, <2>1 DEF Publish, StreamInv
  <1>5. CacheInv'
    <2>1. ASSUME NEW n \in Node, NEW k \in Key
          PROVE  Agrees(seen[n][k], kv'[k]) /\ Agrees(cache[n][k], kv'[k])
      BY Versions, AgreesKept DEF Watched, CacheInv
    <2> QED BY <2>1 DEF Watched, CacheInv
  <1>6. DeliveriesInv'
    <2> SUFFICES ASSUME NEW n \in Node, NEW i \in 1 .. Len(stream'[n]), NEW k \in DOMAIN (stream'[n][i])
                 PROVE  Agrees(stream'[n][i][k], kv'[k]) /\ stream'[n][i][k].own = 0
      BY DEF DeliveriesInv
    <2>1. CASE i \in 1 .. Len(stream[n]) /\ stream'[n][i] = stream[n][i]
      <3>1. stream[n][i] \in Event
        BY <1>1, <2>1
      <3>2. PICK S \in SUBSET Key : stream[n][i] \in [S -> Item]
        BY <3>1 DEF Event
      <3> DEFINE e == stream[n][i][k]
      <3>3. e \in Item /\ k \in Key /\ Agrees(e, kv[k]) /\ e.own = 0
        BY <2>1, <3>2 DEF Watched, DeliveriesInv
      <3> HIDE DEF e
      <3>4. Agrees(e, kv'[k])
        BY <1>1, <3>3, AgreesKept
      <3> QED BY <2>1, <3>3, <3>4 DEF e
    <2>2. CASE stream'[n][i] = Changes /\ stream' # stream
      <3>1. k \in Key /\ kv'[k] # kv[k] /\ Changes[k] = [kv'[k] EXCEPT !.ver = rev']
        BY <2>2 DEF Changes
      <3>2. kv'[k] \in Item /\ kv'[k].own = 0 /\ kv'[k].ver = rev'
        BY <2>2, <3>1 DEF Edits
      <3>3. Changes[k].ver = rev' /\ Changes[k].val = kv'[k].val /\ Changes[k].own = 0
        BY <3>1, <3>2 DEF Item
      <3> QED BY <1>1, <2>2, <3>2, <3>3 DEF Agrees
    <2>3. (i \in 1 .. Len(stream[n]) /\ stream'[n][i] = stream[n][i]) \/ (stream'[n][i] = Changes /\ stream' # stream)
      <3>1. stream[n] \in Seq(Event)
        BY <1>1
      <3>2. CASE stream'[n] = stream[n]
        BY <3>2
      <3>3. CASE stream'[n] = Append(stream[n], Changes) /\ stream'[n] # stream[n]
        <4>1. ASSUME NEW s \in Seq(Event), NEW x \in Event, NEW j \in 1 .. Len(Append(s, x))
              PROVE  (j \in 1 .. Len(s) /\ Append(s, x)[j] = s[j]) \/ Append(s, x)[j] = x
          OBVIOUS
        <4> QED BY <1>2, <3>1, <3>3, <4>1
      <3> QED BY <1>3, <3>2, <3>3
    <2> QED BY <2>1, <2>2, <2>3
  <1> QED BY <1>4, <1>5, <1>6 DEF Watched

\* What a node's cache takes.
LEMMA CacheStep ==
  ASSUME TypeOK, Watched, kv' = kv, NEW n \in Node,
         NEW s \in [Key -> Item], NEW c \in [Key -> Item],
         seen' = [seen EXCEPT ![n] = s], cache' = [cache EXCEPT ![n] = c],
         \A k \in Key : /\ Agrees(s[k], kv[k]) /\ s[k].own = 0
                        /\ Agrees(c[k], kv[k]) /\ c[k].own = 0
                        /\ s[k].ver <= c[k].ver
  PROVE  /\ CacheInv'
         /\ seen' \in [Node -> [Key -> Item]] /\ cache' \in [Node -> [Key -> Item]]
  <1>1. seen \in [Node -> [Key -> Item]] /\ cache \in [Node -> [Key -> Item]]
    BY DEF TypeOK
  <1>2. CacheInv'
    BY <1>1 DEF Watched, CacheInv
  <1> QED BY <1>1, <1>2

\* An object that was read goes to the cache.
LEMMA ObjectTaken ==
  ASSUME TypeOK, Watched, NEW n \in Node, NEW k0 \in Key, NEW e \in Item, Agrees(e, kv[k0]), e.own = 0,
         UNCHANGED <<kv, stream, seen>>, cache' = [cache EXCEPT ![n] = Kubernetes!Newer(cache[n], [k \in {k0} |-> e])]
  PROVE  Watched' /\ cache' \in [Node -> [Key -> Item]]
  <1> DEFINE c == Kubernetes!Newer(cache[n], [k \in {k0} |-> e])
  <1>1. \A k \in Key : c[k] = IF k = k0 /\ cache[n][k].ver < e.ver THEN e ELSE cache[n][k]
    BY DEF Kubernetes!Newer, Kubernetes!Key, Key
  <1>2. c = [k \in Key |-> c[k]]
    BY DEF Kubernetes!Newer, Kubernetes!Key, Key
  <1>3. cache' = [cache EXCEPT ![n] = c]
    OBVIOUS
  <1> HIDE DEF c
  <1>4. c \in [Key -> Item]
    BY <1>1, <1>2 DEF TypeOK
  <1>5. seen' = [seen EXCEPT ![n] = seen[n]] /\ seen[n] \in [Key -> Item]
    BY DEF TypeOK
  <1>6. ASSUME NEW k \in Key
        PROVE  /\ Agrees(seen[n][k], kv[k]) /\ seen[n][k].own = 0
               /\ Agrees(c[k], kv[k]) /\ c[k].own = 0
               /\ seen[n][k].ver <= c[k].ver
    <2>1. e.ver \in Nat /\ seen[n][k].ver \in Nat /\ cache[n][k].ver \in Nat
      BY Versions
    <2> QED BY <1>1, <2>1 DEF Watched, CacheInv
  <1>7. CacheInv' /\ cache' \in [Node -> [Key -> Item]]
    BY <1>3, <1>4, <1>5, <1>6, CacheStep
  <1>8. StreamInv' /\ DeliveriesInv'
    BY DEF Watched, StreamInv, DeliveriesInv
  <1> QED BY <1>7, <1>8 DEF Watched

\* A delivery goes to the cache, unless the cache is newer.
LEMMA DeliveryTaken ==
  ASSUME TypeOK, Watched, NEW n \in Node, Kubernetes!ProcessEvent(n)
  PROVE  Watched' /\ seen' \in [Node -> [Key -> Item]] /\ cache' \in [Node -> [Key -> Item]]
  <1> DEFINE E == Head(stream[n])
             s == Kubernetes!Replaced(seen[n], E)
             c == Kubernetes!Newer(cache[n], E)
  <1>1. /\ stream[n] # <<>> /\ kv' = kv
        /\ cache' = [cache EXCEPT ![n] = c] /\ seen' = [seen EXCEPT ![n] = s]
        /\ stream' = [stream EXCEPT ![n] = Tail(stream[n])]
    BY DEF Kubernetes!ProcessEvent, Kubernetes!store
  <1>2. stream \in [Node -> Seq(Event)] /\ seen[n] \in [Key -> Item] /\ cache[n] \in [Key -> Item]
        /\ \A e \in Item : e.ver \in Nat
    BY Versions DEF TypeOK, Watched, StreamInv
  <1>3. E \in Event /\ Tail(stream[n]) \in Seq(Event) /\ E = stream[n][1] /\ 1 \in 1 .. Len(stream[n])
        /\ \A i \in 1 .. Len(Tail(stream[n])) : i + 1 \in 1 .. Len(stream[n]) /\ Tail(stream[n])[i] = stream[n][i + 1]
    <2>1. stream[n] \in Seq(Event)
      BY <1>2
    <2> QED BY <1>1, <2>1
  <1>4. PICK S \in SUBSET Key : E \in [S -> Item]
    BY <1>3 DEF Event
  <1>5. \A k \in S : Agrees(E[k], kv[k]) /\ E[k].own = 0
    BY <1>3, <1>4 DEF Watched, DeliveriesInv
  <1>6. StreamInv' /\ DeliveriesInv'
    <2>1. StreamInv'
      BY <1>1, <1>2, <1>3 DEF StreamInv
    <2>2. ASSUME NEW m \in Node, NEW i \in 1 .. Len(stream'[m]), NEW k \in DOMAIN (stream'[m][i])
          PROVE  Agrees(stream'[m][i][k], kv'[k]) /\ stream'[m][i][k].own = 0
      <3>1. CASE m = n
        BY <1>1, <1>2, <1>3, <3>1 DEF Watched, DeliveriesInv
      <3>2. CASE m # n
        BY <1>1, <1>2, <2>2, <3>2 DEF Watched, DeliveriesInv
      <3> QED BY <3>1, <3>2
    <2> QED BY <2>1, <2>2 DEF DeliveriesInv
  <1> HIDE DEF E
  <1>7. \A k \in Key : s[k] = (IF k \in S THEN E[k] ELSE seen[n][k])
                    /\ c[k] = (IF k \in S /\ cache[n][k].ver < E[k].ver THEN E[k] ELSE cache[n][k])
    BY <1>4 DEF Kubernetes!Replaced, Kubernetes!Newer, Kubernetes!Key, Key
  <1>8. s = [k \in Key |-> s[k]] /\ c = [k \in Key |-> c[k]]
    BY DEF Kubernetes!Replaced, Kubernetes!Newer, Kubernetes!Key, Key
  <1> HIDE DEF s, c
  <1>9. s \in [Key -> Item] /\ c \in [Key -> Item]
    <2>1. \A k \in Key : s[k] \in Item /\ c[k] \in Item
      BY <1>2, <1>4, <1>7
    <2> QED BY <1>8, <2>1
  <1>10. ASSUME NEW k \in Key
         PROVE  /\ Agrees(s[k], kv[k]) /\ s[k].own = 0
                /\ Agrees(c[k], kv[k]) /\ c[k].own = 0
                /\ s[k].ver <= c[k].ver
    <2>1. seen[n][k].ver \in Nat /\ cache[n][k].ver \in Nat /\ (k \in S => E[k].ver \in Nat)
      BY <1>2, <1>4
    <2> QED BY <1>5, <1>7, <2>1 DEF Watched, CacheInv
  <1>11. CacheInv' /\ seen' \in [Node -> [Key -> Item]] /\ cache' \in [Node -> [Key -> Item]]
    BY <1>1, <1>9, <1>10, CacheStep
  <1> QED BY <1>6, <1>11 DEF Watched

\* The leader object as a watch delivers it.
LEMMA UnmarkedIs ==
  ASSUME TypeOK, ObjectsInv
  PROVE  /\ Kubernetes!Unmarked(kv) \in [Key -> Item]
         /\ \A k \in Key : /\ Agrees(Kubernetes!Unmarked(kv)[k], kv[k])
                           /\ Kubernetes!Unmarked(kv)[k].own = 0
  <1> DEFINE l == [kv["leader"] EXCEPT !.own = 0]
             u == [kv EXCEPT !["leader"] = l]
  <1>1. kv \in [Key -> Item] /\ kv["leader"] \in Item /\ "leader" \in Key /\ \A k \in Key : kv[k].ver \in Nat
    BY KeyFacts, Versions DEF TypeOK
  <1>2. l \in Item /\ l.own = 0 /\ l.val = kv["leader"].val /\ l.ver = kv["leader"].ver
    BY <1>1 DEF Item
  <1> HIDE DEF l
  <1>3. u \in [Key -> Item] /\ \A k \in Key : u[k] = IF k = "leader" THEN l ELSE kv[k]
    BY <1>1, <1>2
  <1> HIDE DEF u
  <1>4. \A k \in Key : Agrees(u[k], kv[k]) /\ u[k].own = 0
    BY <1>1, <1>2, <1>3 DEF Agrees, ObjectsInv
  <1>5. Kubernetes!Unmarked(kv) = u
    BY DEF Kubernetes!Unmarked, u, l
  <1> QED BY <1>3, <1>4, <1>5

\* The cache is what was delivered last, or is read anew.
LEMMA CacheRead ==
  ASSUME TypeOK, ObjectsInv, Watched, NEW n \in Node, Kubernetes!BuildCache(n)
  PROVE  Watched' /\ seen' \in [Node -> [Key -> Item]] /\ cache' \in [Node -> [Key -> Item]]
  <1>1. PICK keys \in {seen[n], Kubernetes!Unmarked(kv)} :
          /\ cache' = [cache EXCEPT ![n] = keys] /\ seen' = [seen EXCEPT ![n] = keys]
          /\ stream' = [stream EXCEPT ![n] = IF keys = Kubernetes!Unmarked(kv) THEN <<>> ELSE stream[n]]
    BY DEF Kubernetes!BuildCache
  <1>2. kv' = kv
    BY DEF Kubernetes!BuildCache, Kubernetes!store
  <1>3. keys \in [Key -> Item] /\ stream \in [Node -> Seq(Event)]
    BY <1>1, UnmarkedIs DEF TypeOK, Watched, StreamInv
  <1>4. \A k \in Key : Agrees(keys[k], kv[k]) /\ keys[k].own = 0 /\ keys[k].ver <= keys[k].ver
    <2>1. \A k \in Key : keys[k].ver \in Nat
      BY <1>3, Versions
    <2> QED BY <1>1, <2>1, UnmarkedIs DEF Watched, CacheInv
  <1>5. StreamInv' /\ DeliveriesInv'
    <2>1. \A m \in Node : stream'[m] = stream[m] \/ stream'[m] = <<>>
      BY <1>1, <1>3
    <2>2. StreamInv'
      BY <1>1, <1>3 DEF StreamInv
    <2>3. DeliveriesInv'
      BY <1>2, <2>1 DEF Watched, DeliveriesInv
    <2> QED BY <2>2, <2>3
  <1>6. CacheInv' /\ seen' \in [Node -> [Key -> Item]] /\ cache' \in [Node -> [Key -> Item]]
    BY <1>1, <1>2, <1>3, <1>4, CacheStep
  <1> QED BY <1>5, <1>6 DEF Watched

\* What is delivered, and is the same as the store has, is in the cache.
LEMMA CacheIsUpToDate ==
  ASSUME TypeOK, CacheInv, NEW n \in Node, NEW k \in Key, seen[n][k] = kv[k]
  PROVE  cache[n][k] = kv[k]
  <1>1. cache[n][k] \in Item /\ kv[k] \in Item /\ cache[n][k].ver \in Nat /\ kv[k].ver \in Nat
    BY Versions DEF TypeOK
  <1>2. cache[n][k].ver = kv[k].ver /\ cache[n][k].val = kv[k].val /\ cache[n][k].own = kv[k].own
    BY <1>1 DEF CacheInv, Agrees
  <1> QED BY <1>1, <1>2 DEF Item

-----------------------------------------------------------------------------
\* What is written has a new version, and no mark.
Patches ==
  /\ kv' \in [Key -> Item] /\ rev' \in 0 .. MaxRev /\ rev <= rev'
  /\ \A k \in Key : kv'[k] = kv[k] \/ (rev' = rev + 1 /\ kv'[k].ver = rev' /\ kv'[k].own = 0)

\* A patch is an edit that the watchers are told of.
LEMMA PatchesEdit ==
  ASSUME Patches
  PROVE  Edits /\ \A k \in Key : kv'[k] # kv[k] => kv'[k].own = 0 /\ kv'[k].ver = rev'
  BY DEF Patches, Edits

\* A step that writes nothing patches nothing.
LEMMA KeptPatches ==
  ASSUME TypeOK, kv' = kv, rev' = rev
  PROVE  Patches
  BY KeyStoreAssumption DEF Patches, TypeOK

\* What becomes of a node when it acts.
KubernetesActs(n) ==
  /\ \E k \in Key : Acts(n, k)
  /\ Patches /\ live' = live
  /\ KubernetesPc(call'[n]) /\ Asked(n)' /\ Taken(n)'

\* A request patches its object, and its answer is the object.
LEMMA Patching ==
  ASSUME KubernetesInv, NEW n \in Node, call[n].pc \notin {"done", "granted"}, NEW k \in Key, k = OpKey(n), NEW e,
         NEW next, next \subseteq {"read"}, Asks(n, k, e, next, "granted", rev + 1),
         Acts(n, k), Onward(n, next, "granted"), KubernetesPc(call'[n]),
         Kept \/ e = Entry(IF call[n].op \in {"release", "unsync", "cancel"} THEN None ELSE n, 0)
  PROVE  KubernetesActs(n)
  <1> DEFINE v == IF call[n].op \in {"release", "unsync", "cancel"} THEN None ELSE n
  <1>1. TypeOK /\ Asked(n) /\ rev \in Nat /\ rev + 1 \in Nat /\ MaxRev \in Nat
    BY KeyStoreAssumption DEF KubernetesInv, Core, TypeOK, AskedInv, Asked
  <1>2. next \subseteq Pc \ {"done", "granted"}
    BY DEF Pc
  <1>3. /\ call'[n].op = call[n].op
        /\ call'[n].pc = "granted" => Write(k, e) /\ call'[n].got = rev + 1
        /\ Write(k, e) \/ Kept
    BY <1>1, <1>2, GrantedIs
  <1>4. OpKey(n)' = k /\ Answering(n)' = [val |-> v, ver |-> call'[n].got, own |-> 0]
    BY <1>3 DEF OpKey, Answering
  <1>5. v \in Node \cup {None}
    OBVIOUS
  <1>6. Patches /\ Taken(n)'
    <2>1. CASE Kept
      <3>1. call'[n].pc # "granted"
        BY <1>1, <1>3, <2>1 DEF Kept, Write
      <3> QED BY <1>1, <2>1, <3>1, KeptPatches DEF Kept, Taken
    <2>2. CASE Write(k, e) /\ e = Entry(v, 0)
      <3> HIDE DEF v
      <3>1. e = [val |-> v, ver |-> rev + 1, own |-> 0] /\ e \in Item
        BY <1>1, <1>5, <2>2, KeyStoreAssumption DEF Entry, Item, Write
      <3>2. kv' \in [Key -> Item] /\ kv'[k] = e /\ rev' = rev + 1 /\ \A x \in Key \ {k} : kv'[x] = kv[x]
        BY <1>1, <2>2, <3>1 DEF Write, TypeOK
      <3>3. Patches
        BY <1>1, <2>2, <3>1, <3>2 DEF Patches, Write
      <3>4. call'[n].pc = "granted" => Agrees([val |-> v, ver |-> call'[n].got, own |-> 0], kv'[k])
        BY <1>1, <1>3, <3>1, <3>2 DEF Agrees
      <3> QED BY <1>4, <3>3, <3>4 DEF Taken
    <2> QED BY <1>3, <2>1, <2>2
  <1>7. Asked(n)'
    <2>1. CASE call'[n].pc = call[n].pc
      BY <1>1, <1>6, <2>1, PatchesEdit, AskedKept DEF Onward
    <2>2. CASE call'[n].pc # call[n].pc
      BY <2>2 DEF Onward, Asked
    <2> QED BY <2>1, <2>2
  <1> QED BY <1>6, <1>7 DEF KubernetesActs, Onward

\* An operation ends, or goes on to what asks for nothing.
LEMMA Resting ==
  ASSUME TypeOK, NEW n \in Node, NEW k \in Key, Acts(n, k), Kept, KubernetesPc(call'[n]), call'[n].pc \in {"done", "read"}
  PROVE  KubernetesActs(n)
  <1>1. Patches
    BY KeptPatches DEF Kept
  <1> QED BY <1>1 DEF KubernetesActs, Asked, Taken, Kept

\* An operation of Kubernetes begins, with the version that it saw.
LEMMA KubernetesStart ==
  ASSUME KubernetesInv, NEW n \in Node, Kubernetes!Start(n)
  PROVE  Resets(n) /\ KubernetesPc(call'[n]) /\ Asked(n)' /\ Taken(n)'
  <1>1. call[n].pc = "done" /\ kv' = kv /\ rev' = rev
    BY DEF Kubernetes!Start, Kubernetes!Begin, Kubernetes!store
  <1>2. /\ TypeOK /\ ObjectsInv /\ VersionInv /\ rev \in Nat /\ {"leader", "sync", "initialize"} \subseteq Key
        /\ \A k \in Key : kv[k].ver \in Nat /\ kv[k].ver <= rev
        /\ \A k \in Key : cache[n][k].ver \in Nat /\ Agrees(cache[n][k], kv[k])
        /\ Agrees(view[n]["initialize"], kv["initialize"]) /\ view[n]["initialize"].ver \in Nat
        /\ ~There(view[n]["leader"]) => Vacant(n, view[n]["leader"].ver, kv["leader"], rev)
    BY Versions, KeyFacts DEF KubernetesInv, Core, VersionInv, CacheInv, LoadedInv
  <1>3. PICK o, p, v :
          /\ call' = [call EXCEPT ![n] = [op |-> o, pc |-> p, ver |-> v, ret |-> "none", got |-> 0]]
          /\ \/ p = "patch" /\ o = "acquire" /\ v = view[n]["leader"].ver /\ ~There(view[n]["leader"])
             \/ p = "renew" /\ o = "update" /\ v = cache[n]["leader"].ver /\ cache[n]["leader"].val = n
             \/ p = "renew" /\ o = "update" /\ v = 0
             \/ p = "delete" /\ o = "release" /\ v = cache[n]["leader"].ver
             \/ p = "write" /\ o = "sync" /\ v = view[n]["sync"].ver
             \/ p = "erase" /\ o = "unsync" /\ v = view[n]["sync"].ver
             \/ p = "first" /\ o = "initialize" /\ v = view[n]["initialize"].ver /\ ~There(view[n]["initialize"])
             \/ p = "last" /\ o = "cancel" /\ v = 0
             \/ p = "touch" /\ o = "touch" /\ v = 0
    BY DEF Kubernetes!Start, Kubernetes!Begin, Kubernetes!SyncVersion, Kubernetes!MayAcquire, Kubernetes!InCache,
       Kubernetes!MayInitialize, Kubernetes!There, There
  <1> DEFINE c == [op |-> o, pc |-> p, ver |-> v, ret |-> "none", got |-> 0]
  <1>4. v \in 0 .. MaxRev
    <2>1. \A e \in Item : e.ver \in 0 .. MaxRev
      BY DEF Item
    <2>2. 0 \in 0 .. MaxRev
      BY KeyStoreAssumption
    <2>3. view[n] \in [Key -> Item] /\ cache[n] \in [Key -> Item]
      BY <1>2 DEF TypeOK
    <2> QED BY <1>2, <1>3, <2>1, <2>2, <2>3
  <1>5. c \in Call /\ c.pc # "granted" /\ c.ret = "none" /\ KubernetesPc(c)
    BY <1>3, <1>4 DEF Call, Pc, KubernetesPc
  <1>6. Resets(n) /\ call'[n] = c
    BY <1>1, <1>2, <1>3, <1>5, Beginning
  <1>7. p \in {"patch", "renew"} => Vacant(n, v, kv["leader"], rev)
    <2>1. CASE p = "patch"
      BY <1>2, <1>3, <2>1
    <2>2. CASE p = "renew" /\ v = cache[n]["leader"].ver /\ cache[n]["leader"].val = n
      BY <1>2, <2>2 DEF Agrees, Vacant, Owner
    <2>3. CASE p = "renew" /\ v = 0
      BY <1>2, <2>3 DEF Vacant, Owner, ObjectsInv, There
    <2> QED BY <1>3, <2>1, <2>2, <2>3
  <1>8. p = "first" => v <= rev /\ (v = kv["initialize"].ver => ~There(kv["initialize"]))
    BY <1>2, <1>3 DEF Agrees, There
  <1>9. Asked(n)' /\ Taken(n)'
    BY <1>1, <1>3, <1>6, <1>7, <1>8 DEF Asked, Taken
  <1> QED BY <1>5, <1>6, <1>9

\* A request to Kubernetes is a step of its operation.
LEMMA KubernetesRequest ==
  ASSUME KubernetesInv, NEW n \in Node, Kubernetes!Request(n)
  PROVE  KubernetesActs(n)
  <1>0. /\ backend = "kubernetes" /\ Core /\ TypeOK /\ KubernetesPc(call[n]) /\ Asked(n)
        /\ rev + 1 \in Nat /\ {"leader", "sync", "initialize", n} \subseteq Key
        /\ {} \subseteq Pc \ {"done", "granted"} /\ {"read"} \subseteq Pc \ {"done", "granted"}
    BY KeyFacts, KeyStoreAssumption DEF KubernetesInv, Core, TypeOK, AskedInv, Asked, Pc
  <1>1. ASSUME Kubernetes!Acquire(n) PROVE KubernetesActs(n)
    <2> DEFINE e == Entry(n, 0)
    <2>1. /\ call[n].pc = "patch" /\ Asks(n, "leader", e, {}, "granted", rev + 1)
          /\ Kept \/ (rev < MaxRev /\ call[n].ver = kv["leader"].ver)
      BY <1>1 DEF Kubernetes!Acquire, Kubernetes!PatchOver, Kubernetes!CompareAndSet, Kubernetes!Matches, Kubernetes!Object, Kubernetes!Granted,
         Kubernetes!Answer, Kubernetes!Repeat, Kubernetes!Goto, Kubernetes!Write, Kubernetes!Same, Kubernetes!At, Kubernetes!There,
         Kubernetes!store, Kubernetes!Raises, Kubernetes!Fails, Kubernetes!Once, Kubernetes!Entry,
         Entry, There, Asks, Quiet, Write, Answer, Goto, Grants, Goes, Kept
    <2>2. call[n].op \in {"acquire", "update"} /\ call[n].pc \notin {"done", "granted"}
      BY <1>0, <2>1 DEF KubernetesPc
    <2>3. OpKey(n) = "leader" /\ e = Entry(IF call[n].op \in {"release", "unsync", "cancel"} THEN None ELSE n, 0)
      BY <2>2, KeyFacts DEF OpKey
    <2>4. Kept \/ (Sound(e, n) /\ Owner(kv["leader"]) \in {None, n})
      BY <1>0, <2>1, Entries DEF Core, Asked, Vacant
    <2> HIDE DEF e
    <2>5. Acts(n, "leader") /\ Onward(n, {}, "granted")
      BY <1>0, <2>1, <2>2, <2>4, LeaderActs, KeyFacts DEF LeaderOps
    <2>6. KubernetesPc(call'[n])
      BY <1>0, <2>1, <2>2, <2>5 DEF KubernetesPc, Onward
    <2> QED BY <1>0, <2>1, <2>2, <2>3, <2>5, <2>6, Patching
  <1>2. ASSUME Kubernetes!Renew(n) PROVE KubernetesActs(n)
    <2> DEFINE e == Entry(n, 0)
    <2>1. /\ call[n].pc = "renew" /\ Asks(n, "leader", e, {"read"}, "granted", rev + 1)
          /\ Kept \/ (rev < MaxRev /\ call[n].ver = kv["leader"].ver)
      BY <1>2 DEF Kubernetes!Renew, Kubernetes!PatchOver, Kubernetes!CompareAndSet, Kubernetes!Matches, Kubernetes!Object, Kubernetes!Granted,
         Kubernetes!Answer, Kubernetes!Repeat, Kubernetes!Goto, Kubernetes!Write, Kubernetes!Same, Kubernetes!At, Kubernetes!There,
         Kubernetes!store, Kubernetes!Raises, Kubernetes!Fails, Kubernetes!Once, Kubernetes!Entry,
         Entry, There, Asks, Quiet, Write, Answer, Goto, Grants, Goes, Kept
    <2>2. call[n].op \in {"acquire", "update"} /\ call[n].pc \notin {"done", "granted"}
      BY <1>0, <2>1 DEF KubernetesPc
    <2>3. OpKey(n) = "leader" /\ e = Entry(IF call[n].op \in {"release", "unsync", "cancel"} THEN None ELSE n, 0)
      BY <2>2, KeyFacts DEF OpKey
    <2>4. Kept \/ (Sound(e, n) /\ Owner(kv["leader"]) \in {None, n})
      BY <1>0, <2>1, Entries DEF Core, Asked, Vacant
    <2> HIDE DEF e
    <2>5. Acts(n, "leader") /\ Onward(n, {"read"}, "granted")
      BY <1>0, <2>1, <2>2, <2>4, LeaderActs, KeyFacts DEF LeaderOps
    <2>6. KubernetesPc(call'[n])
      BY <1>0, <2>1, <2>2, <2>5 DEF KubernetesPc, Onward
    <2> QED BY <1>0, <2>1, <2>2, <2>3, <2>5, <2>6, Patching
  <1>3. ASSUME Kubernetes!Delete(n) PROVE KubernetesActs(n)
    <2> DEFINE e == Entry(None, 0)
    <2>1. /\ call[n].pc = "delete" /\ Asks(n, "leader", e, {}, "granted", rev + 1)
          /\ Kept \/ (rev < MaxRev)
      BY <1>3 DEF Kubernetes!Delete, Kubernetes!PatchOver, Kubernetes!CompareAndSet, Kubernetes!Matches, Kubernetes!Object, Kubernetes!Granted,
         Kubernetes!Answer, Kubernetes!Repeat, Kubernetes!Goto, Kubernetes!Write, Kubernetes!Same, Kubernetes!At, Kubernetes!There,
         Kubernetes!store, Kubernetes!Raises, Kubernetes!Fails, Kubernetes!Once, Kubernetes!Entry,
         Entry, There, Asks, Quiet, Write, Answer, Goto, Grants, Goes, Kept
    <2>2. call[n].op = "release" /\ call[n].pc \notin {"done", "granted"}
      BY <1>0, <2>1 DEF KubernetesPc
    <2>3. OpKey(n) = "leader" /\ e = Entry(IF call[n].op \in {"release", "unsync", "cancel"} THEN None ELSE n, 0)
      BY <2>2, KeyFacts DEF OpKey
    <2>4. Kept \/ (Sound(e, None))
      BY <1>0, <2>1, Entries DEF Core
    <2> HIDE DEF e
    <2>5. Acts(n, "leader") /\ Onward(n, {}, "granted")
      BY <1>0, <2>1, <2>2, <2>4, OtherActs, KeyFacts DEF LeaderOps
    <2>6. KubernetesPc(call'[n])
      BY <1>0, <2>1, <2>2, <2>5 DEF KubernetesPc, Onward
    <2> QED BY <1>0, <2>1, <2>2, <2>3, <2>5, <2>6, Patching
  <1>4. ASSUME Kubernetes!WriteSync(n) PROVE KubernetesActs(n)
    <2> DEFINE e == Entry(n, 0)
    <2>1. /\ call[n].pc = "write" /\ Asks(n, "sync", e, {}, "granted", rev + 1)
          /\ Kept \/ (rev < MaxRev /\ call[n].ver = kv["sync"].ver)
      BY <1>4 DEF Kubernetes!WriteSync, Kubernetes!PatchOver, Kubernetes!CompareAndSet, Kubernetes!Matches, Kubernetes!Object, Kubernetes!Granted,
         Kubernetes!Answer, Kubernetes!Repeat, Kubernetes!Goto, Kubernetes!Write, Kubernetes!Same, Kubernetes!At, Kubernetes!There,
         Kubernetes!store, Kubernetes!Raises, Kubernetes!Fails, Kubernetes!Once, Kubernetes!Entry,
         Entry, There, Asks, Quiet, Write, Answer, Goto, Grants, Goes, Kept
    <2>2. call[n].op = "sync" /\ call[n].pc \notin {"done", "granted"}
      BY <1>0, <2>1 DEF KubernetesPc
    <2>3. OpKey(n) = "sync" /\ e = Entry(IF call[n].op \in {"release", "unsync", "cancel"} THEN None ELSE n, 0)
      BY <2>2, KeyFacts DEF OpKey
    <2>4. Kept \/ (Sound(e, n) /\ e # kv["sync"] /\ rev + 1 = e.ver /\ kv["sync"].ver = call[n].ver)
      BY <1>0, <2>1, Entries DEF Core
    <2> HIDE DEF e
    <2>5. Acts(n, "sync") /\ Onward(n, {}, "granted")
      BY <1>0, <2>1, <2>2, <2>4, SyncActs, KeyFacts DEF LeaderOps
    <2>6. KubernetesPc(call'[n])
      BY <1>0, <2>1, <2>2, <2>5 DEF KubernetesPc, Onward
    <2> QED BY <1>0, <2>1, <2>2, <2>3, <2>5, <2>6, Patching
  <1>5. ASSUME Kubernetes!DeleteSync(n) PROVE KubernetesActs(n)
    <2> DEFINE e == Entry(None, 0)
    <2>1. /\ call[n].pc = "erase" /\ Asks(n, "sync", e, {}, "granted", rev + 1)
          /\ Kept \/ (rev < MaxRev)
      BY <1>5 DEF Kubernetes!DeleteSync, Kubernetes!PatchOver, Kubernetes!CompareAndSet, Kubernetes!Matches, Kubernetes!Object, Kubernetes!Granted,
         Kubernetes!Answer, Kubernetes!Repeat, Kubernetes!Goto, Kubernetes!Write, Kubernetes!Same, Kubernetes!At, Kubernetes!There,
         Kubernetes!store, Kubernetes!Raises, Kubernetes!Fails, Kubernetes!Once, Kubernetes!Entry,
         Entry, There, Asks, Quiet, Write, Answer, Goto, Grants, Goes, Kept
    <2>2. call[n].op = "unsync" /\ call[n].pc \notin {"done", "granted"}
      BY <1>0, <2>1 DEF KubernetesPc
    <2>3. OpKey(n) = "sync" /\ e = Entry(IF call[n].op \in {"release", "unsync", "cancel"} THEN None ELSE n, 0)
      BY <2>2, KeyFacts DEF OpKey
    <2>4. Kept \/ (Sound(e, None))
      BY <1>0, <2>1, Entries DEF Core
    <2> HIDE DEF e
    <2>5. Acts(n, "sync") /\ Onward(n, {}, "granted")
      BY <1>0, <2>1, <2>2, <2>4, OtherActs, KeyFacts DEF LeaderOps
    <2>6. KubernetesPc(call'[n])
      BY <1>0, <2>1, <2>2, <2>5 DEF KubernetesPc, Onward
    <2> QED BY <1>0, <2>1, <2>2, <2>3, <2>5, <2>6, Patching
  <1>6. ASSUME Kubernetes!Initialize(n) PROVE KubernetesActs(n)
    <2> DEFINE e == Entry(n, 0)
    <2>1. /\ call[n].pc = "first" /\ Asks(n, "initialize", e, {}, "granted", rev + 1)
          /\ Kept \/ (rev < MaxRev /\ call[n].ver = kv["initialize"].ver)
      BY <1>6 DEF Kubernetes!Initialize, Kubernetes!PatchOver, Kubernetes!CompareAndSet, Kubernetes!Matches, Kubernetes!Object, Kubernetes!Granted,
         Kubernetes!Answer, Kubernetes!Repeat, Kubernetes!Goto, Kubernetes!Write, Kubernetes!Same, Kubernetes!At, Kubernetes!There,
         Kubernetes!store, Kubernetes!Raises, Kubernetes!Fails, Kubernetes!Once, Kubernetes!Entry,
         Entry, There, Asks, Quiet, Write, Answer, Goto, Grants, Goes, Kept
    <2>2. call[n].op = "initialize" /\ call[n].pc \notin {"done", "granted"}
      BY <1>0, <2>1 DEF KubernetesPc
    <2>3. OpKey(n) = "initialize" /\ e = Entry(IF call[n].op \in {"release", "unsync", "cancel"} THEN None ELSE n, 0)
      BY <2>2, KeyFacts DEF OpKey
    <2>4. Kept \/ (Sound(e, n) /\ e # kv["initialize"] /\ ~There(kv["initialize"]))
      BY <1>0, <2>1, Entries DEF Core, Asked, Vacant
    <2> HIDE DEF e
    <2>5. Acts(n, "initialize") /\ Onward(n, {}, "granted")
      BY <1>0, <2>1, <2>2, <2>4, InitializeActs, KeyFacts DEF LeaderOps
    <2>6. KubernetesPc(call'[n])
      BY <1>0, <2>1, <2>2, <2>5 DEF KubernetesPc, Onward
    <2> QED BY <1>0, <2>1, <2>2, <2>3, <2>5, <2>6, Patching
  <1>7. ASSUME Kubernetes!CancelInitialization(n) PROVE KubernetesActs(n)
    <2> DEFINE e == Entry(None, 0)
    <2>1. /\ call[n].pc = "last" /\ Asks(n, "initialize", e, {}, "granted", rev + 1)
          /\ Kept \/ (rev < MaxRev)
      BY <1>7 DEF Kubernetes!CancelInitialization, Kubernetes!PatchOver, Kubernetes!CompareAndSet, Kubernetes!Matches, Kubernetes!Object, Kubernetes!Granted,
         Kubernetes!Answer, Kubernetes!Repeat, Kubernetes!Goto, Kubernetes!Write, Kubernetes!Same, Kubernetes!At, Kubernetes!There,
         Kubernetes!store, Kubernetes!Raises, Kubernetes!Fails, Kubernetes!Once, Kubernetes!Entry,
         Entry, There, Asks, Quiet, Write, Answer, Goto, Grants, Goes, Kept
    <2>2. call[n].op = "cancel" /\ call[n].pc \notin {"done", "granted"}
      BY <1>0, <2>1 DEF KubernetesPc
    <2>3. OpKey(n) = "initialize" /\ e = Entry(IF call[n].op \in {"release", "unsync", "cancel"} THEN None ELSE n, 0)
      BY <2>2, KeyFacts DEF OpKey
    <2>4. Kept \/ (Sound(e, None))
      BY <1>0, <2>1, Entries DEF Core
    <2> HIDE DEF e
    <2>5. Acts(n, "initialize") /\ Onward(n, {}, "granted")
      BY <1>0, <2>1, <2>2, <2>4, OtherActs, KeyFacts DEF LeaderOps
    <2>6. KubernetesPc(call'[n])
      BY <1>0, <2>1, <2>2, <2>5 DEF KubernetesPc, Onward
    <2> QED BY <1>0, <2>1, <2>2, <2>3, <2>5, <2>6, Patching
  <1>8. ASSUME Kubernetes!TouchMember(n) PROVE KubernetesActs(n)
    <2> DEFINE e == Entry(n, 0)
    <2>1. /\ call[n].pc = "touch"
          /\ \/ Asks(n, n, e, {}, "granted", rev + 1) /\ (Kept \/ rev < MaxRev)
             \/ Answer(n, "true", 0) /\ Kept
      BY <1>8 DEF Kubernetes!TouchMember, Kubernetes!PatchOver, Kubernetes!CompareAndSet, Kubernetes!Matches, Kubernetes!Object, Kubernetes!Granted,
         Kubernetes!Answer, Kubernetes!Repeat, Kubernetes!Goto, Kubernetes!Write, Kubernetes!Same, Kubernetes!At, Kubernetes!There,
         Kubernetes!store, Kubernetes!Raises, Kubernetes!Fails, Kubernetes!Once, Kubernetes!Entry,
         Entry, There, Asks, Quiet, Write, Answer, Goto, Grants, Goes, Kept
    <2>2. call[n].op = "touch" /\ call[n].pc \notin {"done", "granted"}
      BY <1>0, <2>1 DEF KubernetesPc
    <2>3. OpKey(n) = n /\ e = Entry(IF call[n].op \in {"release", "unsync", "cancel"} THEN None ELSE n, 0)
      BY <2>2 DEF OpKey
    <2>4. Kept \/ rev >= MaxRev \/ Sound(e, n)
      BY <1>0, Entries, KeyStoreAssumption DEF Core, TypeOK
    <2> HIDE DEF e
    <2>5. CASE Asks(n, n, e, {}, "granted", rev + 1) /\ (Kept \/ rev < MaxRev)
      <3>1. Kept \/ Sound(e, n)
        BY <1>0, <2>4, <2>5, KeyStoreAssumption DEF TypeOK
      <3>2. Acts(n, n) /\ Onward(n, {}, "granted")
        BY <1>0, <2>2, <2>5, <3>1, TouchActs
      <3>3. KubernetesPc(call'[n])
        BY <1>0, <2>1, <2>2, <3>2 DEF KubernetesPc, Onward
      <3> QED BY <1>0, <2>2, <2>3, <2>5, <3>2, <3>3, Patching
    <2>6. CASE Answer(n, "true", 0) /\ Kept
      <3>1. Moves(n) /\ call'[n].op = call[n].op /\ call'[n].pc = "done"
        <4>1. call \in [Node -> Call] /\ 0 \in Nat
          BY <1>0 DEF TypeOK
        <4>2. Moves(n) /\ call'[n] = [op |-> call[n].op, pc |-> "done", ver |-> call[n].ver, ret |-> "true", got |-> 0]
          BY <2>2, <2>6, <4>1, Answers
        <4> QED BY <4>2
      <3>2. Acts(n, n)
        BY <1>0, <2>2, <2>6, <3>1, LooseActs DEF LeaderOps, Kept
      <3>3. KubernetesPc(call'[n])
        BY <3>1 DEF KubernetesPc
      <3> QED BY <1>0, <2>6, <3>1, <3>2, <3>3, Resting
    <2> QED BY <2>1, <2>5, <2>6
  <1> QED BY <1>1, <1>2, <1>3, <1>4, <1>5, <1>6, <1>7, <1>8 DEF Kubernetes!Request

\* The object is read, and the leader tries again with its version, if that is another.
LEMMA KubernetesRead ==
  ASSUME KubernetesInv, NEW n \in Node, Kubernetes!Read(n)
  PROVE  KubernetesActs(n) /\ Watched' /\ cache' \in [Node -> [Key -> Item]] /\ kv' = kv
  <1>1. /\ call[n].pc = "read" /\ Kept /\ UNCHANGED <<stream, seen>>
        /\ \/ Quiet(n, {}) /\ UNCHANGED cache
           \/ /\ cache' = [cache EXCEPT ![n] = Kubernetes!Newer(cache[n], [k \in {"leader"} |-> Kubernetes!Unmarked(kv)[k]])]
              /\ \/ Quiet(n, {})
                 \/ kv["leader"].val = n /\ Turns(n, "patch", kv["leader"].ver)
    BY DEF Kubernetes!Read, Kubernetes!At, Kubernetes!Raises, Kubernetes!Once, Kubernetes!Repeat, Kubernetes!Answer, Kubernetes!store,
       Quiet, Answer, Turns, Kept
  <1>2. /\ backend = "kubernetes" /\ Core /\ TypeOK /\ VersionInv /\ ObjectsInv /\ Watched /\ KubernetesPc(call[n]) /\ Asked(n)
        /\ "leader" \in Key /\ {} \subseteq Pc \ {"done", "granted"}
    BY KeyFacts DEF KubernetesInv, Core, AskedInv, Asked, Watched
  <1>3. call[n].op = "update"
    BY <1>1, <1>2 DEF KubernetesPc
  <1>4. Watched' /\ cache' \in [Node -> [Key -> Item]]
    <2>1. CASE UNCHANGED cache
      BY <1>1, <1>2, <2>1 DEF Watched, StreamInv, CacheInv, DeliveriesInv, Kept, TypeOK
    <2>2. CASE cache' = [cache EXCEPT ![n] = Kubernetes!Newer(cache[n], [k \in {"leader"} |-> Kubernetes!Unmarked(kv)[k]])]
      <3> DEFINE e == Kubernetes!Unmarked(kv)["leader"]
      <3>1. e \in Item /\ Agrees(e, kv["leader"]) /\ e.own = 0
        BY <1>2, UnmarkedIs
      <3>2. [k \in {"leader"} |-> Kubernetes!Unmarked(kv)[k]] = [k \in {"leader"} |-> e]
        OBVIOUS
      <3>3. cache' = [cache EXCEPT ![n] = Kubernetes!Newer(cache[n], [k \in {"leader"} |-> e])]
        BY <2>2, <3>2
      <3> HIDE DEF e
      <3> QED BY <1>1, <1>2, <3>1, <3>3, ObjectTaken DEF Kept
    <2> QED BY <1>1, <2>1, <2>2
  <1>5. KubernetesActs(n)
    <2>1. CASE Quiet(n, {})
      <3>1. Acts(n, "leader") /\ call'[n].pc \in {call[n].pc, "done"} /\ call'[n].op = call[n].op
        BY <1>1, <1>2, <2>1, MoveActs DEF Kept
      <3>2. KubernetesPc(call'[n])
        BY <1>1, <1>3, <3>1 DEF KubernetesPc
      <3> QED BY <1>1, <1>2, <3>1, <3>2, Resting
    <2>2. CASE kv["leader"].val = n /\ Turns(n, "patch", kv["leader"].ver)
      <3>1. "patch" \in Pc /\ kv["leader"].ver \in 0 .. MaxRev /\ call \in [Node -> Call]
        BY <1>2 DEF Pc, TypeOK, Item
      <3>2. /\ Moves(n)
            /\ call'[n] = [op |-> call[n].op, pc |-> "patch", ver |-> kv["leader"].ver, ret |-> call[n].ret, got |-> call[n].got]
        BY <1>1, <1>3, <2>2, <3>1, Turning
      <3>3. Acts(n, "leader")
        BY <1>1, <1>2, <3>2, KeptDrops DEF Acts, Told, Kept
      <3>4. KubernetesPc(call'[n]) /\ Patches
        BY <1>1, <1>2, <1>3, <3>2, KeptPatches DEF KubernetesPc, Kept
      <3>5. Asked(n)' /\ Taken(n)'
        BY <1>1, <1>2, <2>2, <3>2 DEF Asked, Taken, Vacant, Owner, VersionInv, Kept
      <3> QED BY <1>1, <1>2, <3>3, <3>4, <3>5 DEF KubernetesActs, Kept
    <2> QED BY <1>1, <2>1, <2>2
  <1> QED BY <1>1, <1>4, <1>5 DEF Kept

\* The answer goes to the cache.
LEMMA KubernetesCache ==
  ASSUME KubernetesInv, NEW n \in Node, Kubernetes!Cache(n)
  PROVE  KubernetesActs(n) /\ Watched' /\ cache' \in [Node -> [Key -> Item]] /\ kv' = kv
  <1>1. /\ call[n].pc = "granted" /\ Kept /\ UNCHANGED <<stream, seen>>
        /\ Answer(n, "true", call[n].got)
        /\ cache' = [cache EXCEPT ![n] = Kubernetes!Newer(cache[n], [k \in {OpKey(n)} |-> Answering(n)])]
    BY DEF Kubernetes!Cache, Kubernetes!At, Kubernetes!Answer, Kubernetes!store, Kubernetes!OpKey, OpKey, Answering, Answer, Kept
  <1>2. /\ Core /\ TypeOK /\ Watched /\ "leader" \in Key /\ OpKey(n) \in Key
    BY KeyFacts DEF KubernetesInv, Core, Watched, OpKey
  <1>3. Agrees(Answering(n), kv[OpKey(n)]) /\ Answering(n) \in Item /\ Answering(n).own = 0
    <2> DEFINE k == OpKey(n)
               v == IF call[n].op \in {"release", "unsync", "cancel"} THEN None ELSE n
    <2>1. Agrees(Answering(n), kv[k])
      BY <1>1 DEF KubernetesInv, AnsweredInv
    <2>2. Answering(n) = [val |-> v, ver |-> call[n].got, own |-> 0] /\ v \in Node \cup {None}
      BY DEF Answering
    <2> HIDE DEF k, v
    <2>3. call[n].got <= kv[k].ver
      BY <2>1, <2>2 DEF Agrees
    <2>4. kv[k] \in Item /\ call[n].got \in Nat
      BY <1>2, Versions DEF TypeOK, k
    <2>5. call[n].got \in 0 .. MaxRev
      BY <2>3, <2>4, KeyStoreAssumption DEF Item
    <2> QED BY <2>1, <2>2, <2>5 DEF Item, k
  <1>4. Watched' /\ cache' \in [Node -> [Key -> Item]]
    BY <1>1, <1>2, <1>3, ObjectTaken DEF Kept
  <1>5. call \in [Node -> Call] /\ call[n].got \in Nat /\ call[n].pc # "done"
    BY <1>1, <1>2 DEF TypeOK, Call
  <1>6. Moves(n) /\ call'[n] = [op |-> call[n].op, pc |-> "done", ver |-> call[n].ver, ret |-> "true", got |-> call[n].got]
    BY <1>1, <1>5, Answers
  <1>7. Shown(n, call'[n].got)
    <2>1. Shown(n, call[n].got)
      BY <1>1, <1>2 DEF Core, ToldInv, Told
    <2> QED BY <1>6, <2>1
  <1>8. Acts(n, "leader")
    BY <1>1, <1>2, <1>6, <1>7, KeptDrops DEF Acts, Kept
  <1>9. KubernetesPc(call'[n]) /\ call'[n].pc = "done"
    BY <1>6 DEF KubernetesPc
  <1>10. KubernetesActs(n)
    BY <1>1, <1>2, <1>8, <1>9, Resting
  <1> QED BY <1>1, <1>4, <1>10 DEF Kept

\* The cluster as it is cached; the leader is gone, or its object may have changed since.
LEMMA KubernetesLoad ==
  ASSUME KubernetesInv, NEW n \in Node, Kubernetes!Load(n)
  PROVE  Resets(n) /\ call'[n] = Idle /\ view' \in [Node -> [Key -> Item]] /\ LoadedInv'
  <1>1. PICK gone \in BOOLEAN :
          /\ gone => kv["leader"].own = Lapsed \/ cache[n]["leader"].ver # kv["leader"].ver
          /\ view' = [view EXCEPT ![n] = IF gone THEN [cache[n] EXCEPT !["leader"] = [cache[n]["leader"] EXCEPT !.val = None]] ELSE cache[n]]
          /\ call[n].pc = "done" /\ kv' = kv /\ rev' = rev
          /\ call' = [call EXCEPT ![n] = Idle]
    BY DEF Kubernetes!Load, Kubernetes!Cached, Kubernetes!Lapsed, Lapsed, Kubernetes!Idle, Idle, Kubernetes!store
  <1> DEFINE l == [cache[n]["leader"] EXCEPT !.val = None]
             g == [cache[n] EXCEPT !["leader"] = l]
             w == IF gone THEN g ELSE cache[n]
  <1>2. /\ TypeOK /\ VersionInv /\ CacheInv /\ LoadedInv /\ {"leader", "sync", "initialize"} \subseteq Key
        /\ cache[n] \in [Key -> Item] /\ view \in [Node -> [Key -> Item]] /\ cache[n]["leader"] \in Item
    BY KeyFacts DEF KubernetesInv, Core, TypeOK
  <1>3. l \in Item /\ l.ver = cache[n]["leader"].ver
    BY <1>2 DEF Item
  <1> HIDE DEF l
  <1>4. g \in [Key -> Item] /\ g["leader"] = l /\ g["initialize"] = cache[n]["initialize"]
    BY <1>2, <1>3
  <1> HIDE DEF g
  <1>5. w \in [Key -> Item] /\ w["initialize"] = cache[n]["initialize"] /\ w["leader"].ver = cache[n]["leader"].ver
        /\ (w["leader"] = cache[n]["leader"] \/ gone)
    BY <1>2, <1>3, <1>4
  <1>6. view' = [view EXCEPT ![n] = w]
    BY <1>1 DEF g, l
  <1> HIDE DEF w
  <1>7. view' \in [Node -> [Key -> Item]] /\ view'[n] = w /\ \A m \in Node \ {n} : view'[m] = view[m]
    BY <1>2, <1>5, <1>6
  <1>8. Resets(n) /\ call'[n] = Idle
    BY <1>1, <1>2, IdleIs, Beginning
  <1>9. Agrees(w["initialize"], kv["initialize"])
    BY <1>2, <1>5 DEF CacheInv
  <1>10. ~There(w["leader"]) => Vacant(n, w["leader"].ver, kv["leader"], rev)
    <2>1. /\ cache[n]["leader"].ver \in Nat /\ kv["leader"].ver \in Nat /\ rev \in Nat
          /\ cache[n]["leader"].ver <= kv["leader"].ver /\ kv["leader"].ver <= rev
          /\ (cache[n]["leader"].ver = kv["leader"].ver => cache[n]["leader"].val = kv["leader"].val)
      BY <1>2, Versions DEF CacheInv, VersionInv, Agrees
    <2> QED BY <1>1, <1>5, <2>1 DEF Vacant, There, Owner
  <1>11. LoadedInv'
    BY <1>1, <1>2, <1>7, <1>9, <1>10 DEF LoadedInv, There
  <1> QED BY <1>7, <1>8, <1>11

\* Every step of Kubernetes keeps its invariant and is a step of the abstract key.
LEMMA KubernetesStep ==
  ASSUME KubernetesInv, Kubernetes!Next, UNCHANGED backend
  PROVE  KubernetesInv' /\ (K!Next \/ UNCHANGED K!vars)
  <1>0. Observe
    <2>1. Kubernetes!Observe
      BY DEF Kubernetes!Next
    <2> QED BY <2>1 DEF Kubernetes!Observe, Kubernetes!Began, Kubernetes!Holds, Kubernetes!Wrote, Kubernetes!Wins, Kubernetes!GivesUp,
          Kubernetes!There, Kubernetes!Lapsed, Observe, Began, Holds, Wrote, Wins, GivesUp, There, Lapsed
  <1> DEFINE Goal == /\ Rest
                     /\ Waits \/ \E n \in Node : Resets(n) \/ \E k \in Key : Acts(n, k)
                     /\ \A n \in Node : KubernetesPc(call'[n])
                     /\ ObjectsInv' /\ Watched' /\ LoadedInv'
                     /\ \A n \in Node : Asked(n)' /\ Taken(n)'
  <1>1. /\ TypeOK /\ Core /\ VersionInv /\ ObjectsInv /\ Watched /\ LoadedInv
        /\ \A n \in Node : KubernetesPc(call[n]) /\ Asked(n) /\ Taken(n)
    BY DEF KubernetesInv, Core, Watched, AskedInv, Asked, AnsweredInv, Taken
  <1>2. ASSUME Goal PROVE KubernetesInv' /\ (K!Next \/ UNCHANGED K!vars)
    <2>1. Core' /\ (K!Next \/ UNCHANGED K!vars)
      BY <1>0, <1>1, <1>2, CoreStep
    <2>2. AskedInv' /\ AnsweredInv'
      BY <1>2 DEF AskedInv, Asked, AnsweredInv, Taken
    <2> QED BY <1>2, <2>1, <2>2 DEF KubernetesInv, Watched
  <1>3. CASE Kubernetes!Lapses
    <2>1. /\ UNCHANGED <<rev, live, sess, view, call, stream, seen, cache>>
          /\ kv' = [kv EXCEPT !["leader"] = [kv["leader"] EXCEPT !.own = Lapsed]]
      BY <1>3 DEF Kubernetes!Lapses, Kubernetes!watcher, Kubernetes!Lapsed, Lapsed
    <2> DEFINE l == [kv["leader"] EXCEPT !.own = Lapsed]
    <2>2. kv["leader"] \in Item /\ kv \in [Key -> Item] /\ "leader" \in Key /\ rev \in 0 .. MaxRev /\ rev \in Nat
          /\ \A k \in Key : kv[k].ver \in Nat
      BY <1>1, KeyFacts, Versions DEF TypeOK
    <2>3. l \in Item /\ l.own = Lapsed /\ l.val = kv["leader"].val /\ l.ver = kv["leader"].ver
      BY <2>2 DEF Item
    <2>4. kv' = [kv EXCEPT !["leader"] = l]
      BY <2>1
    <2> HIDE DEF l
    <2>5. kv' \in [Key -> Item] /\ kv'["leader"] = l /\ \A k \in Key \ {"leader"} : kv'[k] = kv[k]
      BY <2>2, <2>3, <2>4
    <2>6. Edits
      BY <2>1, <2>2, <2>3, <2>5 DEF Edits
    <2>7. Drops
      BY <2>1, <2>2, <2>3, <2>5 DEF Drops, Owner
    <2>8. ObjectsInv' /\ LoadedInv' /\ \A n \in Node : Asked(n)' /\ Taken(n)'
      BY <1>1, <2>1, <2>6, ObjectsKept, LoadedKept, CallKept
    <2>9. \A k \in Key : kv'[k].ver = kv[k].ver /\ kv'[k].val = kv[k].val
      BY <2>3, <2>5
    <2>10. Watched'
      BY <1>1, <2>1, <2>6, <2>9, WatchedTold
    <2>11. Rest
      BY <1>1, <2>1 DEF Rest, TypeOK
    <2>12. Goal
      BY <1>1, <2>1, <2>7, <2>8, <2>10, <2>11 DEF Waits
    <2> HIDE DEF Goal
    <2> QED BY <1>2, <2>12
  <1>4. ASSUME NEW n \in Node, KubernetesActs(n), UNCHANGED <<sess, view>>, Watched',
               seen' \in [Node -> [Key -> Item]], cache' \in [Node -> [Key -> Item]]
        PROVE  Goal
    <2>1. PICK k \in Key : Acts(n, k)
      BY <1>4 DEF KubernetesActs
    <2>2. \A m \in Node \ {n} : call'[m] = call[m]
      BY <2>1 DEF Acts, Moves
    <2>3. Edits
      BY <1>4, PatchesEdit DEF KubernetesActs
    <2>4. ObjectsInv' /\ LoadedInv'
      BY <1>1, <1>4, <2>3, ObjectsKept, LoadedKept
    <2>5. ASSUME NEW m \in Node PROVE KubernetesPc(call'[m]) /\ Asked(m)' /\ Taken(m)'
      <3>1. CASE m = n
        BY <1>4, <3>1 DEF KubernetesActs
      <3>2. CASE m # n
        BY <1>1, <2>2, <2>3, <3>2, CallKept
      <3> QED BY <3>1, <3>2
    <2>6. Rest
      BY <1>1, <1>4 DEF Rest, TypeOK, KubernetesActs
    <2> QED BY <1>4, <2>1, <2>4, <2>5, <2>6
  <1>5. ASSUME NEW n \in Node, Kubernetes!Request(n) PROVE Goal
    <2>1. UNCHANGED <<sess, view, seen, cache>> /\ Publish
      BY <1>5 DEF Kubernetes!Request, Kubernetes!Publish, Publish, Kubernetes!Changes, Changes, Kubernetes!Key, Key
    <2>2. KubernetesActs(n)
      BY <1>5, KubernetesRequest
    <2>3. Watched'
      BY <1>1, <2>1, <2>2, PatchesEdit, WatchedTold DEF KubernetesActs
    <2>4. seen' \in [Node -> [Key -> Item]] /\ cache' \in [Node -> [Key -> Item]]
      BY <1>1, <2>1 DEF TypeOK
    <2> QED BY <1>4, <2>1, <2>2, <2>3, <2>4
  <1>6. ASSUME NEW n \in Node, Kubernetes!Read(n) \/ Kubernetes!Cache(n) PROVE Goal
    <2>1. KubernetesActs(n) /\ Watched' /\ cache' \in [Node -> [Key -> Item]]
      BY <1>6, KubernetesRead, KubernetesCache
    <2>2. UNCHANGED <<sess, view, seen>>
      BY <1>6 DEF Kubernetes!Read, Kubernetes!Cache
    <2>3. seen' \in [Node -> [Key -> Item]]
      BY <1>1, <2>2 DEF TypeOK
    <2> QED BY <1>4, <2>1, <2>2, <2>3
  <1>7. ASSUME NEW n \in Node, Resets(n), UNCHANGED <<live, sess, stream, seen, cache>>, KubernetesPc(call'[n]), Asked(n)', Taken(n)',
               view' \in [Node -> [Key -> Item]], LoadedInv'
        PROVE  Goal
    <2>1. kv' = kv /\ rev' = rev /\ \A m \in Node \ {n} : call'[m] = call[m]
      BY <1>7 DEF Resets
    <2>2. Edits
      BY <1>1, <2>1, KeptPatches, PatchesEdit
    <2>3. ObjectsInv' /\ Watched'
      BY <1>1, <1>7, <2>1, <2>2, ObjectsKept, WatchedTold
    <2>4. ASSUME NEW m \in Node PROVE KubernetesPc(call'[m]) /\ Asked(m)' /\ Taken(m)'
      <3>1. CASE m = n
        BY <1>7, <3>1
      <3>2. CASE m # n
        BY <1>1, <2>1, <2>2, <3>2, CallKept
      <3> QED BY <3>1, <3>2
    <2>5. Rest
      BY <1>1, <1>7 DEF Rest, TypeOK
    <2> QED BY <1>7, <2>3, <2>4, <2>5
  <1>8. ASSUME NEW n \in Node, Kubernetes!Load(n) PROVE Goal
    <2>1. UNCHANGED <<live, sess, stream, seen, cache>>
      BY <1>8 DEF Kubernetes!Load, Kubernetes!store, Kubernetes!watcher
    <2>2. Resets(n) /\ call'[n] = Idle /\ view' \in [Node -> [Key -> Item]] /\ LoadedInv'
      BY <1>8, KubernetesLoad
    <2>3. KubernetesPc(call'[n]) /\ Asked(n)' /\ Taken(n)'
      BY <2>2, IdleIs DEF KubernetesPc, Asked, Taken
    <2> QED BY <1>7, <2>1, <2>2, <2>3
  <1>9. ASSUME NEW n \in Node, Kubernetes!Start(n) PROVE Goal
    <2>1. UNCHANGED <<live, sess, view, stream, seen, cache>>
      BY <1>9 DEF Kubernetes!Start, Kubernetes!store, Kubernetes!watcher
    <2>2. Resets(n) /\ KubernetesPc(call'[n]) /\ Asked(n)' /\ Taken(n)'
      BY <1>9, KubernetesStart
    <2>3. view' \in [Node -> [Key -> Item]] /\ LoadedInv'
      BY <1>1, <2>1, <2>2 DEF TypeOK, LoadedInv, Resets
    <2> QED BY <1>7, <2>1, <2>2, <2>3
  <1>10. ASSUME NEW n \in Node, Kubernetes!ProcessEvent(n) \/ Kubernetes!BuildCache(n) PROVE Goal
    <2>1. UNCHANGED <<kv, rev, live, sess, view, call>>
      BY <1>10 DEF Kubernetes!ProcessEvent, Kubernetes!BuildCache, Kubernetes!store
    <2>2. Watched' /\ seen' \in [Node -> [Key -> Item]] /\ cache' \in [Node -> [Key -> Item]]
      BY <1>1, <1>10, DeliveryTaken, CacheRead
    <2>3. Edits /\ Drops
      BY <1>1, <2>1, KeptPatches, PatchesEdit, KeptDrops
    <2>4. ObjectsInv' /\ LoadedInv' /\ \A m \in Node : Asked(m)' /\ Taken(m)'
      BY <1>1, <2>1, <2>3, ObjectsKept, LoadedKept, CallKept
    <2>5. Rest
      BY <1>1, <2>1, <2>2 DEF Rest, TypeOK
    <2> QED BY <1>1, <2>1, <2>2, <2>3, <2>4, <2>5 DEF Waits
  <1> HIDE DEF Goal
  <1>11. CASE ~Kubernetes!Lapses
    <2>1. Goal
      BY <1>5, <1>6, <1>8, <1>9, <1>10, <1>11 DEF Kubernetes!Next
    <2> QED BY <1>2, <2>1
  <1> QED BY <1>3, <1>11

-----------------------------------------------------------------------------
(* All of them *)

\* Without a watcher nothing is delivered.
Blind == backend \notin {"raft", "etcd3", "kubernetes"} => \A n \in Node, k \in Key : seen[n][k] = Absent

\* What holds of every backend, and of each.
StoreInv ==
  /\ Core /\ Blind
  /\ backend = "etcd" => EtcdInv
  /\ backend = "raft" => RaftInv
  /\ backend = "consul" => ConsulInv
  /\ backend = "zookeeper" => ZooKeeperInv
  /\ backend = "etcd3" => Etcd3Inv
  /\ backend = "kubernetes" => KubernetesInv

\* At first nothing is stored, and nobody knows or does anything.
LEMMA StoreInit ==
  ASSUME MCInit
  PROVE  StoreInv
  <1>1. /\ \A k \in Key : kv[k] = Absent
        /\ rev = 0 /\ 0 \in 0 .. MaxRev
        /\ \A n \in Node : call[n] = Idle /\ sess[n] = 0 /\ stream[n] = <<>>
        /\ \A n \in Node, k \in Key : seen[n][k] = Absent /\ cache[n][k] = Absent /\ view[n][k] = Absent
        /\ had = {} /\ {"leader", "sync", "initialize"} \subseteq Key
        /\ seen = cache
    BY KeyFacts, KeyStoreAssumption DEF MCInit, Init
  <1>2. Core
    <2>1. TypeOK
      BY <1>1, AbsentIs, IdleIs DEF MCInit, Init, TypeOK
    <2>2. VersionInv /\ HadInv
      BY <1>1, AbsentIs, KeyStoreAssumption DEF VersionInv, HadInv, Holds
    <2>3. ToldInv
      BY <1>1, IdleIs DEF ToldInv, Told
    <2> QED BY <2>1, <2>2, <2>3 DEF Core
  <1>3. Blind
    BY <1>1 DEF Blind
  <1>4. StreamInv
    <2>1. stream \in [Node -> Seq(Event)]
      BY DEF MCInit, Init
    <2> QED BY <2>1 DEF StreamInv
  <1>5. backend = "etcd" => EtcdInv
    BY <1>1, <1>2, IdleIs DEF EtcdInv, PlainPc
  <1>6. backend = "raft" => RaftInv
    BY <1>1, <1>2, <1>4, IdleIs DEF RaftInv, PlainPc
  <1>7. backend = "consul" => ConsulInv
    BY <1>1, <1>2, IdleIs, AbsentIs DEF ConsulInv, ConsulPc, SessionInv, ReadInv
  <1>8. backend = "zookeeper" => ZooKeeperInv
    BY <1>1, <1>2, IdleIs DEF ZooKeeperInv, ZooKeeperPc
  <1>9. backend = "etcd3" => Etcd3Inv
    <2>1. WatchersInv
      BY <1>1, <1>4, AbsentIs DEF WatchersInv, EventsInv, PastInv, WatchInv, Past
    <2>2. SentInv /\ \A n \in Node : Etcd3Pc(call[n])
      BY <1>1, IdleIs DEF SentInv, Etcd3Pc
    <2> QED BY <1>2, <2>1, <2>2 DEF Etcd3Inv
  <1>10. backend = "kubernetes" => KubernetesInv
    <2>1. Absent.own = 0
      BY DEF Absent
    <2>2. ObjectsInv /\ CacheInv /\ DeliveriesInv
      BY <1>1, <2>1, AbsentIs DEF ObjectsInv, CacheInv, DeliveriesInv, Agrees
    <2>3. LoadedInv
      BY <1>1, <2>1, AbsentIs, KeyStoreAssumption DEF LoadedInv, Agrees, Vacant, Owner
    <2>4. AskedInv /\ AnsweredInv /\ \A n \in Node : KubernetesPc(call[n])
      BY <1>1, IdleIs DEF AskedInv, AnsweredInv, KubernetesPc
    <2> QED BY <1>2, <1>4, <2>2, <2>3, <2>4 DEF KubernetesInv
  <1> QED BY <1>2, <1>3, <1>5, <1>6, <1>7, <1>8, <1>9, <1>10 DEF StoreInv

\* Every step of a backend keeps what is known of it, and is a step of the abstract key.
LEMMA StoreStep ==
  ASSUME StoreInv, Next
  PROVE  StoreInv' /\ (K!Next \/ UNCHANGED K!vars)
  <1>0. UNCHANGED backend
    BY DEF Next
  <1>1. ASSUME UNCHANGED watcher PROVE Blind'
    BY <1>0, <1>1 DEF StoreInv, Blind, watcher
  <1>2. CASE backend = "etcd" /\ Etcd!Next
    <2>1. EtcdInv' /\ (K!Next \/ UNCHANGED K!vars) /\ UNCHANGED watcher
      BY <1>0, <1>2, EtcdStep DEF StoreInv
    <2> QED BY <1>0, <1>1, <1>2, <2>1 DEF StoreInv, EtcdInv
  <1>3. CASE backend = "consul" /\ Consul!Next
    <2>1. ConsulInv' /\ (K!Next \/ UNCHANGED K!vars) /\ UNCHANGED watcher
      BY <1>0, <1>3, ConsulStep DEF StoreInv
    <2> QED BY <1>0, <1>1, <1>3, <2>1 DEF StoreInv, ConsulInv
  <1>4. CASE backend = "etcd3" /\ Etcd3!Next
    <2>1. Etcd3Inv' /\ (K!Next \/ UNCHANGED K!vars)
      BY <1>0, <1>4, Etcd3Step DEF StoreInv
    <2> QED BY <1>0, <1>4, <2>1 DEF StoreInv, Etcd3Inv, Blind
  <1>5. CASE backend = "zookeeper" /\ ZooKeeper!Next
    <2>1. ZooKeeperInv' /\ (K!Next \/ UNCHANGED K!vars) /\ UNCHANGED watcher
      BY <1>0, <1>5, ZooKeeperStep DEF StoreInv
    <2> QED BY <1>0, <1>1, <1>5, <2>1 DEF StoreInv, ZooKeeperInv
  <1>6. CASE backend = "kubernetes" /\ Kubernetes!Next
    <2>1. KubernetesInv' /\ (K!Next \/ UNCHANGED K!vars)
      BY <1>0, <1>6, KubernetesStep DEF StoreInv
    <2> QED BY <1>0, <1>6, <2>1 DEF StoreInv, KubernetesInv, Blind
  <1>7. CASE backend = "raft" /\ Raft!Next
    <2>1. RaftInv' /\ (K!Next \/ UNCHANGED K!vars)
      BY <1>0, <1>7, RaftStep DEF StoreInv
    <2> QED BY <1>0, <1>7, <2>1 DEF StoreInv, RaftInv, Blind
  <1> QED BY <1>2, <1>3, <1>4, <1>5, <1>6, <1>7 DEF Next

\* A step that changes nothing keeps what is known.
LEMMA StoreStutters ==
  ASSUME StoreInv, UNCHANGED <<vars, backend>>
  PROVE  StoreInv' /\ UNCHANGED K!vars
  <1>0. UNCHANGED <<kv, rev, live, sess, view, call, stream, seen, cache, had, wrote, winners, backend>>
    BY DEF vars, store, watcher, history
  <1>1. Core' <=> Core
    BY <1>0 DEF Core, TypeOK, VersionInv, HadInv, Holds, ToldInv, Told, Shown, LeaderOps, Free
  <1>2. Blind' <=> Blind
    BY <1>0 DEF Blind
  <1>3. (EtcdInv' <=> EtcdInv) /\ (RaftInv' <=> RaftInv) /\ (ZooKeeperInv' <=> ZooKeeperInv)
    BY <1>0, <1>1 DEF EtcdInv, RaftInv, ZooKeeperInv, StreamInv
  <1>4. ConsulInv' <=> ConsulInv
    BY <1>0, <1>1 DEF ConsulInv, SessionInv, ReadInv, Free, There
  <1>5. Etcd3Inv' <=> Etcd3Inv
    BY <1>0, <1>1 DEF Etcd3Inv, WatchersInv, StreamInv, EventsInv, PastInv, WatchInv, SentInv, Sent, OpKey, There
  <1>6. KubernetesInv' <=> KubernetesInv
    BY <1>0, <1>1 DEF KubernetesInv, ObjectsInv, StreamInv, CacheInv, DeliveriesInv, LoadedInv, AskedInv, AnsweredInv,
       Answering, OpKey, There
  <1>7. StoreInv'
    BY <1>0, <1>1, <1>2, <1>3, <1>4, <1>5, <1>6 DEF StoreInv
  <1>8. UNCHANGED K!vars
    BY <1>0 DEF K!vars, Succeeded, LeaderOps
  <1> QED BY <1>7, <1>8

\* StoreInv holds in every state.
LEMMA StoreAlways == Spec => []StoreInv
  <1>1. MCInit => StoreInv
    BY StoreInit
  <1>2. StoreInv /\ [Next]_<<vars, backend>> => StoreInv'
    BY StoreStep, StoreStutters
  <1> QED BY <1>1, <1>2, PTL DEF Spec

\* Every variable has its type, in every backend: the store is never at more than MaxRev writes,
\* and a call is always at a request of its backend.
THEOREM StoresType == Spec => []TypeOK
  <1>1. StoreInv => TypeOK
    BY DEF StoreInv, Core
  <1> QED BY <1>1, StoreAlways, PTL

\* In every backend: when all that changed was delivered to a node, and no answer is on its way
\* to it, what its watcher knows of a key that exists is what the key is (etcd3.py's
\* KVCache, kubernetes.py's ObjectCache and raft.py's KVStoreTTL).
THEOREM StoresWatched == Spec => []WatcherCatchesUp
  <1>1. StoreInv => WatcherCatchesUp
    <2> SUFFICES ASSUME StoreInv, NEW n \in Node, stream[n] = <<>>, call[n].pc # "granted",
                        NEW k \in Key, There(kv[k]), seen[n] = kv
                 PROVE  cache[n][k] = kv[k]
      BY DEF WatcherCatchesUp
    <2>1. CASE backend \notin {"raft", "etcd3", "kubernetes"}
      BY <2>1, AbsentIs DEF StoreInv, Blind
    <2>2. CASE backend = "raft"
      BY <2>2 DEF StoreInv, RaftInv
    <2>3. CASE backend = "etcd3"
      BY <2>3 DEF StoreInv, Etcd3Inv, WatchersInv, WatchInv
    <2>4. CASE backend = "kubernetes"
      BY <2>4, CacheIsUpToDate DEF StoreInv, KubernetesInv, Core
    <2> QED BY <2>1, <2>2, <2>3, <2>4
  <1> QED BY <1>1, StoreAlways, PTL

\* In every backend: a node that is told that its write of /sync succeeded wrote the version that it
\* is told of, over the version that it gave (write_sync_state()), and one that is told that it
\* won the initialize key wrote it when it was not there (initialize()).
THEOREM StoresConfirmed == Spec => []ConfirmedWrites
  <1>1. StoreInv => ConfirmedWrites
    <2> SUFFICES ASSUME StoreInv PROVE ConfirmedWrites
      OBVIOUS
    <2>1. \A n \in Node : call[n].pc = "done" /\ call[n].ret = "true" => Shown(n, call[n].got)
      BY DEF StoreInv, Core, ToldInv, Told
    <2>2. SyncAnswersTrue
      BY <2>1 DEF SyncAnswersTrue, WroteOver, Succeeded, Shown, Free
    <2>3. InitializedFree
      BY <2>1 DEF InitializedFree, Succeeded, Shown
    <2> QED BY <2>2, <2>3 DEF ConfirmedWrites
  <1> QED BY <1>1, StoreAlways, PTL

\* Every backend implements the abstract leader key: nobody takes the key from the node that is
\* named in it, and a node is told that it has the key only when it had it since it asked
\* (attempt_to_acquire_leader(), and update_leader() where it asks for the key).
THEOREM StoresLeaderKey == Spec => LeaderKeyIsLock
  <1>1. MCInit => K!Init
    <2> SUFFICES ASSUME MCInit PROVE K!Init
      OBVIOUS
    <2>1. \A k \in Key : kv[k] = Absent
      BY DEF MCInit, Init
    <2>2. \A n \in Node : call[n] = Idle
      BY DEF MCInit, Init
    <2>3. had = {} /\ kv["leader"] = Absent
      BY <2>1, KeyFacts DEF MCInit, Init
    <2> QED BY <2>2, <2>3, AbsentIs, IdleIs DEF K!Init, Succeeded
  <1>2. StoreInv /\ [Next]_<<vars, backend>> => [K!Next]_K!vars
    BY StoreStep, StoreStutters
  <1> QED BY <1>1, <1>2, StoreAlways, PTL DEF Spec, LeaderKeyIsLock, K!Spec
=============================================================================
