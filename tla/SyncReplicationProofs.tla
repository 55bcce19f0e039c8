------------------------ MODULE SyncReplicationProofs ------------------------
(***************************************************************************)
(* Proofs about SyncReplication: types, MarkedAsLeader, PublishedIsSet and  *)
(* NoAcknowledgedLoss.                                                      *)
(*                                                                         *)
(* MarkInv holds of every behaviour.  The node that writes /sync is the one *)
(* with the leader key, and a primary holds that key, so a write can only   *)
(* name its writer; a standby that streams has a part of the WAL of its     *)
(* primary.                                                                *)
(*                                                                         *)
(* NamesInv holds when no Patroni restarts beside its primary.  It follows  *)
(* one cycle of process_sync_replication: what is to be published is in the *)
(* running names before it is written to the key, and the key shrinks       *)
(* before the names do.                                                    *)
(*                                                                         *)
(* LossInv holds when, besides, a leader race ends while the lost key is    *)
(* free.  Whoever is in /sync is a Candidate: it has all that was reported  *)
(* to a client and a part of what the leader has, so that to connect again  *)
(* takes nothing from it.  A standby becomes one when it has reached the    *)
(* flush position taken after its name was in force (Caught).               *)
(***************************************************************************)
EXTENDS SyncReplication, FiniteSetTheorems, SequenceTheorems, TLAPS

\* s has a part of what p has.
Prefix(s, p) == Len(wal[s]) <= Len(wal[p]) /\ \A i \in 1 .. Len(wal[s]) : wal[s][i] = wal[p][i]

\* n has all that was reported as committed.
Safe(n) == acked \subseteq Range(wal[n])

\* s may replace p.
Candidate(s, p) == Safe(s) /\ Prefix(s, p)

\* Where a node is when it runs process_sync_replication.
SyncPcs == {"enable", "assess", "shrink", "names", "settle", "recheck", "publish"}

-----------------------------------------------------------------------------
(* What holds of every behaviour *)

\* The types, and no transaction is twice in a WAL: its length has a bound.
TypeInv ==
  /\ TypeOK
  /\ wal \in [Node -> Seq(1 .. MaxTxns)]
  /\ \A n \in Node : \A i, j \in 1 .. Len(wal[n]) : wal[n][i] = wal[n][j] => i = j

\* Where a node can be in its cycle, and what it has then: a primary has the key.
CycleInv(n) ==
  /\ pg[n] = "primary" \/ pc[n] \in SyncPcs => pg[n] = "primary" /\ owner = n
  /\ pc[n] \in {"race", "reload", "claim", "promote"} => pg[n] = "standby"
  /\ pc[n] \in {"reload", "claim", "promote"} => owner = n
  /\ pc[n] = "promote" => sync = [leader |-> n, members |-> {}] /\ conf[n] \in {{}, {Star}}
  /\ pc[n] \in SyncPcs \ {"enable"} => sync.leader = n

\* A standby streams from a primary, and has a part of its WAL.
LinkInv(n) ==
  link[n] # NoNode => pg[n] = "standby" /\ pg[link[n]] = "primary" /\ Prefix(n, link[n])

\* The node with the key is the leader in /sync when it runs, or ran, a primary.
LeaderInv(n) ==
  pg[n] \in {"primary", "crashed"} /\ owner = n => sync.leader \in {n, NoNode}

\* An empty /sync names nobody, and nothing was reported yet.
KeyInv == sync.leader = NoNode => sync.members = {} /\ acked = {}

MarkInv == TypeInv /\ KeyInv /\ \A n \in Node : CycleInv(n) /\ LinkInv(n) /\ LeaderInv(n)

-----------------------------------------------------------------------------
(* What holds when no Patroni restarts beside its primary *)

\* n leads, or is to lead again when its postgres has restarted.
Leads(n) == pg[n] \in {"primary", "crashed"} /\ owner = n

\* What is in /sync is in the names, those of the file and those of postgres, and
\* what n has seen and decided in its cycle agrees with both.
NamesInv(n) ==
  /\ Leads(n) /\ sync.leader = n => sync.members \subseteq conf[n]
  /\ pg[n] = "primary" =>
       /\ sync.leader = n => sync.members \subseteq ssn[n]
       /\ ssn[n] \in {conf[n], known[n]}
  /\ pc[n] \in {"enable", "assess", "shrink", "names"} => ssn[n] = conf[n]
  /\ pc[n] \in {"shrink", "names"} => known[n] = conf[n]
  /\ pc[n] = "enable" => sync.leader = NoNode
  /\ pc[n] \in {"enable", "assess", "shrink"} => sync.members = sr[n].seen
  /\ pc[n] = "names" => sync.members = sr[n].common
  /\ pc[n] \in {"shrink", "names"} =>
        sr[n].allow \subseteq sr[n].picked /\ sr[n].common \subseteq sr[n].allow
  /\ pc[n] \in {"shrink", "names", "settle", "recheck", "publish"} =>
        sr[n].allow \subseteq ssn[n]
  /\ pc[n] \in {"settle", "recheck", "publish"} => sr[n].allow \subseteq conf[n]
  /\ ready[n] \subseteq known[n]

\* s has what was committed after n looked at its flush position, and n itself had
\* the rest before it.
Caught(s, n) ==
  \A t \in acked : \/ Prefix(s, n) /\ t \in Range(wal[s])
                   \/ \E i \in 1 .. Len(wal[n]) : i <= flush[n] /\ wal[n][i] = t

\* What the synchronous handler of a primary knows about the standbys.
ReadyInv(n) ==
  Leads(n) => /\ \A s \in ready[n] \cap conf[n] : Candidate(s, n)
              /\ \A s \in known[n] \cap conf[n] \cap Node : Caught(s, n)

\* The standbys of /sync at the start of the cycle, and those to be published.
DecidedInv(n) ==
  /\ pc[n] \in {"assess", "shrink", "names"} => \A s \in sr[n].seen : s \in ssn[n] /\ Candidate(s, n)
  /\ pc[n] \in {"settle", "recheck"} => \A s \in sr[n].seen \cap conf[n] : s \in ssn[n] /\ Candidate(s, n)
  /\ pc[n] \in {"shrink", "names", "settle", "recheck", "publish"} => \A s \in sr[n].allow : Candidate(s, n)

\* Who may be promoted has everything.
CandidateInv ==
  sync.leader # NoNode => Safe(sync.leader) /\ \A s \in sync.members : Candidate(s, sync.leader)

\* So has who holds the key, and the nodes that race for it are in /sync.
OwnerInv ==
  /\ owner # NoNode => Safe(owner)
  /\ owner = NoNode => \A n \in Node : pc[n] = "race" => MayRace(n)

LossInv ==
  CandidateInv /\ OwnerInv /\ \A n \in Node : NamesInv(n) /\ ReadyInv(n) /\ DecidedInv(n)

SyncInv == MarkInv /\ (~joins => LossInv)

-----------------------------------------------------------------------------
(* Sequences *)

\* The first k transactions are a part of the WAL.
LEMMA PartOfWal ==
  ASSUME NEW b \in Seq(1 .. MaxTxns), NEW k \in 0 .. Len(b)
  PROVE  /\ SubSeq(b, 1, k) \in Seq(1 .. MaxTxns)
         /\ Len(SubSeq(b, 1, k)) = k
         /\ \A i \in 1 .. k : SubSeq(b, 1, k)[i] = b[i]
  <1>1. Len(b) \in Nat BY LenProperties
  <1>2. \A i \in 1 .. k : b[i] \in 1 .. MaxTxns
    <2>1. ASSUME NEW i \in 1 .. k PROVE b[i] \in 1 .. MaxTxns
      <3>1. i \in 1 .. Len(b) BY <1>1
      <3> QED BY <3>1, ElementOfSeq
    <2> QED BY <2>1
  <1>3. k \in Int /\ 1 \in Int BY <1>1
  <1>4. /\ SubSeq(b, 1, k) \in Seq(1 .. MaxTxns)
        /\ Len(SubSeq(b, 1, k)) = IF 1 <= k THEN k - 1 + 1 ELSE 0
        /\ \A i \in 1 .. k - 1 + 1 : SubSeq(b, 1, k)[i] = b[1 + i - 1]
    <2> DEFINE S == 1 .. MaxTxns
    <2>1. \A i \in 1 .. k : b[i] \in S BY <1>2
    <2> HIDE DEF S
    <2>2. /\ SubSeq(b, 1, k) \in Seq(S)
          /\ Len(SubSeq(b, 1, k)) = IF 1 <= k THEN k - 1 + 1 ELSE 0
          /\ \A i \in 1 .. k - 1 + 1 : SubSeq(b, 1, k)[i] = b[1 + i - 1]
      BY <1>3, <2>1, SubSeqProperties
    <2> QED BY <2>2 DEF S
  <1>5. k - 1 + 1 = k /\ (~(1 <= k) => k = 0) BY <1>1
  <1>6. \A i \in 1 .. k : 1 + i - 1 = i BY <1>1
  <1> QED BY <1>4, <1>5, <1>6

\* A part of a WAL is shared with it.
LEMMA SharedPrefix ==
  ASSUME TypeInv, NEW s \in Node, NEW p \in Node, Prefix(s, p)
  PROVE  Len(wal[s]) \in Shared(s, p)
  <1>1. wal[s] \in Seq(1 .. MaxTxns) /\ wal[p] \in Seq(1 .. MaxTxns) BY DEF TypeInv
  <1>2. Len(wal[s]) \in Nat /\ Len(wal[p]) \in Nat BY <1>1, LenProperties
  <1> DEFINE k == Len(wal[s])
             a == SubSeq(wal[s], 1, k)
             b == SubSeq(wal[p], 1, k)
  <1>3. k \in 0 .. Len(wal[s]) /\ k \in 0 .. Len(wal[p]) BY <1>2 DEF Prefix
  <1>4. a \in Seq(1 .. MaxTxns) /\ Len(a) = k /\ \A i \in 1 .. k : a[i] = wal[s][i]
    BY <1>1, <1>3, PartOfWal
  <1>5. b \in Seq(1 .. MaxTxns) /\ Len(b) = k /\ \A i \in 1 .. k : b[i] = wal[p][i]
    BY <1>1, <1>3, PartOfWal
  <1> HIDE DEF a, b
  <1>6. \A i \in 1 .. k : a[i] = b[i] BY <1>4, <1>5 DEF Prefix
  <1>7. a = b BY <1>4, <1>5, <1>6, SeqEqual
  <1> QED BY <1>3, <1>7 DEF Shared, a, b

\* A WAL without repetitions has at most MaxTxns transactions.
LEMMA WalBounded ==
  ASSUME NEW a \in Seq(1 .. MaxTxns), \A i, j \in 1 .. Len(a) : a[i] = a[j] => i = j
  PROVE  Len(a) \in 0 .. MaxTxns
  <1>1. Len(a) \in Nat /\ a \in [1 .. Len(a) -> 1 .. MaxTxns] BY LenProperties
  <1>2. a \in Injection(1 .. Len(a), 1 .. MaxTxns) BY <1>1 DEF Injection, IsInjective
  <1>3. Cardinality(1 .. Len(a)) <= Cardinality(1 .. MaxTxns)
    BY <1>2, FS_Injection, FS_Interval, SyncAssumption
  <1>4. ASSUME NEW m \in Nat PROVE Cardinality(1 .. m) = m
    BY FS_Interval
  <1>5. Cardinality(1 .. Len(a)) = Len(a) /\ Cardinality(1 .. MaxTxns) = MaxTxns
    BY <1>1, <1>4, SyncAssumption
  <1> QED BY <1>1, <1>3, <1>5, SyncAssumption


-----------------------------------------------------------------------------
(* Types *)

\* What an action keeps of the types when it writes the WAL of one node.
LEMMA WalType ==
  ASSUME TypeInv, NEW s \in Node, NEW w \in Seq(1 .. MaxTxns),
         \A i, j \in 1 .. Len(w) : w[i] = w[j] => i = j,
         wal' = [wal EXCEPT ![s] = w]
  PROVE  /\ \A n \in Node : wal'[n] \in Seq(1 .. MaxTxns)
         /\ wal' \in [Node -> Seq(1 .. MaxTxns)]
         /\ \A n \in Node : \A i, j \in 1 .. Len(wal'[n]) : wal'[n][i] = wal'[n][j] => i = j
  <1>1. \A n \in Node : wal'[n] = IF n = s THEN w ELSE wal[n] BY DEF TypeInv
  <1> QED BY <1>1 DEF TypeInv

\* The lengths of the WALs.
LEMMA LenType ==
  ASSUME TypeInv, NEW n \in Node
  PROVE  Len(wal[n]) \in 0 .. MaxTxns /\ wal[n] \in Seq(1 .. MaxTxns)
  BY WalBounded DEF TypeInv

\* The WAL of n becomes the first k transactions of that of p.
LEMMA Copies ==
  ASSUME TypeInv, NEW n \in Node, NEW p \in Node, NEW k \in 0 .. Len(wal[p]),
         wal' = [wal EXCEPT ![n] = SubSeq(wal[p], 1, k)]
  PROVE  /\ \A m \in Node : wal'[m] \in Seq(1 .. MaxTxns)
         /\ wal' \in [Node -> Seq(1 .. MaxTxns)]
         /\ \A m \in Node : \A i, j \in 1 .. Len(wal'[m]) : wal'[m][i] = wal'[m][j] => i = j
         /\ Len(wal'[n]) = k /\ \A i \in 1 .. k : wal'[n][i] = wal[p][i]
         /\ \A m \in Node \ {n} : wal'[m] = wal[m]
  <1> DEFINE w == SubSeq(wal[p], 1, k)
  <1>1. wal[p] \in Seq(1 .. MaxTxns) BY LenType
  <1>2. Len(wal[p]) \in Nat /\ \A i \in 1 .. k : i \in 1 .. Len(wal[p]) BY LenType
  <1>3. /\ w \in Seq(1 .. MaxTxns) /\ Len(w) = k /\ \A i \in 1 .. k : w[i] = wal[p][i]
    BY <1>1, PartOfWal
  <1>4. \A i, j \in 1 .. Len(wal[p]) : wal[p][i] = wal[p][j] => i = j BY DEF TypeInv
  <1>5. wal' = [wal EXCEPT ![n] = w] OBVIOUS
  <1> HIDE DEF w
  <1>6. \A i, j \in 1 .. Len(w) : w[i] = w[j] => i = j BY <1>2, <1>3, <1>4
  <1>7. wal'[n] = w /\ \A m \in Node \ {n} : wal'[m] = wal[m] BY <1>5 DEF TypeInv
  <1>8. w \in Seq(1 .. MaxTxns) BY <1>3
  <1>9. /\ \A m \in Node : wal'[m] \in Seq(1 .. MaxTxns)
        /\ wal' \in [Node -> Seq(1 .. MaxTxns)]
        /\ \A m \in Node : \A i, j \in 1 .. Len(wal'[m]) : wal'[m][i] = wal'[m][j] => i = j
    BY <1>5, <1>6, <1>8, WalType
  <1>10. Len(wal'[n]) = k /\ \A i \in 1 .. k : wal'[n][i] = wal[p][i] BY <1>3, <1>7
  <1> QED BY <1>7, <1>9, <1>10

\* A standby streams one transaction.
LEMMA StreamEffect ==
  ASSUME TypeInv, NEW n \in Node, Stream(n)
  PROVE  /\ \A m \in Node : wal'[m] \in Seq(1 .. MaxTxns)
         /\ wal' \in [Node -> Seq(1 .. MaxTxns)]
         /\ \A m \in Node : \A i, j \in 1 .. Len(wal'[m]) : wal'[m][i] = wal'[m][j] => i = j
         /\ link[n] \in Node /\ Len(wal[n]) < Len(wal[link[n]])
         /\ Len(wal'[n]) = Len(wal[n]) + 1
         /\ \A i \in 1 .. Len(wal[n]) + 1 : wal'[n][i] = wal[link[n]][i]
         /\ \A m \in Node \ {n} : wal'[m] = wal[m]
  <1>1. link[n] \in Node /\ Len(wal[n]) < Len(wal[link[n]]) BY DEF Stream, TypeInv, TypeOK
  <1>2. PICK p \in Node : p = link[n] BY <1>1
  <1>3. PICK k \in 0 .. Len(wal[p]) : k = Len(wal[n]) + 1 BY <1>1, <1>2, LenType
  <1>4. wal' = [wal EXCEPT ![n] = SubSeq(wal[p], 1, k)] BY <1>2, <1>3 DEF Stream
  <1>5. /\ \A m \in Node : wal'[m] \in Seq(1 .. MaxTxns)
        /\ wal' \in [Node -> Seq(1 .. MaxTxns)]
        /\ \A m \in Node : \A i, j \in 1 .. Len(wal'[m]) : wal'[m][i] = wal'[m][j] => i = j
        /\ Len(wal'[n]) = k /\ \A i \in 1 .. k : wal'[n][i] = wal[p][i]
        /\ \A m \in Node \ {n} : wal'[m] = wal[m]
    BY <1>4, Copies
  <1> QED BY <1>1, <1>2, <1>3, <1>5

\* A standby takes the WAL of the primary up to some point, where its own is
\* no longer part of that.
LEMMA ConnectEffect ==
  ASSUME TypeInv, NEW n \in Node, NEW p \in Node, Connect(n, p)
  PROVE  /\ \A m \in Node : wal'[m] \in Seq(1 .. MaxTxns)
         /\ wal' \in [Node -> Seq(1 .. MaxTxns)]
         /\ \A m \in Node : \A i, j \in 1 .. Len(wal'[m]) : wal'[m][i] = wal'[m][j] => i = j
         /\ \A m \in Node \ {n} : wal'[m] = wal[m]
         /\ \E k \in 0 .. Len(wal[p]) :
              /\ \A j \in Shared(n, p) : j <= k
              /\ Len(wal'[n]) = k /\ \A i \in 1 .. k : wal'[n][i] = wal[p][i]
              /\ link' = [link EXCEPT ![n] = IF k = Len(wal[p]) THEN p ELSE NoNode]
         /\ link' \in [Node -> Node \cup {NoNode}]
  <1>1. PICK k \in 0 .. Len(wal[p]) :
          /\ \A j \in Shared(n, p) : j <= k
          /\ wal' = [wal EXCEPT ![n] = SubSeq(wal[p], 1, k)]
          /\ link' = [link EXCEPT ![n] = IF k = Len(wal[p]) THEN p ELSE NoNode]
    BY DEF Connect
  <1>2. link' \in [Node -> Node \cup {NoNode}] BY <1>1 DEF TypeInv, TypeOK
  <1>3. /\ \A m \in Node : wal'[m] \in Seq(1 .. MaxTxns)
        /\ wal' \in [Node -> Seq(1 .. MaxTxns)]
        /\ \A m \in Node : \A i, j \in 1 .. Len(wal'[m]) : wal'[m][i] = wal'[m][j] => i = j
        /\ Len(wal'[n]) = k /\ \A i \in 1 .. k : wal'[n][i] = wal[p][i]
        /\ \A m \in Node \ {n} : wal'[m] = wal[m]
    BY <1>1, Copies
  <1> QED BY <1>1, <1>2, <1>3

\* A commit adds a transaction that no node has.
LEMMA CommitEffect ==
  ASSUME TypeInv, NEW n \in Node, Commit(n)
  PROVE  /\ \A m \in Node : wal'[m] \in Seq(1 .. MaxTxns)
         /\ wal' \in [Node -> Seq(1 .. MaxTxns)]
         /\ \A m \in Node : \A i, j \in 1 .. Len(wal'[m]) : wal'[m][i] = wal'[m][j] => i = j
         /\ Len(wal'[n]) = Len(wal[n]) + 1
         /\ \A i \in 1 .. Len(wal[n]) : wal'[n][i] = wal[n][i]
         /\ \A m \in Node \ {n} : wal'[m] = wal[m]
  <1> DEFINE t == CHOOSE t \in 1 .. MaxTxns : t \notin Txns \cup acked
             w == Append(wal[n], t)
  <1>1. \E x \in 1 .. MaxTxns : x \notin Txns \cup acked
    <2>1. SUFFICES ASSUME 1 .. MaxTxns \subseteq Txns \cup acked PROVE FALSE OBVIOUS
    <2>2. Txns \cup acked \subseteq 1 .. MaxTxns
      <3>1. \A m \in Node : Range(wal[m]) \subseteq 1 .. MaxTxns BY LenType, RangeOfSeq
      <3>2. Txns \subseteq 1 .. MaxTxns BY <3>1 DEF Txns
      <3>3. acked \subseteq 1 .. MaxTxns BY DEF TypeInv, TypeOK
      <3> QED BY <3>2, <3>3
    <2>3. Txns \cup acked = 1 .. MaxTxns BY <2>1, <2>2
    <2>4. ASSUME NEW m \in Nat PROVE Cardinality(1 .. m) = m BY FS_Interval
    <2>5. Cardinality(1 .. MaxTxns) = MaxTxns BY <2>4, SyncAssumption
    <2>6. Cardinality(1 .. MaxTxns) < MaxTxns BY <2>3 DEF Commit
    <2> QED BY <2>5, <2>6, SyncAssumption
  <1>2. t \in 1 .. MaxTxns /\ t \notin Range(wal[n]) BY <1>1 DEF Txns
  <1> HIDE DEF t
  <1>3. /\ w \in Seq(1 .. MaxTxns) /\ Len(w) = Len(wal[n]) + 1
        /\ \A i \in 1 .. Len(wal[n]) : w[i] = wal[n][i]
        /\ \A i, j \in 1 .. Len(w) : w[i] = w[j] => i = j
    <2>1. wal[n] \in Seq(1 .. MaxTxns) BY LenType
    <2>2. /\ w \in Seq(1 .. MaxTxns) /\ Len(w) = Len(wal[n]) + 1
          /\ \A i \in 1 .. Len(wal[n]) : w[i] = wal[n][i]
          /\ w[Len(wal[n]) + 1] = t
      BY <2>1, <1>2, AppendProperties
    <2>3. \A i \in 1 .. Len(wal[n]) : wal[n][i] # t
      BY <1>2, <2>1, RangeEquality
    <2> QED BY <2>1, <2>2, <2>3, LenProperties DEF TypeInv
  <1>4. wal' = [wal EXCEPT ![n] = w] BY DEF Commit, t
  <1> HIDE DEF w
  <1>5. wal'[n] = w /\ \A m \in Node \ {n} : wal'[m] = wal[m] BY <1>4 DEF TypeInv
  <1> QED BY <1>3, <1>4, <1>5, WalType

\* What query_synchronous_standby_names and _process_replica_readiness leave in
\* the handler has its type.
LEMMA HandlerType ==
  ASSUME TypeInv, NEW n \in Node, NamesChange(n),
         ready' = [ready EXCEPT ![n] = KeptReady(n)] \/ (\E list \in SUBSET Node : ProcessReadiness(n, list))
  PROVE  /\ known' \in [Node -> Names] /\ flush' \in [Node -> 0 .. MaxTxns]
         /\ ready' \in [Node -> SUBSET Node]
  <1>1. known' \in [Node -> Names] BY DEF NamesChange, TypeInv, TypeOK
  <1>2. flush' \in [Node -> 0 .. MaxTxns] BY LenType DEF NamesChange, TypeInv, TypeOK
  <1>3. KeptReady(n) \in SUBSET Node BY DEF KeptReady, TypeInv, TypeOK
  <1>4. CASE ready' = [ready EXCEPT ![n] = KeptReady(n)]
    BY <1>1, <1>2, <1>3, <1>4 DEF TypeInv, TypeOK
  <1>5. CASE \E list \in SUBSET Node : ProcessReadiness(n, list)
    <2>1. PICK list \in SUBSET Node : ProcessReadiness(n, list) BY <1>5
    <2> DEFINE R == KeptReady(n) \cup
             {s \in list \cap ssn[n] : s \in sr[n].seen \/ Len(wal[s]) >= flush'[n]}
    <2>2. R \in SUBSET Node BY <1>3
    <2>3. ready' = [ready EXCEPT ![n] = R] BY <2>1 DEF ProcessReadiness
    <2> HIDE DEF R
    <2> QED BY <1>1, <1>2, <2>2, <2>3 DEF TypeInv, TypeOK
  <1> QED BY <1>4, <1>5

\* Every step keeps the types.
LEMMA TypeStep ==
  ASSUME TypeInv, Next
  PROVE  TypeInv'
  <1> USE DEF dcsVars, haVars, handlerVars, pgVars
  <1>1. PICK n \in Node : NodeStep(n) BY DEF Next
  <1>2. strict' = strict /\ joins' = joins BY DEF Next
  <1>3. NoSr \in [seen : SUBSET Node, picked : SUBSET Node, allow : SUBSET Node, common : SUBSET Node]
    BY DEF NoSr
  <1>35. {} \in Names /\ {Star} \in Names BY DEF Names
  <1>4. {} \in Names /\ {Star} \in Names /\ (IF strict THEN {Star} ELSE {}) \in Names
    <2>1. CASE strict BY <2>1, <1>35
    <2>2. CASE ~strict BY <2>2, <1>35
    <2> QED BY <2>1, <2>2
  <1> DEFINE Pcs == {"idle", "race", "reload", "claim", "promote", "enable", "assess",
                     "shrink", "names", "settle", "recheck", "publish"}
             Srs == [seen : SUBSET Node, picked : SUBSET Node, allow : SUBSET Node,
                     common : SUBSET Node]
  <1>5. ASSUME NEW next \in Pcs, Continue(n, next)
        PROVE  pc' \in [Node -> Pcs] /\ sr' \in [Node -> Srs]
    BY <1>3, <1>5 DEF Continue, Goto, TypeInv, TypeOK
  <1>36. ASSUME Continue(n, "idle") PROVE pc' \in [Node -> Pcs] /\ sr' \in [Node -> Srs]
    BY <1>5, <1>36
  <1>37. ASSUME NEW r \in Srs, sr' = [sr EXCEPT ![n] = r] PROVE sr' \in [Node -> Srs]
    BY <1>37 DEF TypeInv, TypeOK
  <1>6. ASSUME NEW m \in SUBSET Node, NEW next \in Pcs, WriteSync(n, m, next)
        PROVE  /\ pc' \in [Node -> Pcs] /\ sr' \in [Node -> Srs]
               /\ sync' \in [leader : Node \cup {NoNode}, members : SUBSET Node]
               /\ fresh' \in SUBSET Node
    BY <1>5, <1>6 DEF WriteSync, TypeInv, TypeOK
  <1>7. ASSUME NEW next \in Pcs, Goto(n, next) PROVE pc' \in [Node -> Pcs]
    BY <1>7 DEF Goto, TypeInv, TypeOK
  <1>8. CASE LoadCluster(n)
    <2>4. sr[n] \in Srs /\ sr \in [Node -> Srs] /\ sync.members \in SUBSET Node BY DEF TypeInv, TypeOK
    <2>3. [sr[n] EXCEPT !.seen = sync.members] \in Srs BY <2>4
    <2>1. sr' \in [Node -> Srs] BY <1>8, <2>3, <2>4 DEF LoadCluster
    <2>2. pc' \in [Node -> Pcs] BY <1>8, <1>7 DEF LoadCluster
    <2> QED BY <1>8, <1>2, <2>1, <2>2 DEF LoadCluster, TypeInv, TypeOK
  <1>9. CASE Acquire(n)
    BY <1>9, <1>2, <1>7 DEF Acquire, TypeInv, TypeOK
  <1>10. CASE Reload(n)
    BY <1>10, <1>2, <1>7 DEF Reload, TypeInv, TypeOK
  <1>11. CASE Claim(n)
    <2>1. conf' \in [Node -> Names] BY <1>11, <1>4 DEF Claim, TypeInv, TypeOK
    <2> QED BY <1>11, <1>2, <1>6, <2>1 DEF Claim, TypeInv, TypeOK
  <1>12. CASE Promote(n)
    BY <1>12, <1>2, <1>7 DEF Promote, TypeInv, TypeOK
  <1>13. CASE Enable(n)
    BY <1>13, <1>2, <1>6 DEF Enable, TypeInv, TypeOK
  <1>14. CASE Assess(n)
    <2>1. PICK picked \in SUBSET Streaming(n) :
       LET seen == sr[n].seen
           allow == SyncOf(n, picked)
           common == IF picked = seen THEN allow ELSE seen \cap allow IN
       /\ CurrentState(n, picked)
       /\ IF picked = seen /\ allow = seen THEN Continue(n, "idle")
          ELSE /\ Goto(n, IF common = seen THEN "names" ELSE "shrink")
               /\ sr' = [sr EXCEPT ![n] = [seen |-> seen, picked |-> picked, allow |-> allow,
                                          common |-> common]]
      BY <1>14 DEF Assess
    <2>2. known' \in [Node -> Names] /\ flush' \in [Node -> 0 .. MaxTxns] /\ ready' \in [Node -> SUBSET Node]
      BY <2>1, HandlerType DEF CurrentState, Streaming
    <2>3. picked \in SUBSET Node /\ SyncOf(n, picked) \in SUBSET Node /\ sr[n].seen \in SUBSET Node
      BY <2>1 DEF SyncOf, Streaming, TypeInv, TypeOK
    <2> DEFINE seen == sr[n].seen
               allow == SyncOf(n, picked)
               common == IF picked = seen THEN allow ELSE seen \cap allow
               new == [seen |-> seen, picked |-> picked, allow |-> allow, common |-> common]
    <2>8. common \in SUBSET Node /\ allow \in SUBSET Node /\ seen \in SUBSET Node BY <2>3
    <2>5. new \in Srs
      <3> HIDE DEF common, allow, seen
      <3> QED BY <2>3, <2>8
    <2>6. ASSUME Continue(n, "idle") PROVE pc' \in [Node -> Pcs] /\ sr' \in [Node -> Srs]
      BY <2>6, <1>36
    <2>7. ASSUME Goto(n, IF common = seen THEN "names" ELSE "shrink"), sr' = [sr EXCEPT ![n] = new]
          PROVE  pc' \in [Node -> Pcs] /\ sr' \in [Node -> Srs]
      <3>1. pc' \in [Node -> Pcs]
        BY <2>7, <1>7 DEF Goto
      <3>2. sr' \in [Node -> Srs]
        <4> HIDE DEF new
        <4> QED BY <1>37, <2>5, <2>7
      <3> QED BY <3>1, <3>2
    <2>9. \/ Continue(n, "idle")
          \/ Goto(n, IF common = seen THEN "names" ELSE "shrink") /\ sr' = [sr EXCEPT ![n] = new]
      BY <2>1
    <2>4. pc' \in [Node -> Pcs] /\ sr' \in [Node -> Srs]
      BY <2>9, <2>6, <2>7
    <2> QED BY <1>14, <1>2, <2>2, <2>4 DEF Assess, TypeInv, TypeOK
  <1>15. CASE Shrink(n)
    <2>1. sr[n].common \in SUBSET Node BY DEF TypeInv, TypeOK
    <2> QED BY <1>15, <1>2, <1>6, <2>1 DEF Shrink, TypeInv, TypeOK
  <1>16. CASE SetNames(n)
    <2>1. NewNames(n) \in Names BY <1>4 DEF NewNames, Names, TypeInv, TypeOK
    <2> QED BY <1>16, <1>2, <1>7, <2>1 DEF SetNames, TypeInv, TypeOK
  <1>17. CASE Settle(n)
    BY <1>17, <1>2, <1>7, HandlerType DEF Settle, TypeInv, TypeOK
  <1>18. CASE AssessAgain(n)
    <2>1. PICK picked \in SUBSET Streaming(n) :
            CurrentState(n, picked) /\ sr' = [sr EXCEPT ![n].allow = SyncOf(n, picked)]
      BY <1>18 DEF AssessAgain
    <2>2. known' \in [Node -> Names] /\ flush' \in [Node -> 0 .. MaxTxns] /\ ready' \in [Node -> SUBSET Node]
      BY <2>1, HandlerType DEF CurrentState, Streaming
    <2>3. SyncOf(n, picked) \in SUBSET Node BY <2>1 DEF SyncOf, Streaming
    <2>6. sr[n] \in Srs /\ sr \in [Node -> Srs] BY DEF TypeInv, TypeOK
    <2>5. [sr[n] EXCEPT !.allow = SyncOf(n, picked)] \in Srs BY <2>3, <2>6
    <2>4. sr' \in [Node -> Srs] BY <2>1, <2>5, <2>6
    <2> QED BY <1>18, <1>2, <1>7, <2>2, <2>4 DEF AssessAgain, TypeInv, TypeOK
  <1>19. CASE Publish(n)
    <2>1. sr[n].allow \in SUBSET Node BY DEF TypeInv, TypeOK
    <2> QED BY <1>19, <1>2, <1>5, <1>6, <2>1 DEF Publish, TypeInv, TypeOK
  <1>20. CASE ReloadNames(n)
    BY <1>20, <1>2 DEF ReloadNames, TypeInv, TypeOK
  <1>21. CASE Commit(n)
    BY <1>21, <1>2, CommitEffect DEF Commit, TypeInv, TypeOK
  <1>22. CASE Ack(n)
    <2>1. \A i \in 1 .. Len(wal[n]) : wal[n][i] \in 1 .. MaxTxns BY LenType, ElementOfSeq
    <2>2. \A k \in 1 .. Len(wal[n]) : \A i \in 1 .. k : i \in 1 .. Len(wal[n]) BY LenType
    <2>4. PICK k \in 1 .. Len(wal[n]) : acked' = acked \cup {wal[n][i] : i \in 1 .. k}
      BY <1>22 DEF Ack
    <2>5. {wal[n][i] : i \in 1 .. k} \subseteq 1 .. MaxTxns BY <2>1, <2>2
    <2>6. acked \subseteq 1 .. MaxTxns BY DEF TypeInv, TypeOK
    <2>3. acked' \in SUBSET (1 .. MaxTxns) BY <2>4, <2>5, <2>6
    <2> QED BY <1>22, <1>2, <2>3 DEF Ack, TypeInv, TypeOK
  <1>23. CASE Stream(n)
    BY <1>23, <1>2, StreamEffect DEF Stream, TypeInv, TypeOK
  <1>24. CASE Disconnect(n)
    BY <1>24, <1>2 DEF Disconnect, TypeInv, TypeOK
  <1>25. CASE \E p \in Node : Connect(n, p)
    <2>1. PICK p \in Node : Connect(n, p) BY <1>25
    <2> QED BY <2>1, <1>2, ConnectEffect DEF Connect, TypeInv, TypeOK
  <1>26. Unlink(n) => link' \in [Node -> Node \cup {NoNode}] BY DEF Unlink, TypeInv, TypeOK
  <1>27. NewProcess(n) =>
           /\ pc' \in [Node -> Pcs] /\ sr' \in [Node -> Srs] /\ known' \in [Node -> Names]
           /\ flush' \in [Node -> 0 .. MaxTxns] /\ ready' \in [Node -> SUBSET Node]
           /\ conf' \in [Node -> Names]
    BY <1>4, <1>5, SyncAssumption DEF NewProcess, TypeInv, TypeOK
  <1>28. MachineStops(n) =>
           /\ pc' \in [Node -> Pcs] /\ sr' \in [Node -> Srs] /\ known' \in [Node -> Names]
           /\ flush' \in [Node -> 0 .. MaxTxns] /\ ready' \in [Node -> SUBSET Node]
           /\ conf' \in [Node -> Names] /\ ssn' \in [Node -> Names]
           /\ pg' \in [Node -> {"primary", "standby", "crashed", "down"}]
           /\ link' \in [Node -> Node \cup {NoNode}] /\ wal' = wal /\ acked' = acked
    BY <1>4, <1>26, <1>27 DEF MachineStops, TypeInv, TypeOK
  <1>29. CASE MachineCrash(n)
    BY <1>29, <1>2, <1>28 DEF MachineCrash, TypeInv, TypeOK
  <1>30. CASE PgCrash(n)
    BY <1>30, <1>2, <1>4, <1>5, <1>26 DEF PgCrash, TypeInv, TypeOK
  <1>31. CASE RecoverPrimary(n)
    BY <1>31, <1>2 DEF RecoverPrimary, TypeInv, TypeOK
  <1>32. CASE StartStandby(n)
    BY <1>32, <1>2, <1>4, <1>26 DEF StartStandby, TypeInv, TypeOK
  <1>33. CASE JoinRunning(n)
    BY <1>33, <1>2, <1>27 DEF JoinRunning, TypeInv, TypeOK
  <1>34. CASE LoseKey(n)
    BY <1>34, <1>2, <1>28 DEF LoseKey, TypeInv, TypeOK
  <1> QED BY <1>1, <1>8, <1>9, <1>10, <1>11, <1>12, <1>13, <1>14, <1>15, <1>16, <1>17, <1>18,
             <1>19, <1>20, <1>21, <1>22, <1>23, <1>24, <1>25, <1>29, <1>30, <1>31, <1>32,
             <1>33, <1>34 DEF NodeStep, ProcessSync

\* The types of the initial state.
LEMMA InitType ==
  ASSUME Init
  PROVE  TypeInv
  <1>1. <<>> \in Seq(1 .. MaxTxns) /\ Len(<<>>) = 0 BY EmptySeq
  <1>2. {} \in Names /\ {Star} \in Names BY DEF Names
  <1>3. conf \in [Node -> Names]
    <2>1. CASE strict BY <1>2, <2>1 DEF Init
    <2>2. CASE ~strict BY <1>2, <2>2 DEF Init
    <2> QED BY <2>1, <2>2
  <1>4. ssn = [m \in Node |-> {}] /\ known = [m \in Node |-> {}] /\ ready = [m \in Node |-> {}]
    BY DEF Init
  <1>5. ssn \in [Node -> Names] /\ known \in [Node -> Names] /\ ready \in [Node -> SUBSET Node]
    BY <1>2, <1>4
  <1>6. sr \in [Node -> [seen : SUBSET Node, picked : SUBSET Node, allow : SUBSET Node,
                         common : SUBSET Node]]
    BY DEF Init, NoSr
  <1>7. wal = [m \in Node |-> <<>>] BY DEF Init
  <1>8. /\ wal \in [Node -> Seq(1 .. MaxTxns)]
        /\ \A m \in Node : wal[m] \in Seq(1 .. MaxTxns) /\ Len(wal[m]) = 0
    BY <1>1, <1>7
  <1>9. \A m \in Node : \A i, j \in 1 .. Len(wal[m]) : wal[m][i] = wal[m][j] => i = j
    BY <1>8
  <1>10. flush \in [Node -> 0 .. MaxTxns] BY SyncAssumption DEF Init
  <1>11. TypeOK BY <1>3, <1>5, <1>6, <1>8, <1>10, SyncAssumption DEF Init, TypeOK
  <1> QED BY <1>8, <1>9, <1>11 DEF TypeInv

\* Every variable of synchronous replication has its type in every state.
THEOREM SyncType == Spec => []TypeOK
  <1>1. Init => TypeInv BY InitType
  <1>2. TypeInv /\ UNCHANGED vars => TypeInv'
    BY DEF vars, dcsVars, haVars, handlerVars, pgVars, TypeInv, TypeOK
  <1>3. TypeInv => TypeOK BY DEF TypeInv
  <1> QED BY <1>1, <1>2, <1>3, TypeStep, PTL DEF Spec

-----------------------------------------------------------------------------
(* The cycle of a node, its links and the key *)

\* What write_sync_state leaves, whatever becomes of the request.
LEMMA WriteSyncEffect ==
  ASSUME TypeInv, NEW n \in Node, NEW m \in SUBSET Node, NEW next, WriteSync(n, m, next)
  PROVE  /\ \/ sync' = [leader |-> n, members |-> m]
            \/ sync' = sync /\ pc' = [pc EXCEPT ![n] = "idle"]
         /\ pc' = [pc EXCEPT ![n] = next] \/ pc' = [pc EXCEPT ![n] = "idle"]
         /\ sr' = sr \/ sr' = [sr EXCEPT ![n] = NoSr]
         /\ pc' = [pc EXCEPT ![n] = next] /\ next # "idle" => sr' = sr
  BY DEF WriteSync, Continue, Goto, TypeInv, TypeOK

\* The types of what the lemmas below read.
LEMMA CycleType ==
  ASSUME TypeInv
  PROVE  /\ pc \in [Node -> {"idle", "race", "reload", "claim", "promote", "enable", "assess",
                             "shrink", "names", "settle", "recheck", "publish"}]
         /\ pg \in [Node -> {"primary", "standby", "crashed", "down"}]
         /\ owner \in Node \cup {NoNode} /\ NoNode \notin Node
         /\ sync \in [leader : Node \cup {NoNode}, members : SUBSET Node]
         /\ conf \in [Node -> Names] /\ link \in [Node -> Node \cup {NoNode}]
         /\ sr \in [Node -> [seen : SUBSET Node, picked : SUBSET Node, allow : SUBSET Node,
                             common : SUBSET Node]]
  BY SyncAssumption DEF TypeInv, TypeOK

\* A node is in its cycle where its postgres and the leader key let it be.
LEMMA CycleStep ==
  ASSUME MarkInv, Next
  PROVE  \A m \in Node : CycleInv(m)'
  <1> USE DEF dcsVars, haVars, handlerVars, pgVars
  <1>1. PICK n \in Node : NodeStep(n) BY DEF Next
  <1>2. TypeInv /\ (\A m \in Node : CycleInv(m)) BY DEF MarkInv
  <1>3. strict' = strict BY DEF Next
  <1> SUFFICES ASSUME NEW m \in Node PROVE CycleInv(m)' OBVIOUS
  <1>4. CycleInv(m) /\ CycleInv(n) BY <1>2
  <1>5. ASSUME pc' = pc \/ pc' = [pc EXCEPT ![n] = "idle"], sync' = sync, owner' = owner, pg' = pg, conf' = conf
        PROVE  CycleInv(m)'
    BY <1>2, <1>4, <1>5, CycleType DEF CycleInv, SyncPcs
  <1>6. CASE LoadCluster(n)
    <2>1. /\ pc[n] = "idle"
          /\ \E to \in {"enable", "assess", "claim", "race"} :
               /\ pc' = [pc EXCEPT ![n] = to]
               /\ to \in {"enable", "assess"} => pg[n] = "primary" /\ owner = n
               /\ to \in {"claim", "race"} => pg[n] = "standby"
               /\ to = "claim" => owner = n
               /\ to = "assess" => sync.leader # NoNode
      BY <1>6 DEF LoadCluster, Goto
    <2>2. owner' = owner /\ sync' = sync /\ conf' = conf /\ pg' = pg BY <1>6 DEF LoadCluster
    <2>3. pc' \in [Node -> {"idle", "race", "reload", "claim", "promote", "enable", "assess",
                             "shrink", "names", "settle", "recheck", "publish"}]
      BY <2>1, <1>2, CycleType
    <2>4. sync.leader # NoNode /\ owner = n /\ pg[n] = "primary" => sync.leader = n
      BY DEF MarkInv, LeaderInv
    <2> QED BY <1>2, <1>4, <2>1, <2>2, <2>4, CycleType DEF CycleInv, SyncPcs
  <1>7. CASE Acquire(n)
    BY <1>2, <1>4, <1>7, CycleType DEF Acquire, Goto, CycleInv, SyncPcs
  <1>8. CASE Reload(n)
    BY <1>2, <1>4, <1>8, CycleType DEF Reload, Goto, CycleInv, SyncPcs
  <1>9. CASE Claim(n)
    <2>1. WriteSync(n, {}, "promote") /\ pc[n] = "claim" BY <1>9 DEF Claim
    <2>2. /\ \/ sync' = [leader |-> n, members |-> {}]
             \/ sync' = sync /\ pc' = [pc EXCEPT ![n] = "idle"]
          /\ pc' = [pc EXCEPT ![n] = "promote"] \/ pc' = [pc EXCEPT ![n] = "idle"]
      BY <2>1, <1>2, WriteSyncEffect
    <2>3. pg' = pg /\ owner' = owner /\ owner = n /\ pg[n] = "standby"
      BY <1>9, <1>4 DEF Claim, CycleInv
    <2>4. \A x \in Node \ {n} : conf'[x] = conf[x] BY <1>9, <1>2, CycleType DEF Claim
    <2>5. pc'[n] = "promote" => conf'[n] \in {{}, {Star}}
      <3>1. CASE strict BY <1>9, <1>2, <3>1, CycleType DEF Claim
      <3>2. CASE ~strict BY <1>9, <1>2, <3>2, CycleType DEF Claim
      <3> QED BY <3>1, <3>2
    <2>6. CASE m = n
      BY <1>2, <1>4, <2>1, <2>2, <2>3, <2>5, <2>6, CycleType DEF CycleInv, SyncPcs
    <2>7. CASE m # n
      BY <1>2, <1>4, <2>1, <2>2, <2>3, <2>4, <2>7, CycleType DEF CycleInv, SyncPcs
    <2> QED BY <2>6, <2>7
  <1>10. CASE Promote(n)
    BY <1>2, <1>4, <1>10, CycleType DEF Promote, Goto, CycleInv, SyncPcs
  <1>11. ASSUME NEW k \in SUBSET Node, NEW next \in {"idle", "assess", "names"}, pc[n] \in SyncPcs,
                WriteSync(n, k, next), pg' = pg, owner' = owner, conf' = conf
         PROVE  CycleInv(m)'
    <2>1. /\ sync' = [leader |-> n, members |-> k] \/ (sync' = sync /\ pc' = [pc EXCEPT ![n] = "idle"])
          /\ pc' = [pc EXCEPT ![n] = next] \/ pc' = [pc EXCEPT ![n] = "idle"]
      BY <1>2, <1>11, WriteSyncEffect
    <2>2. \A x \in Node : pc[x] \in SyncPcs => owner = x
      BY <1>2 DEF CycleInv
    <2>3. sync' = [leader |-> n, members |-> k] \/ sync' = sync BY <2>1
    <2>4. owner = n /\ pg[n] = "primary" BY <1>4, <1>11 DEF CycleInv
    <2>5. CASE m # n
      <3>1. pc'[m] = pc[m] BY <2>1, <2>5, <1>2, CycleType
      <3>2. pc[m] \notin SyncPcs /\ pc[m] \notin {"reload", "claim", "promote"}
        BY <1>4, <2>4, <2>5 DEF CycleInv
      <3> QED BY <1>4, <1>11, <3>1, <3>2 DEF CycleInv, SyncPcs
    <2>6. CASE m = n
      <3>1. pc'[n] \in {"idle", next} /\ (pc'[n] # "idle" => sync'.leader = n)
        BY <2>1, <1>2, <1>4, <1>11, CycleType DEF CycleInv, SyncPcs
      <3> QED BY <2>4, <2>6, <1>11, <3>1 DEF CycleInv, SyncPcs
    <2> QED BY <2>5, <2>6
  <1>12. CASE Enable(n)
    BY <1>11, <1>12 DEF Enable, SyncPcs
  <1>13. ASSUME NEW to \in {"idle", "shrink", "names", "settle", "recheck", "publish"}, Goto(n, to),
                pc[n] \in SyncPcs \ {"enable"}, pg' = pg, owner' = owner, sync' = sync,
                \A x \in Node \ {n} : conf'[x] = conf[x]
         PROVE  CycleInv(m)'
    BY <1>2, <1>4, <1>13, CycleType DEF Goto, CycleInv, SyncPcs
  <1>14. CASE Assess(n)
    <2>1. \E to \in {"idle", "shrink", "names"} : Goto(n, to)
      BY <1>14 DEF Assess, Continue
    <2> QED BY <1>13, <1>14, <2>1 DEF Assess, SyncPcs
  <1>15. CASE Shrink(n)
    BY <1>2, <1>11, <1>15, CycleType DEF Shrink, SyncPcs
  <1>16. CASE SetNames(n)
    <2>1. \E to \in {"settle", "recheck", "publish"} : Goto(n, to) BY <1>16 DEF SetNames
    <2>2. \A x \in Node \ {n} : conf'[x] = conf[x] BY <1>2, <1>16, CycleType DEF SetNames
    <2> QED BY <1>13, <1>16, <2>1, <2>2 DEF SetNames, SyncPcs
  <1>17. CASE Settle(n)
    <2>1. \E to \in {"recheck", "publish"} : Goto(n, to) BY <1>17 DEF Settle
    <2> QED BY <1>13, <1>17, <2>1 DEF Settle, SyncPcs
  <1>18. CASE AssessAgain(n)
    BY <1>13, <1>18 DEF AssessAgain, SyncPcs
  <1>19. CASE Publish(n)
    <2>1. CASE Continue(n, "idle") /\ UNCHANGED <<sync, fresh>>
      BY <1>5, <1>19, <2>1 DEF Publish, Continue, Goto
    <2>2. CASE WriteSync(n, sr[n].allow, "idle")
      BY <1>2, <1>11, <1>19, <2>2, CycleType DEF Publish, SyncPcs
    <2> QED BY <1>19, <2>1, <2>2 DEF Publish
  <1>20. CASE ReloadNames(n) \/ Commit(n) \/ Ack(n) \/ Stream(n) \/ Disconnect(n)
              \/ \E p \in Node : Connect(n, p)
    BY <1>5, <1>20 DEF ReloadNames, Commit, Ack, Stream, Disconnect, Connect
  <1>21. ASSUME pc' = [pc EXCEPT ![n] = "idle"], sync' = sync, owner' = owner \/ (owner' = NoNode /\ owner = n),
                pg'[n] = "primary" => pg[n] = "primary" /\ owner' = owner,
                \A x \in Node \ {n} : pg'[x] = pg[x] /\ conf'[x] = conf[x]
         PROVE  CycleInv(m)'
    BY <1>2, <1>4, <1>21, CycleType DEF CycleInv, SyncPcs
  <1>22. MachineStops(n) => /\ pc' = [pc EXCEPT ![n] = "idle"]
                            /\ \A x \in Node \ {n} : pg'[x] = pg[x] /\ conf'[x] = conf[x]
                            /\ pg'[n] = "down"
    BY <1>2, CycleType DEF MachineStops, NewProcess, Continue, Goto
  <1>23. CASE MachineCrash(n)
    <2>1. MachineStops(n) /\ owner' = owner /\ sync' = sync BY <1>23 DEF MachineCrash
    <2>2. pg'[n] = "down" BY <2>1, <1>22
    <2> QED BY <1>21, <1>22, <2>1, <2>2
  <1>24. CASE PgCrash(n)
    <2>1. owner' = owner /\ sync' = sync /\ pc' = [pc EXCEPT ![n] = "idle"] /\ conf' = conf
      BY <1>24 DEF PgCrash, Continue, Goto
    <2>2. pg'[n] # "primary" /\ \A x \in Node \ {n} : pg'[x] = pg[x]
      BY <1>2, <1>24, CycleType DEF PgCrash
    <2> QED BY <1>21, <2>1, <2>2
  <1>25. CASE RecoverPrimary(n)
    BY <1>2, <1>4, <1>25, CycleType DEF RecoverPrimary, CycleInv, SyncPcs
  <1>26. CASE StartStandby(n)
    BY <1>2, <1>4, <1>26, CycleType DEF StartStandby, CycleInv, SyncPcs
  <1>27. CASE JoinRunning(n)
    <2>1. owner' = owner /\ sync' = sync /\ pc' = [pc EXCEPT ![n] = "idle"] /\ pg' = pg
      BY <1>27 DEF JoinRunning, NewProcess, Continue, Goto
    <2>2. \A x \in Node \ {n} : conf'[x] = conf[x]
      BY <1>2, <1>27, CycleType DEF JoinRunning, NewProcess
    <2> QED BY <1>21, <2>1, <2>2
  <1>28. CASE LoseKey(n)
    <2>1. CASE MachineStops(n)
      BY <1>21, <1>22, <1>28, <2>1 DEF LoseKey
    <2>2. CASE ~(pg[n] = "primary" \/ pc[n] \in {"reload", "claim", "promote"})
               /\ UNCHANGED <<haVars, conf, handlerVars, pgVars>>
      BY <1>2, <1>4, <1>28, <2>2, CycleType DEF LoseKey, CycleInv, SyncPcs
    <2> QED BY <1>28, <2>1, <2>2 DEF LoseKey
  <1> QED BY <1>1, <1>6, <1>7, <1>8, <1>9, <1>10, <1>12, <1>14, <1>15, <1>16, <1>17, <1>18,
             <1>19, <1>20, <1>23, <1>24, <1>25, <1>26, <1>27, <1>28 DEF NodeStep, ProcessSync

\* A standby streams from a primary, and has a part of its WAL.
LEMMA LinkStep ==
  ASSUME MarkInv, Next
  PROVE  \A m \in Node : LinkInv(m)'
  <1> USE DEF dcsVars, haVars, handlerVars, pgVars
  <1>1. PICK n \in Node : NodeStep(n) BY DEF Next
  <1>2. TypeInv /\ (\A m \in Node : CycleInv(m) /\ LinkInv(m)) BY DEF MarkInv
  <1> SUFFICES ASSUME NEW m \in Node, link'[m] # NoNode PROVE LinkInv(m)'
    BY DEF LinkInv
  <1>3. LinkInv(m) /\ LinkInv(n) /\ CycleInv(n) BY <1>2
  <1>4. NoNode \notin Node BY SyncAssumption
  <1>5. \A x \in Node : Len(wal[x]) \in Nat BY <1>2, LenType
  <1>6. ASSUME UNCHANGED <<pg, wal, link>> PROVE LinkInv(m)'
    BY <1>3, <1>6 DEF LinkInv, Prefix
  \* n, where nothing streams from, starts or stops to be a primary
  <1>7. ASSUME wal' = wal, link' = [x \in Node |-> IF x = n \/ link[x] = n THEN NoNode ELSE link[x]],
               \A x \in Node \ {n} : pg'[x] = pg[x]
        PROVE  LinkInv(m)'
    <2>1. m # n /\ link[m] # n /\ link'[m] = link[m] BY <1>7
    <2>2. link[m] \in Node \ {n} BY <2>1, <1>2, CycleType
    <2> QED BY <1>3, <1>7, <2>1, <2>2 DEF LinkInv, Prefix
  <1>8. ASSUME Unlink(n), wal' = wal, NEW to, pg' = [pg EXCEPT ![n] = to] PROVE LinkInv(m)'
    BY <1>2, <1>7, <1>8, CycleType DEF Unlink
  <1>9. MachineStops(n) => LinkInv(m)' BY <1>8 DEF MachineStops
  <1>10. CASE Promote(n)
    <2>1. pg[n] = "standby" BY <1>3, <1>10 DEF Promote, CycleInv
    <2>2. m # n /\ link'[m] = link[m] /\ link[m] \in Node BY <1>10, <1>2, <1>4, CycleType DEF Promote
    <2>3. link[m] # n BY <1>3, <2>1, <2>2 DEF LinkInv
    <2>4. \A x \in Node \ {n} : pg'[x] = pg[x] BY <1>10, <1>2, CycleType DEF Promote
    <2>5. wal' = wal BY <1>10 DEF Promote
    <2> QED BY <1>3, <2>2, <2>3, <2>4, <2>5 DEF LinkInv, Prefix
  <1>11. CASE Commit(n)
    <2>1. pg' = pg /\ link' = link /\ pg[n] = "primary" BY <1>11 DEF Commit
    <2>2. m # n BY <1>3, <2>1 DEF LinkInv
    <2>3. /\ Len(wal'[n]) = Len(wal[n]) + 1 /\ \A i \in 1 .. Len(wal[n]) : wal'[n][i] = wal[n][i]
          /\ \A x \in Node \ {n} : wal'[x] = wal[x]
      BY <1>2, <1>11, CommitEffect
    <2>4. wal'[m] = wal[m] /\ link[m] \in Node /\ Prefix(m, link[m]) BY <1>2, <1>3, <2>1, <2>2, <2>3, CycleType DEF LinkInv
    <2>5. CASE link[m] # n BY <1>3, <2>1, <2>3, <2>4, <2>5 DEF LinkInv, Prefix
    <2>6. CASE link[m] = n
      <3>1. Len(wal'[m]) <= Len(wal'[n]) BY <1>5, <2>3, <2>4, <2>6 DEF Prefix
      <3>2. \A i \in 1 .. Len(wal'[m]) : wal'[m][i] = wal'[n][i] BY <1>5, <2>3, <2>4, <2>6 DEF Prefix
      <3> QED BY <1>3, <2>1, <2>6, <3>1, <3>2 DEF LinkInv, Prefix
    <2> QED BY <2>5, <2>6
  <1>12. CASE Stream(n)
    <2>1. pg' = pg /\ link' = link BY <1>12 DEF Stream
    <2>2. PICK p \in Node : p = link[n] BY <1>2, <1>12, StreamEffect
    <2>3. /\ Len(wal[n]) < Len(wal[p]) /\ Len(wal'[n]) = Len(wal[n]) + 1
          /\ \A i \in 1 .. Len(wal[n]) + 1 : wal'[n][i] = wal[p][i]
          /\ \A x \in Node \ {n} : wal'[x] = wal[x]
      BY <1>2, <1>12, <2>2, StreamEffect
    <2>4. pg[n] = "standby" /\ pg[p] = "primary" /\ p # n BY <1>3, <1>4, <2>2 DEF LinkInv
    <2>5. link[m] \in Node /\ link[m] # n BY <1>2, <1>3, <2>1, <2>4, CycleType DEF LinkInv
    <2>6. CASE m = n
      <3>1. wal'[p] = wal[p] BY <2>3, <2>4
      <3> QED BY <1>3, <1>5, <2>1, <2>2, <2>3, <2>6, <3>1 DEF LinkInv, Prefix
    <2>7. CASE m # n BY <1>3, <2>1, <2>3, <2>5, <2>7 DEF LinkInv, Prefix
    <2> QED BY <2>6, <2>7
  <1>13. CASE Disconnect(n)
    BY <1>2, <1>3, <1>13, CycleType DEF Disconnect, LinkInv, Prefix
  <1>14. CASE \E p \in Node : Connect(n, p)
    <2>1. PICK p \in Node : Connect(n, p) BY <1>14
    <2>7. /\ \E k \in 0 .. Len(wal[p]) :
               /\ \A j \in Shared(n, p) : j <= k
               /\ Len(wal'[n]) = k /\ \A i \in 1 .. k : wal'[n][i] = wal[p][i]
               /\ link' = [link EXCEPT ![n] = IF k = Len(wal[p]) THEN p ELSE NoNode]
          /\ \A x \in Node \ {n} : wal'[x] = wal[x]
      BY <1>2, <2>1, ConnectEffect
    <2>2. PICK k \in 0 .. Len(wal[p]) :
            /\ Len(wal'[n]) = k /\ \A i \in 1 .. k : wal'[n][i] = wal[p][i]
            /\ link' = [link EXCEPT ![n] = IF k = Len(wal[p]) THEN p ELSE NoNode]
            /\ \A x \in Node \ {n} : wal'[x] = wal[x]
      BY <2>7
    <2>3. pg' = pg /\ pg[n] = "standby" /\ pg[p] = "primary" BY <2>1 DEF Connect
    <2>4. wal'[p] = wal[p] BY <2>2, <2>3
    <2>5. CASE m = n
      <3>1. link'[n] = p /\ k = Len(wal[p]) BY <1>2, <2>2, <2>5, CycleType
      <3> QED BY <1>5, <2>2, <2>3, <2>4, <2>5, <3>1 DEF LinkInv, Prefix
    <2>6. CASE m # n
      <3>1. link'[m] = link[m] /\ link[m] \in Node /\ link[m] # n
        BY <1>2, <1>3, <2>2, <2>3, <2>6, CycleType DEF LinkInv
      <3> QED BY <1>3, <2>2, <2>3, <2>6, <3>1 DEF LinkInv, Prefix
    <2> QED BY <2>5, <2>6
  <1>15. CASE MachineCrash(n) BY <1>9, <1>15 DEF MachineCrash
  <1>16. CASE PgCrash(n) BY <1>8, <1>16 DEF PgCrash
  <1>17. CASE RecoverPrimary(n)
    <2>1. link' = link /\ wal' = wal /\ pg[n] = "crashed" BY <1>17 DEF RecoverPrimary
    <2>2. m # n /\ link[m] # n /\ link[m] \in Node BY <1>2, <1>3, <2>1, CycleType DEF LinkInv
    <2>3. \A x \in Node \ {n} : pg'[x] = pg[x] BY <1>17, <1>2, CycleType DEF RecoverPrimary
    <2> QED BY <1>3, <2>1, <2>2, <2>3 DEF LinkInv, Prefix
  <1>18. CASE StartStandby(n) BY <1>8, <1>18 DEF StartStandby
  <1>19. CASE LoseKey(n) BY <1>6, <1>9, <1>19 DEF LoseKey
  <1>20. CASE LoadCluster(n) \/ Acquire(n) \/ Reload(n) \/ Claim(n) \/ ProcessSync(n)
              \/ ReloadNames(n) \/ Ack(n) \/ JoinRunning(n)
    BY <1>6, <1>20 DEF LoadCluster, Acquire, Reload, Claim, ProcessSync, Enable, Assess, Shrink,
         SetNames, Settle, AssessAgain, Publish, ReloadNames, Ack, JoinRunning
  <1> QED BY <1>1, <1>10, <1>11, <1>12, <1>13, <1>14, <1>15, <1>16, <1>17, <1>18, <1>19, <1>20
      DEF NodeStep

\* What is written to /sync is written by the holder of the leader key, and says
\* that the writer leads.
LEMMA KeyStep ==
  ASSUME MarkInv, Next
  PROVE  KeyInv' /\ \A m \in Node : LeaderInv(m)'
  <1> USE DEF dcsVars, haVars, handlerVars, pgVars
  <1>1. PICK n \in Node : NodeStep(n) BY DEF Next
  <1>2. TypeInv /\ KeyInv /\ (\A m \in Node : CycleInv(m) /\ LeaderInv(m)) BY DEF MarkInv
  <1>3. NoNode \notin Node BY SyncAssumption
  <1>4. ASSUME sync' = sync, acked' = acked, owner' \in {owner, NoNode},
               \A x \in Node : pg'[x] \in {"primary", "crashed"} => pg[x] \in {"primary", "crashed"}
        PROVE  KeyInv' /\ \A m \in Node : LeaderInv(m)'
    BY <1>2, <1>3, <1>4 DEF KeyInv, LeaderInv
  <1>5. ASSUME NEW k \in SUBSET Node, NEW next, WriteSync(n, k, next), owner = n,
               owner' = owner, acked' = acked, pg' = pg
        PROVE  KeyInv' /\ \A m \in Node : LeaderInv(m)'
    <2>1. sync' = [leader |-> n, members |-> k] \/ sync' = sync BY <1>2, <1>5, WriteSyncEffect
    <2>2. CASE sync' = sync BY <1>4, <1>5, <2>2
    <2>3. CASE sync' = [leader |-> n, members |-> k]
      BY <1>3, <1>5, <2>3 DEF KeyInv, LeaderInv
    <2> QED BY <2>1, <2>2, <2>3
  <1>6. CASE LoadCluster(n) \/ Reload(n) \/ Assess(n) \/ SetNames(n) \/ Settle(n) \/ AssessAgain(n)
             \/ ReloadNames(n) \/ Commit(n) \/ Stream(n) \/ Disconnect(n)
             \/ (\E p \in Node : Connect(n, p)) \/ JoinRunning(n)
    BY <1>4, <1>6 DEF LoadCluster, Reload, Assess, SetNames, Settle, AssessAgain, ReloadNames,
         Commit, Stream, Disconnect, Connect, JoinRunning
  <1>7. CASE Acquire(n)
    BY <1>2, <1>7 DEF Acquire, CycleInv, KeyInv, LeaderInv
  <1>8. CASE Claim(n)
    BY <1>2, <1>5, <1>8 DEF Claim, CycleInv
  <1>9. CASE Promote(n)
    BY <1>2, <1>9, CycleType DEF Promote, CycleInv, KeyInv, LeaderInv
  <1>10. CASE Enable(n) \/ Shrink(n) \/ Publish(n)
    <2>1. owner = n /\ owner' = owner /\ acked' = acked /\ pg' = pg
      BY <1>2, <1>10 DEF Enable, Shrink, Publish, CycleInv, SyncPcs
    <2>2. sync' = sync \/ \E k \in SUBSET Node, next \in {"idle", "assess", "names"} : WriteSync(n, k, next)
      BY <1>2, <1>10, CycleType DEF Enable, Shrink, Publish
    <2> QED BY <1>4, <1>5, <2>1, <2>2
  <1>11. CASE Ack(n)
    BY <1>2, <1>11 DEF Ack, KeyInv, LeaderInv
  <1>12. MachineStops(n) => /\ acked' = acked
           /\ \A x \in Node : pg'[x] \in {"primary", "crashed"} => pg[x] \in {"primary", "crashed"}
    BY <1>2, CycleType DEF MachineStops
  <1>13. CASE MachineCrash(n) BY <1>4, <1>12, <1>13 DEF MachineCrash
  <1>14. CASE PgCrash(n) BY <1>2, <1>4, <1>14, CycleType DEF PgCrash
  <1>15. CASE RecoverPrimary(n) BY <1>2, <1>4, <1>15, CycleType DEF RecoverPrimary
  <1>16. CASE StartStandby(n) BY <1>2, <1>4, <1>16, CycleType DEF StartStandby
  <1>17. CASE LoseKey(n)
    BY <1>4, <1>12, <1>17 DEF LoseKey
  <1> QED BY <1>1, <1>6, <1>7, <1>8, <1>9, <1>10, <1>11, <1>13, <1>14, <1>15, <1>16, <1>17
      DEF NodeStep, ProcessSync

\* The invariant holds at first,
LEMMA InitMark == Init => MarkInv
  BY InitType, SyncAssumption DEF Init, MarkInv, KeyInv, CycleInv, LinkInv, LeaderInv, SyncPcs

\* when nothing happens,
LEMMA MarkStutter ==
  ASSUME MarkInv, UNCHANGED vars
  PROVE  MarkInv'
  <1> USE DEF vars, dcsVars, haVars, handlerVars, pgVars
  <1>1. TypeInv' BY DEF MarkInv, TypeInv, TypeOK
  <1>2. KeyInv' BY DEF MarkInv, KeyInv
  <1>3. \A n \in Node : CycleInv(n)' BY DEF MarkInv, CycleInv
  <1>4. \A n \in Node : LinkInv(n)' BY DEF MarkInv, LinkInv, Prefix
  <1>5. \A n \in Node : LeaderInv(n)' BY DEF MarkInv, LeaderInv
  <1> QED BY <1>1, <1>2, <1>3, <1>4, <1>5 DEF MarkInv

\* and after every step.
LEMMA MarkStep == MarkInv /\ Next => MarkInv'
  BY TypeStep, CycleStep, LinkStep, KeyStep DEF MarkInv

\* The primary with the leader key is the leader in /sync, in every state and
\* whatever fails: the writes of the key, the postgres of a node or a whole node.
THEOREM SyncMarked == Spec => []MarkedAsLeader
  <1>1. MarkInv => MarkedAsLeader BY DEF MarkInv, LeaderInv, MarkedAsLeader
  <1> QED BY <1>1, InitMark, MarkStutter, MarkStep, PTL DEF Spec

-----------------------------------------------------------------------------
(* What is in /sync is in synchronous_standby_names *)

\* The types of what the lemmas of this part read besides.
LEMMA NamesType ==
  ASSUME TypeInv
  PROVE  /\ ssn \in [Node -> Names] /\ known \in [Node -> Names]
         /\ flush \in [Node -> 0 .. MaxTxns] /\ ready \in [Node -> SUBSET Node]
         /\ acked \in SUBSET (1 .. MaxTxns)
         /\ Star \notin Node /\ \A x \in Names : x \subseteq Node \/ x = {Star}
  BY SyncAssumption DEF TypeInv, TypeOK, Names

\* The handler of n after current_state() or query_synchronous_standby_names.
LEMMA HandlerEffect ==
  ASSUME TypeInv, NEW n \in Node, NamesChange(n),
         ready' = [ready EXCEPT ![n] = KeptReady(n)] \/ (\E list \in SUBSET Node : ProcessReadiness(n, list))
  PROVE  /\ known'[n] = ssn[n] /\ \A m \in Node \ {n} : known'[m] = known[m]
         /\ flush'[n] = IF ssn[n] = known[n] THEN flush[n] ELSE Len(wal[n])
         /\ \A m \in Node \ {n} : flush'[m] = flush[m] /\ ready'[m] = ready[m]
         /\ ready[n] \subseteq known[n] => ready'[n] \subseteq ssn[n]
  <1>1. /\ known'[n] = ssn[n] /\ \A m \in Node \ {n} : known'[m] = known[m]
        /\ flush'[n] = IF ssn[n] = known[n] THEN flush[n] ELSE Len(wal[n])
        /\ \A m \in Node \ {n} : flush'[m] = flush[m]
    BY NamesType DEF NamesChange
  <1>2. /\ \A m \in Node \ {n} : ready'[m] = ready[m]
        /\ ready'[n] \subseteq KeptReady(n) \cup ssn[n]
    BY NamesType DEF ProcessReadiness
  <1>3. ready[n] \subseteq known[n] => KeptReady(n) \subseteq ssn[n]
    BY DEF KeptReady
  <1> QED BY <1>1, <1>2, <1>3

\* What is decided at the first look at postgres.
LEMMA AssessEffect ==
  ASSUME TypeInv, NEW n \in Node, Assess(n)
  PROVE  \E list \in SUBSET Streaming(n), picked \in SUBSET Node :
           /\ NamesChange(n) /\ ProcessReadiness(n, list) /\ picked \subseteq list
           /\ \/ pc' = [pc EXCEPT ![n] = "idle"]
              \/ /\ sr'[n].seen = sr[n].seen /\ sr'[n].picked = picked
                 /\ sr'[n].allow = SyncOf(n, picked) /\ sr'[n].common \subseteq sr'[n].allow
                 /\ \/ pc' = [pc EXCEPT ![n] = "shrink"]
                    \/ pc' = [pc EXCEPT ![n] = "names"] /\ sr'[n].common = sr[n].seen
           /\ \A m \in Node \ {n} : sr'[m] = sr[m]
  <1>1. PICK picked \in SUBSET Streaming(n) :
       LET seen == sr[n].seen
           allow == SyncOf(n, picked)
           common == IF picked = seen THEN allow ELSE seen \cap allow IN
       /\ CurrentState(n, picked)
       /\ IF picked = seen /\ allow = seen THEN Continue(n, "idle")
          ELSE /\ Goto(n, IF common = seen THEN "names" ELSE "shrink")
               /\ sr' = [sr EXCEPT ![n] = [seen |-> seen, picked |-> picked, allow |-> allow,
                                          common |-> common]]
    BY DEF Assess
  <1>2. PICK list \in SUBSET Streaming(n) :
          NamesChange(n) /\ ProcessReadiness(n, list) /\ picked \subseteq list
    BY <1>1 DEF CurrentState
  <1>3. picked \in SUBSET Node BY DEF Streaming
  <1> DEFINE seen == sr[n].seen
             allow == SyncOf(n, picked)
             common == IF picked = seen THEN allow ELSE seen \cap allow
             new == [seen |-> seen, picked |-> picked, allow |-> allow, common |-> common]
  <1>4. \/ Continue(n, "idle")
        \/ Goto(n, IF common = seen THEN "names" ELSE "shrink") /\ sr' = [sr EXCEPT ![n] = new]
    BY <1>1
  <1>5. CASE Continue(n, "idle")
    BY <1>2, <1>3, <1>5, CycleType DEF Continue, Goto
  <1>6. CASE Goto(n, IF common = seen THEN "names" ELSE "shrink") /\ sr' = [sr EXCEPT ![n] = new]
    <2>1. sr'[n] = new /\ \A m \in Node \ {n} : sr'[m] = sr[m]
      <3> HIDE DEF new
      <3> QED BY <1>6, CycleType
    <2>2. /\ sr'[n].seen = sr[n].seen /\ sr'[n].picked = picked
          /\ sr'[n].allow = SyncOf(n, picked) /\ sr'[n].common = common
      BY <2>1
    <2>3. common \subseteq allow OBVIOUS
    <2>4. \/ pc' = [pc EXCEPT ![n] = "shrink"]
          \/ pc' = [pc EXCEPT ![n] = "names"] /\ common = seen
      BY <1>6 DEF Goto
    <2> HIDE DEF common, new, allow
    <2>5. sr'[n].common \subseteq sr'[n].allow BY <2>2, <2>3 DEF allow
    <2> QED BY <1>2, <1>3, <2>1, <2>2, <2>4, <2>5
  <1> QED BY <1>4, <1>5, <1>6

\* A node keeps its names when another one does a step.
LEMMA NamesFrame ==
  ASSUME NEW n \in Node, NEW m \in Node, MarkInv, NamesInv(m),
         conf'[m] = conf[m], ssn'[m] = ssn[m], known'[m] = known[m], ready'[m] = ready[m],
         pg'[m] = pg[m], pc'[m] = pc[m], sr'[m] = sr[m],
         owner' = owner \/ owner' = NoNode \/ pg[m] \notin {"primary", "crashed"},
         sync' = sync \/ (owner = n /\ m # n /\ sync'.leader = n)
  PROVE  NamesInv(m)'
  <1>1. CycleInv(m) /\ NoNode \notin Node BY SyncAssumption DEF MarkInv
  <1>2. Leads(m)' => Leads(m) BY <1>1 DEF Leads
  <1>3. CASE sync' = sync BY <1>2, <1>3 DEF NamesInv
  <1>4. CASE owner = n /\ m # n /\ sync'.leader = n
    <2>1. pc[m] \notin SyncPcs BY <1>1, <1>4 DEF CycleInv
    <2> QED BY <1>2, <1>4, <2>1 DEF NamesInv, SyncPcs
  <1> QED BY <1>3, <1>4

\* What is in /sync stays in the names, if no Patroni restarts beside a primary.
LEMMA NamesStep ==
  ASSUME MarkInv, ~joins, \A m \in Node : NamesInv(m), Next
  PROVE  \A m \in Node : NamesInv(m)'
  <1> USE DEF dcsVars, haVars, handlerVars, pgVars
  <1>1. PICK n \in Node : NodeStep(n) BY DEF Next
  <1>2. TypeInv /\ KeyInv /\ (\A m \in Node : CycleInv(m) /\ LeaderInv(m)) BY DEF MarkInv
  <1>3. NamesInv(n) /\ CycleInv(n) /\ LeaderInv(n) /\ NoNode \notin Node /\ Star \notin Node
    BY <1>2, SyncAssumption
  <1>4. ASSUME \A m \in Node \ {n} :
                  /\ conf'[m] = conf[m] /\ ssn'[m] = ssn[m] /\ known'[m] = known[m]
                  /\ ready'[m] = ready[m] /\ pg'[m] = pg[m] /\ pc'[m] = pc[m] /\ sr'[m] = sr[m],
               owner' = owner \/ owner' = NoNode,
               sync' = sync \/ (owner = n /\ sync'.leader = n),
               NamesInv(n)'
        PROVE  \A m \in Node : NamesInv(m)'
    BY <1>4, NamesFrame
  <1>5. ASSUME UNCHANGED <<conf, ssn, known, ready, sr, sync, pg>>, owner' \in {owner, NoNode},
               \A m \in Node : pc'[m] = pc[m] \/ pc'[m] \in {"idle", "claim", "race"}
        PROVE  \A m \in Node : NamesInv(m)'
    <2>1. \A m \in Node : Leads(m)' => Leads(m) BY <1>3, <1>5 DEF Leads
    <2> QED BY <1>5, <2>1 DEF NamesInv
  <1>6. CASE LoadCluster(n)
    <2>1. UNCHANGED <<owner, sync, conf, known, ready, pg, ssn>> BY <1>6 DEF LoadCluster
    <2>2. \A m \in Node \ {n} : pc'[m] = pc[m] /\ sr'[m] = sr[m]
      BY <1>2, <1>6, CycleType DEF LoadCluster, Goto
    <2>3. NamesInv(n)'
      <3>1. CASE pg[n] = "primary"
        <4>1. owner = n /\ Reloaded(n) /\ pc' = [pc EXCEPT ![n] = IF sync.leader = NoNode THEN "enable" ELSE "assess"]
          BY <1>6, <3>1 DEF LoadCluster, Goto
        <4>2. (pc'[n] = "enable" /\ sync.leader = NoNode) \/ pc'[n] = "assess"
          BY <1>2, <4>1, CycleType
        <4>3. sr' = [sr EXCEPT ![n].seen = sync.members] BY <1>6, <3>1 DEF LoadCluster
        <4>4. sr'[n].seen = sync.members BY <1>2, <4>3, CycleType
        <4> QED BY <1>3, <2>1, <4>1, <4>2, <4>4 DEF NamesInv, Leads, Reloaded
      <3>2. CASE pg[n] # "primary"
        <4>1. pc'[n] \in {"claim", "race"} BY <1>2, <1>6, <3>2, CycleType DEF LoadCluster, Goto
        <4> QED BY <1>3, <2>1, <3>2, <4>1 DEF NamesInv, Leads
      <3> QED BY <3>1, <3>2
    <2> QED BY <1>4, <2>1, <2>2, <2>3
  <1>7. CASE Acquire(n)
    <2>1. UNCHANGED <<sync, sr, conf, known, ready, pg, ssn>> /\ pg[n] = "standby"
      BY <1>3, <1>7 DEF Acquire, CycleInv
    <2>2. /\ \A m \in Node \ {n} : pc'[m] = pc[m]
          /\ pc'[n] \in {"reload", "idle"} /\ owner' \in {owner, n}
      BY <1>2, <1>7, CycleType DEF Acquire, Goto
    <2>3. \A m \in Node : Leads(m)' => Leads(m) BY <2>1, <2>2, <1>2, CycleType DEF Leads
    <2> QED BY <2>1, <2>2, <2>3 DEF NamesInv
  <1>8. CASE Reload(n)
    <2>1. UNCHANGED <<owner, sync, sr, conf, known, ready, pg, ssn>> BY <1>8 DEF Reload
    <2>2. \A m \in Node : pc'[m] = pc[m] \/ pc'[m] = "claim" BY <1>2, <1>8, CycleType DEF Reload, Goto
    <2> QED BY <1>5, <2>1, <2>2
  \* what a write of the key leaves
  <1>9. ASSUME NEW k \in SUBSET Node, NEW next \in {"idle", "promote", "assess", "names"},
               WriteSync(n, k, next), owner = n
        PROVE  /\ \A m \in Node \ {n} : pc'[m] = pc[m] /\ sr'[m] = sr[m]
               /\ sync' = sync \/ (owner = n /\ sync'.leader = n)
               /\ sync' = [leader |-> n, members |-> k] \/ (sync' = sync /\ pc'[n] = "idle")
               /\ pc'[n] = "idle" \/ (pc'[n] = next /\ sr'[n] = sr[n])
    <2>1. /\ \/ sync' = [leader |-> n, members |-> k]
             \/ sync' = sync /\ pc' = [pc EXCEPT ![n] = "idle"]
          /\ pc' = [pc EXCEPT ![n] = next] \/ pc' = [pc EXCEPT ![n] = "idle"]
          /\ sr' = sr \/ sr' = [sr EXCEPT ![n] = NoSr]
          /\ pc' = [pc EXCEPT ![n] = next] /\ next # "idle" => sr' = sr
      BY <1>2, <1>9, WriteSyncEffect
    <2>2. \A m \in Node \ {n} : pc'[m] = pc[m] /\ sr'[m] = sr[m] BY <2>1, <1>2, CycleType
    <2>3. sync' = [leader |-> n, members |-> k] \/ (sync' = sync /\ pc'[n] = "idle")
      BY <2>1, <1>2, CycleType
    <2>4. pc'[n] = "idle" \/ (pc'[n] = next /\ sr'[n] = sr[n])
      BY <2>1, <1>2, CycleType
    <2> QED BY <1>9, <2>2, <2>3, <2>4
  <1>10. CASE Claim(n)
    <2>1. /\ UNCHANGED <<owner, known, ready, pg, ssn>> /\ pg[n] = "standby" /\ owner = n
          /\ WriteSync(n, {}, "promote")
      BY <1>3, <1>10 DEF Claim, CycleInv
    <2>2. \A m \in Node \ {n} : conf'[m] = conf[m] BY <1>2, <1>10, CycleType DEF Claim
    <2>3. pc'[n] \in {"idle", "promote"} BY <1>9, <2>1
    <2>4. NamesInv(n)' BY <1>3, <2>1, <2>3 DEF NamesInv, Leads
    <2> QED BY <1>4, <1>9, <2>1, <2>2, <2>4
  <1>11. CASE Promote(n)
    <2>1. /\ UNCHANGED <<owner, sync, sr, conf, known, ready>>
          /\ pc'[n] = "idle" /\ pg'[n] = "primary" /\ ssn'[n] = conf[n]
          /\ \A m \in Node \ {n} : pc'[m] = pc[m] /\ pg'[m] = pg[m] /\ ssn'[m] = ssn[m]
      BY <1>2, <1>11, CycleType, NamesType DEF Promote, Goto
    <2>2. sync = [leader |-> n, members |-> {}] BY <1>3, <1>11 DEF Promote, CycleInv
    <2>3. NamesInv(n)' BY <1>3, <2>1, <2>2 DEF NamesInv
    <2> QED BY <1>4, <2>1, <2>3
  <1>12. CASE Enable(n)
    <2>1. /\ UNCHANGED <<owner, conf, known, ready, pg, ssn>> /\ owner = n /\ pg[n] = "primary"
          /\ WriteSync(n, {}, "assess") /\ pc[n] = "enable"
      BY <1>3, <1>12 DEF Enable, CycleInv, SyncPcs
    <2>2. sync.members = {} /\ sr[n].seen = {} BY <1>2, <1>3, <2>1 DEF NamesInv, KeyInv
    <2>3. /\ sync' = [leader |-> n, members |-> {}] \/ (sync' = sync /\ pc'[n] = "idle")
          /\ pc'[n] = "idle" \/ (pc'[n] = "assess" /\ sr'[n] = sr[n])
      BY <1>9, <2>1
    <2>5. sync'.members = {} BY <2>2, <2>3
    <2>6. sr'[n] = sr[n] => sr'[n].seen = {} BY <2>2
    <2>4. NamesInv(n)' BY <1>3, <2>1, <2>3, <2>5, <2>6 DEF NamesInv, Leads
    <2> QED BY <1>4, <1>9, <2>1, <2>4
  <1>13. CASE Assess(n)
    <2>1. UNCHANGED <<owner, sync, conf, pg, ssn>> /\ pc[n] = "assess" BY <1>13 DEF Assess
    <2>2. PICK list \in SUBSET Streaming(n), picked \in SUBSET Node :
           /\ NamesChange(n) /\ ProcessReadiness(n, list) /\ picked \subseteq list
           /\ \/ pc' = [pc EXCEPT ![n] = "idle"]
              \/ /\ sr'[n].seen = sr[n].seen /\ sr'[n].picked = picked
                 /\ sr'[n].allow = SyncOf(n, picked) /\ sr'[n].common \subseteq sr'[n].allow
                 /\ \/ pc' = [pc EXCEPT ![n] = "shrink"]
                    \/ pc' = [pc EXCEPT ![n] = "names"] /\ sr'[n].common = sr[n].seen
           /\ \A m \in Node \ {n} : sr'[m] = sr[m]
      BY <1>2, <1>13, AssessEffect
    <2>3. list \in SUBSET Node BY DEF Streaming
    <2>4. /\ known'[n] = ssn[n] /\ \A m \in Node \ {n} : known'[m] = known[m] /\ ready'[m] = ready[m]
          /\ ready'[n] \subseteq ssn[n]
      BY <1>2, <1>3, <2>2, <2>3, HandlerEffect DEF NamesInv
    <2>5. SyncOf(n, picked) \subseteq picked /\ SyncOf(n, picked) \subseteq ssn[n] BY DEF SyncOf
    <2>6. \A m \in Node \ {n} : pc'[m] = pc[m] BY <1>2, <2>2, CycleType
    <2>7. CASE pc' = [pc EXCEPT ![n] = "idle"]
      <3>1. pc'[n] = "idle" BY <1>2, <2>7, CycleType
      <3>2. NamesInv(n)' BY <1>3, <2>1, <2>4, <3>1 DEF NamesInv, Leads
      <3> QED BY <1>4, <2>1, <2>2, <2>4, <2>6, <3>2
    <2>8. CASE /\ sr'[n].seen = sr[n].seen /\ sr'[n].picked = picked
               /\ sr'[n].allow = SyncOf(n, picked) /\ sr'[n].common \subseteq sr'[n].allow
               /\ \/ pc' = [pc EXCEPT ![n] = "shrink"]
                  \/ pc' = [pc EXCEPT ![n] = "names"] /\ sr'[n].common = sr[n].seen
      <3>1. pc'[n] = "shrink" \/ (pc'[n] = "names" /\ sr'[n].common = sr[n].seen)
        BY <1>2, <2>8, CycleType
      <3>2. NamesInv(n)' BY <1>3, <2>1, <2>4, <2>5, <2>8, <3>1 DEF NamesInv, Leads
      <3> QED BY <1>4, <2>1, <2>2, <2>4, <2>6, <3>2
    <2> QED BY <2>2, <2>7, <2>8
  <1>14. CASE Shrink(n)
    <2>1. /\ UNCHANGED <<owner, conf, known, ready, pg, ssn>> /\ owner = n /\ pg[n] = "primary"
          /\ WriteSync(n, sr[n].common, "names") /\ pc[n] = "shrink" /\ sr[n].common \in SUBSET Node
      BY <1>2, <1>3, <1>14, CycleType DEF Shrink, CycleInv, SyncPcs
    <2>2. /\ sync' = [leader |-> n, members |-> sr[n].common] \/ (sync' = sync /\ pc'[n] = "idle")
          /\ pc'[n] = "idle" \/ (pc'[n] = "names" /\ sr'[n] = sr[n])
      BY <1>9, <2>1
    <2>3. sr[n].common \subseteq ssn[n] /\ ssn[n] = conf[n] BY <1>3, <2>1 DEF NamesInv
    <2>4. NamesInv(n)' BY <1>3, <2>1, <2>2, <2>3 DEF NamesInv, Leads
    <2> QED BY <1>4, <1>9, <2>1, <2>4
  <1>15. CASE SetNames(n)
    <2>1. /\ UNCHANGED <<owner, sync, sr, known, ready, pg, ssn>> /\ pc[n] = "names"
          /\ conf'[n] = NewNames(n) /\ pc'[n] \in {"settle", "recheck", "publish"}
          /\ \A m \in Node \ {n} : conf'[m] = conf[m] /\ pc'[m] = pc[m]
      BY <1>2, <1>15, CycleType DEF SetNames, Goto
    <2>2. NewNames(n) = sr[n].picked \/ (sr[n].picked = {} /\ NewNames(n) = {Star}) BY DEF NewNames
    <2>3. sr[n].allow \subseteq NewNames(n) BY <1>3, <2>1, <2>2 DEF NamesInv
    <2>4. sync.members \subseteq NewNames(n) BY <1>3, <2>1, <2>3 DEF NamesInv
    <2>5. NamesInv(n)' BY <1>3, <2>1, <2>3, <2>4 DEF NamesInv, Leads
    <2> QED BY <1>4, <2>1, <2>5
  <1>16. CASE Settle(n)
    <2>1. /\ UNCHANGED <<owner, sync, sr, conf, pg, ssn>> /\ pc[n] = "settle" /\ NamesChange(n)
          /\ pc'[n] \in {"recheck", "publish"} /\ \A m \in Node \ {n} : pc'[m] = pc[m]
      BY <1>2, <1>16, CycleType DEF Settle, Goto
    <2>2. /\ known'[n] = ssn[n] /\ \A m \in Node \ {n} : known'[m] = known[m] /\ ready'[m] = ready[m]
          /\ ready'[n] \subseteq ssn[n]
      BY <1>2, <1>3, <1>16, HandlerEffect DEF Settle, NamesInv
    <2>3. NamesInv(n)' BY <1>3, <2>1, <2>2 DEF NamesInv, Leads
    <2> QED BY <1>4, <2>1, <2>2, <2>3
  <1>17. CASE AssessAgain(n)
    <2>1. /\ UNCHANGED <<owner, sync, conf, pg, ssn>> /\ pc[n] = "recheck" /\ Reloaded(n)
          /\ pc'[n] = "publish" /\ \A m \in Node \ {n} : pc'[m] = pc[m]
      BY <1>2, <1>17, CycleType DEF AssessAgain, Goto
    <2>2. PICK picked \in SUBSET Streaming(n) :
            CurrentState(n, picked) /\ sr' = [sr EXCEPT ![n].allow = SyncOf(n, picked)]
      BY <1>17 DEF AssessAgain
    <2>3. /\ known'[n] = ssn[n] /\ \A m \in Node \ {n} : known'[m] = known[m] /\ ready'[m] = ready[m]
          /\ ready'[n] \subseteq ssn[n]
      BY <1>2, <1>3, <2>2, HandlerEffect DEF CurrentState, Streaming, NamesInv
    <2>4. sr'[n].allow = SyncOf(n, picked) /\ \A m \in Node \ {n} : sr'[m] = sr[m]
      BY <1>2, <2>2, CycleType
    <2>5. SyncOf(n, picked) \subseteq ssn[n] /\ ssn[n] = conf[n] BY <2>1 DEF SyncOf, Reloaded
    <2>6. NamesInv(n)' BY <1>3, <2>1, <2>3, <2>4, <2>5 DEF NamesInv, Leads
    <2> QED BY <1>4, <2>1, <2>3, <2>4, <2>6
  <1>18. CASE Publish(n)
    <2>1. /\ UNCHANGED <<owner, conf, known, ready, pg, ssn>> /\ owner = n /\ pg[n] = "primary"
          /\ pc[n] = "publish" /\ sr[n].allow \in SUBSET Node
      BY <1>2, <1>3, <1>18, CycleType DEF Publish, CycleInv, SyncPcs
    <2>2. CASE Continue(n, "idle") /\ UNCHANGED <<sync, fresh>>
      <3>1. pc'[n] = "idle" /\ \A m \in Node \ {n} : pc'[m] = pc[m] /\ sr'[m] = sr[m]
        BY <1>2, <2>2, CycleType DEF Continue, Goto
      <3>2. NamesInv(n)' BY <1>3, <2>1, <2>2, <3>1 DEF NamesInv, Leads
      <3> QED BY <1>4, <2>1, <2>2, <3>1, <3>2
    <2>3. CASE WriteSync(n, sr[n].allow, "idle")
      <3>1. pc'[n] = "idle" /\ (sync' = sync \/ sync' = [leader |-> n, members |-> sr[n].allow])
        BY <1>9, <2>1, <2>3
      <3>2. sr[n].allow \subseteq ssn[n] /\ sr[n].allow \subseteq conf[n] BY <1>3, <2>1 DEF NamesInv
      <3>3. NamesInv(n)' BY <1>3, <2>1, <3>1, <3>2 DEF NamesInv, Leads
      <3> QED BY <1>4, <1>9, <2>1, <2>3, <3>3
    <2> QED BY <1>18, <2>2, <2>3 DEF Publish
  <1>19. CASE ReloadNames(n)
    <2>1. /\ UNCHANGED <<owner, sync, conf, known, ready, pg, sr, pc>>
          /\ pg[n] = "primary" /\ ssn[n] # conf[n] /\ ssn'[n] = conf[n]
          /\ \A m \in Node \ {n} : ssn'[m] = ssn[m]
      BY <1>2, <1>19, NamesType DEF ReloadNames
    <2>2. owner = n BY <1>3, <2>1 DEF CycleInv
    <2>3. NamesInv(n)' BY <1>3, <2>1, <2>2 DEF NamesInv, Leads
    <2> QED BY <1>4, <2>1, <2>3
  <1>20. CASE Commit(n) \/ Ack(n) \/ Stream(n) \/ Disconnect(n) \/ \E p \in Node : Connect(n, p)
    BY <1>5, <1>20 DEF Commit, Ack, Stream, Disconnect, Connect
  \* a node that is not, or is no longer, a primary
  <1>21. ASSUME sync' = sync, owner' = owner \/ owner' = NoNode, pg'[n] \notin {"primary", "crashed"},
                pc'[n] = "idle", ready'[n] \subseteq known'[n],
                \A m \in Node \ {n} :
                  /\ conf'[m] = conf[m] /\ ssn'[m] = ssn[m] /\ known'[m] = known[m]
                  /\ ready'[m] = ready[m] /\ pg'[m] = pg[m] /\ pc'[m] = pc[m] /\ sr'[m] = sr[m]
         PROVE  \A m \in Node : NamesInv(m)'
    <2>1. NamesInv(n)' BY <1>21 DEF NamesInv, Leads
    <2> QED BY <1>4, <1>21, <2>1
  <1>22. ASSUME MachineStops(n), sync' = sync, owner' = owner \/ owner' = NoNode
         PROVE  \A m \in Node : NamesInv(m)'
    <2>1. /\ pg'[n] = "down" /\ pc'[n] = "idle" /\ ready'[n] = {}
          /\ \A m \in Node \ {n} :
                  /\ conf'[m] = conf[m] /\ ssn'[m] = ssn[m] /\ known'[m] = known[m]
                  /\ ready'[m] = ready[m] /\ pg'[m] = pg[m] /\ pc'[m] = pc[m] /\ sr'[m] = sr[m]
      BY <1>2, <1>22, CycleType, NamesType DEF MachineStops, NewProcess, Continue, Goto
    <2> QED BY <1>21, <1>22, <2>1
  <1>23. CASE MachineCrash(n) BY <1>22, <1>23 DEF MachineCrash
  <1>24. CASE PgCrash(n)
    <2>1. /\ UNCHANGED <<owner, sync, conf, known, ready>> /\ pc'[n] = "idle"
          /\ pg'[n] = IF pg[n] = "primary" THEN "crashed" ELSE "down"
          /\ \A m \in Node \ {n} :
                ssn'[m] = ssn[m] /\ pg'[m] = pg[m] /\ pc'[m] = pc[m] /\ sr'[m] = sr[m]
      BY <1>2, <1>24, CycleType, NamesType DEF PgCrash, Continue, Goto
    <2>2. NamesInv(n)' BY <1>3, <2>1 DEF NamesInv, Leads
    <2> QED BY <1>4, <2>1, <2>2
  <1>25. CASE RecoverPrimary(n)
    <2>1. /\ UNCHANGED <<owner, sync, conf, known, ready, pc, sr>> /\ owner = n /\ pg[n] = "crashed"
          /\ pg'[n] = "primary" /\ ssn'[n] = conf[n]
          /\ \A m \in Node \ {n} : ssn'[m] = ssn[m] /\ pg'[m] = pg[m]
      BY <1>2, <1>25, CycleType, NamesType DEF RecoverPrimary
    <2>2. pc[n] \notin SyncPcs BY <1>3, <2>1 DEF CycleInv
    <2>3. NamesInv(n)' BY <1>3, <2>1, <2>2 DEF NamesInv, Leads, SyncPcs
    <2> QED BY <1>4, <2>1, <2>3
  <1>26. CASE StartStandby(n)
    <2>1. /\ UNCHANGED <<owner, sync, known, ready, pc, sr>> /\ pg'[n] = "standby"
          /\ \A m \in Node \ {n} : conf'[m] = conf[m] /\ ssn'[m] = ssn[m] /\ pg'[m] = pg[m]
      BY <1>2, <1>26, CycleType, NamesType DEF StartStandby
    <2>2. pc[n] \notin SyncPcs BY <1>3, <1>26 DEF StartStandby, CycleInv, SyncPcs
    <2>3. NamesInv(n)' BY <1>3, <2>1, <2>2 DEF NamesInv, Leads, SyncPcs
    <2> QED BY <1>4, <2>1, <2>3
  <1>27. CASE LoseKey(n)
    <2>1. owner' = NoNode /\ sync' = sync BY <1>27 DEF LoseKey
    <2>2. CASE MachineStops(n) BY <1>22, <2>1, <2>2
    <2>3. CASE UNCHANGED <<haVars, conf, handlerVars, pgVars>> BY <1>5, <2>1, <2>3
    <2> QED BY <1>27, <2>2, <2>3 DEF LoseKey
  <1>28. ~JoinRunning(n) BY DEF JoinRunning
  <1> QED BY <1>1, <1>6, <1>7, <1>8, <1>10, <1>11, <1>12, <1>13, <1>14, <1>15, <1>16, <1>17,
             <1>18, <1>19, <1>20, <1>23, <1>24, <1>25, <1>26, <1>27, <1>28 DEF NodeStep, ProcessSync

\* What is published as synchronous is set in the running postgres of the leader,
\* through every promotion, restart of postgres, reset of a machine and failed or
\* half-done write of the key.
THEOREM SyncPublished == Spec => []PublishedIsSet
  <1> DEFINE Inv == MarkInv /\ (~joins => \A n \in Node : NamesInv(n))
  <1>1. Init => Inv
    BY InitMark DEF Init, NamesInv, SyncPcs, Leads
  <1>2. Inv /\ UNCHANGED vars => Inv'
    BY MarkStutter DEF vars, dcsVars, haVars, handlerVars, pgVars, NamesInv, Leads
  <1>3. Inv /\ Next => Inv'
    BY MarkStep, NamesStep DEF Next
  <1>4. Inv => PublishedIsSet
    BY DEF MarkInv, CycleInv, NamesInv, PublishedIsSet
  <1> QED BY <1>1, <1>2, <1>3, <1>4, PTL DEF Spec

-----------------------------------------------------------------------------
(* No acknowledged transaction is lost *)

\* The elements of a WAL.
LEMMA RangeOf ==
  ASSUME TypeInv, NEW n \in Node
  PROVE  /\ Range(wal[n]) = {wal[n][i] : i \in 1 .. Len(wal[n])}
         /\ Len(wal[n]) \in Nat
  BY LenType, RangeEquality

\* Who has what stays the same when no WAL is written and nothing is reported.
LEMMA SafeFrame ==
  ASSUME UNCHANGED <<wal, acked>>, NEW s \in Node, NEW n \in Node
  PROVE  /\ Safe(s)' = Safe(s) /\ Candidate(s, n)' = Candidate(s, n)
         /\ flush'[n] = flush[n] => Caught(s, n)' = Caught(s, n)
  BY DEF Safe, Candidate, Prefix, Caught

\* A commit, a streamed transaction and a standby that connects leave every part of
\* the WAL of the primary a part of it, and take nothing from who had such a part.
LEMMA WalSteps ==
  ASSUME MarkInv, TypeInv', NEW n \in Node,
         Commit(n) \/ Stream(n) \/ \E p \in Node : Connect(n, p)
  PROVE  \E p \in Node :
           /\ pg[p] = "primary" /\ owner = p
           /\ \A x \in Node : Prefix(x, p) => Prefix(x, p)' /\ Range(wal[x]) \subseteq Range(wal'[x])
           /\ \A i \in 1 .. Len(wal[p]) : i \in 1 .. Len(wal'[p]) /\ wal'[p][i] = wal[p][i]
           /\ UNCHANGED <<dcsVars, haVars, conf, handlerVars, pg, ssn, acked>>
  <1>1. TypeInv /\ \A m \in Node : CycleInv(m) /\ LinkInv(m) BY DEF MarkInv
  <1>8. \A x \in Node : wal[x] \in Seq(1 .. MaxTxns) /\ wal'[x] \in Seq(1 .. MaxTxns)
    BY <1>1 DEF TypeInv
  <1>2. \A x \in Node : Len(wal[x]) \in Nat /\ Len(wal'[x]) \in Nat BY <1>8, LenProperties
  <1>3. \A x \in Node : /\ Range(wal[x]) = {wal[x][i] : i \in 1 .. Len(wal[x])}
                        /\ Range(wal'[x]) = {wal'[x][i] : i \in 1 .. Len(wal'[x])}
    BY <1>8, RangeEquality
  <1>9. ASSUME NEW x \in Node,
               \A i \in 1 .. Len(wal[x]) : i \in 1 .. Len(wal'[x]) /\ wal'[x][i] = wal[x][i]
        PROVE  Range(wal[x]) \subseteq Range(wal'[x])
    <2>1. SUFFICES ASSUME NEW t \in Range(wal[x]) PROVE t \in Range(wal'[x]) OBVIOUS
    <2>2. PICK i \in 1 .. Len(wal[x]) : t = wal[x][i] BY <1>3
    <2>3. i \in 1 .. Len(wal'[x]) /\ wal'[x][i] = t BY <1>9, <2>2
    <2>4. Range(wal'[x]) = {wal'[x][j] : j \in 1 .. Len(wal'[x])} BY <1>3
    <2> QED BY <2>3, <2>4
  <1>4. ASSUME NEW p \in Node, pg[p] = "primary",
               \A i \in 1 .. Len(wal[p]) : i \in 1 .. Len(wal'[p]) /\ wal'[p][i] = wal[p][i],
               \A x \in Node \ {p} : Prefix(x, p) =>
                  /\ Len(wal[x]) <= Len(wal'[x]) /\ Len(wal'[x]) <= Len(wal'[p])
                  /\ \A i \in 1 .. Len(wal'[x]) : wal'[x][i] = wal'[p][i]
        PROVE  /\ owner = p
               /\ \A x \in Node : Prefix(x, p) => Prefix(x, p)' /\ Range(wal[x]) \subseteq Range(wal'[x])
    <2>1. owner = p BY <1>1, <1>4 DEF CycleInv
    <2>4. Prefix(p, p)' BY <1>2 DEF Prefix
    <2>2. Prefix(p, p)' /\ Range(wal[p]) \subseteq Range(wal'[p])
      BY <1>4, <1>9, <2>4
    <2>3. ASSUME NEW x \in Node \ {p}, Prefix(x, p)
          PROVE  Prefix(x, p)' /\ Range(wal[x]) \subseteq Range(wal'[x])
      <3>1. Prefix(x, p)' BY <1>4, <2>3 DEF Prefix
      <3>2. ASSUME NEW i \in 1 .. Len(wal[x])
            PROVE  i \in 1 .. Len(wal'[x]) /\ wal'[x][i] = wal[x][i]
        <4>1. i \in 1 .. Len(wal'[x]) /\ i \in 1 .. Len(wal[p]) BY <1>2, <1>4, <2>3 DEF Prefix
        <4>2. wal[x][i] = wal[p][i] BY <2>3 DEF Prefix
        <4>3. wal'[x][i] = wal'[p][i] BY <1>4, <2>3, <4>1
        <4>4. wal'[p][i] = wal[p][i] BY <1>4, <4>1
        <4> QED BY <4>1, <4>2, <4>3, <4>4
      <3> QED BY <1>9, <3>1, <3>2
    <2> QED BY <2>1, <2>2, <2>3
  <1>5. CASE Commit(n)
    <2>1. /\ Len(wal'[n]) = Len(wal[n]) + 1 /\ \A i \in 1 .. Len(wal[n]) : wal'[n][i] = wal[n][i]
          /\ \A x \in Node \ {n} : wal'[x] = wal[x]
      BY <1>1, <1>5, CommitEffect
    <2>2. \A i \in 1 .. Len(wal[n]) : i \in 1 .. Len(wal'[n]) /\ wal'[n][i] = wal[n][i]
      BY <1>2, <2>1
    <2>3. \A x \in Node \ {n} : Prefix(x, n) =>
                  /\ Len(wal[x]) <= Len(wal'[x]) /\ Len(wal'[x]) <= Len(wal'[n])
                  /\ \A i \in 1 .. Len(wal'[x]) : wal'[x][i] = wal'[n][i]
      BY <1>2, <2>1 DEF Prefix
    <2>4. pg[n] = "primary" /\ UNCHANGED <<dcsVars, haVars, conf, handlerVars, pg, ssn, acked>>
      BY <1>5 DEF Commit
    <2> QED BY <1>4, <2>2, <2>3, <2>4
  <1>6. CASE Stream(n)
    <2>1. PICK p \in Node : p = link[n] BY <1>1, <1>6, StreamEffect
    <2>2. /\ Len(wal[n]) < Len(wal[p]) /\ Len(wal'[n]) = Len(wal[n]) + 1
          /\ \A i \in 1 .. Len(wal[n]) + 1 : wal'[n][i] = wal[p][i]
          /\ \A x \in Node \ {n} : wal'[x] = wal[x]
      BY <1>1, <1>6, <2>1, StreamEffect
    <2>3. pg[p] = "primary" /\ pg[n] = "standby" BY <1>1, <2>1, SyncAssumption DEF LinkInv
    <2>4. wal'[p] = wal[p] BY <2>2, <2>3
    <2>5. \A x \in Node \ {p} : Prefix(x, p) =>
                  /\ Len(wal[x]) <= Len(wal'[x]) /\ Len(wal'[x]) <= Len(wal'[p])
                  /\ \A i \in 1 .. Len(wal'[x]) : wal'[x][i] = wal'[p][i]
      BY <1>2, <2>2, <2>4 DEF Prefix
    <2>6. UNCHANGED <<dcsVars, haVars, conf, handlerVars, pg, ssn, acked>> BY <1>6 DEF Stream
    <2> QED BY <1>4, <2>3, <2>4, <2>5, <2>6
  <1>7. CASE \E p \in Node : Connect(n, p)
    <2>1. PICK p \in Node : Connect(n, p) BY <1>7
    <2>2. /\ \E k \in 0 .. Len(wal[p]) :
               /\ \A j \in Shared(n, p) : j <= k
               /\ Len(wal'[n]) = k /\ \A i \in 1 .. k : wal'[n][i] = wal[p][i]
               /\ link' = [link EXCEPT ![n] = IF k = Len(wal[p]) THEN p ELSE NoNode]
          /\ \A x \in Node \ {n} : wal'[x] = wal[x]
      BY <1>1, <2>1, ConnectEffect
    <2>3. PICK k \in 0 .. Len(wal[p]) :
               /\ \A j \in Shared(n, p) : j <= k
               /\ Len(wal'[n]) = k /\ \A i \in 1 .. k : wal'[n][i] = wal[p][i]
      BY <2>2
    <2>4. pg[p] = "primary" /\ pg[n] = "standby" BY <2>1 DEF Connect
    <2>5. wal'[p] = wal[p] BY <2>2, <2>4
    <2>6. Prefix(n, p) => Len(wal[n]) \in Shared(n, p) BY <1>1, SharedPrefix
    <2>7. Prefix(n, p) => Len(wal[n]) <= Len(wal'[n]) BY <2>3, <2>6
    <2>8. \A x \in Node \ {p} : Prefix(x, p) =>
                  /\ Len(wal[x]) <= Len(wal'[x]) /\ Len(wal'[x]) <= Len(wal'[p])
                  /\ \A i \in 1 .. Len(wal'[x]) : wal'[x][i] = wal'[p][i]
      <3>1. ASSUME NEW x \in Node \ {p}, Prefix(x, p)
            PROVE  /\ Len(wal[x]) <= Len(wal'[x]) /\ Len(wal'[x]) <= Len(wal'[p])
                   /\ \A i \in 1 .. Len(wal'[x]) : wal'[x][i] = wal'[p][i]
        <4>1. CASE x = n BY <1>2, <2>3, <2>5, <2>7, <3>1, <4>1
        <4>2. CASE x # n BY <1>2, <2>2, <2>5, <3>1, <4>2 DEF Prefix
        <4> QED BY <4>1, <4>2
      <3> QED BY <3>1
    <2>9. UNCHANGED <<dcsVars, haVars, conf, handlerVars, pg, ssn, acked>> BY <2>1 DEF Connect
    <2> QED BY <1>4, <2>4, <2>5, <2>8, <2>9
  <1> QED BY <1>5, <1>6, <1>7

\* A growing WAL keeps what the loss of no transaction rests on.
LEMMA LossWal ==
  ASSUME MarkInv, MarkInv', LossInv, NEW n \in Node,
         Commit(n) \/ Stream(n) \/ \E p \in Node : Connect(n, p)
  PROVE  CandidateInv' /\ OwnerInv' /\ \A m \in Node : ReadyInv(m)' /\ DecidedInv(m)'
  <1> USE DEF dcsVars, haVars, handlerVars, pgVars
  <1>1. TypeInv' BY DEF MarkInv
  <1>2. PICK p \in Node :
           /\ pg[p] = "primary" /\ owner = p
           /\ \A x \in Node : Prefix(x, p) => Prefix(x, p)' /\ Range(wal[x]) \subseteq Range(wal'[x])
           /\ \A i \in 1 .. Len(wal[p]) : i \in 1 .. Len(wal'[p]) /\ wal'[p][i] = wal[p][i]
           /\ UNCHANGED <<dcsVars, haVars, conf, handlerVars, pg, ssn, acked>>
    BY <1>1, WalSteps
  <1>3. sync.leader \in {p, NoNode} /\ (\A m \in Node : CycleInv(m)) /\ NoNode \notin Node
    BY <1>2, SyncAssumption DEF MarkInv, LeaderInv
  <1>4. \A x \in Node : Candidate(x, p) => Candidate(x, p)'
    BY <1>2 DEF Candidate, Safe
  <1>5. Safe(p) /\ Prefix(p, p)
    BY <1>2, <1>3 DEF LossInv, OwnerInv, Prefix
  <1>6. Safe(p)' BY <1>2, <1>5 DEF Safe
  <1>7. \A x \in Node : Caught(x, p) => Caught(x, p)'
    BY <1>2 DEF Caught
  <1>8. sync \in [leader : Node \cup {NoNode}, members : SUBSET Node] /\ sync' = sync
        /\ (\A m \in Node : ready[m] \in SUBSET Node)
        /\ (\A m \in Node : sr[m].seen \in SUBSET Node /\ sr[m].allow \in SUBSET Node)
    BY <1>2 DEF MarkInv, TypeInv, TypeOK
  <1>9. CandidateInv'
    BY <1>3, <1>4, <1>6, <1>8 DEF LossInv, CandidateInv
  <1>10. OwnerInv'
    BY <1>2, <1>3, <1>6 DEF LossInv, OwnerInv, MayRace
  <1>11. ASSUME NEW m \in Node PROVE ReadyInv(m)'
    BY <1>2, <1>4, <1>7, <1>8 DEF LossInv, ReadyInv, Leads
  <1>12. ASSUME NEW m \in Node PROVE DecidedInv(m)'
    <2>1. CASE m = p BY <1>2, <1>4, <1>8, <2>1 DEF LossInv, DecidedInv
    <2>2. CASE m # p
      <3>1. pc'[m] \notin SyncPcs BY <1>2, <1>3, <2>2 DEF CycleInv
      <3> QED BY <3>1 DEF DecidedInv, SyncPcs
    <2> QED BY <2>1, <2>2
  <1> QED BY <1>9, <1>10, <1>11, <1>12

\* What is reported as committed is what every synchronous standby has.
LEMMA LossAck ==
  ASSUME MarkInv, LossInv, NEW n \in Node, Ack(n)
  PROVE  CandidateInv' /\ OwnerInv' /\ \A m \in Node : ReadyInv(m)' /\ DecidedInv(m)'
  <1> USE DEF dcsVars, haVars, handlerVars, pgVars
  <1>1. /\ UNCHANGED <<owner, sync, pc, sr, conf, known, flush, ready, pg, ssn, wal>>
        /\ pg[n] = "primary" /\ sync.leader # NoNode
    BY DEF Ack
  <1>2. TypeInv /\ (\A m \in Node : CycleInv(m) /\ LinkInv(m) /\ LeaderInv(m)) /\ NoNode \notin Node
    BY SyncAssumption DEF MarkInv
  <1>3. owner = n /\ sync.leader = n BY <1>1, <1>2 DEF CycleInv, LeaderInv
  <1>4. PICK k \in 1 .. Len(wal[n]) :
          /\ IF ssn[n] = {Star} THEN \E s \in Streaming(n) : Len(wal[s]) >= k
             ELSE \A s \in ssn[n] : link[s] = n /\ Len(wal[s]) >= k
          /\ acked' = acked \cup {wal[n][i] : i \in 1 .. k}
    BY DEF Ack
  <1>5. Star \notin Node BY SyncAssumption
  <1>6. \A x \in Node : Len(wal[x]) \in Nat /\ Range(wal[x]) = {wal[x][i] : i \in 1 .. Len(wal[x])}
    BY <1>2, RangeOf
  <1>7. Safe(n)'
    <2>1. Safe(n) BY <1>2, <1>3 DEF LossInv, OwnerInv
    <2>2. \A i \in 1 .. k : i \in 1 .. Len(wal[n]) BY <1>6
    <2> QED BY <1>1, <1>4, <1>6, <2>1, <2>2 DEF Safe
  <1>8. ASSUME NEW s \in ssn[n] \cap Node
        PROVE  Prefix(s, n) /\ {wal[n][i] : i \in 1 .. k} \subseteq Range(wal[s])
    <2>1. link[s] = n /\ Len(wal[s]) >= k BY <1>4, <1>5
    <2>2. Prefix(s, n) BY <1>2, <2>1 DEF LinkInv
    <2>3. \A i \in 1 .. k : i \in 1 .. Len(wal[s]) /\ wal[s][i] = wal[n][i]
      BY <1>6, <2>1, <2>2 DEF Prefix
    <2> QED BY <1>6, <2>2, <2>3
  <1>9. ASSUME NEW s \in ssn[n] \cap Node, Candidate(s, n) PROVE Candidate(s, n)'
    BY <1>1, <1>4, <1>8, <1>9 DEF Candidate, Safe, Prefix
  <1>10. ASSUME NEW s \in ssn[n] \cap Node, Caught(s, n) PROVE Caught(s, n)'
    <2>1. Prefix(s, n) /\ {wal[n][i] : i \in 1 .. k} \subseteq Range(wal[s]) BY <1>8
    <2>2. Prefix(s, n)' BY <1>1, <2>1 DEF Prefix
    <2> QED BY <1>1, <1>4, <1>10, <2>1, <2>2 DEF Caught
  <1>11. /\ sync.members \subseteq ssn[n] /\ ssn[n] \in {conf[n], known[n]} /\ ready[n] \subseteq known[n]
         /\ sync.members \in SUBSET Node /\ ready[n] \in SUBSET Node
         /\ sr[n].seen \in SUBSET Node /\ sr[n].allow \in SUBSET Node
    BY <1>1, <1>2, <1>3 DEF LossInv, NamesInv, TypeInv, TypeOK
  <1>12. CandidateInv'
    BY <1>1, <1>3, <1>7, <1>9, <1>11 DEF LossInv, CandidateInv
  <1>13. OwnerInv'
    BY <1>1, <1>2, <1>3, <1>7 DEF LossInv, OwnerInv
  <1>14. ASSUME NEW m \in Node PROVE ReadyInv(m)'
    <2>1. CASE m = n
      <3>1. \A s \in ready[n] \cap conf[n] : s \in ssn[n] \cap Node BY <1>11
      <3>2. \A s \in known[n] \cap conf[n] \cap Node : s \in ssn[n] \cap Node BY <1>11
      <3>3. ReadyInv(n) /\ Leads(n) BY <1>1, <1>3 DEF LossInv, Leads
      <3> QED BY <1>1, <1>9, <1>10, <2>1, <3>1, <3>2, <3>3 DEF ReadyInv
    <2>2. CASE m # n
      <3>1. ~Leads(m)' BY <1>1, <1>3, <2>2 DEF Leads
      <3> QED BY <3>1 DEF ReadyInv
    <2> QED BY <2>1, <2>2
  <1>15. ASSUME NEW m \in Node PROVE DecidedInv(m)'
    <2>1. CASE m = n
      <3>1. DecidedInv(n) /\ NamesInv(n) BY DEF LossInv
      <3>2. pc[n] \in {"shrink", "names", "settle", "recheck", "publish"} =>
              sr[n].allow \subseteq ssn[n] \cap Node
        BY <1>11, <3>1 DEF NamesInv
      <3> QED BY <1>1, <1>9, <1>11, <2>1, <3>1, <3>2 DEF DecidedInv
    <2>2. CASE m # n
      <3>1. pc'[m] \notin SyncPcs BY <1>1, <1>2, <1>3, <2>2 DEF CycleInv
      <3> QED BY <3>1 DEF DecidedInv, SyncPcs
    <2> QED BY <2>1, <2>2
  <1> QED BY <1>12, <1>13, <1>14, <1>15

\* A node keeps what it knows when another one does a step that writes no WAL.
LEMMA LossFrame ==
  ASSUME MarkInv, LossInv, NEW m \in Node, UNCHANGED <<wal, acked>>,
         conf'[m] = conf[m], ssn'[m] = ssn[m], known'[m] = known[m], ready'[m] = ready[m],
         flush'[m] = flush[m], pg'[m] = pg[m], pc'[m] = pc[m], sr'[m] = sr[m],
         owner' = owner \/ owner' = NoNode \/ pg[m] \notin {"primary", "crashed"}
  PROVE  ReadyInv(m)' /\ DecidedInv(m)'
  <1>1. NoNode \notin Node BY SyncAssumption
  <1>2. Leads(m)' => Leads(m) BY <1>1 DEF Leads
  <1>3. \A x \in Node : Candidate(x, m)' = Candidate(x, m) /\ Caught(x, m)' = Caught(x, m)
    BY SafeFrame
  <1>4. ready[m] \in SUBSET Node /\ sr[m].seen \in SUBSET Node /\ sr[m].allow \in SUBSET Node
    BY DEF MarkInv, TypeInv, TypeOK
  <1>5. ReadyInv(m)' BY <1>2, <1>3, <1>4 DEF LossInv, ReadyInv
  <1>6. DecidedInv(m)' BY <1>3, <1>4 DEF LossInv, DecidedInv
  <1> QED BY <1>5, <1>6

\* What n knows after it has asked postgres: the standbys it finds ready have all
\* that was reported.
LEMMA ReadyStep ==
  ASSUME MarkInv, LossInv, NEW n \in Node, NamesChange(n), UNCHANGED <<wal, acked, conf, pg, owner, ssn>>,
         pg[n] = "primary", owner = n,
         \/ ready' = [ready EXCEPT ![n] = KeptReady(n)]
         \/ \E list \in SUBSET Streaming(n) :
              ProcessReadiness(n, list) /\ \A s \in sr[n].seen \cap ssn[n] \cap conf[n] : Candidate(s, n)
  PROVE  /\ ReadyInv(n)'
         /\ \A s \in ready'[n] \cap conf[n] \cap ssn[n] : Candidate(s, n)
  <1>1. TypeInv /\ LinkInv(n) /\ Leads(n) /\ ReadyInv(n) /\ Safe(n) /\ NoNode \notin Node
    BY SyncAssumption DEF MarkInv, LossInv, OwnerInv, Leads
  <1>2. /\ known'[n] = ssn[n]
        /\ flush'[n] = IF ssn[n] = known[n] THEN flush[n] ELSE Len(wal[n])
    BY <1>1, NamesType DEF NamesChange
  <1>3. \A x \in Node : Len(wal[x]) \in Nat /\ Range(wal[x]) = {wal[x][i] : i \in 1 .. Len(wal[x])}
    BY <1>1, RangeOf
  <1>4. ASSUME NEW s \in ssn[n] \cap conf[n] \cap Node PROVE Caught(s, n)'
    <2>1. CASE ssn[n] = known[n]
      BY <1>1, <1>2, <1>4, <2>1, SafeFrame DEF ReadyInv
    <2>2. CASE ssn[n] # known[n]
      <3>1. flush'[n] = Len(wal[n]) /\ wal' = wal /\ acked' = acked BY <1>2, <2>2
      <3>2. \A t \in acked : \E i \in 1 .. Len(wal[n]) : i <= Len(wal[n]) /\ wal[n][i] = t
        BY <1>1, <1>3 DEF Safe
      <3> QED BY <3>1, <3>2 DEF Caught
    <2> QED BY <2>1, <2>2
  <1>5. ASSUME NEW s \in ready[n] \cap conf[n] PROVE Candidate(s, n) BY <1>1 DEF ReadyInv
  <1>6. KeptReady(n) \subseteq ready[n] BY DEF KeptReady
  <1>7. \A s \in Node : Candidate(s, n)' = Candidate(s, n) BY SafeFrame
  <1>8. ready[n] \in SUBSET Node BY <1>1 DEF TypeInv, TypeOK
  <1>9. ASSUME NEW s \in ready'[n] \cap conf[n] PROVE s \in Node /\ Candidate(s, n)
    <2>1. CASE ready' = [ready EXCEPT ![n] = KeptReady(n)]
      <3>1. ready'[n] = KeptReady(n) BY <1>1, <2>1, NamesType
      <3> QED BY <1>5, <1>6, <1>8, <1>9, <3>1
    <2>2. CASE \E list \in SUBSET Streaming(n) :
              ProcessReadiness(n, list) /\ \A x \in sr[n].seen \cap ssn[n] \cap conf[n] : Candidate(x, n)
      <3>1. PICK list \in SUBSET Streaming(n) :
              ProcessReadiness(n, list) /\ \A x \in sr[n].seen \cap ssn[n] \cap conf[n] : Candidate(x, n)
        BY <2>2
      <3>2. ready'[n] = KeptReady(n) \cup
               {x \in list \cap ssn[n] : x \in sr[n].seen \/ Len(wal[x]) >= flush'[n]}
        BY <1>1, <3>1, NamesType DEF ProcessReadiness
      <3>3. CASE s \in KeptReady(n) BY <1>5, <1>6, <1>8, <1>9, <3>3
      <3>4. CASE s \in list \cap ssn[n] /\ s \in sr[n].seen
        BY <1>9, <3>1, <3>4 DEF Streaming
      <3>5. CASE s \in list \cap ssn[n] /\ Len(wal[s]) >= flush'[n]
        <4>1. s \in Node /\ link[s] = n BY <3>1, <3>5 DEF Streaming
        <4>2. Prefix(s, n) BY <1>1, <4>1 DEF MarkInv, LinkInv
        <4>3. Caught(s, n)' BY <1>4, <1>9, <3>5, <4>1
        <4>4. ASSUME NEW t \in acked PROVE t \in Range(wal[s])
          <5>1. t \in Range(wal[s]) \/ \E i \in 1 .. Len(wal[n]) : i <= flush'[n] /\ wal[n][i] = t
            BY <4>3, <4>4 DEF Caught
          <5>2. ASSUME NEW i \in 1 .. Len(wal[n]), i <= flush'[n], wal[n][i] = t PROVE t \in Range(wal[s])
            <6>1. flush'[n] \in Nat BY <1>1, <1>2, <1>3, NamesType
            <6>2. i \in 1 .. Len(wal[s]) BY <1>3, <3>5, <4>1, <5>2, <6>1
            <6>3. wal[s][i] = t BY <4>2, <5>2, <6>2 DEF Prefix
            <6>4. Range(wal[s]) = {wal[s][j] : j \in 1 .. Len(wal[s])} BY <1>3, <4>1
            <6> QED BY <6>2, <6>3, <6>4
          <5> QED BY <5>1, <5>2
        <4> QED BY <4>1, <4>2, <4>4 DEF Candidate, Safe
      <3> QED BY <1>9, <3>2, <3>3, <3>4, <3>5
    <2> QED BY <2>1, <2>2
  <1>10. ReadyInv(n)'
    <2>1. \A s \in ready'[n] \cap conf'[n] : Candidate(s, n)' BY <1>7, <1>9
    <2>2. \A s \in known'[n] \cap conf'[n] \cap Node : Caught(s, n)' BY <1>2, <1>4
    <2> QED BY <2>1, <2>2 DEF ReadyInv
  <1> QED BY <1>9, <1>10

\* The other steps.
LEMMA LossStep ==
  ASSUME MarkInv, MarkInv', ~joins, PromptRace, LossInv, Next
  PROVE  CandidateInv' /\ OwnerInv' /\ \A m \in Node : ReadyInv(m)' /\ DecidedInv(m)'
  <1> USE DEF dcsVars, haVars, handlerVars, pgVars
  <1>1. PICK n \in Node : NodeStep(n) BY DEF Next
  <1>2. TypeInv /\ KeyInv /\ (\A m \in Node : CycleInv(m) /\ LeaderInv(m)) BY DEF MarkInv
  <1>3. /\ NamesInv(n) /\ ReadyInv(n) /\ DecidedInv(n) /\ CycleInv(n) /\ LeaderInv(n)
        /\ CandidateInv /\ OwnerInv /\ NoNode \notin Node /\ Star \notin Node
    BY <1>2, SyncAssumption DEF LossInv
  <1> DEFINE Goal == CandidateInv' /\ OwnerInv' /\ \A m \in Node : ReadyInv(m)' /\ DecidedInv(m)'
             Same == \A m \in Node \ {n} :
                  /\ conf'[m] = conf[m] /\ ssn'[m] = ssn[m] /\ known'[m] = known[m]
                  /\ ready'[m] = ready[m] /\ flush'[m] = flush[m]
                  /\ pg'[m] = pg[m] /\ pc'[m] = pc[m] /\ sr'[m] = sr[m]
  <1>4. ASSUME Same, UNCHANGED <<wal, acked>>, owner' = owner \/ owner' = NoNode,
               CandidateInv', OwnerInv', ReadyInv(n)', DecidedInv(n)'
        PROVE  Goal
    BY <1>4, LossFrame
  \* who may be promoted stays so
  <1>5. ASSUME UNCHANGED <<wal, acked, sync>> PROVE CandidateInv'
    <2>1. \A x, y \in Node : Safe(x)' = Safe(x) /\ Candidate(x, y)' = Candidate(x, y) BY <1>5, SafeFrame
    <2>2. sync.leader \in Node \cup {NoNode} /\ sync.members \in SUBSET Node BY <1>2, CycleType
    <2> QED BY <1>3, <1>5, <2>1, <2>2 DEF CandidateInv
  <1>6. ASSUME UNCHANGED <<wal, acked, sync>>, owner' = owner \/ owner' = NoNode,
               owner' = NoNode => \A m \in Node : pc'[m] = "race" => owner = NoNode /\ (pc[m] = "race" \/ MayRace(m))
        PROVE  OwnerInv'
    <2>1. \A x \in Node : Safe(x)' = Safe(x) BY <1>6, SafeFrame
    <2>2. owner \in Node \cup {NoNode} BY <1>2, CycleType
    <2> QED BY <1>3, <1>6, <2>1, <2>2 DEF OwnerInv, MayRace
  <1>7. ASSUME NEW k \in SUBSET Node, \A s \in k : Candidate(s, n), owner = n, owner' = owner,
               UNCHANGED <<wal, acked>>, sync' = sync \/ sync' = [leader |-> n, members |-> k]
        PROVE  CandidateInv' /\ OwnerInv'
    <2>1. \A x, y \in Node : Safe(x)' = Safe(x) /\ Candidate(x, y)' = Candidate(x, y) BY <1>7, SafeFrame
    <2>2. Safe(n) BY <1>3, <1>7 DEF OwnerInv
    <2>3. OwnerInv' BY <1>3, <1>7, <2>1, <2>2 DEF OwnerInv
    <2>4. CASE sync' = sync BY <1>5, <1>7, <2>3, <2>4
    <2>5. CASE sync' = [leader |-> n, members |-> k]
      BY <1>7, <2>1, <2>2, <2>3, <2>5 DEF CandidateInv
    <2> QED BY <1>7, <2>4, <2>5
  \* the handler of n is left alone
  <1>8. ASSUME UNCHANGED <<wal, acked>>, known'[n] = known[n], ready'[n] = ready[n], flush'[n] = flush[n],
               Leads(n)' => Leads(n) /\ conf'[n] = conf[n]
        PROVE  ReadyInv(n)'
    <2>1. \A x \in Node : Candidate(x, n)' = Candidate(x, n) /\ Caught(x, n)' = Caught(x, n)
      BY <1>8, SafeFrame
    <2>2. ready[n] \in SUBSET Node BY <1>2, NamesType
    <2> QED BY <1>3, <1>8, <2>1, <2>2 DEF ReadyInv
  <1>9. ASSUME pc'[n] \notin {"assess", "shrink", "names", "settle", "recheck", "publish"}
        PROVE  DecidedInv(n)'
    BY <1>9 DEF DecidedInv
  <1>10. ASSUME UNCHANGED <<wal, acked>>
         PROVE  \A x \in Node : Candidate(x, n)' = Candidate(x, n)
    BY <1>10, SafeFrame
  <1>11. sr[n].seen \in SUBSET Node /\ sr[n].allow \in SUBSET Node /\ sr[n].common \in SUBSET Node
         /\ sync.members \in SUBSET Node /\ ready[n] \in SUBSET Node
    BY <1>2 DEF TypeInv, TypeOK
  <1>12. CASE LoadCluster(n)
    <2>1. UNCHANGED <<owner, sync, conf, known, flush, ready, pg, ssn, wal, acked>> BY <1>12 DEF LoadCluster
    <2>2. Same BY <1>2, <1>12, <2>1, CycleType DEF LoadCluster, Goto
    <2>3. OwnerInv'
      <3>1. \A m \in Node \ {n} : pc'[m] = pc[m] BY <2>2
      <3>2. pc'[n] = "race" => MayRace(n) BY <1>2, <1>12, CycleType DEF LoadCluster, Goto
      <3> QED BY <1>6, <2>1, <3>1, <3>2
    <2>4. ReadyInv(n)' BY <1>8, <2>1 DEF Leads
    <2>5. DecidedInv(n)'
      <3>1. CASE pc'[n] = "assess"
        <4>1. pg[n] = "primary" /\ owner = n /\ sync.leader # NoNode
          BY <1>2, <1>12, <3>1, CycleType DEF LoadCluster, Goto
        <4>2. sync.leader = n BY <1>3, <4>1 DEF LeaderInv
        <4>3. sr' = [sr EXCEPT ![n].seen = sync.members] BY <1>12, <4>1 DEF LoadCluster
        <4>4. sr'[n].seen = sync.members BY <1>2, <4>3, CycleType
        <4>5. \A s \in sync.members : s \in ssn[n] /\ Candidate(s, n)
          BY <1>3, <4>1, <4>2 DEF NamesInv, CandidateInv
        <4> QED BY <1>10, <1>11, <2>1, <3>1, <4>4, <4>5 DEF DecidedInv
      <3>2. CASE pc'[n] # "assess"
        <4>1. pc'[n] \in {"enable", "claim", "race"} BY <1>2, <1>12, <3>2, CycleType DEF LoadCluster, Goto
        <4> QED BY <1>9, <4>1
      <3> QED BY <3>1, <3>2
    <2> QED BY <1>4, <1>5, <2>1, <2>2, <2>3, <2>4, <2>5
  <1>13. CASE Acquire(n)
    <2>1. UNCHANGED <<sync, sr, conf, known, flush, ready, pg, ssn, wal, acked>> /\ pc[n] = "race"
      BY <1>13 DEF Acquire
    <2>2. pg[n] = "standby" BY <1>3, <2>1 DEF CycleInv
    <2>3. /\ \A m \in Node \ {n} : pc'[m] = pc[m]
          /\ pc'[n] \in {"reload", "idle"} /\ owner' = IF owner = NoNode THEN n ELSE owner
      BY <1>2, <1>13, CycleType DEF Acquire, Goto
    <2>4. Safe(n) \/ owner # NoNode
      <3>1. CASE owner = NoNode
        <4>1. MayRace(n) BY <1>3, <2>1, <3>1 DEF OwnerInv
        <4> QED BY <1>2, <1>3, <1>11, <4>1 DEF MayRace, KeyInv, Safe, CandidateInv, Candidate
      <3> QED BY <3>1
    <2>5. OwnerInv'
      <3>1. \A x \in Node : Safe(x)' = Safe(x) BY <2>1, SafeFrame
      <3>2. owner \in Node \cup {NoNode} BY <1>2, CycleType
      <3> QED BY <1>3, <2>3, <2>4, <3>1, <3>2 DEF OwnerInv
    <2>6. CandidateInv' BY <1>5, <2>1
    <2>7. ASSUME NEW m \in Node \ {n} PROVE ReadyInv(m)' /\ DecidedInv(m)'
      <3>1. CASE owner' = owner BY <2>1, <2>3, <3>1, LossFrame
      <3>2. CASE owner' = n /\ owner = NoNode
        <4>1. ~Leads(m)' BY <3>2 DEF Leads
        <4>2. pc'[m] \notin SyncPcs BY <1>2, <1>3, <2>3, <3>2 DEF CycleInv
        <4> QED BY <4>1, <4>2 DEF ReadyInv, DecidedInv, SyncPcs
      <3> QED BY <2>3, <3>1, <3>2
    <2>8. ReadyInv(n)' BY <2>1, <2>2 DEF ReadyInv, Leads
    <2>9. DecidedInv(n)' BY <1>9, <2>3
    <2> QED BY <2>5, <2>6, <2>7, <2>8, <2>9
  <1>14. CASE Reload(n)
    <2>1. UNCHANGED <<owner, sync, sr, conf, known, flush, ready, pg, ssn, wal, acked>> BY <1>14 DEF Reload
    <2>2. pc'[n] = "claim" /\ \A m \in Node \ {n} : pc'[m] = pc[m] BY <1>2, <1>14, CycleType DEF Reload, Goto
    <2>3. OwnerInv' BY <1>6, <2>1, <2>2
    <2> QED BY <1>4, <1>5, <1>8, <1>9, <2>1, <2>2, <2>3 DEF Leads
  <1>15. ASSUME NEW k \in SUBSET Node, NEW next \in {"idle", "promote", "assess", "names"},
               WriteSync(n, k, next), owner = n
        PROVE  /\ \A m \in Node \ {n} : pc'[m] = pc[m] /\ sr'[m] = sr[m]
               /\ sync' = sync \/ sync' = [leader |-> n, members |-> k]
               /\ pc'[n] = "idle" \/ (pc'[n] = next /\ sr'[n] = sr[n])
    <2>1. /\ \/ sync' = [leader |-> n, members |-> k]
             \/ sync' = sync /\ pc' = [pc EXCEPT ![n] = "idle"]
          /\ pc' = [pc EXCEPT ![n] = next] \/ pc' = [pc EXCEPT ![n] = "idle"]
          /\ sr' = sr \/ sr' = [sr EXCEPT ![n] = NoSr]
          /\ pc' = [pc EXCEPT ![n] = next] /\ next # "idle" => sr' = sr
      BY <1>2, <1>15, WriteSyncEffect
    <2>2. \A m \in Node \ {n} : pc'[m] = pc[m] /\ sr'[m] = sr[m] BY <2>1, <1>2, CycleType
    <2>3. sync' = sync \/ sync' = [leader |-> n, members |-> k] BY <2>1
    <2>4. pc'[n] = "idle" \/ (pc'[n] = next /\ sr'[n] = sr[n])
      BY <2>1, <1>2, CycleType
    <2> QED BY <2>2, <2>3, <2>4
  <1>16. CASE Claim(n)
    <2>1. /\ UNCHANGED <<owner, known, flush, ready, pg, ssn, wal, acked>> /\ pg[n] = "standby" /\ owner = n
          /\ WriteSync(n, {}, "promote")
      BY <1>3, <1>16 DEF Claim, CycleInv
    <2>2. \A m \in Node \ {n} : conf'[m] = conf[m] BY <1>2, <1>16, CycleType DEF Claim
    <2>3. Same /\ pc'[n] \in {"idle", "promote"} BY <1>15, <2>1, <2>2
    <2>4. CandidateInv' /\ OwnerInv' BY <1>7, <1>15, <2>1
    <2>5. ReadyInv(n)' BY <2>1 DEF ReadyInv, Leads
    <2> QED BY <1>4, <1>9, <2>1, <2>3, <2>4, <2>5
  <1>17. CASE Promote(n)
    <2>1. /\ UNCHANGED <<owner, sync, sr, conf, known, flush, ready, wal, acked>>
          /\ pc'[n] = "idle" /\ \A m \in Node \ {n} : pc'[m] = pc[m] /\ pg'[m] = pg[m] /\ ssn'[m] = ssn[m]
      BY <1>2, <1>17, CycleType, NamesType DEF Promote, Goto
    <2>2. conf[n] \in {{}, {Star}} /\ owner = n BY <1>3, <1>17 DEF Promote, CycleInv
    <2>3. conf[n] \cap Node = {} BY <1>3, <2>2
    <2>4. ReadyInv(n)' BY <1>11, <2>1, <2>3 DEF ReadyInv
    <2>5. OwnerInv' BY <1>3, <1>6, <2>1, <2>2
    <2> QED BY <1>4, <1>5, <1>9, <2>1, <2>4, <2>5
  <1>18. CASE Enable(n)
    <2>1. /\ UNCHANGED <<owner, conf, known, flush, ready, pg, ssn, wal, acked>> /\ owner = n /\ pg[n] = "primary"
          /\ WriteSync(n, {}, "assess") /\ pc[n] = "enable"
      BY <1>3, <1>18 DEF Enable, CycleInv, SyncPcs
    <2>2. sr[n].seen = {} BY <1>2, <1>3, <2>1 DEF NamesInv, KeyInv
    <2>3. pc'[n] = "idle" \/ (pc'[n] = "assess" /\ sr'[n] = sr[n]) BY <1>15, <2>1
    <2>8. pc'[n] # "idle" => sr'[n].seen = {} /\ pc'[n] = "assess" BY <2>2, <2>3
    <2>4. DecidedInv(n)'
      <3>1. CASE pc'[n] = "idle" BY <1>9, <3>1
      <3>2. CASE pc'[n] = "assess"
        <4>1. \A s \in sr'[n].seen : s \in ssn'[n] /\ Candidate(s, n)' BY <2>8, <3>2
        <4> QED BY <3>2, <4>1 DEF DecidedInv
      <3> QED BY <2>3, <3>1, <3>2
    <2>9. sync' = sync \/ sync' = [leader |-> n, members |-> {}] BY <1>15, <2>1
    <2>5. CandidateInv' /\ OwnerInv' BY <1>7, <2>1, <2>9
    <2>6. ReadyInv(n)' BY <1>8, <2>1 DEF Leads
    <2>7. Same BY <1>15, <2>1
    <2> QED BY <1>4, <2>1, <2>4, <2>5, <2>6, <2>7
  <1>19. CASE Assess(n)
    <2>1. /\ UNCHANGED <<owner, sync, conf, pg, ssn, wal, acked>> /\ pc[n] = "assess"
          /\ pg[n] = "primary" /\ owner = n
      BY <1>3, <1>19 DEF Assess, CycleInv, SyncPcs
    <2>2. PICK list \in SUBSET Streaming(n), picked \in SUBSET Node :
           /\ NamesChange(n) /\ ProcessReadiness(n, list) /\ picked \subseteq list
           /\ \/ pc' = [pc EXCEPT ![n] = "idle"]
              \/ /\ sr'[n].seen = sr[n].seen /\ sr'[n].picked = picked
                 /\ sr'[n].allow = SyncOf(n, picked) /\ sr'[n].common \subseteq sr'[n].allow
                 /\ \/ pc' = [pc EXCEPT ![n] = "shrink"]
                    \/ pc' = [pc EXCEPT ![n] = "names"] /\ sr'[n].common = sr[n].seen
           /\ \A m \in Node \ {n} : sr'[m] = sr[m]
      BY <1>2, <1>19, AssessEffect
    <2>3. list \in SUBSET Node BY DEF Streaming
    <2>4. \A m \in Node \ {n} : known'[m] = known[m] /\ ready'[m] = ready[m] /\ flush'[m] = flush[m]
      BY <1>2, <2>2, <2>3, HandlerEffect
    <2>5. \A m \in Node \ {n} : pc'[m] = pc[m] BY <1>2, <2>2, CycleType
    <2>6. \A s \in sr[n].seen : s \in ssn[n] /\ Candidate(s, n) BY <1>3, <2>1 DEF DecidedInv
    <2>7. ReadyInv(n)' /\ \A s \in ready'[n] \cap conf[n] \cap ssn[n] : Candidate(s, n)
      BY <2>1, <2>2, <2>6, ReadyStep
    <2>8. \A s \in SyncOf(n, picked) : s \in Node /\ Candidate(s, n)
      <3>1. ssn[n] = conf[n] BY <1>3, <2>1 DEF NamesInv
      <3> QED BY <2>7, <3>1 DEF SyncOf
    <2>9. OwnerInv' /\ CandidateInv' BY <1>3, <1>5, <1>6, <2>1
    <2>10. DecidedInv(n)'
      <3>1. CASE pc' = [pc EXCEPT ![n] = "idle"]
        <4>1. pc'[n] = "idle" BY <1>2, <3>1, CycleType
        <4> QED BY <1>9, <4>1
      <3>2. CASE /\ sr'[n].seen = sr[n].seen /\ sr'[n].picked = picked
                 /\ sr'[n].allow = SyncOf(n, picked) /\ sr'[n].common \subseteq sr'[n].allow
                 /\ \/ pc' = [pc EXCEPT ![n] = "shrink"]
                    \/ pc' = [pc EXCEPT ![n] = "names"] /\ sr'[n].common = sr[n].seen
        <4>1. pc'[n] \in {"shrink", "names"} BY <1>2, <3>2, CycleType
        <4> QED BY <1>10, <1>11, <2>1, <2>6, <2>8, <3>2, <4>1 DEF DecidedInv
      <3> QED BY <2>2, <3>1, <3>2
    <2> QED BY <1>4, <2>1, <2>2, <2>4, <2>5, <2>7, <2>9, <2>10
  <1>20. CASE Shrink(n)
    <2>1. /\ UNCHANGED <<owner, conf, known, flush, ready, pg, ssn, wal, acked>> /\ owner = n /\ pg[n] = "primary"
          /\ WriteSync(n, sr[n].common, "names") /\ pc[n] = "shrink"
      BY <1>3, <1>20 DEF Shrink, CycleInv, SyncPcs
    <2>2. pc'[n] = "idle" \/ (pc'[n] = "names" /\ sr'[n] = sr[n]) BY <1>11, <1>15, <2>1
    <2>3. \A s \in sr[n].common : Candidate(s, n) BY <1>3, <2>1 DEF NamesInv, DecidedInv
    <2>4. CandidateInv' /\ OwnerInv' BY <1>7, <1>11, <1>15, <2>1, <2>3
    <2>5. DecidedInv(n)' BY <1>3, <1>10, <1>11, <2>1, <2>2 DEF DecidedInv
    <2>6. ReadyInv(n)' BY <1>8, <2>1 DEF Leads
    <2>7. Same BY <1>11, <1>15, <2>1
    <2> QED BY <1>4, <2>1, <2>4, <2>5, <2>6, <2>7
  <1>21. CASE SetNames(n)
    <2>1. /\ UNCHANGED <<owner, sync, sr, known, flush, ready, pg, ssn, wal, acked>> /\ pc[n] = "names"
          /\ conf'[n] = NewNames(n) /\ pc'[n] \in {"settle", "recheck", "publish"}
          /\ \A m \in Node \ {n} : conf'[m] = conf[m] /\ pc'[m] = pc[m]
      BY <1>2, <1>21, CycleType DEF SetNames, Goto
    <2>2. owner = n /\ pg[n] = "primary" /\ known[n] = conf[n] /\ ready[n] \subseteq known[n]
      BY <1>3, <2>1 DEF CycleInv, SyncPcs, NamesInv
    <2>3. \A x \in Node : Candidate(x, n)' = Candidate(x, n) /\ Caught(x, n)' = Caught(x, n)
      BY <2>1, SafeFrame
    <2>4. Leads(n) BY <2>2 DEF Leads
    <2>5. ReadyInv(n)' BY <1>3, <1>11, <2>1, <2>2, <2>3, <2>4 DEF ReadyInv
    <2>6. DecidedInv(n)' BY <1>3, <1>11, <2>1, <2>3 DEF DecidedInv
    <2>7. OwnerInv' BY <1>3, <1>6, <2>1, <2>2
    <2> QED BY <1>4, <1>5, <2>1, <2>5, <2>6, <2>7
  <1>22. CASE Settle(n)
    <2>1. /\ UNCHANGED <<owner, sync, sr, conf, pg, ssn, wal, acked>> /\ pc[n] = "settle" /\ NamesChange(n)
          /\ pc'[n] \in {"recheck", "publish"} /\ \A m \in Node \ {n} : pc'[m] = pc[m]
          /\ ready' = [ready EXCEPT ![n] = KeptReady(n)]
      BY <1>2, <1>22, CycleType DEF Settle, Goto
    <2>2. owner = n /\ pg[n] = "primary" BY <1>3, <2>1 DEF CycleInv, SyncPcs
    <2>3. ReadyInv(n)' BY <2>1, <2>2, ReadyStep
    <2>4. \A m \in Node \ {n} : known'[m] = known[m] /\ ready'[m] = ready[m] /\ flush'[m] = flush[m]
      BY <1>2, <2>1, HandlerEffect
    <2>5. DecidedInv(n)' BY <1>3, <1>10, <1>11, <2>1 DEF DecidedInv
    <2>6. OwnerInv' BY <1>3, <1>6, <2>1, <2>2
    <2> QED BY <1>4, <1>5, <2>1, <2>3, <2>4, <2>5, <2>6
  <1>23. CASE AssessAgain(n)
    <2>1. /\ UNCHANGED <<owner, sync, conf, pg, ssn, wal, acked>> /\ pc[n] = "recheck" /\ ssn[n] = conf[n]
          /\ pc'[n] = "publish" /\ \A m \in Node \ {n} : pc'[m] = pc[m]
      BY <1>2, <1>23, CycleType DEF AssessAgain, Goto, Reloaded
    <2>2. PICK picked \in SUBSET Streaming(n) :
            CurrentState(n, picked) /\ sr' = [sr EXCEPT ![n].allow = SyncOf(n, picked)]
      BY <1>23 DEF AssessAgain
    <2>3. PICK list \in SUBSET Streaming(n) : NamesChange(n) /\ ProcessReadiness(n, list)
      BY <2>2 DEF CurrentState
    <2>4. list \in SUBSET Node /\ picked \in SUBSET Node BY DEF Streaming
    <2>5. \A m \in Node \ {n} : known'[m] = known[m] /\ ready'[m] = ready[m] /\ flush'[m] = flush[m]
      BY <1>2, <2>3, <2>4, HandlerEffect
    <2>6. sr'[n].allow = SyncOf(n, picked) /\ \A m \in Node \ {n} : sr'[m] = sr[m]
      BY <1>2, <2>2, CycleType
    <2>7. owner = n /\ pg[n] = "primary" BY <1>3, <2>1 DEF CycleInv, SyncPcs
    <2>8. \A s \in sr[n].seen \cap ssn[n] \cap conf[n] : Candidate(s, n) BY <1>3, <2>1 DEF DecidedInv
    <2>9. ReadyInv(n)' /\ \A s \in ready'[n] \cap conf[n] \cap ssn[n] : Candidate(s, n)
      BY <2>1, <2>3, <2>7, <2>8, ReadyStep
    <2>10. \A s \in SyncOf(n, picked) : s \in Node /\ Candidate(s, n) BY <2>1, <2>4, <2>9 DEF SyncOf
    <2>11. DecidedInv(n)' BY <1>10, <2>1, <2>6, <2>10 DEF DecidedInv
    <2>12. OwnerInv' BY <1>3, <1>6, <2>1, <2>7
    <2> QED BY <1>4, <1>5, <2>1, <2>5, <2>6, <2>9, <2>11, <2>12
  <1>24. CASE Publish(n)
    <2>1. /\ UNCHANGED <<owner, conf, known, flush, ready, pg, ssn, wal, acked>> /\ owner = n /\ pg[n] = "primary"
          /\ pc[n] = "publish"
      BY <1>3, <1>24 DEF Publish, CycleInv, SyncPcs
    <2>2. /\ pc'[n] = "idle" /\ \A m \in Node \ {n} : pc'[m] = pc[m] /\ sr'[m] = sr[m]
          /\ sync' = sync \/ sync' = [leader |-> n, members |-> sr[n].allow]
      <3>1. CASE Continue(n, "idle") /\ UNCHANGED <<sync, fresh>>
        BY <1>2, <3>1, CycleType DEF Continue, Goto
      <3>2. CASE WriteSync(n, sr[n].allow, "idle") BY <1>11, <1>15, <2>1, <3>2
      <3> QED BY <1>24, <3>1, <3>2 DEF Publish
    <2>3. \A s \in sr[n].allow : Candidate(s, n) BY <1>3, <2>1 DEF DecidedInv
    <2>4. CandidateInv' /\ OwnerInv' BY <1>7, <1>11, <2>1, <2>2, <2>3
    <2>5. ReadyInv(n)' BY <1>8, <2>1 DEF Leads
    <2> QED BY <1>4, <1>9, <2>1, <2>2, <2>4, <2>5
  <1>25. CASE ReloadNames(n)
    <2>1. /\ UNCHANGED <<owner, sync, conf, known, flush, ready, pg, sr, pc, wal, acked>>
          /\ pg[n] = "primary" /\ ssn[n] # conf[n] /\ ssn'[n] = conf[n]
          /\ \A m \in Node \ {n} : ssn'[m] = ssn[m]
      BY <1>2, <1>25, NamesType DEF ReloadNames
    <2>2. owner = n BY <1>3, <2>1 DEF CycleInv
    <2>3. pc[n] \notin {"assess", "shrink", "names"} BY <1>3, <2>1 DEF NamesInv
    <2>4. DecidedInv(n)' BY <1>3, <1>10, <1>11, <2>1, <2>3 DEF DecidedInv
    <2>5. ReadyInv(n)' BY <1>8, <2>1 DEF Leads
    <2>6. OwnerInv' BY <1>3, <1>6, <2>1, <2>2
    <2> QED BY <1>4, <1>5, <2>1, <2>4, <2>5, <2>6
  <1>26. CASE Commit(n) \/ Stream(n) \/ \E p \in Node : Connect(n, p) BY <1>26, LossWal
  <1>27. CASE Ack(n) BY <1>27, LossAck
  <1>28. CASE Disconnect(n)
    <2>1. UNCHANGED <<owner, sync, pc, sr, conf, known, flush, ready, pg, ssn, wal, acked>>
      BY <1>28 DEF Disconnect
    <2>2. OwnerInv' BY <1>6, <2>1
    <2>3. Leads(n)' = Leads(n) BY <2>1 DEF Leads
    <2>4. ReadyInv(n)' /\ DecidedInv(n)' BY <2>1, LossFrame
    <2> QED BY <1>4, <1>5, <2>1, <2>2, <2>4
  \* a node that is not, or is no longer, a primary
  <1>29. ASSUME MachineStops(n), sync' = sync,
                owner' = owner \/ (owner' = NoNode /\ owner = n /\ \A m \in Node : pc[m] # "race")
         PROVE  Goal
    <2>1. /\ pg'[n] = "down" /\ pc'[n] = "idle" /\ wal' = wal /\ acked' = acked
          /\ Same
      BY <1>2, <1>29, CycleType, NamesType DEF MachineStops, NewProcess, Continue, Goto
    <2>2. \A m \in Node : pc'[m] = pc[m] \/ pc'[m] = "idle" BY <2>1
    <2>3. OwnerInv' BY <1>6, <1>29, <2>1, <2>2
    <2>4. ReadyInv(n)' BY <2>1 DEF ReadyInv, Leads
    <2> QED BY <1>4, <1>5, <1>9, <1>29, <2>1, <2>3, <2>4
  <1>30. CASE MachineCrash(n) BY <1>29, <1>30 DEF MachineCrash
  <1>31. CASE PgCrash(n)
    <2>1. /\ UNCHANGED <<owner, sync, conf, known, flush, ready, wal, acked>> /\ pc'[n] = "idle"
          /\ pg'[n] = IF pg[n] = "primary" THEN "crashed" ELSE "down"
          /\ \A m \in Node \ {n} :
                ssn'[m] = ssn[m] /\ pg'[m] = pg[m] /\ pc'[m] = pc[m] /\ sr'[m] = sr[m]
      BY <1>2, <1>31, CycleType, NamesType DEF PgCrash, Continue, Goto
    <2>2. ReadyInv(n)' BY <1>8, <2>1 DEF Leads
    <2>3. \A m \in Node : pc'[m] = pc[m] \/ pc'[m] = "idle" BY <2>1
    <2>4. OwnerInv' BY <1>6, <2>1, <2>3
    <2> QED BY <1>4, <1>5, <1>9, <2>1, <2>2, <2>4
  <1>32. CASE RecoverPrimary(n)
    <2>1. /\ UNCHANGED <<owner, sync, conf, known, flush, ready, pc, sr, wal, acked>> /\ owner = n
          /\ pg[n] = "crashed" /\ \A m \in Node \ {n} : ssn'[m] = ssn[m] /\ pg'[m] = pg[m]
      BY <1>2, <1>32, CycleType, NamesType DEF RecoverPrimary
    <2>2. pc[n] \notin SyncPcs BY <1>3, <2>1 DEF CycleInv
    <2>3. DecidedInv(n)' BY <1>9, <2>1, <2>2 DEF SyncPcs
    <2>4. ReadyInv(n)' BY <1>8, <2>1 DEF Leads
    <2>5. OwnerInv' BY <1>3, <1>6, <2>1
    <2> QED BY <1>4, <1>5, <2>1, <2>3, <2>4, <2>5
  <1>33. CASE StartStandby(n)
    <2>1. /\ UNCHANGED <<owner, sync, known, flush, ready, pc, sr, wal, acked>> /\ pg'[n] = "standby"
          /\ \A m \in Node \ {n} : conf'[m] = conf[m] /\ ssn'[m] = ssn[m] /\ pg'[m] = pg[m]
      BY <1>2, <1>33, CycleType, NamesType DEF StartStandby
    <2>2. pc[n] \notin SyncPcs BY <1>3, <1>33 DEF StartStandby, CycleInv, SyncPcs
    <2>3. DecidedInv(n)' BY <1>9, <2>1, <2>2 DEF SyncPcs
    <2>4. ReadyInv(n)' BY <2>1 DEF ReadyInv, Leads
    <2>5. OwnerInv' BY <1>6, <2>1
    <2> QED BY <1>4, <1>5, <2>1, <2>3, <2>4, <2>5
  <1>34. CASE LoseKey(n)
    <2>1. owner' = NoNode /\ owner = n /\ sync' = sync /\ \A m \in Node : pc[m] # "race"
      BY <1>34 DEF LoseKey
    <2>2. CASE MachineStops(n) BY <1>29, <2>1, <2>2
    <2>3. CASE UNCHANGED <<haVars, conf, handlerVars, pgVars>>
      <3>1. OwnerInv' BY <1>6, <2>1, <2>3
      <3>2. CandidateInv' BY <1>5, <2>1, <2>3
      <3>3. \A m \in Node : ReadyInv(m)' /\ DecidedInv(m)' BY <2>1, <2>3, LossFrame
      <3> QED BY <3>1, <3>2, <3>3
    <2> QED BY <1>34, <2>2, <2>3 DEF LoseKey
  <1>35. ~JoinRunning(n) BY DEF JoinRunning
  <1> QED BY <1>1, <1>12, <1>13, <1>14, <1>16, <1>17, <1>18, <1>19, <1>20, <1>21, <1>22, <1>23,
             <1>24, <1>25, <1>26, <1>27, <1>28, <1>30, <1>31, <1>32, <1>33, <1>34, <1>35
      DEF NodeStep, ProcessSync

\* The primary with the leader key has every transaction that was reported as
\* committed, if a leader race ends while the key it lost is still free and no
\* Patroni restarts beside its primary: what the docs promise of synchronous mode.
THEOREM SyncNoLoss ==
  ASSUME PromptRace
  PROVE  Spec => []NoAcknowledgedLoss
  <1>1. Init => SyncInv
    <2>1. Init => \A n \in Node : NamesInv(n) BY DEF Init, NamesInv, SyncPcs, Leads
    <2>2. Init => CandidateInv /\ OwnerInv
      BY SyncAssumption DEF Init, CandidateInv, OwnerInv, Safe
    <2>3. Init => \A n \in Node : ReadyInv(n) /\ DecidedInv(n)
      BY DEF Init, ReadyInv, DecidedInv, Caught
    <2> QED BY InitMark, <2>1, <2>2, <2>3 DEF SyncInv, LossInv
  <1>2. ASSUME SyncInv, UNCHANGED vars PROVE SyncInv'
    <2> USE <1>2 DEF SyncInv, vars, dcsVars, haVars, handlerVars, pgVars
    <2>1. MarkInv' BY MarkStutter
    <2>2. SUFFICES ASSUME ~joins PROVE LossInv' BY <2>1
    <2>3. \A n \in Node : NamesInv(n)' BY <2>2 DEF LossInv, NamesInv, Leads
    <2>4. \A n \in Node : ReadyInv(n)' /\ DecidedInv(n)' BY <2>2, LossFrame
    <2>5. CandidateInv' BY <2>2 DEF LossInv, CandidateInv, Candidate, Safe, Prefix
    <2>6. OwnerInv' BY <2>2 DEF LossInv, OwnerInv, MayRace, Safe
    <2> QED BY <2>3, <2>4, <2>5, <2>6 DEF LossInv
  <1>3. ASSUME SyncInv, Next PROVE SyncInv'
    <2>1. MarkInv' BY <1>3, MarkStep DEF SyncInv
    <2>2. SUFFICES ASSUME ~joins PROVE LossInv' BY <1>3, <2>1 DEF SyncInv, Next
    <2>3. \A n \in Node : NamesInv(n)' BY <1>3, <2>2, NamesStep DEF SyncInv, LossInv
    <2>4. CandidateInv' /\ OwnerInv' /\ \A m \in Node : ReadyInv(m)' /\ DecidedInv(m)'
      BY <1>3, <2>1, <2>2, LossStep DEF SyncInv
    <2> QED BY <2>3, <2>4 DEF LossInv
  <1>4. SyncInv => NoAcknowledgedLoss
    BY SyncAssumption DEF SyncInv, LossInv, OwnerInv, Safe, NoAcknowledgedLoss
  <1> QED BY <1>1, <1>2, <1>3, <1>4, PTL DEF Spec

=============================================================================
