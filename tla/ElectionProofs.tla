--------------------------- MODULE ElectionProofs ---------------------------
(***************************************************************************)
(* Proofs about Election, for every number of nodes, every priority, lag,  *)
(* tag and mode: its type invariant, and what the winner of a leader race  *)
(* has, when the watchdog resets a leader that stalls and a race is over   *)
(* before the key it lost is free again.                                   *)
(*                                                                         *)
(* The argument.  What a node has learnt in a race is old when it asks for *)
(* the key.  But with the watchdog only the owner of the key is a primary  *)
(* (LockInv), so that nobody writes WAL and nobody writes /sync while the  *)
(* key is free; and a race that was begun while it was free either ends    *)
(* while it is still free, or finds it taken (RaceInv).                    *)
(***************************************************************************)
EXTENDS Election, SequenceTheorems, TLAPS

Pcs == Racing \cup {"idle", "clean", "enforce", "promote", "handover",
                    "unkey", "demote", "release"}
Sync == [leader : Node \cup {NoNode}, members : SUBSET Node]
Look == [key : Key, sync : Sync, last : Nat, tl : Nat, lsn : Nat,
         waiting : SUBSET Node, heard : SUBSET Node]

\* What n may have learnt: it asks only others.
Seen(n) == {c \in Look : c.waiting \cup c.heard \subseteq Node \ {n}}

\* The types of what the HA loops keep.
LoopType ==
  /\ pc \in [Node -> Pcs] /\ look \in [Node -> Look]
  /\ \A n \in Node : look[n] \in Seen(n)

\* TypeOK with the types of the functions.
TypeInv ==
  /\ syncMode \in SyncModes
  /\ owner \in Node \cup {NoNode}
  /\ lastLsn \in Nat /\ timeline \in Nat
  /\ failover \in Key /\ request \in Key
  /\ sync \in Sync
  /\ up \in [Node -> BOOLEAN]
  /\ pg \in [Node -> {"down", "standby", "primary"}]
  /\ wal \in [Node -> Seq(Nat) \ {<<>>}]
  /\ LoopType
  /\ faults \in 0 .. MaxEvents /\ requests \in 0 .. MaxRequests

\* The phases in which a node has the leader key.
Leading == {"clean", "enforce", "promote", "handover", "unkey", "demote"}

\* With the watchdog only the owner of the key is, or is about to be, a primary.
LockInv(n) ==
  /\ pg[n] = "primary" \/ pc[n] \in Leading => owner = n
  /\ pc[n] = "release" => pg[n] = "down"

\* /sync is used in synchronous mode only.
SyncInv == sync.leader # NoNode => syncMode

\* What n has learnt, c, is still so.
Fresh(c, n) ==
  /\ c.lsn = Lsn(n) /\ c.sync = sync
  /\ \A m \in c.heard : Lsn(m) <= Lsn(n) \/ (syncMode /\ sync.leader = m)
  /\ sync.leader # NoNode /\ (c.key = NoKey \/ c.key.leader # NoNode) => InSync(c, n)

\* Those who race are standbys without the key, and as long as it is free what they have learnt is so.
RaceInv(n) ==
  pc[n] \in Racing => /\ pg[n] = "standby" /\ owner # n
                      /\ owner = NoNode => Fresh(look[n], n)

ElectionInv == SyncInv /\ \A n \in Node : LockInv(n) /\ RaceInv(n)

-----------------------------------------------------------------------------
(* What the HA loop knows *)

\* A member of Seen, by its fields.
LEMMA SeenIs ==
  ASSUME NEW n, NEW c
  PROVE  c \in Seen(n) <=> c \in Look /\ c.waiting \cup c.heard \subseteq Node \ {n}
  BY DEF Seen

\* A cycle begins with what is in the DCS and the node's own LSN.
LEMMA LoadedSeen ==
  ASSUME TypeInv, NEW n \in Node
  PROVE  /\ NoLook \in Seen(n) /\ NoKey \in Key /\ NoSync \in Sync
         /\ Lsn(n) \in Nat
         /\ Loaded(n) \in Seen(n)
         /\ Loaded(n) = [key |-> failover, sync |-> sync, last |-> lastLsn, tl |-> timeline,
                         lsn |-> Lsn(n), waiting |-> {}, heard |-> {}]
  <1>1. Lsn(n) \in Nat
    <2>1. wal[n] \in Seq(Nat) BY DEF TypeInv
    <2> QED BY <2>1, LenProperties DEF Lsn
  <1>2. NoKey \in Key BY ElectionAssumption DEF NoKey, Key, Times
  <1>3. NoSync \in Sync BY DEF NoSync, Sync
  <1>4. NoLook \in Seen(n)
    <2>1. NoLook \in Look BY <1>2, <1>3 DEF NoLook, Look
    <2> QED BY <2>1, SeenIs DEF NoLook
  <1>5. Loaded(n) = [key |-> failover, sync |-> sync, last |-> lastLsn, tl |-> timeline,
                     lsn |-> Lsn(n), waiting |-> {}, heard |-> {}]
    <2> DEFINE a == [NoLook EXCEPT !.key = failover]
               b == [a EXCEPT !.sync = sync]
               c == [b EXCEPT !.last = lastLsn]
               d == [c EXCEPT !.tl = timeline]
               e == [d EXCEPT !.lsn = Lsn(n)]
    <2>1. a = [key |-> failover, sync |-> NoSync, last |-> 0, tl |-> 0, lsn |-> 0,
                  waiting |-> {}, heard |-> {}]
      BY DEF NoLook
    <2> HIDE DEF a
    <2>2. b = [key |-> failover, sync |-> sync, last |-> 0, tl |-> 0, lsn |-> 0,
                  waiting |-> {}, heard |-> {}]
      BY <2>1 DEF b
    <2> HIDE DEF b
    <2>3. c = [key |-> failover, sync |-> sync, last |-> lastLsn, tl |-> 0, lsn |-> 0,
                  waiting |-> {}, heard |-> {}]
      BY <2>2 DEF c
    <2> HIDE DEF c
    <2>4. d = [key |-> failover, sync |-> sync, last |-> lastLsn, tl |-> timeline, lsn |-> 0,
                  waiting |-> {}, heard |-> {}]
      BY <2>3 DEF d
    <2> HIDE DEF d
    <2>5. e = [key |-> failover, sync |-> sync, last |-> lastLsn, tl |-> timeline, lsn |-> Lsn(n),
                  waiting |-> {}, heard |-> {}]
      BY <2>4 DEF e
    <2> HIDE DEF e
    <2> QED BY <2>5 DEF Loaded, a, b, c, d, e
  <1>6. Loaded(n) \in Seen(n)
    <2>1. Loaded(n) \in Look BY <1>1, <1>5 DEF Look, TypeInv
    <2> QED BY <2>1, <1>5, SeenIs
  <1> QED BY <1>1, <1>2, <1>3, <1>4, <1>5, <1>6

\* Members to be asked are added to what is known.
LEMMA AskedSeen ==
  ASSUME NEW n \in Node, NEW c \in Seen(n), NEW members \in SUBSET (Node \ {n})
  PROVE  [c EXCEPT !.waiting = members] \in Seen(n)
  <1>1. c \in Look BY SeenIs
  <1>2. [c EXCEPT !.waiting = members] \in Look BY <1>1 DEF Look
  <1>3. c.heard \subseteq Node \ {n} BY SeenIs
  <1>4. /\ [c EXCEPT !.waiting = members].waiting = members
        /\ [c EXCEPT !.waiting = members].heard = c.heard
    BY <1>1 DEF Look
  <1> QED BY <1>2, <1>3, <1>4, SeenIs

\* So is another set of members that answered.
LEMMA HeardSeen ==
  ASSUME NEW n \in Node, NEW c \in Seen(n), NEW members \in SUBSET (Node \ {n})
  PROVE  [c EXCEPT !.heard = members] \in Seen(n)
  <1>1. c \in Look BY SeenIs
  <1>2. [c EXCEPT !.heard = members] \in Look BY <1>1 DEF Look
  <1>3. c.waiting \subseteq Node \ {n} BY SeenIs
  <1>4. /\ [c EXCEPT !.heard = members].heard = members
        /\ [c EXCEPT !.heard = members].waiting = c.waiting
    BY <1>1 DEF Look
  <1> QED BY <1>2, <1>3, <1>4, SeenIs

-----------------------------------------------------------------------------
(* What a step of the HA loop leaves *)

\* l has all of c but the members that are still to be asked.
Known(l, c) == l.key = c.key /\ l.sync = c.sync /\ l.lsn = c.lsn /\ l.heard = c.heard

\* The loop of n has gone on to one of goals with what c says, those of others have not moved.
Moved(n, goals, c) ==
  /\ LoopType'
  /\ pc'[n] \in goals
  /\ pc'[n] # "idle" => Known(look'[n], c)
  /\ \A m \in Node \ {n} : pc'[m] = pc[m] /\ look'[m] = look[m]

\* Go.
LEMMA GoMoved ==
  ASSUME TypeInv, NEW n \in Node, NEW to \in Pcs, NEW seen \in Seen(n), Go(n, to, seen)
  PROVE  Moved(n, {to}, seen) /\ (to # "idle" => look'[n] = seen)
  <1> DEFINE new == IF to = "idle" THEN NoLook ELSE seen
  <1>1. new \in Seen(n) BY LoadedSeen
  <1>2. new \in Look BY <1>1, SeenIs
  <1>3. LoopType BY DEF TypeInv
  <1>4. pc' = [pc EXCEPT ![n] = to] /\ look' = [look EXCEPT ![n] = new] BY DEF Go
  <1>5. to # "idle" => new = seen OBVIOUS
  <1> HIDE DEF new
  <1>6. /\ pc' \in [Node -> Pcs] /\ look' \in [Node -> Look]
        /\ pc'[n] = to /\ look'[n] = new
        /\ \A m \in Node \ {n} : pc'[m] = pc[m] /\ look'[m] = look[m]
    BY <1>2, <1>3, <1>4 DEF LoopType
  <1>7. \A m \in Node : look'[m] \in Seen(m) BY <1>1, <1>3, <1>6 DEF LoopType
  <1> QED BY <1>5, <1>6, <1>7 DEF Moved, LoopType, Known

\* AskOr.
LEMMA AskOrMoved ==
  ASSUME TypeInv, NEW n \in Node, NEW ask \in Pcs, NEW members \in SUBSET (Node \ {n}), NEW to \in Pcs,
         NEW seen \in Seen(n), AskOr(n, ask, members, to, seen)
  PROVE  Moved(n, {ask, to}, seen)
  <1> DEFINE goal == IF members = {} THEN to ELSE ask
             next == [seen EXCEPT !.waiting = members]
  <1>1. next \in Seen(n) BY AskedSeen
  <1>2. goal \in {ask, to} OBVIOUS
  <1>3. Go(n, goal, next) BY DEF AskOr
  <1>4. Known(next, seen)
    <2>1. seen \in Look BY SeenIs
    <2> QED BY <2>1 DEF Known, Look
  <1> HIDE DEF goal, next
  <1>5. Moved(n, {goal}, next) BY <1>1, <1>2, <1>3, GoMoved
  <1> QED BY <1>2, <1>4, <1>5 DEF Moved, Known

\* More goals than those it may reach.
LEMMA MovedTo ==
  ASSUME NEW n, NEW goals, NEW more, NEW c, Moved(n, goals, c), goals \subseteq more
  PROVE  Moved(n, more, c)
  BY DEF Moved

\* _is_healthiest_node.
LEMMA AskRivalsMoved ==
  ASSUME TypeInv, NEW n \in Node, NEW c \in Seen(n), NEW members \in SUBSET Node,
         AskRivals(c, n, members)
  PROVE  Moved(n, {"idle", "race", "acquire"}, c)
  <1>0. {"idle", "race", "acquire"} \subseteq Pcs BY DEF Pcs, Racing
  <1>1. CASE CheckTimeline /\ Timeline(n) < c.tl
    <2>1. Go(n, "idle", c) BY <1>1 DEF AskRivals
    <2>2. Moved(n, {"idle"}, c) BY <1>0, <2>1, GoMoved
    <2> QED BY <2>2, MovedTo
  <1>2. CASE ~(CheckTimeline /\ Timeline(n) < c.tl)
    <2>1. AskOr(n, "race", members \ (NoFailover \cup {n}), "acquire", c) BY <1>2 DEF AskRivals
    <2>2. Moved(n, {"race", "acquire"}, c) BY <1>0, <2>1, AskOrMoved
    <2> QED BY <2>2, MovedTo
  <1> QED BY <1>1, <1>2

\* manual_failover_process_no_leader.
LEMMA PickOtherMoved ==
  ASSUME TypeInv, NEW n \in Node, NEW c \in Seen(n), PickOther(c, n)
  PROVE  Moved(n, {"idle", "race", "retake", "acquire"}, c)
  <1>0. {"retake", "acquire"} \subseteq Pcs BY DEF Pcs, Racing
  <1>1. CASE c.key.leader = n
    <2>1. AskOr(n, "retake", Candidates(c, n, c.key.candidate # NoNode), "acquire", c)
      BY <1>1 DEF PickOther
    <2>2. Candidates(c, n, c.key.candidate # NoNode) \subseteq Node \ {n} BY DEF Candidates
    <2>3. Moved(n, {"retake", "acquire"}, c) BY <1>0, <2>1, <2>2, AskOrMoved
    <2> QED BY <2>3, MovedTo
  <1>2. CASE c.key.leader # n
    <2>1. AskRivals(c, n, Node \ {c.key.leader}) BY <1>2 DEF PickOther
    <2>2. Moved(n, {"idle", "race", "acquire"}, c) BY <2>1, AskRivalsMoved
    <2> QED BY <2>2, MovedTo
  <1> QED BY <1>1, <1>2

\* One member of those to be asked has answered, or timed out.
LEMMA WithoutMoved ==
  ASSUME TypeInv, NEW n \in Node, NEW m \in Node \ {n}, NEW to \in Pcs
  PROVE  /\ Without(n, m, to, TRUE) =>
              \E c \in Seen(n) : /\ Moved(n, {pc[n], to}, c)
                                 /\ c.key = look[n].key /\ c.sync = look[n].sync /\ c.lsn = look[n].lsn
                                 /\ c.heard = look[n].heard \cup {m}
         /\ Without(n, m, to, FALSE) =>
              \E c \in Seen(n) : Moved(n, {pc[n], to}, c) /\ Known(c, look[n])
  <1>1. look[n] \in Seen(n) /\ look[n] \in Look /\ pc[n] \in Pcs BY SeenIs DEF TypeInv, LoopType
  <1>2. look[n].waiting \ {m} \in SUBSET (Node \ {n}) BY <1>1, SeenIs
  <1>3. ASSUME NEW members \in SUBSET (Node \ {n}),
               AskOr(n, pc[n], look[n].waiting \ {m}, to, [look[n] EXCEPT !.heard = members])
        PROVE  \E c \in Seen(n) : /\ Moved(n, {pc[n], to}, c)
                                  /\ c.key = look[n].key /\ c.sync = look[n].sync /\ c.lsn = look[n].lsn
                                  /\ c.heard = members
    <2> DEFINE c == [look[n] EXCEPT !.heard = members]
    <2>1. c \in Seen(n) BY <1>1, HeardSeen
    <2>2. /\ c.key = look[n].key /\ c.sync = look[n].sync /\ c.lsn = look[n].lsn
          /\ c.heard = members
      BY <1>1 DEF Look
    <2>3. AskOr(n, pc[n], look[n].waiting \ {m}, to, c) BY <1>3
    <2> HIDE DEF c
    <2>4. Moved(n, {pc[n], to}, c) BY <1>1, <1>2, <2>1, <2>3, AskOrMoved
    <2> QED BY <2>1, <2>2, <2>4
  <1>4. ASSUME Without(n, m, to, TRUE)
        PROVE  \E c \in Seen(n) : /\ Moved(n, {pc[n], to}, c)
                                  /\ c.key = look[n].key /\ c.sync = look[n].sync /\ c.lsn = look[n].lsn
                                  /\ c.heard = look[n].heard \cup {m}
    <2>1. look[n].heard \cup {m} \in SUBSET (Node \ {n}) BY <1>1, SeenIs
    <2>2. AskOr(n, pc[n], look[n].waiting \ {m}, to,
                [look[n] EXCEPT !.heard = look[n].heard \cup {m}])
      BY <1>4 DEF Without
    <2> QED BY <1>3, <2>1, <2>2
  <1>5. ASSUME Without(n, m, to, FALSE)
        PROVE  \E c \in Seen(n) : Moved(n, {pc[n], to}, c) /\ Known(c, look[n])
    <2>1. look[n].heard \in SUBSET (Node \ {n}) BY <1>1, SeenIs
    <2>2. AskOr(n, pc[n], look[n].waiting \ {m}, to, [look[n] EXCEPT !.heard = look[n].heard])
      BY <1>5 DEF Without
    <2>3. PICK c \in Seen(n) : /\ Moved(n, {pc[n], to}, c)
                               /\ c.key = look[n].key /\ c.sync = look[n].sync /\ c.lsn = look[n].lsn
                               /\ c.heard = look[n].heard
      BY <1>3, <2>1, <2>2
    <2> QED BY <2>3 DEF Known
  <1> QED BY <1>4, <1>5

\* is_healthiest_node() of a standby, asked for or not.
LEMMA RaceMoved ==
  ASSUME TypeInv, NEW n \in Node, RaceForRequest(n) \/ Race(n)
  PROVE  /\ Moved(n, {"idle", "acquire", "candidate", "race", "retake"}, Loaded(n))
         /\ pg[n] = "standby" /\ owner = NoNode
         /\ sync.leader # NoNode /\ syncMode /\ (failover = NoKey \/ failover.leader # NoNode)
              => InSync(Loaded(n), n)
  <1> DEFINE c == Loaded(n)
             All == {"idle", "acquire", "candidate", "race", "retake"}
  <1>0. {"acquire", "candidate"} \subseteq Pcs BY DEF Pcs, Racing
  <1>1. c \in Seen(n) /\ c.sync = sync /\ c.key = failover BY LoadedSeen
  <1>2. pg[n] = "standby" /\ owner = NoNode BY DEF RaceForRequest, Race, StandbyRaces
  <1>3. CASE RaceForRequest(n)
    <2>1. SyncActive(c) /\ failover.leader # NoNode => InSync(c, n) BY <1>3 DEF RaceForRequest
    <2>2. failover # NoKey BY <1>3 DEF RaceForRequest
    <2>3. \/ Go(n, "acquire", c) \/ Go(n, "candidate", c) \/ PickOther(c, n)
      BY <1>3 DEF RaceForRequest
    <2> HIDE DEF c
    <2>4. ASSUME Go(n, "acquire", c) PROVE Moved(n, All, c)
      <3>1. Moved(n, {"acquire"}, c) BY <1>0, <1>1, <2>4, GoMoved
      <3> QED BY <3>1, MovedTo
    <2>5. ASSUME Go(n, "candidate", c) PROVE Moved(n, All, c)
      <3>1. Moved(n, {"candidate"}, c) BY <1>0, <1>1, <2>5, GoMoved
      <3> QED BY <3>1, MovedTo
    <2>6. ASSUME PickOther(c, n) PROVE Moved(n, All, c)
      <3>1. Moved(n, {"idle", "race", "retake", "acquire"}, c) BY <1>1, <2>6, PickOtherMoved
      <3> QED BY <3>1, MovedTo
    <2>7. Moved(n, All, c) BY <2>3, <2>4, <2>5, <2>6
    <2>8. sync.leader # NoNode /\ syncMode /\ (failover = NoKey \/ failover.leader # NoNode) => InSync(c, n)
      BY <1>1, <2>1, <2>2 DEF SyncActive
    <2> QED BY <1>2, <2>7, <2>8 DEF c
  <1>4. CASE Race(n)
    <2>1. SyncActive(c) => InSync(c, n) BY <1>4 DEF Race
    <2>2. PICK members \in SUBSET Node : AskRivals(c, n, members)
      <3> DEFINE members == IF SyncActive(c) THEN {m \in Node : InSync(c, m)} ELSE Node
      <3>1. AskRivals(c, n, members) BY <1>4 DEF Race
      <3>2. members \in SUBSET Node OBVIOUS
      <3> QED BY <3>1, <3>2
    <2> HIDE DEF c
    <2>3. Moved(n, {"idle", "race", "acquire"}, c) BY <1>1, <2>2, AskRivalsMoved
    <2>4. Moved(n, All, c) BY <2>3, MovedTo
    <2>5. sync.leader # NoNode /\ syncMode => InSync(c, n) BY <1>1, <2>1 DEF SyncActive
    <2> QED BY <1>2, <2>4, <2>5 DEF c
  <1> QED BY <1>3, <1>4

\* The candidate of the /failover key is asked, and n looks at its own LSN again.
LEMMA AskCandidateMoved ==
  ASSUME TypeInv, NEW n \in Node, AskCandidate(n)
  PROVE  \E c \in Seen(n) :
            /\ Moved(n, {"idle", "race", "retake", "acquire"}, c)
            /\ c.key = look[n].key /\ c.sync = look[n].sync /\ c.heard = look[n].heard
            /\ pc'[n] = "idle" \/ c.lsn = Lsn(n)
  <1> DEFINE c == [look[n] EXCEPT !.lsn = Lsn(n)]
             All == {"idle", "race", "retake", "acquire"}
  <1>1. look[n] \in Seen(n) /\ look[n] \in Look BY SeenIs DEF TypeInv, LoopType
  <1>2. CASE Fit(look[n].key.candidate)
    <2>1. Go(n, "idle", look[n]) BY <1>2 DEF AskCandidate
    <2>2. Moved(n, {"idle"}, look[n]) BY <1>1, <2>1, GoMoved DEF Pcs
    <2>3. Moved(n, All, look[n]) /\ pc'[n] = "idle" BY <2>2, MovedTo DEF Moved
    <2> QED BY <1>1, <2>3
  <1>3. CASE ~Fit(look[n].key.candidate)
    <2>1. PickOther(c, n) BY <1>3 DEF AskCandidate
    <2>2. c \in Look /\ c.waiting = look[n].waiting /\ c.heard = look[n].heard
      BY <1>1, LoadedSeen DEF Look
    <2>3. c.key = look[n].key /\ c.sync = look[n].sync /\ c.lsn = Lsn(n) BY <1>1 DEF Look
    <2>4. c \in Seen(n) BY <1>1, <2>2, SeenIs
    <2> HIDE DEF c
    <2>5. Moved(n, All, c) BY <2>1, <2>4, PickOtherMoved
    <2> QED BY <2>2, <2>3, <2>4, <2>5
  <1> QED BY <1>2, <1>3

\* The answer of a rival: n goes on when it is not the better choice.
LEMMA AskRivalMoved ==
  ASSUME TypeInv, NEW n \in Node, NEW m \in Node, AskRival(n, m)
  PROVE  \E c \in Seen(n) :
            /\ Moved(n, {"idle", "race", "acquire"}, c)
            /\ c.key = look[n].key /\ c.sync = look[n].sync /\ c.lsn = look[n].lsn
            /\ pc'[n] = "idle" \/ \A x \in c.heard : x \in look[n].heard \/ (x = m /\ ~Better(n, m))
  <1> DEFINE All == {"idle", "race", "acquire"}
  <1>0. "acquire" \in Pcs /\ "idle" \in Pcs BY DEF Pcs, Racing
  <1>1. look[n] \in Seen(n) /\ look[n] \in Look BY SeenIs DEF TypeInv, LoopType
  <1>2. m \in Node \ {n} /\ pc[n] = "race" BY <1>1, SeenIs DEF AskRival
  <1>3. CASE ~Fit(m)
    <2>1. Without(n, m, "acquire", FALSE) BY <1>3 DEF AskRival
    <2>2. PICK c \in Seen(n) : Moved(n, {pc[n], "acquire"}, c) /\ Known(c, look[n])
      BY <1>0, <1>2, <2>1, WithoutMoved
    <2>3. Moved(n, All, c) BY <1>2, <2>2, MovedTo
    <2> QED BY <2>2, <2>3 DEF Known
  <1>4. CASE Fit(m) /\ Better(n, m)
    <2>1. Go(n, "idle", look[n]) BY <1>4 DEF AskRival
    <2>2. Moved(n, {"idle"}, look[n]) BY <1>0, <1>1, <2>1, GoMoved
    <2>3. Moved(n, All, look[n]) /\ pc'[n] = "idle" BY <2>2, MovedTo DEF Moved
    <2> QED BY <1>1, <2>3
  <1>5. CASE Fit(m) /\ ~Better(n, m)
    <2>1. Without(n, m, "acquire", TRUE) BY <1>5 DEF AskRival
    <2>2. PICK c \in Seen(n) : /\ Moved(n, {pc[n], "acquire"}, c)
                               /\ c.key = look[n].key /\ c.sync = look[n].sync /\ c.lsn = look[n].lsn
                               /\ c.heard = look[n].heard \cup {m}
      BY <1>0, <1>2, <2>1, WithoutMoved
    <2>3. Moved(n, All, c) BY <1>2, <2>2, MovedTo
    <2> QED BY <1>5, <2>2, <2>3
  <1> QED BY <1>3, <1>4, <1>5

\* The answer of a member that the former leader, or the leader, asks.
LEMMA AskOtherMoved ==
  ASSUME TypeInv, NEW n \in Node, NEW m \in Node, AskSuccessor(n, m) \/ AskHeir(n, m)
  PROVE  \E c \in Seen(n) :
            /\ Moved(n, IF pc[n] = "retake" THEN {"idle", "retake", "acquire"}
                        ELSE {"demote", "handover", "unkey"}, c)
            /\ Known(c, look[n])
  <1>0. {"retake", "acquire", "handover", "demote", "unkey", "idle"} \subseteq Pcs BY DEF Pcs, Racing
  <1>1. look[n] \in Seen(n) /\ look[n] \in Look BY SeenIs DEF TypeInv, LoopType
  <1>2. m \in Node \ {n} BY <1>1, SeenIs DEF AskSuccessor, AskHeir
  <1>3. Known(look[n], look[n]) BY DEF Known
  <1>4. ASSUME NEW from \in {"retake", "handover"}, NEW found \in Pcs, NEW to \in Pcs, pc[n] = from,
               IF Possible(look[n], m) THEN Go(n, found, look[n]) ELSE Without(n, m, to, FALSE)
        PROVE  \E c \in Seen(n) : Moved(n, {found, from, to}, c) /\ Known(c, look[n])
    <2>1. CASE Possible(look[n], m)
      <3>1. Go(n, found, look[n]) BY <1>4, <2>1
      <3>2. Moved(n, {found}, look[n]) BY <1>1, <3>1, GoMoved
      <3>3. Moved(n, {found, from, to}, look[n]) BY <3>2, MovedTo
      <3> QED BY <1>1, <1>3, <3>3
    <2>2. CASE ~Possible(look[n], m)
      <3>1. Without(n, m, to, FALSE) BY <1>4, <2>2
      <3>2. PICK c \in Seen(n) : Moved(n, {pc[n], to}, c) /\ Known(c, look[n])
        BY <1>0, <1>2, <3>1, WithoutMoved
      <3>3. Moved(n, {found, from, to}, c) BY <1>4, <3>2, MovedTo
      <3> QED BY <3>2, <3>3
    <2> QED BY <2>1, <2>2
  <1>5. CASE AskSuccessor(n, m)
    <2>1. /\ pc[n] = "retake"
          /\ IF Possible(look[n], m) THEN Go(n, "idle", look[n]) ELSE Without(n, m, "acquire", FALSE)
      BY <1>5 DEF AskSuccessor
    <2>2. PICK c \in Seen(n) : Moved(n, {"idle", "retake", "acquire"}, c) /\ Known(c, look[n])
      BY <1>0, <1>4, <2>1
    <2> QED BY <2>1, <2>2
  <1>6. CASE AskHeir(n, m)
    <2>1. /\ pc[n] = "handover"
          /\ IF Possible(look[n], m) THEN Go(n, "demote", look[n]) ELSE Without(n, m, "unkey", FALSE)
      BY <1>6 DEF AskHeir
    <2>2. PICK c \in Seen(n) : Moved(n, {"demote", "handover", "unkey"}, c) /\ Known(c, look[n])
      BY <1>0, <1>4, <2>1
    <2> QED BY <2>1, <2>2
  <1> QED BY <1>5, <1>6

\* The cycle of the leader.
LEMMA LeaderCycleMoved ==
  ASSUME TypeInv, NEW n \in Node, LeaderCycle(n)
  PROVE  Moved(n, {"enforce", "handover", "unkey"}, Loaded(n))
  <1> DEFINE c == Loaded(n)
  <1>0. {"enforce", "handover", "unkey"} \subseteq Pcs BY DEF Pcs
  <1>1. c \in Seen(n) BY LoadedSeen
  <1>2. \/ AskOr(n, "handover", Candidates(c, n, FALSE), "unkey", c)
        \/ \E next \in {"enforce", "unkey"} : Go(n, next, c)
    BY Zenon DEF LeaderCycle
  <1>3. Candidates(c, n, FALSE) \subseteq Node \ {n} BY DEF Candidates
  <1> HIDE DEF c
  <1>4. CASE AskOr(n, "handover", Candidates(c, n, FALSE), "unkey", c)
    <2>1. Moved(n, {"handover", "unkey"}, c) BY <1>0, <1>1, <1>3, <1>4, AskOrMoved
    <2> QED BY <2>1, MovedTo DEF c
  <1>5. CASE \E next \in {"enforce", "unkey"} : Go(n, next, c)
    <2>1. PICK next \in {"enforce", "unkey"} : Go(n, next, c) BY <1>5
    <2>2. Moved(n, {next}, c) BY <1>0, <1>1, <2>1, GoMoved
    <2> QED BY <2>2, MovedTo DEF c
  <1> QED BY <1>2, <1>4, <1>5

-----------------------------------------------------------------------------
(* Types *)

\* The WAL of a node is not empty, and its timeline is that of the last record.
LEMMA WalType ==
  ASSUME TypeInv, NEW n \in Node
  PROVE  /\ wal[n] \in Seq(Nat) /\ wal[n] # <<>>
         /\ Len(wal[n]) \in Nat \ {0} /\ Lsn(n) = Len(wal[n])
         /\ Timeline(n) \in Nat
  <1>1. wal[n] \in Seq(Nat) /\ wal[n] # <<>> BY DEF TypeInv
  <1>2. Len(wal[n]) \in Nat \ {0} BY <1>1, EmptySeq
  <1>3. Len(wal[n]) \in 1 .. Len(wal[n]) BY <1>2
  <1>4. wal[n][Len(wal[n])] \in Nat BY <1>1, <1>3, ElementOfSeq
  <1> QED BY <1>1, <1>2, <1>4 DEF Timeline, Last, Lsn

\* What a standby streams is a WAL, and longer than what it had.
LEMMA StreamedWal ==
  ASSUME TypeInv, NEW s \in Node, NEW p \in Node, IsStrictPrefix(wal[s], wal[p])
  PROVE  SubSeq(wal[p], 1, Len(wal[s]) + 1) \in Seq(Nat) \ {<<>>}
  <1> DEFINE k == Len(wal[s]) + 1
  <1>1. wal[s] \in Seq(Nat) /\ Len(wal[s]) \in Nat BY WalType
  <1>2. wal[p] \in Seq(Nat) /\ Len(wal[p]) \in Nat BY WalType
  <1>3. Len(wal[s]) # Len(wal[p])
    <2>1. SUFFICES ASSUME Len(wal[s]) = Len(wal[p]) PROVE wal[s] = wal[p]
      BY DEF IsStrictPrefix
    <2>2. SubSeq(wal[s], 1, Len(wal[s])) = SubSeq(wal[p], 1, Len(wal[p]))
      BY <2>1 DEF IsStrictPrefix, IsPrefix
    <2>3. SubSeq(wal[s], 1, Len(wal[s])) = wal[s] BY <1>1, SubSeqFull
    <2>4. SubSeq(wal[p], 1, Len(wal[p])) = wal[p] BY <1>2, SubSeqFull
    <2> QED BY <2>2, <2>3, <2>4
  <1>4. k \in Int /\ 1 \in Int /\ k >= 1 /\ k <= Len(wal[p])
    BY <1>1, <1>2, <1>3 DEF IsStrictPrefix, IsPrefix
  <1>5. \A i \in 1 .. k : wal[p][i] \in Nat
    <2>1. ASSUME NEW i \in 1 .. k PROVE wal[p][i] \in Nat
      <3>1. i \in 1 .. Len(wal[p]) BY <1>2, <1>4
      <3> QED BY <1>2, <3>1, ElementOfSeq
    <2> QED BY <2>1
  <1> HIDE DEF k
  <1>6. /\ SubSeq(wal[p], 1, k) \in Seq(Nat)
        /\ Len(SubSeq(wal[p], 1, k)) = IF 1 <= k THEN k - 1 + 1 ELSE 0
    BY <1>4, <1>5, SubSeqProperties
  <1>7. SubSeq(wal[p], 1, k) # <<>> BY <1>4, <1>6, EmptySeq
  <1> QED BY <1>6, <1>7 DEF k

\* A step that is the loop's alone keeps the types.
LEMMA LoopTyped ==
  ASSUME TypeInv, LoopType', UNCHANGED <<syncMode, dcsVars, apiVars, nodeVars, faults>>
  PROVE  TypeInv'
  BY DEF TypeInv, dcsVars, apiVars, nodeVars

\* A cluster begins with the types.
LEMMA TypeStart == Init => TypeInv
  <1> SUFFICES ASSUME Init PROVE TypeInv OBVIOUS
  <1>1. NoKey \in Key BY ElectionAssumption DEF NoKey, Key, Times
  <1>2. NoSync \in Sync BY DEF NoSync, Sync
  <1>3. NoLook \in Look BY <1>1, <1>2 DEF NoLook, Look
  <1>4. \A n \in Node : NoLook \in Seen(n) BY <1>3, SeenIs DEF NoLook
  <1>5. sync \in Sync
    <2>1. owner \in Node \cup {NoNode} BY DEF Init
    <2>2. [NoSync EXCEPT !.leader = owner] \in Sync BY <1>2, <2>1 DEF Sync
    <2> QED BY <1>2, <2>2 DEF Init
  <1>6. <<1>> \in Seq(Nat) \ {<<>>} OBVIOUS
  <1>7. wal \in [Node -> Seq(Nat) \ {<<>>}] BY <1>6 DEF Init
  <1>8. LoopType BY <1>3, <1>4 DEF Init, LoopType, Pcs
  <1>9. faults \in 0 .. MaxEvents /\ requests \in 0 .. MaxRequests
    BY ElectionAssumption DEF Init
  <1> QED BY <1>1, <1>5, <1>7, <1>8, <1>9 DEF Init, TypeInv

\* A step of the HA loop of a node.
LEMMA HaTyped ==
  ASSUME TypeInv, NEW n \in Node, HaStep(n)
  PROVE  TypeInv'
  <1> USE DEF dcsVars, apiVars, nodeVars, haVars
  <1>0. LoopType /\ look[n] \in Seen(n) /\ look[n] \in Look BY SeenIs DEF TypeInv, LoopType
  <1>1. /\ NoLook \in Seen(n) /\ Loaded(n) \in Seen(n) /\ NoKey \in Key
        /\ Lsn(n) \in Nat /\ Timeline(n) \in Nat /\ wal[n] \in Seq(Nat)
    BY LoadedSeen, WalType
  <1>2. {"acquire", "clean", "enforce", "idle", "promote", "release"} \subseteq Pcs BY DEF Pcs, Racing
  <1>3. \A to \in Pcs, seen \in Seen(n) : Go(n, to, seen) => LoopType'
    <2>1. ASSUME NEW to \in Pcs, NEW seen \in Seen(n), Go(n, to, seen) PROVE LoopType'
      <3>1. Moved(n, {to}, seen) BY <2>1, GoMoved
      <3> QED BY <3>1 DEF Moved
    <2> QED BY <2>1
  <1>4. CASE PrimaryRaces(n)
    <2>1. CASE Go(n, "acquire", Loaded(n)) /\ UNCHANGED pg
      <3>1. LoopType' BY <1>1, <1>2, <1>3, <2>1
      <3> QED BY <1>4, <2>1, <3>1, LoopTyped DEF PrimaryRaces
    <2>2. CASE pg' = [pg EXCEPT ![n] = "standby"] /\ UNCHANGED haVars
      BY <1>4, <2>2 DEF PrimaryRaces, TypeInv, LoopType
    <2> QED BY <1>4, <2>1, <2>2 DEF PrimaryRaces
  <1>5. CASE RaceForRequest(n) \/ Race(n)
    <2>1. LoopType' BY <1>5, RaceMoved DEF Moved
    <2> QED BY <1>5, <2>1, LoopTyped DEF RaceForRequest, Race, StandbyRaces
  <1>6. CASE AskCandidate(n)
    <2>1. LoopType' BY <1>6, AskCandidateMoved DEF Moved
    <2> QED BY <1>6, <2>1, LoopTyped DEF AskCandidate
  <1>7. ASSUME NEW m \in Node, AskRival(n, m) \/ AskSuccessor(n, m) \/ AskHeir(n, m) PROVE TypeInv'
    <2>1. CASE AskRival(n, m)
      <3>1. LoopType' BY <2>1, AskRivalMoved DEF Moved
      <3> QED BY <2>1, <3>1, LoopTyped DEF AskRival
    <2>2. CASE AskSuccessor(n, m) \/ AskHeir(n, m)
      <3>1. LoopType' BY <2>2, AskOtherMoved DEF Moved
      <3> QED BY <2>2, <3>1, LoopTyped DEF AskSuccessor, AskHeir
    <2> QED BY <1>7, <2>1, <2>2
  <1>8. CASE Acquire(n)
    <2>1. LoopType'
      <3>1. \E to \in {"clean", "enforce", "idle"} : Go(n, to, look[n])
        BY <1>8, Zenon DEF Acquire
      <3> QED BY <1>0, <1>2, <1>3, <3>1
    <2>2. owner' \in Node \cup {NoNode} BY <1>8 DEF Acquire, TypeInv
    <2> QED BY <1>8, <2>1, <2>2 DEF Acquire, TypeInv
  <1>9. CASE CleanKey(n)
    <2>1. LoopType' BY <1>0, <1>2, <1>3, <1>9 DEF CleanKey
    <2> QED BY <1>1, <1>9, <2>1 DEF CleanKey, TypeInv
  <1>10. CASE EnforcePrimaryRole(n)
    <2>1. LoopType'
      <3>1. \E to \in {"promote", "idle"} : Go(n, to, NoLook)
        BY <1>10, Zenon DEF EnforcePrimaryRole
      <3> QED BY <1>1, <1>2, <1>3, <3>1
    <2>2. timeline' \in Nat /\ sync' \in Sync
      BY <1>1, <1>10 DEF EnforcePrimaryRole, TypeInv, Sync
    <2> QED BY <1>10, <2>1, <2>2 DEF EnforcePrimaryRole, TypeInv
  <1>11. CASE Promote(n)
    <2>1. LoopType' BY <1>1, <1>2, <1>3, <1>11 DEF Promote
    <2>2. Timeline(n) + 1 \in Nat BY <1>1
    <2>3. Append(wal[n], Timeline(n) + 1) \in Seq(Nat) \ {<<>>} BY <1>1, <2>2, AppendProperties
    <2>4. wal' \in [Node -> Seq(Nat) \ {<<>>}] BY <1>11, <2>3 DEF Promote, TypeInv
    <2>5. pg' \in [Node -> {"down", "standby", "primary"}] BY <1>11 DEF Promote, TypeInv
    <2> QED BY <1>11, <2>1, <2>4, <2>5 DEF Promote, TypeInv
  <1>12. CASE LeaderCycle(n)
    <2>1. LoopType' BY <1>12, LeaderCycleMoved DEF Moved
    <2> QED BY <1>1, <1>12, <2>1 DEF LeaderCycle, TypeInv
  <1>13. CASE RemoveKey(n)
    <2>1. LoopType' BY <1>0, <1>2, <1>3, <1>13 DEF RemoveKey
    <2> QED BY <1>1, <1>13, <2>1 DEF RemoveKey, TypeInv
  <1>14. CASE StopPostgres(n)
    <2>1. LoopType' BY <1>1, <1>2, <1>3, <1>14 DEF StopPostgres
    <2>2. pg' \in [Node -> {"down", "standby", "primary"}] BY <1>14 DEF StopPostgres, TypeInv
    <2> QED BY <1>14, <2>1, <2>2 DEF StopPostgres, TypeInv
  <1>15. CASE ReleaseKey(n)
    <2>1. LoopType' BY <1>1, <1>2, <1>3, <1>15 DEF ReleaseKey
    <2>2. owner' \in Node \cup {NoNode} /\ lastLsn' \in Nat BY <1>1, <1>15 DEF ReleaseKey, TypeInv
    <2> QED BY <1>15, <2>1, <2>2 DEF ReleaseKey, TypeInv
  <1>16. CASE StartStandby(n) \/ FollowLeader(n)
    BY <1>16 DEF StartStandby, FollowLeader, TypeInv, LoopType
  <1> QED
    BY <1>4, <1>5, <1>6, <1>7, <1>8, <1>9, <1>10, <1>11, <1>12, <1>13, <1>14, <1>15, <1>16
    DEF HaStep

\* Steps of postgres.
LEMMA PostgresTyped ==
  ASSUME TypeInv, NEW n \in Node, PostgresStep(n)
  PROVE  TypeInv'
  <1> USE DEF dcsVars, apiVars, nodeVars, haVars
  <1>1. CASE Commit(n)
    <2>1. Append(wal[n], Timeline(n)) \in Seq(Nat) \ {<<>>} BY WalType, AppendProperties
    <2>2. wal' \in [Node -> Seq(Nat) \ {<<>>}] BY <1>1, <2>1 DEF Commit, TypeInv
    <2> QED BY <1>1, <2>2 DEF Commit, TypeInv, LoopType
  <1>2. CASE Rewind(n)
    <2>1. owner \in Node BY <1>2 DEF Rewind, TypeInv
    <2>2. wal' \in [Node -> Seq(Nat) \ {<<>>}] BY <1>2, <2>1 DEF Rewind, TypeInv
    <2> QED BY <1>2, <2>2 DEF Rewind, TypeInv, LoopType
  <1>3. ASSUME NEW p \in Node, Stream(n, p) PROVE TypeInv'
    <2>1. SubSeq(wal[p], 1, Len(wal[n]) + 1) \in Seq(Nat) \ {<<>>} BY <1>3, StreamedWal DEF Stream
    <2>2. wal' = [wal EXCEPT ![n] = SubSeq(wal[p], 1, Len(wal[n]) + 1)] BY <1>3 DEF Stream
    <2>3. wal' \in [Node -> Seq(Nat) \ {<<>>}] BY <2>1, <2>2 DEF TypeInv
    <2> QED BY <1>3, <2>3 DEF Stream, TypeInv, LoopType
  <1> QED BY <1>1, <1>2, <1>3 DEF PostgresStep

\* Requests, faults and what the primary publishes.
LEMMA OtherTyped ==
  ASSUME TypeInv, NEW n \in Node,
         PublishSync(n) \/ Crash(n) \/ Stall(n) \/ Return(n) \/ KeyExpires(n)
  PROVE  TypeInv'
  <1> USE DEF dcsVars, apiVars, nodeVars, haVars
  <1>1. NoLook \in Seen(n) /\ NoKey \in Key /\ "idle" \in Pcs BY LoadedSeen DEF Pcs
  <1>2. Go(n, "idle", NoLook) => LoopType'
    <2>1. ASSUME Go(n, "idle", NoLook) PROVE LoopType'
      <3>1. Moved(n, {"idle"}, NoLook) BY <1>1, <2>1, GoMoved
      <3> QED BY <3>1 DEF Moved
    <2> QED BY <2>1
  <1>3. CASE PublishSync(n)
    <2>1. sync' \in Sync BY <1>3 DEF PublishSync, Sync
    <2> QED BY <1>3, <2>1 DEF PublishSync, TypeInv, LoopType
  <1>4. ASSUME Fault PROVE faults' \in 0 .. MaxEvents
    BY <1>4, ElectionAssumption DEF Fault, TypeInv
  <1>5. CASE Crash(n)
    <2>1. LoopType' BY <1>2, <1>5 DEF Crash
    <2>2. faults' \in 0 .. MaxEvents BY <1>4, <1>5 DEF Crash
    <2>3. /\ up' \in [Node -> BOOLEAN] /\ pg' \in [Node -> {"down", "standby", "primary"}]
      BY <1>5 DEF Crash, TypeInv
    <2> QED BY <1>5, <2>1, <2>2, <2>3 DEF Crash, TypeInv
  <1>6. CASE Stall(n)
    <2>1. faults' \in 0 .. MaxEvents BY <1>4, <1>6 DEF Stall
    <2> QED BY <1>6, <2>1 DEF Stall, TypeInv, LoopType
  <1>7. CASE Return(n) BY <1>7 DEF Return, TypeInv, LoopType
  <1>8. CASE KeyExpires(n)
    <2>1. LoopType'
      <3>1. CASE Watchdog BY <1>2, <1>8, <3>1 DEF KeyExpires
      <3>2. CASE ~Watchdog BY <1>8, <3>2 DEF KeyExpires, TypeInv, LoopType
      <3> QED BY <3>1, <3>2
    <2>2. pg' \in [Node -> {"down", "standby", "primary"}]
      <3>1. CASE Watchdog BY <1>8, <3>1 DEF KeyExpires, TypeInv
      <3>2. CASE ~Watchdog BY <1>8, <3>2 DEF KeyExpires, TypeInv
      <3> QED BY <3>1, <3>2
    <2> QED BY <1>8, <2>1, <2>2 DEF KeyExpires, TypeInv
  <1> QED BY <1>3, <1>5, <1>6, <1>7, <1>8

\* The REST API, and time.
LEMMA ApiTyped ==
  ASSUME TypeInv, ApiStep
  PROVE  TypeInv'
  <1> USE DEF dcsVars, apiVars, nodeVars, haVars
  <1>0. NoKey \in Key BY ElectionAssumption DEF NoKey, Key, Times
  <1>1. ASSUME NEW leader \in Node \cup {NoNode}, NEW candidate \in Node \cup {NoNode},
               NEW at \in {"none", "later"}, CheckRequest(leader, candidate, at)
        PROVE  TypeInv'
    <2>1. requests + 1 \in 0 .. MaxRequests
      BY <1>1, ElectionAssumption DEF CheckRequest, TypeInv
    <2>2. request' \in Key BY <1>1, <2>1 DEF CheckRequest, Key, Times
    <2> QED BY <1>1, <2>1, <2>2 DEF CheckRequest, TypeInv, LoopType
  <1>2. CASE WriteRequest BY <1>0, <1>2 DEF WriteRequest, TypeInv, LoopType
  <1>3. CASE TimePasses
    <2>1. failover \in Key BY DEF TypeInv
    <2>2. \A t \in Times : [failover EXCEPT !.at = t] \in Key BY <2>1 DEF Key
    <2>3. failover' = [failover EXCEPT !.at = IF failover.at = "later" THEN "due" ELSE "past"]
      BY <1>3 DEF TimePasses
    <2>4. failover' \in Key BY <2>2, <2>3 DEF Times
    <2> QED BY <1>3, <2>4 DEF TimePasses, TypeInv, LoopType
  <1> QED BY <1>1, <1>2, <1>3 DEF ApiStep

\* Every step.
LEMMA TypeStep == TypeInv /\ [Next]_vars => TypeInv'
  <1> SUFFICES ASSUME TypeInv, [Next]_vars PROVE TypeInv' OBVIOUS
  <1>1. ASSUME NEW n \in Node, HaStep(n) \/ PostgresStep(n) \/ PublishSync(n) PROVE TypeInv'
    BY <1>1, HaTyped, PostgresTyped, OtherTyped
  <1>2. ASSUME NEW n \in Node, Crash(n) \/ Stall(n) \/ Return(n) \/ KeyExpires(n) PROVE TypeInv'
    BY <1>2, OtherTyped
  <1>3. CASE ApiStep BY <1>3, ApiTyped
  <1>4. CASE UNCHANGED vars
    BY <1>4 DEF vars, dcsVars, apiVars, nodeVars, haVars, TypeInv, LoopType
  <1> QED BY <1>1, <1>2, <1>3, <1>4 DEF Next

\* Every variable has its type, in every behaviour.
THEOREM ElectionType == Spec => []TypeOK
  <1>1. TypeInv => TypeOK
    <2> SUFFICES ASSUME TypeInv PROVE TypeOK OBVIOUS
    <2>1. \A n \in Node : wal[n] \in Seq(Nat) /\ wal[n] # <<>> BY WalType
    <2>2. \A n \in Node : /\ look[n].key \in Key /\ {look[n].last, look[n].tl, look[n].lsn} \subseteq Nat
                          /\ look[n].waiting \cup look[n].heard \subseteq Node \ {n}
      BY SeenIs DEF TypeInv, LoopType, Look
    <2> QED BY <2>1, <2>2 DEF TypeInv, LoopType, TypeOK, Pcs, Sync
  <1> QED BY <1>1, TypeStart, TypeStep, PTL DEF Spec

-----------------------------------------------------------------------------
(* The race *)

\* Nothing changes for m: it is where it was, and if the key is free it has been and nothing was
\* written meanwhile.
LEMMA Kept ==
  ASSUME NEW m \in Node, LockInv(m), RaceInv(m),
         pc'[m] = pc[m], look'[m] = look[m], pg'[m] = pg[m], syncMode' = syncMode,
         owner = m => owner' = m, pc[m] \in Racing => owner' # m,
         owner' = NoNode => owner = NoNode /\ sync' = sync /\ wal' = wal
  PROVE  LockInv(m)' /\ RaceInv(m)'
  <1>1. LockInv(m)' BY DEF LockInv
  <1>2. RaceInv(m)'
    <2>1. SUFFICES ASSUME pc[m] \in Racing, owner' = NoNode PROVE Fresh(look[m], m)'
      BY DEF RaceInv
    <2>2. Fresh(look[m], m) BY <2>1 DEF RaceInv
    <2>3. sync' = sync /\ wal' = wal BY <2>1
    <2> QED BY <2>2, <2>3 DEF Fresh, Lsn, InSync
  <1> QED BY <1>1, <1>2

\* A step that is the loop's of n alone: what n is in afterwards must be so.
LEMMA LoopKept ==
  ASSUME TypeInv, ElectionInv, NEW n \in Node, NEW goals, NEW c, Moved(n, goals, c),
         UNCHANGED <<syncMode, owner, sync, pg, wal>>,
         "release" \notin goals,
         goals \cap Leading # {} => owner = n,
         goals \cap Racing # {} => /\ pg[n] = "standby" /\ owner # n
                                   /\ owner = NoNode /\ pc'[n] # "idle" => Fresh(c, n)
  PROVE  ElectionInv'
  <1>1. \A m \in Node \ {n} : LockInv(m)' /\ RaceInv(m)'
    <2>1. ASSUME NEW m \in Node \ {n} PROVE LockInv(m)' /\ RaceInv(m)'
      <3>1. pc'[m] = pc[m] /\ look'[m] = look[m] BY DEF Moved
      <3>2. LockInv(m) /\ RaceInv(m) BY DEF ElectionInv
      <3> QED BY <3>1, <3>2, Kept DEF RaceInv
    <2> QED BY <2>1
  <1>2. pc'[n] \in goals /\ (pc'[n] # "idle" => Known(look'[n], c)) BY DEF Moved
  <1>3. LockInv(n)'
    <2>1. LockInv(n) BY DEF ElectionInv
    <2> QED BY <1>2, <2>1 DEF LockInv
  <1>4. RaceInv(n)'
    <2>1. SUFFICES ASSUME pc'[n] \in Racing
                   PROVE  pg'[n] = "standby" /\ owner' # n /\ (owner' = NoNode => Fresh(look[n], n)')
      BY DEF RaceInv
    <2>2. pc'[n] # "idle" BY <2>1 DEF Racing
    <2>3. pg[n] = "standby" /\ owner # n /\ (owner = NoNode => Fresh(c, n)) BY <1>2, <2>1, <2>2
    <2>4. Fresh(c, n) => Fresh(look[n], n)' BY <1>2, <2>2 DEF Fresh, Known, Lsn, InSync
    <2> QED BY <2>3, <2>4
  <1>5. SyncInv' BY DEF ElectionInv, SyncInv
  <1> QED BY <1>1, <1>3, <1>4, <1>5 DEF ElectionInv

\* What a cycle has just loaded is so.
LEMMA LoadedFresh ==
  ASSUME TypeInv, NEW n \in Node,
         sync.leader # NoNode /\ (failover = NoKey \/ failover.leader # NoNode) => InSync(Loaded(n), n)
  PROVE  Fresh(Loaded(n), n)
  <1>1. /\ Loaded(n).lsn = Lsn(n) /\ Loaded(n).sync = sync /\ Loaded(n).heard = {}
        /\ Loaded(n).key = failover
    BY LoadedSeen
  <1> QED BY <1>1 DEF Fresh

\* A cluster begins with one primary, which has the key.
LEMMA RaceStart == Init => ElectionInv
  <1> SUFFICES ASSUME Init PROVE ElectionInv OBVIOUS
  <1>1. SyncInv BY DEF Init, SyncInv, NoSync
  <1>2. ASSUME NEW n \in Node PROVE LockInv(n) /\ RaceInv(n)
    BY DEF Init, LockInv, RaceInv, Leading, Racing
  <1> QED BY <1>1, <1>2 DEF ElectionInv

\* A step of the HA loop.
LEMMA HaRace ==
  ASSUME TypeInv, ElectionInv, PromptRace, NEW n \in Node, HaStep(n)
  PROVE  ElectionInv'
  <1> USE DEF dcsVars, apiVars, nodeVars, haVars
  <1>0. LockInv(n) /\ RaceInv(n) /\ SyncInv /\ look[n] \in Seen(n) /\ n # NoNode
    BY ElectionAssumption DEF ElectionInv, TypeInv, LoopType
  <1>1. NoLook \in Seen(n) BY LoadedSeen
  <1>2. {"acquire", "clean", "enforce", "idle", "promote", "release"} \subseteq Pcs BY DEF Pcs, Racing
  \* The loops of the others do not move, and if the key is free it has been.
  <1>3. ASSUME NEW goals, NEW c, Moved(n, goals, c), syncMode' = syncMode,
               \A m \in Node \ {n} : pg'[m] = pg[m] /\ owner # m /\ owner' # m,
               owner' = NoNode => owner = NoNode /\ sync' = sync /\ wal' = wal
        PROVE  \A m \in Node \ {n} : LockInv(m)' /\ RaceInv(m)'
    <2>1. ASSUME NEW m \in Node \ {n} PROVE LockInv(m)' /\ RaceInv(m)'
      <3>1. pc'[m] = pc[m] /\ look'[m] = look[m] BY <1>3 DEF Moved
      <3>2. LockInv(m) /\ RaceInv(m) BY DEF ElectionInv
      <3>3. owner' # m BY <1>3
      <3> QED BY <1>3, <3>1, <3>2, <3>3, Kept
    <2> QED BY <2>1
  <1>4. CASE PrimaryRaces(n)
    <2>1. owner = NoNode /\ pg[n] = "primary" BY <1>4 DEF PrimaryRaces
    <2> QED BY <1>0, <2>1 DEF LockInv
  <1>5. CASE RaceForRequest(n) \/ Race(n)
    <2>1. /\ Moved(n, {"idle", "acquire", "candidate", "race", "retake"}, Loaded(n))
          /\ pg[n] = "standby" /\ owner = NoNode
          /\ sync.leader # NoNode /\ syncMode /\ (failover = NoKey \/ failover.leader # NoNode)
               => InSync(Loaded(n), n)
      BY <1>5, RaceMoved
    <2>2. Fresh(Loaded(n), n) BY <1>0, <2>1, LoadedFresh DEF SyncInv
    <2>3. UNCHANGED <<syncMode, owner, sync, pg, wal>> BY <1>5 DEF RaceForRequest, Race, StandbyRaces
    <2> QED BY <1>0, <2>1, <2>2, <2>3, LoopKept DEF Leading
  <1>6. CASE AskCandidate(n)
    <2>1. PICK c \in Seen(n) :
            /\ Moved(n, {"idle", "race", "retake", "acquire"}, c)
            /\ c.key = look[n].key /\ c.sync = look[n].sync /\ c.heard = look[n].heard
            /\ pc'[n] = "idle" \/ c.lsn = Lsn(n)
      BY <1>6, AskCandidateMoved
    <2>2. pg[n] = "standby" /\ owner # n /\ (owner = NoNode => Fresh(look[n], n))
      BY <1>0, <1>6 DEF AskCandidate, RaceInv, Racing
    <2>3. Fresh(look[n], n) /\ pc'[n] # "idle" => Fresh(c, n) BY <2>1 DEF Fresh, InSync
    <2>4. UNCHANGED <<syncMode, owner, sync, pg, wal>> BY <1>6 DEF AskCandidate
    <2> QED BY <2>1, <2>2, <2>3, <2>4, LoopKept DEF Leading
  <1>7. ASSUME NEW m \in Node, AskRival(n, m) PROVE ElectionInv'
    <2>1. PICK c \in Seen(n) :
            /\ Moved(n, {"idle", "race", "acquire"}, c)
            /\ c.key = look[n].key /\ c.sync = look[n].sync /\ c.lsn = look[n].lsn
            /\ pc'[n] = "idle" \/ \A x \in c.heard : x \in look[n].heard \/ (x = m /\ ~Better(n, m))
      BY <1>7, AskRivalMoved
    <2>2. pg[n] = "standby" /\ owner # n /\ (owner = NoNode => Fresh(look[n], n))
      BY <1>0, <1>7 DEF AskRival, RaceInv, Racing
    <2>3. ASSUME owner = NoNode, pc'[n] # "idle" PROVE Fresh(c, n)
      <3>1. Fresh(look[n], n) BY <2>2, <2>3
      <3>2. ~Better(n, m) => Lsn(m) <= Lsn(n) \/ (syncMode /\ sync.leader = m)
        <4>1. Lsn(m) \in Nat /\ Lsn(n) \in Nat BY WalType
        <4> QED BY <3>1, <4>1 DEF Better, Position, Fresh, SyncActive
      <3>3. \A x \in c.heard : Lsn(x) <= Lsn(n) \/ (syncMode /\ sync.leader = x)
        BY <2>1, <2>3, <3>1, <3>2 DEF Fresh
      <3> QED BY <2>1, <3>1, <3>3 DEF Fresh, InSync
    <2>4. UNCHANGED <<syncMode, owner, sync, pg, wal>> BY <1>7 DEF AskRival
    <2> QED BY <2>1, <2>2, <2>3, <2>4, LoopKept DEF Leading
  <1>8. ASSUME NEW m \in Node, AskSuccessor(n, m) \/ AskHeir(n, m) PROVE ElectionInv'
    <2> DEFINE goals == IF pc[n] = "retake" THEN {"idle", "retake", "acquire"}
                        ELSE {"demote", "handover", "unkey"}
    <2>1. PICK c \in Seen(n) : Moved(n, goals, c) /\ Known(c, look[n]) BY <1>8, AskOtherMoved
    <2>2. UNCHANGED <<syncMode, owner, sync, pg, wal>> BY <1>8 DEF AskSuccessor, AskHeir
    <2>3. CASE pc[n] = "retake"
      <3>1. pg[n] = "standby" /\ owner # n /\ (owner = NoNode => Fresh(look[n], n))
        BY <1>0, <2>3 DEF RaceInv, Racing
      <3>2. Fresh(look[n], n) => Fresh(c, n) BY <2>1 DEF Fresh, InSync, Known
      <3> QED BY <2>1, <2>2, <2>3, <3>1, <3>2, LoopKept DEF Leading
    <2>4. CASE pc[n] # "retake"
      <3>1. owner = n BY <1>0, <1>8, <2>4 DEF AskSuccessor, AskHeir, LockInv, Leading
      <3> QED BY <2>1, <2>2, <2>4, <3>1, LoopKept DEF Racing
    <2> QED BY <2>3, <2>4
  <1>9. CASE Acquire(n)
    <2>1. CASE owner = NoNode
      <3>1. owner' = n /\ \E to \in {"clean", "enforce"} : Go(n, to, look[n])
        BY <1>9, <2>1, Zenon DEF Acquire
      <3>2. PICK to \in {"clean", "enforce"} : Moved(n, {to}, look[n])
        <4>1. PICK to \in {"clean", "enforce"} : Go(n, to, look[n]) BY <3>1
        <4>2. Moved(n, {to}, look[n]) BY <1>0, <1>2, <4>1, GoMoved
        <4> QED BY <4>2
      <3>3. UNCHANGED <<syncMode, sync, pg, wal>> BY <1>9 DEF Acquire
      <3>4. \A m \in Node \ {n} : LockInv(m)' /\ RaceInv(m)'
        <4>1. \A m \in Node \ {n} : owner' # m /\ owner # m /\ owner' # NoNode
          BY <1>0, <2>1, <3>1, ElectionAssumption
        <4> QED BY <1>3, <3>2, <3>3, <4>1, <1>0, <3>1
      <3>5. LockInv(n)' /\ RaceInv(n)'
        <4>1. pc'[n] = to BY <3>2 DEF Moved
        <4> QED BY <3>1, <3>2, <4>1 DEF LockInv, RaceInv, Racing
      <3>6. SyncInv' BY <1>0, <3>3 DEF SyncInv
      <3> QED BY <3>4, <3>5, <3>6 DEF ElectionInv
    <2>2. CASE owner # NoNode
      <3>1. Go(n, "idle", look[n]) /\ UNCHANGED owner BY <1>9, <2>2 DEF Acquire
      <3>2. Moved(n, {"idle"}, look[n]) BY <1>0, <1>2, <3>1, GoMoved
      <3>3. UNCHANGED <<syncMode, owner, sync, pg, wal>> BY <1>9, <3>1 DEF Acquire
      <3> QED BY <3>2, <3>3, LoopKept DEF Leading, Racing
    <2> QED BY <2>1, <2>2
  <1>10. CASE CleanKey(n) \/ RemoveKey(n)
    <2>1. Go(n, "enforce", look[n]) /\ UNCHANGED <<syncMode, owner, sync, pg, wal>>
      BY <1>10 DEF CleanKey, RemoveKey
    <2>2. owner = n BY <1>0, <1>10 DEF CleanKey, RemoveKey, LockInv, Leading
    <2>3. Moved(n, {"enforce"}, look[n]) BY <1>0, <1>2, <2>1, GoMoved
    <2> QED BY <2>1, <2>2, <2>3, LoopKept DEF Racing
  <1>11. CASE EnforcePrimaryRole(n)
    <2>1. owner = n BY <1>0, <1>11 DEF EnforcePrimaryRole, LockInv, Leading
    <2>2. PICK to \in {"promote", "idle"} : Moved(n, {to}, NoLook)
      <3>1. \E to \in {"promote", "idle"} : Go(n, to, NoLook)
        BY <1>11, Zenon DEF EnforcePrimaryRole
      <3>2. PICK to \in {"promote", "idle"} : Go(n, to, NoLook) BY <3>1
      <3>3. Moved(n, {to}, NoLook) BY <1>1, <1>2, <3>2, GoMoved
      <3> QED BY <3>3
    <2>3. UNCHANGED <<syncMode, owner, pg, wal>> BY <1>11 DEF EnforcePrimaryRole
    <2>4. \A m \in Node \ {n} : LockInv(m)' /\ RaceInv(m)' BY <1>0, <1>3, <2>1, <2>2, <2>3
    <2>5. LockInv(n)' /\ RaceInv(n)'
      <3>1. pc'[n] = to BY <2>2 DEF Moved
      <3> QED BY <2>1, <2>2, <2>3, <3>1 DEF LockInv, RaceInv, Racing
    <2>6. SyncInv' BY <1>0, <1>11 DEF SyncInv, EnforcePrimaryRole
    <2> QED BY <2>4, <2>5, <2>6 DEF ElectionInv
  <1>12. CASE Promote(n)
    <2>1. owner = n /\ owner' = n /\ UNCHANGED <<syncMode, sync>>
      BY <1>0, <1>12 DEF Promote, LockInv, Leading
    <2>2. Moved(n, {"idle"}, NoLook) BY <1>1, <1>2, <1>12, GoMoved DEF Promote
    <2>3. \A m \in Node \ {n} : pg'[m] = pg[m] BY <1>12 DEF Promote, TypeInv
    <2>4. \A m \in Node \ {n} : LockInv(m)' /\ RaceInv(m)' BY <1>0, <1>3, <2>1, <2>2, <2>3
    <2>5. LockInv(n)' /\ RaceInv(n)'
      <3>1. pc'[n] = "idle" BY <2>2 DEF Moved
      <3> QED BY <2>1, <3>1 DEF LockInv, RaceInv, Racing
    <2>6. SyncInv' BY <1>0, <2>1 DEF SyncInv
    <2> QED BY <2>4, <2>5, <2>6 DEF ElectionInv
  <1>13. CASE LeaderCycle(n)
    <2>1. Moved(n, {"enforce", "handover", "unkey"}, Loaded(n)) BY <1>13, LeaderCycleMoved
    <2>2. owner = n /\ UNCHANGED <<syncMode, owner, sync, pg, wal>> BY <1>13 DEF LeaderCycle
    <2> QED BY <2>1, <2>2, LoopKept DEF Racing
  <1>14. CASE StopPostgres(n)
    <2>1. owner = n /\ owner' = n /\ UNCHANGED <<syncMode, sync>>
      BY <1>0, <1>14 DEF StopPostgres, LockInv, Leading
    <2>2. Moved(n, {"release"}, NoLook) BY <1>1, <1>2, <1>14, GoMoved DEF StopPostgres
    <2>3. pg'[n] = "down" /\ \A m \in Node \ {n} : pg'[m] = pg[m] BY <1>14 DEF StopPostgres, TypeInv
    <2>4. \A m \in Node \ {n} : LockInv(m)' /\ RaceInv(m)' BY <1>0, <1>3, <2>1, <2>2, <2>3
    <2>5. LockInv(n)' /\ RaceInv(n)'
      <3>1. pc'[n] = "release" BY <2>2 DEF Moved
      <3> QED BY <2>1, <2>3, <3>1 DEF LockInv, RaceInv, Racing
    <2>6. SyncInv' BY <1>0, <2>1 DEF SyncInv
    <2> QED BY <2>4, <2>5, <2>6 DEF ElectionInv
  \* Nobody is in a race when the key becomes free, and postgres is down.
  <1>15. CASE ReleaseKey(n)
    <2>1. \A m \in Node : pc[m] \notin Racing BY <1>15 DEF ReleaseKey
    <2>2. Moved(n, {"idle"}, NoLook) BY <1>1, <1>2, <1>15, GoMoved DEF ReleaseKey
    <2>3. UNCHANGED <<syncMode, sync, pg, wal>> /\ pg[n] = "down" /\ (owner = n \/ owner' = owner)
      BY <1>0, <1>15 DEF ReleaseKey, LockInv
    <2>4. ASSUME NEW m \in Node PROVE LockInv(m)' /\ RaceInv(m)'
      <3>1. LockInv(m) BY DEF ElectionInv
      <3>2. pc'[m] = IF m = n THEN "idle" ELSE pc[m] BY <2>2 DEF Moved
      <3> QED BY <2>1, <2>3, <3>1, <3>2 DEF LockInv, RaceInv, Racing, Leading
    <2>5. SyncInv' BY <1>0, <2>3 DEF SyncInv
    <2> QED BY <2>4, <2>5 DEF ElectionInv
  <1>16. CASE StartStandby(n)
    <2>1. /\ UNCHANGED <<syncMode, owner, sync, wal, pc, look>>
          /\ pc[n] = "idle" /\ pg'[n] = "standby" /\ \A m \in Node \ {n} : pg'[m] = pg[m]
      BY <1>16 DEF StartStandby, TypeInv
    <2>2. ASSUME NEW m \in Node PROVE LockInv(m)' /\ RaceInv(m)'
      <3>1. LockInv(m) /\ RaceInv(m) BY DEF ElectionInv
      <3>2. CASE m = n BY <2>1, <3>1, <3>2 DEF LockInv, RaceInv, Racing, Leading
      <3>3. CASE m # n BY <2>1, <3>1, <3>3, Kept DEF RaceInv
      <3> QED BY <3>2, <3>3
    <2>3. SyncInv' BY <1>0, <2>1 DEF SyncInv
    <2> QED BY <2>2, <2>3 DEF ElectionInv
  <1>17. CASE FollowLeader(n)
    <2>1. owner # n /\ pg[n] = "primary" BY <1>17 DEF FollowLeader
    <2> QED BY <1>0, <2>1 DEF LockInv
  <1> QED
    BY <1>4, <1>5, <1>6, <1>7, <1>8, <1>9, <1>10, <1>11, <1>12, <1>13, <1>14, <1>15, <1>16, <1>17
    DEF HaStep

\* WAL is written, and /sync, while there is a primary: the key is not free.
LEMMA WriteRace ==
  ASSUME TypeInv, ElectionInv, NEW n \in Node, PostgresStep(n) \/ PublishSync(n)
  PROVE  ElectionInv'
  <1> USE DEF dcsVars, apiVars, nodeVars, haVars
  <1>1. UNCHANGED <<syncMode, owner, pg, pc, look>>
    BY DEF PostgresStep, Commit, Rewind, Stream, PublishSync
  <1>2. owner # NoNode
    <2>1. \A m \in Node : pg[m] = "primary" => owner = m BY DEF ElectionInv, LockInv
    <2>2. \A m \in Node : m # NoNode BY ElectionAssumption
    <2> QED BY <2>1, <2>2 DEF PostgresStep, Commit, Rewind, Stream, PublishSync
  <1>3. ASSUME NEW m \in Node PROVE LockInv(m)' /\ RaceInv(m)'
    <2>1. LockInv(m) /\ RaceInv(m) BY DEF ElectionInv
    <2> QED BY <1>1, <1>2, <2>1, Kept DEF RaceInv
  <1>4. SyncInv' BY <1>1 DEF ElectionInv, SyncInv, PostgresStep, Commit, Rewind, Stream, PublishSync
  <1> QED BY <1>3, <1>4 DEF ElectionInv

\* A fault: the machine of the leader has been reset when its key expires.
LEMMA FaultRace ==
  ASSUME TypeInv, ElectionInv, Watchdog, PromptRace, NEW n \in Node,
         Crash(n) \/ Stall(n) \/ Return(n) \/ KeyExpires(n)
  PROVE  ElectionInv'
  <1> USE DEF dcsVars, apiVars, nodeVars, haVars
  <1>1. CASE Stall(n) \/ Return(n)
    <2>1. UNCHANGED <<syncMode, owner, sync, pg, wal, pc, look>> BY <1>1 DEF Stall, Return
    <2>2. ASSUME NEW m \in Node PROVE LockInv(m)' /\ RaceInv(m)'
      <3>1. LockInv(m) /\ RaceInv(m) BY DEF ElectionInv
      <3> QED BY <2>1, <3>1, Kept DEF RaceInv
    <2>3. SyncInv' BY <2>1 DEF ElectionInv, SyncInv
    <2> QED BY <2>2, <2>3 DEF ElectionInv
  <1>2. CASE Crash(n) \/ KeyExpires(n)
    <2>1. /\ Moved(n, {"idle"}, NoLook) /\ UNCHANGED <<syncMode, sync, wal>>
          /\ pg'[n] = "down" /\ \A m \in Node \ {n} : pg'[m] = pg[m]
          /\ owner' = owner \/ (owner = n /\ \A m \in Node \ {n} : pc[m] \notin Racing)
      <3>1. Go(n, "idle", NoLook) BY <1>2 DEF Crash, KeyExpires
      <3>2. Moved(n, {"idle"}, NoLook) BY <3>1, LoadedSeen, GoMoved DEF Pcs
      <3>3. pg' = [pg EXCEPT ![n] = "down"] /\ UNCHANGED <<syncMode, sync, wal>>
        BY <1>2 DEF Crash, KeyExpires
      <3>4. pg'[n] = "down" /\ \A m \in Node \ {n} : pg'[m] = pg[m] BY <3>3 DEF TypeInv
      <3>5. owner' = owner \/ (owner = n /\ \A m \in Node \ {n} : pc[m] \notin Racing)
        BY <1>2 DEF Crash, KeyExpires
      <3> QED BY <3>2, <3>3, <3>4, <3>5
    <2>2. LockInv(n)' /\ RaceInv(n)'
      <3>1. pc'[n] = "idle" BY <2>1 DEF Moved
      <3> QED BY <2>1, <3>1 DEF LockInv, RaceInv, Racing, Leading
    <2>3. ASSUME NEW m \in Node \ {n} PROVE LockInv(m)' /\ RaceInv(m)'
      <3>1. LockInv(m) /\ RaceInv(m) BY DEF ElectionInv
      <3>2. pc'[m] = pc[m] /\ look'[m] = look[m] BY <2>1 DEF Moved
      <3>3. CASE owner' = owner BY <2>1, <3>1, <3>2, <3>3, Kept DEF RaceInv
      <3>4. CASE owner = n /\ pc[m] \notin Racing
        BY <2>1, <3>1, <3>2, <3>4 DEF LockInv, RaceInv
      <3> QED BY <2>1, <3>3, <3>4
    <2>4. SyncInv' BY <2>1 DEF ElectionInv, SyncInv
    <2> QED BY <2>2, <2>3, <2>4 DEF ElectionInv
  <1> QED BY <1>1, <1>2

\* Every step.
LEMMA RaceStep == TypeInv /\ ElectionInv /\ Watchdog /\ PromptRace /\ [Next]_vars => ElectionInv'
  <1> SUFFICES ASSUME TypeInv, ElectionInv, Watchdog, PromptRace, [Next]_vars PROVE ElectionInv'
    OBVIOUS
  <1>1. ASSUME NEW n \in Node, HaStep(n) \/ PostgresStep(n) \/ PublishSync(n) PROVE ElectionInv'
    BY <1>1, HaRace, WriteRace
  <1>2. ASSUME NEW n \in Node, Crash(n) \/ Stall(n) \/ Return(n) \/ KeyExpires(n) PROVE ElectionInv'
    BY <1>2, FaultRace
  <1>3. CASE ApiStep \/ UNCHANGED vars
    <2>1. UNCHANGED <<syncMode, owner, sync, pg, wal, pc, look>>
      BY <1>3 DEF ApiStep, CheckRequest, WriteRequest, TimePasses, vars, dcsVars, apiVars, nodeVars, haVars
    <2>2. ASSUME NEW m \in Node PROVE LockInv(m)' /\ RaceInv(m)'
      <3>1. LockInv(m) /\ RaceInv(m) BY DEF ElectionInv
      <3> QED BY <2>1, <3>1, Kept DEF RaceInv
    <2>3. SyncInv' BY <2>1 DEF ElectionInv, SyncInv
    <2> QED BY <2>2, <2>3 DEF ElectionInv
  <1> QED BY <1>1, <1>2, <1>3 DEF Next

\* Who wins the key was racing for it, and what it had learnt is so.
LEMMA WinnerIsFresh ==
  ASSUME TypeInv, ElectionInv, [Next]_vars, NEW n \in Node, Wins(n)
  PROVE  Fresh(look[n], n)
  <1> USE DEF dcsVars, apiVars, nodeVars, haVars
  <1>1. owner # n /\ owner' = n /\ n # NoNode BY ElectionAssumption DEF Wins
  <1>2. PICK m \in Node : Acquire(m)
    <2>1. ASSUME NEW m \in Node, HaStep(m) PROVE Acquire(m)
      BY <1>1, <2>1
      DEF HaStep, PrimaryRaces, RaceForRequest, Race, StandbyRaces, AskCandidate, CleanKey,
          EnforcePrimaryRole, Promote, AskRival, AskSuccessor, AskHeir, LeaderCycle, RemoveKey,
          StopPostgres, ReleaseKey, StartStandby, FollowLeader
    <2>2. ASSUME NEW m \in Node, PostgresStep(m) \/ PublishSync(m) PROVE FALSE
      BY <1>1, <2>2 DEF PostgresStep, Commit, Rewind, Stream, PublishSync
    <2>3. ASSUME NEW m \in Node, Crash(m) \/ Stall(m) \/ Return(m) \/ KeyExpires(m) PROVE FALSE
      BY <1>1, <2>3 DEF Crash, Stall, Return, KeyExpires
    <2>4. ASSUME ApiStep PROVE FALSE
      BY <1>1, <2>4 DEF ApiStep, CheckRequest, WriteRequest, TimePasses
    <2>5. ~ UNCHANGED vars BY <1>1 DEF vars
    <2> QED BY <2>1, <2>2, <2>3, <2>4, <2>5 DEF Next
  <1>3. pc[m] = "acquire" /\ owner = NoNode /\ m = n
    BY <1>1, <1>2 DEF Acquire
  <1> QED BY <1>3 DEF ElectionInv, RaceInv, Racing

\* The winner of a race is not behind any member that answered it, other than the former leader in
\* synchronous mode, for every number of nodes and every priority, if the watchdog resets a leader
\* that stalls and a race is over before the key it lost is free again.
THEOREM ElectionAhead ==
  ASSUME Watchdog, PromptRace
  PROVE  Spec => WinnerAhead
  <1> DEFINE Ahead ==
        \A n \in Node : Wins(n) =>
          \A m \in look[n].heard : Lsn(m) <= Lsn(n) \/ (syncMode /\ look[n].sync.leader = m)
  <1>1. TypeInv /\ ElectionInv /\ [Next]_vars => Ahead
    <2>1. SUFFICES ASSUME TypeInv, ElectionInv, [Next]_vars, NEW n \in Node, Wins(n)
                   PROVE  \A m \in look[n].heard :
                            Lsn(m) <= Lsn(n) \/ (syncMode /\ look[n].sync.leader = m)
      OBVIOUS
    <2>2. Fresh(look[n], n) BY <2>1, WinnerIsFresh
    <2> QED BY <2>2 DEF Fresh
  <1>2. TypeInv /\ ElectionInv /\ [Next]_vars => ElectionInv' BY RaceStep
  <1>3. TypeInv /\ ElectionInv /\ [Next]_vars => [Ahead]_vars BY <1>1
  <1> HIDE DEF Ahead
  <1>4. Spec => [][Ahead]_vars BY <1>2, <1>3, TypeStart, TypeStep, RaceStart, PTL DEF Spec
  <1> QED BY <1>4 DEF WinnerAhead, Ahead

\* A standby that takes the key is listed in /sync at that moment, unless a failover has been asked
\* for, under the same assumptions.
THEOREM ElectionInSync ==
  ASSUME Watchdog, PromptRace
  PROVE  Spec => WinnerInSync
  <1> DEFINE Listed ==
        \A n \in Node : Wins(n) /\ pg[n] = "standby" /\ sync.leader # NoNode
                          /\ (look[n].key = NoKey \/ look[n].key.leader # NoNode)
                          => n \in sync.members \cup {sync.leader}
  <1>1. TypeInv /\ ElectionInv /\ [Next]_vars => Listed
    <2>1. SUFFICES ASSUME TypeInv, ElectionInv, [Next]_vars, NEW n \in Node, Wins(n),
                          sync.leader # NoNode, look[n].key = NoKey \/ look[n].key.leader # NoNode
                   PROVE  n \in sync.members \cup {sync.leader}
      OBVIOUS
    <2>2. Fresh(look[n], n) BY <2>1, WinnerIsFresh
    <2> QED BY <2>1, <2>2 DEF Fresh, InSync
  <1>2. TypeInv /\ ElectionInv /\ [Next]_vars => ElectionInv' BY RaceStep
  <1>3. TypeInv /\ ElectionInv /\ [Next]_vars => [Listed]_vars BY <1>1
  <1> HIDE DEF Listed
  <1>4. Spec => [][Listed]_vars BY <1>2, <1>3, TypeStart, TypeStep, RaceStart, PTL DEF Spec
  <1> QED BY <1>4 DEF WinnerInSync, Listed
=============================================================================
