--------------------------- MODULE FailsafeProofs ---------------------------
(***************************************************************************)
(* Failsafe mode keeps the promise of the leader key, for any number of    *)
(* nodes and any ttl, when no written /failsafe loses its answer, Patroni  *)
(* does not restart within ttl of a POST it received, a node that wants    *)
(* the key is not held up for the whole life of another's key, and the     *)
(* watchdog's timeout is at most half of the ttl, rounded up.              *)
(*                                                                         *)
(* The argument: a primary is fenced by its key or by the word of all the  *)
(* others named in /failsafe (Fenced).  That word lasts longer than its    *)
(* watchdog, because the watchdog was ticking when the first of them gave  *)
(* it (AskInv); and who has not given it found the key, or the primary,    *)
(* before it entered the race (RaceInv).                                   *)
(***************************************************************************)
EXTENDS Failsafe, FiniteSetTheorems, TLAPS

\* The configuration in which failsafe mode is safe.
SafeFailsafe ==
  /\ ~LostAnswers /\ ~QuickRestart /\ Prompt
  /\ 2 * WdTimeout <= TTL + 1

\* The states of a cycle that has the key and has not used it yet.
InWindow(n) == pc[n] \in {"writeFailsafe", "updated", "promote"}

\* A primary has a watchdog that ticks; a machine that is down runs nothing.
MachineInv(n) ==
  /\ Active(n) <=> wd[n] > 0
  /\ pg[n] = "down" <=> pc[n] = "down"
  /\ pc[n] = "promote" => pg[n] = "standby"
  /\ pc[n] \in {"ask", "refused"} => Active(n)
  /\ n \notin todo[n]

\* m has accepted a POST of n that is not older than ttl - t.
Word(m, n, t) == pingTtl[m] >= t /\ (pinger[m] = n \/ pc[m] = "down")

\* A primary without the key has the word of all that may take it.
Fenced(n) ==
  Active(n) =>
    \/ owner = n /\ wd[n] <= keyTtl
    \/ n \in failsafe /\ \A m \in failsafe \ {n} : Word(m, n, wd[n])

\* Whoever is about to use the key still has it, for long enough.
WindowInv(n) ==
  /\ InWindow(n) =>
       owner = n /\ keyTtl >= (IF Active(n) THEN TTL - WdTimeout + wd[n] ELSE WdTimeout)
  /\ pc[n] = "reload" /\ pg[n] = "standby" => owner = n /\ keyTtl >= WdTimeout

\* The word of the members that have answered outlives the next keepalive.
AskInv(n) ==
  pc[n] = "ask" =>
    /\ n \in cached[n]
    /\ \A m \in (cached[n] \ {n}) \ todo[n] : Word(m, n, TTL - WdTimeout + wd[n])

\* What a primary, or a node that will be one, has cached is the /failsafe key.
CacheInv(n) ==
  Active(n) \/ InWindow(n) \/ (pc[n] = "update" /\ owner \in {n, NoNode})
    => cached[n] = failsafe

\* Who has the key, or may take it now, is the only one that can be a primary.
RaceInv(n) ==
  owner = n \/ Active(n) \/ (pc[n] \in {"race", "update"} /\ owner = NoNode)
    => \A m \in Node \ {n} : ~Active(m)

NodeInv(n) ==
  /\ MachineInv(n) /\ Fenced(n) /\ WindowInv(n)
  /\ AskInv(n) /\ CacheInv(n) /\ RaceInv(n)

FailsafeInv == TypeOK /\ \A n \in Node : NodeInv(n)

-----------------------------------------------------------------------------
\* What a node asks of others: never of itself.
TypeInv == TypeOK /\ \A n \in Node : n \notin todo[n]

\* The postgres, the watchdog, the HA loop and the memory of the others are not
\* touched by a step of n, but for the POST /failsafe that they accept.
OthersKept(n) ==
  \A m \in Node \ {n} :
    /\ pc'[m] = pc[m] /\ cached'[m] = cached[m] /\ todo'[m] = todo[m]
    /\ pg'[m] = pg[m] /\ wd'[m] = wd[m]
    /\ \/ pinger'[m] = pinger[m] /\ pingTtl'[m] = pingTtl[m]
       \/ /\ pc[n] \in {"ask", "refused"} /\ m \in todo[n]
          /\ pinger'[m] = n /\ pingTtl'[m] = TTL

\* A step of n leaves the DCS alone, takes or prolongs the key when nobody else
\* has it, or writes /failsafe.
DcsStep(n) ==
  \/ UNCHANGED dcsVars
  \/ /\ pc[n] \in {"race", "update"} /\ owner \in {n, NoNode}
     /\ WriteKey(n) /\ UNCHANGED failsafe
  \/ /\ pc[n] = "writeFailsafe" /\ UNCHANGED keyVars

\* The steps of one node are well typed and touch only what is its own.
LEMMA StepFrame ==
  ASSUME TypeInv, NEW n \in Node, NodeStep(n)
  PROVE  TypeInv' /\ OthersKept(n) /\ DcsStep(n)
  <1> USE FailsafeAssumption
      DEF Goto, WriteKey, Deactivate, DcsError, UpdateFailsafe, Stop, dcsVars, keyVars, haVars,
          pingVars, TypeInv, TypeOK, PCs, OthersKept, DcsStep
  <1>1. CASE LoadCluster(n)
    <2>1. pc' = [pc EXCEPT ![n] = pc'[n]] /\ pc'[n] \in PCs
      BY <1>1 DEF LoadCluster
    <2> QED BY <1>1, <2>1 DEF LoadCluster
  <1>2. CASE LoadFails(n) BY <1>2 DEF LoadFails
  <1>3. CASE UpdateLeader(n) BY <1>3 DEF UpdateLeader
  <1>4. CASE WriteFailsafe(n) BY <1>4 DEF WriteFailsafe
  <1>5. CASE Updated(n) BY <1>5 DEF Updated
  <1>6. CASE Defer(n) BY <1>6 DEF Defer
  <1>7. CASE AcquireLock(n) BY <1>7 DEF AcquireLock
  <1>8. CASE Reload(n) BY <1>8 DEF Reload
  <1>9. CASE Promote(n) BY <1>9 DEF Promote
  <1>10. CASE Promoted(n) BY <1>10 DEF Promoted
  <1>11. ASSUME NEW m \in Node, CallMember(n, m) PROVE TypeInv' /\ OthersKept(n) /\ DcsStep(n)
    BY <1>11 DEF CallMember
  <1>12. CASE Continue(n) BY <1>12 DEF Continue
  <1>13. CASE Demote(n) BY <1>13 DEF Demote
  <1>14. CASE Crash(n) BY <1>14 DEF Crash
  <1>15. CASE Restart(n) BY <1>15 DEF Restart
  <1> HIDE DEF TypeInv, OthersKept, DcsStep
  <1> QED BY <1>1, <1>2, <1>3, <1>4, <1>5, <1>6, <1>7, <1>8, <1>9, <1>10, <1>11, <1>12, <1>13,
             <1>14, <1>15 DEF NodeStep

\* A standby becomes a primary in one way, with the key.
LEMMA BecomesPrimary ==
  ASSUME FailsafeInv, NEW n \in Node, NodeStep(n), ~Active(n), Active(n)'
  PROVE  owner = n /\ UNCHANGED dcsVars
  <1> USE DEF FailsafeInv, NodeInv, MachineInv, WindowInv, InWindow, TypeOK, Active
  <1>1. CASE Promote(n) BY <1>1 DEF Promote
  <1>2. CASE pg' = pg BY <1>2
  <1>3. CASE pg'[n] \in {"standby", "down"} BY <1>3
  <1> QED BY <1>1, <1>2, <1>3 DEF NodeStep, LoadCluster, LoadFails, UpdateLeader, WriteFailsafe,
        Updated, Defer, AcquireLock, Reload, Promoted, CallMember, Continue, Demote, Crash, Stop,
        Restart

\* Nobody takes back the word it gave to another node that is a primary.
LEMMA WordKept ==
  ASSUME FailsafeInv, SafeFailsafe, NEW n \in Node, NodeStep(n), NEW m \in Node \ {n},
         Active(m), NEW k \in Node \ {m}, NEW t \in Nat \ {0}, Word(k, m, t)
  PROVE  Word(k, m, t)'
  <1>a. TypeInv /\ OthersKept(n)
    BY StepFrame DEF TypeInv, FailsafeInv, NodeInv, MachineInv
  <1>b. owner # n /\ ~Active(n)
    BY DEF FailsafeInv, NodeInv, RaceInv
  <1>c. pc[n] \notin {"updated", "promote", "ask", "refused"}
    BY <1>b DEF FailsafeInv, NodeInv, WindowInv, InWindow, MachineInv
  <1>d. pg[n] \in {"down", "standby"} /\ (pg[n] = "down" <=> pc[n] = "down")
    BY <1>a, <1>b DEF FailsafeInv, NodeInv, MachineInv, TypeOK, Active
  <1>1. CASE k # n
    BY <1>1, <1>a, <1>c DEF OthersKept, Word
  <1>2. CASE k = n
    <2> USE DEF TypeInv, TypeOK, Word, pingVars, Goto
    <2>1. CASE Crash(n) BY <1>2, <1>a, <2>1 DEF Crash, Stop
    <2>2. CASE Restart(n)
      <3>1. pingTtl[n] = 0 BY <2>2 DEF Restart, SafeFailsafe
      <3> QED BY <1>2, <3>1
    <2>3. CASE UNCHANGED pingVars /\ (pc[n] # "down" \/ pc' = pc)
      BY <1>2, <2>3
    <2> QED BY <1>c, <1>d, <2>1, <2>2, <2>3 DEF NodeStep, LoadCluster, LoadFails, UpdateLeader,
          WriteFailsafe, Updated, Defer, AcquireLock, Reload, Promote, Promoted, CallMember,
          Continue, Demote, haVars
  <1> QED BY <1>1, <1>2

\* A step of n keeps the invariant of every other node.
LEMMA OthersInv ==
  ASSUME FailsafeInv, SafeFailsafe, NEW n \in Node, NodeStep(n), NEW m \in Node \ {n}
  PROVE  NodeInv(m)'
  <1>a. TypeInv /\ TypeInv' /\ OthersKept(n) /\ DcsStep(n)
    BY StepFrame DEF TypeInv, FailsafeInv, NodeInv, MachineInv
  <1>b. /\ MachineInv(m) /\ Fenced(m) /\ WindowInv(m) /\ AskInv(m) /\ CacheInv(m) /\ RaceInv(m)
        /\ MachineInv(n) /\ WindowInv(n) /\ RaceInv(n)
    BY DEF FailsafeInv, NodeInv
  <1>c. /\ pc'[m] = pc[m] /\ cached'[m] = cached[m] /\ todo'[m] = todo[m]
        /\ pg'[m] = pg[m] /\ wd'[m] = wd[m]
    BY <1>a DEF OthersKept
  <1>d. Active(m)' <=> Active(m) BY <1>c DEF Active
  <1>e. owner \in {m, NoNode} =>
          UNCHANGED dcsVars \/ (owner = NoNode /\ owner' = n /\ UNCHANGED failsafe)
    BY <1>a, <1>b, FailsafeAssumption
    DEF DcsStep, WindowInv, InWindow, dcsVars, keyVars, WriteKey
  <1>f. Active(m) => UNCHANGED failsafe
    BY <1>a, <1>b DEF DcsStep, WindowInv, InWindow, RaceInv, dcsVars
  <1>g. wd[m] \in Nat /\ TTL - WdTimeout + wd[m] \in Nat /\ keyTtl \in Nat
    BY <1>a, FailsafeAssumption DEF TypeInv, TypeOK
  <1>1. MachineInv(m)' BY <1>b, <1>c, <1>d DEF MachineInv
  <1>2. Fenced(m)'
    <2>1. SUFFICES ASSUME Active(m) PROVE Fenced(m)'
      BY <1>d DEF Fenced
    <2>2. CASE owner = m /\ wd[m] <= keyTtl
      BY <1>c, <1>e, <2>2, FailsafeAssumption DEF Fenced, dcsVars
    <2>3. CASE m \in failsafe /\ \A k \in failsafe \ {m} : Word(k, m, wd[m])
      <3>1. wd[m] \in Nat \ {0} BY <1>b, <1>g, <2>1 DEF MachineInv
      <3>2. ASSUME NEW k \in failsafe \ {m} PROVE Word(k, m, wd[m])'
        <4>1. k \in Node BY <1>a DEF TypeInv, TypeOK
        <4>2. pingTtl'[k] >= wd[m] /\ (pinger'[k] = m \/ pc'[k] = "down")
          BY <2>1, <2>3, <3>1, <4>1, WordKept DEF Word
        <4> QED BY <1>c, <4>2 DEF Word
      <3> QED BY <1>f, <2>1, <2>3, <3>2 DEF Fenced
    <2> QED BY <1>b, <2>1, <2>2, <2>3 DEF Fenced
  <1>3. WindowInv(m)'
    BY <1>b, <1>c, <1>d, <1>e, FailsafeAssumption DEF WindowInv, InWindow, dcsVars
  <1>4. AskInv(m)'
    <2>1. SUFFICES ASSUME pc[m] = "ask" PROVE AskInv(m)'
      BY <1>c DEF AskInv
    <2>2. Active(m) /\ wd[m] > 0 BY <1>b, <2>1 DEF MachineInv
    <2>3. TTL - WdTimeout + wd[m] \in Nat \ {0}
      BY <1>g, <2>2, FailsafeAssumption
    <2>4. ASSUME NEW k \in (cached[m] \ {m}) \ todo[m]
          PROVE  Word(k, m, TTL - WdTimeout + wd[m])'
      <3>1. k \in Node BY <1>a DEF TypeInv, TypeOK
      <3>2. Word(k, m, TTL - WdTimeout + wd[m]) BY <1>b, <2>1 DEF AskInv
      <3>3. /\ pingTtl'[k] >= TTL - WdTimeout + wd[m]
            /\ pinger'[k] = m \/ pc'[k] = "down"
        BY <2>2, <2>3, <3>1, <3>2, WordKept DEF Word
      <3> QED BY <1>c, <3>3 DEF Word
    <2> QED BY <1>b, <1>c, <2>1, <2>4 DEF AskInv
  <1>5. CacheInv(m)'
    BY <1>a, <1>b, <1>c, <1>d, <1>e, <1>f, FailsafeAssumption
    DEF CacheInv, WindowInv, InWindow, DcsStep, WriteKey, dcsVars, keyVars
  <1>6. RaceInv(m)'
    <2>1. SUFFICES ASSUME \/ owner' = m \/ Active(m)
                          \/ pc[m] \in {"race", "update"} /\ owner' = NoNode,
                          NEW k \in Node \ {m}, Active(k)'
                   PROVE  FALSE
      BY <1>c, <1>d DEF RaceInv
    <2>2. owner = m \/ Active(m) \/ (pc[m] \in {"race", "update"} /\ owner = NoNode)
      BY <1>a, <2>1, FailsafeAssumption DEF DcsStep, dcsVars, keyVars, WriteKey
    <2>3. ~Active(k) BY <1>b, <2>2 DEF RaceInv
    <2>4. k = n BY <1>a, <2>1, <2>3 DEF OthersKept, Active
    <2>5. owner = n /\ UNCHANGED dcsVars BY <2>1, <2>3, <2>4, BecomesPrimary
    <2> QED BY <1>b, <2>2, <2>5, FailsafeAssumption DEF RaceInv
  <1> QED BY <1>1, <1>2, <1>3, <1>4, <1>5, <1>6 DEF NodeInv

\* A step of n keeps its own part of the invariant.
LEMMA OwnInv ==
  ASSUME FailsafeInv, SafeFailsafe, NEW n \in Node, NodeStep(n)
  PROVE  NodeInv(n)'
  <1>a. TypeInv /\ TypeInv' /\ OthersKept(n) /\ DcsStep(n)
    BY StepFrame DEF TypeInv, FailsafeInv, NodeInv, MachineInv
  <1>b. /\ MachineInv(n) /\ Fenced(n) /\ WindowInv(n) /\ AskInv(n) /\ CacheInv(n) /\ RaceInv(n)
    BY DEF FailsafeInv, NodeInv
  <1>c. /\ wd[n] \in 0 .. WdTimeout /\ wd'[n] \in 0 .. WdTimeout
        /\ keyTtl \in 0 .. TTL /\ TTL \in Nat /\ WdTimeout \in Nat \ {0}
        /\ WdTimeout <= TTL /\ 2 * WdTimeout <= TTL + 1
    BY <1>a, FailsafeAssumption DEF TypeInv, TypeOK, SafeFailsafe
  <1>1. MachineInv(n)'
    <2> USE FailsafeAssumption DEF TypeInv, TypeOK, MachineInv, Active, Goto, DcsError, Stop
    <2>1. CASE pc' = pc /\ pg' = pg /\ wd' = wd BY <1>a, <1>b, <2>1
    <2>2. CASE Continue(n) BY <1>a, <1>b, <2>2 DEF Continue
    <2>3. CASE Promote(n) BY <1>a, <1>b, <2>3 DEF Promote
    <2>4. CASE Updated(n) BY <1>a, <1>b, <2>4 DEF Updated
    <2>5. CASE Promoted(n) BY <1>a, <1>b, <2>5 DEF Promoted, haVars
    <2>6. CASE Demote(n) \/ Crash(n) \/ Restart(n)
      BY <1>a, <1>b, <2>6 DEF Demote, Crash, Restart
    <2>7. CASE LoadCluster(n) BY <1>a, <1>b, <2>7 DEF LoadCluster
    <2>8. CASE LoadFails(n) \/ UpdateLeader(n) \/ AcquireLock(n)
      BY <1>a, <1>b, <2>8 DEF LoadFails, UpdateLeader, AcquireLock
    <2>9. CASE WriteFailsafe(n) \/ Defer(n) \/ Reload(n)
      BY <1>a, <1>b, <2>9 DEF WriteFailsafe, Defer, Reload
    <2>10. ASSUME NEW m \in Node, CallMember(n, m) PROVE MachineInv(n)'
      BY <1>a, <1>b, <2>10 DEF CallMember
    <2> QED BY <2>1, <2>2, <2>3, <2>4, <2>5, <2>6, <2>7, <2>8, <2>9, <2>10 DEF NodeStep
  <1>2. WindowInv(n)'
    <2> USE FailsafeAssumption
        DEF TypeInv, TypeOK, MachineInv, WindowInv, InWindow, Active, Goto, DcsError, Stop,
            dcsVars, keyVars, haVars, WriteKey
    <2>1. CASE pc'[n] \notin {"writeFailsafe", "updated", "promote", "reload"} BY <2>1
    <2>2. CASE UpdateLeader(n) BY <1>a, <1>b, <1>c, <2>2 DEF UpdateLeader
    <2>3. CASE AcquireLock(n) BY <1>a, <1>b, <1>c, <2>3 DEF AcquireLock
    <2>4. CASE WriteFailsafe(n) BY <1>a, <1>b, <1>c, <2>4 DEF WriteFailsafe
    <2>5. CASE Updated(n) BY <1>a, <1>b, <1>c, <2>5 DEF Updated
    <2>6. CASE Reload(n) BY <1>a, <1>b, <1>c, <2>6 DEF Reload
    <2>7. CASE Promoted(n) BY <1>a, <1>b, <1>c, <2>7 DEF Promoted
    <2> QED BY <1>a, <1>b, <2>1, <2>2, <2>3, <2>4, <2>5, <2>6, <2>7
            DEF NodeStep, LoadCluster, LoadFails, Defer, Promote, CallMember, Continue, Demote,
                Crash, Restart
  <1>3. Fenced(n)'
    <2>a. ASSUME NEW m \in Node \ {n}, NEW t \in Nat, t <= TTL, Word(m, n, t)
          PROVE  pingTtl'[m] >= t /\ (pinger'[m] = n \/ pc'[m] = "down")
      BY <1>a, <2>a DEF OthersKept, Word, TypeInv, TypeOK
    <2>b. \A m \in failsafe : m \in Node BY <1>a DEF TypeInv, TypeOK
    <2>1. CASE owner' = n /\ wd'[n] <= keyTtl' BY <2>1 DEF Fenced
    <2>2. CASE wd'[n] = wd[n] /\ UNCHANGED dcsVars /\ (Active(n)' => Active(n))
      <3>1. \A m \in failsafe \ {n} : Word(m, n, wd[n]) => Word(m, n, wd[n])'
        BY <1>c, <2>a, <2>b, <2>2 DEF Word
      <3> QED BY <1>b, <2>2, <3>1 DEF Fenced, dcsVars
    <2>3. CASE Continue(n)
      <3>1. n \in failsafe /\ cached[n] = failsafe /\ todo[n] = {} /\ pc[n] = "ask" /\ wd[n] > 0
        BY <1>b, <2>3 DEF Continue, AskInv, MachineInv, CacheInv
      <3>2. failsafe' = failsafe /\ wd'[n] = WdTimeout
        BY <1>a, <2>3 DEF Continue, dcsVars, TypeInv, TypeOK
      <3>3. ASSUME NEW m \in failsafe \ {n} PROVE Word(m, n, WdTimeout)'
        <4>1. Word(m, n, TTL - WdTimeout + wd[n]) BY <1>b, <3>1, <3>3 DEF AskInv
        <4>2. pingTtl[m] \in Nat /\ m \in Node BY <1>a, <2>b, <3>3 DEF TypeInv, TypeOK
        <4>3. Word(m, n, WdTimeout) BY <1>c, <3>1, <4>1, <4>2 DEF Word
        <4> QED BY <1>c, <2>a, <4>2, <4>3 DEF Word
      <3> QED BY <3>1, <3>2, <3>3 DEF Fenced, Word
    <2>4. CASE Updated(n) /\ Active(n)
      BY <1>a, <1>b, <1>c, <2>4
      DEF Updated, Fenced, MachineInv, WindowInv, InWindow, TypeInv, TypeOK, dcsVars
    <2>5. CASE Promote(n)
      BY <1>a, <1>b, <1>c, <2>5
      DEF Promote, Fenced, MachineInv, WindowInv, InWindow, Active, TypeInv, TypeOK, dcsVars
    <2>6. CASE UpdateLeader(n) \/ AcquireLock(n)
      <3>1. wd'[n] = wd[n] /\ pg' = pg BY <2>6 DEF UpdateLeader, AcquireLock
      <3>2. (owner' = n /\ keyTtl' = TTL) \/ UNCHANGED dcsVars
        BY <2>6 DEF UpdateLeader, AcquireLock, WriteKey, keyVars, dcsVars
      <3> QED BY <1>c, <2>1, <2>2, <3>1, <3>2 DEF Active
    <2>7. CASE WriteFailsafe(n)
      BY <1>b, <1>c, <2>7 DEF WriteFailsafe, Fenced, WindowInv, InWindow, Active, keyVars
    <2>8. CASE ~Active(n)' BY <2>8 DEF Fenced
    <2>9. CASE Promoted(n) BY <2>2, <2>9 DEF Promoted, Active
    <2>10. CASE Demote(n) \/ Crash(n) \/ Restart(n)
      BY <1>a, <2>8, <2>10 DEF Demote, Crash, Restart, Stop, Active, TypeInv, TypeOK
    <2> QED BY <2>2, <2>3, <2>4, <2>5, <2>6, <2>7, <2>8, <2>9, <2>10
            DEF NodeStep, LoadCluster, LoadFails, Updated, Defer, Reload, CallMember, Active
  <1>4. AskInv(n)'
    <2>1. SUFFICES ASSUME pc'[n] = "ask" PROVE AskInv(n)' BY DEF AskInv
    <2> USE DEF TypeInv, TypeOK, AskInv, Goto, DcsError
    <2>2. CASE LoadFails(n) \/ UpdateLeader(n) \/ AcquireLock(n)
      <3>1. n \in cached'[n] /\ (cached'[n] \ {n}) \ todo'[n] = {}
        BY <1>a, <2>1, <2>2 DEF LoadFails, UpdateLeader, AcquireLock
      <3> QED BY <3>1
    <2>3. ASSUME NEW m \in Node, CallMember(n, m) PROVE AskInv(n)'
      <3>1. m # n /\ m \in todo[n] BY <1>b, <2>3 DEF MachineInv, CallMember
      <3>2. pc' = pc /\ pinger'[m] = n /\ pingTtl'[m] = TTL
        BY <1>a, <2>1, <2>3 DEF CallMember, UpdateFailsafe
      <3>3. todo'[n] = todo[n] \ {m} /\ cached' = cached /\ wd' = wd
        BY <1>a, <2>3 DEF CallMember
      <3>4. ASSUME NEW k \in (cached[n] \ {n}) \ todo'[n]
            PROVE  Word(k, n, TTL - WdTimeout + wd[n])'
        <4>1. CASE k = m BY <1>c, <3>2, <3>3, <4>1 DEF Word
        <4>2. CASE k # m
          <5>1. pinger'[k] = pinger[k] /\ pingTtl'[k] = pingTtl[k] /\ k \in Node
            BY <1>a, <2>3, <3>4, <4>2 DEF CallMember, UpdateFailsafe, pingVars
          <5>2. Word(k, n, TTL - WdTimeout + wd[n])
            BY <1>b, <2>1, <3>2, <3>3, <3>4, <4>2
          <5> QED BY <3>2, <3>3, <5>1, <5>2 DEF Word
        <4> QED BY <4>1, <4>2
      <3> QED BY <1>b, <2>1, <3>2, <3>3, <3>4 DEF Word
    <2>4. CASE Promoted(n)
      BY <1>b, <2>4 DEF Promoted, haVars, pingVars, Word
    <2> QED BY <1>a, <2>1, <2>2, <2>3, <2>4
            DEF NodeStep, LoadCluster, WriteFailsafe, Updated, Defer, Reload, Promote, Continue,
                Demote, Crash, Restart, Stop
  <1>5. CacheInv(n)'
    <2> USE FailsafeAssumption
        DEF TypeInv, TypeOK, CacheInv, InWindow, Active, Goto, DcsError, Stop, WriteKey,
            dcsVars, keyVars, haVars
    <2>1. CASE LoadCluster(n) \/ Reload(n) BY <1>a, <2>1 DEF LoadCluster, Reload
    <2>2. CASE WriteFailsafe(n) BY <1>a, <1>b, <2>2 DEF WriteFailsafe, SafeFailsafe
    <2>3. CASE UpdateLeader(n) \/ AcquireLock(n)
      BY <1>a, <1>b, <2>3 DEF UpdateLeader, AcquireLock
    <2>4. CASE LoadFails(n) \/ Updated(n) \/ Defer(n) \/ Promote(n)
      BY <1>a, <1>b, <2>4 DEF LoadFails, Updated, Defer, Promote
    <2>5. CASE Promoted(n) \/ Continue(n) \/ Demote(n) \/ Crash(n) \/ Restart(n)
      BY <1>a, <1>b, <2>5 DEF Promoted, Continue, Demote, Crash, Restart
    <2>6. ASSUME NEW m \in Node, CallMember(n, m) PROVE CacheInv(n)'
      BY <1>a, <1>b, <2>6 DEF CallMember
    <2> QED BY <2>1, <2>2, <2>3, <2>4, <2>5, <2>6 DEF NodeStep
  <1>6. RaceInv(n)'
    <2>1. SUFFICES ASSUME \/ owner' = n \/ Active(n)'
                          \/ pc'[n] \in {"race", "update"} /\ owner' = NoNode,
                          NEW m \in Node \ {n}, Active(m)
                   PROVE  FALSE
      BY <1>a DEF RaceInv, OthersKept, Active
    <2>2. owner # n /\ ~Active(n) /\ ~(pc[n] \in {"race", "update"} /\ owner = NoNode)
      BY <1>b, <2>1 DEF RaceInv
    <2>3. owner' # n
      BY <1>a, <2>2, FailsafeAssumption DEF DcsStep, dcsVars, keyVars, WriteKey
    <2>4. ~Active(n)' BY <2>2, BecomesPrimary
    <2>5. pc'[n] \in {"race", "update"} /\ owner' = NoNode BY <2>1, <2>3, <2>4
    <2>6. LoadCluster(n)
      BY <1>a, <2>2, <2>5
      DEF NodeStep, LoadFails, UpdateLeader, WriteFailsafe, Updated, Defer, AcquireLock, Reload,
          Promote, Promoted, CallMember, Continue, Demote, Crash, Restart, Stop, Goto, DcsError,
          TypeInv, TypeOK, haVars, WriteKey, keyVars, dcsVars
    <2>7. owner = NoNode BY <2>5, <2>6 DEF LoadCluster, dcsVars
    <2>8. m \in failsafe /\ \A k \in failsafe \ {m} : Word(k, m, wd[m])
      BY <2>1, <2>7, FailsafeAssumption DEF FailsafeInv, NodeInv, Fenced
    <2>a. LeaderSeenBy(n) # n
      BY <1>a, <2>7, FailsafeAssumption DEF LeaderSeenBy, TypeInv, TypeOK
    <2>b. pc[n] = "idle" /\ LeaderSeenBy(n) = NoNode /\ (pg[n] = "primary" \/ MayRace(n))
      BY <1>a, <2>5, <2>6, <2>a DEF LoadCluster, Goto, TypeInv, TypeOK
    <2>9. n \in failsafe
      BY <2>2, <2>8, <2>b DEF MayRace, Active
    <2>10. Word(n, m, wd[m]) /\ wd[m] \in Nat \ {0}
      BY <1>a, <2>1, <2>8, <2>9, FailsafeAssumption
      DEF FailsafeInv, NodeInv, MachineInv, TypeInv, TypeOK
    <2>11. pingTtl[n] > 0 /\ pinger[n] = m
      BY <1>a, <2>b, <2>10, FailsafeAssumption DEF Word, TypeInv, TypeOK
    <2> QED BY <2>1, <2>7, <2>b, <2>11, FailsafeAssumption DEF LeaderSeenBy
  <1> QED BY <1>1, <1>2, <1>3, <1>4, <1>5, <1>6 DEF NodeInv

\* Time is well typed too.
LEMMA TickType == ASSUME TypeInv, Tick PROVE TypeInv'
  <1> USE FailsafeAssumption DEF TypeInv, TypeOK, PCs, Tick
  <1>1. owner' \in Node \cup {NoNode} /\ keyTtl' \in 0 .. TTL /\ (owner' = NoNode <=> keyTtl' = 0)
    OBVIOUS
  <1>2. \A n \in Node : pingTtl[n] \in 0 .. TTL /\ wd[n] \in 0 .. WdTimeout OBVIOUS
  <1>3. /\ pingTtl' = [n \in Node |-> IF pingTtl[n] = 0 THEN 0 ELSE pingTtl[n] - 1]
        /\ wd' = [n \in Node |-> IF wd[n] = 0 THEN 0 ELSE wd[n] - 1]
    OBVIOUS
  <1>4. pingTtl' \in [Node -> 0 .. TTL] /\ wd' \in [Node -> 0 .. WdTimeout]
    <2> HIDE DEF TypeInv, TypeOK, Tick
    <2> QED BY <1>2, <1>3
  <1>5. /\ pc' \in [Node -> PCs] /\ cached' \in [Node -> SUBSET Node]
        /\ todo' \in [Node -> SUBSET Node] /\ pinger' \in [Node -> Node \cup {NoNode}]
        /\ pg' \in [Node -> {"down", "standby", "promoting", "primary"}]
        /\ \A n \in Node : pinger'[n] # n /\ n \notin todo'[n]
    BY DEF Stop
  <1> HIDE DEF Tick
  <1> QED BY <1>1, <1>4, <1>5 DEF Tick

\* Time passes: a primary is reset before its key expires, and before the word
\* of the others is too old.
LEMMA TickInv == ASSUME FailsafeInv, SafeFailsafe, Tick PROVE FailsafeInv'
  <1>a. TypeInv /\ TypeInv'
    BY TickType DEF TypeInv, FailsafeInv, NodeInv, MachineInv
  <1>b. /\ keyTtl' = (IF keyTtl = 0 THEN 0 ELSE keyTtl - 1)
        /\ owner' = (IF keyTtl <= 1 THEN NoNode ELSE owner)
        /\ failsafe' = failsafe
    BY DEF Tick
  <1>c. ASSUME NEW n \in Node
        PROVE  /\ wd'[n] = (IF wd[n] = 0 THEN 0 ELSE wd[n] - 1)
               /\ pingTtl'[n] = (IF pingTtl[n] = 0 THEN 0 ELSE pingTtl[n] - 1)
               /\ IF wd[n] = 1
                  THEN /\ pc'[n] = "down" /\ pg'[n] = "down" /\ ~Active(n)'
                       /\ todo'[n] = {}
                  ELSE /\ pc'[n] = pc[n] /\ pg'[n] = pg[n] /\ (Active(n)' <=> Active(n))
                       /\ todo'[n] = todo[n] /\ cached'[n] = cached[n]
               /\ pc'[n] = "down" \/ (pc'[n] = pc[n] /\ pinger'[n] = pinger[n])
               /\ wd[n] \in 0 .. WdTimeout /\ pingTtl[n] \in 0 .. TTL
    BY <1>a DEF Tick, Stop, Active, TypeInv, TypeOK
  <1>d. /\ keyTtl \in 0 .. TTL /\ TTL \in Nat /\ WdTimeout \in Nat \ {0} /\ WdTimeout <= TTL
        /\ owner = NoNode <=> keyTtl = 0
    BY <1>a, FailsafeAssumption DEF TypeInv, TypeOK
  <1>e. ASSUME NEW m \in Node, NEW n \in Node, NEW t \in Nat \ {0}, Word(m, n, t)
        PROVE  Word(m, n, t - 1)'
    BY <1>c, <1>e DEF Word
  <1>f. ASSUME NEW n \in Node, pc[n] \in {"race", "update"}, owner \notin {n, NoNode}
        PROVE  owner' = owner
    BY <1>b, <1>d, <1>f DEF Tick, SafeFailsafe
  <1>g. ASSUME NEW n \in Node, Active(n)' PROVE Active(n) BY <1>c, <1>g
  <1>1. ASSUME NEW n \in Node PROVE NodeInv(n)'
    <2>a. /\ MachineInv(n) /\ Fenced(n) /\ WindowInv(n)
          /\ AskInv(n) /\ CacheInv(n) /\ RaceInv(n) /\ ActivatedInTime(n)
      BY DEF FailsafeInv, NodeInv, Tick
    <2>1. MachineInv(n)' BY <1>c, <2>a DEF MachineInv
    <2>2. RaceInv(n)'
      <3>1. owner' = n => owner = n BY <1>b, FailsafeAssumption
      <3>2. pc'[n] \in {"race", "update"} /\ owner' = NoNode => owner \in {n, NoNode}
        BY <1>c, <1>f
      <3> QED BY <1>c, <1>g, <2>a, <3>1, <3>2 DEF RaceInv
    <2>3. WindowInv(n)'
      <3> USE FailsafeAssumption DEF WindowInv, InWindow
      <3>1. CASE pc'[n] = "down" BY <3>1
      <3>2. CASE wd[n] > 1
        <4>1. Active(n) /\ Active(n)' /\ pc'[n] = pc[n] /\ wd'[n] = wd[n] - 1
          BY <1>c, <2>a, <3>2 DEF MachineInv
        <4>2. pg'[n] # "standby" BY <4>1 DEF Active
        <4> QED BY <1>b, <1>c, <1>d, <2>a, <3>2, <4>1, <4>2
      <3>3. CASE wd[n] = 0 /\ pc'[n] # "down"
        <4>1. ~Active(n) /\ ~Active(n)' /\ pc'[n] = pc[n] /\ pg'[n] = pg[n] /\ pg[n] # "down"
          BY <1>c, <2>a, <3>3 DEF MachineInv
        <4>2. pg[n] = "standby" BY <1>a, <4>1 DEF Active, TypeInv, TypeOK
        <4> QED BY <1>b, <1>d, <2>a, <4>1, <4>2 DEF ActivatedInTime
      <3> QED BY <1>c, <3>1, <3>2, <3>3
    <2>4. CacheInv(n)'
      <3>1. CASE wd[n] = 1 BY <1>c, <3>1 DEF CacheInv, InWindow
      <3>2. CASE wd[n] # 1
        BY <1>b, <1>c, <1>f, <2>a, <3>2, FailsafeAssumption DEF CacheInv, InWindow
      <3> QED BY <3>1, <3>2
    <2>5. Fenced(n)'
      <3>1. SUFFICES ASSUME Active(n)' PROVE Fenced(n)' BY DEF Fenced
      <3>2. Active(n) /\ wd[n] > 1 /\ wd'[n] = wd[n] - 1
        BY <1>c, <2>a, <3>1 DEF MachineInv
      <3>3. CASE owner = n /\ wd[n] <= keyTtl BY <1>b, <1>c, <1>d, <3>2, <3>3 DEF Fenced
      <3>4. CASE n \in failsafe /\ \A m \in failsafe \ {n} : Word(m, n, wd[n])
        <4>1. ASSUME NEW m \in failsafe \ {n} PROVE Word(m, n, wd[n])'
          <5>1. m \in Node BY <1>a DEF TypeInv, TypeOK
          <5>2. pingTtl'[m] >= wd[n] - 1 /\ (pinger'[m] = n \/ pc'[m] = "down")
            BY <1>c, <1>e, <3>2, <3>4, <5>1 DEF Word
          <5> QED BY <3>2, <5>2 DEF Word
        <4> QED BY <1>b, <3>2, <3>4, <4>1 DEF Fenced, Word
      <3> QED BY <2>a, <3>2, <3>3, <3>4 DEF Fenced
    <2>6. AskInv(n)'
      <3>1. SUFFICES ASSUME pc'[n] = "ask" PROVE AskInv(n)' BY DEF AskInv
      <3>2. pc[n] = "ask" /\ wd[n] > 1 /\ wd'[n] = wd[n] - 1
        BY <1>c, <2>a, <3>1 DEF MachineInv
      <3>3. todo'[n] = todo[n] /\ cached'[n] = cached[n] BY <1>c, <3>2
      <3>4. PICK t \in Nat \ {0} : t = TTL - WdTimeout + wd[n] BY <1>c, <1>d, <3>2
      <3>5. ASSUME NEW m \in (cached[n] \ {n}) \ todo[n]
            PROVE  Word(m, n, TTL - WdTimeout + wd[n])'
        <4>1. m \in Node BY <1>a DEF TypeInv, TypeOK
        <4>2. Word(m, n, t) BY <2>a, <3>2, <3>4 DEF AskInv
        <4>3. pingTtl'[m] >= t - 1 /\ (pinger'[m] = n \/ pc'[m] = "down")
          BY <1>e, <4>1, <4>2 DEF Word
        <4>4. t - 1 = TTL - WdTimeout + wd'[n] BY <1>c, <1>d, <3>2, <3>4
        <4> QED BY <4>3, <4>4 DEF Word
      <3> QED BY <2>a, <3>2, <3>3, <3>5 DEF AskInv
    <2> QED BY <2>1, <2>2, <2>3, <2>4, <2>5, <2>6 DEF NodeInv
  <1> QED BY <1>1, <1>a DEF FailsafeInv, TypeInv

-----------------------------------------------------------------------------
\* The state stays within its types, whatever the settings.
THEOREM FailsafeType == Spec => []TypeOK
  <1>1. Init => TypeInv
    BY FailsafeAssumption DEF Init, TypeInv, TypeOK, PCs
  <1>2. TypeInv /\ [Next]_vars => TypeInv'
    <2>1. TypeInv /\ UNCHANGED vars => TypeInv'
      BY DEF TypeInv, TypeOK, vars, dcsVars, haVars, pingVars
    <2> QED BY <2>1, StepFrame, TickType DEF Next
  <1>3. TypeInv => TypeOK BY DEF TypeInv
  <1> QED BY <1>1, <1>2, <1>3, PTL DEF Spec

\* The inductive invariant.
THEOREM FailsafeInvariant == ASSUME SafeFailsafe PROVE Spec => []FailsafeInv
  <1>1. Init => FailsafeInv
    BY FailsafeAssumption
    DEF Init, FailsafeInv, NodeInv, MachineInv, Fenced, WindowInv, AskInv, CacheInv, RaceInv,
        InWindow, Active, TypeOK, PCs
  <1>2. ASSUME FailsafeInv, [Next]_vars PROVE FailsafeInv'
    <2>1. CASE UNCHANGED vars
      BY <1>2, <2>1
      DEF vars, dcsVars, haVars, pingVars, FailsafeInv, NodeInv, MachineInv, Fenced, WindowInv,
          AskInv, CacheInv, RaceInv, InWindow, Word, Active, TypeOK
    <2>2. CASE Tick BY <1>2, <2>2, TickInv
    <2>3. ASSUME NEW n \in Node, NodeStep(n) PROVE FailsafeInv'
      <3>1. TypeInv BY <1>2 DEF TypeInv, FailsafeInv, NodeInv, MachineInv
      <3>2. TypeOK' BY <2>3, <3>1, StepFrame DEF TypeInv
      <3>3. NodeInv(n)' BY <1>2, <2>3, OwnInv
      <3>4. \A m \in Node \ {n} : NodeInv(m)' BY <1>2, <2>3, OthersInv
      <3> QED BY <3>2, <3>3, <3>4 DEF FailsafeInv
    <2> QED BY <1>2, <2>1, <2>2, <2>3 DEF Next
  <1> QED BY <1>1, <1>2, PTL DEF Spec

\* The primary, if there is one, is the only one, and nobody else has the key.
RunningInv ==
  \/ Running = NoNode /\ \A n \in Node : ~Active(n)
  \/ /\ Running \in Node /\ owner \in {NoNode, Running}
     /\ \A n \in Node : Active(n) <=> n = Running

LEMMA OneRuns == ASSUME FailsafeInv PROVE RunningInv
  <1>1. \A n, m \in Node : Active(n) /\ n # m => ~Active(m) /\ owner # m
    BY DEF FailsafeInv, NodeInv, RaceInv
  <1>2. owner \in Node \cup {NoNode} BY DEF FailsafeInv, TypeOK
  <1> QED BY <1>1, <1>2 DEF RunningInv, Running

\* There is no split brain in failsafe mode either.
THEOREM FailsafeNoSplitBrain == ASSUME SafeFailsafe PROVE Spec => []AtMostOnePrimary
  <1>1. ASSUME FailsafeInv PROVE AtMostOnePrimary
    <2>1. RunningInv BY <1>1, OneRuns
    <2>2. CASE \A n \in Node : ~Active(n)
      <3>1. {n \in Node : Active(n)} = {} BY <2>2
      <3> QED BY <3>1, FS_EmptySet DEF AtMostOnePrimary
    <2>3. CASE Running \in Node /\ \A n \in Node : Active(n) <=> n = Running
      <3>1. {n \in Node : Active(n)} = {Running} BY <2>3
      <3> QED BY <3>1, FS_Singleton DEF AtMostOnePrimary
    <2> QED BY <2>1, <2>2, <2>3 DEF RunningInv
  <1> QED BY <1>1, FailsafeInvariant, PTL

\* A primary that goes on without the leader key has the word of every other
\* member in /failsafe, for longer than its watchdog lets it live.
THEOREM FailsafeVouched == ASSUME SafeFailsafe PROVE Spec => []Vouched
  <1>1. FailsafeInv => Vouched
    BY DEF FailsafeInv, NodeInv, Fenced, Word, Vouched
  <1> QED BY <1>1, FailsafeInvariant, PTL

\* A step of n moves the key to n, when it is free, and leaves postgres alone.
LEMMA KeyStep ==
  ASSUME TypeInv, Next
  PROVE  owner' \in {owner, NoNode} \/ (owner = NoNode /\ owner' \in Node /\ pg' = pg)
  <1>1. CASE Tick BY <1>1 DEF Tick
  <1>2. ASSUME NEW n \in Node, NodeStep(n)
        PROVE  owner' = owner \/ (owner \in {n, NoNode} /\ owner' = n /\ pg' = pg)
    BY <1>2
    DEF NodeStep, LoadCluster, LoadFails, UpdateLeader, WriteFailsafe, Updated, Defer,
        AcquireLock, Reload, Promote, Promoted, CallMember, Continue, Demote, Crash, Restart,
        WriteKey, dcsVars, keyVars
  <1> QED BY <1>1, <1>2 DEF Next

\* Failsafe mode implements the abstract lock on the right to run a primary, the
\* one that the leader key implements without it.
THEOREM FailsafeImplementsLock == ASSUME SafeFailsafe PROVE Spec => ImplementsLock
  <1>1. Init => Lock!Init
    BY DEF Init, Lock!Init, Running, Active
  <1>2. ASSUME FailsafeInv, FailsafeInv', [Next]_vars PROVE [Lock!Next]_(Lock!vars)
    <2> USE FailsafeAssumption
        DEF Lock!Next, Lock!vars, Lock!Acquire, Lock!Start, Lock!Release, Lock!Fence, Lock!Stop
    <2>1. CASE UNCHANGED vars
      BY <2>1 DEF vars, dcsVars, Running, Active
    <2>2. CASE Next
      <3>a. RunningInv /\ RunningInv'
        <4>1. RunningInv BY <1>2, OneRuns
        <4>2. \A n, m \in Node : Active(n)' /\ n # m => ~Active(m)' /\ owner' # m
          BY <1>2 DEF FailsafeInv, NodeInv, RaceInv
        <4>3. owner' \in Node \cup {NoNode} BY <1>2 DEF FailsafeInv, TypeOK
        <4> QED BY <4>1, <4>2, <4>3 DEF RunningInv, Running
      <3>b. TypeInv BY <1>2 DEF TypeInv, FailsafeInv, NodeInv, MachineInv
      <3>c. owner' \in {owner, NoNode} \/ (owner = NoNode /\ owner' \in Node /\ pg' = pg)
        BY <2>2, <3>b, KeyStep
      <3>1. CASE Running' = Running BY <3>a, <3>c, <3>1 DEF RunningInv
      <3>2. CASE Running' = NoNode /\ Running # NoNode
        BY <3>a, <3>c, <3>2 DEF RunningInv, Active
      <3>3. CASE Running' # NoNode /\ Running' # Running
        <4>1. PICK r \in Node : Running' = r BY <3>a, <3>3 DEF RunningInv
        <4>2. ~Active(r) /\ Active(r)' BY <3>a, <3>3, <4>1 DEF RunningInv, Active
        <4>3. ~Tick BY <3>b, <4>2 DEF Tick, Stop, Active, TypeInv, TypeOK
        <4>4. PICK n \in Node : NodeStep(n) BY <2>2, <4>3 DEF Next
        <4>5. n = r BY <3>b, <4>2, <4>4, StepFrame DEF OthersKept, Active
        <4>6. owner = r /\ UNCHANGED dcsVars BY <1>2, <4>2, <4>4, <4>5, BecomesPrimary
        <4>7. Running = NoNode BY <3>a, <4>1, <4>6, <3>3 DEF RunningInv
        <4> QED BY <4>1, <4>6, <4>7 DEF dcsVars
      <3> QED BY <3>1, <3>2, <3>3
    <2> QED BY <1>2, <2>1, <2>2
  <1> QED BY <1>1, <1>2, FailsafeInvariant, PTL DEF Spec, ImplementsLock, Lock!Spec

=============================================================================
