----------------------------- MODULE LeaderLock -----------------------------
(***************************************************************************)
(* What the leader key promises: a lock on the right to run a primary.     *)
(* A primary starts only while its node holds the lock, at most one runs,  *)
(* and the lock is lost only when no primary runs, or at the very moment   *)
(* its machine is reset.                                                   *)
(***************************************************************************)
CONSTANTS Node, NoNode

VARIABLES
  holder,    \* the node that holds the lock, NoNode when it is free
  primary    \* the node that runs, or is promoting to, a primary, or NoNode

vars == <<holder, primary>>

Init == holder = NoNode /\ primary = NoNode

\* The lock is taken, which does not make a primary yet.
Acquire(n) ==
  /\ holder = NoNode
  /\ holder' = n
  /\ UNCHANGED primary

\* The lock is given up, or expires, while no primary runs.
Release ==
  /\ primary = NoNode
  /\ holder' = NoNode
  /\ UNCHANGED primary

\* The lock expires together with the machine of the primary that held it.
Fence ==
  /\ holder' = NoNode
  /\ primary' = NoNode

\* The holder starts a primary, and stops it.
Start(n) ==
  /\ holder = n /\ primary = NoNode
  /\ primary' = n
  /\ UNCHANGED holder

Stop ==
  /\ primary' = NoNode
  /\ UNCHANGED holder

Next ==
  \/ \E n \in Node : Acquire(n) \/ Start(n)
  \/ Release \/ Fence \/ Stop

Spec == Init /\ [][Next]_vars
=============================================================================
