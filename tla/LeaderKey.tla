----------------------------- MODULE LeaderKey -----------------------------
(***************************************************************************)
(* What a backend of dcs/ promises about the leader key: one node at most  *)
(* is named in it, nobody takes it from the node that has it, and a node   *)
(* that is told that it has the key had it since it asked.                 *)
(***************************************************************************)
CONSTANTS Node, None

VARIABLES
  holder,  \* the node named in the key, None when there is none
  had,     \* the nodes that have had the key since they asked
  told     \* the nodes that were told that they have it

vars == <<holder, had, told>>

Init == holder = None /\ had = {} /\ told = {}

\* A node asks for the key, or that it be kept: what it was told is history.
Ask(n) ==
  /\ told' = told \ {n}
  /\ had' = IF holder = n THEN had \cup {n} ELSE had \ {n}
  /\ UNCHANGED holder

\* The key is free and n is named in it.
Take(n) ==
  /\ holder \in {None, n}
  /\ holder' = n
  /\ had' = had \cup {n}
  /\ told' \in {told, told \cup {n}}

\* The key is deleted or expires.
Lose == holder' = None /\ UNCHANGED <<had, told>>

Tell(n) ==
  /\ n \in had
  /\ told' = told \cup {n}
  /\ UNCHANGED <<holder, had>>

\* What a node was told is history when it loads the cluster again.
Forget(n) == told' = told \ {n} /\ UNCHANGED <<holder, had>>

Next == Lose \/ \E n \in Node : Ask(n) \/ Take(n) \/ Tell(n) \/ Forget(n)

Spec == Init /\ [][Next]_vars
=============================================================================
