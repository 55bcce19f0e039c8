----------------------------- MODULE MCElection -----------------------------
(* Model-checking instance of Election. *)
EXTENDS Election

CONSTANTS n1, n2, n3

EqualPriority == [n \in Node |-> 1]
\* n1 is preferred to n2, and n2 to n3.
FallingPriority == [n \in Node |-> CASE n = n1 -> 3 [] n = n2 -> 2 [] OTHER -> 1]

Symmetry == Permutations(Node)
=============================================================================
