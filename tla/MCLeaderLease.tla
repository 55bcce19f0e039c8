--------------------------- MODULE MCLeaderLease ---------------------------
(* Model-checking instance of LeaderLease. *)
EXTENDS LeaderLease, TLC

Symmetry == Permutations(Node)
=============================================================================
