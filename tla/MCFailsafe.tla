---------------------------- MODULE MCFailsafe ----------------------------
(* Model-checking instance of Failsafe. *)
EXTENDS Failsafe, TLC

Symmetry == Permutations(Node)
=============================================================================
