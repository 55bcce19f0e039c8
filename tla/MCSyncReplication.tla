------------------------- MODULE MCSyncReplication -------------------------
(* Model-checking instance of SyncReplication. *)
EXTENDS SyncReplication, TLC

Symmetry == Permutations(Node)
=============================================================================
