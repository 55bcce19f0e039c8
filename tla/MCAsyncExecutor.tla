-------------------------- MODULE MCAsyncExecutor --------------------------
(* Model-checking instance of AsyncExecutor. *)
EXTENDS AsyncExecutor, TLC

Symmetry == Permutations(Worker)
=============================================================================
