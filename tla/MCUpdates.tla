----------------------------- MODULE MCUpdates -----------------------------
(* Model values for Updates.                                                *)
EXTENDS Updates, TLC

Symmetry == Permutations(Tasks)
============================================================================
