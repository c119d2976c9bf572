---------------------------- MODULE MCHermesRuns ----------------------------
(* Model values for HermesRuns: every constant is given in the cfg.        *)
EXTENDS HermesRunsInduction, TLC

Symmetry == Permutations(Dispatches)
=============================================================================
