---------------------------- MODULE MCCompanion ----------------------------
(* The instances of Companion that TLC checks: the cfg files give the      *)
(* bounds, and no definition is replaced.                                  *)
EXTENDS Companion, TLC

Symmetry == Permutations(Calls)
=============================================================================
