------------------------------ MODULE MCTasks ------------------------------
(* Model values for Tasks.                                                  *)
EXTENDS TasksInduction, TLC

Symmetry == Permutations(Tasks)
============================================================================
