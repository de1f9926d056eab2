---------------------------- MODULE MCTaskStore ----------------------------
(***************************************************************************)
(* Two tasks, so that the save of one recovers what the other one left.    *)
(***************************************************************************)
EXTENDS TaskStore, TLC
CONSTANTS t1, t2
Perms == Permutations(Tasks)
============================================================================
