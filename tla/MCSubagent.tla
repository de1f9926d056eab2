---------------------------- MODULE MCSubagent ----------------------------
(***************************************************************************)
(* Three process slots, so that two can reclaim what a third one left, and *)
(* two tasks.                                                              *)
(***************************************************************************)
EXTENDS Subagent, TLC
CONSTANTS p1, p2, p3, t1, t2
Perms == Permutations(Procs) \cup Permutations(Tasks)
===========================================================================
