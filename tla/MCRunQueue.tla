----------------------------- MODULE MCRunQueue -----------------------------
(* RunQueue implements RunOrder: the order is what a walk along m_next     *)
(* from the main tasklet finds.                                            *)
EXTENDS RunQueue

WalkOrder(qu) ==
  LET walk == Walk(qu)
  IN  [i \in 1 .. GetCalculatedTaskletCount(qu) - 1 |-> walk[i]]

Abstract == INSTANCE RunOrder WITH order <- WalkOrder(q), wants <- q.resched

(* The linked list of ScheduleManager.cpp implements the run order: every  *)
(* insert, removal and requeue changes the chain from main exactly as the  *)
(* step of RunOrder says, in particular the FRONT_PLUS_ONE exchange of Run *)
(* (lines 561-578), which takes the front out and puts it back.            *)
OrderKept == Abstract!Spec

=============================================================================
