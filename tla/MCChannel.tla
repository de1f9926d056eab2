------------------------------ MODULE MCChannel ------------------------------
(* Channel implements ChannelFIFO: the queue is what a walk along          *)
(* m_previousBlocked from the first blocked tasklet finds.                 *)
EXTENDS Channel, TLC

Walk(b, c, d) ==
  LET w[i \in 1 .. Cardinality(Blockers) + 1] ==
        IF i = 1 THEN b.first[c][d]
        ELSE IF w[i - 1] = Null THEN Null ELSE b.prev[w[i - 1]]
  IN  w

Chain(b, c, d) ==
  LET w == Walk(b, c, d) IN [i \in {j \in DOMAIN w : w[j] # Null} |-> w[i]]

Waiting == [c \in Channels |-> [d \in Directions |-> Chain(bl, c, d)]]
Served  == {t \in Blockers : Transferred(t)}
Closing == {c \in Channels : bl.closing[c]}

Abstract == INSTANCE ChannelFIFO WITH waiting <- Waiting, served <- Served, shut <- Closing

(* The blocked lists of Channel.cpp are queues: a message is transferred   *)
(* only to or from the tasklet that has waited longest, and taking a       *)
(* tasklet out of the middle, or twice (Kill(pending) and then the error   *)
(* path of Receive), serves nobody and leaves the order of the others      *)
(* alone.                                                                  *)
FirstComeFirstServed == Abstract!Spec

(* Nothing tells one tasklet, or one channel, from another.                *)
Alike == Permutations(Blockers) \cup Permutations(Channels)

=============================================================================
