----------------------------- MODULE ChannelFIFO -----------------------------
(***************************************************************************)
(* What a channel promises: the tasklets that wait on it form a queue, all *)
(* of them to send or all of them to receive.  Only the one that has       *)
(* waited longest is served; one that is interrupted leaves the others in  *)
(* order and is not served.  Nobody joins a channel that has been closed.  *)
(***************************************************************************)
EXTENDS SequencesExt

CONSTANTS Blockers, Channels

VARIABLES
  waiting,      \* for each channel and direction, who waits, longest first
  served,       \* who has been served, until its call ends
  shut          \* the channels that close() has been called on

vars == <<waiting, served, shut>>

Sides == {"SENDER", "RECEIVER"}

Init == /\ waiting = [c \in Channels |-> [d \in Sides |-> <<>>]]
        /\ served = {} /\ shut = {}

Waits(t) ==
  \E c \in Channels, d \in Sides : \E i \in DOMAIN waiting[c][d] : waiting[c][d][i] = t

Join(c, d, t) ==
  /\ ~Waits(t) /\ t \notin served /\ c \notin shut
  /\ \A other \in Sides \ {d} : waiting[c][other] = <<>>
  /\ waiting' = [waiting EXCEPT ![c][d] = Append(@, t)]
  /\ UNCHANGED <<served, shut>>

Serve(c, d) ==
  /\ waiting[c][d] # <<>>
  /\ waiting' = [waiting EXCEPT ![c][d] = Tail(@)]
  /\ served' = served \cup {Head(waiting[c][d])}
  /\ UNCHANGED shut

Interrupt(c, d, i) ==
  /\ i \in DOMAIN waiting[c][d]
  /\ waiting' = [waiting EXCEPT ![c][d] = RemoveAt(@, i)]
  /\ UNCHANGED <<served, shut>>

Finish(t) == served' = served \ {t} /\ UNCHANGED <<waiting, shut>>

Shut(c)   == shut' = shut \cup {c} /\ UNCHANGED <<waiting, served>>
Reopen(c) == shut' = shut \ {c} /\ UNCHANGED <<waiting, served>>

Next ==
  \/ \E t \in Blockers : Finish(t)
  \/ \E c \in Channels :
       \/ Shut(c) \/ Reopen(c)
       \/ \E d \in Sides : \/ Serve(c, d)
                           \/ \E t \in Blockers : Join(c, d, t)
                           \/ \E i \in DOMAIN waiting[c][d] : Interrupt(c, d, i)

Spec == Init /\ [][Next]_vars

=============================================================================
