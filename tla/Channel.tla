------------------------------- MODULE Channel -------------------------------
(***************************************************************************)
(* The blocked lists of the channels (src/src/Channel.cpp).  A channel     *)
(* keeps two lists of blocked tasklets, the senders and the receivers,     *)
(* threaded through Tasklet::m_nextBlocked / m_previousBlocked: "next"     *)
(* leads from the tasklet that came last to the one that came first.  Its  *)
(* balance counts the senders positively and the receivers negatively, and *)
(* a closing channel becomes closed when its balance is seen to be zero.   *)
(*                                                                         *)
(* The lists of all the channels are the record bl; the member functions   *)
(* are operators on it, which Scheduler composes.  The specification at    *)
(* the end of the module drives them with the calls that Send, Receive,    *)
(* their error paths, Close and Open make.                                 *)
(***************************************************************************)
EXTENDS Integers, FiniteSets

CONSTANTS
  Blockers,     \* the tasklets that use the channels
  Channels,
  Null          \* nullptr

Directions == {"SENDER", "RECEIVER"}

ASSUME ChannelAssumption ==
  /\ IsFiniteSet(Blockers)
  /\ Null \notin Blockers \cup Channels \cup [chan : Channels, dir : Directions]

VARIABLE bl   \* the lists of all the channels

Links == Blockers \cup {Null}

BlockedLists ==
  [first   : [Channels -> [Directions -> Links]],
   last    : [Channels -> [Directions -> Links]],
   next    : [Blockers -> Links],
   prev    : [Blockers -> Links],
   dir     : [Blockers -> Directions \cup {"NEITHER"}],
   balance : [Channels -> Int],
   closing : [Channels -> BOOLEAN],
   closed  : [Channels -> BOOLEAN]]

EmptyLists ==
  [first   |-> [c \in Channels |-> [d \in Directions |-> Null]],
   last    |-> [c \in Channels |-> [d \in Directions |-> Null]],
   next    |-> [t \in Blockers |-> Null],
   prev    |-> [t \in Blockers |-> Null],
   dir     |-> [t \in Blockers |-> "NEITHER"],
   balance |-> [c \in Channels |-> 0],
   closing |-> [c \in Channels |-> FALSE],
   closed  |-> [c \in Channels |-> FALSE]]

-----------------------------------------------------------------------------
(* What one blocked tasklet of direction d is worth in the balance.        *)
Weight(d) == CASE d = "SENDER" -> 1 [] d = "RECEIVER" -> -1 [] OTHER -> 0

(* A store through a pointer that is not null.                             *)
Store(f, u, v) == IF u = Null THEN f ELSE [f EXCEPT ![u] = v]

(* AddTaskletToWaitingToSend and AddTaskletToWaitingToReceive.             *)
AddTaskletToWaiting(b, c, d, t) ==
  LET l == b.last[c][d]
  IN  [b EXCEPT !.first[c][d] = IF l = Null THEN t ELSE @,
                !.last[c][d]  = t,
                !.next[t]     = IF l = Null THEN @ ELSE l,
                !.prev        = Store(@, l, t),
                !.dir[t]      = d,
                !.balance[c]  = @ + Weight(d)]

(* RemoveTaskletFromBlocked.  The ends that the channel holds are moved    *)
(* when they point at the tasklet, and the new end is cut loose; only a    *)
(* tasklet at neither end of either list is spliced out of the middle.     *)
AtLast(b, c, t)  == \E d \in Directions : b.last[c][d] = t
AtFirst(b, c, t) == \E d \in Directions : b.first[c][d] = t

NextWithout(b, c, t) ==
  LET p == b.prev[t]
  IN  [(CASE AtFirst(b, c, t)                     -> Store(b.next, p, Null)
          [] ~AtFirst(b, c, t) /\ ~AtLast(b, c, t) -> Store(b.next, p, b.next[t])
          [] OTHER                                -> b.next) EXCEPT ![t] = Null]

PrevWithout(b, c, t) ==
  LET n == b.next[t]
  IN  [(CASE AtLast(b, c, t)                      -> Store(b.prev, n, Null)
          [] ~AtFirst(b, c, t) /\ ~AtLast(b, c, t) -> Store(b.prev, n, b.prev[t])
          [] OTHER                                -> b.prev) EXCEPT ![t] = Null]

Unlink(b, c, t) ==
  [b EXCEPT
     !.first[c] = [d \in Directions |-> IF @[d] = t THEN b.prev[t] ELSE @[d]],
     !.last[c]  = [d \in Directions |-> IF @[d] = t THEN b.next[t] ELSE @[d]],
     !.next     = NextWithout(b, c, t),
     !.prev     = PrevWithout(b, c, t),
     !.dir[t]   = "NEITHER"]

(* Mutant: the balance is left alone.                                      *)
RemoveKeepsBalance(b, c, t) == Unlink(b, c, t)

(* The balance follows the direction that the tasklet records, so that     *)
(* removing a tasklet that is on no list changes nothing.                  *)
RemoveTaskletFromBlocked(b, c, t) ==
  [Unlink(b, c, t) EXCEPT !.balance[c] = @ - Weight(b.dir[t])]

UpdateCloseState(b, c) ==
  [b EXCEPT !.closed[c] = @ \/ (b.closing[c] /\ b.balance[c] = 0)]

(* Channel::Close and Channel::Open.                                       *)
CloseChannel(b, c) == UpdateCloseState([b EXCEPT !.closing[c] = TRUE], c)
OpenChannel(b, c)  == [b EXCEPT !.closing[c] = FALSE, !.closed[c] = FALSE]

Refuses(b, c) == b.closed[c] \/ b.closing[c]

(* Mutant: the one that came last is taken.                                *)
NextBlockedLast(b, c, d) == b.last[c][d]

(* PopNextTaskletBlockedOnSend / OnReceive take this tasklet off the list. *)
NextBlocked(b, c, d) == b.first[c][d]

-----------------------------------------------------------------------------
(* The callers: Send and Receive of the tasklets.                          *)
VARIABLES
  channelBlockedOn,   \* Tasklet::m_channelBlockedOn
  inside,             \* the channel and direction of a call under way
  transferArguments   \* whether Tasklet::m_transferArguments is set

vars == <<bl, channelBlockedOn, inside, transferArguments>>

Opposite(d) == IF d = "SENDER" THEN "RECEIVER" ELSE "SENDER"

Init == /\ bl = EmptyLists
        /\ channelBlockedOn = [t \in Blockers |-> Null]
        /\ inside = [t \in Blockers |-> Null]
        /\ transferArguments = [t \in Blockers |-> FALSE]

Unblocked(t) == channelBlockedOn[t] = Null
Inside(t, c, d) == inside[t] = [chan |-> c, dir |-> d]

(* A peer has taken the message of the sender t, or left one for the       *)
(* receiver t.                                                             *)
Transferred(t) == inside[t] # Null /\ transferArguments[t] = (inside[t].dir = "RECEIVER")

(* A tasklet that finds no peer and an open channel blocks; a sender holds *)
(* its message ready.                                                      *)
BlockOn(c, d, t) ==
  /\ inside[t] = Null
  /\ NextBlocked(bl, c, Opposite(d)) = Null
  /\ ~Refuses(bl, c)
  /\ bl' = UpdateCloseState(AddTaskletToWaiting(bl, c, d, t), c)
  /\ channelBlockedOn' = [channelBlockedOn EXCEPT ![t] = c]
  /\ inside' = [inside EXCEPT ![t] = [chan |-> c, dir |-> d]]
  /\ transferArguments' = [transferArguments EXCEPT ![t] = (d = "SENDER")]

(* A tasklet finds a peer and takes the one that has waited longest, which *)
(* goes on inside its call when it is run.  The message leaves a sender,   *)
(* and is stored in a receiver.                                            *)
Match(c, d) ==
  LET peer == NextBlocked(bl, c, d)
  IN  /\ peer # Null
      /\ \E t \in Blockers : inside[t] = Null
      /\ bl' = UpdateCloseState(RemoveTaskletFromBlocked(bl, c, peer), c)
      /\ channelBlockedOn' = [channelBlockedOn EXCEPT ![peer] = Null]
      /\ transferArguments' = [transferArguments EXCEPT ![peer] = (d = "RECEIVER")]
      /\ UNCHANGED inside

(* Receive on a channel that is closing, or with block_trap set: the       *)
(* tasklet is put on the list before the check, and taken off again.       *)
RefuseReceive(c, t) ==
  /\ inside[t] = Null
  /\ NextBlocked(bl, c, "SENDER") = Null
  /\ bl' = RemoveTaskletFromBlocked(AddTaskletToWaiting(bl, c, "RECEIVER", t), c, t)
  /\ UNCHANGED <<channelBlockedOn, inside, transferArguments>>

(* Kill(pending) takes a blocked tasklet off the list at once, and leaves  *)
(* the state of the channel alone.                                         *)
KillPending(c, t) ==
  /\ channelBlockedOn[t] = c
  /\ bl' = RemoveTaskletFromBlocked(bl, c, t)
  /\ channelBlockedOn' = [channelBlockedOn EXCEPT ![t] = Null]
  /\ UNCHANGED <<inside, transferArguments>>

(* The error path of Send and Receive, when kill() or throw() interrupts a *)
(* tasklet that is blocked, or that has been taken off the list already.   *)
GiveUp(c, d, t) ==
  /\ Inside(t, c, d)
  /\ bl' = UpdateCloseState(RemoveTaskletFromBlocked(bl, c, t), c)
  /\ channelBlockedOn' = [channelBlockedOn EXCEPT ![t] = Null]
  /\ inside' = [inside EXCEPT ![t] = Null]
  /\ transferArguments' = [transferArguments EXCEPT ![t] = FALSE]

(* The end of a call that went well, which is one whose message was        *)
(* transferred (a tasklet with an exception pending takes the error path); *)
(* Send looks at the channel once more, Receive takes its message.         *)
Complete(c, d, t) ==
  /\ Inside(t, c, d) /\ Unblocked(t) /\ Transferred(t)
  /\ bl' = IF d = "SENDER" THEN UpdateCloseState(bl, c) ELSE bl
  /\ inside' = [inside EXCEPT ![t] = Null]
  /\ transferArguments' = [transferArguments EXCEPT ![t] = FALSE]
  /\ UNCHANGED channelBlockedOn

Close(c) ==
  /\ bl' = CloseChannel(bl, c)
  /\ UNCHANGED <<channelBlockedOn, inside, transferArguments>>
Open(c) ==
  /\ bl' = OpenChannel(bl, c)
  /\ UNCHANGED <<channelBlockedOn, inside, transferArguments>>

Next ==
  \E c \in Channels :
    \/ Close(c) \/ Open(c)
    \/ \E d \in Directions : Match(c, d)
    \/ \E t \in Blockers :
         \/ RefuseReceive(c, t) \/ KillPending(c, t)
         \/ \E d \in Directions :
              BlockOn(c, d, t) \/ GiveUp(c, d, t) \/ Complete(c, d, t)

Spec == Init /\ [][Next]_vars

-----------------------------------------------------------------------------
(* Every field of the lists has the type of the member it stands for.      *)
TypeOK ==
  /\ bl \in BlockedLists
  /\ channelBlockedOn \in [Blockers -> Channels \cup {Null}]
  /\ inside \in [Blockers -> [chan : Channels, dir : Directions] \cup {Null}]
  /\ transferArguments \in [Blockers -> BOOLEAN]

BlockedTasklets(c, d) ==
  {t \in Blockers : channelBlockedOn[t] = c /\ bl.dir[t] = d}

(* PyChannel.cpp: balance is the "number of tasklets waiting to send (>0)  *)
(* or receive (<0)": it counts exactly the tasklets blocked on the         *)
(* channel, however they came and went.                                    *)
BalanceCountsBlocked ==
  \A c \in Channels :
    bl.balance[c] = Cardinality(BlockedTasklets(c, "SENDER"))
                      - Cardinality(BlockedTasklets(c, "RECEIVER"))

(* A sender and a receiver never wait on the same channel: Send and        *)
(* Receive would have matched them.                                        *)
OneSided ==
  \A c \in Channels : \E d \in Directions : BlockedTasklets(c, d) = {}

(* The two link fields agree, and the ends held by a channel are ends.     *)
BlockedLinksAgree ==
  /\ \A t, u \in Blockers : bl.next[t] = u <=> bl.prev[u] = t
  /\ \A t \in Blockers : Unblocked(t) => /\ bl.next[t] = Null /\ bl.prev[t] = Null
                                         /\ bl.dir[t] = "NEITHER"
  /\ \A c \in Channels, d \in Directions, t \in Blockers :
       /\ bl.first[c][d] = t <=> t \in BlockedTasklets(c, d) /\ bl.next[t] = Null
       /\ bl.last[c][d] = t <=> t \in BlockedTasklets(c, d) /\ bl.prev[t] = Null

(* A channel that reports closed holds nobody, and was asked to close.     *)
ClosedIsEmpty ==
  \A c \in Channels : bl.closed[c] => bl.closing[c] /\ bl.balance[c] = 0

(* A channel's two lists, its balance and its closed flag tell the same    *)
(* story, however senders and receivers came, were matched, refused or     *)
(* killed, and however often the channel was closed and opened             *)
(* (Channel.cpp:34-370, 614).                                              *)
ListsOK == BalanceCountsBlocked /\ OneSided /\ BlockedLinksAgree /\ ClosedIsEmpty

=============================================================================
