---------------------------- MODULE QueueChannel ----------------------------
(***************************************************************************)
(* QueueChannel (src/python/scheduler/__init__.py): a channel with a deque *)
(* in front of it, so that send never blocks.  send and receive look at    *)
(* the state and then act on it.  They do so "with threading.Lock()", a    *)
(* lock that is new in each call and so excludes nobody: between the look  *)
(* and the act, Python may switch to another thread.  Tasklets of one      *)
(* thread switch inside the base channel only.                             *)
(*                                                                         *)
(* The base channel is what ChannelFIFO says: tasklets that wait, longest  *)
(* first.  A message counts as delivered when it is handed to a tasklet.   *)
(***************************************************************************)
EXTENDS Integers, Sequences, SequencesExt

CONSTANTS
  Users,        \* the tasklets that use the channel
  MaxSends,     \* how many messages are sent
  Threads       \* whether each tasklet has a thread of its own: the cases

ASSUME QueueChannelAssumption == MaxSends \in Nat /\ Threads \subseteq BOOLEAN

VARIABLES
  data_queue,   \* the deque
  receivers,    \* the tasklets that wait in super().receive()
  senders,      \* the tasklets that wait in super().send(), with the message
  closing,
  doing,        \* what each tasklet is about to do
  accepted,     \* the messages that send has taken, in order
  delivered,    \* the messages that were handed to a tasklet, in order
  sends,        \* how many messages have been sent
  threads       \* TRUE: each tasklet has a thread of its own

dequeVars == <<data_queue, receivers, senders, closing, doing, accepted, delivered,
               sends, threads>>

Idle    == [at |-> "python"]
Waiting == [at |-> "waiting"]
Send(at, m) == [at |-> at, msg |-> m]
Receive(at) == [at |-> at]

Acting(u) == doing[u].at \notin {"python", "waiting"}

(* The scheduler of a thread, and the GIL between threads.                 *)
MayRun(u) == threads \/ \A v \in Users \ {u} : ~Acting(v)

Does(u, what) == doing' = [doing EXCEPT ![u] = what]

DequeInit ==
  /\ data_queue = <<>> /\ receivers = <<>> /\ senders = <<>>
  /\ closing = FALSE
  /\ doing = [u \in Users |-> Idle]
  /\ accepted = <<>> /\ delivered = <<>> /\ sends = 0
  /\ threads \in Threads

(* super().balance *)
BaseBalance == Len(senders) - Len(receivers)

-----------------------------------------------------------------------------
(* Mutant: a waiting receiver is not looked for.                           *)
QueuesUpAlways == ~closing

(* The test of send and of send_throw.                                     *)
QueuesUp == BaseBalance >= 0 /\ ~closing

SendLooks(u) ==
  /\ doing[u] = Idle /\ MayRun(u) /\ sends < MaxSends
  /\ sends' = sends + 1
  /\ Does(u, Send(IF QueuesUp THEN "append" ELSE "super_send", sends'))
  /\ UNCHANGED <<data_queue, receivers, senders, closing, accepted, delivered, threads>>

SendAppends(u) ==
  /\ doing[u].at = "append" /\ MayRun(u)
  /\ data_queue' = Append(data_queue, doing[u].msg)
  /\ accepted' = Append(accepted, doing[u].msg)
  /\ Does(u, Idle)
  /\ UNCHANGED <<receivers, senders, closing, delivered, sends, threads>>

(* super().send(): a waiting receiver gets the message, and the sender     *)
(* goes on, because the preference is 1.  With nobody waiting, it raises   *)
(* on a closing channel and blocks on an open one.                         *)
SuperSend(u) ==
  /\ doing[u].at = "super_send" /\ MayRun(u)
  /\ LET m == doing[u].msg
     IN  \/ /\ receivers # <<>>
            /\ receivers' = Tail(receivers)
            /\ doing' = [doing EXCEPT ![u] = Idle, ![Head(receivers)] = Idle]
            /\ accepted' = Append(accepted, m)
            /\ delivered' = Append(delivered, m)
            /\ UNCHANGED senders
         \/ /\ receivers = <<>> /\ closing
            /\ Does(u, Idle)
            /\ UNCHANGED <<receivers, senders, accepted, delivered>>
         \/ /\ receivers = <<>> /\ ~closing
            /\ senders' = Append(senders, [who |-> u, msg |-> m])
            /\ Does(u, Waiting)
            /\ UNCHANGED <<receivers, accepted, delivered>>
  /\ UNCHANGED <<data_queue, closing, sends, threads>>

(* The test of receive.                                                    *)
ReceiveLooks(u) ==
  /\ doing[u] = Idle /\ MayRun(u)
  /\ Does(u, Receive(IF data_queue = <<>> THEN "super_receive" ELSE "popleft"))
  /\ UNCHANGED <<data_queue, receivers, senders, closing, accepted, delivered, sends, threads>>

(* Mutant: pop() for popleft().                                            *)
NextInQueueLast == data_queue[Len(data_queue)]

NextInQueue == Head(data_queue)

(* Mutant: data_queue[0] for popleft().                                    *)
PoppedKeeps == data_queue

Popped == Tail(data_queue)

(* popleft() raises IndexError when another thread has emptied the deque.  *)
ReceivePops(u) ==
  /\ doing[u].at = "popleft" /\ MayRun(u)
  /\ IF data_queue = <<>>
       THEN UNCHANGED <<data_queue, delivered>>
       ELSE /\ delivered' = Append(delivered, NextInQueue)
            /\ data_queue' = Popped
  /\ Does(u, Idle)
  /\ UNCHANGED <<receivers, senders, closing, accepted, sends, threads>>

SuperReceive(u) ==
  /\ doing[u].at = "super_receive" /\ MayRun(u)
  /\ \/ /\ senders # <<>>
        /\ senders' = Tail(senders)
        /\ doing' = [doing EXCEPT ![u] = Idle, ![Head(senders).who] = Idle]
        /\ accepted' = Append(accepted, Head(senders).msg)
        /\ delivered' = Append(delivered, Head(senders).msg)
        /\ UNCHANGED receivers
     \/ /\ senders = <<>> /\ closing
        /\ Does(u, Idle)
        /\ UNCHANGED <<receivers, senders, accepted, delivered>>
     \/ /\ senders = <<>> /\ ~closing
        /\ receivers' = Append(receivers, u)
        /\ Does(u, Waiting)
        /\ UNCHANGED <<senders, accepted, delivered>>
  /\ UNCHANGED <<data_queue, closing, sends, threads>>

(* kill() takes a tasklet off the base channel's list.                     *)
Killed(u) ==
  /\ \E v \in Users \ {u} : doing[v] = Idle /\ MayRun(v)
  /\ doing[u] = Waiting
  /\ \/ \E i \in DOMAIN receivers : /\ receivers[i] = u
                                    /\ receivers' = RemoveAt(receivers, i)
                                    /\ UNCHANGED senders
     \/ \E i \in DOMAIN senders : /\ senders[i].who = u
                                  /\ senders' = RemoveAt(senders, i)
                                  /\ UNCHANGED receivers
  /\ Does(u, Idle)
  /\ UNCHANGED <<data_queue, closing, accepted, delivered, sends, threads>>

CloseOrOpen(u) ==
  /\ doing[u] = Idle /\ MayRun(u)
  /\ closing' = ~closing
  /\ UNCHANGED <<data_queue, receivers, senders, doing, accepted, delivered, sends, threads>>

DequeNext ==
  \E u \in Users :
    \/ SendLooks(u) \/ SendAppends(u) \/ SuperSend(u)
    \/ ReceiveLooks(u) \/ ReceivePops(u) \/ SuperReceive(u)
    \/ Killed(u) \/ CloseOrOpen(u)

DequeSpec == DequeInit /\ [][DequeNext]_dequeVars

-----------------------------------------------------------------------------
(* __init__.py:18: "If there isn't a blocked tasklet waiting for the data, *)
(* the data is queued up internally": nobody waits while there is data.    *)
NobodyWaitsBesideData == data_queue # <<>> => receivers = <<>>

(* The same for tasklets of one thread, where it holds although receive    *)
(* and send switch tasklets in the base channel.                           *)
NobodyWaitsOnOneThread == ~threads => NobodyWaitsBesideData

(* No message is lost, repeated or overtaken between the deque and the     *)
(* base channel: on one thread, what send has taken is what was delivered, *)
(* followed by what is in the deque (__init__.py:32-67).                   *)
QueueKeepsOrder == ~threads => accepted = delivered \o data_queue

(* Threads may find the wrong branch or reorder the messages of different  *)
(* senders, but a message that send has taken is still delivered once or   *)
(* in the deque, never both and never neither.                             *)
EachMessageOnce ==
  /\ IsInjective(delivered \o data_queue)
  /\ ToSet(accepted) = ToSet(delivered \o data_queue)

=============================================================================
