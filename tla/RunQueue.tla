------------------------------ MODULE RunQueue ------------------------------
(***************************************************************************)
(* The run queue of a ScheduleManager (src/src/ScheduleManager.cpp): a     *)
(* doubly linked list threaded through Tasklet::m_next / m_previous.  It   *)
(* starts at the main tasklet and ends at m_previousTasklet, and its       *)
(* length is cached in m_numberOfTaskletsInQueue.  A tasklet stays on the  *)
(* queue while it executes; ScheduleManager::Run unlinks it when control   *)
(* comes back.                                                             *)
(*                                                                         *)
(* The queue is the record q and the C++ member functions are operators    *)
(* from queues to queues, so that Scheduler can compose several of them in *)
(* one atomic stretch of C++.  The specification at the end of the module  *)
(* drives the queue with every sequence of calls its callers can make.     *)
(***************************************************************************)
EXTENDS Integers, FiniteSets

CONSTANTS
  Tasklets,     \* the tasklets other than the main tasklet
  Main,         \* the main (scheduler) tasklet
  Null,         \* nullptr
  SelfRemove    \* TRUE: a tasklet may call remove() on the executing tasklet

ASSUME RunQueueAssumption ==
  /\ IsFiniteSet(Tasklets)
  /\ Main \notin Tasklets
  /\ Null \notin Tasklets \cup {Main}
  /\ SelfRemove \in BOOLEAN

VARIABLES
  q,            \* the linked queue
  current       \* ScheduleManager::m_currentTasklet

vars == <<q, current>>

Nodes == Tasklets \cup {Main}
Pointers == Nodes \cup {Null}
RescheduleTypes == {"NONE", "FRONT_PLUS_ONE", "BACK"}

Queues == [next : [Nodes -> Pointers], prev : [Nodes -> Pointers],
           tail : Pointers, scheduled : [Nodes -> BOOLEAN], count : Int,
           resched : [Nodes -> RescheduleTypes]]

(* A ScheduleManager starts with its main tasklet, which is flagged as     *)
(* scheduled for good (CreateSchedulerTasklet) but not counted.            *)
EmptyQueue ==
  [next      |-> [n \in Nodes |-> Null],
   prev      |-> [n \in Nodes |-> Null],
   tail      |-> Main,
   scheduled |-> [n \in Nodes |-> n = Main],
   count     |-> 0,
   resched   |-> [n \in Nodes |-> "NONE"]]

SetReschedule(qu, t, r) == [qu EXCEPT !.resched[t] = r]

-----------------------------------------------------------------------------
(* InsertTasklet: append at m_previousTasklet, or, when the tasklet is     *)
(* already queued, only ask Run to queue it again.                         *)
InsertTasklet(qu, t) ==
  IF qu.scheduled[t]
    THEN SetReschedule(qu, t, "BACK")
    ELSE [next      |-> [qu.next EXCEPT ![qu.tail] = t, ![t] = Null],
          prev      |-> [qu.prev EXCEPT ![t] = qu.tail],
          tail      |-> t,
          scheduled |-> [qu.scheduled EXCEPT ![t] = TRUE],
          count     |-> qu.count + 1,
          resched   |-> qu.resched]

(* InsertTaskletToRunNext: link directly behind the current tasklet.       *)
LinkBehind(qu, t, cur, tail) ==
  [next      |-> [qu.next EXCEPT ![t] = qu.next[cur], ![cur] = t],
   prev      |-> [n \in Nodes |-> IF n = t THEN cur
                                  ELSE IF n = qu.next[cur] THEN t
                                  ELSE qu.prev[n]],
   tail      |-> tail,
   scheduled |-> [qu.scheduled EXCEPT ![t] = TRUE],
   count     |-> qu.count + 1,
   resched   |-> qu.resched]

(* Mutant: m_previousTasklet is not moved when the new tasklet is last.    *)
InsertTaskletToRunNextKeepsTail(qu, t, cur) ==
  IF qu.scheduled[t]
    THEN SetReschedule(qu, t, "BACK")
    ELSE LinkBehind(qu, t, cur, qu.tail)

InsertTaskletToRunNext(qu, t, cur) ==
  IF qu.scheduled[t]
    THEN SetReschedule(qu, t, "BACK")
    ELSE LinkBehind(qu, t, cur, IF cur = qu.tail THEN t ELSE qu.tail)

(* RemoveTasklet: unlink.  A tasklet whose two links are equal (both null) *)
(* is taken not to be queued, and the call changes nothing.                *)
RemoveTasklet(qu, t) ==
  LET p == qu.prev[t]
      s == qu.next[t]
  IN  IF p = s THEN qu
      ELSE [next      |-> [n \in Nodes |-> IF n = t THEN Null
                                           ELSE IF n = p THEN s
                                           ELSE qu.next[n]],
            prev      |-> [n \in Nodes |-> IF n = t THEN Null
                                           ELSE IF n = s THEN p
                                           ELSE qu.prev[n]],
            tail      |-> IF s = Null THEN p ELSE qu.tail,
            scheduled |-> [qu.scheduled EXCEPT ![t] = FALSE],
            count     |-> qu.count - 1,
            resched   |-> qu.resched]

-----------------------------------------------------------------------------
(* The end of one iteration of Run: control is back from tasklet t, and    *)
(* the current tasklet is t's parent p again.  m_previousTasklet is pulled *)
(* back, t is unlinked, and then queued again if it asked for it.          *)
PullBackTail(qu, t) ==
  IF qu.next[t] = Null THEN [qu EXCEPT !.tail = qu.prev[t]] ELSE qu

Unqueue(qu, t) == [RemoveTasklet(PullBackTail(qu, t), t)
                     EXCEPT !.scheduled[t] = FALSE]

(* Mutant: the front is put back before the rescheduled tasklet.           *)
InsertAfterFrontSwapped(qu, t, p) ==
  LET front == qu.next[p]
  IN  InsertTaskletToRunNext(
        InsertTaskletToRunNext(RemoveTasklet(qu, front), front, p), t, p)

(* FRONT_PLUS_ONE: t becomes the second tasklet behind p.                  *)
InsertAfterFront(qu, t, p) ==
  LET front == qu.next[p]
  IN  InsertTaskletToRunNext(
        InsertTaskletToRunNext(RemoveTasklet(qu, front), t, p), front, p)

(* Mutants: the request is dropped; it is kept and obeyed again.           *)
RequeueForgets(qu, t, p) == SetReschedule(qu, t, "NONE")
RequeueRepeats(qu, t, p) ==
  CASE qu.resched[t] = "BACK"           -> InsertTasklet(qu, t)
    [] qu.resched[t] = "FRONT_PLUS_ONE" -> SetReschedule(InsertAfterFront(qu, t, p), t, "NONE")
    [] OTHER                            -> qu

Requeue(qu, t, p) ==
  SetReschedule(CASE qu.resched[t] = "BACK"           -> InsertTasklet(qu, t)
                  [] qu.resched[t] = "FRONT_PLUS_ONE" -> InsertAfterFront(qu, t, p)
                  [] OTHER                            -> qu,
                t, "NONE")

GetCachedTaskletCount(qu) == qu.count + 1

(* The walk of GetCalculatedTaskletCount; the chain it follows is cut off  *)
(* at one node more than there are tasklets, so that a cycle shows.        *)
Walk(qu) ==
  LET w[i \in 0 .. Cardinality(Tasklets) + 1] ==
        IF i = 0 THEN Main
        ELSE IF w[i - 1] = Null THEN Null ELSE qu.next[w[i - 1]]
  IN  w

GetCalculatedTaskletCount(qu) ==
  LET w == Walk(qu) IN Cardinality({i \in DOMAIN w : w[i] # Null})

-----------------------------------------------------------------------------
(* The callers.  Every tasklet, queued or not, can be the subject of a     *)
(* call; the current tasklet is the main tasklet or one on the queue.      *)
Init == q = EmptyQueue /\ current = Main

(* tasklet.insert(), setup(), kill/throw with pending, and the channel     *)
(* that wakes the peer its preference does not favour.                     *)
Insert(t) ==
  /\ q.tail # Null
  /\ q' = InsertTasklet(q, t)
  /\ UNCHANGED current

(* The channel that wakes the peer its preference favours; Tasklet::Run in *)
(* flat mode, which first unlinks the tasklet.                             *)
RunNext(t) ==
  /\ q' = InsertTaskletToRunNext(q, t, current)
  /\ UNCHANGED current

(* Tasklet::Remove.                                                        *)
TakeOff(t) ==
  /\ q.scheduled[t]
  /\ t # current \/ SelfRemove
  /\ q' = RemoveTasklet(q, t)
  /\ UNCHANGED current

(* ScheduleManager::Schedule: the current tasklet asks to be queued again. *)
Schedule(r) ==
  /\ q' = SetReschedule(q, current, r)
  /\ UNCHANGED current

(* Run switches to a queued tasklet ...                                    *)
Resume(t) ==
  /\ q.scheduled[t]
  /\ current' = t
  /\ UNCHANGED q

(* ... and takes it off the queue when it gives control back to p.         *)
Return(p) ==
  /\ current # Main
  /\ p # current /\ q.scheduled[p]
  /\ LET u == Unqueue(q, current)
     IN  /\ u.resched[current] = "FRONT_PLUS_ONE" => u.next[p] # Null
         /\ u.resched[current] = "BACK" => u.tail # Null
         /\ q' = Requeue(u, current, p)
  /\ current' = p

Next ==
  \/ \E t \in Tasklets : Insert(t) \/ RunNext(t) \/ TakeOff(t) \/ Resume(t)
  \/ \E r \in RescheduleTypes : Schedule(r)
  \/ \E p \in Nodes : Return(p)

Spec == Init /\ [][Next]_vars

-----------------------------------------------------------------------------
(* Every field of the queue has the type of the C++ member it stands for.  *)
TypeOK == q \in Queues /\ current \in Nodes

(* The two link fields agree: m_next of x is y exactly when m_previous of  *)
(* y is x, the main tasklet is the head, and a tasklet has a predecessor   *)
(* exactly when m_scheduled says that it is queued.                        *)
LinksOK(qu) ==
  /\ \A x, y \in Nodes : qu.next[x] = y <=> qu.prev[y] = x
  /\ qu.prev[Main] = Null
  /\ qu.scheduled[Main]
  /\ \A t \in Tasklets : /\ qu.scheduled[t] <=> qu.prev[t] # Null
                         /\ ~qu.scheduled[t] => qu.next[t] = Null

LinksAgree == LinksOK(q)

(* ScheduleManager.cpp:541: m_previousTasklet is kept "at the end of the   *)
(* chain": it is the one node on the queue that has no successor.          *)
OnQueue(qu, n) == qu.scheduled[n]

TailOK(qu) ==
  /\ qu.tail # Null
  /\ \A n \in Nodes : n = qu.tail <=> OnQueue(qu, n) /\ qu.next[n] = Null

TailIsEnd == TailOK(q)

(* m_numberOfTaskletsInQueue counts the tasklets flagged as scheduled.     *)
ScheduledSet(qu) == {t \in Tasklets : qu.scheduled[t]}

CountOK(qu) == qu.count = Cardinality(ScheduledSet(qu))

CountIsScheduled == CountOK(q)

(* Control is never in a tasklet that the queue has lost: the executing    *)
(* tasklet is main or still linked, so what it wakes "to run next" is      *)
(* linked behind a node that Run will reach.                               *)
CurrentIsQueued == OnQueue(q, current)

(* GetCachedTaskletCount and GetCalculatedTaskletCount (getruncount and    *)
(* calculateruncount) agree: walking the chain from main reaches each      *)
(* queued tasklet once and nothing else.                                   *)
CountsAgree == GetCachedTaskletCount(q) = GetCalculatedTaskletCount(q)

(* The run queue is one well-formed list: its two link fields agree, its   *)
(* tail is its end, its cached length is the number of queued tasklets and *)
(* control is in a tasklet that is on it, after every sequence of inserts, *)
(* reschedules and removals of tasklets that do not execute                *)
(* (ScheduleManager.cpp:158-254, 541).  Tasklet::Remove has no such check: *)
(* with SelfRemove, remove() on the executing tasklet breaks the list      *)
(* (Tasklet.cpp:142-156).                                                  *)
QueueOK == LinksAgree /\ TailIsEnd /\ CountIsScheduled /\ CurrentIsQueued

=============================================================================
