---------------------------- MODULE QueueProofs ----------------------------
(***************************************************************************)
(* Machine-checked proofs about the two queues: the run queue of a         *)
(* scheduler (RunQueue, for every finite set of tasklets) and, in the last *)
(* part, the deque in front of a channel (QueueChannel, for any set of     *)
(* tasklets and any number of messages, on one thread and across threads). *)
(*                                                                         *)
(* A run queue is good when its fields have their types, its links agree,  *)
(* its tail is its end and its cached count is right.  Each member         *)
(* function takes good queues to good queues; that good queues are all     *)
(* there is then follows by induction over the steps of the callers,       *)
(* provided nobody removes the tasklet that is executing (SelfRemove is    *)
(* FALSE).                                                                 *)
(*                                                                         *)
(* With the deque, across threads only the messages are followed: one that *)
(* is on its way into the channel is in nobody else's hands and has not    *)
(* been taken before.  On one thread nobody else acts between the look and *)
(* the act, so what a tasklet saw is still so when it acts; in particular  *)
(* nobody ever waits in super().send().                                    *)
(***************************************************************************)
EXTENDS MCRunQueue, QueueChannel, SequenceTheorems, FiniteSetTheorems, WellFoundedInduction, TLAPS

(* The links lead strictly upwards in some ranking of the nodes, so that   *)
(* the chain has no cycle.  RemoveTasklet depends on it: it takes a        *)
(* tasklet with equal neighbours for one that is not queued, and on a      *)
(* cycle of two tasklets it would leave the tasklet where it is.           *)
Ranks(r, qu) ==
  /\ r \in [Nodes -> Int]
  /\ \A x \in Nodes : qu.next[x] # Null => r[x] < r[qu.next[x]]

Ranked(qu) == \E r : Ranks(r, qu)

GoodQueue(qu) ==
  /\ qu \in Queues
  /\ LinksOK(qu)
  /\ TailOK(qu)
  /\ CountOK(qu)
  /\ Ranked(qu)

(* The inductive invariant.                                                *)
IInv == /\ GoodQueue(q)
        /\ current \in Nodes
        /\ CurrentIsQueued

(* The main tasklet, the others and nullptr are different things.          *)
LEMMA NodeFacts ==
  /\ Main \in Nodes /\ Main \notin Tasklets
  /\ Null \notin Nodes /\ Tasklets \subseteq Nodes
  /\ Nodes \subseteq Pointers /\ Null \in Pointers
  /\ \A n \in Nodes : n = Main \/ n \in Tasklets
BY RunQueueAssumption DEF Nodes, Pointers

(* The scheduled tasklets are finitely many.                               *)
LEMMA ScheduledFinite ==
  ASSUME NEW qu PROVE IsFiniteSet(ScheduledSet(qu))
BY RunQueueAssumption, FS_Subset DEF ScheduledSet

(* The empty queue of the ScheduleManager constructor is good.             *)
LEMMA EmptyGood == GoodQueue(EmptyQueue)
<1>1. EmptyQueue \in Queues
  BY DEF EmptyQueue, Queues, Pointers, RescheduleTypes, Nodes
<1>2. LinksOK(EmptyQueue)
  BY RunQueueAssumption DEF EmptyQueue, LinksOK, Nodes
<1>3. TailOK(EmptyQueue)
  BY RunQueueAssumption DEF EmptyQueue, TailOK, OnQueue, Nodes
<1>4. CountOK(EmptyQueue)
  <2>1. ScheduledSet(EmptyQueue) = {}
    BY NodeFacts DEF ScheduledSet, EmptyQueue
  <2> QED BY <2>1, FS_EmptySet DEF CountOK, EmptyQueue
<1>5. Ranked(EmptyQueue)
  <2>1. Ranks([n \in Nodes |-> 0], EmptyQueue)
    BY DEF Ranks, EmptyQueue
  <2> QED BY <2>1 DEF Ranked
<1> QED BY <1>1, <1>2, <1>3, <1>4, <1>5 DEF GoodQueue

(* The reschedule flag is no part of the list.                             *)
LEMMA RescheduleGood ==
  ASSUME NEW qu, GoodQueue(qu), NEW t \in Nodes, NEW r \in RescheduleTypes
  PROVE  /\ GoodQueue(SetReschedule(qu, t, r))
         /\ SetReschedule(qu, t, r).scheduled = qu.scheduled
<1> DEFINE v == SetReschedule(qu, t, r)
<1>1. /\ v \in Queues
      /\ v.next = qu.next /\ v.prev = qu.prev /\ v.tail = qu.tail
      /\ v.count = qu.count /\ v.scheduled = qu.scheduled
  BY DEF GoodQueue, SetReschedule, Queues
<1> QED BY <1>1 DEF GoodQueue, LinksOK, TailOK, CountOK, OnQueue, ScheduledSet,
              Ranked, Ranks

(* Appending keeps a queue good, whether or not the tasklet was queued.    *)
LEMMA InsertGood ==
  ASSUME NEW qu, GoodQueue(qu), NEW t \in Tasklets
  PROVE  /\ GoodQueue(InsertTasklet(qu, t))
         /\ InsertTasklet(qu, t).scheduled = [qu.scheduled EXCEPT ![t] = TRUE]
         /\ qu.tail \in Nodes
<1> DEFINE v == InsertTasklet(qu, t)
<1>0. qu \in Queues /\ t \in Nodes /\ t # Main /\ t # Null
  BY NodeFacts DEF GoodQueue
<1>1. CASE qu.scheduled[t]
  <2>1. v = SetReschedule(qu, t, "BACK")
    BY <1>1 DEF InsertTasklet
  <2>2. GoodQueue(v) /\ v.scheduled = qu.scheduled
    BY <2>1, <1>0, RescheduleGood DEF RescheduleTypes
  <2>3. qu.scheduled = [qu.scheduled EXCEPT ![t] = TRUE]
    BY <1>0, <1>1 DEF Queues
  <2>4. qu.tail \in Nodes
    BY <1>0 DEF GoodQueue, TailOK, Queues, Pointers
  <2> QED BY <2>2, <2>3, <2>4
<1>2. CASE ~qu.scheduled[t]
  <2> DEFINE e == qu.tail
  <2>0. /\ e \in Nodes /\ OnQueue(qu, e) /\ e # t /\ qu.next[e] = Null
        /\ qu.next \in [Nodes -> Pointers] /\ qu.prev \in [Nodes -> Pointers]
        /\ qu.scheduled \in [Nodes -> BOOLEAN] /\ qu.count \in Int
        /\ qu.prev[t] = Null /\ qu.next[t] = Null
    BY <1>0, <1>2 DEF GoodQueue, TailOK, LinksOK, OnQueue, Queues, Pointers
  <2>1. /\ v.next = [[qu.next EXCEPT ![e] = t] EXCEPT ![t] = Null]
        /\ v.prev = [qu.prev EXCEPT ![t] = e]
        /\ v.tail = t
        /\ v.scheduled = [qu.scheduled EXCEPT ![t] = TRUE]
        /\ v.count = qu.count + 1
        /\ v \in Queues
    BY <1>0, <1>2 DEF InsertTasklet, Queues, Pointers
  <2> HIDE DEF v
  <2>2. LinksOK(v)
    <3>1. \A x \in Nodes : /\ v.next[x] = IF x = t THEN Null
                                          ELSE IF x = e THEN t ELSE qu.next[x]
                           /\ v.prev[x] = IF x = t THEN e ELSE qu.prev[x]
                           /\ v.scheduled[x] <=> (x = t \/ qu.scheduled[x])
      BY <2>0, <2>1, <1>0
    <3>2. LinksOK(qu)
      BY DEF GoodQueue
    <3>3. \A x, y \in Nodes : v.next[x] = y <=> v.prev[y] = x
      BY <3>1, <3>2, <2>0, <1>0, NodeFacts DEF LinksOK
    <3>4. v.prev[Main] = Null /\ v.scheduled[Main]
      BY <3>1, <3>2, <1>0, NodeFacts DEF LinksOK
    <3>5. ASSUME NEW u \in Tasklets
          PROVE  /\ v.scheduled[u] <=> v.prev[u] # Null
                 /\ ~v.scheduled[u] => v.next[u] = Null
      BY <3>1, <3>2, <2>0, <1>0, NodeFacts DEF LinksOK, OnQueue
    <3> QED
      BY <3>3, <3>4, <3>5 DEF LinksOK
  <2>3. TailOK(v)
    BY <2>0, <2>1, <1>0 DEF GoodQueue, TailOK, OnQueue, Nodes
  <2>4. CountOK(v)
    <3>1. ScheduledSet(v) = ScheduledSet(qu) \cup {t} /\ t \notin ScheduledSet(qu)
      BY <2>0, <2>1, <1>2 DEF ScheduledSet, Nodes
    <3>2. Cardinality(ScheduledSet(v)) = Cardinality(ScheduledSet(qu)) + 1
      BY <3>1, ScheduledFinite, FS_AddElement
    <3> QED BY <3>2, <2>1 DEF GoodQueue, CountOK
  <2>5. Ranked(v)
    <3>1. PICK r : Ranks(r, qu)
      BY DEF GoodQueue, Ranked
    <3> DEFINE r2 == [r EXCEPT ![t] = r[e] + 1]
    <3>2. Ranks(r2, v)
      BY <3>1, <2>0, <2>1, <1>0, NodeFacts DEF Ranks, GoodQueue, LinksOK, Pointers
    <3> QED BY <3>2 DEF Ranked
  <2> QED BY <2>0, <2>1, <2>2, <2>3, <2>4, <2>5 DEF GoodQueue, v
<1> QED BY <1>1, <1>2

(* Linking behind a node that is on the queue keeps the queue good.        *)
LEMMA RunNextGood ==
  ASSUME NEW qu, GoodQueue(qu), NEW t \in Tasklets,
         NEW c \in Nodes, OnQueue(qu, c)
  PROVE  /\ GoodQueue(InsertTaskletToRunNext(qu, t, c))
         /\ InsertTaskletToRunNext(qu, t, c).scheduled
              = [qu.scheduled EXCEPT ![t] = TRUE]
<1> DEFINE v == InsertTaskletToRunNext(qu, t, c)
<1>0. qu \in Queues /\ t \in Nodes /\ t # Main /\ t # Null
  BY NodeFacts DEF GoodQueue
<1>1. CASE qu.scheduled[t]
  <2>1. v = SetReschedule(qu, t, "BACK")
    BY <1>1 DEF InsertTaskletToRunNext
  <2>2. GoodQueue(v) /\ v.scheduled = qu.scheduled
    BY <2>1, <1>0, RescheduleGood DEF RescheduleTypes
  <2>3. qu.scheduled = [qu.scheduled EXCEPT ![t] = TRUE]
    BY <1>0, <1>1 DEF Queues
  <2> QED BY <2>2, <2>3
<1>2. CASE ~qu.scheduled[t]
  <2> DEFINE s == qu.next[c]
             e == IF c = qu.tail THEN t ELSE qu.tail
  <2>0. /\ c # t /\ s \in Pointers /\ e \in Nodes
        /\ qu.next \in [Nodes -> Pointers] /\ qu.prev \in [Nodes -> Pointers]
        /\ qu.scheduled \in [Nodes -> BOOLEAN] /\ qu.count \in Int
        /\ qu.prev[t] = Null /\ qu.next[t] = Null
        /\ qu.tail \in Nodes
    BY <1>0, <1>2 DEF GoodQueue, TailOK, LinksOK, OnQueue, Queues, Pointers
  <2>1. /\ v.next = [[qu.next EXCEPT ![t] = s] EXCEPT ![c] = t]
        /\ v.prev = [n \in Nodes |-> IF n = t THEN c
                                     ELSE IF n = s THEN t ELSE qu.prev[n]]
        /\ v.tail = e
        /\ v.scheduled = [qu.scheduled EXCEPT ![t] = TRUE]
        /\ v.count = qu.count + 1
    BY <1>2 DEF InsertTaskletToRunNext, LinkBehind
  <2>2. v \in Queues
    BY <1>0, <1>2, <2>0 DEF InsertTaskletToRunNext, LinkBehind, Queues, Pointers
  <2> HIDE DEF v
  <2>3. \A x \in Nodes : /\ v.next[x] = IF x = c THEN t
                                        ELSE IF x = t THEN s ELSE qu.next[x]
                         /\ v.prev[x] = IF x = t THEN c
                                        ELSE IF x = s THEN t ELSE qu.prev[x]
                         /\ v.scheduled[x] <=> (x = t \/ qu.scheduled[x])
    BY <2>0, <2>1, <1>0
  <2>4. LinksOK(v)
    <3>1. LinksOK(qu)
      BY DEF GoodQueue
    <3>2. \A x, y \in Nodes : v.next[x] = y <=> v.prev[y] = x
      BY <3>1, <2>3, <2>0, <1>0, NodeFacts DEF LinksOK
    <3>3. v.prev[Main] = Null /\ v.scheduled[Main]
      BY <3>1, <2>3, <1>0, NodeFacts DEF LinksOK
    <3>4. ASSUME NEW u \in Tasklets
          PROVE  /\ v.scheduled[u] <=> v.prev[u] # Null
                 /\ ~v.scheduled[u] => v.next[u] = Null
      BY <3>1, <2>3, <2>0, <1>0, NodeFacts DEF LinksOK, OnQueue
    <3> QED
      BY <3>2, <3>3, <3>4 DEF LinksOK
  <2>5. TailOK(v)
    <3>1. TailOK(qu)
      BY DEF GoodQueue
    <3> QED BY <3>1, <2>3, <2>0, <2>1, <1>0, <1>2, NodeFacts DEF TailOK, OnQueue
  <2>6. CountOK(v)
    <3>1. ScheduledSet(v) = ScheduledSet(qu) \cup {t} /\ t \notin ScheduledSet(qu)
      BY <2>3, <1>2, NodeFacts DEF ScheduledSet
    <3>2. Cardinality(ScheduledSet(v)) = Cardinality(ScheduledSet(qu)) + 1
      BY <3>1, ScheduledFinite, FS_AddElement
    <3> QED BY <3>2, <2>1 DEF GoodQueue, CountOK
  <2>7. Ranked(v)
    <3>1. PICK r : Ranks(r, qu)
      BY DEF GoodQueue, Ranked
    <3> DEFINE r2 == [n \in Nodes |-> IF n = t THEN r[c] + 1
                                      ELSE IF r[n] <= r[c] THEN r[n]
                                      ELSE r[n] + 1]
    <3>2. ASSUME NEW x \in Nodes, v.next[x] # Null
          PROVE  r2[x] < r2[v.next[x]]
      BY <3>1, <3>2, <2>3, <2>0, <1>0, NodeFacts DEF Ranks, GoodQueue, LinksOK, Pointers
    <3>3. r2 \in [Nodes -> Int]
      BY <3>1 DEF Ranks
    <3> HIDE DEF r2
    <3> QED BY <3>2, <3>3 DEF Ranked, Ranks
  <2> QED BY <2>1, <2>2, <2>4, <2>5, <2>6, <2>7 DEF GoodQueue, v
<1> QED BY <1>1, <1>2

(* Unlinking keeps a queue good, and the tasklet is off it afterwards.     *)
LEMMA RemoveGood ==
  ASSUME NEW qu, GoodQueue(qu), NEW t \in Tasklets
  PROVE  /\ GoodQueue(RemoveTasklet(qu, t))
         /\ RemoveTasklet(qu, t).scheduled = [qu.scheduled EXCEPT ![t] = FALSE]
         /\ RemoveTasklet(qu, t).resched = qu.resched
<1> DEFINE v == RemoveTasklet(qu, t)
           p == qu.prev[t]
           s == qu.next[t]
<1>0. /\ qu \in Queues /\ t \in Nodes /\ t # Main /\ t # Null
      /\ qu.next \in [Nodes -> Pointers] /\ qu.prev \in [Nodes -> Pointers]
      /\ qu.scheduled \in [Nodes -> BOOLEAN] /\ qu.count \in Int
      /\ p \in Pointers /\ s \in Pointers /\ qu.tail \in Nodes
      /\ LinksOK(qu) /\ TailOK(qu) /\ CountOK(qu)
  BY NodeFacts DEF GoodQueue, Queues, TailOK, Pointers
<1>1. PICK r : Ranks(r, qu)
  BY DEF GoodQueue, Ranked
<1>2. CASE p = s
  <2>1. p = Null
    BY <1>0, <1>1, <1>2, NodeFacts DEF Ranks, LinksOK, Pointers
  <2>2. ~qu.scheduled[t]
    BY <2>1, <1>0 DEF LinksOK
  <2>3. v = qu
    BY <1>2 DEF RemoveTasklet
  <2> QED BY <2>2, <2>3, <1>0
<1>3. CASE p # s
  <2>1. /\ v.next = [n \in Nodes |-> IF n = t THEN Null
                                     ELSE IF n = p THEN s ELSE qu.next[n]]
        /\ v.prev = [n \in Nodes |-> IF n = t THEN Null
                                     ELSE IF n = s THEN p ELSE qu.prev[n]]
        /\ v.tail = IF s = Null THEN p ELSE qu.tail
        /\ v.scheduled = [qu.scheduled EXCEPT ![t] = FALSE]
        /\ v.count = qu.count - 1
        /\ v.resched = qu.resched
    BY <1>3 DEF RemoveTasklet
  <2>2. v \in Queues
    BY <1>0, <1>3 DEF RemoveTasklet, Queues, Pointers
  <2> HIDE DEF v
  <2>3. /\ p \in Nodes /\ p # t /\ s # t
        /\ OnQueue(qu, p) /\ qu.scheduled[t]
    BY <1>0, <1>1, <1>3, NodeFacts DEF Ranks, LinksOK, OnQueue, Pointers
  <2>4. \A x \in Nodes : /\ v.next[x] = IF x = t THEN Null
                                        ELSE IF x = p THEN s ELSE qu.next[x]
                         /\ v.prev[x] = IF x = t THEN Null
                                        ELSE IF x = s THEN p ELSE qu.prev[x]
                         /\ v.scheduled[x] <=> (x # t /\ qu.scheduled[x])
    BY <2>1, <1>0
  <2>5. LinksOK(v)
    <3>1. \A x, y \in Nodes : v.next[x] = y <=> v.prev[y] = x
      BY <2>3, <2>4, <1>0, NodeFacts DEF LinksOK
    <3>2. v.prev[Main] = Null /\ v.scheduled[Main]
      BY <2>3, <2>4, <1>0, NodeFacts DEF LinksOK
    <3>3. ASSUME NEW u \in Tasklets
          PROVE  /\ v.scheduled[u] <=> v.prev[u] # Null
                 /\ ~v.scheduled[u] => v.next[u] = Null
      BY <2>3, <2>4, <1>0, NodeFacts DEF LinksOK, OnQueue
    <3> QED BY <3>1, <3>2, <3>3 DEF LinksOK
  <2>6. TailOK(v)
    BY <2>1, <2>3, <2>4, <1>0, NodeFacts DEF TailOK, OnQueue, LinksOK, Pointers
  <2>7. CountOK(v)
    <3>1. ScheduledSet(v) = ScheduledSet(qu) \ {t} /\ t \in ScheduledSet(qu)
      BY <2>3, <2>4, NodeFacts DEF ScheduledSet
    <3>2. Cardinality(ScheduledSet(v)) = Cardinality(ScheduledSet(qu)) - 1
      BY <3>1, ScheduledFinite, FS_RemoveElement
    <3> QED BY <3>2, <2>1, <1>0 DEF CountOK
  <2>8. Ranked(v)
    <3>1. ASSUME NEW x \in Nodes, v.next[x] # Null
          PROVE  r[x] < r[v.next[x]]
      <4>1. CASE x = p
        <5>1. s \in Nodes /\ r[t] < r[s]
          BY <4>1, <3>1, <2>4, <2>3, <1>1, <1>0 DEF Ranks, Pointers
        <5>2. r[p] < r[t]
          BY <2>3, <1>1, <1>0, NodeFacts DEF Ranks, LinksOK
        <5> QED BY <5>1, <5>2, <4>1, <2>4, <2>3, <1>1, <1>0 DEF Ranks
      <4>2. CASE x # p
        BY <4>2, <3>1, <2>4, <1>1 DEF Ranks
      <4> QED BY <4>1, <4>2
    <3> QED BY <3>1, <1>1 DEF Ranked, Ranks
  <2> QED BY <2>1, <2>2, <2>5, <2>6, <2>7, <2>8 DEF GoodQueue, v
<1> QED BY <1>2, <1>3

(* On a good queue the pull-back of m_previousTasklet and the repeated     *)
(* clearing of m_scheduled in Run add nothing to RemoveTasklet.            *)
LEMMA UnqueueGood ==
  ASSUME NEW qu, GoodQueue(qu), NEW t \in Tasklets, qu.scheduled[t]
  PROVE  /\ GoodQueue(Unqueue(qu, t))
         /\ Unqueue(qu, t).scheduled = [qu.scheduled EXCEPT ![t] = FALSE]
         /\ Unqueue(qu, t).resched = qu.resched
<1> DEFINE w == PullBackTail(qu, t)
           v == RemoveTasklet(qu, t)
           u == Unqueue(qu, t)
<1>0. qu \in Queues /\ t \in Nodes /\ LinksOK(qu)
  BY NodeFacts DEF GoodQueue
<1>1. RemoveTasklet(w, t) = v
  <2>1. CASE qu.next[t] = Null
    <3>1. /\ w.next = qu.next /\ w.prev = qu.prev /\ w.scheduled = qu.scheduled
          /\ w.count = qu.count /\ w.resched = qu.resched
      BY <1>0, <2>1 DEF PullBackTail, Queues
    <3>2. qu.prev[t] # qu.next[t]
      BY <1>0, <2>1 DEF LinksOK
    <3> HIDE DEF w
    <3> QED BY <3>1, <3>2, <2>1 DEF RemoveTasklet
  <2>2. CASE qu.next[t] # Null
    BY <2>2 DEF PullBackTail
  <2> QED BY <2>1, <2>2
<1>2. /\ GoodQueue(v) /\ v.scheduled = [qu.scheduled EXCEPT ![t] = FALSE]
      /\ v.resched = qu.resched
  BY RemoveGood
<1>3. v \in Queues /\ v.scheduled[t] = FALSE
  BY <1>0, <1>2 DEF GoodQueue, Queues
<1>4. u = [v EXCEPT !.scheduled[t] = FALSE]
  BY <1>1 DEF Unqueue
<1> HIDE DEF u, v
<1>5. /\ u \in Queues /\ u.next = v.next /\ u.prev = v.prev /\ u.tail = v.tail
      /\ u.count = v.count /\ u.resched = v.resched
      /\ u.scheduled = v.scheduled
  <2>1. /\ u \in Queues /\ u.next = v.next /\ u.prev = v.prev /\ u.tail = v.tail
        /\ u.count = v.count /\ u.resched = v.resched
        /\ u.scheduled = [v.scheduled EXCEPT ![t] = FALSE]
    BY <1>3, <1>4, <1>0 DEF Queues
  <2>2. v.scheduled \in [Nodes -> BOOLEAN]
    BY <1>3 DEF Queues
  <2>3. [v.scheduled EXCEPT ![t] = FALSE] = v.scheduled
    BY <2>2, <1>3, <1>0
  <2> QED BY <2>1, <2>3
<1>6. GoodQueue(u)
  <2>1. LinksOK(u) /\ TailOK(u)
    BY <1>2, <1>5 DEF GoodQueue, LinksOK, TailOK, OnQueue
  <2>2. CountOK(u)
    BY <1>2, <1>5 DEF GoodQueue, CountOK, ScheduledSet
  <2>3. Ranked(u)
    BY <1>2, <1>5 DEF GoodQueue, Ranked, Ranks
  <2> QED BY <2>1, <2>2, <2>3, <1>5 DEF GoodQueue
<1> QED BY <1>2, <1>5, <1>6 DEF u

(* The FRONT_PLUS_ONE dance: two unlinked tasklets are linked behind p.    *)
LEMMA AfterFrontGood ==
  ASSUME NEW qu, GoodQueue(qu), NEW t \in Tasklets, ~qu.scheduled[t],
         NEW p \in Nodes, OnQueue(qu, p), qu.next[p] # Null
  PROVE  /\ GoodQueue(InsertAfterFront(qu, t, p))
         /\ OnQueue(InsertAfterFront(qu, t, p), p)
<1> DEFINE f  == qu.next[p]
           v1 == RemoveTasklet(qu, f)
           v2 == InsertTaskletToRunNext(v1, t, p)
           v3 == InsertTaskletToRunNext(v2, f, p)
<1>0. qu \in Queues /\ LinksOK(qu)
  BY DEF GoodQueue
<1>1. f \in Tasklets /\ f # p
  <2>1. f \in Nodes
    BY <1>0 DEF Queues, Pointers
  <2>2. qu.prev[f] = p
    BY <2>1, <1>0 DEF LinksOK
  <2>3. f # Main
    BY <2>2, <1>0, NodeFacts DEF LinksOK
  <2>4. PICK r : Ranks(r, qu)
    BY DEF GoodQueue, Ranked
  <2>5. f # p
    BY <2>4, <2>1 DEF Ranks
  <2> QED BY <2>1, <2>3, <2>5, NodeFacts
<1>2. GoodQueue(v1) /\ v1.scheduled = [qu.scheduled EXCEPT ![f] = FALSE]
  BY <1>1, RemoveGood
<1>3. OnQueue(v1, p)
  BY <1>1, <1>2, <1>0 DEF OnQueue, Queues
<1>4. GoodQueue(v2) /\ v2.scheduled = [v1.scheduled EXCEPT ![t] = TRUE]
  BY <1>2, <1>3, RunNextGood
<1>5. OnQueue(v2, p)
  <2>1. v1.scheduled \in [Nodes -> BOOLEAN]
    BY <1>2 DEF GoodQueue, Queues
  <2> HIDE DEF v1, v2
  <2> QED BY <2>1, <1>3, <1>4, NodeFacts DEF OnQueue
<1>6. GoodQueue(v3) /\ v3.scheduled = [v2.scheduled EXCEPT ![f] = TRUE]
  BY <1>1, <1>4, <1>5, RunNextGood
<1>7. OnQueue(v3, p)
  <2>1. v2.scheduled \in [Nodes -> BOOLEAN]
    BY <1>4 DEF GoodQueue, Queues
  <2> HIDE DEF v2, v3
  <2> QED BY <2>1, <1>5, <1>6, NodeFacts DEF OnQueue
<1> QED BY <1>6, <1>7 DEF InsertAfterFront

(* Putting the tasklet that came back on the queue again, where it asked.  *)
LEMMA RequeueGood ==
  ASSUME NEW qu, GoodQueue(qu), NEW t \in Tasklets, ~qu.scheduled[t],
         NEW p \in Nodes, p # t, OnQueue(qu, p),
         qu.resched[t] = "FRONT_PLUS_ONE" => qu.next[p] # Null
  PROVE  /\ GoodQueue(Requeue(qu, t, p))
         /\ OnQueue(Requeue(qu, t, p), p)
<1> DEFINE m == CASE qu.resched[t] = "BACK"           -> InsertTasklet(qu, t)
                  [] qu.resched[t] = "FRONT_PLUS_ONE" -> InsertAfterFront(qu, t, p)
                  [] OTHER                            -> qu
<1>0. t \in Nodes /\ "NONE" \in RescheduleTypes
  BY NodeFacts DEF RescheduleTypes
<1>1. GoodQueue(m) /\ OnQueue(m, p)
  <2>1. CASE qu.resched[t] = "BACK"
    <3>1. m = InsertTasklet(qu, t)
      BY <2>1
    <3>2. /\ GoodQueue(InsertTasklet(qu, t))
          /\ InsertTasklet(qu, t).scheduled = [qu.scheduled EXCEPT ![t] = TRUE]
      BY InsertGood
    <3>3. qu.scheduled \in [Nodes -> BOOLEAN]
      BY DEF GoodQueue, Queues
    <3> QED BY <3>1, <3>2, <3>3 DEF OnQueue
  <2>2. CASE qu.resched[t] = "FRONT_PLUS_ONE"
    <3>1. m = InsertAfterFront(qu, t, p)
      BY <2>2
    <3> QED BY <3>1, <2>2, AfterFrontGood
  <2>3. CASE qu.resched[t] \notin {"BACK", "FRONT_PLUS_ONE"}
    <3>1. m = qu
      BY <2>3
    <3> QED BY <3>1
  <2> QED BY <2>1, <2>2, <2>3
<1>2. Requeue(qu, t, p) = SetReschedule(m, t, "NONE")
  BY DEF Requeue
<1> HIDE DEF m
<1>3. /\ GoodQueue(SetReschedule(m, t, "NONE"))
      /\ SetReschedule(m, t, "NONE").scheduled = m.scheduled
  BY <1>0, <1>1, RescheduleGood
<1> QED BY <1>1, <1>2, <1>3 DEF OnQueue

-----------------------------------------------------------------------------
(* The invariant holds of the queue a ScheduleManager starts with.         *)
LEMMA InitIInv == Init => IInv
<1>1. EmptyQueue.scheduled[Main]
  BY NodeFacts DEF EmptyQueue
<1> QED BY <1>1, EmptyGood, NodeFacts DEF Init, IInv, CurrentIsQueued, OnQueue

(* Every call keeps the invariant, as long as nobody removes the tasklet   *)
(* that is executing.                                                      *)
LEMMA NextIInv == ~SelfRemove /\ IInv /\ [Next]_vars => IInv'
<1> SUFFICES ASSUME ~SelfRemove, IInv, [Next]_vars PROVE IInv'
  OBVIOUS
<1>0. /\ GoodQueue(q) /\ current \in Nodes /\ OnQueue(q, current)
      /\ q.scheduled \in [Nodes -> BOOLEAN]
  BY DEF IInv, CurrentIsQueued, GoodQueue, Queues
<1>1. ASSUME NEW t \in Tasklets, Insert(t) PROVE IInv'
  <2>1. /\ GoodQueue(q')
        /\ q'.scheduled = [q.scheduled EXCEPT ![t] = TRUE]
    BY <1>0, <1>1, InsertGood DEF Insert
  <2> QED BY <2>1, <1>0, <1>1, NodeFacts DEF Insert, IInv, CurrentIsQueued, OnQueue
<1>2. ASSUME NEW t \in Tasklets, RunNext(t) PROVE IInv'
  <2>1. /\ GoodQueue(q')
        /\ q'.scheduled = [q.scheduled EXCEPT ![t] = TRUE]
    BY <1>0, <1>2, RunNextGood DEF RunNext
  <2> QED BY <2>1, <1>0, <1>2, NodeFacts DEF RunNext, IInv, CurrentIsQueued, OnQueue
<1>3. ASSUME NEW t \in Tasklets, TakeOff(t) PROVE IInv'
  <2>1. /\ GoodQueue(q')
        /\ q'.scheduled = [q.scheduled EXCEPT ![t] = FALSE]
        /\ t # current
    BY <1>0, <1>3, RemoveGood DEF TakeOff
  <2> QED BY <2>1, <1>0, <1>3 DEF TakeOff, IInv, CurrentIsQueued, OnQueue
<1>4. ASSUME NEW r \in RescheduleTypes, Schedule(r) PROVE IInv'
  <2>1. GoodQueue(q') /\ q'.scheduled = q.scheduled
    BY <1>0, <1>4, RescheduleGood DEF Schedule
  <2> QED BY <2>1, <1>0, <1>4 DEF Schedule, IInv, CurrentIsQueued, OnQueue
<1>5. ASSUME NEW t \in Tasklets, Resume(t) PROVE IInv'
  BY <1>0, <1>5, NodeFacts DEF Resume, IInv, CurrentIsQueued, OnQueue
<1>6. ASSUME NEW p \in Nodes, Return(p) PROVE IInv'
  <2> DEFINE u == Unqueue(q, current)
  <2>1. current \in Tasklets /\ q.scheduled[current]
    BY <1>0, <1>6, NodeFacts DEF Return, OnQueue
  <2>2. /\ GoodQueue(u)
        /\ u.scheduled = [q.scheduled EXCEPT ![current] = FALSE]
    BY <2>1, <1>0, UnqueueGood
  <2>3. p # current /\ OnQueue(u, p) /\ ~u.scheduled[current]
    BY <2>1, <2>2, <1>0, <1>6, NodeFacts DEF Return, OnQueue
  <2>4. u.resched[current] = "FRONT_PLUS_ONE" => u.next[p] # Null
    BY <1>6 DEF Return
  <2>5. q' = Requeue(u, current, p) /\ current' = p
    BY <1>6 DEF Return
  <2> HIDE DEF u
  <2>6. GoodQueue(Requeue(u, current, p)) /\ OnQueue(Requeue(u, current, p), p)
    BY <2>1, <2>2, <2>3, <2>4, RequeueGood
  <2> QED BY <2>5, <2>6 DEF IInv, CurrentIsQueued
<1>7. CASE UNCHANGED vars
  BY <1>7, <1>0 DEF vars, IInv, CurrentIsQueued
<1> QED BY <1>1, <1>2, <1>3, <1>4, <1>5, <1>6, <1>7 DEF Next

(* TypeOK for every set of tasklets: links stay inside the tasklets, and   *)
(* m_previousTasklet is never left dangling.                               *)
THEOREM QueueTypeCorrect ==
  ASSUME ~SelfRemove PROVE Spec => []TypeOK
<1>1. IInv => TypeOK
  BY DEF IInv, TypeOK, GoodQueue
<1>2. IInv /\ [Next]_vars => IInv'
  BY NextIInv
<1> QED BY <1>1, <1>2, InitIInv, PTL DEF Spec

(* QueueOK for every set of tasklets: the doubly linked run queue of       *)
(* ScheduleManager.cpp is a well-formed list with a correct tail and a     *)
(* correct cached length, after every sequence of insert, insert-to-run-   *)
(* next, remove, schedule and run steps in which nobody removes the        *)
(* tasklet that is executing.                                              *)
THEOREM QueueWellFormed ==
  ASSUME ~SelfRemove
  PROVE  Spec => []QueueOK
<1>1. IInv => QueueOK
  BY DEF IInv, GoodQueue, QueueOK, LinksAgree, TailIsEnd, CountIsScheduled
<1>2. IInv /\ [Next]_vars => IInv'
  BY NextIInv
<1> QED BY <1>1, <1>2, InitIInv, PTL DEF Spec

-----------------------------------------------------------------------------
(* The chain as a sequence.  Node(s, i) is the node at place i of the      *)
(* chain that starts at main and goes on through s; s lists a queue when   *)
(* m_next leads from each place to the next and the queued tasklets are    *)
(* those of s.                                                             *)
Node(s, i) == IF i = 0 THEN Main ELSE IF i \in 1..Len(s) THEN s[i] ELSE Null

Lists(s, qu) ==
  /\ s \in Seq(Tasklets)
  /\ \A i, j \in 1..Len(s) : s[i] = s[j] => i = j
  /\ \A t \in Tasklets : qu.scheduled[t] <=> \E i \in 1..Len(s) : s[i] = t
  /\ \A i \in 0..Len(s) : qu.next[Node(s, i)] = Node(s, i + 1)

(* What InsertAt and RemoveAt give, place by place.                        *)
Back(i, k) == IF i <= k THEN i ELSE i - 1
Past(i, k) == IF i < k THEN i ELSE i + 1

IsIns(s, k, t, r) ==
  /\ r \in Seq(Tasklets) /\ Len(r) = Len(s) + 1
  /\ \A i \in 1..Len(r) : r[i] = IF i = k + 1 THEN t ELSE s[Back(i, k)]

IsDel(s, k, r) ==
  /\ r \in Seq(Tasklets) /\ Len(r) = Len(s) - 1
  /\ \A i \in 1..Len(r) : r[i] = s[Past(i, k)]

LEMMA SeqFacts ==
  ASSUME NEW s \in Seq(Tasklets)
  PROVE  /\ Len(s) \in Nat /\ DOMAIN s = 1..Len(s)
         /\ \A i \in 1..Len(s) : s[i] \in Tasklets
BY LenProperties, ElementOfSeq

LEMMA InsertAtIs ==
  ASSUME NEW s \in Seq(Tasklets), NEW k \in 0..Len(s), NEW t \in Tasklets
  PROVE  IsIns(s, k, t, Abstract!InsertAt(s, k + 1, t))
<1>1. PICK m \in Nat : m = Len(s) BY SeqFacts
<1>2. PICK u : u = SubSeq(s, 1, k) OBVIOUS
<1>3. PICK v : v = SubSeq(s, k + 1, m) OBVIOUS
<1>4. \A i \in 1..m : s[i] \in Tasklets BY <1>1, SeqFacts
<1>5. u \in Seq(Tasklets) /\ Len(u) = k /\ \A i \in 1..k : u[i] = s[i]
  BY <1>1, <1>2, <1>4, SubSeqProperties
<1>6. /\ v \in Seq(Tasklets) /\ Len(v) = m - k
      /\ \A i \in 1..(m - k) : v[i] = s[k + i]
  BY <1>1, <1>3, <1>4, SubSeqProperties
<1>7. PICK w : w = Append(u, t) OBVIOUS
<1>8. /\ w \in Seq(Tasklets) /\ Len(w) = k + 1
      /\ \A i \in 1..k : w[i] = u[i]
      /\ w[k + 1] = t
  BY <1>5, <1>7, AppendProperties
<1>9. <<t>> \in Seq(Tasklets) /\ u \o <<t>> = w BY <1>5, <1>7, AppendIsConcat
<1>10. PICK r : r = Abstract!InsertAt(s, k + 1, t) OBVIOUS
<1>11. r = w \o v
  <2>1. (k + 1) - 1 = k BY <1>1
  <2> QED BY <1>1, <1>2, <1>3, <1>9, <1>10, <2>1 DEF Abstract!InsertAt
<1>12. /\ r \in Seq(Tasklets) /\ Len(r) = m + 1
       /\ \A i \in 1..(m + 1) : r[i] = IF i <= k + 1 THEN w[i] ELSE v[i - (k + 1)]
  <2>1. /\ r \in Seq(Tasklets) /\ Len(r) = Len(w) + Len(v)
        /\ \A i \in 1..(Len(w) + Len(v)) : r[i] = IF i <= Len(w) THEN w[i] ELSE v[i - Len(w)]
    BY <1>6, <1>8, <1>11, ConcatProperties
  <2>2. Len(w) + Len(v) = m + 1 BY <1>1, <1>6, <1>8
  <2> QED BY <1>8, <2>1, <2>2
<1>13. ASSUME NEW i \in 1..(m + 1)
       PROVE  r[i] = IF i = k + 1 THEN t ELSE s[Back(i, k)]
  <2>1. CASE i <= k BY <1>1, <1>5, <1>8, <1>12, <2>1 DEF Back
  <2>2. CASE i = k + 1 BY <1>1, <1>8, <1>12, <2>2
  <2>3. CASE i > k + 1
    <3>1. i - (k + 1) \in 1..(m - k) /\ k + (i - (k + 1)) = i - 1 BY <1>1, <2>3
    <3>2. r[i] = v[i - (k + 1)] BY <1>1, <1>12, <2>3
    <3>3. v[i - (k + 1)] = s[i - 1] BY <1>6, <3>1
    <3> QED BY <1>1, <2>3, <3>2, <3>3 DEF Back
  <2> QED BY <1>1, <2>1, <2>2, <2>3
<1> QED BY <1>1, <1>10, <1>12, <1>13 DEF IsIns

LEMMA AppendIs ==
  ASSUME NEW s \in Seq(Tasklets), NEW t \in Tasklets
  PROVE  IsIns(s, Len(s), t, Append(s, t))
<1>1. PICK m \in Nat : m = Len(s) BY SeqFacts
<1>2. PICK r : r = Append(s, t) OBVIOUS
<1>3. r \in Seq(Tasklets) /\ Len(r) = m + 1 /\ r[m + 1] = t /\ \A i \in 1..m : r[i] = s[i]
  BY <1>1, <1>2, AppendProperties
<1>4. ASSUME NEW i \in 1..(m + 1) PROVE r[i] = IF i = m + 1 THEN t ELSE s[Back(i, m)]
  <2>1. CASE i = m + 1 BY <1>3, <2>1
  <2>2. CASE i # m + 1
    <3>1. i \in 1..m /\ i <= m BY <1>1, <2>2
    <3> QED BY <1>3, <2>2, <3>1 DEF Back
  <2> QED BY <2>1, <2>2
<1> QED BY <1>1, <1>2, <1>3, <1>4 DEF IsIns

LEMMA RemoveAtIs ==
  ASSUME NEW s \in Seq(Tasklets), NEW k \in 1..Len(s)
  PROVE  IsDel(s, k, Abstract!RemoveAt(s, k))
<1>1. PICK m \in Nat : m = Len(s) BY SeqFacts
<1>2. PICK u : u = SubSeq(s, 1, k - 1) OBVIOUS
<1>3. PICK v : v = SubSeq(s, k + 1, m) OBVIOUS
<1>4. \A i \in 1..m : s[i] \in Tasklets BY <1>1, SeqFacts
<1>5. u \in Seq(Tasklets) /\ Len(u) = k - 1 /\ \A i \in 1..(k - 1) : u[i] = s[i]
  BY <1>1, <1>2, <1>4, SubSeqProperties
<1>6. /\ v \in Seq(Tasklets) /\ Len(v) = m - k
      /\ \A i \in 1..(m - k) : v[i] = s[k + i]
  BY <1>1, <1>3, <1>4, SubSeqProperties
<1>7. PICK r : r = Abstract!RemoveAt(s, k) OBVIOUS
<1>8. r = u \o v BY <1>1, <1>2, <1>3, <1>7 DEF Abstract!RemoveAt
<1>9. /\ r \in Seq(Tasklets) /\ Len(r) = m - 1
      /\ \A i \in 1..(m - 1) : r[i] = IF i <= k - 1 THEN u[i] ELSE v[i - (k - 1)]
  <2>1. /\ r \in Seq(Tasklets) /\ Len(r) = Len(u) + Len(v)
        /\ \A i \in 1..(Len(u) + Len(v)) : r[i] = IF i <= Len(u) THEN u[i] ELSE v[i - Len(u)]
    BY <1>5, <1>6, <1>8, ConcatProperties
  <2>2. Len(u) + Len(v) = m - 1 BY <1>1, <1>5, <1>6
  <2> QED BY <1>5, <2>1, <2>2
<1>10. ASSUME NEW i \in 1..(m - 1) PROVE r[i] = s[Past(i, k)]
  <2>1. CASE i < k BY <1>1, <1>5, <1>9, <2>1 DEF Past
  <2>2. CASE i >= k
    <3>1. i - (k - 1) \in 1..(m - k) /\ k + (i - (k - 1)) = i + 1 BY <1>1, <2>2
    <3>2. r[i] = v[i - (k - 1)] BY <1>1, <1>9, <2>2
    <3>3. v[i - (k - 1)] = s[i + 1] BY <1>6, <3>1
    <3> QED BY <2>2, <3>2, <3>3 DEF Past
  <2> QED BY <1>1, <2>1, <2>2
<1> QED BY <1>1, <1>7, <1>9, <1>10 DEF IsDel

(* No node stands at two places.                                           *)
LEMMA NodeIs ==
  ASSUME NEW s, NEW qu, Lists(s, qu)
  PROVE  /\ \A i \in 0..Len(s) : Node(s, i) \in Nodes /\ Node(s, i) # Null
         /\ \A i \in 1..Len(s) : Node(s, i) \in Tasklets /\ Node(s, i) = s[i]
         /\ Node(s, 0) = Main /\ Node(s, Len(s) + 1) = Null
         /\ \A i, j \in 0..Len(s) : Node(s, i) = Node(s, j) => i = j
<1>1. PICK m \in Nat : m = Len(s) /\ \A i \in 1..m : s[i] \in Tasklets BY SeqFacts DEF Lists
<1>2. /\ Node(s, 0) = Main /\ Node(s, m + 1) = Null
      /\ \A i \in 1..m : Node(s, i) = s[i] /\ Node(s, i) \in Tasklets
  BY <1>1 DEF Node
<1>3. \A i \in 0..m : i = 0 \/ i \in 1..m BY <1>1
<1>4. \A i \in 0..m : Node(s, i) \in Nodes /\ Node(s, i) # Null BY <1>2, <1>3, NodeFacts
<1>5. ASSUME NEW i \in 0..m, NEW j \in 0..m, Node(s, i) = Node(s, j) PROVE i = j
  BY <1>1, <1>2, <1>3, <1>5, NodeFacts DEF Lists
<1> QED BY <1>1, <1>2, <1>4, <1>5

(* A node on the queue has its place.                                      *)
LEMMA PlaceIs ==
  ASSUME NEW s, NEW qu, Lists(s, qu), NEW n \in Nodes, n = Main \/ qu.scheduled[n]
  PROVE  /\ Abstract!Place(s, n) \in 0..Len(s) /\ Node(s, Abstract!Place(s, n)) = n
         /\ n \in Tasklets => Abstract!Place(s, n) \in 1..Len(s)
<1>1. PICK m \in Nat : m = Len(s) /\ DOMAIN s = 1..m BY SeqFacts DEF Lists
<1>2. CASE n = Main
  <2>1. Abstract!Place(s, n) = 0 BY <1>2 DEF Abstract!Place
  <2> QED BY <1>1, <1>2, <2>1, NodeFacts DEF Node
<1>3. CASE n # Main
  <2>1. n \in Tasklets BY <1>3, NodeFacts
  <2>2. \E i \in 1..m : s[i] = n BY <1>1, <1>3, <2>1 DEF Lists
  <2>3. PICK k : k = Abstract!Place(s, n) OBVIOUS
  <2>4. k = CHOOSE i \in DOMAIN s : s[i] = n BY <1>3, <2>3 DEF Abstract!Place
  <2>5. k \in 1..m /\ s[k] = n BY <1>1, <2>2, <2>4
  <2>6. k \in 0..m /\ k # 0 BY <1>1, <2>5
  <2> QED BY <1>1, <2>3, <2>5, <2>6 DEF Node
<1> QED BY <1>2, <1>3

(* Linking a tasklet in behind place k inserts it into the sequence.       *)
Inserted(qu, s, k, t, v) ==
  /\ Lists(s, qu) /\ k \in 0..Len(s) /\ t \in Tasklets /\ ~qu.scheduled[t]
  /\ \A x \in Nodes : v.next[x] = IF x = t THEN Node(s, k + 1)
                                  ELSE IF x = Node(s, k) THEN t ELSE qu.next[x]
  /\ \A x \in Tasklets : v.scheduled[x] <=> (x = t \/ qu.scheduled[x])

LEMMA InsNode ==
  ASSUME NEW s \in Seq(Tasklets), NEW k \in 0..Len(s), NEW t, NEW r, IsIns(s, k, t, r)
  PROVE  \A i \in 0..(Len(s) + 2) : Node(r, i) = IF i = k + 1 THEN t ELSE Node(s, Back(i, k))
<1>1. PICK m \in Nat : m = Len(s) BY SeqFacts
<1>2. Len(r) = m + 1 /\ \A i \in 1..(m + 1) : r[i] = IF i = k + 1 THEN t ELSE s[Back(i, k)]
  BY <1>1 DEF IsIns
<1>3. ASSUME NEW i \in 0..(m + 2)
      PROVE  Node(r, i) = IF i = k + 1 THEN t ELSE Node(s, Back(i, k))
  <2>1. CASE i = 0 BY <1>1, <2>1 DEF Node, Back
  <2>2. CASE i \in 1..(m + 1)
    <3>1. Node(r, i) = r[i] BY <1>2, <2>2 DEF Node
    <3>2. i # k + 1 => Back(i, k) \in 1..m BY <1>1, <2>2 DEF Back
    <3> QED BY <1>1, <1>2, <2>2, <3>1, <3>2 DEF Node
  <2>3. CASE i = m + 2
    <3>1. i # k + 1 /\ Back(i, k) = m + 1 BY <1>1, <2>3 DEF Back
    <3> QED BY <1>1, <1>2, <2>3, <3>1 DEF Node
  <2> QED BY <1>1, <2>1, <2>2, <2>3
<1> QED BY <1>1, <1>3

LEMMA InsLists ==
  ASSUME NEW qu, NEW s, NEW k, NEW t, NEW v, Inserted(qu, s, k, t, v),
         NEW r, IsIns(s, k, t, r)
  PROVE  Lists(r, v)
<1>1. /\ s \in Seq(Tasklets) /\ k \in 0..Len(s) /\ t \in Tasklets /\ Lists(s, qu) /\ ~qu.scheduled[t]
  BY DEF Inserted, Lists
<1>2. PICK m \in Nat : m = Len(s) BY <1>1, SeqFacts
<1>3. /\ r \in Seq(Tasklets) /\ Len(r) = m + 1
      /\ \A i \in 1..(m + 1) : r[i] = IF i = k + 1 THEN t ELSE s[Back(i, k)]
  BY <1>2 DEF IsIns
<1>4. \A i \in 0..(m + 2) : Node(r, i) = IF i = k + 1 THEN t ELSE Node(s, Back(i, k))
  BY <1>1, <1>2, InsNode
<1>5. \A i \in 1..(m + 1) : i # k + 1 => Back(i, k) \in 1..m BY <1>1, <1>2 DEF Back
<1>6. \A i \in 1..m : s[i] # t /\ s[i] \in Tasklets BY <1>1, <1>2, SeqFacts DEF Lists
<1>7. ASSUME NEW i \in 1..(m + 1), NEW j \in 1..(m + 1), r[i] = r[j] PROVE i = j
  <2>1. CASE i = k + 1 BY <1>3, <1>5, <1>6, <1>7, <2>1
  <2>2. CASE j = k + 1 BY <1>3, <1>5, <1>6, <1>7, <2>2
  <2>3. CASE i # k + 1 /\ j # k + 1
    <3>1. s[Back(i, k)] = s[Back(j, k)] BY <1>3, <1>7, <2>3
    <3>2. Back(i, k) = Back(j, k) BY <1>1, <1>2, <1>5, <2>3, <3>1 DEF Lists
    <3> QED BY <1>1, <1>2, <2>3, <3>2 DEF Back
  <2> QED BY <2>1, <2>2, <2>3
<1>8. ASSUME NEW x \in Tasklets PROVE v.scheduled[x] <=> \E i \in 1..(m + 1) : r[i] = x
  <2>1. v.scheduled[x] <=> (x = t \/ qu.scheduled[x]) BY DEF Inserted
  <2>2. qu.scheduled[x] <=> \E i \in 1..m : s[i] = x BY <1>1, <1>2 DEF Lists
  <2>3. ASSUME NEW i \in 1..m PROVE \E j \in 1..(m + 1) : r[j] = s[i]
    <3>1. CASE i <= k
      <4>1. i \in 1..(m + 1) /\ i # k + 1 /\ Back(i, k) = i BY <1>1, <1>2, <3>1 DEF Back
      <4> QED BY <1>3, <4>1
    <3>2. CASE i > k
      <4>1. i + 1 \in 1..(m + 1) /\ i + 1 # k + 1 /\ Back(i + 1, k) = i BY <1>1, <1>2, <3>2 DEF Back
      <4> QED BY <1>3, <4>1
    <3> QED BY <1>1, <1>2, <3>1, <3>2
  <2>4. k + 1 \in 1..(m + 1) BY <1>1, <1>2
  <2> QED BY <1>3, <1>5, <2>1, <2>2, <2>3, <2>4
<1>9. ASSUME NEW i \in 0..(m + 1) PROVE v.next[Node(r, i)] = Node(r, i + 1)
  <2>0. /\ \A j \in 0..m : qu.next[Node(s, j)] = Node(s, j + 1) /\ Node(s, j) \in Nodes
        /\ \A j \in 0..m : Node(s, j) # t /\ (Node(s, j) = Node(s, k) => j = k)
        /\ t \in Nodes
    <3>1. \A j \in 0..m : j = 0 \/ j \in 1..m BY <1>2
    <3>2. \A j \in 0..m : Node(s, j) # t BY <1>1, <1>2, <1>6, <3>1, NodeIs, NodeFacts
    <3> QED BY <1>1, <1>2, <3>2, NodeIs, NodeFacts DEF Lists
  <2>1. /\ \A x \in Nodes : v.next[x] = IF x = t THEN Node(s, k + 1)
                                        ELSE IF x = Node(s, k) THEN t ELSE qu.next[x]
    BY DEF Inserted
  <2>2. i \in 0..(m + 2) /\ i + 1 \in 0..(m + 2) BY <1>2
  <2>3. CASE i < k
    <3>1. Back(i, k) = i /\ Back(i + 1, k) = i + 1 /\ i # k + 1 /\ i + 1 # k + 1 /\ i \in 0..m /\ i # k
      BY <1>1, <1>2, <2>3 DEF Back
    <3>2. Node(r, i) = Node(s, i) /\ Node(r, i + 1) = Node(s, i + 1) BY <1>4, <2>2, <3>1
    <3> QED BY <2>0, <2>1, <3>1, <3>2
  <2>4. CASE i = k
    <3>1. Back(i, k) = i /\ i # k + 1 /\ i \in 0..m BY <1>1, <1>2, <2>4 DEF Back
    <3>2. Node(r, i) = Node(s, k) /\ Node(r, i + 1) = t BY <1>4, <2>2, <2>4, <3>1
    <3> QED BY <2>0, <2>1, <2>4, <3>1, <3>2
  <2>5. CASE i = k + 1
    <3>1. Back(i + 1, k) = k + 1 /\ i + 1 # k + 1 BY <1>1, <1>2, <2>5 DEF Back
    <3>2. Node(r, i) = t /\ Node(r, i + 1) = Node(s, k + 1) BY <1>4, <2>2, <2>5, <3>1
    <3> QED BY <2>0, <2>1, <3>2
  <2>6. CASE i > k + 1
    <3>1. /\ Back(i, k) = i - 1 /\ Back(i + 1, k) = i /\ i # k + 1 /\ i + 1 # k + 1
          /\ i - 1 \in 0..m /\ i - 1 # k /\ (i - 1) + 1 = i
      BY <1>1, <1>2, <2>6 DEF Back
    <3>2. Node(r, i) = Node(s, i - 1) /\ Node(r, i + 1) = Node(s, i) BY <1>4, <2>2, <3>1
    <3>3. qu.next[Node(s, i - 1)] = Node(s, i) BY <2>0, <3>1
    <3> QED BY <2>0, <2>1, <3>1, <3>2, <3>3
  <2> QED BY <1>1, <1>2, <2>3, <2>4, <2>5, <2>6
<1> QED BY <1>3, <1>7, <1>8, <1>9 DEF Lists

(* Unlinking the tasklet at place k takes it out of the sequence.          *)
Unlinked(qu, s, k, v) ==
  /\ Lists(s, qu) /\ k \in 1..Len(s)
  /\ \A x \in Nodes : v.next[x] = IF x = s[k] THEN Null
                                  ELSE IF x = Node(s, k - 1) THEN Node(s, k + 1) ELSE qu.next[x]
  /\ \A x \in Tasklets : v.scheduled[x] <=> (x # s[k] /\ qu.scheduled[x])

LEMMA DelNode ==
  ASSUME NEW s \in Seq(Tasklets), NEW k \in 1..Len(s), NEW r, IsDel(s, k, r)
  PROVE  \A i \in 0..Len(s) : Node(r, i) = Node(s, Past(i, k))
<1>1. PICK m \in Nat : m = Len(s) BY SeqFacts
<1>2. Len(r) = m - 1 /\ \A i \in 1..(m - 1) : r[i] = s[Past(i, k)] BY <1>1 DEF IsDel
<1>3. ASSUME NEW i \in 0..m PROVE Node(r, i) = Node(s, Past(i, k))
  <2>1. CASE i = 0 BY <1>1, <2>1 DEF Node, Past
  <2>2. CASE i \in 1..(m - 1)
    <3>1. Node(r, i) = r[i] BY <1>2, <2>2 DEF Node
    <3>2. Past(i, k) \in 1..m BY <1>1, <2>2 DEF Past
    <3> QED BY <1>1, <1>2, <2>2, <3>1, <3>2 DEF Node
  <2>3. CASE i = m /\ i # 0
    <3>1. Past(i, k) = m + 1 BY <1>1, <2>3 DEF Past
    <3> QED BY <1>1, <1>2, <2>3, <3>1 DEF Node
  <2> QED BY <1>1, <2>1, <2>2, <2>3
<1> QED BY <1>1, <1>3

LEMMA DelLists ==
  ASSUME NEW qu, NEW s, NEW k, NEW v, Unlinked(qu, s, k, v), NEW r, IsDel(s, k, r)
  PROVE  Lists(r, v)
<1>1. s \in Seq(Tasklets) /\ k \in 1..Len(s) /\ Lists(s, qu) BY DEF Unlinked, Lists
<1>2. PICK m \in Nat : m = Len(s) BY <1>1, SeqFacts
<1>3. r \in Seq(Tasklets) /\ Len(r) = m - 1 /\ \A i \in 1..(m - 1) : r[i] = s[Past(i, k)]
  BY <1>2 DEF IsDel
<1>4. \A i \in 0..m : Node(r, i) = Node(s, Past(i, k)) BY <1>1, <1>2, DelNode
<1>5. \A i \in 1..(m - 1) : Past(i, k) \in 1..m /\ Past(i, k) # k BY <1>1, <1>2 DEF Past
<1>6. \A i, j \in 1..m : s[i] = s[j] => i = j BY <1>1, <1>2 DEF Lists
<1>7. ASSUME NEW i \in 1..(m - 1), NEW j \in 1..(m - 1), r[i] = r[j] PROVE i = j
  <2>1. Past(i, k) = Past(j, k) BY <1>3, <1>5, <1>6, <1>7
  <2> QED BY <1>1, <1>2, <2>1 DEF Past
<1>8. ASSUME NEW x \in Tasklets PROVE v.scheduled[x] <=> \E i \in 1..(m - 1) : r[i] = x
  <2>1. v.scheduled[x] <=> (x # s[k] /\ qu.scheduled[x]) BY DEF Unlinked
  <2>2. qu.scheduled[x] <=> \E i \in 1..m : s[i] = x BY <1>1, <1>2 DEF Lists
  <2>3. ASSUME NEW i \in 1..m, i # k PROVE \E j \in 1..(m - 1) : r[j] = s[i]
    <3>1. CASE i < k
      <4>1. i \in 1..(m - 1) /\ Past(i, k) = i BY <1>1, <1>2, <3>1 DEF Past
      <4> QED BY <1>3, <4>1
    <3>2. CASE i > k
      <4>1. i - 1 \in 1..(m - 1) /\ Past(i - 1, k) = i BY <1>1, <1>2, <3>2 DEF Past
      <4> QED BY <1>3, <4>1
    <3> QED BY <1>1, <1>2, <2>3, <3>1, <3>2
  <2>4. \A i \in 1..(m - 1) : r[i] # s[k] BY <1>1, <1>2, <1>3, <1>5, <1>6
  <2>5. ASSUME v.scheduled[x] PROVE \E i \in 1..(m - 1) : r[i] = x
    <3>1. PICK i \in 1..m : s[i] = x BY <2>1, <2>2, <2>5
    <3>2. i # k BY <2>1, <2>5, <3>1
    <3> QED BY <2>3, <3>1, <3>2
  <2>6. ASSUME NEW i \in 1..(m - 1), r[i] = x PROVE v.scheduled[x]
    BY <1>3, <1>5, <2>1, <2>2, <2>4, <2>6
  <2> QED BY <2>5, <2>6
<1>9. ASSUME NEW i \in 0..(m - 1) PROVE v.next[Node(r, i)] = Node(r, i + 1)
  <2>0. /\ \A j \in 0..m : qu.next[Node(s, j)] = Node(s, j + 1) /\ Node(s, j) \in Nodes
        /\ \A j, l \in 0..m : Node(s, j) = Node(s, l) => j = l
        /\ s[k] = Node(s, k) /\ k \in 0..m /\ k - 1 \in 0..m
    <3>1. k \in 0..m /\ k - 1 \in 0..m BY <1>1, <1>2
    <3>2. \A j \in 0..m : qu.next[Node(s, j)] = Node(s, j + 1) BY <1>1, <1>2 DEF Lists
    <3> QED BY <1>1, <1>2, <3>1, <3>2, NodeIs
  <2>1. \A x \in Nodes : v.next[x] = IF x = s[k] THEN Null
                                     ELSE IF x = Node(s, k - 1) THEN Node(s, k + 1) ELSE qu.next[x]
    BY DEF Unlinked
  <2>2. i \in 0..m /\ i + 1 \in 0..m BY <1>2
  <2>3. CASE i = k - 1
    <3>1. Past(i, k) = k - 1 /\ Past(i + 1, k) = k + 1 /\ k - 1 # k BY <1>1, <1>2, <2>3 DEF Past
    <3>2. Node(r, i) = Node(s, k - 1) /\ Node(r, i + 1) = Node(s, k + 1) BY <1>4, <2>2, <3>1
    <3> QED BY <2>0, <2>1, <3>1, <3>2
  <2>4. CASE i # k - 1
    <3>1. PICK j : j = Past(i, k) OBVIOUS
    <3>2. j \in 0..m /\ j # k /\ j # k - 1 /\ Past(i + 1, k) = j + 1 BY <1>1, <1>2, <2>4, <3>1 DEF Past
    <3>3. Node(r, i) = Node(s, j) /\ Node(r, i + 1) = Node(s, j + 1) BY <1>4, <2>2, <3>1, <3>2
    <3> QED BY <2>0, <2>1, <3>2, <3>3
  <2> QED BY <2>3, <2>4
<1>10. (m - 1) \in Nat BY <1>1, <1>2
<1> QED BY <1>3, <1>7, <1>8, <1>9 DEF Lists

-----------------------------------------------------------------------------
(* The member functions, on the sequence.                                  *)

LEMMA SameLists ==
  ASSUME NEW s, NEW qu, NEW v, v.next = qu.next, v.scheduled = qu.scheduled
  PROVE  Lists(s, v) <=> Lists(s, qu)
BY DEF Lists

(* The tasklet t is put behind c, which stands at place k.                 *)
RunsNext(qu, s, t, k, c, r, v) ==
  /\ GoodQueue(qu) /\ Lists(s, qu) /\ t \in Tasklets /\ ~qu.scheduled[t]
  /\ k \in 0..Len(s) /\ c = Node(s, k) /\ IsIns(s, k, t, r)
  /\ v = InsertTaskletToRunNext(qu, t, c)

LEMMA RunNextLists ==
  ASSUME NEW qu, NEW s, NEW t, NEW k, NEW c, NEW r, NEW v, RunsNext(qu, s, t, k, c, r, v)
  PROVE  Lists(r, v) /\ v.resched = qu.resched
<1> USE DEF RunsNext
<1>1. c = Node(s, k) /\ k \in 0..Len(s) /\ Len(s) \in Nat BY SeqFacts DEF Lists
<1>2. v = InsertTaskletToRunNext(qu, t, c) OBVIOUS
<1>3. /\ v.next = [[qu.next EXCEPT ![t] = qu.next[c]] EXCEPT ![c] = t]
      /\ v.scheduled = [qu.scheduled EXCEPT ![t] = TRUE] /\ v.resched = qu.resched
  BY <1>2 DEF InsertTaskletToRunNext, LinkBehind
<1>4. qu.next \in [Nodes -> Pointers] /\ qu.scheduled \in [Nodes -> BOOLEAN]
  BY DEF GoodQueue, Queues
<1>5. c \in Nodes /\ qu.next[c] = Node(s, k + 1) BY <1>1, NodeIs DEF Lists
<1>6. c # t
  <2>1. k = 0 \/ k \in 1..Len(s) BY <1>1
  <2>2. CASE k = 0 BY <1>1, <2>2, NodeFacts DEF Node
  <2>3. CASE k \in 1..Len(s)
    <3>1. c = s[k] /\ c \in Tasklets BY <1>1, <2>3, NodeIs
    <3>2. qu.scheduled[c] BY <2>3, <3>1 DEF Lists
    <3> QED BY <3>2
  <2> QED BY <2>1, <2>2, <2>3
<1>7. \A x \in Nodes : v.next[x] = IF x = t THEN Node(s, k + 1)
                                   ELSE IF x = Node(s, k) THEN t ELSE qu.next[x]
  BY <1>1, <1>3, <1>4, <1>5, <1>6, NodeFacts
<1>8. \A x \in Tasklets : v.scheduled[x] <=> (x = t \/ qu.scheduled[x])
  BY <1>3, <1>4, NodeFacts
<1>9. Inserted(qu, s, k, t, v) BY <1>7, <1>8 DEF Inserted
<1>10. Lists(r, v) BY <1>9, InsLists
<1> QED BY <1>1, <1>2, <1>3, <1>10

LEMMA InsertLists ==
  ASSUME NEW qu, GoodQueue(qu), NEW s, Lists(s, qu), NEW t \in Tasklets, ~qu.scheduled[t]
  PROVE  /\ Lists(Append(s, t), InsertTasklet(qu, t))
         /\ InsertTasklet(qu, t).resched = qu.resched
<1>1. PICK m \in Nat : m = Len(s) BY SeqFacts DEF Lists
<1>2. PICK v : v = InsertTasklet(qu, t) OBVIOUS
<1>3. PICK e : e = Node(s, m) OBVIOUS
<1>4. /\ v.next = [[qu.next EXCEPT ![qu.tail] = t] EXCEPT ![t] = Null]
      /\ v.scheduled = [qu.scheduled EXCEPT ![t] = TRUE] /\ v.resched = qu.resched
  BY <1>2 DEF InsertTasklet
<1>5. qu.next \in [Nodes -> Pointers] /\ qu.scheduled \in [Nodes -> BOOLEAN]
  BY DEF GoodQueue, Queues
<1>6. m \in 0..m /\ e \in Nodes /\ Node(s, m + 1) = Null BY <1>1, <1>3, NodeIs
<1>7. qu.next[e] = Null BY <1>1, <1>3, <1>6 DEF Lists
<1>8. qu.scheduled[e] /\ e # t
  <2>1. m = 0 \/ m \in 1..m BY <1>1
  <2>2. CASE m = 0
    <3>1. e = Main BY <1>3, <2>2 DEF Node
    <3> QED BY <3>1, NodeFacts DEF GoodQueue, LinksOK
  <2>3. CASE m \in 1..m
    <3>1. e \in Tasklets /\ e = s[m] BY <1>1, <1>3, <2>3, NodeIs
    <3> QED BY <1>1, <2>3, <3>1 DEF Lists
  <2> QED BY <2>1, <2>2, <2>3
<1>9. qu.tail = e BY <1>6, <1>7, <1>8 DEF GoodQueue, TailOK, OnQueue
<1>10. \A x \in Nodes : v.next[x] = IF x = t THEN Node(s, m + 1)
                                    ELSE IF x = Node(s, m) THEN t ELSE qu.next[x]
  BY <1>3, <1>4, <1>5, <1>6, <1>8, <1>9, NodeFacts
<1>11. \A x \in Tasklets : v.scheduled[x] <=> (x = t \/ qu.scheduled[x])
  BY <1>4, <1>5, NodeFacts
<1>12. Inserted(qu, s, m, t, v) BY <1>1, <1>6, <1>10, <1>11 DEF Inserted
<1>13. IsIns(s, m, t, Append(s, t)) BY <1>1, AppendIs DEF Lists
<1>14. Lists(Append(s, t), v) BY <1>12, <1>13, InsLists
<1> QED BY <1>2, <1>4, <1>14

LEMMA RemoveLists ==
  ASSUME NEW qu, GoodQueue(qu), NEW s, Lists(s, qu), NEW k \in 1..Len(s), NEW r, IsDel(s, k, r)
  PROVE  Lists(r, RemoveTasklet(qu, s[k]))
<1>1. PICK m \in Nat : m = Len(s) BY SeqFacts DEF Lists
<1>2. PICK t : t = s[k] OBVIOUS
<1>3. PICK v : v = RemoveTasklet(qu, t) OBVIOUS
<1>4. k \in 0..m /\ k - 1 \in 0..m /\ (k - 1) + 1 = k BY <1>1
<1>5. t \in Tasklets /\ t = Node(s, k) BY <1>2, NodeIs
<1>6. PICK p : p = Node(s, k - 1) OBVIOUS
<1>7. PICK f : f = Node(s, k + 1) OBVIOUS
<1>8. p \in Nodes /\ qu.next[p] = t /\ qu.next[t] = f
  BY <1>1, <1>4, <1>5, <1>6, <1>7, NodeIs DEF Lists
<1>9. qu.prev[t] = p BY <1>5, <1>8, NodeFacts DEF GoodQueue, LinksOK
<1>10. p # f
  <2>1. CASE k = m BY <1>1, <1>4, <1>6, <1>7, <2>1, NodeIs
  <2>2. CASE k # m
    <3>1. k + 1 \in 0..m /\ k - 1 # k + 1 BY <1>1, <2>2
    <3> QED BY <1>1, <1>4, <1>6, <1>7, <3>1, NodeIs
  <2> QED BY <2>1, <2>2
<1>11. qu.next \in [Nodes -> Pointers] /\ qu.scheduled \in [Nodes -> BOOLEAN]
  BY DEF GoodQueue, Queues
<1>12. /\ v.next = [n \in Nodes |-> IF n = t THEN Null ELSE IF n = p THEN f ELSE qu.next[n]]
       /\ v.scheduled = [qu.scheduled EXCEPT ![t] = FALSE]
  BY <1>3, <1>8, <1>9, <1>10 DEF RemoveTasklet
<1>13. \A x \in Nodes : v.next[x] = IF x = s[k] THEN Null
                                    ELSE IF x = Node(s, k - 1) THEN Node(s, k + 1) ELSE qu.next[x]
  BY <1>2, <1>6, <1>7, <1>12
<1>14. \A x \in Tasklets : v.scheduled[x] <=> (x # s[k] /\ qu.scheduled[x])
  BY <1>2, <1>11, <1>12, NodeFacts
<1>15. Unlinked(qu, s, k, v) BY <1>13, <1>14 DEF Unlinked
<1>16. Lists(r, v) BY <1>15, DelLists
<1> QED BY <1>2, <1>3, <1>16

LEMMA UnqueueLists ==
  ASSUME NEW qu, GoodQueue(qu), NEW s, Lists(s, qu), NEW k \in 1..Len(s), NEW r, IsDel(s, k, r)
  PROVE  Lists(r, Unqueue(qu, s[k]))
<1>1. PICK t : t = s[k] OBVIOUS
<1>2. t \in Tasklets /\ qu.scheduled[t] BY <1>1, NodeIs DEF Lists
<1>3. PICK v : v = RemoveTasklet(qu, t) OBVIOUS
<1>4. PICK w : w = PullBackTail(qu, t) OBVIOUS
<1>5. PICK u : u = Unqueue(qu, t) OBVIOUS
<1>6. Lists(r, v) BY <1>1, <1>3, RemoveLists
<1>7. GoodQueue(v) /\ GoodQueue(u) /\ u.scheduled = v.scheduled
  <2>1. GoodQueue(v) /\ v.scheduled = [qu.scheduled EXCEPT ![t] = FALSE] BY <1>2, <1>3, RemoveGood
  <2>2. GoodQueue(u) /\ u.scheduled = [qu.scheduled EXCEPT ![t] = FALSE] BY <1>2, <1>5, UnqueueGood
  <2> QED BY <2>1, <2>2
<1>8. qu \in Queues /\ t \in Nodes /\ qu.prev[t] # Null BY <1>2, NodeFacts DEF GoodQueue, LinksOK
<1>9. w.next = qu.next /\ w.prev = qu.prev BY <1>4, <1>8 DEF PullBackTail, Queues
<1>10. u = [RemoveTasklet(w, t) EXCEPT !.scheduled[t] = FALSE] BY <1>4, <1>5 DEF Unqueue
<1>11. u.next = v.next
  <2>1. CASE qu.prev[t] = qu.next[t]
    <3>1. qu.next[t] # Null BY <1>8, <2>1
    <3>2. w = qu BY <1>4, <3>1 DEF PullBackTail
    <3>3. v \in Queues /\ u = [v EXCEPT !.scheduled[t] = FALSE] BY <1>3, <1>7, <1>10, <3>2 DEF GoodQueue
    <3> QED BY <3>3 DEF Queues
  <2>2. CASE qu.prev[t] # qu.next[t]
    <3>1. PICK x : x = RemoveTasklet(w, t) OBVIOUS
    <3>2. /\ x.next = [n \in Nodes |-> IF n = t THEN Null
                                       ELSE IF n = qu.prev[t] THEN qu.next[t] ELSE qu.next[n]]
          /\ v.next = [n \in Nodes |-> IF n = t THEN Null
                                       ELSE IF n = qu.prev[t] THEN qu.next[t] ELSE qu.next[n]]
          /\ [x EXCEPT !.scheduled[t] = FALSE].next = x.next
      BY <1>3, <1>9, <2>2, <3>1 DEF RemoveTasklet
    <3> QED BY <1>10, <3>1, <3>2
  <2> QED BY <2>1, <2>2
<1>12. Lists(r, u) BY <1>6, <1>7, <1>11, SameLists
<1> QED BY <1>1, <1>5, <1>12

LEMMA AfterFrontLists ==
  ASSUME NEW qu, GoodQueue(qu), NEW s, Lists(s, qu), NEW t \in Tasklets, ~qu.scheduled[t],
         NEW k \in 0..Len(s), k < Len(s), NEW r, IsIns(s, k + 1, t, r)
  PROVE  /\ Lists(r, InsertAfterFront(qu, t, Node(s, k)))
         /\ InsertAfterFront(qu, t, Node(s, k)).resched = qu.resched
<1>1. PICK m \in Nat : m = Len(s) BY SeqFacts DEF Lists
<1>2. k + 1 \in 1..m /\ k + 1 \in 0..m BY <1>1
<1>3. PICK p : p = Node(s, k) OBVIOUS
<1>4. PICK f : f = s[k + 1] OBVIOUS
<1>5. f \in Tasklets /\ qu.next[p] = f /\ p \in Nodes /\ qu.scheduled[f] /\ f # t
  <2>1. f \in Tasklets /\ f = Node(s, k + 1) /\ p \in Nodes BY <1>1, <1>2, <1>3, <1>4, NodeIs
  <2>2. qu.next[p] = Node(s, k + 1) BY <1>3 DEF Lists
  <2>3. qu.scheduled[f] BY <1>1, <1>2, <1>4, <2>1 DEF Lists
  <2> QED BY <2>1, <2>2, <2>3
<1>6. p # f
  <2>1. Node(s, k + 1) = f /\ k # k + 1 BY <1>1, <1>2, <1>4, NodeIs
  <2> QED BY <1>1, <1>2, <1>3, <2>1, NodeIs
<1>7. qu.scheduled \in [Nodes -> BOOLEAN] /\ t \in Nodes /\ f \in Nodes
  BY <1>5, NodeFacts DEF GoodQueue, Queues
<1>8. qu.scheduled[p]
  <2>1. k = 0 \/ k \in 1..m BY <1>1
  <2>2. CASE k = 0 BY <1>3, <2>2 DEF Node, GoodQueue, LinksOK
  <2>3. CASE k \in 1..m BY <1>1, <1>3, <2>3, NodeIs DEF Lists
  <2> QED BY <2>1, <2>2, <2>3
<1>9. PICK d : d = Abstract!RemoveAt(s, k + 1) OBVIOUS
<1>10. IsDel(s, k + 1, d) BY <1>1, <1>2, <1>9, RemoveAtIs DEF Lists
<1>11. d \in Seq(Tasklets) /\ Len(d) = m - 1 /\ \A i \in 1..(m - 1) : d[i] = s[Past(i, k + 1)]
  BY <1>1, <1>10 DEF IsDel
<1>12. PICK v1 : v1 = RemoveTasklet(qu, f) OBVIOUS
<1>13. Lists(d, v1) BY <1>1, <1>2, <1>4, <1>10, <1>12, RemoveLists
<1>14. /\ GoodQueue(v1) /\ v1.scheduled = [qu.scheduled EXCEPT ![f] = FALSE]
       /\ v1.resched = qu.resched
  BY <1>5, <1>12, RemoveGood
<1>15. v1.scheduled[p] /\ ~v1.scheduled[t] /\ ~v1.scheduled[f] /\ v1.scheduled \in [Nodes -> BOOLEAN]
  BY <1>5, <1>6, <1>7, <1>8, <1>14
<1>16. k \in 0..Len(d) BY <1>1, <1>11
<1>17. Node(d, k) = p
  <2>1. Past(k, k + 1) = k BY <1>1 DEF Past
  <2>2. \A i \in 0..m : Node(d, i) = Node(s, Past(i, k + 1)) BY <1>1, <1>2, <1>10, DelNode DEF Lists
  <2> QED BY <1>1, <1>3, <2>1, <2>2
<1>18. PICK a : a = Abstract!InsertAt(d, k + 1, t) OBVIOUS
<1>19. IsIns(d, k, t, a) BY <1>11, <1>16, <1>18, InsertAtIs
<1>20. a \in Seq(Tasklets) /\ Len(a) = m
  <2>1. a \in Seq(Tasklets) /\ Len(a) = Len(d) + 1 BY <1>19 DEF IsIns
  <2> QED BY <1>1, <1>11, <2>1
<1>21. \A i \in 1..m : a[i] = IF i = k + 1 THEN t ELSE d[Back(i, k)]
  BY <1>19, <1>20 DEF IsIns
<1>22. PICK v2 : v2 = InsertTaskletToRunNext(v1, t, p) OBVIOUS
<1>23. Lists(a, v2) /\ v2.resched = v1.resched
  <2>1. RunsNext(v1, d, t, k, p, a, v2)
    BY <1>13, <1>14, <1>15, <1>16, <1>17, <1>19, <1>22 DEF RunsNext
  <2> QED BY <2>1, RunNextLists
<1>24. GoodQueue(v2) /\ v2.scheduled = [v1.scheduled EXCEPT ![t] = TRUE]
  <2>1. OnQueue(v1, p) BY <1>15 DEF OnQueue
  <2>2. /\ GoodQueue(InsertTaskletToRunNext(v1, t, p))
        /\ InsertTaskletToRunNext(v1, t, p).scheduled = [v1.scheduled EXCEPT ![t] = TRUE]
    <3>1. GoodQueue(v1) /\ p \in Nodes BY <1>5, <1>14
    <3> QED BY <2>1, <3>1, RunNextGood
  <2> QED BY <1>22, <2>2
<1>25. ~v2.scheduled[f] BY <1>5, <1>7, <1>15, <1>24
<1>26. k \in 0..Len(a) BY <1>1, <1>20
<1>27. Node(a, k) = p
  <2>1. k # k + 1 /\ Back(k, k) = k /\ k \in 0..(Len(d) + 2) BY <1>1, <1>11 DEF Back
  <2>2. \A i \in 0..(Len(d) + 2) : Node(a, i) = IF i = k + 1 THEN t ELSE Node(d, Back(i, k))
    BY <1>11, <1>16, <1>19, InsNode
  <2> QED BY <1>17, <2>1, <2>2
<1>28. PICK b : b = Abstract!InsertAt(a, k + 1, f) OBVIOUS
<1>29. IsIns(a, k, f, b) BY <1>5, <1>20, <1>26, <1>28, InsertAtIs
<1>30. PICK v3 : v3 = InsertTaskletToRunNext(v2, f, p) OBVIOUS
<1>31. Lists(b, v3) /\ v3.resched = v2.resched
  <2>1. RunsNext(v2, a, f, k, p, b, v3)
    BY <1>5, <1>23, <1>24, <1>25, <1>26, <1>27, <1>29, <1>30 DEF RunsNext
  <2> QED BY <2>1, RunNextLists
<1>32. v3 = InsertAfterFront(qu, t, p) BY <1>5, <1>12, <1>22, <1>30 DEF InsertAfterFront
<1>33. /\ b \in Seq(Tasklets) /\ Len(b) = m + 1
       /\ \A i \in 1..(m + 1) : b[i] = IF i = k + 1 THEN f ELSE a[Back(i, k)]
  BY <1>20, <1>29 DEF IsIns
<1>34. /\ r \in Seq(Tasklets) /\ Len(r) = m + 1
       /\ \A i \in 1..(m + 1) : r[i] = IF i = (k + 1) + 1 THEN t ELSE s[Back(i, k + 1)]
  BY <1>1 DEF IsIns
<1>35. ASSUME NEW i \in 1..(m + 1) PROVE b[i] = r[i]
  <2>1. CASE i <= k
    <3>1. /\ i \in 1..m /\ i \in 1..(m - 1) /\ i # k + 1 /\ i # (k + 1) + 1
          /\ Back(i, k) = i /\ Back(i, k + 1) = i /\ Past(i, k + 1) = i
      BY <1>1, <2>1 DEF Back, Past
    <3> QED BY <1>11, <1>21, <1>33, <1>34, <3>1
  <2>2. CASE i = k + 1
    <3>1. i # (k + 1) + 1 /\ Back(i, k + 1) = k + 1 BY <1>1, <2>2 DEF Back
    <3> QED BY <1>4, <1>33, <1>34, <2>2, <3>1
  <2>3. CASE i = k + 2
    <3>1. i = (k + 1) + 1 /\ i # k + 1 /\ Back(i, k) = k + 1 BY <1>1, <2>3 DEF Back
    <3> QED BY <1>2, <1>21, <1>33, <1>34, <3>1
  <2>4. CASE i > k + 2
    <3>1. /\ i - 1 \in 1..m /\ i - 2 \in 1..(m - 1) /\ i # k + 1 /\ i # (k + 1) + 1 /\ i - 1 # k + 1
          /\ Back(i, k) = i - 1 /\ Back(i - 1, k) = i - 2 /\ Back(i, k + 1) = i - 1
          /\ Past(i - 2, k + 1) = i - 1
      BY <1>1, <2>4 DEF Back, Past
    <3> QED BY <1>11, <1>21, <1>33, <1>34, <3>1
  <2> QED BY <1>1, <2>1, <2>2, <2>3, <2>4
<1>36. b = r BY <1>33, <1>34, <1>35, SeqEqual
<1> QED BY <1>3, <1>14, <1>23, <1>31, <1>32, <1>36

-----------------------------------------------------------------------------
(* The walk along m_next finds the sequence.  The walk is a recursive      *)
(* function: the places of s satisfy its equation, and a smallest place at *)
(* which two solutions differ does not exist.                              *)

LEMMA Smallest ==
  ASSUME NEW T, T \subseteq Nat, T # {}
  PROVE  \E x \in T : \A y \in T : x <= y
<1>1. PICK R : R = {ss \in Nat \X Nat : ss[1] < ss[2]} OBVIOUS
<1>2. IsWellFoundedOn(R, Nat) BY <1>1, NatLessThanWellFounded DEF OpToRel
<1>3. \A x, y \in Nat : x < y => <<x, y>> \in R BY <1>1
<1>4. PICK x \in T : \A y \in T : ~ (<<y, x>> \in R) BY <1>2, WFMin
<1>5. \A y \in T : ~(y < x) BY <1>3, <1>4
<1>6. \A y \in T : x <= y BY <1>5
<1> QED BY <1>6

LEMMA WalkIs ==
  ASSUME NEW s, NEW qu, Lists(s, qu)
  PROVE  WalkOrder(qu) = s /\ GetCalculatedTaskletCount(qu) = Len(s) + 1
<1>1. PICK N \in Nat : N = Cardinality(Tasklets) BY RunQueueAssumption, FS_CardinalityType
<1>2. PICK m \in Nat : m = Len(s) /\ DOMAIN s = 1..m /\ \A i \in 1..m : s[i] \in Tasklets
  BY SeqFacts DEF Lists
<1>3. s = [i \in 1..m |-> s[i]] BY <1>2 DEF Lists
<1>4. m <= N
  <2>1. s \in Injection(1..m, Tasklets) BY <1>2, <1>3 DEF Injection, IsInjective, Lists
  <2>2. Cardinality(1..m) <= Cardinality(Tasklets) BY <2>1, RunQueueAssumption, FS_Injection
  <2>3. Cardinality(1..m) = m BY FS_Interval
  <2> QED BY <1>1, <2>2, <2>3
<1>5. PICK f : f = [i \in 0..(N + 1) |-> Node(s, i)] OBVIOUS
<1>6. ASSUME NEW i \in 0..(N + 1)
      PROVE  f[i] = IF i = 0 THEN Main ELSE IF f[i - 1] = Null THEN Null ELSE qu.next[f[i - 1]]
  <2>1. f[i] = Node(s, i) BY <1>5
  <2>2. CASE i = 0 BY <2>1, <2>2 DEF Node
  <2>3. CASE i # 0
    <3>1. i - 1 \in 0..(N + 1) /\ (i - 1) + 1 = i BY <1>1, <2>3
    <3>2. f[i - 1] = Node(s, i - 1) BY <1>5, <3>1
    <3>3. CASE i - 1 <= m
      <4>1. i - 1 \in 0..m BY <1>2, <3>1, <3>3
      <4>2. qu.next[Node(s, i - 1)] = Node(s, i) BY <1>2, <3>1, <4>1 DEF Lists
      <4>3. Node(s, i - 1) # Null BY <1>2, <4>1, NodeIs
      <4> QED BY <2>1, <2>3, <3>2, <4>2, <4>3
    <3>4. CASE ~(i - 1 <= m)
      <4>1. i \notin 1..m /\ i - 1 \notin 1..m /\ i - 1 # 0 BY <1>2, <3>1, <3>4
      <4>2. Node(s, i - 1) = Null /\ Node(s, i) = Null BY <1>2, <2>3, <4>1 DEF Node
      <4> QED BY <2>1, <2>3, <3>2, <4>2
    <3> QED BY <3>3, <3>4
  <2> QED BY <2>2, <2>3
<1>7. f = [i \in 0..(N + 1) |-> IF i = 0 THEN Main
                                ELSE IF f[i - 1] = Null THEN Null ELSE qu.next[f[i - 1]]]
  BY <1>5, <1>6
<1>8. PICK w : w = Walk(qu) OBVIOUS
<1>9. w = [i \in 0..(N + 1) |-> IF i = 0 THEN Main
                                ELSE IF w[i - 1] = Null THEN Null ELSE qu.next[w[i - 1]]]
  BY <1>1, <1>7, <1>8 DEF Walk
<1>10. \A i \in 0..(N + 1) : w[i] = IF i = 0 THEN Main
                                     ELSE IF w[i - 1] = Null THEN Null ELSE qu.next[w[i - 1]]
  BY <1>9
<1>11. \A i \in 0..(N + 1) : w[i] = f[i]
  <2> SUFFICES ASSUME NEW j \in 0..(N + 1), w[j] # f[j] PROVE FALSE
    OBVIOUS
  <2>1. PICK T : T = {i \in 0..(N + 1) : w[i] # f[i]} OBVIOUS
  <2>2. T \subseteq Nat /\ T # {} BY <2>1
  <2>3. PICK i \in T : \A k \in T : i <= k BY <2>2, Smallest
  <2>4. i \in 0..(N + 1) /\ w[i] # f[i] BY <2>1
  <2>5. i # 0 BY <1>6, <1>10, <2>4
  <2>6. i - 1 \in 0..(N + 1) /\ ~(i <= i - 1) BY <2>4, <2>5
  <2>7. w[i - 1] = f[i - 1] BY <2>1, <2>3, <2>6
  <2> QED BY <1>6, <1>10, <2>4, <2>5, <2>7
<1>12. DOMAIN w = 0..(N + 1) BY <1>9
<1>13. {i \in DOMAIN w : w[i] # Null} = 0..m
  <2>1. ASSUME NEW j \in 0..(N + 1) PROVE w[j] # Null <=> j <= m
    <3>1. w[j] = Node(s, j) BY <1>5, <1>11
    <3>2. CASE j <= m
      <4>1. j \in 0..m BY <1>2, <3>2
      <4> QED BY <1>2, <3>1, <3>2, <4>1, NodeIs
    <3>3. CASE ~(j <= m)
      <4>1. j \notin 1..m /\ j # 0 BY <1>2, <3>3
      <4> QED BY <1>2, <3>1, <3>3, <4>1 DEF Node
    <3> QED BY <3>2, <3>3
  <2> QED BY <1>4, <1>12, <2>1
<1>14. GetCalculatedTaskletCount(qu) = m + 1
  <2>1. Cardinality(0..m) = m + 1 BY FS_Interval
  <2> QED BY <1>8, <1>13, <2>1 DEF GetCalculatedTaskletCount
<1>15. WalkOrder(qu) = [i \in 1..m |-> w[i]]
  <2>1. (m + 1) - 1 = m BY <1>2
  <2> QED BY <1>8, <1>14, <2>1 DEF WalkOrder
<1>16. \A i \in 1..m : w[i] = s[i]
  <2>1. \A i \in 1..m : i \in 0..(N + 1) /\ Node(s, i) = s[i] BY <1>2, <1>4, NodeIs
  <2> QED BY <1>5, <1>11, <2>1
<1> QED BY <1>2, <1>3, <1>14, <1>15, <1>16

-----------------------------------------------------------------------------
(* Every step is one of RunOrder, and the walk keeps listing the queue.    *)

Ordered == Lists(WalkOrder(q), q)

LEMMA OrderedBy ==
  ASSUME NEW s, NEW qu, Lists(s, qu)
  PROVE  Lists(WalkOrder(qu), qu) /\ WalkOrder(qu) = s
BY WalkIs

LEMMA QueuedIs ==
  ASSUME Ordered, NEW t \in Tasklets
  PROVE  Abstract!Queued(t) <=> q.scheduled[t]
<1>1. PICK s : s = WalkOrder(q) OBVIOUS
<1>2. Lists(s, q) BY <1>1 DEF Ordered
<1>3. DOMAIN s = 1..Len(s) BY <1>2, SeqFacts DEF Lists
<1>4. Abstract!Queued(t) <=> \E i \in DOMAIN s : s[i] = t
  BY <1>1 DEF Abstract!Queued, Abstract!ToSet
<1> QED BY <1>2, <1>3, <1>4 DEF Lists

LEMMA EmptyLists == Lists(<<>>, EmptyQueue)
<1>1. Len(<<>>) = 0 /\ <<>> \in Seq(Tasklets) BY EmptySeq
<1>2. \A t \in Tasklets : ~EmptyQueue.scheduled[t] BY NodeFacts DEF EmptyQueue
<1>3. EmptyQueue.next[Main] = Null BY NodeFacts DEF EmptyQueue
<1>4. Node(<<>>, 0) = Main /\ Node(<<>>, 1) = Null BY <1>1 DEF Node
<1> QED BY <1>1, <1>2, <1>3, <1>4 DEF Lists

(* A call that only touches the flags of the next switch.                  *)
LEMMA FlagStep ==
  ASSUME IInv, Ordered, NEW t \in Nodes, NEW r \in RescheduleTypes, q' = SetReschedule(q, t, r)
  PROVE  /\ Ordered' /\ WalkOrder(q') = WalkOrder(q)
         /\ q'.resched = [q.resched EXCEPT ![t] = r]
<1>1. q \in Queues BY DEF IInv, GoodQueue
<1>2. q'.next = q.next /\ q'.scheduled = q.scheduled /\ q'.resched = [q.resched EXCEPT ![t] = r]
  BY <1>1 DEF SetReschedule, Queues
<1>3. Lists(WalkOrder(q), q') BY <1>2, SameLists DEF Ordered
<1>4. Lists(WalkOrder(q'), q') /\ WalkOrder(q') = WalkOrder(q) BY <1>3, OrderedBy
<1> QED BY <1>2, <1>4 DEF Ordered

LEMMA InsertStep ==
  ASSUME IInv, Ordered, NEW t \in Tasklets, Insert(t)
  PROVE  Ordered' /\ (Abstract!AskForBack(t) \/ Abstract!JoinLast(t))
<1>1. q' = InsertTasklet(q, t) /\ current' = current BY DEF Insert
<1>2. CASE q.scheduled[t]
  <2>1. q' = SetReschedule(q, t, "BACK") /\ "BACK" \in RescheduleTypes /\ t \in Nodes
    BY <1>1, <1>2, NodeFacts DEF InsertTasklet, RescheduleTypes
  <2>2. /\ Ordered' /\ WalkOrder(q') = WalkOrder(q)
        /\ q'.resched = [q.resched EXCEPT ![t] = "BACK"]
    BY <2>1, FlagStep
  <2>3. Abstract!AskForBack(t) BY <1>1, <1>2, <2>2, QueuedIs DEF Abstract!AskForBack
  <2> QED BY <2>2, <2>3
<1>3. CASE ~q.scheduled[t]
  <2>1. PICK s : s = WalkOrder(q) /\ Lists(s, q) BY DEF Ordered
  <2>2. Lists(Append(s, t), q') /\ q'.resched = q.resched
    BY <1>1, <1>3, <2>1, InsertLists DEF IInv
  <2>3. Lists(WalkOrder(q'), q') /\ WalkOrder(q') = Append(s, t) BY <2>2, OrderedBy
  <2>4. Abstract!JoinLast(t) BY <1>1, <1>3, <2>1, <2>2, <2>3, QueuedIs DEF Abstract!JoinLast
  <2> QED BY <2>3, <2>4 DEF Ordered
<1> QED BY <1>2, <1>3

LEMMA RunNextStep ==
  ASSUME IInv, Ordered, NEW t \in Tasklets, RunNext(t)
  PROVE  Ordered' /\ (Abstract!AskForBack(t) \/ Abstract!JoinNext(t))
<1>1. q' = InsertTaskletToRunNext(q, t, current) /\ current' = current BY DEF RunNext
<1>2. CASE q.scheduled[t]
  <2>1. q' = SetReschedule(q, t, "BACK") /\ "BACK" \in RescheduleTypes /\ t \in Nodes
    BY <1>1, <1>2, NodeFacts DEF InsertTaskletToRunNext, RescheduleTypes
  <2>2. /\ Ordered' /\ WalkOrder(q') = WalkOrder(q)
        /\ q'.resched = [q.resched EXCEPT ![t] = "BACK"]
    BY <2>1, FlagStep
  <2>3. Abstract!AskForBack(t) BY <1>1, <1>2, <2>2, QueuedIs DEF Abstract!AskForBack
  <2> QED BY <2>2, <2>3
<1>3. CASE ~q.scheduled[t]
  <2>1. PICK s : s = WalkOrder(q) /\ Lists(s, q) BY DEF Ordered
  <2>2. PICK k : k = Abstract!Place(s, current) OBVIOUS
  <2>3. k \in 0..Len(s) /\ Node(s, k) = current
    BY <2>1, <2>2, PlaceIs DEF IInv, CurrentIsQueued, OnQueue
  <2>4. PICK r : r = Abstract!InsertAt(s, k + 1, t) OBVIOUS
  <2>5. IsIns(s, k, t, r) BY <2>1, <2>3, <2>4, InsertAtIs DEF Lists
  <2>6. RunsNext(q, s, t, k, current, r, q') BY <1>1, <1>3, <2>1, <2>3, <2>5 DEF RunsNext, IInv
  <2>7. Lists(r, q') /\ q'.resched = q.resched BY <2>6, RunNextLists
  <2>8. Lists(WalkOrder(q'), q') /\ WalkOrder(q') = r BY <2>7, OrderedBy
  <2>9. Abstract!JoinNext(t)
    BY <1>1, <1>3, <2>1, <2>2, <2>4, <2>7, <2>8, QueuedIs DEF Abstract!JoinNext
  <2> QED BY <2>8, <2>9 DEF Ordered
<1> QED BY <1>2, <1>3

LEMMA RemoveStep ==
  ASSUME ~SelfRemove, IInv, Ordered, NEW t \in Tasklets, TakeOff(t)
  PROVE  Ordered' /\ Abstract!Leave(t)
<1>1. q' = RemoveTasklet(q, t) /\ current' = current /\ q.scheduled[t] /\ t # current BY DEF TakeOff
<1>2. PICK s : s = WalkOrder(q) /\ Lists(s, q) BY DEF Ordered
<1>3. PICK k : k = Abstract!Place(s, t) OBVIOUS
<1>4. k \in 1..Len(s) /\ s[k] = t
  <2>1. k \in 1..Len(s) /\ Node(s, k) = t BY <1>1, <1>2, <1>3, PlaceIs, NodeFacts
  <2> QED BY <1>2, <2>1, NodeIs
<1>5. PICK r : r = Abstract!RemoveAt(s, k) OBVIOUS
<1>6. IsDel(s, k, r) BY <1>2, <1>4, <1>5, RemoveAtIs DEF Lists
<1>7. Lists(r, q') BY <1>1, <1>2, <1>4, <1>6, RemoveLists DEF IInv
<1>8. Lists(WalkOrder(q'), q') /\ WalkOrder(q') = r BY <1>7, OrderedBy
<1>9. q'.resched = q.resched BY <1>1, RemoveGood DEF IInv
<1>10. Abstract!Leave(t) BY <1>1, <1>2, <1>3, <1>5, <1>8, <1>9, QueuedIs DEF Abstract!Leave
<1> QED BY <1>8, <1>10 DEF Ordered

LEMMA ScheduleStep ==
  ASSUME IInv, Ordered, NEW r \in RescheduleTypes, Schedule(r)
  PROVE  Ordered' /\ Abstract!Ask(r)
<1>1. q' = SetReschedule(q, current, r) /\ current' = current BY DEF Schedule
<1>2. /\ Ordered' /\ WalkOrder(q') = WalkOrder(q)
      /\ q'.resched = [q.resched EXCEPT ![current] = r]
  BY <1>1, FlagStep DEF IInv
<1> QED BY <1>1, <1>2 DEF Abstract!Ask

LEMMA ResumeStep ==
  ASSUME IInv, Ordered, NEW t \in Tasklets, Resume(t)
  PROVE  Ordered' /\ Abstract!Execute(t)
<1>1. q' = q /\ current' = t /\ q.scheduled[t] BY DEF Resume
<1> QED BY <1>1, QueuedIs DEF Ordered, Abstract!Execute

(* The tasklet that comes back leaves its place and goes where it asked.   *)
LEMMA ReturnStep ==
  ASSUME IInv, Ordered, NEW p \in Nodes, Return(p)
  PROVE  Ordered' /\ Abstract!GiveBack(p)
<1>1. PICK u : u = Unqueue(q, current) OBVIOUS
<1>2. PICK t : t = current OBVIOUS
<1>3. /\ q' = Requeue(u, t, p) /\ current' = p /\ t # Main /\ p # t /\ q.scheduled[p]
      /\ u.resched[t] = "FRONT_PLUS_ONE" => u.next[p] # Null
  BY <1>1, <1>2 DEF Return
<1>4. t \in Tasklets /\ q.scheduled[t] /\ GoodQueue(q) /\ q.scheduled \in [Nodes -> BOOLEAN] /\ t \in Nodes
  BY <1>2, <1>3, NodeFacts DEF IInv, CurrentIsQueued, OnQueue, GoodQueue, Queues
<1>5. PICK s : s = WalkOrder(q) /\ Lists(s, q) BY DEF Ordered
<1>6. PICK k : k = Abstract!Place(s, t) OBVIOUS
<1>7. k \in 1..Len(s) /\ s[k] = t
  <2>1. k \in 1..Len(s) /\ Node(s, k) = t BY <1>4, <1>5, <1>6, PlaceIs
  <2> QED BY <1>5, <2>1, NodeIs
<1>8. PICK rest : rest = Abstract!RemoveAt(s, k) OBVIOUS
<1>9. IsDel(s, k, rest) BY <1>5, <1>7, <1>8, RemoveAtIs DEF Lists
<1>10. Lists(rest, u) BY <1>1, <1>2, <1>4, <1>5, <1>7, <1>9, UnqueueLists
<1>11. /\ GoodQueue(u) /\ u.scheduled = [q.scheduled EXCEPT ![t] = FALSE] /\ u.resched = q.resched
  BY <1>1, <1>2, <1>4, UnqueueGood
<1>12. u.scheduled[p] /\ ~u.scheduled[t] /\ u.resched \in [Nodes -> RescheduleTypes]
  BY <1>3, <1>4, <1>11 DEF GoodQueue, Queues
<1>13. PICK m : m = (CASE u.resched[t] = "BACK"           -> InsertTasklet(u, t)
                       [] u.resched[t] = "FRONT_PLUS_ONE" -> InsertAfterFront(u, t, p)
                       [] OTHER                           -> u)
  OBVIOUS
<1>14. q' = SetReschedule(m, t, "NONE") BY <1>3, <1>13 DEF Requeue
<1>15. PICK j : j = Abstract!Place(rest, p) OBVIOUS
<1>16. j \in 0..Len(rest) /\ Node(rest, j) = p BY <1>10, <1>12, <1>15, PlaceIs
<1>17. PICK r : \/ q.resched[t] = "NONE" /\ r = rest
                \/ q.resched[t] = "BACK" /\ r = Append(rest, t)
                \/ q.resched[t] = "FRONT_PLUS_ONE" /\ r = Abstract!InsertAt(rest, j + 2, t)
  BY <1>4, <1>11, <1>12 DEF RescheduleTypes
<1>18. /\ Lists(r, m) /\ m.resched = u.resched /\ GoodQueue(m)
       /\ q.resched[t] = "FRONT_PLUS_ONE" => j < Len(rest)
  <2>1. CASE q.resched[t] = "NONE" BY <1>10, <1>11, <1>13, <1>17, <2>1
  <2>2. CASE q.resched[t] = "BACK"
    <3>1. m = InsertTasklet(u, t) /\ r = Append(rest, t) BY <1>11, <1>13, <1>17, <2>2
    <3>2. /\ Lists(Append(rest, t), InsertTasklet(u, t)) /\ InsertTasklet(u, t).resched = u.resched
      BY <1>4, <1>10, <1>11, <1>12, InsertLists
    <3>3. GoodQueue(InsertTasklet(u, t)) BY <1>4, <1>11, InsertGood
    <3> QED BY <2>2, <3>1, <3>2, <3>3
  <2>3. CASE q.resched[t] = "FRONT_PLUS_ONE"
    <3>1. m = InsertAfterFront(u, t, p) /\ r = Abstract!InsertAt(rest, j + 2, t)
      BY <1>11, <1>13, <1>17, <2>3
    <3>2. u.next[p] # Null BY <1>3, <1>11, <2>3
    <3>3. Len(rest) \in Nat /\ rest \in Seq(Tasklets) BY <1>10, SeqFacts DEF Lists
    <3>4. u.next[p] = Node(rest, j + 1) BY <1>10, <1>16 DEF Lists
    <3>5. j # Len(rest) BY <1>10, <3>2, <3>4, NodeIs
    <3>6. j < Len(rest) /\ j + 1 \in 0..Len(rest) /\ (j + 1) + 1 = j + 2 BY <1>16, <3>3, <3>5
    <3>7. IsIns(rest, j + 1, t, r) BY <1>4, <3>1, <3>3, <3>6, InsertAtIs
    <3>8. /\ Lists(r, InsertAfterFront(u, t, Node(rest, j)))
          /\ InsertAfterFront(u, t, Node(rest, j)).resched = u.resched
      BY <1>4, <1>10, <1>11, <1>12, <1>16, <3>6, <3>7, AfterFrontLists
    <3>9. GoodQueue(InsertAfterFront(u, t, p))
      BY <1>4, <1>11, <1>12, <3>2, AfterFrontGood DEF OnQueue
    <3> QED BY <1>16, <3>1, <3>6, <3>8, <3>9
  <2> QED BY <1>17, <2>1, <2>2, <2>3
<1>19. q'.next = m.next /\ q'.scheduled = m.scheduled /\ q'.resched = [q.resched EXCEPT ![t] = "NONE"]
  BY <1>11, <1>14, <1>18 DEF SetReschedule, GoodQueue, Queues
<1>20. Lists(r, q') BY <1>18, <1>19, SameLists
<1>21. Lists(WalkOrder(q'), q') /\ WalkOrder(q') = r BY <1>20, OrderedBy
<1>22. p = Main \/ Abstract!Queued(p) BY <1>3, QueuedIs, NodeFacts
<1>23. Abstract!GiveBack(p)
  BY <1>2, <1>3, <1>5, <1>6, <1>8, <1>15, <1>17, <1>18, <1>19, <1>21, <1>22 DEF Abstract!GiveBack
<1> QED BY <1>21, <1>23 DEF Ordered

LEMMA OrderedStep ==
  ASSUME ~SelfRemove, IInv, Ordered, [Next]_vars
  PROVE  Ordered' /\ (Abstract!Next \/ UNCHANGED Abstract!vars)
<1>1. CASE UNCHANGED vars BY <1>1 DEF vars, Ordered, Abstract!vars
<1>2. ASSUME NEW t \in Tasklets, Insert(t) \/ RunNext(t) \/ TakeOff(t) \/ Resume(t)
      PROVE  Ordered' /\ Abstract!Next
  BY <1>2, InsertStep, RunNextStep, RemoveStep, ResumeStep DEF Abstract!Next
<1>3. ASSUME NEW r \in RescheduleTypes, Schedule(r) PROVE Ordered' /\ Abstract!Next
  BY <1>3, ScheduleStep DEF Abstract!Next, Abstract!Places, RescheduleTypes
<1>4. ASSUME NEW p \in Nodes, Return(p) PROVE Ordered' /\ Abstract!Next
  BY <1>4, ReturnStep DEF Abstract!Next, Nodes
<1> QED BY <1>1, <1>2, <1>3, <1>4 DEF Next

(* The linked queue implements RunOrder: every insert, removal, yield and  *)
(* switch changes the chain from main as RunOrder says                     *)
(* (ScheduleManager.cpp:158-254, 526-578), as long as nobody removes the   *)
(* tasklet that executes.                                                  *)
THEOREM QueueIsAnOrder ==
  ASSUME ~SelfRemove PROVE Spec => OrderKept
<1>1. Init => IInv /\ Ordered /\ Abstract!Init
  <2> SUFFICES ASSUME Init PROVE IInv /\ Ordered /\ Abstract!Init
    OBVIOUS
  <2>1. Lists(WalkOrder(q), q) /\ WalkOrder(q) = <<>> BY EmptyLists, OrderedBy DEF Init
  <2>2. q.resched = [n \in Tasklets \cup {Main} |-> "NONE"] BY DEF Init, EmptyQueue, Nodes
  <2> QED BY <2>1, <2>2, InitIInv DEF Ordered, Init, Abstract!Init
<1>2. IInv /\ Ordered /\ [Next]_vars => IInv' /\ Ordered' /\ [Abstract!Next]_(Abstract!vars)
  BY NextIInv, OrderedStep
<1> QED BY <1>1, <1>2, PTL DEF Spec, OrderKept, Abstract!Spec

(* getruncount and calculateruncount agree for every set of tasklets: the  *)
(* cached count is what a walk along the chain counts                      *)
(* (ScheduleManager.cpp:278-296).                                          *)
THEOREM CountsAreEqual ==
  ASSUME ~SelfRemove PROVE Spec => []CountsAgree
<1>1. Init => IInv /\ Ordered
  <2>1. ASSUME Init PROVE Ordered BY <2>1, EmptyLists, OrderedBy DEF Init, Ordered
  <2> QED BY <2>1, InitIInv
<1>2. IInv /\ Ordered /\ [Next]_vars => IInv' /\ Ordered' BY NextIInv, OrderedStep
<1>3. ASSUME IInv, Ordered PROVE CountsAgree
  <2>1. PICK s : s = WalkOrder(q) /\ Lists(s, q) BY <1>3 DEF Ordered
  <2>2. PICK m \in Nat : m = Len(s) /\ DOMAIN s = 1..m /\ \A i \in 1..m : s[i] \in Tasklets
    BY <2>1, SeqFacts DEF Lists
  <2>3. PICK S : S = ScheduledSet(q) OBVIOUS
  <2>4. s = [i \in 1..m |-> s[i]] BY <2>1, <2>2 DEF Lists
  <2>5. \A i \in 1..m : s[i] \in S BY <2>1, <2>2, <2>3 DEF Lists, ScheduledSet
  <2>6. \A t \in S : \E i \in 1..m : s[i] = t BY <2>1, <2>2, <2>3 DEF Lists, ScheduledSet
  <2>7. s \in Bijection(1..m, S)
    BY <2>1, <2>2, <2>4, <2>5, <2>6 DEF Bijection, Injection, Surjection, IsInjective, Lists
  <2>8. IsFiniteSet(1..m) /\ Cardinality(1..m) = m BY FS_Interval
  <2>9. Cardinality(S) = m
    <3>1. ExistsBijection(1..m, S) BY <2>7 DEF ExistsBijection
    <3> QED BY <2>8, <3>1, FS_Bijection
  <2>10. q.count = m BY <1>3, <2>3, <2>9 DEF IInv, GoodQueue, CountOK
  <2>11. GetCalculatedTaskletCount(q) = m + 1 BY <2>1, <2>2, WalkIs
  <2> QED BY <2>10, <2>11 DEF CountsAgree, GetCachedTaskletCount
<1> QED BY <1>1, <1>2, <1>3, PTL DEF Spec

-----------------------------------------------------------------------------
(* QueueChannel. *)

Carrying == [at : {"append", "super_send"}, msg : Nat]
Fetching == [at : {"popleft", "super_receive"}]

(* Every variable has the type its description gives.                      *)
DequeTypeOK ==
  /\ data_queue \in Seq(Nat) /\ accepted \in Seq(Nat) /\ delivered \in Seq(Nat)
  /\ receivers \in Seq(Users)
  /\ senders \in Seq([who : Users, msg : Nat])
  /\ doing \in [Users -> {Idle, Waiting} \cup Carrying \cup Fetching]
  /\ sends \in Nat /\ closing \in BOOLEAN /\ threads \in BOOLEAN

Carries(u) == doing[u].at \in {"append", "super_send"}

(* One of the n messages sent, and not among those that send has taken.    *)
Pending(m, n, acc) == m \in 1..n /\ m \notin ToSet(acc)

(* Each message on its way is pending, and is in one place only.           *)
OnTheWay ==
  /\ \A u \in Users : Carries(u) => Pending(doing[u].msg, sends, accepted)
  /\ \A i \in DOMAIN senders : Pending(senders[i].msg, sends, accepted)
  /\ \A u, v \in Users : Carries(u) /\ Carries(v) /\ u # v => doing[u].msg # doing[v].msg
  /\ \A i, j \in DOMAIN senders : i # j => senders[i].msg # senders[j].msg
  /\ \A u \in Users, i \in DOMAIN senders : Carries(u) => doing[u].msg # senders[i].msg

(* What send has taken was sent, and is delivered or in the deque.         *)
Split(acc, del, queue, n) ==
  /\ ToSet(acc) \subseteq 1..n
  /\ ToSet(acc) = ToSet(del) \cup ToSet(queue)
  /\ ToSet(del) \cap ToSet(queue) = {}
  /\ IsInjective(del) /\ IsInjective(queue)

(* What a tasklet saw when it looked is still so when it acts, if the      *)
(* tasklets share a thread.                                                *)
OneThread ==
  ~threads =>
    /\ \A u, v \in Users : Acting(u) /\ Acting(v) => u = v
    /\ senders = <<>>
    /\ data_queue # <<>> => receivers = <<>>
    /\ accepted = delivered \o data_queue
    /\ \A u \in Users :
         /\ doing[u].at = "append" => receivers = <<>>
         /\ doing[u].at = "super_send" => receivers # <<>> \/ closing
         /\ doing[u].at = "super_receive" => data_queue = <<>>

(* The inductive invariant.                                                *)
DequeInv == DequeTypeOK /\ OnTheWay /\ Split(accepted, delivered, data_queue, sends) /\ OneThread

-----------------------------------------------------------------------------
(* Facts about sequences and the set of their elements.                    *)

LEMMA ToSetAppend ==
  ASSUME NEW S, NEW s \in Seq(S), NEW e \in S
  PROVE  /\ Append(s, e) \in Seq(S)
         /\ ToSet(Append(s, e)) = ToSet(s) \cup {e}
         /\ IsInjective(s) /\ e \notin ToSet(s) => IsInjective(Append(s, e))
<1>1. /\ Append(s, e) \in Seq(S) /\ Len(Append(s, e)) = Len(s) + 1
      /\ \A i \in 1..Len(s) : Append(s, e)[i] = s[i]
      /\ Append(s, e)[Len(s) + 1] = e
  BY AppendProperties
<1>2. DOMAIN Append(s, e) = 1..(Len(s) + 1) /\ DOMAIN s = 1..Len(s) /\ Len(s) \in Nat
  BY <1>1, LenProperties
<1>3. ToSet(Append(s, e)) = ToSet(s) \cup {e}
  BY <1>1, <1>2 DEF ToSet
<1>4. ASSUME IsInjective(s), e \notin ToSet(s) PROVE IsInjective(Append(s, e))
  BY <1>1, <1>2, <1>4 DEF ToSet, IsInjective
<1> QED BY <1>1, <1>3, <1>4

LEMMA ToSetTail ==
  ASSUME NEW S, NEW s \in Seq(S), s # <<>>
  PROVE  /\ Tail(s) \in Seq(S) /\ Head(s) \in S
         /\ ToSet(s) = {Head(s)} \cup ToSet(Tail(s))
         /\ IsInjective(s) => IsInjective(Tail(s)) /\ Head(s) \notin ToSet(Tail(s))
<1>1. /\ Head(s) \in S /\ Tail(s) \in Seq(S) /\ Len(Tail(s)) = Len(s) - 1
      /\ \A i \in 1..Len(Tail(s)) : Tail(s)[i] = s[i + 1]
  BY HeadTailProperties
<1>2. Len(s) \in Nat \ {0} /\ DOMAIN s = 1..Len(s) /\ Head(s) = s[1]
  BY EmptySeq, LenProperties
<1>3. DOMAIN Tail(s) = 1..(Len(s) - 1)
  BY <1>1, LenProperties
<1>4. ToSet(s) = {Head(s)} \cup ToSet(Tail(s))
  <2>1. ASSUME NEW i \in 1..Len(s) PROVE s[i] \in {Head(s)} \cup ToSet(Tail(s))
    <3>1. CASE i = 1 BY <3>1, <1>2
    <3>2. CASE i # 1
      <4>1. i - 1 \in 1..(Len(s) - 1) /\ (i - 1) + 1 = i BY <3>2, <1>2
      <4>2. Tail(s)[i - 1] = s[i] BY <4>1, <1>1
      <4> QED BY <4>1, <4>2, <1>3 DEF ToSet
    <3> QED BY <3>1, <3>2
  <2>2. ASSUME NEW i \in 1..(Len(s) - 1) PROVE Tail(s)[i] \in ToSet(s)
    BY <1>1, <1>2 DEF ToSet
  <2> QED BY <2>1, <2>2, <1>2, <1>3 DEF ToSet
<1>5. ASSUME IsInjective(s) PROVE IsInjective(Tail(s)) /\ Head(s) \notin ToSet(Tail(s))
  BY <1>1, <1>2, <1>3, <1>5 DEF ToSet, IsInjective
<1> QED BY <1>1, <1>4, <1>5

LEMMA AppendOverConcat ==
  ASSUME NEW s \in Seq(Nat), NEW t \in Seq(Nat), NEW e \in Nat
  PROVE  Append(s \o t, e) = s \o Append(t, e)
<1>1. s \o t \in Seq(Nat) /\ <<e>> \in Seq(Nat) BY ConcatProperties
<1>2. Append(s \o t, e) = (s \o t) \o <<e>> BY <1>1, AppendIsConcat
<1>3. Append(t, e) = t \o <<e>> BY AppendIsConcat
<1>4. (s \o t) \o <<e>> = s \o (t \o <<e>>) BY <1>1, ConcatAssociative
<1> QED BY <1>2, <1>3, <1>4

LEMMA ConcatOnce ==
  ASSUME NEW S, NEW s \in Seq(S), NEW t \in Seq(S)
  PROVE  /\ ToSet(s \o t) = ToSet(s) \cup ToSet(t)
         /\ IsInjective(s) /\ IsInjective(t) /\ ToSet(s) \cap ToSet(t) = {}
              => IsInjective(s \o t)
<1>1. /\ Len(s \o t) = Len(s) + Len(t) /\ s \o t \in Seq(S)
      /\ \A i \in 1..(Len(s) + Len(t)) :
           (s \o t)[i] = IF i <= Len(s) THEN s[i] ELSE t[i - Len(s)]
  BY ConcatProperties
<1>2. /\ DOMAIN (s \o t) = 1..(Len(s) + Len(t))
      /\ DOMAIN s = 1..Len(s) /\ DOMAIN t = 1..Len(t) /\ Len(s) \in Nat /\ Len(t) \in Nat
  BY <1>1, LenProperties
<1> DEFINE c == s \o t
<1>3. \A i \in 1..Len(s) : c[i] = s[i] BY <1>1, <1>2
<1>4. \A j \in 1..Len(t) : c[Len(s) + j] = t[j] BY <1>1, <1>2
<1>5. ASSUME NEW i \in DOMAIN c
      PROVE  \/ i \in 1..Len(s)
             \/ \E j \in 1..Len(t) : i = Len(s) + j
  <2>1. CASE i > Len(s)
    <3>1. i - Len(s) \in 1..Len(t) /\ i = Len(s) + (i - Len(s)) BY <2>1, <1>2
    <3> QED BY <3>1
  <2> QED BY <2>1, <1>2
<1> HIDE DEF c
<1>6. ToSet(c) = ToSet(s) \cup ToSet(t)
  <2>1. ASSUME NEW i \in DOMAIN c PROVE c[i] \in ToSet(s) \cup ToSet(t)
    BY <1>2, <1>3, <1>4, <1>5 DEF ToSet
  <2>2. ASSUME NEW i \in DOMAIN s PROVE s[i] \in ToSet(c)
    BY <1>2, <1>3 DEF ToSet, c
  <2>3. ASSUME NEW j \in DOMAIN t PROVE t[j] \in ToSet(c)
    <3>1. Len(s) + j \in DOMAIN c BY <1>2 DEF c
    <3> QED BY <1>2, <1>4, <3>1 DEF ToSet
  <2> QED BY <2>1, <2>2, <2>3 DEF ToSet
<1>7. ASSUME IsInjective(s), IsInjective(t), ToSet(s) \cap ToSet(t) = {},
             NEW i \in DOMAIN c, NEW k \in DOMAIN c, c[i] = c[k]
      PROVE  i = k
  <2>1. CASE i \in 1..Len(s) /\ k \in 1..Len(s)
    BY <2>1, <1>2, <1>3, <1>7 DEF IsInjective
  <2>2. ASSUME NEW j \in 1..Len(t), i = Len(s) + j, k \in 1..Len(s) PROVE FALSE
    BY <2>2, <1>2, <1>3, <1>4, <1>7 DEF ToSet
  <2>3. ASSUME NEW j \in 1..Len(t), k = Len(s) + j, i \in 1..Len(s) PROVE FALSE
    BY <2>3, <1>2, <1>3, <1>4, <1>7 DEF ToSet
  <2>4. ASSUME NEW j \in 1..Len(t), NEW l \in 1..Len(t), i = Len(s) + j, k = Len(s) + l
        PROVE  i = k
    <3>1. t[j] = t[l] BY <2>4, <1>4, <1>7
    <3>2. j = l BY <3>1, <1>2, <1>7 DEF IsInjective
    <3> QED BY <3>2, <2>4
  <2>5. i \in 1..Len(s) \/ \E j \in 1..Len(t) : i = Len(s) + j BY <1>5
  <2>6. k \in 1..Len(s) \/ \E j \in 1..Len(t) : k = Len(s) + j BY <1>5
  <2> QED BY <2>1, <2>2, <2>3, <2>4, <2>5, <2>6
<1> QED BY <1>6, <1>7 DEF IsInjective, c

(* RemoveAt(s, k) holds what s holds at the other places.                  *)
Shift(i, k) == IF i < k THEN i ELSE i + 1

LEMMA RemoveAtShifts ==
  ASSUME NEW S, NEW s \in Seq(S), NEW k \in DOMAIN s
  PROVE  /\ RemoveAt(s, k) \in Seq(S) /\ DOMAIN RemoveAt(s, k) = 1..(Len(s) - 1)
         /\ \A i \in 1..(Len(s) - 1) : /\ RemoveAt(s, k)[i] = s[Shift(i, k)]
                                       /\ Shift(i, k) \in DOMAIN s
<1>1. Len(s) \in Nat /\ DOMAIN s = 1..Len(s) BY LenProperties
<1> DEFINE a == SubSeq(s, 1, k - 1)
           b == SubSeq(s, k + 1, Len(s))
<1>2. a \in Seq(S) /\ Len(a) = k - 1 /\ \A i \in 1..(k - 1) : a[i] = s[i]
  BY <1>1, SubSeqProperties
<1>3. /\ b \in Seq(S) /\ Len(b) = Len(s) - k
      /\ \A i \in 1..(Len(s) - k) : b[i] = s[k + i]
  BY <1>1, SubSeqProperties
<1> HIDE DEF a, b
<1>4. /\ a \o b \in Seq(S) /\ Len(a \o b) = Len(a) + Len(b)
      /\ \A i \in 1..(Len(a) + Len(b)) :
           (a \o b)[i] = IF i <= Len(a) THEN a[i] ELSE b[i - Len(a)]
  BY <1>2, <1>3, ConcatProperties
<1>5. DOMAIN (a \o b) = 1..(Len(s) - 1)
  <2>1. Len(a \o b) = Len(s) - 1 BY <1>1, <1>2, <1>3, <1>4
  <2>2. DOMAIN (a \o b) = 1..Len(a \o b) BY <1>4, LenProperties
  <2> QED BY <2>1, <2>2
<1>6. ASSUME NEW i \in 1..(Len(s) - 1)
      PROVE  (a \o b)[i] = s[Shift(i, k)] /\ Shift(i, k) \in DOMAIN s
  <2>1. CASE i < k BY <2>1, <1>1, <1>2, <1>3, <1>4 DEF Shift
  <2>2. CASE i >= k
    <3>1. i - (k - 1) \in 1..(Len(s) - k) /\ k + (i - (k - 1)) = i + 1
      BY <2>2, <1>1
    <3>2. (a \o b)[i] = b[i - (k - 1)] BY <2>2, <1>1, <1>2, <1>3, <1>4
    <3>3. Shift(i, k) = i + 1 /\ i + 1 \in DOMAIN s BY <2>2, <1>1 DEF Shift
    <3>4. b[i - (k - 1)] = s[i + 1] BY <3>1, <1>3
    <3> QED BY <3>2, <3>3, <3>4
  <2>3. i < k \/ i >= k BY <1>1
  <2> QED BY <2>1, <2>2, <2>3
<1>7. RemoveAt(s, k) = a \o b BY DEF RemoveAt, a, b
<1> QED BY <1>4, <1>5, <1>6, <1>7

-----------------------------------------------------------------------------
(* What a tasklet is about to do tells what it holds.                      *)
LEMMA DoingIs ==
  ASSUME DequeTypeOK, NEW u \in Users
  PROVE  /\ Carries(u) => doing[u].msg \in Nat
         /\ Carries(u) => Acting(u)
         /\ doing[u] = Idle => ~Carries(u) /\ ~Acting(u)
         /\ doing[u] = Waiting => ~Carries(u) /\ ~Acting(u)
<1>1. doing[u] \in {Idle, Waiting} \cup Carrying \cup Fetching BY DEF DequeTypeOK
<1>2. doing[u] \in Carrying => doing[u].msg \in Nat BY DEF Carrying
<1>3. doing[u] \in Fetching => ~Carries(u) BY DEF Fetching, Carries
<1>4. doing[u] = Idle => ~Carries(u) /\ ~Acting(u) BY DEF Idle, Carries, Acting
<1>5. doing[u] = Waiting => ~Carries(u) /\ ~Acting(u) BY DEF Waiting, Carries, Acting
<1>6. Carries(u) => Acting(u) BY DEF Carries, Acting
<1> QED BY <1>1, <1>2, <1>3, <1>4, <1>5, <1>6

(* The kinds of things a tasklet may be about to do.                       *)
LEMMA Kinds ==
  /\ Idle.at = "python" /\ Waiting.at = "waiting"
  /\ \A m \in Nat, a \in {"append", "super_send"} :
       Send(a, m) \in Carrying /\ Send(a, m).at = a /\ Send(a, m).msg = m
  /\ \A a \in {"popleft", "super_receive"} : Receive(a) \in Fetching /\ Receive(a).at = a
BY DEF Idle, Waiting, Send, Receive, Carrying, Fetching

(* The initial states.                                                     *)
LEMMA DequeInvInit == DequeInit => DequeInv
<1> SUFFICES ASSUME DequeInit PROVE DequeInv OBVIOUS
<1>1. DequeTypeOK
  <2>1. doing \in [Users -> {Idle, Waiting} \cup Carrying \cup Fetching] BY DEF DequeInit
  <2>2. threads \in BOOLEAN BY QueueChannelAssumption DEF DequeInit
  <2>3. \A S : <<>> \in Seq(S) OBVIOUS
  <2>4. /\ data_queue \in Seq(Nat) /\ accepted \in Seq(Nat) /\ delivered \in Seq(Nat)
        /\ receivers \in Seq(Users) /\ sends \in Nat /\ closing \in BOOLEAN
    BY <2>3 DEF DequeInit
  <2>5. senders \in Seq([who : Users, msg : Nat]) BY <2>3 DEF DequeInit
  <2> QED BY <2>1, <2>2, <2>4, <2>5 DEF DequeTypeOK
<1>2. \A u \in Users : doing[u].at = "python" BY Kinds DEF DequeInit
<1>3. DOMAIN senders = {} BY DEF DequeInit
<1>4. OnTheWay BY <1>2, <1>3 DEF OnTheWay, Carries
<1>5. ToSet(<<>>) = {} /\ IsInjective(<<>>) BY DEF ToSet, IsInjective
<1>6. Split(accepted, delivered, data_queue, sends) BY <1>5 DEF Split, DequeInit
<1>7. <<>> \o <<>> = <<>> OBVIOUS
<1>8. OneThread BY <1>2, <1>7 DEF OneThread, DequeInit, Acting
<1> QED BY <1>1, <1>4, <1>6, <1>8 DEF DequeInv

(* On one thread, a tasklet that may run is the only one that acts.        *)
LEMMA Alone ==
  ASSUME NEW u \in Users, MayRun(u), ~threads, NEW v \in Users, Acting(v)
  PROVE  v = u
BY DEF MayRun

LEMMA SendLooksStep ==
  ASSUME DequeInv, NEW u \in Users, SendLooks(u) PROVE DequeInv'
<1> USE DEF DequeInv
<1>1. /\ doing[u] = Idle /\ MayRun(u) /\ sends' = sends + 1 /\ sends \in Nat
      /\ UNCHANGED <<data_queue, receivers, senders, closing, accepted, delivered, threads>>
  BY DEF SendLooks, DequeTypeOK
<1>2. PICK a \in {"append", "super_send"} :
         /\ doing' = [doing EXCEPT ![u] = Send(a, sends + 1)]
         /\ a = "append" <=> QueuesUp
  BY <1>1 DEF SendLooks, Does
<1>3. PICK new : new = Send(a, sends + 1) OBVIOUS
<1>4. new \in Carrying /\ new.at = a /\ new.msg = sends + 1 BY <1>1, <1>3, Kinds
<1>5. \A v \in Users : doing'[v] = IF v = u THEN new ELSE doing[v]
  BY <1>2, <1>3 DEF DequeTypeOK
<1>6. DequeTypeOK' BY <1>1, <1>2, <1>3, <1>4 DEF DequeTypeOK
<1>7. OnTheWay'
  <2>1. \A v \in Users : v # u => (Carries(v)' <=> Carries(v)) BY <1>5 DEF Carries
  <2>2. \A m : Pending(m, sends, accepted) => Pending(m, sends', accepted') /\ m # sends + 1
    BY <1>1 DEF Pending
  <2>3. Pending(sends + 1, sends', accepted') BY <1>1 DEF Pending, Split
  <2>4. \A v \in Users : Carries(v)' => Pending(doing'[v].msg, sends', accepted')
    BY <1>4, <1>5, <2>1, <2>2, <2>3 DEF OnTheWay
  <2>5. \A i \in DOMAIN senders' : Pending(senders'[i].msg, sends', accepted')
    BY <1>1, <2>2 DEF OnTheWay
  <2>6. \A v, w \in Users : Carries(v)' /\ Carries(w)' /\ v # w => doing'[v].msg # doing'[w].msg
    BY <1>4, <1>5, <2>1, <2>2 DEF OnTheWay
  <2>7. \A v \in Users, i \in DOMAIN senders' : Carries(v)' => doing'[v].msg # senders'[i].msg
    BY <1>1, <1>4, <1>5, <2>1, <2>2 DEF OnTheWay
  <2> QED BY <1>1, <2>4, <2>5, <2>6, <2>7 DEF OnTheWay
<1>8. Split(accepted, delivered, data_queue, sends)' BY <1>1 DEF Split
<1>9. OneThread'
  <2>1. SUFFICES ASSUME ~threads PROVE OneThread' BY <1>1 DEF OneThread
  <2>2. \A v \in Users : Acting(v)' => v = u BY <1>5, <1>1, <2>1, Alone DEF Acting
  <2>3. a = "append" => receivers = <<>>
    BY <1>2, <2>1, EmptySeq DEF QueuesUp, BaseBalance, OneThread, DequeTypeOK
  <2>4. a = "super_send" => receivers # <<>> \/ closing
    BY <1>2, <2>1 DEF QueuesUp, BaseBalance, OneThread, DequeTypeOK
  <2>5. \A v \in Users : v # u => ~Acting(v) BY <1>1, <2>1, Alone
  <2>6. \A v \in Users : v # u => doing'[v].at \in {"python", "waiting"}
    BY <1>5, <2>5 DEF Acting
  <2> QED BY <1>1, <1>4, <1>5, <2>1, <2>2, <2>3, <2>4, <2>6 DEF OneThread
<1> QED BY <1>6, <1>7, <1>8, <1>9

LEMMA ReceiveLooksStep ==
  ASSUME DequeInv, NEW u \in Users, ReceiveLooks(u) PROVE DequeInv'
<1> USE DEF DequeInv
<1>1. /\ doing[u] = Idle /\ MayRun(u)
      /\ UNCHANGED <<data_queue, receivers, senders, closing, accepted, delivered, sends, threads>>
  BY DEF ReceiveLooks
<1>2. PICK a \in {"popleft", "super_receive"} :
         /\ doing' = [doing EXCEPT ![u] = Receive(a)]
         /\ a = "super_receive" => data_queue = <<>>
  BY <1>1 DEF ReceiveLooks, Does
<1>3. PICK new : new = Receive(a) OBVIOUS
<1>4. new \in Fetching /\ new.at = a BY <1>3, Kinds
<1>5. \A v \in Users : doing'[v] = IF v = u THEN new ELSE doing[v]
  BY <1>2, <1>3 DEF DequeTypeOK
<1>6. DequeTypeOK' BY <1>1, <1>2, <1>3, <1>4 DEF DequeTypeOK
<1>7. OnTheWay'
  <2>1. \A v \in Users : Carries(v)' => Carries(v) /\ doing'[v] = doing[v]
    BY <1>4, <1>5 DEF Carries
  <2>2. \A m : Pending(m, sends, accepted) => Pending(m, sends', accepted') BY <1>1
  <2> QED BY <1>1, <2>1, <2>2 DEF OnTheWay
<1>8. Split(accepted, delivered, data_queue, sends)' BY <1>1 DEF Split
<1>9. OneThread'
  <2>1. SUFFICES ASSUME ~threads PROVE OneThread' BY <1>1 DEF OneThread
  <2>2. \A v \in Users : Acting(v)' => v = u BY <1>5, <1>1, <2>1, Alone DEF Acting
  <2>3. \A v \in Users : v # u => ~Acting(v) BY <1>1, <2>1, Alone
  <2>4. \A v \in Users : v # u => doing'[v].at \in {"python", "waiting"}
    BY <1>5, <2>3 DEF Acting
  <2> QED BY <1>1, <1>2, <1>4, <1>5, <2>1, <2>2, <2>4 DEF OneThread
<1> QED BY <1>6, <1>7, <1>8, <1>9

(* A message that is taken joins those delivered or those in the deque.    *)
LEMMA TakeSplit ==
  ASSUME NEW acc \in Seq(Nat), NEW del \in Seq(Nat), NEW queue \in Seq(Nat), NEW n \in Nat,
         NEW m \in Nat, Pending(m, n, acc), Split(acc, del, queue, n)
  PROVE  /\ Split(Append(acc, m), Append(del, m), queue, n)
         /\ Split(Append(acc, m), del, Append(queue, m), n)
<1>1. m \notin ToSet(del) /\ m \notin ToSet(queue) /\ m \in 1..n BY DEF Split, Pending
<1>2. ToSet(Append(acc, m)) = ToSet(acc) \cup {m} BY ToSetAppend
<1>3. ToSet(Append(del, m)) = ToSet(del) \cup {m} /\ (IsInjective(del) => IsInjective(Append(del, m)))
  BY <1>1, ToSetAppend
<1>4. ToSet(Append(queue, m)) = ToSet(queue) \cup {m}
      /\ (IsInjective(queue) => IsInjective(Append(queue, m)))
  BY <1>1, ToSetAppend
<1> QED BY <1>1, <1>2, <1>3, <1>4 DEF Split

(* popleft moves a message from the deque to those delivered.              *)
LEMMA PopSplit ==
  ASSUME NEW acc \in Seq(Nat), NEW del \in Seq(Nat), NEW queue \in Seq(Nat), NEW n \in Nat,
         queue # <<>>, Split(acc, del, queue, n)
  PROVE  Split(acc, Append(del, Head(queue)), Tail(queue), n)
<1>1. /\ Head(queue) \in Nat /\ ToSet(queue) = {Head(queue)} \cup ToSet(Tail(queue))
      /\ IsInjective(Tail(queue)) /\ Head(queue) \notin ToSet(Tail(queue))
  BY ToSetTail DEF Split
<1>2. Head(queue) \notin ToSet(del) BY <1>1 DEF Split
<1>3. /\ ToSet(Append(del, Head(queue))) = ToSet(del) \cup {Head(queue)}
      /\ IsInjective(Append(del, Head(queue)))
  BY <1>1, <1>2, ToSetAppend DEF Split
<1> QED BY <1>1, <1>2, <1>3 DEF Split

(* A step that sends nothing new, and takes the messages D that nobody     *)
(* carries afterwards.  Place i of senders was place f[i].                 *)
LEMMA WayShrinks ==
  ASSUME OnTheWay, sends' = sends, NEW D, ToSet(accepted') = ToSet(accepted) \cup D,
         \A v \in Users : Carries(v)' =>
            Carries(v) /\ doing'[v] = doing[v] /\ doing[v].msg \notin D,
         NEW f, IsInjective(f), DOMAIN f = DOMAIN senders',
         \A i \in DOMAIN senders' : /\ f[i] \in DOMAIN senders /\ senders'[i] = senders[f[i]]
                                    /\ senders[f[i]].msg \notin D
  PROVE  OnTheWay'
<1>1. \A m : Pending(m, sends, accepted) /\ m \notin D => Pending(m, sends', accepted')
  BY DEF Pending
<1>2. \A v \in Users : Carries(v)' => Pending(doing'[v].msg, sends', accepted')
  BY <1>1 DEF OnTheWay
<1>3. \A i \in DOMAIN senders' : Pending(senders'[i].msg, sends', accepted')
  BY <1>1 DEF OnTheWay
<1>4. \A v, w \in Users : Carries(v)' /\ Carries(w)' /\ v # w => doing'[v].msg # doing'[w].msg
  BY DEF OnTheWay
<1>5. \A i, j \in DOMAIN senders' : i # j => f[i] # f[j] BY DEF IsInjective
<1>6. \A i, j \in DOMAIN senders' : i # j => senders'[i].msg # senders'[j].msg
  BY <1>5 DEF OnTheWay
<1>7. \A v \in Users, i \in DOMAIN senders' : Carries(v)' => doing'[v].msg # senders'[i].msg
  BY DEF OnTheWay
<1> QED BY <1>2, <1>3, <1>4, <1>6, <1>7 DEF OnTheWay

(* The same when nobody joins or leaves senders.                           *)
LEMMA WayStays ==
  ASSUME OnTheWay, sends' = sends, senders' = senders,
         NEW D, ToSet(accepted') = ToSet(accepted) \cup D,
         \A v \in Users : Carries(v)' =>
            Carries(v) /\ doing'[v] = doing[v] /\ doing[v].msg \notin D,
         \A i \in DOMAIN senders : senders[i].msg \notin D
  PROVE  OnTheWay'
<1> DEFINE f == [i \in DOMAIN senders |-> i]
<1>1. IsInjective(f) /\ DOMAIN f = DOMAIN senders' BY DEF IsInjective
<1>2. \A i \in DOMAIN senders' : /\ f[i] \in DOMAIN senders /\ senders'[i] = senders[f[i]]
                                 /\ senders[f[i]].msg \notin D
  OBVIOUS
<1> HIDE DEF f
<1> QED BY <1>1, <1>2, WayShrinks

(* The same when nothing is taken either.                                  *)
LEMMA WayUntouched ==
  ASSUME OnTheWay, sends' = sends, senders' = senders, accepted' = accepted,
         \A v \in Users : Carries(v)' => Carries(v) /\ doing'[v] = doing[v]
  PROVE  OnTheWay'
<1>1. PICK D : D = {} OBVIOUS
<1>2. ToSet(accepted') = ToSet(accepted) \cup D /\ \A x : x \notin D BY <1>1
<1> QED BY <1>2, WayStays

(* On one thread, a tasklet that ends its turn leaves nobody acting.       *)
LEMMA Quiet ==
  ASSUME OneThread, NEW u \in Users, MayRun(u), ~threads, threads' = threads,
         \A v \in Users : \/ doing'[v].at \in {"python", "waiting"}
                          \/ v # u /\ doing'[v] = doing[v],
         senders' = <<>>, data_queue' # <<>> => receivers' = <<>>,
         accepted' = delivered' \o data_queue'
  PROVE  OneThread'
<1>1. \A v \in Users : v # u => doing[v].at \in {"python", "waiting"} BY Alone DEF Acting
<1>2. \A v \in Users : doing'[v].at \in {"python", "waiting"} BY <1>1
<1>3. \A v \in Users : ~Acting(v)' BY <1>2 DEF Acting
<1> QED BY <1>2, <1>3 DEF OneThread

LEMMA SendAppendsStep ==
  ASSUME DequeInv, NEW u \in Users, SendAppends(u) PROVE DequeInv'
<1> USE DEF DequeInv
<1>1. PICK m : m = doing[u].msg OBVIOUS
<1>2. /\ doing[u].at = "append" /\ MayRun(u) /\ Carries(u)
      /\ data_queue' = Append(data_queue, m) /\ accepted' = Append(accepted, m)
      /\ doing' = [doing EXCEPT ![u] = Idle]
      /\ UNCHANGED <<receivers, senders, closing, delivered, sends, threads>>
  BY <1>1 DEF SendAppends, Does, Carries
<1>3. m \in Nat /\ Pending(m, sends, accepted)
  BY <1>1, <1>2, DoingIs DEF OnTheWay
<1>4. \A v \in Users : doing'[v] = IF v = u THEN Idle ELSE doing[v] BY <1>2 DEF DequeTypeOK
<1>5. DequeTypeOK'
  <2>1. data_queue' \in Seq(Nat) /\ accepted' \in Seq(Nat) BY <1>2, <1>3, ToSetAppend DEF DequeTypeOK
  <2> QED BY <1>2, <2>1 DEF DequeTypeOK
<1>6. ToSet(accepted') = ToSet(accepted) \cup {m}
  <2>1. accepted \in Seq(Nat) BY DEF DequeTypeOK
  <2> QED BY <1>2, <1>3, <2>1, ToSetAppend
<1>7. \A v \in Users : Carries(v)' =>
         Carries(v) /\ doing'[v] = doing[v] /\ doing[v].msg \notin {m}
  BY <1>1, <1>2, <1>4, Kinds DEF Carries, OnTheWay
<1>8. OnTheWay'
  BY <1>1, <1>2, <1>6, <1>7, WayStays DEF OnTheWay
<1>9. Split(accepted, delivered, data_queue, sends)' BY <1>2, <1>3, TakeSplit DEF DequeTypeOK
<1>10. OneThread'
  <2>1. SUFFICES ASSUME ~threads PROVE OneThread' BY <1>2 DEF OneThread
  <2>2. receivers = <<>> /\ senders = <<>> /\ accepted = delivered \o data_queue
    BY <1>2, <2>1 DEF OneThread
  <2>3. Append(delivered \o data_queue, m) = delivered \o Append(data_queue, m)
    <3>1. delivered \in Seq(Nat) /\ data_queue \in Seq(Nat) BY DEF DequeTypeOK
    <3>2. m \in Nat BY <1>3
    <3> QED BY <3>1, <3>2, AppendOverConcat
  <2> QED BY <1>2, <1>4, <2>1, <2>2, <2>3, Quiet, Kinds
<1> QED BY <1>5, <1>8, <1>9, <1>10

LEMMA ReceivePopsStep ==
  ASSUME DequeInv, NEW u \in Users, ReceivePops(u) PROVE DequeInv'
<1> USE DEF DequeInv
<1>1. /\ MayRun(u) /\ doing' = [doing EXCEPT ![u] = Idle]
      /\ UNCHANGED <<receivers, senders, closing, accepted, sends, threads>>
  BY DEF ReceivePops, Does
<1>2. \/ UNCHANGED <<data_queue, delivered>>
      \/ /\ data_queue # <<>> /\ data_queue' = Tail(data_queue)
         /\ delivered' = Append(delivered, Head(data_queue))
  BY DEF ReceivePops, NextInQueue, Popped
<1>3. \A v \in Users : doing'[v] = IF v = u THEN Idle ELSE doing[v] BY <1>1 DEF DequeTypeOK
<1>4. data_queue' \in Seq(Nat) /\ delivered' \in Seq(Nat)
  <2>1. data_queue \in Seq(Nat) /\ delivered \in Seq(Nat) BY DEF DequeTypeOK
  <2>2. ASSUME data_queue # <<>>
        PROVE  /\ Tail(data_queue) \in Seq(Nat)
               /\ Append(delivered, Head(data_queue)) \in Seq(Nat)
    <3>1. Tail(data_queue) \in Seq(Nat) /\ Head(data_queue) \in Nat
      BY <2>1, <2>2, ToSetTail
    <3> QED BY <2>1, <3>1, ToSetAppend
  <2> QED BY <1>2, <2>1, <2>2
<1>5. DequeTypeOK' BY <1>1, <1>4 DEF DequeTypeOK
<1>6. \A v \in Users : Carries(v)' => Carries(v) /\ doing'[v] = doing[v]
  BY <1>3, Kinds DEF Carries
<1>7. OnTheWay' BY <1>1, <1>6, WayUntouched
<1>8. Split(accepted, delivered, data_queue, sends)' BY <1>1, <1>2, PopSplit DEF DequeTypeOK
<1>9. OneThread'
  <2>1. SUFFICES ASSUME ~threads PROVE OneThread' BY <1>1 DEF OneThread
  <2>2. /\ senders = <<>> /\ accepted = delivered \o data_queue
        /\ data_queue # <<>> => receivers = <<>>
    BY <2>1 DEF OneThread
  <2>3. data_queue # <<>> =>
          Append(delivered, Head(data_queue)) \o Tail(data_queue) = delivered \o data_queue
    BY DEF DequeTypeOK
  <2>4. accepted' = delivered' \o data_queue' BY <1>1, <1>2, <2>2, <2>3
  <2>5. data_queue' # <<>> => receivers' = <<>> BY <1>1, <1>2, <2>2
  <2>6. \A v \in Users : \/ doing'[v].at \in {"python", "waiting"}
                         \/ v # u /\ doing'[v] = doing[v]
    BY <1>3, Kinds
  <2> QED BY <1>1, <2>1, <2>2, <2>4, <2>5, <2>6, Quiet
<1> QED BY <1>5, <1>7, <1>8, <1>9

LEMMA CloseOrOpenStep ==
  ASSUME DequeInv, NEW u \in Users, CloseOrOpen(u) PROVE DequeInv'
<1> USE DEF DequeInv
<1>1. /\ doing[u] = Idle /\ MayRun(u) /\ closing' = ~closing
      /\ UNCHANGED <<data_queue, receivers, senders, doing, accepted, delivered, sends, threads>>
  BY DEF CloseOrOpen
<1>2. DequeTypeOK' BY <1>1 DEF DequeTypeOK
<1>3. OnTheWay' BY <1>1 DEF OnTheWay, Carries
<1>4. Split(accepted, delivered, data_queue, sends)' BY <1>1
<1>5. OneThread'
  <2>1. SUFFICES ASSUME ~threads PROVE OneThread' BY <1>1 DEF OneThread
  <2>2. doing'[u].at = "python" BY <1>1, Kinds
  <2>3. /\ senders' = <<>> /\ accepted' = delivered' \o data_queue'
        /\ (data_queue' # <<>> => receivers' = <<>>)
    BY <1>1, <2>1 DEF OneThread
  <2> QED BY <1>1, <2>1, <2>2, <2>3, Quiet
<1> QED BY <1>2, <1>3, <1>4, <1>5

(* super().send() hands the message to the receiver that waits longest, or *)
(* raises, or blocks.                                                      *)
LEMMA SuperSendStep ==
  ASSUME DequeInv, NEW u \in Users, SuperSend(u) PROVE DequeInv'
<1> USE DEF DequeInv
<1>1. PICK m : m = doing[u].msg OBVIOUS
<1>2. /\ doing[u].at = "super_send" /\ MayRun(u) /\ Carries(u)
      /\ UNCHANGED <<data_queue, closing, sends, threads>>
  BY DEF SuperSend, Carries
<1>3. m \in Nat /\ Pending(m, sends, accepted)
  BY <1>1, <1>2, DoingIs DEF OnTheWay
<1>4. CASE /\ receivers # <<>> /\ receivers' = Tail(receivers)
           /\ doing' = [doing EXCEPT ![u] = Idle, ![Head(receivers)] = Idle]
           /\ accepted' = Append(accepted, m) /\ delivered' = Append(delivered, m)
           /\ UNCHANGED senders
  <2>1. Tail(receivers) \in Seq(Users) /\ Head(receivers) \in Users
    BY <1>4, ToSetTail DEF DequeTypeOK
  <2>2. \A v \in Users : doing'[v] = IF v = u \/ v = Head(receivers) THEN Idle ELSE doing[v]
    BY <1>4, <2>1 DEF DequeTypeOK
  <2>3. accepted' \in Seq(Nat) /\ delivered' \in Seq(Nat)
    BY <1>3, <1>4, ToSetAppend DEF DequeTypeOK
  <2>4. doing' \in [Users -> {Idle, Waiting} \cup Carrying \cup Fetching]
    BY <1>4, <2>1 DEF DequeTypeOK
  <2>5. DequeTypeOK' BY <1>2, <1>4, <2>1, <2>3, <2>4 DEF DequeTypeOK
  <2>6. ToSet(accepted') = ToSet(accepted) \cup {m}
    <3>1. accepted \in Seq(Nat) BY DEF DequeTypeOK
    <3>2. m \in Nat /\ accepted' = Append(accepted, m) BY <1>3, <1>4
    <3> QED BY <3>1, <3>2, ToSetAppend
  <2>7. \A v \in Users : Carries(v)' =>
           Carries(v) /\ doing'[v] = doing[v] /\ doing[v].msg \notin {m}
    BY <1>1, <1>2, <2>2, Kinds DEF Carries, OnTheWay
  <2>8. \A i \in DOMAIN senders : senders[i].msg \notin {m} BY <1>1, <1>2 DEF OnTheWay
  <2>9. OnTheWay' BY <1>2, <1>4, <2>6, <2>7, <2>8, WayStays
  <2>10. Split(accepted, delivered, data_queue, sends)'
    BY <1>2, <1>3, <1>4, TakeSplit DEF DequeTypeOK
  <2>11. OneThread'
    <3>1. SUFFICES ASSUME ~threads PROVE OneThread' BY <1>2 DEF OneThread
    <3>2. /\ senders' = <<>> /\ accepted = delivered \o data_queue /\ data_queue = <<>>
      BY <1>4, <3>1 DEF OneThread
    <3>3. accepted = delivered BY <3>2, ConcatEmptySeq DEF DequeTypeOK
    <3>4. accepted' = delivered' \o data_queue'
      BY <1>2, <1>4, <2>3, <3>2, <3>3, ConcatEmptySeq
    <3>5. \A v \in Users : \/ doing'[v].at \in {"python", "waiting"}
                           \/ v # u /\ doing'[v] = doing[v]
      BY <2>2, Kinds
    <3> QED BY <1>2, <3>1, <3>2, <3>4, <3>5, Quiet
  <2> QED BY <2>5, <2>9, <2>10, <2>11
<1>5. CASE /\ receivers = <<>> /\ closing /\ doing' = [doing EXCEPT ![u] = Idle]
           /\ UNCHANGED <<receivers, senders, accepted, delivered>>
  <2>1. \A v \in Users : doing'[v] = IF v = u THEN Idle ELSE doing[v] BY <1>5 DEF DequeTypeOK
  <2>2. DequeTypeOK' BY <1>2, <1>5 DEF DequeTypeOK
  <2>3. \A v \in Users : Carries(v)' => Carries(v) /\ doing'[v] = doing[v]
    BY <2>1, Kinds DEF Carries
  <2>5. OnTheWay' BY <1>2, <1>5, <2>3, WayUntouched
  <2>6. Split(accepted, delivered, data_queue, sends)' BY <1>2, <1>5
  <2>7. OneThread'
    <3>1. SUFFICES ASSUME ~threads PROVE OneThread' BY <1>2 DEF OneThread
    <3>2. /\ senders' = <<>> /\ accepted' = delivered' \o data_queue'
          /\ (data_queue' # <<>> => receivers' = <<>>)
      BY <1>2, <1>5, <3>1 DEF OneThread
    <3>3. \A v \in Users : \/ doing'[v].at \in {"python", "waiting"}
                           \/ v # u /\ doing'[v] = doing[v]
      BY <2>1, Kinds
    <3> QED BY <1>2, <3>1, <3>2, <3>3, Quiet
  <2> QED BY <2>2, <2>5, <2>6, <2>7
<1>6. CASE /\ receivers = <<>> /\ ~closing /\ doing' = [doing EXCEPT ![u] = Waiting]
           /\ senders' = Append(senders, [who |-> u, msg |-> m])
           /\ UNCHANGED <<receivers, accepted, delivered>>
  <2>1. \A v \in Users : doing'[v] = IF v = u THEN Waiting ELSE doing[v] BY <1>6 DEF DequeTypeOK
  <2>2. PICK w : w = [who |-> u, msg |-> m] OBVIOUS
  <2>3. w \in [who : Users, msg : Nat] /\ w.msg = m BY <1>3, <2>2
  <2>4. senders \in Seq([who : Users, msg : Nat]) BY DEF DequeTypeOK
  <2>5. /\ senders' \in Seq([who : Users, msg : Nat]) /\ Len(senders') = Len(senders) + 1
        /\ \A i \in 1..Len(senders) : senders'[i] = senders[i]
        /\ senders'[Len(senders) + 1] = w
    BY <1>6, <2>2, <2>3, <2>4, AppendProperties
  <2>6. DequeTypeOK' BY <1>2, <1>6, <2>5 DEF DequeTypeOK
  <2>7. /\ Len(senders) \in Nat /\ DOMAIN senders = 1..Len(senders)
        /\ DOMAIN senders' = 1..(Len(senders) + 1)
    BY <2>4, <2>5, LenProperties
  <2>8. \A i \in DOMAIN senders' :
          \/ i \in DOMAIN senders /\ senders'[i].msg = senders[i].msg
          \/ i = Len(senders) + 1 /\ i \notin DOMAIN senders /\ senders'[i].msg = m
    BY <2>3, <2>5, <2>7
  <2>9. \A v \in Users : Carries(v)' => /\ Carries(v) /\ doing'[v].msg = doing[v].msg
                                       /\ doing[v].msg # m
    BY <1>1, <1>2, <2>1, Kinds DEF Carries, OnTheWay
  <2>10. \A i \in DOMAIN senders : senders[i].msg # m BY <1>1, <1>2 DEF OnTheWay
  <2>11. OnTheWay'
    <3>1. \A n : Pending(n, sends, accepted) => Pending(n, sends', accepted') BY <1>2, <1>6
    <3>2. \A v \in Users : Carries(v)' => Pending(doing'[v].msg, sends', accepted')
      BY <2>9, <3>1 DEF OnTheWay
    <3>3. \A i \in DOMAIN senders' : Pending(senders'[i].msg, sends', accepted')
      BY <1>3, <2>8, <3>1 DEF OnTheWay
    <3>4. \A v, x \in Users : Carries(v)' /\ Carries(x)' /\ v # x => doing'[v].msg # doing'[x].msg
      BY <2>9 DEF OnTheWay
    <3>5. \A i, j \in DOMAIN senders' : i # j => senders'[i].msg # senders'[j].msg
      BY <2>8, <2>10 DEF OnTheWay
    <3>6. \A v \in Users, i \in DOMAIN senders' : Carries(v)' => doing'[v].msg # senders'[i].msg
      BY <2>8, <2>9 DEF OnTheWay
    <3> QED BY <3>2, <3>3, <3>4, <3>5, <3>6 DEF OnTheWay
  <2>12. Split(accepted, delivered, data_queue, sends)' BY <1>2, <1>6
  <2>13. OneThread' BY <1>2, <1>6 DEF OneThread
  <2> QED BY <2>6, <2>11, <2>12, <2>13
<1>7. \/ /\ receivers # <<>> /\ receivers' = Tail(receivers)
         /\ doing' = [doing EXCEPT ![u] = Idle, ![Head(receivers)] = Idle]
         /\ accepted' = Append(accepted, m) /\ delivered' = Append(delivered, m)
         /\ UNCHANGED senders
      \/ /\ receivers = <<>> /\ closing /\ doing' = [doing EXCEPT ![u] = Idle]
         /\ UNCHANGED <<receivers, senders, accepted, delivered>>
      \/ /\ receivers = <<>> /\ ~closing /\ doing' = [doing EXCEPT ![u] = Waiting]
         /\ senders' = Append(senders, [who |-> u, msg |-> m])
         /\ UNCHANGED <<receivers, accepted, delivered>>
  BY <1>1 DEF SuperSend, Does
<1> QED BY <1>4, <1>5, <1>6, <1>7

(* super().receive() takes the message of the sender that waits longest,   *)
(* or raises, or blocks.                                                   *)
LEMMA SuperReceiveStep ==
  ASSUME DequeInv, NEW u \in Users, SuperReceive(u) PROVE DequeInv'
<1> USE DEF DequeInv
<1>1. /\ doing[u].at = "super_receive" /\ MayRun(u)
      /\ UNCHANGED <<data_queue, closing, sends, threads>>
  BY DEF SuperReceive
<1>2. PICK s : s = Head(senders) OBVIOUS
<1>3. CASE /\ senders # <<>> /\ senders' = Tail(senders)
           /\ doing' = [doing EXCEPT ![u] = Idle, ![s.who] = Idle]
           /\ accepted' = Append(accepted, s.msg) /\ delivered' = Append(delivered, s.msg)
           /\ UNCHANGED receivers
  <2>1. senders \in Seq([who : Users, msg : Nat]) BY DEF DequeTypeOK
  <2>2. /\ Tail(senders) \in Seq([who : Users, msg : Nat])
        /\ s \in [who : Users, msg : Nat]
    BY <1>2, <1>3, <2>1, ToSetTail
  <2>3. PICK m \in Nat : m = s.msg BY <2>2
  <2>4. \A v \in Users : doing'[v] = IF v = u \/ v = s.who THEN Idle ELSE doing[v]
    BY <1>3, <2>2 DEF DequeTypeOK
  <2>5. accepted \in Seq(Nat) /\ delivered \in Seq(Nat) BY DEF DequeTypeOK
  <2>6. /\ accepted' = Append(accepted, m) /\ delivered' = Append(delivered, m)
        /\ accepted' \in Seq(Nat) /\ delivered' \in Seq(Nat)
        /\ ToSet(accepted') = ToSet(accepted) \cup {m}
    BY <1>3, <2>3, <2>5, ToSetAppend
  <2>7. DequeTypeOK' BY <1>1, <1>3, <2>2, <2>6 DEF DequeTypeOK
  <2>8. /\ Len(senders) \in Nat \ {0} /\ DOMAIN senders = 1..Len(senders) /\ s = senders[1]
        /\ Len(senders') = Len(senders) - 1
        /\ \A i \in 1..Len(senders') : senders'[i] = senders[i + 1]
    BY <1>2, <1>3, <2>1, HeadTailProperties, LenProperties, EmptySeq
  <2>9. DOMAIN senders' = 1..(Len(senders) - 1)
    BY <1>3, <2>2, <2>8, LenProperties
  <2>10. Pending(m, sends, accepted) BY <2>3, <2>8 DEF OnTheWay
  <2>11. OnTheWay'
    <3>1. PICK f : f = [i \in 1..(Len(senders) - 1) |-> i + 1] OBVIOUS
    <3>2. DOMAIN f = DOMAIN senders' /\ IsInjective(f) BY <2>8, <2>9, <3>1 DEF IsInjective
    <3>3. \A i \in DOMAIN senders' :
            f[i] \in DOMAIN senders /\ f[i] # 1 /\ senders'[i] = senders[f[i]]
      BY <2>8, <2>9, <3>1
    <3>4. \A i \in DOMAIN senders' : senders[f[i]].msg \notin {m}
      BY <2>3, <2>8, <3>3 DEF OnTheWay
    <3>5. \A v \in Users : Carries(v)' =>
             Carries(v) /\ doing'[v] = doing[v] /\ doing[v].msg \notin {m}
      BY <2>3, <2>4, <2>8, Kinds DEF Carries, OnTheWay
    <3> QED BY <1>1, <2>6, <3>2, <3>3, <3>4, <3>5, WayShrinks
  <2>12. Split(accepted, delivered, data_queue, sends)'
    BY <1>1, <2>5, <2>6, <2>10, TakeSplit DEF DequeTypeOK
  <2>13. OneThread' BY <1>1, <1>3 DEF OneThread
  <2> QED BY <2>7, <2>11, <2>12, <2>13
<1>4. CASE /\ senders = <<>> /\ closing /\ doing' = [doing EXCEPT ![u] = Idle]
           /\ UNCHANGED <<receivers, senders, accepted, delivered>>
  <2>1. \A v \in Users : doing'[v] = IF v = u THEN Idle ELSE doing[v] BY <1>4 DEF DequeTypeOK
  <2>2. DequeTypeOK' BY <1>1, <1>4 DEF DequeTypeOK
  <2>3. \A v \in Users : Carries(v)' => Carries(v) /\ doing'[v] = doing[v]
    BY <2>1, Kinds DEF Carries
  <2>4. OnTheWay' BY <1>1, <1>4, <2>3, WayUntouched
  <2>5. Split(accepted, delivered, data_queue, sends)' BY <1>1, <1>4
  <2>6. OneThread'
    <3>1. SUFFICES ASSUME ~threads PROVE OneThread' BY <1>1 DEF OneThread
    <3>2. /\ senders' = <<>> /\ accepted' = delivered' \o data_queue'
          /\ (data_queue' # <<>> => receivers' = <<>>)
      BY <1>1, <1>4, <3>1 DEF OneThread
    <3>3. \A v \in Users : \/ doing'[v].at \in {"python", "waiting"}
                           \/ v # u /\ doing'[v] = doing[v]
      BY <2>1, Kinds
    <3> QED BY <1>1, <3>1, <3>2, <3>3, Quiet
  <2> QED BY <2>2, <2>4, <2>5, <2>6
<1>5. CASE /\ senders = <<>> /\ ~closing /\ doing' = [doing EXCEPT ![u] = Waiting]
           /\ receivers' = Append(receivers, u)
           /\ UNCHANGED <<senders, accepted, delivered>>
  <2>1. \A v \in Users : doing'[v] = IF v = u THEN Waiting ELSE doing[v] BY <1>5 DEF DequeTypeOK
  <2>2. receivers' \in Seq(Users) BY <1>5, ToSetAppend DEF DequeTypeOK
  <2>3. DequeTypeOK' BY <1>1, <1>5, <2>2 DEF DequeTypeOK
  <2>4. \A v \in Users : Carries(v)' => Carries(v) /\ doing'[v] = doing[v]
    BY <2>1, Kinds DEF Carries
  <2>5. OnTheWay' BY <1>1, <1>5, <2>4, WayUntouched
  <2>6. Split(accepted, delivered, data_queue, sends)' BY <1>1, <1>5
  <2>7. OneThread'
    <3>1. SUFFICES ASSUME ~threads PROVE OneThread' BY <1>1 DEF OneThread
    <3>2. /\ senders' = <<>> /\ accepted' = delivered' \o data_queue' /\ data_queue' = <<>>
      BY <1>1, <1>5, <3>1 DEF OneThread
    <3>3. \A v \in Users : \/ doing'[v].at \in {"python", "waiting"}
                           \/ v # u /\ doing'[v] = doing[v]
      BY <2>1, Kinds
    <3> QED BY <1>1, <3>1, <3>2, <3>3, Quiet
  <2> QED BY <2>3, <2>5, <2>6, <2>7
<1>6. \/ /\ senders # <<>> /\ senders' = Tail(senders)
         /\ doing' = [doing EXCEPT ![u] = Idle, ![s.who] = Idle]
         /\ accepted' = Append(accepted, s.msg) /\ delivered' = Append(delivered, s.msg)
         /\ UNCHANGED receivers
      \/ /\ senders = <<>> /\ closing /\ doing' = [doing EXCEPT ![u] = Idle]
         /\ UNCHANGED <<receivers, senders, accepted, delivered>>
      \/ /\ senders = <<>> /\ ~closing /\ doing' = [doing EXCEPT ![u] = Waiting]
         /\ receivers' = Append(receivers, u)
         /\ UNCHANGED <<senders, accepted, delivered>>
  BY <1>2 DEF SuperReceive, Does
<1> QED BY <1>3, <1>4, <1>5, <1>6

(* A tasklet that is killed takes its message with it: it was not taken.   *)
LEMMA KilledStep ==
  ASSUME DequeInv, NEW u \in Users, Killed(u) PROVE DequeInv'
<1> USE DEF DequeInv
<1>1. PICK k \in Users : k # u /\ doing[k] = Idle /\ MayRun(k) BY DEF Killed
<1>2. /\ doing[u] = Waiting /\ doing' = [doing EXCEPT ![u] = Idle]
      /\ UNCHANGED <<data_queue, closing, accepted, delivered, sends, threads>>
  BY DEF Killed, Does
<1>3. \A v \in Users : doing'[v] = IF v = u THEN Idle ELSE doing[v] BY <1>2 DEF DequeTypeOK
<1>4. \A v \in Users : Carries(v)' => Carries(v) /\ doing'[v] = doing[v]
  BY <1>3, Kinds DEF Carries
<1>5. Split(accepted, delivered, data_queue, sends)' BY <1>2
<1>6. CASE UNCHANGED senders /\ \E i \in DOMAIN receivers : receivers' = RemoveAt(receivers, i)
  <2>1. PICK i \in DOMAIN receivers : receivers' = RemoveAt(receivers, i) BY <1>6
  <2>2. receivers \in Seq(Users) BY DEF DequeTypeOK
  <2>3. receivers' \in Seq(Users) BY <2>1, <2>2, RemoveAtShifts
  <2>4. receivers # <<>> BY <2>1
  <2>5. DequeTypeOK' BY <1>2, <1>6, <2>3 DEF DequeTypeOK
  <2>6. OnTheWay' BY <1>2, <1>4, <1>6, WayUntouched
  <2>7. OneThread'
    <3>1. SUFFICES ASSUME ~threads PROVE OneThread' BY <1>2 DEF OneThread
    <3>2. /\ senders' = <<>> /\ accepted' = delivered' \o data_queue' /\ data_queue' = <<>>
      BY <1>2, <1>6, <2>4, <3>1 DEF OneThread
    <3>3. \A v \in Users : \/ doing'[v].at \in {"python", "waiting"}
                           \/ v # k /\ doing'[v] = doing[v]
      BY <1>1, <1>3, Kinds
    <3> QED BY <1>1, <1>2, <3>1, <3>2, <3>3, Quiet
  <2> QED BY <1>5, <2>5, <2>6, <2>7
<1>7. CASE UNCHANGED receivers /\ \E i \in DOMAIN senders : senders' = RemoveAt(senders, i)
  <2>1. PICK i \in DOMAIN senders : senders' = RemoveAt(senders, i) BY <1>7
  <2>2. senders \in Seq([who : Users, msg : Nat]) /\ Len(senders) \in Nat /\ i \in Int
    BY LenProperties DEF DequeTypeOK
  <2>3. /\ senders' \in Seq([who : Users, msg : Nat]) /\ DOMAIN senders' = 1..(Len(senders) - 1)
        /\ \A j \in 1..(Len(senders) - 1) : /\ senders'[j] = senders[Shift(j, i)]
                                            /\ Shift(j, i) \in DOMAIN senders
    BY <2>1, <2>2, RemoveAtShifts
  <2>4. DequeTypeOK' BY <1>2, <1>7, <2>3 DEF DequeTypeOK
  <2>5. OnTheWay'
    <3>1. PICK f : f = [j \in 1..(Len(senders) - 1) |-> Shift(j, i)] OBVIOUS
    <3>2. DOMAIN f = DOMAIN senders' /\ IsInjective(f)
      <4>1. \A j, l \in 1..(Len(senders) - 1) : Shift(j, i) = Shift(l, i) => j = l
        BY <2>2 DEF Shift
      <4> QED BY <2>3, <3>1, <4>1 DEF IsInjective
    <3>3. \A j \in DOMAIN senders' : f[j] \in DOMAIN senders /\ senders'[j] = senders[f[j]]
      BY <2>3, <3>1
    <3>4. PICK D : D = {} OBVIOUS
    <3>5. ToSet(accepted') = ToSet(accepted) \cup D /\ \A x : x \notin D BY <1>2, <3>4
    <3> QED BY <1>2, <1>4, <3>2, <3>3, <3>5, WayShrinks
  <2>6. senders # <<>> BY <2>1
  <2>7. OneThread' BY <1>2, <2>6 DEF OneThread
  <2> QED BY <1>5, <2>4, <2>5, <2>7
<1> QED BY <1>6, <1>7 DEF Killed

LEMMA DequeInvStep == DequeInv /\ [DequeNext]_dequeVars => DequeInv'
<1> SUFFICES ASSUME DequeInv, [DequeNext]_dequeVars PROVE DequeInv' OBVIOUS
<1>1. CASE UNCHANGED dequeVars
  BY <1>1 DEF dequeVars, DequeInv, DequeTypeOK, OnTheWay, Carries, Split, OneThread, Acting
<1>2. ASSUME NEW u \in Users,
             \/ SendLooks(u) \/ SendAppends(u) \/ SuperSend(u)
             \/ ReceiveLooks(u) \/ ReceivePops(u) \/ SuperReceive(u)
             \/ Killed(u) \/ CloseOrOpen(u)
      PROVE  DequeInv'
  BY <1>2, SendLooksStep, SendAppendsStep, SuperSendStep, ReceiveLooksStep,
     ReceivePopsStep, SuperReceiveStep, KilledStep, CloseOrOpenStep
<1> QED BY <1>1, <1>2 DEF DequeNext

(* The inductive invariant holds in every reachable state.                 *)
LEMMA AlwaysDequeInv == DequeSpec => []DequeInv
BY DequeInvInit, DequeInvStep, PTL DEF DequeSpec

-----------------------------------------------------------------------------
(* Every variable keeps its type, for any set of tasklets: what is handed  *)
(* to super().send() and super().receive() is a message or a tasklet.      *)
THEOREM DequeTypeCorrect == DequeSpec => []DequeTypeOK
<1>1. DequeInv => DequeTypeOK BY DEF DequeInv
<1> QED BY <1>1, AlwaysDequeInv, PTL

(* On one thread nobody waits in receive() while the deque holds data,     *)
(* although both send() and receive() look first and act later             *)
(* (__init__.py:33-59).                                                    *)
THEOREM NobodyWaits == DequeSpec => []NobodyWaitsOnOneThread
<1>1. DequeInv => NobodyWaitsOnOneThread
  BY DEF DequeInv, OneThread, NobodyWaitsOnOneThread, NobodyWaitsBesideData
<1> QED BY <1>1, AlwaysDequeInv, PTL

(* On one thread the messages come out in the order in which send() took   *)
(* them, whether through the deque or through the base channel.            *)
THEOREM OrderIsKept == DequeSpec => []QueueKeepsOrder
<1>1. DequeInv => QueueKeepsOrder BY DEF DequeInv, OneThread, QueueKeepsOrder
<1> QED BY <1>1, AlwaysDequeInv, PTL

(* With any number of threads, and a lock that excludes nobody, a message  *)
(* that send() took is delivered once or still in the deque.               *)
THEOREM MessagesOnce == DequeSpec => []EachMessageOnce
<1>1. DequeInv => EachMessageOnce
  BY ConcatOnce DEF DequeInv, DequeTypeOK, Split, EachMessageOnce
<1> QED BY <1>1, AlwaysDequeInv, PTL

=============================================================================
