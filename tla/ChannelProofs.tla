---------------------------- MODULE ChannelProofs ----------------------------
(***************************************************************************)
(* Machine-checked proofs about Channel, for any finite set of tasklets    *)
(* and any channels.                                                       *)
(*                                                                         *)
(* Behind each blocked list there is a sequence of tasklets, the one that  *)
(* came first in front, that the links spell out in both directions and    *)
(* that holds exactly the tasklets blocked there.  Appending to a list and *)
(* taking a tasklet out of it, from either end or the middle, are then     *)
(* Append and RemoveAt on that sequence.                                   *)
(***************************************************************************)
EXTENDS MCChannel, SequencesExt, SequenceTheorems, FiniteSetTheorems, WellFoundedInduction, TLAPS

(* The sequence s is the list of the tasklets blocked on c to do d.        *)
ListOf(b, on, c, d, s) ==
  /\ s \in Seq(Blockers) /\ IsInjective(s)
  /\ \A t \in Blockers : (on[t] = c /\ b.dir[t] = d) <=> \E i \in 1..Len(s) : s[i] = t
  /\ b.first[c][d] = IF s = <<>> THEN Null ELSE s[1]
  /\ b.last[c][d]  = IF s = <<>> THEN Null ELSE s[Len(s)]
  /\ \A i \in 1..Len(s) : /\ b.next[s[i]] = IF i = 1 THEN Null ELSE s[i - 1]
                          /\ b.prev[s[i]] = IF i = Len(s) THEN Null ELSE s[i + 1]

Blocked(b, on, c, d) == {t \in Blockers : on[t] = c /\ b.dir[t] = d}

(* What holds of the lists b when each tasklet t is blocked on on[t].      *)
Good(b, on) ==
  /\ b \in BlockedLists /\ on \in [Blockers -> Channels \cup {Null}]
  /\ \A c \in Channels, d \in Directions : \E s : ListOf(b, on, c, d, s)
  /\ \A t \in Blockers :
       IF on[t] = Null THEN b.next[t] = Null /\ b.prev[t] = Null /\ b.dir[t] = "NEITHER"
                       ELSE b.dir[t] \in Directions
  /\ \A c \in Channels :
       b.balance[c] = Cardinality(Blocked(b, on, c, "SENDER"))
                        - Cardinality(Blocked(b, on, c, "RECEIVER"))

(* Only senders or only receivers wait on each channel.                    *)
Sided(b, on) ==
  \A c \in Channels : \E d \in Directions : Blocked(b, on, c, d) = {}

Shutting(b, on) ==
  \A c \in Channels :
    b.closed[c] => b.closing[c] /\ \A d \in Directions : Blocked(b, on, c, d) = {}

(* A tasklet is blocked where it called.                                   *)
Calling(b, on, in) ==
  \A c \in Channels, d \in Directions :
    \A t \in Blocked(b, on, c, d) : in[t] = [chan |-> c, dir |-> d]

(* The inductive invariant.                                                *)
Fine(b, on, in) ==
  /\ Good(b, on) /\ Sided(b, on) /\ Shutting(b, on) /\ Calling(b, on, in)
  /\ in \in [Blockers -> [chan : Channels, dir : Directions] \cup {Null}]

(* Among the blocked, the senders hold a message and the receivers none.   *)
Held(b, on, args) ==
  \A c \in Channels, d \in Directions :
    \A t \in Blocked(b, on, c, d) : args[t] <=> d = "SENDER"

IInv == /\ Fine(bl, channelBlockedOn, inside)
        /\ transferArguments \in [Blockers -> BOOLEAN]
        /\ Held(bl, channelBlockedOn, transferArguments)

-----------------------------------------------------------------------------
(* The member functions, field by field.                                   *)

LEMMA Names ==
  /\ Null \notin Blockers /\ Null \notin Channels
  /\ \A c \in Channels, d \in Directions : [chan |-> c, dir |-> d] # Null
  /\ Weight("SENDER") = 1 /\ Weight("RECEIVER") = -1 /\ Weight("NEITHER") = 0
  /\ IsFiniteSet(Blockers)
BY ChannelAssumption DEF Weight

LEMMA AddIs ==
  ASSUME NEW b \in BlockedLists, NEW c \in Channels, NEW d \in Directions, NEW t \in Blockers,
         NEW n, n = AddTaskletToWaiting(b, c, d, t), NEW l, l = b.last[c][d]
  PROVE  /\ n \in BlockedLists
         /\ \A x \in Channels, y \in Directions :
              /\ n.first[x][y] = IF x = c /\ y = d /\ l = Null THEN t ELSE b.first[x][y]
              /\ n.last[x][y] = IF x = c /\ y = d THEN t ELSE b.last[x][y]
         /\ \A u \in Blockers :
              /\ n.next[u] = IF u = t /\ l # Null THEN l ELSE b.next[u]
              /\ n.prev[u] = IF u = l THEN t ELSE b.prev[u]
              /\ n.dir[u] = IF u = t THEN d ELSE b.dir[u]
         /\ \A x \in Channels :
              n.balance[x] = IF x = c THEN b.balance[c] + Weight(d) ELSE b.balance[x]
         /\ n.closing = b.closing /\ n.closed = b.closed
<1>1. Weight(d) \in Int BY Names DEF Directions
<1>2. l \in Links /\ t \in Links /\ Null \notin Blockers BY Names DEF BlockedLists, Links
<1>3. /\ n.first = [b.first EXCEPT ![c] = [b.first[c] EXCEPT ![d] = IF l = Null THEN t ELSE @]]
      /\ n.last = [b.last EXCEPT ![c] = [b.last[c] EXCEPT ![d] = t]]
      /\ n.next = [b.next EXCEPT ![t] = IF l = Null THEN @ ELSE l]
      /\ n.prev = Store(b.prev, l, t)
      /\ n.dir = [b.dir EXCEPT ![t] = d]
      /\ n.balance = [b.balance EXCEPT ![c] = @ + Weight(d)]
      /\ n.closing = b.closing /\ n.closed = b.closed
  BY DEF AddTaskletToWaiting, BlockedLists
<1>4. /\ b.first \in [Channels -> [Directions -> Links]] /\ b.last \in [Channels -> [Directions -> Links]]
      /\ b.next \in [Blockers -> Links] /\ b.prev \in [Blockers -> Links]
      /\ b.dir \in [Blockers -> Directions \cup {"NEITHER"}] /\ b.balance \in [Channels -> Int]
      /\ b.closing \in [Channels -> BOOLEAN] /\ b.closed \in [Channels -> BOOLEAN]
  BY DEF BlockedLists
<1>5. n = [first |-> n.first, last |-> n.last, next |-> n.next, prev |-> n.prev, dir |-> n.dir,
           balance |-> n.balance, closing |-> n.closing, closed |-> n.closed]
  BY DEF AddTaskletToWaiting, BlockedLists
<1>6. /\ n.first \in [Channels -> [Directions -> Links]] /\ n.last \in [Channels -> [Directions -> Links]]
      /\ n.next \in [Blockers -> Links] /\ n.prev \in [Blockers -> Links]
      /\ n.dir \in [Blockers -> Directions \cup {"NEITHER"}] /\ n.balance \in [Channels -> Int]
      /\ n.closing \in [Channels -> BOOLEAN] /\ n.closed \in [Channels -> BOOLEAN]
  <2>1. n.first \in [Channels -> [Directions -> Links]] BY <1>2, <1>3, <1>4
  <2>2. n.last \in [Channels -> [Directions -> Links]] BY <1>2, <1>3, <1>4
  <2>3. n.next \in [Blockers -> Links] BY <1>2, <1>3, <1>4
  <2>4. n.prev \in [Blockers -> Links]
    <3>1. CASE l = Null BY <1>3, <1>4, <3>1 DEF Store
    <3>2. CASE l # Null
      <4>1. n.prev = [b.prev EXCEPT ![l] = t] BY <1>3, <3>2 DEF Store
      <4> QED BY <1>2, <1>4, <4>1
    <3> QED BY <3>1, <3>2
  <2>5. n.dir \in [Blockers -> Directions \cup {"NEITHER"}] BY <1>3, <1>4
  <2>6. n.balance \in [Channels -> Int] BY <1>1, <1>3, <1>4
  <2> QED BY <1>3, <1>4, <2>1, <2>2, <2>3, <2>4, <2>5, <2>6
<1>7. n \in BlockedLists BY <1>5, <1>6 DEF BlockedLists
<1>8. \A x \in Channels, y \in Directions :
        /\ n.first[x][y] = IF x = c /\ y = d /\ l = Null THEN t ELSE b.first[x][y]
        /\ n.last[x][y] = IF x = c /\ y = d THEN t ELSE b.last[x][y]
  BY <1>3, <1>4
<1>9. \A u \in Blockers :
        /\ n.next[u] = IF u = t /\ l # Null THEN l ELSE b.next[u]
        /\ n.prev[u] = IF u = l THEN t ELSE b.prev[u]
        /\ n.dir[u] = IF u = t THEN d ELSE b.dir[u]
  BY <1>2, <1>3, <1>4 DEF Store
<1>10. \A x \in Channels :
         n.balance[x] = IF x = c THEN b.balance[c] + Weight(d) ELSE b.balance[x]
  BY <1>3, <1>4
<1> QED BY <1>3, <1>7, <1>8, <1>9, <1>10

LEMMA UnlinkIs ==
  ASSUME NEW b \in BlockedLists, NEW c \in Channels, NEW t \in Blockers,
         NEW n, n = RemoveTaskletFromBlocked(b, c, t), NEW p, p = b.prev[t], NEW q, q = b.next[t]
  PROVE  /\ n \in BlockedLists
         /\ \A x \in Channels, y \in Directions :
              /\ n.first[x][y] = IF x = c /\ b.first[c][y] = t THEN p ELSE b.first[x][y]
              /\ n.last[x][y] = IF x = c /\ b.last[c][y] = t THEN q ELSE b.last[x][y]
         /\ \A u \in Blockers :
              /\ n.next[u] = IF u = t THEN Null
                             ELSE IF u = p /\ AtFirst(b, c, t) THEN Null
                             ELSE IF u = p /\ ~AtLast(b, c, t) THEN q ELSE b.next[u]
              /\ n.prev[u] = IF u = t THEN Null
                             ELSE IF u = q /\ AtLast(b, c, t) THEN Null
                             ELSE IF u = q /\ ~AtFirst(b, c, t) THEN p ELSE b.prev[u]
              /\ n.dir[u] = IF u = t THEN "NEITHER" ELSE b.dir[u]
         /\ \A x \in Channels :
              n.balance[x] = IF x = c THEN b.balance[c] - Weight(b.dir[t]) ELSE b.balance[x]
         /\ n.closing = b.closing /\ n.closed = b.closed
<1>1. Weight(b.dir[t]) \in Int BY Names DEF Directions, BlockedLists
<1>2. p \in Links /\ q \in Links /\ Null \notin Blockers /\ Null \in Links
  BY Names DEF BlockedLists, Links
<1>3. /\ n.first = [b.first EXCEPT ![c] = [y \in Directions |-> IF b.first[c][y] = t THEN p ELSE b.first[c][y]]]
      /\ n.last = [b.last EXCEPT ![c] = [y \in Directions |-> IF b.last[c][y] = t THEN q ELSE b.last[c][y]]]
      /\ n.next = NextWithout(b, c, t) /\ n.prev = PrevWithout(b, c, t)
      /\ n.dir = [b.dir EXCEPT ![t] = "NEITHER"]
      /\ n.balance = [b.balance EXCEPT ![c] = @ - Weight(b.dir[t])]
      /\ n.closing = b.closing /\ n.closed = b.closed
  BY DEF RemoveTaskletFromBlocked, Unlink, BlockedLists
<1>4. /\ b.first \in [Channels -> [Directions -> Links]] /\ b.last \in [Channels -> [Directions -> Links]]
      /\ b.next \in [Blockers -> Links] /\ b.prev \in [Blockers -> Links]
      /\ b.dir \in [Blockers -> Directions \cup {"NEITHER"}] /\ b.balance \in [Channels -> Int]
      /\ b.closing \in [Channels -> BOOLEAN] /\ b.closed \in [Channels -> BOOLEAN]
  BY DEF BlockedLists
<1>5. n = [first |-> n.first, last |-> n.last, next |-> n.next, prev |-> n.prev, dir |-> n.dir,
           balance |-> n.balance, closing |-> n.closing, closed |-> n.closed]
  BY DEF RemoveTaskletFromBlocked, Unlink, BlockedLists
<1>6. /\ n.next \in [Blockers -> Links]
      /\ \A u \in Blockers :
           n.next[u] = IF u = t THEN Null
                       ELSE IF u = p /\ AtFirst(b, c, t) THEN Null
                       ELSE IF u = p /\ ~AtLast(b, c, t) THEN q ELSE b.next[u]
  <2>1. CASE AtFirst(b, c, t)
    <3>1. n.next = [Store(b.next, p, Null) EXCEPT ![t] = Null] BY <1>3, <2>1 DEF NextWithout
    <3> QED BY <1>2, <1>4, <2>1, <3>1 DEF Store, Links
  <2>2. CASE ~AtFirst(b, c, t) /\ ~AtLast(b, c, t)
    <3>1. n.next = [Store(b.next, p, q) EXCEPT ![t] = Null] BY <1>3, <2>2 DEF NextWithout
    <3> QED BY <1>2, <1>4, <2>2, <3>1 DEF Store, Links
  <2>3. CASE ~AtFirst(b, c, t) /\ AtLast(b, c, t)
    <3>1. n.next = [b.next EXCEPT ![t] = Null] BY <1>3, <2>3 DEF NextWithout
    <3> QED BY <1>2, <1>4, <2>3, <3>1
  <2> QED BY <2>1, <2>2, <2>3
<1>7. /\ n.prev \in [Blockers -> Links]
      /\ \A u \in Blockers :
           n.prev[u] = IF u = t THEN Null
                       ELSE IF u = q /\ AtLast(b, c, t) THEN Null
                       ELSE IF u = q /\ ~AtFirst(b, c, t) THEN p ELSE b.prev[u]
  <2>1. CASE AtLast(b, c, t)
    <3>1. n.prev = [Store(b.prev, q, Null) EXCEPT ![t] = Null] BY <1>3, <2>1 DEF PrevWithout
    <3> QED BY <1>2, <1>4, <2>1, <3>1 DEF Store, Links
  <2>2. CASE ~AtFirst(b, c, t) /\ ~AtLast(b, c, t)
    <3>1. n.prev = [Store(b.prev, q, p) EXCEPT ![t] = Null] BY <1>3, <2>2 DEF PrevWithout
    <3> QED BY <1>2, <1>4, <2>2, <3>1 DEF Store, Links
  <2>3. CASE AtFirst(b, c, t) /\ ~AtLast(b, c, t)
    <3>1. n.prev = [b.prev EXCEPT ![t] = Null] BY <1>3, <2>3 DEF PrevWithout
    <3> QED BY <1>2, <1>4, <2>3, <3>1
  <2> QED BY <2>1, <2>2, <2>3
<1>8. n \in BlockedLists
  <2>1. n.first \in [Channels -> [Directions -> Links]] BY <1>2, <1>3, <1>4
  <2>2. n.last \in [Channels -> [Directions -> Links]] BY <1>2, <1>3, <1>4
  <2>3. n.dir \in [Blockers -> Directions \cup {"NEITHER"}] BY <1>3, <1>4
  <2>4. n.balance \in [Channels -> Int] BY <1>1, <1>3, <1>4
  <2> QED BY <1>3, <1>4, <1>5, <1>6, <1>7, <2>1, <2>2, <2>3, <2>4 DEF BlockedLists
<1>9. \A x \in Channels, y \in Directions :
        /\ n.first[x][y] = IF x = c /\ b.first[c][y] = t THEN p ELSE b.first[x][y]
        /\ n.last[x][y] = IF x = c /\ b.last[c][y] = t THEN q ELSE b.last[x][y]
  BY <1>3, <1>4
<1>10. /\ \A u \in Blockers : n.dir[u] = IF u = t THEN "NEITHER" ELSE b.dir[u]
       /\ \A x \in Channels :
            n.balance[x] = IF x = c THEN b.balance[c] - Weight(b.dir[t]) ELSE b.balance[x]
  BY <1>3, <1>4
<1> QED BY <1>3, <1>6, <1>7, <1>8, <1>9, <1>10

(* The close flag is no part of the lists.                                 *)
LEMMA CloseStateIs ==
  ASSUME NEW b \in BlockedLists, NEW c \in Channels, NEW n, n = UpdateCloseState(b, c)
  PROVE  /\ n \in BlockedLists
         /\ n.first = b.first /\ n.last = b.last /\ n.next = b.next /\ n.prev = b.prev
         /\ n.dir = b.dir /\ n.balance = b.balance /\ n.closing = b.closing
         /\ \A x \in Channels :
              n.closed[x] = (b.closed[x] \/ (x = c /\ b.closing[c] /\ b.balance[c] = 0))
BY DEF UpdateCloseState, BlockedLists

-----------------------------------------------------------------------------
(* RemoveAt(s, k) holds what s holds at the other places.                  *)
Past(i, k) == IF i < k THEN i ELSE i + 1

LEMMA WithoutIs ==
  ASSUME NEW s \in Seq(Blockers), NEW k \in 1..Len(s), NEW r, r = RemoveAt(s, k)
  PROVE  /\ r \in Seq(Blockers) /\ Len(r) = Len(s) - 1
         /\ \A i \in 1..Len(r) : r[i] = s[Past(i, k)] /\ Past(i, k) \in 1..Len(s)
<1>1. Len(s) \in Nat BY LenProperties
<1>2. PICK u : u = SubSeq(s, 1, k - 1) OBVIOUS
<1>3. PICK v : v = SubSeq(s, k + 1, Len(s)) OBVIOUS
<1>4. \A i \in 1..Len(s) : s[i] \in Blockers BY ElementOfSeq
<1>5. u \in Seq(Blockers) /\ Len(u) = k - 1 /\ \A i \in 1..(k - 1) : u[i] = s[i]
  BY <1>1, <1>2, <1>4, SubSeqProperties
<1>6. /\ v \in Seq(Blockers) /\ Len(v) = Len(s) - k
      /\ \A i \in 1..(Len(s) - k) : v[i] = s[k + i]
  BY <1>1, <1>3, <1>4, SubSeqProperties
<1>7. r = u \o v BY <1>2, <1>3 DEF RemoveAt
<1>8. r \in Seq(Blockers) /\ Len(r) = Len(s) - 1
  BY <1>1, <1>5, <1>6, <1>7, ConcatProperties
<1>9. ASSUME NEW i \in 1..Len(r) PROVE r[i] = s[Past(i, k)] /\ Past(i, k) \in 1..Len(s)
  <2>1. r[i] = IF i <= Len(u) THEN u[i] ELSE v[i - Len(u)]
    BY <1>1, <1>5, <1>6, <1>7, <1>8, ConcatProperties
  <2>2. CASE i < k BY <2>1, <2>2, <1>1, <1>5, <1>8 DEF Past
  <2>3. CASE i >= k
    <3>1. i - (k - 1) \in 1..(Len(s) - k) /\ k + (i - (k - 1)) = i + 1
      BY <2>3, <1>1, <1>8
    <3>2. r[i] = v[i - (k - 1)] BY <2>1, <2>3, <1>1, <1>5, <1>8
    <3> QED BY <3>1, <3>2, <2>3, <1>1, <1>6, <1>8 DEF Past
  <2>4. i < k \/ i >= k BY <1>1, <1>8
  <2> QED BY <2>2, <2>3, <2>4
<1> QED BY <1>8, <1>9

(* A list depends on the fields of its own tasklets only.                  *)
SameList(b, on, n, on2, c, d) ==
  /\ n.first[c][d] = b.first[c][d] /\ n.last[c][d] = b.last[c][d]
  /\ \A t \in Blockers : (on2[t] = c /\ n.dir[t] = d) <=> (on[t] = c /\ b.dir[t] = d)
  /\ \A t \in Blockers : on[t] = c /\ b.dir[t] = d =>
                            n.next[t] = b.next[t] /\ n.prev[t] = b.prev[t]

LEMMA ListFrame ==
  ASSUME NEW b, NEW on, NEW n, NEW on2, NEW c, NEW d, NEW s,
         ListOf(b, on, c, d, s), SameList(b, on, n, on2, c, d)
  PROVE  ListOf(n, on2, c, d, s)
<1>1. \A i \in 1..Len(s) : s[i] \in Blockers BY ElementOfSeq DEF ListOf
<1>2. \A i \in 1..Len(s) : on[s[i]] = c /\ b.dir[s[i]] = d BY <1>1 DEF ListOf
<1>3. \A i \in 1..Len(s) : n.next[s[i]] = b.next[s[i]] /\ n.prev[s[i]] = b.prev[s[i]]
  BY <1>1, <1>2 DEF SameList
<1> QED BY <1>3 DEF ListOf, SameList

(* Where the links of a blocked tasklet lead.                              *)
LEMMA LinksStay ==
  ASSUME NEW b, NEW on, Good(b, on), NEW t \in Blockers, on[t] # Null
  PROVE  /\ on[t] \in Channels /\ b.dir[t] \in Directions
         /\ \E s : /\ ListOf(b, on, on[t], b.dir[t], s)
                   /\ \E i \in 1..Len(s) : s[i] = t
<1>1. on[t] \in Channels /\ b.dir[t] \in Directions BY DEF Good
<1>2. PICK s : ListOf(b, on, on[t], b.dir[t], s) BY <1>1 DEF Good
<1>3. \E i \in 1..Len(s) : s[i] = t BY <1>2 DEF ListOf
<1> QED BY <1>1, <1>2, <1>3

LEMMA NeighboursStay ==
  ASSUME NEW b, NEW on, Good(b, on), NEW t \in Blockers
  PROVE  /\ b.next[t] # Null => /\ b.next[t] \in Blockers /\ on[b.next[t]] = on[t]
                                /\ b.dir[b.next[t]] = b.dir[t] /\ on[t] # Null
         /\ b.prev[t] # Null => /\ b.prev[t] \in Blockers /\ on[b.prev[t]] = on[t]
                                /\ b.dir[b.prev[t]] = b.dir[t] /\ on[t] # Null
<1>1. CASE on[t] = Null BY <1>1 DEF Good
<1>2. CASE on[t] # Null
  <2>1. PICK s : /\ ListOf(b, on, on[t], b.dir[t], s)
                 /\ \E i \in 1..Len(s) : s[i] = t
    BY <1>2, LinksStay
  <2>2. PICK i \in 1..Len(s) : s[i] = t BY <2>1
  <2>3. s \in Seq(Blockers) /\ Len(s) \in Nat BY <2>1, LenProperties DEF ListOf
  <2>4. \A j \in 1..Len(s) : /\ s[j] \in Blockers
                             /\ on[s[j]] = on[t] /\ b.dir[s[j]] = b.dir[t]
    BY <2>1, <2>3, ElementOfSeq DEF ListOf
  <2>5. /\ b.next[t] = IF i = 1 THEN Null ELSE s[i - 1]
        /\ b.prev[t] = IF i = Len(s) THEN Null ELSE s[i + 1]
    BY <2>1, <2>2 DEF ListOf
  <2>6. i # 1 => i - 1 \in 1..Len(s) BY <2>3
  <2>7. i # Len(s) => i + 1 \in 1..Len(s) BY <2>3
  <2> QED BY <1>2, <2>4, <2>5, <2>6, <2>7
<1> QED BY <1>1, <1>2

-----------------------------------------------------------------------------
(* The lists n and the places on2 after a tasklet has joined a list, or    *)
(* has been taken off it.                                                  *)
Added(b, on, c, d, t, n, on2) ==
  /\ Good(b, on) /\ c \in Channels /\ d \in Directions /\ t \in Blockers /\ on[t] = Null
  /\ n = AddTaskletToWaiting(b, c, d, t) /\ on2 = [on EXCEPT ![t] = c]

Removed(b, on, c, t, n, on2) ==
  /\ Good(b, on) /\ c \in Channels /\ t \in Blockers /\ on[t] = c
  /\ n = RemoveTaskletFromBlocked(b, c, t) /\ on2 = [on EXCEPT ![t] = Null]

(* AddTaskletToWaiting appends to one list and leaves the others alone.    *)
LEMMA AddLists ==
  ASSUME NEW b, NEW on, NEW c, NEW d, NEW t, NEW n, NEW on2, Added(b, on, c, d, t, n, on2)
  PROVE  /\ \A s : ListOf(b, on, c, d, s) => ListOf(n, on2, c, d, Append(s, t))
         /\ \A x \in Channels, y \in Directions : \A s :
              ListOf(b, on, x, y, s) /\ (x # c \/ y # d) => ListOf(n, on2, x, y, s)
<1> /\ Good(b, on) /\ c \in Channels /\ d \in Directions /\ t \in Blockers /\ on[t] = Null
    /\ n = AddTaskletToWaiting(b, c, d, t) /\ on2 = [on EXCEPT ![t] = c]
  BY DEF Added
<1>1. PICK l : l = b.last[c][d] OBVIOUS
<1>2. /\ \A x \in Channels, y \in Directions :
           /\ n.first[x][y] = IF x = c /\ y = d /\ l = Null THEN t ELSE b.first[x][y]
           /\ n.last[x][y] = IF x = c /\ y = d THEN t ELSE b.last[x][y]
      /\ \A u \in Blockers :
           /\ n.next[u] = IF u = t /\ l # Null THEN l ELSE b.next[u]
           /\ n.prev[u] = IF u = l THEN t ELSE b.prev[u]
           /\ n.dir[u] = IF u = t THEN d ELSE b.dir[u]
  BY <1>1, AddIs DEF Good
<1>3. on \in [Blockers -> Channels \cup {Null}] BY DEF Good
<1>4. \A u \in Blockers : on2[u] = IF u = t THEN c ELSE on[u] BY <1>3
<1>5. /\ b.next[t] = Null /\ b.prev[t] = Null /\ b.dir[t] = "NEITHER"
      /\ Null \notin Blockers /\ Null \notin Channels
  BY Names DEF Good
<1>6. ASSUME NEW s, ListOf(b, on, c, d, s) PROVE ListOf(n, on2, c, d, Append(s, t))
  <2>1. /\ s \in Seq(Blockers) /\ IsInjective(s) /\ Len(s) \in Nat /\ DOMAIN s = 1..Len(s)
        /\ \A i \in 1..Len(s) : s[i] \in Blockers
    BY <1>6, LenProperties, ElementOfSeq DEF ListOf
  <2>2. PICK m \in Nat : m = Len(s) BY <2>1
  <2>3. PICK r : r = Append(s, t) OBVIOUS
  <2>4. /\ r \in Seq(Blockers) /\ r # <<>> /\ Len(r) = m + 1 /\ r[m + 1] = t
        /\ \A i \in 1..m : r[i] = s[i]
    BY <2>1, <2>2, <2>3, AppendProperties
  <2>5. DOMAIN r = 1..(m + 1) BY <2>4, LenProperties
  <2>6. \A i \in 1..m : on[s[i]] = c /\ b.dir[s[i]] = d /\ s[i] # t
    BY <1>5, <1>6, <2>1, <2>2 DEF ListOf
  <2>7. IsInjective(r) BY <2>1, <2>2, <2>4, <2>5, <2>6 DEF IsInjective
  <2>8. ASSUME NEW u \in Blockers
        PROVE  (on2[u] = c /\ n.dir[u] = d) <=> \E i \in 1..Len(r) : r[i] = u
    <3>1. CASE u = t BY <1>2, <1>4, <2>4, <3>1
    <3>2. CASE u # t
      <4>1. (on2[u] = c /\ n.dir[u] = d) <=> \E i \in 1..m : s[i] = u
        BY <1>2, <1>4, <1>6, <2>2, <3>2 DEF ListOf
      <4>2. (\E i \in 1..m : s[i] = u) <=> \E i \in 1..(m + 1) : r[i] = u
        BY <2>4, <3>2
      <4> QED BY <2>4, <4>1, <4>2
    <3> QED BY <3>1, <3>2
  <2>9. l = IF m = 0 THEN Null ELSE s[m] BY <1>1, <1>6, <2>1, <2>2, EmptySeq DEF ListOf
  <2>10. n.first[c][d] = r[1] /\ n.last[c][d] = r[Len(r)]
    <3>1. CASE m = 0 BY <1>2, <2>4, <2>9, <3>1
    <3>2. CASE m # 0
      <4>1. l # Null /\ b.first[c][d] = s[1] /\ r[1] = s[1]
        BY <1>5, <1>6, <2>1, <2>2, <2>4, <2>9, <3>2 DEF ListOf
      <4> QED BY <1>2, <2>4, <4>1
    <3> QED BY <3>1, <3>2
  <2>11. ASSUME NEW i \in 1..Len(r)
         PROVE  /\ n.next[r[i]] = IF i = 1 THEN Null ELSE r[i - 1]
                /\ n.prev[r[i]] = IF i = Len(r) THEN Null ELSE r[i + 1]
    <3>1. CASE i = m + 1
      <4>1. n.next[t] = IF l # Null THEN l ELSE Null BY <1>2, <1>5
      <4>2. n.prev[t] = Null
        <5>1. l # t BY <1>5, <2>2, <2>6, <2>9
        <5> QED BY <1>2, <1>5, <5>1
      <4>3. i # 1 => r[i - 1] = s[m] /\ l = s[m] /\ l # Null
        BY <1>5, <2>1, <2>2, <2>4, <2>9, <3>1
      <4>4. i = 1 => l = Null BY <2>2, <2>9, <3>1
      <4> QED BY <2>4, <3>1, <4>1, <4>2, <4>3, <4>4
    <3>2. CASE i # m + 1
      <4>1. i \in 1..m /\ r[i] = s[i] /\ s[i] # t /\ s[i] \in Blockers
        BY <2>1, <2>2, <2>4, <2>6, <3>2
      <4>2. /\ b.next[s[i]] = IF i = 1 THEN Null ELSE s[i - 1]
            /\ b.prev[s[i]] = IF i = m THEN Null ELSE s[i + 1]
        BY <1>6, <2>2, <4>1 DEF ListOf
      <4>3. n.next[s[i]] = b.next[s[i]] BY <1>2, <4>1
      <4>4. i # 1 => r[i - 1] = s[i - 1]
        BY <2>2, <2>4, <4>1
      <4>5. CASE i = m
        <5>1. s[i] = l BY <2>9, <4>1, <4>5
        <5> QED BY <1>2, <2>4, <4>1, <4>2, <4>3, <4>4, <4>5, <5>1
      <4>6. CASE i # m
        <5>1. i + 1 \in 1..m BY <2>2, <4>1, <4>6
        <5>2. s[i] # l
          <6>1. m \in 1..m /\ l = s[m] BY <2>9, <4>1
          <6> QED BY <2>1, <2>2, <4>1, <4>6, <6>1 DEF IsInjective
        <5>3. n.prev[s[i]] = s[i + 1] BY <1>2, <4>1, <4>2, <4>6, <5>2
        <5>4. r[i + 1] = s[i + 1] /\ i # Len(r) BY <2>2, <2>4, <4>1, <5>1
        <5> QED BY <4>1, <4>2, <4>3, <4>4, <5>3, <5>4
      <4> QED BY <4>5, <4>6
    <3> QED BY <3>1, <3>2
  <2> QED BY <2>3, <2>4, <2>7, <2>8, <2>10, <2>11 DEF ListOf
<1>7. ASSUME NEW x \in Channels, NEW y \in Directions, NEW s, ListOf(b, on, x, y, s),
             x # c \/ y # d
      PROVE  ListOf(n, on2, x, y, s)
  <2>1. \A u \in Blockers : (on2[u] = x /\ n.dir[u] = y) <=> (on[u] = x /\ b.dir[u] = y)
    BY <1>2, <1>4, <1>5, <1>7
  <2>2. l # Null => l \in Blockers /\ on[l] = c /\ b.dir[l] = d
    <3>1. PICK q : ListOf(b, on, c, d, q) BY DEF Good
    <3>2. q \in Seq(Blockers) /\ Len(q) \in Nat /\ (q # <<>> => Len(q) \in 1..Len(q))
      BY <3>1, LenProperties, EmptySeq DEF ListOf
    <3>3. q # <<>> => q[Len(q)] \in Blockers BY <3>2, ElementOfSeq
    <3> QED BY <1>1, <3>1, <3>2, <3>3 DEF ListOf
  <2>3. ASSUME NEW u \in Blockers, on[u] = x, b.dir[u] = y
        PROVE  n.next[u] = b.next[u] /\ n.prev[u] = b.prev[u]
    BY <1>2, <1>5, <1>7, <2>2, <2>3
  <2>4. n.first[x][y] = b.first[x][y] /\ n.last[x][y] = b.last[x][y] BY <1>2, <1>7
  <2>5. \A u \in Blockers : on[u] = x /\ b.dir[u] = y =>
                              n.next[u] = b.next[u] /\ n.prev[u] = b.prev[u]
    BY <2>3
  <2>6. SameList(b, on, n, on2, x, y) BY <2>1, <2>4, <2>5 DEF SameList
  <2> QED BY <1>7, <2>6, ListFrame
<1> QED BY <1>6, <1>7

(* The ends of a list are on it, and an empty list has none.               *)
LEMMA EndsAre ==
  ASSUME NEW b, NEW on, Good(b, on), NEW c \in Channels, NEW d \in Directions
  PROVE  /\ b.first[c][d] # Null => b.first[c][d] \in Blocked(b, on, c, d)
         /\ b.last[c][d] # Null => b.last[c][d] \in Blocked(b, on, c, d)
         /\ b.first[c][d] = Null <=> Blocked(b, on, c, d) = {}
<1>1. PICK s : ListOf(b, on, c, d, s) BY DEF Good
<1>2. /\ s \in Seq(Blockers) /\ Len(s) \in Nat
      /\ s # <<>> => 1 \in 1..Len(s) /\ Len(s) \in 1..Len(s)
      /\ \A i \in 1..Len(s) : s[i] \in Blockers
  BY <1>1, LenProperties, EmptySeq, ElementOfSeq DEF ListOf
<1>3. \A i \in 1..Len(s) : s[i] \in Blocked(b, on, c, d) BY <1>1, <1>2 DEF ListOf, Blocked
<1>4. s = <<>> => Blocked(b, on, c, d) = {}
  BY <1>1 DEF ListOf, Blocked
<1>5. /\ b.first[c][d] = IF s = <<>> THEN Null ELSE s[1]
      /\ b.last[c][d] = IF s = <<>> THEN Null ELSE s[Len(s)]
  BY <1>1 DEF ListOf
<1>6. Null \notin Blockers BY Names
<1> QED BY <1>2, <1>3, <1>4, <1>5, <1>6

LEMMA BlockedFinite ==
  ASSUME NEW b, NEW on, NEW c, NEW d
  PROVE  IsFiniteSet(Blocked(b, on, c, d)) /\ Cardinality(Blocked(b, on, c, d)) \in Nat
<1>1. Blocked(b, on, c, d) \subseteq Blockers BY DEF Blocked
<1>2. IsFiniteSet(Blocked(b, on, c, d)) BY <1>1, Names, FS_Subset
<1> QED BY <1>2, FS_CardinalityType

(* AddTaskletToWaiting keeps the lists good.                               *)
LEMMA AddGood ==
  ASSUME NEW b, NEW on, NEW c, NEW d, NEW t, NEW n, NEW on2, Added(b, on, c, d, t, n, on2)
  PROVE  /\ Good(n, on2)
         /\ \A x \in Channels, y \in Directions :
              Blocked(n, on2, x, y) = IF x = c /\ y = d THEN Blocked(b, on, c, d) \cup {t}
                                                       ELSE Blocked(b, on, x, y)
         /\ n.closing = b.closing /\ n.closed = b.closed
<1> /\ Good(b, on) /\ c \in Channels /\ d \in Directions /\ t \in Blockers /\ on[t] = Null
    /\ n = AddTaskletToWaiting(b, c, d, t) /\ on2 = [on EXCEPT ![t] = c]
  BY DEF Added
<1>1. PICK l : l = b.last[c][d] OBVIOUS
<1>2. /\ n \in BlockedLists /\ n.closing = b.closing /\ n.closed = b.closed
      /\ \A u \in Blockers :
           /\ n.next[u] = IF u = t /\ l # Null THEN l ELSE b.next[u]
           /\ n.prev[u] = IF u = l THEN t ELSE b.prev[u]
           /\ n.dir[u] = IF u = t THEN d ELSE b.dir[u]
      /\ \A x \in Channels :
           n.balance[x] = IF x = c THEN b.balance[c] + Weight(d) ELSE b.balance[x]
  BY <1>1, AddIs DEF Good
<1>3. on \in [Blockers -> Channels \cup {Null}] BY DEF Good
<1>4. on2 \in [Blockers -> Channels \cup {Null}] /\ \A u \in Blockers : on2[u] = IF u = t THEN c ELSE on[u]
  BY <1>3
<1>5. /\ b.next[t] = Null /\ b.prev[t] = Null /\ b.dir[t] = "NEITHER"
      /\ Null \notin Blockers /\ Null \notin Channels /\ c # Null
  BY Names DEF Good
<1>6. \A x \in Channels, y \in Directions : \E s : ListOf(n, on2, x, y, s)
  <2> SUFFICES ASSUME NEW x \in Channels, NEW y \in Directions PROVE \E s : ListOf(n, on2, x, y, s)
    OBVIOUS
  <2>1. PICK s : ListOf(b, on, x, y, s) BY DEF Good
  <2>2. CASE x = c /\ y = d
    <3>1. ListOf(n, on2, c, d, Append(s, t)) BY <2>1, <2>2, AddLists
    <3> QED BY <2>2, <3>1
  <2>3. CASE x # c \/ y # d
    <3>1. ListOf(n, on2, x, y, s) BY <2>1, <2>3, AddLists
    <3> QED BY <3>1
  <2> QED BY <2>2, <2>3
<1>7. ASSUME NEW u \in Blockers
      PROVE  IF on2[u] = Null THEN n.next[u] = Null /\ n.prev[u] = Null /\ n.dir[u] = "NEITHER"
                              ELSE n.dir[u] \in Directions
  <2>1. CASE u = t BY <1>2, <1>4, <1>5, <2>1
  <2>2. CASE u # t
    <3>1. on2[u] = on[u] /\ n.dir[u] = b.dir[u] /\ n.next[u] = b.next[u] BY <1>2, <1>4, <2>2
    <3>2. on[u] = Null => u # l
      <4>1. l # Null => on[l] = c BY <1>1, EndsAre DEF Blocked
      <4> QED BY <1>5, <4>1
    <3>3. on[u] = Null => n.prev[u] = b.prev[u] BY <1>2, <3>2
    <3> QED BY <3>1, <3>3 DEF Good
  <2> QED BY <2>1, <2>2
<1>8. ASSUME NEW x \in Channels, NEW y \in Directions
      PROVE  Blocked(n, on2, x, y) = IF x = c /\ y = d THEN Blocked(b, on, c, d) \cup {t}
                                                      ELSE Blocked(b, on, x, y)
  <2>1. \A u \in Blockers : u # t => on2[u] = on[u] /\ n.dir[u] = b.dir[u] BY <1>2, <1>4
  <2>2. on2[t] = c /\ n.dir[t] = d /\ on[t] # x BY <1>2, <1>4, <1>5
  <2> QED BY <2>1, <2>2 DEF Blocked
<1>9. ASSUME NEW x \in Channels
      PROVE  n.balance[x] = Cardinality(Blocked(n, on2, x, "SENDER"))
                              - Cardinality(Blocked(n, on2, x, "RECEIVER"))
  <2>1. b.balance[x] = Cardinality(Blocked(b, on, x, "SENDER"))
                         - Cardinality(Blocked(b, on, x, "RECEIVER"))
    BY DEF Good
  <2>2. "SENDER" \in Directions /\ "RECEIVER" \in Directions BY DEF Directions
  <2>3. CASE x # c
    <3>1. /\ Blocked(n, on2, x, "SENDER") = Blocked(b, on, x, "SENDER")
          /\ Blocked(n, on2, x, "RECEIVER") = Blocked(b, on, x, "RECEIVER")
          /\ n.balance[x] = b.balance[x]
      BY <1>2, <1>8, <2>2, <2>3
    <3> QED BY <2>1, <3>1
  <2>4. CASE x = c
    <3>1. t \notin Blocked(b, on, c, d) BY <1>5 DEF Blocked
    <3>2. Cardinality(Blocked(b, on, c, d) \cup {t}) = Cardinality(Blocked(b, on, c, d)) + 1
      BY <3>1, BlockedFinite, FS_AddElement
    <3>3. Cardinality(Blocked(n, on2, c, d)) = Cardinality(Blocked(b, on, c, d)) + 1
      BY <1>8, <3>2
    <3>4. \A y \in Directions : y # d =>
            Cardinality(Blocked(n, on2, c, y)) = Cardinality(Blocked(b, on, c, y))
      BY <1>8
    <3>5. n.balance[c] = b.balance[c] + Weight(d) BY <1>2
    <3>6. \A y \in Directions : Cardinality(Blocked(b, on, c, y)) \in Nat BY BlockedFinite
    <3>7. PICK i \in Nat : i = Cardinality(Blocked(b, on, c, "SENDER")) BY <2>2, <3>6
    <3>8. PICK j \in Nat : j = Cardinality(Blocked(b, on, c, "RECEIVER")) BY <2>2, <3>6
    <3>9. b.balance[c] = i - j BY <2>1, <2>4, <3>7, <3>8
    <3>10. CASE d = "SENDER"
      <4>1. n.balance[c] = (i - j) + 1 BY <3>5, <3>9, <3>10, Names
      <4>2. Cardinality(Blocked(n, on2, c, "SENDER")) = i + 1 BY <3>3, <3>7, <3>10
      <4>3. Cardinality(Blocked(n, on2, c, "RECEIVER")) = j BY <2>2, <3>4, <3>8, <3>10
      <4>4. (i - j) + 1 = (i + 1) - j OBVIOUS
      <4> QED BY <2>4, <4>1, <4>2, <4>3, <4>4
    <3>11. CASE d = "RECEIVER"
      <4>1. n.balance[c] = (i - j) + (-1) BY <3>5, <3>9, <3>11, Names
      <4>2. Cardinality(Blocked(n, on2, c, "RECEIVER")) = j + 1 BY <3>3, <3>8, <3>11
      <4>3. Cardinality(Blocked(n, on2, c, "SENDER")) = i BY <2>2, <3>4, <3>7, <3>11
      <4>4. (i - j) + (-1) = i - (j + 1) OBVIOUS
      <4> QED BY <2>4, <4>1, <4>2, <4>3, <4>4
    <3> QED BY <3>10, <3>11 DEF Directions
  <2> QED BY <2>3, <2>4
<1>10. Good(n, on2) BY <1>2, <1>4, <1>6, <1>7, <1>9 DEF Good
<1> QED BY <1>2, <1>8, <1>10

-----------------------------------------------------------------------------
(* RemoveTaskletFromBlocked takes a blocked tasklet out of its list, where *)
(* it stands at place k, and leaves the other lists alone.                 *)
LEMMA RemoveLists ==
  ASSUME NEW b, NEW on, NEW c, NEW t, NEW n, NEW on2, Removed(b, on, c, t, n, on2),
         NEW d, d = b.dir[t]
  PROVE  /\ \A s, k : /\ ListOf(b, on, c, d, s) /\ k \in 1..Len(s) /\ s[k] = t
                      => ListOf(n, on2, c, d, RemoveAt(s, k))
         /\ \A x \in Channels, y \in Directions : \A s :
              ListOf(b, on, x, y, s) /\ (x # c \/ y # d) => ListOf(n, on2, x, y, s)
<1> /\ Good(b, on) /\ c \in Channels /\ t \in Blockers /\ on[t] = c
    /\ n = RemoveTaskletFromBlocked(b, c, t) /\ on2 = [on EXCEPT ![t] = Null]
  BY DEF Removed
<1>1. PICK p : p = b.prev[t] OBVIOUS
<1>2. PICK q : q = b.next[t] OBVIOUS
<1>3. /\ \A x \in Channels, y \in Directions :
           /\ n.first[x][y] = IF x = c /\ b.first[c][y] = t THEN p ELSE b.first[x][y]
           /\ n.last[x][y] = IF x = c /\ b.last[c][y] = t THEN q ELSE b.last[x][y]
      /\ \A u \in Blockers :
           /\ n.next[u] = IF u = t THEN Null
                          ELSE IF u = p /\ AtFirst(b, c, t) THEN Null
                          ELSE IF u = p /\ ~AtLast(b, c, t) THEN q ELSE b.next[u]
           /\ n.prev[u] = IF u = t THEN Null
                          ELSE IF u = q /\ AtLast(b, c, t) THEN Null
                          ELSE IF u = q /\ ~AtFirst(b, c, t) THEN p ELSE b.prev[u]
           /\ n.dir[u] = IF u = t THEN "NEITHER" ELSE b.dir[u]
  BY <1>1, <1>2, UnlinkIs DEF Good
<1>4. on \in [Blockers -> Channels \cup {Null}] BY DEF Good
<1>5. \A u \in Blockers : on2[u] = IF u = t THEN Null ELSE on[u] BY <1>4
<1>6. Null \notin Blockers /\ Null \notin Channels /\ c # Null /\ d \in Directions
  BY Names DEF Good
<1>7. /\ \A y \in Directions : b.first[c][y] = t => y = d
      /\ \A y \in Directions : b.last[c][y] = t => y = d
  BY <1>6, EndsAre DEF Blocked
<1>8. (AtFirst(b, c, t) <=> b.first[c][d] = t) /\ (AtLast(b, c, t) <=> b.last[c][d] = t)
  BY <1>6, <1>7 DEF AtFirst, AtLast
<1>9. /\ p # Null => p \in Blockers /\ on[p] = c /\ b.dir[p] = d
      /\ q # Null => q \in Blockers /\ on[q] = c /\ b.dir[q] = d
  BY <1>1, <1>2, NeighboursStay
<1>10. ASSUME NEW s, NEW k \in 1..Len(s), ListOf(b, on, c, d, s), s[k] = t
       PROVE  ListOf(n, on2, c, d, RemoveAt(s, k))
  <2>1. /\ s \in Seq(Blockers) /\ Len(s) \in Nat /\ DOMAIN s = 1..Len(s)
        /\ \A i \in 1..Len(s) : s[i] \in Blockers
    BY <1>10, LenProperties, ElementOfSeq DEF ListOf
  <2>2. PICK m \in Nat : m = Len(s) BY <2>1
  <2>3. k \in 1..m /\ DOMAIN s = 1..m BY <2>1, <2>2
  <2>4. \A i, j \in 1..m : s[i] = s[j] => i = j BY <1>10, <2>3 DEF ListOf, IsInjective
  <2>5. \A i \in 1..m : /\ b.next[s[i]] = IF i = 1 THEN Null ELSE s[i - 1]
                        /\ b.prev[s[i]] = IF i = m THEN Null ELSE s[i + 1]
    BY <1>10, <2>2 DEF ListOf
  <2>6. s # <<>> /\ b.first[c][d] = s[1] /\ b.last[c][d] = s[m]
    BY <1>10, <2>2, <2>3, EmptySeq DEF ListOf
  <2>7. /\ AtFirst(b, c, t) <=> k = 1
        /\ AtLast(b, c, t) <=> k = m
        /\ 1 \in 1..m /\ m \in 1..m
    BY <1>8, <1>10, <2>3, <2>4, <2>6
  <2>8. /\ p = IF k = m THEN Null ELSE s[k + 1]
        /\ q = IF k = 1 THEN Null ELSE s[k - 1]
    BY <1>1, <1>2, <1>10, <2>3, <2>5
  <2>9. PICK r : r = RemoveAt(s, k) OBVIOUS
  <2>10. /\ r \in Seq(Blockers) /\ Len(r) = m - 1
         /\ \A i \in 1..(m - 1) : r[i] = s[Past(i, k)] /\ Past(i, k) \in 1..m
    <3>1. k \in 1..Len(s) /\ s \in Seq(Blockers) BY <2>1, <1>10
    <3>2. r \in Seq(Blockers) /\ Len(r) = Len(s) - 1 BY <2>9, <3>1, WithoutIs
    <3>3. \A i \in 1..Len(r) : r[i] = s[Past(i, k)] /\ Past(i, k) \in 1..Len(s)
      BY <2>9, <3>1, WithoutIs
    <3>4. Len(r) = m - 1 BY <2>2, <3>2
    <3> QED BY <2>2, <3>2, <3>3, <3>4
  <2>11. DOMAIN r = 1..(m - 1) BY <2>10, LenProperties
  <2>12. IsInjective(r)
    <3>1. \A i, j \in 1..(m - 1) : Past(i, k) = Past(j, k) => i = j BY <2>3 DEF Past
    <3> QED BY <2>4, <2>10, <2>11, <3>1 DEF IsInjective
  <2>13. ASSUME NEW u \in Blockers
         PROVE  (on2[u] = c /\ n.dir[u] = d) <=> \E i \in 1..Len(r) : r[i] = u
    <3>1. CASE u = t
      <4>1. \A i \in 1..(m - 1) : Past(i, k) # k BY <2>3 DEF Past
      <4>2. \A i \in 1..(m - 1) : r[i] # t BY <1>10, <2>3, <2>4, <2>10, <4>1
      <4> QED BY <1>5, <1>6, <2>10, <3>1, <4>2
    <3>2. CASE u # t
      <4>1. (on2[u] = c /\ n.dir[u] = d) <=> \E i \in 1..m : s[i] = u
        BY <1>3, <1>5, <1>10, <2>2, <3>2 DEF ListOf
      <4>2. ASSUME NEW i \in 1..m, s[i] = u PROVE \E j \in 1..(m - 1) : r[j] = u
        <5>1. i # k BY <1>10, <3>2, <4>2
        <5>2. CASE i < k
          <6>1. i \in 1..(m - 1) /\ Past(i, k) = i BY <2>3, <5>2 DEF Past
          <6> QED BY <2>10, <4>2, <6>1
        <5>3. CASE i > k
          <6>1. i - 1 \in 1..(m - 1) /\ Past(i - 1, k) = i BY <2>3, <5>3 DEF Past
          <6> QED BY <2>10, <4>2, <6>1
        <5> QED BY <2>3, <5>1, <5>2, <5>3
      <4>3. ASSUME NEW j \in 1..(m - 1), r[j] = u PROVE \E i \in 1..m : s[i] = u
        BY <2>10, <4>3
      <4> QED BY <2>10, <4>1, <4>2, <4>3
    <3> QED BY <3>1, <3>2
  <2>14. n.first[c][d] = IF r = <<>> THEN Null ELSE r[1]
    <3>1. n.first[c][d] = IF k = 1 THEN p ELSE s[1] BY <1>3, <1>6, <1>8, <2>6, <2>7
    <3>2. r = <<>> <=> m = 1 BY <2>7, <2>10, EmptySeq
    <3>3. m # 1 => 1 \in 1..(m - 1) /\ Past(1, k) = IF k = 1 THEN 2 ELSE 1
      BY <2>3 DEF Past
    <3> QED BY <2>3, <2>8, <2>10, <3>1, <3>2, <3>3
  <2>15. n.last[c][d] = IF r = <<>> THEN Null ELSE r[Len(r)]
    <3>1. n.last[c][d] = IF k = m THEN q ELSE s[m] BY <1>3, <1>6, <1>8, <2>6, <2>7
    <3>2. r = <<>> <=> m = 1 BY <2>7, <2>10, EmptySeq
    <3>3. m # 1 => m - 1 \in 1..(m - 1) /\ Past(m - 1, k) = IF k = m THEN m - 1 ELSE m
      BY <2>3 DEF Past
    <3> QED BY <2>3, <2>8, <2>10, <3>1, <3>2, <3>3
  <2>16. ASSUME NEW i \in 1..Len(r)
         PROVE  /\ n.next[r[i]] = IF i = 1 THEN Null ELSE r[i - 1]
                /\ n.prev[r[i]] = IF i = Len(r) THEN Null ELSE r[i + 1]
    <3>1. PICK j : j = Past(i, k) OBVIOUS
    <3>2. /\ i \in 1..(m - 1) /\ j \in 1..m /\ r[i] = s[j] /\ j # k
          /\ s[j] \in Blockers /\ s[j] # t
      <4>1. i \in 1..(m - 1) BY <2>10
      <4>2. j \in 1..m /\ r[i] = s[j] BY <2>10, <3>1, <4>1
      <4>3. j # k BY <2>3, <3>1, <4>1 DEF Past
      <4> QED BY <1>10, <2>1, <2>2, <2>3, <2>4, <4>1, <4>2, <4>3
    <3>3. (s[j] = p <=> j = k + 1) /\ (s[j] = q <=> j = k - 1)
      <4>1. k # m => k + 1 \in 1..m BY <2>3
      <4>2. k # 1 => k - 1 \in 1..m BY <2>3
      <4>3. k = m => j # k + 1 BY <3>2
      <4>4. k = 1 => j # k - 1 BY <3>2
      <4> QED BY <1>6, <2>4, <2>8, <3>2, <4>1, <4>2, <4>3, <4>4
    <3>4. n.next[s[j]] = IF j = k + 1 THEN (IF k = 1 THEN Null ELSE s[k - 1])
                                      ELSE (IF j = 1 THEN Null ELSE s[j - 1])
      <4>1. j = k + 1 => k # m BY <2>3, <3>2
      <4>2. n.next[s[j]] = IF j = k + 1 THEN (IF k = 1 THEN Null ELSE q) ELSE b.next[s[j]]
        BY <1>3, <2>7, <3>2, <3>3, <4>1
      <4> QED BY <2>5, <2>8, <3>2, <4>2
    <3>5. n.prev[s[j]] = IF j = k - 1 THEN (IF k = m THEN Null ELSE s[k + 1])
                                      ELSE (IF j = m THEN Null ELSE s[j + 1])
      <4>1. j = k - 1 => k # 1 BY <2>3, <3>2
      <4>2. n.prev[s[j]] = IF j = k - 1 THEN (IF k = m THEN Null ELSE p) ELSE b.prev[s[j]]
        BY <1>3, <2>7, <3>2, <3>3, <4>1
      <4> QED BY <2>5, <2>8, <3>2, <4>2
    <3>6. n.next[r[i]] = IF i = 1 THEN Null ELSE r[i - 1]
      <4>1. i # 1 => i - 1 \in 1..(m - 1) /\ r[i - 1] = s[Past(i - 1, k)] BY <2>10, <3>2
      <4>2. i # 1 => Past(i - 1, k) = IF j = k + 1 THEN k - 1 ELSE j - 1
        BY <2>3, <3>1, <3>2 DEF Past
      <4>3. (j = k + 1 => (i = 1 <=> k = 1)) /\ (j # k + 1 => (i = 1 <=> j = 1))
        BY <2>3, <3>1, <3>2 DEF Past
      <4> QED BY <3>2, <3>4, <4>1, <4>2, <4>3
    <3>7. n.prev[r[i]] = IF i = m - 1 THEN Null ELSE r[i + 1]
      <4>1. i # m - 1 => i + 1 \in 1..(m - 1) /\ r[i + 1] = s[Past(i + 1, k)] BY <2>10, <3>2
      <4>2. i # m - 1 => Past(i + 1, k) = IF j = k - 1 THEN k + 1 ELSE j + 1
        BY <2>3, <3>1, <3>2 DEF Past
      <4>3. (j = k - 1 => (i = m - 1 <=> k = m)) /\ (j # k - 1 => (i = m - 1 <=> j = m))
        BY <2>3, <3>1, <3>2 DEF Past
      <4> QED BY <3>2, <3>5, <4>1, <4>2, <4>3
    <3> QED BY <2>10, <3>6, <3>7
  <2> QED BY <2>9, <2>10, <2>12, <2>13, <2>14, <2>15, <2>16 DEF ListOf
<1>11. ASSUME NEW x \in Channels, NEW y \in Directions, NEW s, ListOf(b, on, x, y, s),
              x # c \/ y # d
       PROVE  ListOf(n, on2, x, y, s)
  <2>1. \A u \in Blockers : (on2[u] = x /\ n.dir[u] = y) <=> (on[u] = x /\ b.dir[u] = y)
    <3>1. ~(on[t] = x /\ b.dir[t] = y) /\ on2[t] # x BY <1>5, <1>6, <1>11
    <3> QED BY <1>3, <1>5, <3>1
  <2>2. \A u \in Blockers : on[u] = x /\ b.dir[u] = y =>
                              n.next[u] = b.next[u] /\ n.prev[u] = b.prev[u]
    <3>1. ASSUME NEW u \in Blockers, on[u] = x, b.dir[u] = y PROVE u # t /\ u # p /\ u # q
      BY <1>6, <1>9, <1>11, <3>1
    <3> QED BY <1>3, <3>1
  <2>3. n.first[x][y] = b.first[x][y] /\ n.last[x][y] = b.last[x][y]
    BY <1>3, <1>7, <1>11
  <2>4. SameList(b, on, n, on2, x, y) BY <2>1, <2>2, <2>3 DEF SameList
  <2> QED BY <1>11, <2>4, ListFrame
<1> QED BY <1>10, <1>11

LEMMA RemoveGood ==
  ASSUME NEW b, NEW on, NEW c, NEW t, NEW n, NEW on2, Removed(b, on, c, t, n, on2)
  PROVE  /\ Good(n, on2)
         /\ \A x \in Channels, y \in Directions :
              Blocked(n, on2, x, y) = Blocked(b, on, x, y) \ {t}
         /\ n.closing = b.closing /\ n.closed = b.closed
<1> /\ Good(b, on) /\ c \in Channels /\ t \in Blockers /\ on[t] = c
    /\ n = RemoveTaskletFromBlocked(b, c, t) /\ on2 = [on EXCEPT ![t] = Null]
  BY DEF Removed
<1>1. PICK d : d = b.dir[t] OBVIOUS
<1>2. PICK p : p = b.prev[t] OBVIOUS
<1>3. PICK q : q = b.next[t] OBVIOUS
<1>4. /\ n \in BlockedLists /\ n.closing = b.closing /\ n.closed = b.closed
      /\ \A u \in Blockers :
           /\ n.next[u] = IF u = t THEN Null
                          ELSE IF u = p /\ AtFirst(b, c, t) THEN Null
                          ELSE IF u = p /\ ~AtLast(b, c, t) THEN q ELSE b.next[u]
           /\ n.prev[u] = IF u = t THEN Null
                          ELSE IF u = q /\ AtLast(b, c, t) THEN Null
                          ELSE IF u = q /\ ~AtFirst(b, c, t) THEN p ELSE b.prev[u]
           /\ n.dir[u] = IF u = t THEN "NEITHER" ELSE b.dir[u]
      /\ \A x \in Channels :
           n.balance[x] = IF x = c THEN b.balance[c] - Weight(d) ELSE b.balance[x]
  BY <1>1, <1>2, <1>3, UnlinkIs DEF Good
<1>5. on \in [Blockers -> Channels \cup {Null}] BY DEF Good
<1>6. /\ on2 \in [Blockers -> Channels \cup {Null}]
      /\ \A u \in Blockers : on2[u] = IF u = t THEN Null ELSE on[u]
  BY <1>5
<1>7. Null \notin Blockers /\ Null \notin Channels /\ c # Null /\ d \in Directions
  BY <1>1, Names DEF Good
<1>8. (p # Null => on[p] = c) /\ (q # Null => on[q] = c)
  BY <1>2, <1>3, NeighboursStay
<1>9. \A x \in Channels, y \in Directions : \E s : ListOf(n, on2, x, y, s)
  <2> SUFFICES ASSUME NEW x \in Channels, NEW y \in Directions PROVE \E s : ListOf(n, on2, x, y, s)
    OBVIOUS
  <2>1. PICK s : ListOf(b, on, x, y, s) BY DEF Good
  <2>2. CASE x = c /\ y = d
    <3>1. \A z, k : /\ ListOf(b, on, c, d, z) /\ k \in 1..Len(z) /\ z[k] = t
                    => ListOf(n, on2, c, d, RemoveAt(z, k))
      BY <1>1, RemoveLists
    <3>2. PICK k \in 1..Len(s) : s[k] = t BY <1>1, <2>1, <2>2 DEF ListOf
    <3>3. ListOf(n, on2, c, d, RemoveAt(s, k)) BY <2>1, <2>2, <3>1, <3>2
    <3> QED BY <2>2, <3>3
  <2>3. CASE x # c \/ y # d
    <3>1. \A v \in Channels, w \in Directions : \A z :
            ListOf(b, on, v, w, z) /\ (v # c \/ w # d) => ListOf(n, on2, v, w, z)
      BY <1>1, RemoveLists
    <3>2. ListOf(n, on2, x, y, s) BY <2>1, <2>3, <3>1
    <3> QED BY <3>2
  <2> QED BY <2>2, <2>3
<1>10. ASSUME NEW u \in Blockers
       PROVE  IF on2[u] = Null THEN n.next[u] = Null /\ n.prev[u] = Null /\ n.dir[u] = "NEITHER"
                               ELSE n.dir[u] \in Directions
  <2>1. CASE u = t BY <1>4, <1>6, <2>1
  <2>2. CASE u # t
    <3>1. on2[u] = on[u] /\ n.dir[u] = b.dir[u] BY <1>4, <1>6, <2>2
    <3>2. on[u] = Null => u # p /\ u # q BY <1>7, <1>8
    <3>3. on[u] = Null => n.prev[u] = b.prev[u] /\ n.next[u] = b.next[u] BY <1>4, <2>2, <3>2
    <3> QED BY <3>1, <3>3 DEF Good
  <2> QED BY <2>1, <2>2
<1>11. ASSUME NEW x \in Channels, NEW y \in Directions
       PROVE  Blocked(n, on2, x, y) = Blocked(b, on, x, y) \ {t}
  <2>1. \A u \in Blockers : u # t => on2[u] = on[u] /\ n.dir[u] = b.dir[u] BY <1>4, <1>6
  <2>2. on2[t] # x BY <1>6, <1>7
  <2> QED BY <2>1, <2>2 DEF Blocked
<1>12. \A x \in Channels, y \in Directions :
         x # c \/ y # d => Blocked(n, on2, x, y) = Blocked(b, on, x, y)
  <2> SUFFICES ASSUME NEW x \in Channels, NEW y \in Directions, x # c \/ y # d
               PROVE  Blocked(n, on2, x, y) = Blocked(b, on, x, y)
    OBVIOUS
  <2>1. PICK B : B = Blocked(b, on, x, y) OBVIOUS
  <2>2. t \notin B BY <1>1, <2>1 DEF Blocked
  <2>3. Blocked(n, on2, x, y) = B \ {t} BY <1>11, <2>1
  <2>4. B \ {t} = B BY <2>2
  <2> QED BY <2>1, <2>3, <2>4
<1>13. ASSUME NEW x \in Channels
       PROVE  n.balance[x] = Cardinality(Blocked(n, on2, x, "SENDER"))
                               - Cardinality(Blocked(n, on2, x, "RECEIVER"))
  <2>1. b.balance[x] = Cardinality(Blocked(b, on, x, "SENDER"))
                         - Cardinality(Blocked(b, on, x, "RECEIVER"))
    BY DEF Good
  <2>2. "SENDER" \in Directions /\ "RECEIVER" \in Directions BY DEF Directions
  <2>3. CASE x # c
    <3>1. /\ Blocked(n, on2, x, "SENDER") = Blocked(b, on, x, "SENDER")
          /\ Blocked(n, on2, x, "RECEIVER") = Blocked(b, on, x, "RECEIVER")
          /\ n.balance[x] = b.balance[x]
      BY <1>4, <1>12, <2>2, <2>3
    <3> QED BY <2>1, <3>1
  <2>4. CASE x = c
    <3>1. t \in Blocked(b, on, c, d) BY <1>1 DEF Blocked
    <3>2. Cardinality(Blocked(b, on, c, d) \ {t}) = Cardinality(Blocked(b, on, c, d)) - 1
      BY <3>1, BlockedFinite, FS_RemoveElement
    <3>3. Cardinality(Blocked(n, on2, c, d)) = Cardinality(Blocked(b, on, c, d)) - 1
      BY <1>7, <1>11, <3>2
    <3>4. \A y \in Directions : y # d =>
            Cardinality(Blocked(n, on2, c, y)) = Cardinality(Blocked(b, on, c, y))
      BY <1>12
    <3>5. n.balance[c] = b.balance[c] - Weight(d) BY <1>4
    <3>6. \A y \in Directions : Cardinality(Blocked(b, on, c, y)) \in Nat BY BlockedFinite
    <3>7. PICK i \in Nat : i = Cardinality(Blocked(b, on, c, "SENDER")) BY <2>2, <3>6
    <3>8. PICK j \in Nat : j = Cardinality(Blocked(b, on, c, "RECEIVER")) BY <2>2, <3>6
    <3>9. b.balance[c] = i - j BY <2>1, <2>4, <3>7, <3>8
    <3>10. CASE d = "SENDER"
      <4>1. n.balance[c] = (i - j) - 1 BY <3>5, <3>9, <3>10, Names
      <4>2. Cardinality(Blocked(n, on2, c, "SENDER")) = i - 1 BY <3>3, <3>7, <3>10
      <4>3. Cardinality(Blocked(n, on2, c, "RECEIVER")) = j BY <2>2, <3>4, <3>8, <3>10
      <4>4. (i - j) - 1 = (i - 1) - j OBVIOUS
      <4> QED BY <2>4, <4>1, <4>2, <4>3, <4>4
    <3>11. CASE d = "RECEIVER"
      <4>1. n.balance[c] = (i - j) - (-1) BY <3>5, <3>9, <3>11, Names
      <4>2. Cardinality(Blocked(n, on2, c, "RECEIVER")) = j - 1 BY <3>3, <3>8, <3>11
      <4>3. Cardinality(Blocked(n, on2, c, "SENDER")) = i BY <2>2, <3>4, <3>7, <3>11
      <4>4. (i - j) - (-1) = i - (j - 1) OBVIOUS
      <4> QED BY <2>4, <4>1, <4>2, <4>3, <4>4
    <3> QED BY <1>7, <3>10, <3>11 DEF Directions
  <2> QED BY <2>3, <2>4
<1>14. Good(n, on2) BY <1>4, <1>6, <1>9, <1>10, <1>13 DEF Good
<1> QED BY <1>4, <1>11, <1>14

(* Two records that agree field by field are equal.                        *)
LEMMA SameFields ==
  ASSUME NEW b \in BlockedLists, NEW n \in BlockedLists,
         \A x \in Channels, y \in Directions :
           n.first[x][y] = b.first[x][y] /\ n.last[x][y] = b.last[x][y],
         \A u \in Blockers : n.next[u] = b.next[u] /\ n.prev[u] = b.prev[u] /\ n.dir[u] = b.dir[u],
         \A x \in Channels : n.balance[x] = b.balance[x],
         n.closing = b.closing, n.closed = b.closed
  PROVE  n = b
<1>1. n.first = b.first BY DEF BlockedLists
<1>2. n.last = b.last BY DEF BlockedLists
<1>3. n.next = b.next /\ n.prev = b.prev /\ n.dir = b.dir BY DEF BlockedLists
<1>4. n.balance = b.balance BY DEF BlockedLists
<1>5. n = [first |-> n.first, last |-> n.last, next |-> n.next, prev |-> n.prev, dir |-> n.dir,
           balance |-> n.balance, closing |-> n.closing, closed |-> n.closed]
  BY DEF BlockedLists
<1>6. b = [first |-> b.first, last |-> b.last, next |-> b.next, prev |-> b.prev, dir |-> b.dir,
           balance |-> b.balance, closing |-> b.closing, closed |-> b.closed]
  BY DEF BlockedLists
<1> QED BY <1>1, <1>2, <1>3, <1>4, <1>5, <1>6

(* Taking a tasklet off a list it is not on changes nothing.               *)
LEMMA RemoveNothing ==
  ASSUME NEW b, NEW on, Good(b, on), NEW c \in Channels, NEW t \in Blockers, on[t] = Null
  PROVE  RemoveTaskletFromBlocked(b, c, t) = b
<1>1. PICK n : n = RemoveTaskletFromBlocked(b, c, t) OBVIOUS
<1>2. /\ b \in BlockedLists /\ b.next[t] = Null /\ b.prev[t] = Null /\ b.dir[t] = "NEITHER"
      /\ Null \notin Blockers /\ Null \notin Channels /\ Weight("NEITHER") = 0
  BY Names DEF Good
<1>3. \A y \in Directions : b.first[c][y] # t /\ b.last[c][y] # t
  BY <1>2, EndsAre DEF Blocked
<1>4. /\ n \in BlockedLists
      /\ \A x \in Channels, y \in Directions :
           n.first[x][y] = b.first[x][y] /\ n.last[x][y] = b.last[x][y]
      /\ n.closing = b.closing /\ n.closed = b.closed
  BY <1>1, <1>2, <1>3, UnlinkIs
<1>5. \A u \in Blockers : n.next[u] = b.next[u] /\ n.prev[u] = b.prev[u] /\ n.dir[u] = b.dir[u]
  BY <1>1, <1>2, UnlinkIs
<1>6. \A x \in Channels : n.balance[x] = b.balance[x]
  <2>1. \A x \in Channels : n.balance[x] = IF x = c THEN b.balance[c] - Weight(b.dir[t]) ELSE b.balance[x]
    BY <1>1, <1>2, UnlinkIs
  <2>2. \A x \in Channels : b.balance[x] \in Int BY <1>2 DEF BlockedLists
  <2> QED BY <1>2, <2>1, <2>2
<1>7. n = b BY <1>2, <1>4, <1>5, <1>6, SameFields
<1> QED BY <1>1, <1>7

(* The flags of a channel are no part of its lists.                        *)
SameLinks(b, n) ==
  /\ n \in BlockedLists
  /\ n.first = b.first /\ n.last = b.last /\ n.next = b.next /\ n.prev = b.prev
  /\ n.dir = b.dir /\ n.balance = b.balance

LEMMA FlagsKeep ==
  ASSUME NEW b, NEW on, NEW n, Good(b, on), SameLinks(b, n)
  PROVE  /\ Good(n, on)
         /\ \A c \in Channels, d \in Directions : \A s : ListOf(b, on, c, d, s) => ListOf(n, on, c, d, s)
         /\ \A c, d : Blocked(n, on, c, d) = Blocked(b, on, c, d)
<1>1. \A c, d : Blocked(n, on, c, d) = Blocked(b, on, c, d) BY DEF SameLinks, Blocked
<1>2. \A c \in Channels, d \in Directions : \A s : ListOf(b, on, c, d, s) => ListOf(n, on, c, d, s)
  BY DEF SameLinks, ListOf
<1>3. \A c \in Channels, d \in Directions : \E s : ListOf(n, on, c, d, s) BY <1>2 DEF Good
<1> QED BY <1>1, <1>2, <1>3 DEF Good, SameLinks

(* A balance of zero is that of an empty channel, because nobody waits     *)
(* there on one of the two sides.                                          *)
LEMMA ZeroIsEmpty ==
  ASSUME NEW b, NEW on, Good(b, on), Sided(b, on), NEW c \in Channels
  PROVE  b.balance[c] = 0 <=> \A d \in Directions : Blocked(b, on, c, d) = {}
<1>1. PICK S : S = Blocked(b, on, c, "SENDER") OBVIOUS
<1>2. PICK R : R = Blocked(b, on, c, "RECEIVER") OBVIOUS
<1>3. /\ IsFiniteSet(S) /\ Cardinality(S) \in Nat
      /\ IsFiniteSet(R) /\ Cardinality(R) \in Nat
  BY <1>1, <1>2, BlockedFinite
<1>4. (Cardinality(S) = 0 <=> S = {}) /\ (Cardinality(R) = 0 <=> R = {}) BY <1>3, FS_EmptySet
<1>5. b.balance[c] = Cardinality(S) - Cardinality(R) BY <1>1, <1>2 DEF Good
<1>6. S = {} \/ R = {} BY <1>1, <1>2 DEF Sided, Directions
<1>7. (\A d \in Directions : Blocked(b, on, c, d) = {}) <=> S = {} /\ R = {}
  BY <1>1, <1>2 DEF Directions
<1>8. b.balance[c] = 0 <=> Cardinality(S) = 0 /\ Cardinality(R) = 0 BY <1>3, <1>4, <1>5, <1>6
<1> QED BY <1>4, <1>7, <1>8

-----------------------------------------------------------------------------
(* The steps that the actions are made of.                                 *)
Off(b, on, in, c, t, n, on2) ==
  /\ Fine(b, on, in) /\ c \in Channels /\ t \in Blockers /\ (on[t] = c \/ on[t] = Null)
  /\ n = RemoveTaskletFromBlocked(b, c, t) /\ on2 = [on EXCEPT ![t] = Null]

Seen(b, on, in, c, n) == Fine(b, on, in) /\ c \in Channels /\ n = UpdateCloseState(b, c)

Joined(b, on, in, c, d, t, n, on2, in2) ==
  /\ Fine(b, on, in) /\ c \in Channels /\ d \in Directions /\ t \in Blockers
  /\ in[t] = Null /\ b.first[c][Opposite(d)] = Null /\ ~Refuses(b, c)
  /\ n = AddTaskletToWaiting(b, c, d, t) /\ on2 = [on EXCEPT ![t] = c]
  /\ in2 = [in EXCEPT ![t] = [chan |-> c, dir |-> d]]

LEMMA Shrinks ==
  ASSUME NEW b, NEW on, NEW in, Fine(b, on, in), NEW n, NEW on2, Good(n, on2),
         \A c \in Channels, d \in Directions : Blocked(n, on2, c, d) \subseteq Blocked(b, on, c, d),
         n.closing = b.closing, n.closed = b.closed
  PROVE  Fine(n, on2, in)
<1>1. \A c \in Channels, d \in Directions :
        Blocked(b, on, c, d) = {} => Blocked(n, on2, c, d) = {}
  OBVIOUS
<1>2. Sided(n, on2) BY <1>1 DEF Fine, Sided
<1>3. Shutting(n, on2) BY <1>1 DEF Fine, Shutting
<1>4. Calling(n, on2, in) BY DEF Fine, Calling
<1> QED BY <1>2, <1>3, <1>4 DEF Fine

LEMMA Removes ==
  ASSUME NEW b, NEW on, NEW in, NEW c, NEW t, NEW n, NEW on2, Off(b, on, in, c, t, n, on2)
  PROVE  /\ Fine(n, on2, in)
         /\ \A x \in Channels, y \in Directions :
              Blocked(n, on2, x, y) \subseteq Blocked(b, on, x, y) \ {t}
<1>1. /\ Good(b, on) /\ on \in [Blockers -> Channels \cup {Null}]
      /\ Null \notin Channels /\ Fine(b, on, in)
      /\ c \in Channels /\ t \in Blockers
  BY Names DEF Off, Fine, Good
<1>2. CASE on[t] = c
  <2>1. Removed(b, on, c, t, n, on2) BY <1>1, <1>2 DEF Off, Removed
  <2>2. /\ Good(n, on2) /\ n.closing = b.closing /\ n.closed = b.closed
        /\ \A x \in Channels, y \in Directions : Blocked(n, on2, x, y) = Blocked(b, on, x, y) \ {t}
    BY <2>1, RemoveGood
  <2>3. \A x \in Channels, y \in Directions : Blocked(n, on2, x, y) \subseteq Blocked(b, on, x, y)
    BY <2>2
  <2>4. Fine(n, on2, in) BY <1>1, <2>2, <2>3, Shrinks
  <2> QED BY <2>2, <2>4
<1>3. CASE on[t] = Null
  <2>1. on2 = on BY <1>1, <1>3 DEF Off
  <2>2. n = b BY <1>1, <1>3, RemoveNothing DEF Off
  <2>3. \A x \in Channels, y \in Directions : t \notin Blocked(b, on, x, y)
    BY <1>1, <1>3 DEF Blocked
  <2> QED BY <1>1, <2>1, <2>2, <2>3
<1> QED BY <1>2, <1>3 DEF Off

LEMMA Updates ==
  ASSUME NEW b, NEW on, NEW in, NEW c, NEW n, Seen(b, on, in, c, n)
  PROVE  /\ Fine(n, on, in) /\ SameLinks(b, n) /\ n.closing = b.closing
         /\ \A x, y : Blocked(n, on, x, y) = Blocked(b, on, x, y)
<1>1. n = UpdateCloseState(b, c) /\ c \in Channels /\ Fine(b, on, in) BY DEF Seen
<1>2. Good(b, on) /\ Sided(b, on) /\ b \in BlockedLists BY <1>1 DEF Fine, Good
<1>3. /\ SameLinks(b, n) /\ n.closing = b.closing
      /\ \A x \in Channels :
           n.closed[x] = (b.closed[x] \/ (x = c /\ b.closing[c] /\ b.balance[c] = 0))
  BY <1>1, <1>2, CloseStateIs DEF SameLinks
<1>4. /\ Good(n, on)
      /\ \A x, y : Blocked(n, on, x, y) = Blocked(b, on, x, y)
  BY <1>2, <1>3, FlagsKeep
<1>5. b.balance[c] = 0 => \A d \in Directions : Blocked(b, on, c, d) = {}
  BY <1>1, <1>2, ZeroIsEmpty
<1>6. Shutting(n, on) BY <1>1, <1>3, <1>4, <1>5 DEF Fine, Shutting
<1>7. Sided(n, on) /\ Calling(n, on, in) BY <1>1, <1>4 DEF Fine, Sided, Calling
<1>8. Fine(n, on, in) BY <1>1, <1>4, <1>6, <1>7 DEF Fine
<1> QED BY <1>3, <1>4, <1>8

LEMMA Leaves ==
  ASSUME NEW b, NEW on, NEW in, Fine(b, on, in), NEW t \in Blockers, on[t] = Null
  PROVE  Fine(b, on, [in EXCEPT ![t] = Null])
<1>1. PICK in2 : in2 = [in EXCEPT ![t] = Null] OBVIOUS
<1>2. /\ in \in [Blockers -> [chan : Channels, dir : Directions] \cup {Null}]
      /\ Null \notin Channels
  BY Names DEF Fine
<1>3. /\ in2 \in [Blockers -> [chan : Channels, dir : Directions] \cup {Null}]
      /\ \A u \in Blockers : u # t => in2[u] = in[u]
  BY <1>1, <1>2
<1>4. Calling(b, on, in2) BY <1>2, <1>3 DEF Fine, Calling, Blocked
<1>5. Fine(b, on, in2) BY <1>3, <1>4 DEF Fine
<1> QED BY <1>1, <1>5

(* Who is in no call waits nowhere, and who waits does so where it called. *)
LEMMA CallerIs ==
  ASSUME NEW b, NEW on, NEW in, Fine(b, on, in), NEW t \in Blockers
  PROVE  /\ in[t] = Null => on[t] = Null
         /\ \A c \in Channels, d \in Directions :
              in[t] = [chan |-> c, dir |-> d] => on[t] = c \/ on[t] = Null
<1>1. CASE on[t] = Null BY <1>1
<1>2. CASE on[t] # Null
  <2>1. on[t] \in Channels /\ b.dir[t] \in Directions BY <1>2 DEF Fine, Good
  <2>2. t \in Blocked(b, on, on[t], b.dir[t]) BY DEF Blocked
  <2>3. in[t] = [chan |-> on[t], dir |-> b.dir[t]] BY <2>1, <2>2 DEF Fine, Calling
  <2>4. in[t] # Null BY <2>1, <2>3, Names
  <2>5. in[t].chan = on[t] BY <2>3
  <2> QED BY <2>4, <2>5
<1> QED BY <1>1, <1>2

-----------------------------------------------------------------------------
(* The actions.                                                            *)

LEMMA Blocks ==
  ASSUME NEW b, NEW on, NEW in, NEW c, NEW d, NEW t, NEW n, NEW on2, NEW in2,
         Joined(b, on, in, c, d, t, n, on2, in2)
  PROVE  /\ Fine(n, on2, in2) /\ Added(b, on, c, d, t, n, on2)
         /\ \A x \in Channels, y \in Directions :
              Blocked(n, on2, x, y) = IF x = c /\ y = d THEN Blocked(b, on, c, d) \cup {t}
                                                       ELSE Blocked(b, on, x, y)
<1> /\ Fine(b, on, in) /\ c \in Channels /\ d \in Directions /\ t \in Blockers
    /\ in[t] = Null /\ b.first[c][Opposite(d)] = Null /\ ~Refuses(b, c)
  BY DEF Joined
<1>3. Added(b, on, c, d, t, n, on2)
  <2>1. on[t] = Null BY CallerIs
  <2> QED BY <2>1 DEF Fine, Added, Joined
<1>4. Good(b, on) /\ on[t] = Null BY <1>3 DEF Added
<1>5. /\ Good(n, on2) /\ n.closing = b.closing /\ n.closed = b.closed
      /\ \A x \in Channels, y \in Directions :
           Blocked(n, on2, x, y) = IF x = c /\ y = d THEN Blocked(b, on, c, d) \cup {t}
                                                    ELSE Blocked(b, on, x, y)
  BY <1>3, AddGood
<1>6. Sided(n, on2)
  <2>1. Opposite(d) \in Directions /\ Opposite(d) # d BY DEF Opposite, Directions
  <2>2. Blocked(b, on, c, Opposite(d)) = {} BY <1>4, <2>1, EndsAre
  <2>3. Blocked(n, on2, c, Opposite(d)) = {} BY <1>5, <2>1, <2>2
  <2> QED BY <1>5, <2>1, <2>3 DEF Fine, Sided
<1>7. Shutting(n, on2) BY <1>5 DEF Fine, Shutting, Refuses
<1>8. /\ in2 \in [Blockers -> [chan : Channels, dir : Directions] \cup {Null}]
      /\ in2[t] = [chan |-> c, dir |-> d] /\ \A u \in Blockers : u # t => in2[u] = in[u]
  BY DEF Fine, Joined
<1>9. Calling(n, on2, in2)
  <2>1. \A x \in Channels, y \in Directions : t \notin Blocked(b, on, x, y)
    BY <1>4, Names DEF Blocked
  <2>2. \A x \in Channels, y \in Directions : Blocked(b, on, x, y) \subseteq Blockers
    BY DEF Blocked
  <2> SUFFICES ASSUME NEW x \in Channels, NEW y \in Directions, NEW u \in Blocked(n, on2, x, y)
               PROVE  in2[u] = [chan |-> x, dir |-> y]
    BY DEF Calling
  <2>3. CASE u = t
    <3>1. x = c /\ y = d BY <1>5, <2>1, <2>3
    <3> QED BY <1>8, <2>3, <3>1
  <2>4. CASE u # t
    <3>1. u \in Blocked(b, on, x, y) BY <1>5, <2>4
    <3>2. in[u] = [chan |-> x, dir |-> y] BY <3>1 DEF Fine, Calling
    <3> QED BY <1>8, <2>2, <2>4, <3>1, <3>2
  <2> QED BY <2>3, <2>4
<1>10. Fine(n, on2, in2) BY <1>5, <1>6, <1>7, <1>8, <1>9 DEF Fine
<1> QED BY <1>3, <1>5, <1>10

(* A tasklet that is put on a list and taken off again leaves no trace.    *)
LEMMA RefuseIsNothing ==
  ASSUME NEW b, NEW on, Good(b, on), NEW c \in Channels, NEW d \in Directions,
         NEW t \in Blockers, on[t] = Null
  PROVE  RemoveTaskletFromBlocked(AddTaskletToWaiting(b, c, d, t), c, t) = b
<1>1. PICK a : a = AddTaskletToWaiting(b, c, d, t) OBVIOUS
<1>2. PICK n : n = RemoveTaskletFromBlocked(a, c, t) OBVIOUS
<1>3. PICK l : l = b.last[c][d] OBVIOUS
<1>4. /\ b \in BlockedLists /\ b.next[t] = Null /\ b.prev[t] = Null /\ b.dir[t] = "NEITHER"
      /\ Null \notin Blockers /\ Null \notin Channels
  BY Names DEF Good
<1>5. \A y \in Directions : b.first[c][y] # t /\ b.last[c][y] # t
  BY <1>4, EndsAre DEF Blocked
<1>6. (l = Null => b.first[c][d] = Null) /\ (l # Null => l \in Blockers /\ b.prev[l] = Null)
  <2>1. PICK s : ListOf(b, on, c, d, s) BY DEF Good
  <2>2. /\ s \in Seq(Blockers) /\ Len(s) \in Nat
        /\ s # <<>> => Len(s) \in 1..Len(s)
        /\ \A i \in 1..Len(s) : s[i] \in Blockers
    BY <2>1, LenProperties, EmptySeq, ElementOfSeq DEF ListOf
  <2> QED BY <1>3, <1>4, <2>1, <2>2 DEF ListOf
<1>7. a \in BlockedLists /\ a.closing = b.closing /\ a.closed = b.closed
  BY <1>1, <1>3, <1>4, AddIs
<1>8. \A x \in Channels, y \in Directions :
        /\ a.first[x][y] = IF x = c /\ y = d /\ l = Null THEN t ELSE b.first[x][y]
        /\ a.last[x][y] = IF x = c /\ y = d THEN t ELSE b.last[x][y]
  BY <1>1, <1>3, <1>4, AddIs
<1>9. \A u \in Blockers :
        /\ a.next[u] = IF u = t /\ l # Null THEN l ELSE b.next[u]
        /\ a.prev[u] = IF u = l THEN t ELSE b.prev[u]
        /\ a.dir[u] = IF u = t THEN d ELSE b.dir[u]
  BY <1>1, <1>3, <1>4, AddIs
<1>10. \A x \in Channels : a.balance[x] = IF x = c THEN b.balance[c] + Weight(d) ELSE b.balance[x]
  BY <1>1, <1>3, <1>4, AddIs
<1>11. a.prev[t] = Null /\ a.next[t] = l /\ a.dir[t] = d BY <1>3, <1>4, <1>5, <1>9
<1>12. AtLast(a, c, t) BY <1>8 DEF AtLast
<1>13. n \in BlockedLists /\ n.closing = b.closing /\ n.closed = b.closed
  BY <1>2, <1>7, <1>11, UnlinkIs
<1>14. \A x \in Channels, y \in Directions :
         /\ n.first[x][y] = IF x = c /\ a.first[c][y] = t THEN Null ELSE a.first[x][y]
         /\ n.last[x][y] = IF x = c /\ a.last[c][y] = t THEN l ELSE a.last[x][y]
  BY <1>2, <1>7, <1>11, UnlinkIs
<1>15. \A u \in Blockers :
         /\ n.next[u] = IF u = t THEN Null ELSE a.next[u]
         /\ n.prev[u] = IF u = t THEN Null ELSE IF u = l THEN Null ELSE a.prev[u]
         /\ n.dir[u] = IF u = t THEN "NEITHER" ELSE a.dir[u]
  BY <1>2, <1>4, <1>7, <1>11, <1>12, UnlinkIs
<1>16. \A x \in Channels : n.balance[x] = IF x = c THEN a.balance[c] - Weight(d) ELSE a.balance[x]
  BY <1>2, <1>7, <1>11, UnlinkIs
<1>17. \A x \in Channels, y \in Directions :
         n.first[x][y] = b.first[x][y] /\ n.last[x][y] = b.last[x][y]
  BY <1>3, <1>5, <1>6, <1>8, <1>14
<1>18. \A u \in Blockers : n.next[u] = b.next[u] /\ n.prev[u] = b.prev[u] /\ n.dir[u] = b.dir[u]
  BY <1>4, <1>6, <1>9, <1>15
<1>19. \A x \in Channels : n.balance[x] = b.balance[x]
  <2>1. Weight(d) \in Int BY Names DEF Directions
  <2>2. \A x \in Channels : b.balance[x] \in Int BY <1>4 DEF BlockedLists
  <2> QED BY <1>10, <1>16, <2>1, <2>2
<1>20. n = b BY <1>4, <1>13, <1>17, <1>18, <1>19, SameFields
<1> QED BY <1>1, <1>2, <1>20

LEMMA Flags ==
  ASSUME NEW b, NEW on, NEW in, Fine(b, on, in), NEW c \in Channels, NEW n,
         n = CloseChannel(b, c) \/ n = OpenChannel(b, c)
  PROVE  /\ Fine(n, on, in) /\ SameLinks(b, n)
         /\ \A x, y : Blocked(n, on, x, y) = Blocked(b, on, x, y)
         /\ n = CloseChannel(b, c) => \A x \in Channels : n.closing[x] <=> b.closing[x] \/ x = c
         /\ n = OpenChannel(b, c) => \A x \in Channels : n.closing[x] <=> b.closing[x] /\ x # c
<1>1. Good(b, on) /\ b \in BlockedLists BY DEF Fine, Good
<1>2. PICK m : m = [b EXCEPT !.closing[c] = TRUE] OBVIOUS
<1>3. /\ SameLinks(b, m) /\ m.closed = b.closed
      /\ \A x \in Channels : m.closing[x] <=> b.closing[x] \/ x = c
  BY <1>1, <1>2 DEF SameLinks, BlockedLists
<1>4. Good(m, on) /\ \A x, y : Blocked(m, on, x, y) = Blocked(b, on, x, y)
  BY <1>1, <1>3, FlagsKeep
<1>5. Fine(m, on, in)
  <2>1. Sided(m, on) BY <1>4 DEF Fine, Sided
  <2>2. Shutting(m, on) BY <1>3, <1>4 DEF Fine, Shutting
  <2>3. Calling(m, on, in) BY <1>4 DEF Fine, Calling
  <2> QED BY <1>4, <2>1, <2>2, <2>3 DEF Fine
<1>6. ASSUME n = CloseChannel(b, c)
      PROVE  /\ Fine(n, on, in) /\ SameLinks(b, n)
             /\ \A x, y : Blocked(n, on, x, y) = Blocked(b, on, x, y)
             /\ \A x \in Channels : n.closing[x] <=> b.closing[x] \/ x = c
  <2>1. n = UpdateCloseState(m, c) BY <1>2, <1>6 DEF CloseChannel
  <2>2. /\ Fine(n, on, in) /\ SameLinks(m, n) /\ n.closing = m.closing
        /\ \A x, y : Blocked(n, on, x, y) = Blocked(m, on, x, y)
    <3>1. Seen(m, on, in, c, n) BY <1>5, <2>1 DEF Seen
    <3> QED BY <3>1, Updates
  <2>3. SameLinks(b, n) BY <1>3, <2>2 DEF SameLinks
  <2> QED BY <1>3, <1>4, <2>2, <2>3
<1>7. ASSUME n = OpenChannel(b, c)
      PROVE  /\ Fine(n, on, in) /\ SameLinks(b, n)
             /\ \A x, y : Blocked(n, on, x, y) = Blocked(b, on, x, y)
             /\ \A x \in Channels : n.closing[x] <=> b.closing[x] /\ x # c
  <2>1. /\ SameLinks(b, n)
        /\ \A x \in Channels : n.closing[x] <=> b.closing[x] /\ x # c
        /\ \A x \in Channels : n.closed[x] <=> b.closed[x] /\ x # c
    BY <1>1, <1>7 DEF SameLinks, BlockedLists, OpenChannel
  <2>2. Good(n, on) /\ \A x, y : Blocked(n, on, x, y) = Blocked(b, on, x, y)
    BY <1>1, <2>1, FlagsKeep
  <2>3. Sided(n, on) BY <2>2 DEF Fine, Sided
  <2>4. Shutting(n, on) BY <2>1, <2>2 DEF Fine, Shutting
  <2>5. Calling(n, on, in) BY <2>2 DEF Fine, Calling
  <2> QED BY <2>1, <2>2, <2>3, <2>4, <2>5 DEF Fine
<1>8. CloseChannel(b, c) # OpenChannel(b, c)
  <2>1. CloseChannel(b, c).closing[c] = TRUE BY <1>1 DEF CloseChannel, UpdateCloseState, BlockedLists
  <2>2. OpenChannel(b, c).closing[c] = FALSE BY <1>1 DEF OpenChannel, BlockedLists
  <2> QED BY <2>1, <2>2
<1> QED BY <1>6, <1>7, <1>8

(* The messages that the blocked hold, when the tasklets in U are not      *)
(* blocked any more.                                                       *)
LEMMA HeldKeeps ==
  ASSUME NEW b, NEW on, NEW args, Held(b, on, args), NEW n, NEW on2, NEW args2, NEW U,
         \A c \in Channels, d \in Directions :
           Blocked(n, on2, c, d) \subseteq Blocked(b, on, c, d) \ U,
         \A u \in Blockers \ U : args2[u] = args[u]
  PROVE  Held(n, on2, args2)
<1> SUFFICES ASSUME NEW c \in Channels, NEW d \in Directions, NEW t \in Blocked(n, on2, c, d)
             PROVE  args2[t] <=> d = "SENDER"
  BY DEF Held
<1>1. t \in Blocked(b, on, c, d) /\ t \notin U /\ t \in Blockers BY DEF Blocked
<1>2. args[t] <=> d = "SENDER" BY <1>1 DEF Held
<1> QED BY <1>1, <1>2

LEMMA IInvInit == Init => IInv
<1> SUFFICES ASSUME Init PROVE IInv
  OBVIOUS
<1>1. PICK b : b = bl OBVIOUS
<1>2. PICK on : on = channelBlockedOn OBVIOUS
<1>3. b = EmptyLists /\ on = [t \in Blockers |-> Null] BY <1>1, <1>2 DEF Init
<1>4. b \in BlockedLists BY <1>3 DEF EmptyLists, BlockedLists, Links
<1>5. on \in [Blockers -> Channels \cup {Null}] BY <1>3
<1>6. \A c \in Channels : \A d : Blocked(b, on, c, d) = {} BY <1>3, Names DEF Blocked
<1>7. ASSUME NEW c \in Channels, NEW d \in Directions PROVE ListOf(b, on, c, d, <<>>)
  <2>1. /\ <<>> \in Seq(Blockers) /\ IsInjective(<<>>) /\ Len(<<>>) = 0
        /\ \A i \in 1..Len(<<>>) : FALSE
    BY EmptySeq DEF IsInjective
  <2>2. b.first[c][d] = Null /\ b.last[c][d] = Null BY <1>3 DEF EmptyLists
  <2>3. \A t \in Blockers : ~(on[t] = c /\ b.dir[t] = d) BY <1>6 DEF Blocked
  <2> QED BY <2>1, <2>2, <2>3 DEF ListOf
<1>8. \A t \in Blockers : on[t] = Null /\ b.next[t] = Null /\ b.prev[t] = Null /\ b.dir[t] = "NEITHER"
  BY <1>3 DEF EmptyLists
<1>9. ASSUME NEW c \in Channels
      PROVE  b.balance[c] = Cardinality(Blocked(b, on, c, "SENDER"))
                              - Cardinality(Blocked(b, on, c, "RECEIVER"))
  <2>1. b.balance[c] = 0 BY <1>3 DEF EmptyLists
  <2>2. PICK D : D = {} OBVIOUS
  <2>3. Cardinality(D) = 0 BY <2>2, FS_EmptySet
  <2> QED BY <1>6, <2>1, <2>2, <2>3
<1>10. Good(b, on)
  <2>1. \A c \in Channels, d \in Directions : \E s : ListOf(b, on, c, d, s) BY <1>7
  <2> QED BY <1>4, <1>5, <1>8, <1>9, <2>1 DEF Good
<1>11. Sided(b, on) BY <1>6 DEF Sided, Directions
<1>12. Shutting(b, on) BY <1>3 DEF Shutting, EmptyLists
<1>13. Calling(b, on, inside) BY <1>6 DEF Calling
<1>14. inside \in [Blockers -> [chan : Channels, dir : Directions] \cup {Null}] BY DEF Init
<1>15. /\ transferArguments \in [Blockers -> BOOLEAN]
       /\ Held(b, on, transferArguments)
  BY <1>6 DEF Init, Held
<1> QED BY <1>1, <1>2, <1>10, <1>11, <1>12, <1>13, <1>14, <1>15 DEF IInv, Fine

(* A tasklet is taken off its list, if it is on one, and the channel is    *)
(* looked at: what Match and the error path have in common.                *)
Left(b, on, in, args, c, t, v, n, on2, args2) ==
  /\ Fine(b, on, in) /\ args \in [Blockers -> BOOLEAN] /\ Held(b, on, args)
  /\ c \in Channels /\ t \in Blockers /\ (on[t] = c \/ on[t] = Null) /\ v \in BOOLEAN
  /\ n = UpdateCloseState(RemoveTaskletFromBlocked(b, c, t), c)
  /\ on2 = [on EXCEPT ![t] = Null] /\ args2 = [args EXCEPT ![t] = v]

LEMMA TakenOff ==
  ASSUME NEW b, NEW on, NEW in, NEW args, NEW c, NEW t, NEW v, NEW n, NEW on2, NEW args2,
         Left(b, on, in, args, c, t, v, n, on2, args2)
  PROVE  /\ Fine(n, on2, in)
         /\ args2 \in [Blockers -> BOOLEAN]
         /\ Held(n, on2, args2)
<1>1. PICK m : m = RemoveTaskletFromBlocked(b, c, t) OBVIOUS
<1>2. /\ Fine(m, on2, in)
      /\ \A x \in Channels, y \in Directions : Blocked(m, on2, x, y) \subseteq Blocked(b, on, x, y) \ {t}
  <2>1. Off(b, on, in, c, t, m, on2) BY <1>1 DEF Left, Off
  <2> QED BY <2>1, Removes
<1>3. /\ Fine(n, on2, in)
      /\ \A x, y : Blocked(n, on2, x, y) = Blocked(m, on2, x, y)
  <2>1. Seen(m, on2, in, c, n) BY <1>1, <1>2 DEF Left, Seen
  <2> QED BY <2>1, Updates
<1>4. args2 \in [Blockers -> BOOLEAN] /\ \A u \in Blockers \ {t} : args2[u] = args[u]
  BY DEF Left
<1>5. \A x \in Channels, y \in Directions : Blocked(n, on2, x, y) \subseteq Blocked(b, on, x, y) \ {t}
  BY <1>2, <1>3
<1>6. Held(b, on, args) BY DEF Left
<1>7. Held(n, on2, args2) BY <1>4, <1>5, <1>6, HeldKeeps
<1> QED BY <1>3, <1>4, <1>7

LEMMA IInvStep == IInv /\ [Next]_vars => IInv'
<1> SUFFICES ASSUME IInv, [Next]_vars
             PROVE  /\ Fine(bl', channelBlockedOn', inside')
                    /\ transferArguments' \in [Blockers -> BOOLEAN]
                    /\ Held(bl', channelBlockedOn', transferArguments')
  BY DEF IInv
<1> DEFINE Goal == /\ Fine(bl', channelBlockedOn', inside')
                   /\ transferArguments' \in [Blockers -> BOOLEAN]
                   /\ Held(bl', channelBlockedOn', transferArguments')
<1>1. CASE UNCHANGED vars BY <1>1 DEF vars, IInv
<1>2. CASE Next
  <2> USE DEF IInv
  <2>1. ASSUME NEW c \in Channels, Close(c) \/ Open(c) PROVE Goal
    <3>1. /\ bl' = CloseChannel(bl, c) \/ bl' = OpenChannel(bl, c)
          /\ channelBlockedOn' = channelBlockedOn /\ inside' = inside
          /\ transferArguments' = transferArguments
      BY <2>1 DEF Close, Open
    <3>2. /\ Fine(bl', channelBlockedOn, inside)
          /\ \A x, y : Blocked(bl', channelBlockedOn, x, y) = Blocked(bl, channelBlockedOn, x, y)
      BY <3>1, Flags
    <3>3. Held(bl', channelBlockedOn, transferArguments) BY <3>2 DEF Held
    <3> QED BY <3>1, <3>2, <3>3
  <2>2. ASSUME NEW c \in Channels, NEW d \in Directions, Match(c, d) PROVE Goal
    <3>1. PICK t : t = bl.first[c][d] OBVIOUS
    <3>2. t # Null BY <2>2, <3>1 DEF Match, NextBlocked
    <3>3. t \in Blockers /\ channelBlockedOn[t] = c
      BY <3>1, <3>2, EndsAre DEF Fine, Blocked
    <3>4. /\ bl' = UpdateCloseState(RemoveTaskletFromBlocked(bl, c, t), c)
          /\ channelBlockedOn' = [channelBlockedOn EXCEPT ![t] = Null] /\ inside' = inside
          /\ transferArguments' = [transferArguments EXCEPT ![t] = (d = "RECEIVER")]
      BY <2>2, <3>1 DEF Match, NextBlocked
    <3>5. Left(bl, channelBlockedOn, inside, transferArguments, c, t, d = "RECEIVER",
               bl', channelBlockedOn', transferArguments')
      BY <3>3, <3>4 DEF Left
    <3> QED BY <3>4, <3>5, TakenOff
  <2>3. ASSUME NEW c \in Channels, NEW t \in Blockers, RefuseReceive(c, t) PROVE Goal
    <3>1. "RECEIVER" \in Directions BY DEF Directions
    <3>2. channelBlockedOn[t] = Null BY <2>3, CallerIs DEF RefuseReceive
    <3>3. bl' = bl BY <2>3, <3>1, <3>2, RefuseIsNothing DEF RefuseReceive, Fine
    <3> QED BY <2>3, <3>3 DEF RefuseReceive
  <2>4. ASSUME NEW c \in Channels, NEW t \in Blockers, KillPending(c, t) PROVE Goal
    <3>1. /\ bl' = RemoveTaskletFromBlocked(bl, c, t)
          /\ channelBlockedOn' = [channelBlockedOn EXCEPT ![t] = Null] /\ inside' = inside
          /\ transferArguments' = transferArguments /\ channelBlockedOn[t] = c
      BY <2>4 DEF KillPending
    <3>2. /\ Fine(bl', channelBlockedOn', inside)
          /\ \A x \in Channels, y \in Directions :
               Blocked(bl', channelBlockedOn', x, y) \subseteq Blocked(bl, channelBlockedOn, x, y) \ {t}
      <4>1. Off(bl, channelBlockedOn, inside, c, t, bl', channelBlockedOn') BY <3>1 DEF Off
      <4> QED BY <4>1, Removes
    <3>3. Held(bl', channelBlockedOn', transferArguments) BY <3>2, HeldKeeps
    <3> QED BY <3>1, <3>2, <3>3
  <2>5. ASSUME NEW c \in Channels, NEW t \in Blockers, NEW d \in Directions, BlockOn(c, d, t)
        PROVE  Goal
    <3>1. PICK n : n = AddTaskletToWaiting(bl, c, d, t) OBVIOUS
    <3>2. /\ channelBlockedOn' = [channelBlockedOn EXCEPT ![t] = c]
          /\ inside' = [inside EXCEPT ![t] = [chan |-> c, dir |-> d]]
          /\ transferArguments' = [transferArguments EXCEPT ![t] = (d = "SENDER")]
          /\ bl' = UpdateCloseState(n, c)
          /\ inside[t] = Null /\ bl.first[c][Opposite(d)] = Null /\ ~Refuses(bl, c)
      BY <2>5, <3>1 DEF BlockOn, NextBlocked
    <3>3. /\ Fine(n, channelBlockedOn', inside')
          /\ \A x \in Channels, y \in Directions :
               Blocked(n, channelBlockedOn', x, y)
                 = IF x = c /\ y = d THEN Blocked(bl, channelBlockedOn, c, d) \cup {t}
                                     ELSE Blocked(bl, channelBlockedOn, x, y)
      <4>1. Joined(bl, channelBlockedOn, inside, c, d, t, n, channelBlockedOn', inside')
        BY <3>1, <3>2 DEF Joined
      <4> QED BY <4>1, Blocks
    <3>4. /\ Fine(bl', channelBlockedOn', inside')
          /\ \A x, y : Blocked(bl', channelBlockedOn', x, y) = Blocked(n, channelBlockedOn', x, y)
      <4>1. Seen(n, channelBlockedOn', inside', c, bl') BY <3>2, <3>3 DEF Seen
      <4> QED BY <4>1, Updates
    <3>5. /\ transferArguments' \in [Blockers -> BOOLEAN]
          /\ transferArguments'[t] <=> d = "SENDER"
          /\ \A u \in Blockers : u # t => transferArguments'[u] = transferArguments[u]
      BY <3>2
    <3>6. ASSUME NEW x \in Channels, NEW y \in Directions,
                 NEW u \in Blocked(bl', channelBlockedOn', x, y)
          PROVE  transferArguments'[u] <=> y = "SENDER"
      <4>1. channelBlockedOn[t] = Null BY <3>2, CallerIs
      <4>2. \A v \in Blocked(bl, channelBlockedOn, x, y) : v # t /\ v \in Blockers
        BY <4>1, Names DEF Blocked
      <4>3. CASE u = t
        <5>1. x = c /\ y = d BY <3>3, <3>4, <4>2, <4>3
        <5> QED BY <3>5, <4>3, <5>1
      <4>4. CASE u # t
        <5>1. u \in Blocked(bl, channelBlockedOn, x, y) BY <3>3, <3>4, <4>4
        <5>2. transferArguments[u] <=> y = "SENDER" BY <5>1 DEF Held
        <5> QED BY <3>5, <4>2, <4>4, <5>1, <5>2
      <4> QED BY <4>3, <4>4
    <3>7. Held(bl', channelBlockedOn', transferArguments') BY <3>6 DEF Held
    <3> QED BY <3>4, <3>5, <3>7
  <2>6. ASSUME NEW c \in Channels, NEW t \in Blockers, NEW d \in Directions, GiveUp(c, d, t)
        PROVE  Goal
    <3>1. channelBlockedOn[t] = c \/ channelBlockedOn[t] = Null
      BY <2>6, CallerIs DEF GiveUp, Inside
    <3>2. /\ bl' = UpdateCloseState(RemoveTaskletFromBlocked(bl, c, t), c)
          /\ channelBlockedOn' = [channelBlockedOn EXCEPT ![t] = Null]
          /\ inside' = [inside EXCEPT ![t] = Null]
          /\ transferArguments' = [transferArguments EXCEPT ![t] = FALSE]
      BY <2>6 DEF GiveUp
    <3>3. /\ Fine(bl', channelBlockedOn', inside)
          /\ transferArguments' \in [Blockers -> BOOLEAN]
          /\ Held(bl', channelBlockedOn', transferArguments')
      <4>1. Left(bl, channelBlockedOn, inside, transferArguments, c, t, FALSE,
                 bl', channelBlockedOn', transferArguments')
        BY <3>1, <3>2 DEF Left
      <4> QED BY <4>1, TakenOff
    <3>4. channelBlockedOn'[t] = Null BY <3>2 DEF Fine, Good
    <3>5. Fine(bl', channelBlockedOn', inside') BY <3>2, <3>3, <3>4, Leaves
    <3> QED BY <3>3, <3>5
  <2>7. ASSUME NEW c \in Channels, NEW t \in Blockers, NEW d \in Directions, Complete(c, d, t)
        PROVE  Goal
    <3>1. /\ bl' = (IF d = "SENDER" THEN UpdateCloseState(bl, c) ELSE bl)
          /\ inside' = [inside EXCEPT ![t] = Null] /\ channelBlockedOn' = channelBlockedOn
          /\ channelBlockedOn[t] = Null
          /\ transferArguments' = [transferArguments EXCEPT ![t] = FALSE]
      BY <2>7 DEF Complete, Unblocked
    <3>2. /\ Fine(bl', channelBlockedOn, inside)
          /\ \A x, y : Blocked(bl', channelBlockedOn, x, y) = Blocked(bl, channelBlockedOn, x, y)
      <4>1. CASE d = "SENDER"
        <5>1. Seen(bl, channelBlockedOn, inside, c, bl') BY <3>1, <4>1 DEF Seen
        <5> QED BY <5>1, Updates
      <4>2. CASE d # "SENDER" BY <3>1, <4>2
      <4> QED BY <4>1, <4>2
    <3>3. Fine(bl', channelBlockedOn', inside') BY <3>1, <3>2, Leaves
    <3>4. /\ transferArguments' \in [Blockers -> BOOLEAN]
          /\ \A u \in Blockers \ {t} : transferArguments'[u] = transferArguments[u]
      BY <3>1
    <3>5. \A x \in Channels, y \in Directions :
            Blocked(bl', channelBlockedOn', x, y) \subseteq Blocked(bl, channelBlockedOn, x, y) \ {t}
      BY <3>1, <3>2, Names DEF Blocked
    <3>6. Held(bl', channelBlockedOn', transferArguments') BY <3>4, <3>5, HeldKeeps
    <3> QED BY <3>3, <3>4, <3>6
  <2> QED BY <1>2, <2>1, <2>2, <2>3, <2>4, <2>5, <2>6, <2>7 DEF Next
<1> QED BY <1>1, <1>2

LEMMA AlwaysIInv == Spec => []IInv
BY IInvInit, IInvStep, PTL DEF Spec

-----------------------------------------------------------------------------
(* Every field of the blocked lists keeps its type (Channel.h:77-102,      *)
(* Tasklet.h:217-221).                                                     *)
THEOREM TypeCorrect == Spec => []TypeOK
<1>1. IInv => TypeOK BY DEF IInv, Fine, Good, TypeOK
<1> QED BY <1>1, AlwaysIInv, PTL

LEMMA LinksTell ==
  ASSUME NEW b, NEW on, Good(b, on)
  PROVE  /\ \A t, u \in Blockers : b.next[t] = u <=> b.prev[u] = t
         /\ \A c \in Channels, d \in Directions, t \in Blockers :
              /\ b.first[c][d] = t <=> t \in Blocked(b, on, c, d) /\ b.next[t] = Null
              /\ b.last[c][d] = t <=> t \in Blocked(b, on, c, d) /\ b.prev[t] = Null
<1>1. Null \notin Blockers BY Names
<1>2. ASSUME NEW c \in Channels, NEW d \in Directions, NEW t \in Blocked(b, on, c, d)
      PROVE  /\ \A u \in Blockers : b.next[t] = u => b.prev[u] = t
             /\ \A u \in Blockers : b.prev[t] = u => b.next[u] = t
             /\ b.next[t] = Null <=> b.first[c][d] = t
             /\ b.prev[t] = Null <=> b.last[c][d] = t
  <2>1. PICK s : ListOf(b, on, c, d, s) BY DEF Good
  <2>2. PICK i \in 1..Len(s) : s[i] = t BY <2>1 DEF ListOf, Blocked
  <2>3. s \in Seq(Blockers) /\ Len(s) \in Nat /\ DOMAIN s = 1..Len(s)
    BY <2>1, LenProperties DEF ListOf
  <2>4. PICK m \in Nat : m = Len(s) BY <2>3
  <2>5. /\ i \in 1..m /\ 1 \in 1..m /\ m \in 1..m /\ s # <<>>
        /\ \A j \in 1..m : s[j] \in Blockers
    <3>1. i \in 1..m BY <2>4
    <3>2. \A j \in 1..m : s[j] \in Blockers BY <2>3, <2>4, ElementOfSeq
    <3>3. 1 \in 1..m /\ m \in 1..m BY <3>1
    <3>4. s # <<>> BY <2>4, <3>3, EmptySeq
    <3> QED BY <3>1, <3>2, <3>3, <3>4
  <2>6. \A j, k \in 1..m : s[j] = s[k] => j = k BY <2>1, <2>3, <2>4 DEF ListOf, IsInjective
  <2>7. \A j \in 1..m : /\ b.next[s[j]] = IF j = 1 THEN Null ELSE s[j - 1]
                        /\ b.prev[s[j]] = IF j = m THEN Null ELSE s[j + 1]
    BY <2>1, <2>4 DEF ListOf
  <2>8. b.first[c][d] = s[1] /\ b.last[c][d] = s[m] BY <2>1, <2>4, <2>5 DEF ListOf
  <2>9. i # 1 => /\ i - 1 \in 1..m /\ b.next[t] = s[i - 1] /\ b.prev[s[i - 1]] = t
    <3> SUFFICES ASSUME i # 1
                 PROVE  i - 1 \in 1..m /\ b.next[t] = s[i - 1] /\ b.prev[s[i - 1]] = t
      OBVIOUS
    <3>1. i - 1 \in 1..m /\ i - 1 # m /\ (i - 1) + 1 = i BY <2>5
    <3>2. b.prev[s[i - 1]] = s[(i - 1) + 1] BY <2>7, <3>1
    <3> QED BY <2>2, <2>5, <2>7, <3>1, <3>2
  <2>10. i # m => /\ i + 1 \in 1..m /\ b.prev[t] = s[i + 1] /\ b.next[s[i + 1]] = t
    <3> SUFFICES ASSUME i # m
                 PROVE  i + 1 \in 1..m /\ b.prev[t] = s[i + 1] /\ b.next[s[i + 1]] = t
      OBVIOUS
    <3>1. i + 1 \in 1..m /\ i + 1 # 1 /\ (i + 1) - 1 = i BY <2>5
    <3>2. b.next[s[i + 1]] = s[(i + 1) - 1] BY <2>7, <3>1
    <3> QED BY <2>2, <2>5, <2>7, <3>1, <3>2
  <2>11. (i = 1 => b.next[t] = Null) /\ (i = m => b.prev[t] = Null) BY <2>2, <2>5, <2>7
  <2>12. /\ \A u \in Blockers : b.next[t] = u => b.prev[u] = t
         /\ \A u \in Blockers : b.prev[t] = u => b.next[u] = t
    BY <1>1, <2>9, <2>10, <2>11
  <2>13. b.next[t] = Null <=> b.first[c][d] = t
    BY <1>1, <2>2, <2>5, <2>6, <2>8, <2>9, <2>11
  <2>14. b.prev[t] = Null <=> b.last[c][d] = t
    BY <1>1, <2>2, <2>5, <2>6, <2>8, <2>10, <2>11
  <2> QED BY <2>12, <2>13, <2>14
<1>3. ASSUME NEW t \in Blockers
      PROVE  /\ \A u \in Blockers : b.next[t] = u => b.prev[u] = t
             /\ \A u \in Blockers : b.prev[t] = u => b.next[u] = t
  <2>1. CASE on[t] = Null BY <1>1, <2>1 DEF Good
  <2>2. CASE on[t] # Null
    <3>1. on[t] \in Channels /\ b.dir[t] \in Directions BY <2>2 DEF Good
    <3>2. t \in Blocked(b, on, on[t], b.dir[t]) BY DEF Blocked
    <3> QED BY <1>2, <3>1, <3>2
  <2> QED BY <2>1, <2>2
<1>4. ASSUME NEW c \in Channels, NEW d \in Directions, NEW t \in Blockers
      PROVE  /\ b.first[c][d] = t <=> t \in Blocked(b, on, c, d) /\ b.next[t] = Null
             /\ b.last[c][d] = t <=> t \in Blocked(b, on, c, d) /\ b.prev[t] = Null
  <2>1. CASE t \in Blocked(b, on, c, d) BY <1>2, <2>1
  <2>2. CASE t \notin Blocked(b, on, c, d) BY <1>1, <2>2, EndsAre
  <2> QED BY <2>1, <2>2
<1> QED BY <1>3, <1>4

LEMMA IInvGives == IInv => ListsOK
<1> SUFFICES ASSUME IInv PROVE ListsOK
  OBVIOUS
<1>1. Good(bl, channelBlockedOn) /\ Sided(bl, channelBlockedOn) BY DEF IInv, Fine
<1>2. \A c, d : BlockedTasklets(c, d) = Blocked(bl, channelBlockedOn, c, d)
  BY DEF BlockedTasklets, Blocked
<1>3. BalanceCountsBlocked BY <1>1, <1>2 DEF BalanceCountsBlocked, Good
<1>4. OneSided BY <1>1, <1>2 DEF OneSided, Sided
<1>5. BlockedLinksAgree
  <2>1. /\ \A t, u \in Blockers : bl.next[t] = u <=> bl.prev[u] = t
        /\ \A c \in Channels, d \in Directions, t \in Blockers :
             /\ bl.first[c][d] = t <=> t \in BlockedTasklets(c, d) /\ bl.next[t] = Null
             /\ bl.last[c][d] = t <=> t \in BlockedTasklets(c, d) /\ bl.prev[t] = Null
    BY <1>1, <1>2, LinksTell
  <2>2. \A t \in Blockers : Unblocked(t) => /\ bl.next[t] = Null /\ bl.prev[t] = Null
                                            /\ bl.dir[t] = "NEITHER"
    BY <1>1 DEF Good, Unblocked
  <2> QED BY <2>1, <2>2 DEF BlockedLinksAgree
<1>6. ClosedIsEmpty
  <2>1. \A c \in Channels : bl.closed[c] =>
          bl.closing[c] /\ \A d \in Directions : Blocked(bl, channelBlockedOn, c, d) = {}
    BY DEF IInv, Fine, Shutting
  <2> QED BY <1>1, <2>1, ZeroIsEmpty DEF ClosedIsEmpty
<1> QED BY <1>3, <1>4, <1>5, <1>6 DEF ListsOK

(* A channel's two lists, its balance and its closed flag tell the same    *)
(* story, whoever comes, is matched, refused or killed, and however often  *)
(* the channel is closed and opened (Channel.cpp:34-370, 614).             *)
THEOREM ListsAgree == Spec => []ListsOK
BY AlwaysIInv, IInvGives, PTL

-----------------------------------------------------------------------------
(* The walk along m_previousBlocked finds the sequence behind the list.    *)

LEMMA Smallest ==
  ASSUME NEW T, T \subseteq Nat, T # {}
  PROVE  \E x \in T : \A y \in T : x <= y
<1>1. PICK R : R = {ss \in Nat \X Nat : ss[1] < ss[2]} OBVIOUS
<1>2. IsWellFoundedOn(R, Nat) BY <1>1, NatLessThanWellFounded DEF OpToRel
<1>3. \A x, y \in Nat : x < y => <<x, y>> \in R BY <1>1
<1>4. PICK x \in T : \A y \in T : ~ (<<y, x>> \in R) BY <1>2, WFMin
<1>5. \A y \in T : ~(y < x) BY <1>3, <1>4
<1>6. \A y \in T : x <= y BY <1>5
<1> QED BY <1>6

LEMMA ChainIs ==
  ASSUME NEW b, NEW on, NEW c, NEW d, NEW s, ListOf(b, on, c, d, s)
  PROVE  Chain(b, c, d) = s
<1>1. PICK N \in Nat : N = Cardinality(Blockers) BY Names, FS_CardinalityType
<1>2. /\ s \in Seq(Blockers) /\ Len(s) \in Nat /\ DOMAIN s = 1..Len(s)
      /\ IsInjective(s) /\ \A i \in 1..Len(s) : s[i] \in Blockers
  BY LenProperties, ElementOfSeq DEF ListOf
<1>3. PICK m \in Nat : m = Len(s) BY <1>2
<1>4. s = [i \in 1..m |-> s[i]] /\ \A i \in 1..m : s[i] \in Blockers /\ s[i] # Null
  BY <1>2, <1>3, Names
<1>5. m <= N
  <2>1. s \in Injection(1..m, Blockers) BY <1>2, <1>3 DEF Injection
  <2>2. Cardinality(1..m) <= Cardinality(Blockers) BY <2>1, Names, FS_Injection
  <2>3. Cardinality(1..m) = m BY FS_Interval
  <2> QED BY <1>1, <2>2, <2>3
<1>6. PICK f : f = [i \in 1..(N + 1) |-> IF i <= m THEN s[i] ELSE Null] OBVIOUS
<1>7. ASSUME NEW i \in 1..(N + 1)
      PROVE  f[i] = IF i = 1 THEN b.first[c][d]
                    ELSE IF f[i - 1] = Null THEN Null ELSE b.prev[f[i - 1]]
  <2>1. f[i] = IF i <= m THEN s[i] ELSE Null BY <1>6
  <2>2. CASE i = 1
    <3>1. s = <<>> <=> m = 0 BY <1>2, <1>3, EmptySeq
    <3>2. b.first[c][d] = IF s = <<>> THEN Null ELSE s[1] BY DEF ListOf
    <3> QED BY <2>1, <2>2, <3>1, <3>2
  <2>3. CASE i # 1
    <3>1. i - 1 \in 1..(N + 1) BY <2>3
    <3>2. f[i - 1] = IF i - 1 <= m THEN s[i - 1] ELSE Null BY <1>6, <3>1
    <3>3. CASE i - 1 <= m
      <4>1. i - 1 \in 1..m BY <3>1, <3>3
      <4>2. b.prev[s[i - 1]] = IF i - 1 = m THEN Null ELSE s[(i - 1) + 1]
        BY <1>3, <4>1 DEF ListOf
      <4>3. (i - 1) + 1 = i /\ (i <= m <=> i - 1 # m) BY <3>3
      <4>4. f[i - 1] = s[i - 1] /\ f[i - 1] # Null BY <1>4, <3>2, <3>3, <4>1
      <4> QED BY <2>1, <2>3, <4>2, <4>3, <4>4
    <3>4. CASE ~(i - 1 <= m)
      <4>1. ~(i <= m) BY <3>4
      <4> QED BY <2>1, <2>3, <3>2, <3>4, <4>1
    <3> QED BY <3>3, <3>4
  <2> QED BY <2>2, <2>3
<1>8. f = [i \in 1..(N + 1) |-> IF i = 1 THEN b.first[c][d]
                                ELSE IF f[i - 1] = Null THEN Null ELSE b.prev[f[i - 1]]]
  BY <1>6, <1>7
<1>9. PICK w : w = Walk(b, c, d) OBVIOUS
<1>10. w = [i \in 1..(N + 1) |-> IF i = 1 THEN b.first[c][d]
                                 ELSE IF w[i - 1] = Null THEN Null ELSE b.prev[w[i - 1]]]
  BY <1>1, <1>8, <1>9 DEF Walk
<1>11. \A i \in 1..(N + 1) : w[i] = IF i = 1 THEN b.first[c][d]
                                     ELSE IF w[i - 1] = Null THEN Null ELSE b.prev[w[i - 1]]
  BY <1>10
<1>12. \A i \in 1..(N + 1) : w[i] = f[i]
  <2> SUFFICES ASSUME NEW j \in 1..(N + 1), w[j] # f[j] PROVE FALSE
    OBVIOUS
  <2>1. PICK T : T = {i \in 1..(N + 1) : w[i] # f[i]} OBVIOUS
  <2>2. T \subseteq Nat /\ T # {} BY <2>1
  <2>3. PICK i \in T : \A k \in T : i <= k BY <2>2, Smallest
  <2>4. i \in 1..(N + 1) /\ w[i] # f[i] BY <2>1
  <2>5. i # 1 BY <1>7, <1>11, <2>4
  <2>6. i - 1 \in 1..(N + 1) /\ ~(i <= i - 1) BY <2>4, <2>5
  <2>7. w[i - 1] = f[i - 1] BY <2>1, <2>3, <2>6
  <2> QED BY <1>7, <1>11, <2>4, <2>5, <2>7
<1>13. DOMAIN w = 1..(N + 1) BY <1>10
<1>14. {j \in DOMAIN w : w[j] # Null} = 1..m
  <2>1. ASSUME NEW j \in 1..(N + 1) PROVE w[j] # Null <=> j <= m
    <3>1. w[j] = IF j <= m THEN s[j] ELSE Null BY <1>6, <1>12
    <3>2. j <= m => s[j] # Null BY <1>4
    <3> QED BY <3>1, <3>2
  <2> QED BY <1>5, <1>13, <2>1
<1>15. \A i \in 1..m : w[i] = s[i]
  <2>1. \A i \in 1..m : i \in 1..(N + 1) /\ i <= m BY <1>5
  <2> QED BY <1>6, <1>12, <2>1
<1>16. Chain(b, c, d) = [i \in 1..m |-> w[i]] BY <1>9, <1>14 DEF Chain
<1> QED BY <1>4, <1>15, <1>16

(* The list of the tasklets blocked on c to do d.                          *)
LEMMA ChainList ==
  ASSUME NEW b, NEW on, Good(b, on), NEW c \in Channels, NEW d \in Directions
  PROVE  ListOf(b, on, c, d, Chain(b, c, d))
<1>1. PICK s : ListOf(b, on, c, d, s) BY DEF Good
<1>2. Chain(b, c, d) = s BY <1>1, ChainIs
<1> QED BY <1>1, <1>2

LEMMA ChainAdded ==
  ASSUME NEW b, NEW on, NEW c, NEW d, NEW t, NEW n, NEW on2, Added(b, on, c, d, t, n, on2)
  PROVE  \A x \in Channels, y \in Directions :
           Chain(n, x, y) = IF x = c /\ y = d THEN Append(Chain(b, c, d), t) ELSE Chain(b, x, y)
<1>1. Good(b, on) /\ c \in Channels /\ d \in Directions BY DEF Added
<1>2. \A s : ListOf(b, on, c, d, s) => ListOf(n, on2, c, d, Append(s, t)) BY AddLists
<1>3. \A x \in Channels, y \in Directions : \A s :
        ListOf(b, on, x, y, s) /\ (x # c \/ y # d) => ListOf(n, on2, x, y, s)
  BY AddLists
<1>4. ASSUME NEW x \in Channels, NEW y \in Directions
      PROVE  Chain(n, x, y) = IF x = c /\ y = d THEN Append(Chain(b, c, d), t) ELSE Chain(b, x, y)
  <2>1. PICK s : s = Chain(b, x, y) OBVIOUS
  <2>2. ListOf(b, on, x, y, s) BY <1>1, <2>1, ChainList
  <2>3. CASE x = c /\ y = d
    <3>1. ListOf(n, on2, x, y, Append(s, t)) BY <1>2, <2>2, <2>3
    <3> QED BY <2>1, <2>3, <3>1, ChainIs
  <2>4. CASE ~(x = c /\ y = d)
    <3>1. ListOf(n, on2, x, y, s) BY <1>3, <2>2, <2>4
    <3> QED BY <2>1, <2>4, <3>1, ChainIs
  <2> QED BY <2>3, <2>4
<1> QED BY <1>4

LEMMA ChainRemoved ==
  ASSUME NEW b, NEW on, NEW c, NEW t, NEW n, NEW on2, Removed(b, on, c, t, n, on2)
  PROVE  /\ b.dir[t] \in Directions
         /\ \E k \in 1..Len(Chain(b, c, b.dir[t])) : Chain(b, c, b.dir[t])[k] = t
         /\ \A k \in 1..Len(Chain(b, c, b.dir[t])) : Chain(b, c, b.dir[t])[k] = t =>
              \A x \in Channels, y \in Directions :
                Chain(n, x, y) = IF x = c /\ y = b.dir[t] THEN RemoveAt(Chain(b, c, y), k)
                                                          ELSE Chain(b, x, y)
<1>1. PICK d : d = b.dir[t] OBVIOUS
<1>2. Good(b, on) /\ c \in Channels /\ t \in Blockers /\ on[t] = c BY DEF Removed
<1>3. d \in Directions BY <1>1, <1>2, Names DEF Good
<1>4. \A s, k : /\ ListOf(b, on, c, d, s) /\ k \in 1..Len(s) /\ s[k] = t
                => ListOf(n, on2, c, d, RemoveAt(s, k))
  BY <1>1, RemoveLists
<1>5. \A x \in Channels, y \in Directions : \A s :
        ListOf(b, on, x, y, s) /\ (x # c \/ y # d) => ListOf(n, on2, x, y, s)
  BY <1>1, RemoveLists
<1>6. \E k \in 1..Len(Chain(b, c, d)) : Chain(b, c, d)[k] = t
  BY <1>1, <1>2, <1>3, ChainList DEF ListOf
<1>7. ASSUME NEW k \in 1..Len(Chain(b, c, d)), Chain(b, c, d)[k] = t,
             NEW x \in Channels, NEW y \in Directions
      PROVE  Chain(n, x, y) = IF x = c /\ y = d THEN RemoveAt(Chain(b, c, y), k) ELSE Chain(b, x, y)
  <2>1. PICK s : s = Chain(b, x, y) OBVIOUS
  <2>2. ListOf(b, on, x, y, s) BY <1>2, <2>1, ChainList
  <2>3. CASE x = c /\ y = d
    <3>1. ListOf(n, on2, x, y, RemoveAt(s, k)) BY <1>4, <1>7, <2>1, <2>2, <2>3
    <3> QED BY <2>1, <2>3, <3>1, ChainIs
  <2>4. CASE ~(x = c /\ y = d)
    <3>1. ListOf(n, on2, x, y, s) BY <1>5, <2>2, <2>4
    <3> QED BY <2>1, <2>4, <3>1, ChainIs
  <2> QED BY <2>3, <2>4
<1> QED BY <1>1, <1>3, <1>6, <1>7

LEMMA ChainSame ==
  ASSUME NEW b, NEW n, SameLinks(b, n)
  PROVE  \A c, d : Chain(n, c, d) = Chain(b, c, d)
<1>1. n.first = b.first /\ n.prev = b.prev BY DEF SameLinks
<1>2. \A c, d : Walk(n, c, d) = Walk(b, c, d) BY <1>1 DEF Walk
<1> QED BY <1>2 DEF Chain

(* Taking away the first is Tail.                                          *)
LEMMA FirstIsTail ==
  ASSUME NEW s \in Seq(Blockers), s # <<>>
  PROVE  RemoveAt(s, 1) = Tail(s) /\ Head(s) = s[1]
<1>1. Len(s) \in Nat \ {0} BY EmptySeq
<1>2. 1 \in 1..Len(s) BY <1>1
<1>3. PICK r : r = RemoveAt(s, 1) OBVIOUS
<1>4. /\ r \in Seq(Blockers) /\ Len(r) = Len(s) - 1
      /\ \A i \in 1..Len(r) : r[i] = s[Past(i, 1)]
  BY <1>2, <1>3, WithoutIs
<1>5. /\ Tail(s) \in Seq(Blockers) /\ Len(Tail(s)) = Len(s) - 1
      /\ \A i \in 1..Len(Tail(s)) : Tail(s)[i] = s[i + 1]
  BY HeadTailProperties
<1>6. \A i \in 1..Len(r) : r[i] = Tail(s)[i] BY <1>1, <1>4, <1>5 DEF Past
<1>7. r = Tail(s) BY <1>4, <1>5, <1>6, SeqEqual
<1>8. Head(s) = s[1] OBVIOUS
<1> QED BY <1>3, <1>7, <1>8

-----------------------------------------------------------------------------
(* Every step is one of the queues of ChannelFIFO.                         *)

Queue(b) == [c \in Channels |-> [d \in Directions |-> Chain(b, c, d)]]
Done(in, args) == {t \in Blockers : in[t] # Null /\ args[t] = (in[t].dir = "RECEIVER")}
Shut(b) == {c \in Channels : b.closing[c]}

LEMMA MappedIs ==
  /\ Waiting = Queue(bl) /\ Waiting' = Queue(bl')
  /\ Served = Done(inside, transferArguments) /\ Served' = Done(inside', transferArguments')
  /\ Closing = Shut(bl) /\ Closing' = Shut(bl')
BY DEF Waiting, Queue, Served, Transferred, Done, Closing, Shut

(* From b to n only the list of c and d has changed, and it is now v.      *)
Changed(b, n, c, d, v) ==
  /\ c \in Channels /\ d \in Directions
  /\ \A x \in Channels, y \in Directions :
       Chain(n, x, y) = IF x = c /\ y = d THEN v ELSE Chain(b, x, y)

LEMMA QueueChanges ==
  ASSUME NEW b, NEW n, NEW c, NEW d, NEW v, Changed(b, n, c, d, v)
  PROVE  Queue(n) = [Queue(b) EXCEPT ![c][d] = v]
<1>1. ASSUME NEW x \in Channels, NEW y \in Directions
      PROVE  Queue(n)[x][y] = [Queue(b) EXCEPT ![c][d] = v][x][y]
  BY DEF Queue, Changed
<1>2. /\ Queue(n) = [x \in Channels |-> [y \in Directions |-> Queue(n)[x][y]]]
      /\ [Queue(b) EXCEPT ![c][d] = v]
           = [x \in Channels |-> [y \in Directions |-> [Queue(b) EXCEPT ![c][d] = v][x][y]]]
  BY DEF Queue
<1> QED BY <1>1, <1>2

LEMMA QueueSame ==
  ASSUME NEW b, NEW n, \A x \in Channels, y \in Directions : Chain(n, x, y) = Chain(b, x, y)
  PROVE  Queue(n) = Queue(b)
BY DEF Queue

(* The tasklet t leaves its place in the list of c.                        *)
LEMMA QueueTaken ==
  ASSUME NEW b, NEW on, NEW c, NEW t, NEW n, NEW on2, Removed(b, on, c, t, n, on2)
  PROVE  /\ b.dir[t] \in Directions
         /\ \E k \in DOMAIN Queue(b)[c][b.dir[t]] :
              Queue(n) = [Queue(b) EXCEPT ![c][b.dir[t]] = RemoveAt(@, k)]
         /\ b.first[c][b.dir[t]] = t =>
              /\ Queue(b)[c][b.dir[t]] # <<>> /\ Head(Queue(b)[c][b.dir[t]]) = t
              /\ Queue(n) = [Queue(b) EXCEPT ![c][b.dir[t]] = Tail(@)]
<1>1. PICK d : d = b.dir[t] OBVIOUS
<1>2. Good(b, on) /\ c \in Channels /\ t \in Blockers BY DEF Removed
<1>3. d \in Directions BY <1>1, ChainRemoved
<1>4. PICK s : s = Chain(b, c, d) OBVIOUS
<1>5. ListOf(b, on, c, d, s) BY <1>2, <1>3, <1>4, ChainList
<1>6. s \in Seq(Blockers) /\ DOMAIN s = 1..Len(s) BY <1>5, LenProperties DEF ListOf
<1>7. PICK k \in 1..Len(s) : s[k] = t BY <1>1, <1>4, ChainRemoved
<1>8. \A j \in 1..Len(s) : s[j] = t =>
         \A x \in Channels, y \in Directions :
           Chain(n, x, y) = IF x = c /\ y = d THEN RemoveAt(Chain(b, c, y), j) ELSE Chain(b, x, y)
  BY <1>1, <1>4, ChainRemoved
<1>9. Queue(b)[c][d] = s BY <1>2, <1>3, <1>4 DEF Queue
<1>10. \A j \in 1..Len(s) : s[j] = t => Queue(n) = [Queue(b) EXCEPT ![c][d] = RemoveAt(s, j)]
  <2> SUFFICES ASSUME NEW j \in 1..Len(s), s[j] = t
               PROVE  Queue(n) = [Queue(b) EXCEPT ![c][d] = RemoveAt(s, j)]
    OBVIOUS
  <2>1. PICK v : v = RemoveAt(s, j) OBVIOUS
  <2>2. Changed(b, n, c, d, v) BY <1>2, <1>3, <1>4, <1>8, <2>1 DEF Changed
  <2>3. Queue(n) = [Queue(b) EXCEPT ![c][d] = v] BY <2>2, QueueChanges
  <2> QED BY <2>1, <2>3
<1>11. Queue(n) = [Queue(b) EXCEPT ![c][d] = RemoveAt(@, k)]
  <2>1. [Queue(b) EXCEPT ![c][d] = RemoveAt(@, k)] = [Queue(b) EXCEPT ![c][d] = RemoveAt(s, k)]
    BY <1>2, <1>3, <1>9 DEF Queue
  <2> QED BY <1>7, <1>10, <2>1
<1>12. ASSUME b.first[c][d] = t
       PROVE  /\ s # <<>> /\ Head(s) = t
              /\ Queue(n) = [Queue(b) EXCEPT ![c][d] = Tail(@)]
  <2>1. s # <<>> /\ 1 \in 1..Len(s) BY <1>6, <1>7, EmptySeq, LenProperties
  <2>2. s[1] = t BY <1>5, <1>12, <2>1 DEF ListOf
  <2>3. RemoveAt(s, 1) = Tail(s) /\ Head(s) = s[1] BY <1>6, <2>1, FirstIsTail
  <2>4. [Queue(b) EXCEPT ![c][d] = Tail(@)] = [Queue(b) EXCEPT ![c][d] = Tail(s)]
    BY <1>2, <1>3, <1>9 DEF Queue
  <2> QED BY <1>10, <2>1, <2>2, <2>3, <2>4
<1> QED BY <1>1, <1>3, <1>6, <1>7, <1>9, <1>11, <1>12

(* Who is blocked is not served, and no other change of a call that leaves *)
(* the messages of t alone makes anybody else served.                      *)
LEMMA BlockedNotDone ==
  ASSUME NEW b, NEW on, NEW in, NEW args \in [Blockers -> BOOLEAN],
         Fine(b, on, in), Held(b, on, args), NEW t \in Blockers, on[t] # Null
  PROVE  /\ t \notin Done(in, args)
         /\ on[t] \in Channels /\ b.dir[t] \in Directions
         /\ in[t] = [chan |-> on[t], dir |-> b.dir[t]]
<1>1. on[t] \in Channels /\ b.dir[t] \in Directions BY DEF Fine, Good
<1>2. t \in Blocked(b, on, on[t], b.dir[t]) BY DEF Blocked
<1>3. in[t] = [chan |-> on[t], dir |-> b.dir[t]] BY <1>1, <1>2 DEF Fine, Calling
<1>4. args[t] <=> b.dir[t] = "SENDER" BY <1>1, <1>2 DEF Held
<1>5. in[t].dir = b.dir[t] BY <1>3
<1>6. args[t] # (in[t].dir = "RECEIVER") BY <1>1, <1>4, <1>5 DEF Directions
<1> QED BY <1>1, <1>3, <1>6 DEF Done

LEMMA JoinStep ==
  ASSUME IInv, NEW c \in Channels, NEW d \in Directions, NEW t \in Blockers, BlockOn(c, d, t)
  PROVE  Abstract!Join(c, d, t)
<1>1. PICK n : n = AddTaskletToWaiting(bl, c, d, t) OBVIOUS
<1>2. /\ channelBlockedOn' = [channelBlockedOn EXCEPT ![t] = c]
      /\ inside' = [inside EXCEPT ![t] = [chan |-> c, dir |-> d]]
      /\ transferArguments' = [transferArguments EXCEPT ![t] = (d = "SENDER")]
      /\ bl' = UpdateCloseState(n, c)
      /\ inside[t] = Null /\ bl.first[c][Opposite(d)] = Null /\ ~Refuses(bl, c)
  BY <1>1 DEF BlockOn, NextBlocked
<1>3. Fine(bl, channelBlockedOn, inside) /\ Good(bl, channelBlockedOn) BY DEF IInv, Fine
<1>4. /\ Fine(n, channelBlockedOn', inside')
      /\ Added(bl, channelBlockedOn, c, d, t, n, channelBlockedOn')
  <2>1. Joined(bl, channelBlockedOn, inside, c, d, t, n, channelBlockedOn', inside')
    BY <1>1, <1>2, <1>3 DEF Joined
  <2> QED BY <2>1, Blocks
<1>5. SameLinks(n, bl') /\ bl'.closing = n.closing
  <2>1. Seen(n, channelBlockedOn', inside', c, bl') BY <1>2, <1>4 DEF Seen
  <2> QED BY <2>1, Updates
<1>6. Queue(bl') = [Queue(bl) EXCEPT ![c][d] = Append(@, t)]
  <2>1. PICK v : v = Append(Chain(bl, c, d), t) OBVIOUS
  <2>2. \A x \in Channels, y \in Directions :
          Chain(n, x, y) = IF x = c /\ y = d THEN v ELSE Chain(bl, x, y)
    BY <1>4, <2>1, ChainAdded
  <2>3. Changed(bl, bl', c, d, v) BY <1>5, <2>2, ChainSame DEF Changed
  <2>4. Queue(bl') = [Queue(bl) EXCEPT ![c][d] = v] BY <2>3, QueueChanges
  <2>5. Queue(bl)[c][d] = Chain(bl, c, d) BY DEF Queue
  <2>6. [Queue(bl) EXCEPT ![c][d] = Append(@, t)] = [Queue(bl) EXCEPT ![c][d] = v]
    BY <2>1, <2>5 DEF Queue
  <2> QED BY <2>4, <2>6
<1>7. bl'.closing = bl.closing
  <2>1. n.closing = bl.closing BY <1>4, AddGood
  <2> QED BY <1>5, <2>1
<1>8. Shut(bl') = Shut(bl) /\ c \notin Shut(bl) BY <1>2, <1>7 DEF Shut, Refuses
<1>9. Done(inside', transferArguments') = Done(inside, transferArguments)
  <2>1. /\ inside'[t] = [chan |-> c, dir |-> d] /\ (transferArguments'[t] <=> d = "SENDER")
        /\ transferArguments'[t] \in BOOLEAN
        /\ \A u \in Blockers : u # t => inside'[u] = inside[u] /\ transferArguments'[u] = transferArguments[u]
    BY <1>2 DEF IInv, Fine
  <2>2. inside'[t].dir = d BY <2>1
  <2>3. transferArguments'[t] # (inside'[t].dir = "RECEIVER") BY <2>1, <2>2 DEF Directions
  <2> QED BY <1>2, <2>1, <2>3 DEF Done
<1>10. t \notin Done(inside, transferArguments) BY <1>2 DEF Done
<1>11. channelBlockedOn[t] = Null BY <1>2, <1>3, CallerIs
<1>12. ASSUME NEW x \in Channels, NEW y \in Directions, NEW i \in DOMAIN Queue(bl)[x][y]
       PROVE  Queue(bl)[x][y][i] # t
  <2>1. PICK s : s = Chain(bl, x, y) OBVIOUS
  <2>2. ListOf(bl, channelBlockedOn, x, y, s) BY <1>3, <2>1, ChainList
  <2>3. DOMAIN s = 1..Len(s) BY <2>2, LenProperties DEF ListOf
  <2>4. Queue(bl)[x][y] = s BY <2>1 DEF Queue
  <2>5. channelBlockedOn[t] # x BY <1>11, Names
  <2> QED BY <2>2, <2>3, <2>4, <2>5 DEF ListOf
<1>13. ASSUME NEW y \in Directions \ {d} PROVE Queue(bl)[c][y] = <<>>
  <2>1. y = Opposite(d) /\ y \in Directions BY DEF Opposite, Directions
  <2>2. PICK s : s = Chain(bl, c, y) OBVIOUS
  <2>3. ListOf(bl, channelBlockedOn, c, y, s) BY <1>3, <2>1, <2>2, ChainList
  <2>4. Blocked(bl, channelBlockedOn, c, y) = {} BY <1>2, <1>3, <2>1, EndsAre
  <2>5. /\ s \in Seq(Blockers) /\ (s # <<>> => 1 \in 1..Len(s))
        /\ \A i \in 1..Len(s) : s[i] \in Blockers
    BY <2>3, LenProperties, EmptySeq, ElementOfSeq DEF ListOf
  <2>6. s = <<>> BY <2>3, <2>4, <2>5 DEF ListOf, Blocked
  <2> QED BY <2>1, <2>2, <2>6 DEF Queue
<1>14. Abstract!Sides = Directions BY DEF Abstract!Sides, Directions
<1>15. ~Abstract!Waits(t) BY <1>12, <1>14, MappedIs DEF Abstract!Waits
<1> QED BY <1>6, <1>8, <1>9, <1>10, <1>13, <1>14, <1>15, MappedIs DEF Abstract!Join

LEMMA ServeStep ==
  ASSUME IInv, NEW c \in Channels, NEW d \in Directions, Match(c, d)
  PROVE  Abstract!Serve(c, d)
<1>1. PICK t : t = bl.first[c][d] OBVIOUS
<1>2. t # Null BY <1>1 DEF Match, NextBlocked
<1>3. Fine(bl, channelBlockedOn, inside) /\ Good(bl, channelBlockedOn) BY DEF IInv, Fine
<1>4. t \in Blockers /\ channelBlockedOn[t] = c /\ bl.dir[t] = d
  BY <1>1, <1>2, <1>3, EndsAre DEF Blocked
<1>5. PICK n : n = RemoveTaskletFromBlocked(bl, c, t) OBVIOUS
<1>6. /\ bl' = UpdateCloseState(n, c)
      /\ channelBlockedOn' = [channelBlockedOn EXCEPT ![t] = Null] /\ inside' = inside
      /\ transferArguments' = [transferArguments EXCEPT ![t] = (d = "RECEIVER")]
  BY <1>1, <1>5 DEF Match, NextBlocked
<1>7. Removed(bl, channelBlockedOn, c, t, n, channelBlockedOn') BY <1>3, <1>4, <1>5, <1>6 DEF Removed
<1>8. Fine(n, channelBlockedOn', inside)
  <2>1. Off(bl, channelBlockedOn, inside, c, t, n, channelBlockedOn') BY <1>3, <1>4, <1>5, <1>6 DEF Off
  <2> QED BY <2>1, Removes
<1>9. SameLinks(n, bl') /\ bl'.closing = n.closing
  <2>1. Seen(n, channelBlockedOn', inside, c, bl') BY <1>6, <1>8 DEF Seen
  <2> QED BY <2>1, Updates
<1>10. Queue(bl') = Queue(n)
  <2>1. \A x, y : Chain(bl', x, y) = Chain(n, x, y) BY <1>9, ChainSame
  <2> QED BY <2>1, QueueSame
<1>11. /\ Queue(bl)[c][d] # <<>> /\ Head(Queue(bl)[c][d]) = t
       /\ Queue(bl') = [Queue(bl) EXCEPT ![c][d] = Tail(@)]
  <2>1. bl.first[c][bl.dir[t]] = t =>
          /\ Queue(bl)[c][bl.dir[t]] # <<>> /\ Head(Queue(bl)[c][bl.dir[t]]) = t
          /\ Queue(n) = [Queue(bl) EXCEPT ![c][bl.dir[t]] = Tail(@)]
    BY <1>7, QueueTaken
  <2> QED BY <1>1, <1>4, <1>10, <2>1
<1>12. Shut(bl') = Shut(bl)
  <2>1. n.closing = bl.closing BY <1>7, RemoveGood
  <2> QED BY <1>9, <2>1 DEF Shut
<1>13. Done(inside', transferArguments') = Done(inside, transferArguments) \cup {t}
  <2>1. /\ (transferArguments'[t] <=> d = "RECEIVER") /\ transferArguments'[t] \in BOOLEAN
        /\ \A u \in Blockers : u # t => transferArguments'[u] = transferArguments[u]
    BY <1>4, <1>6 DEF IInv
  <2>2. inside[t] = [chan |-> c, dir |-> d]
    BY <1>2, <1>3, <1>4, BlockedNotDone, Names DEF IInv
  <2>3. inside[t] # Null /\ inside[t].dir = d BY <2>2, Names
  <2>4. transferArguments'[t] = (inside[t].dir = "RECEIVER") BY <2>1, <2>3
  <2> QED BY <1>4, <1>6, <2>1, <2>3, <2>4 DEF Done
<1> QED BY <1>11, <1>12, <1>13, MappedIs DEF Abstract!Serve

LEMMA InterruptStep ==
  ASSUME IInv, NEW c \in Channels, NEW t \in Blockers, KillPending(c, t)
  PROVE  \E d \in Directions : \E i \in DOMAIN Waiting[c][d] : Abstract!Interrupt(c, d, i)
<1>1. /\ bl' = RemoveTaskletFromBlocked(bl, c, t)
      /\ channelBlockedOn' = [channelBlockedOn EXCEPT ![t] = Null] /\ inside' = inside
      /\ transferArguments' = transferArguments /\ channelBlockedOn[t] = c
  BY DEF KillPending
<1>2. Removed(bl, channelBlockedOn, c, t, bl', channelBlockedOn') BY <1>1 DEF Removed, IInv, Fine
<1>3. PICK d : d = bl.dir[t] OBVIOUS
<1>4. d \in Directions BY <1>2, <1>3, QueueTaken
<1>5. PICK k \in DOMAIN Queue(bl)[c][d] : Queue(bl') = [Queue(bl) EXCEPT ![c][d] = RemoveAt(@, k)]
  BY <1>2, <1>3, QueueTaken
<1>6. Shut(bl') = Shut(bl)
  <2>1. bl'.closing = bl.closing BY <1>2, RemoveGood
  <2> QED BY <2>1 DEF Shut
<1>7. Done(inside', transferArguments') = Done(inside, transferArguments) BY <1>1
<1>8. Abstract!Interrupt(c, d, k) BY <1>5, <1>6, <1>7, MappedIs
    DEF Abstract!Interrupt, Abstract!RemoveAt, RemoveAt
<1> QED BY <1>4, <1>5, <1>8, MappedIs

(* The error path ends the wait of a blocked tasklet, and the call of one  *)
(* that has been served.                                                   *)
LEMMA GiveUpStep ==
  ASSUME IInv, NEW c \in Channels, NEW d \in Directions, NEW t \in Blockers, GiveUp(c, d, t)
  PROVE  \/ \E y \in Directions : \E i \in DOMAIN Waiting[c][y] : Abstract!Interrupt(c, y, i)
         \/ Abstract!Finish(t)
<1>1. PICK n : n = RemoveTaskletFromBlocked(bl, c, t) OBVIOUS
<1>2. /\ bl' = UpdateCloseState(n, c)
      /\ channelBlockedOn' = [channelBlockedOn EXCEPT ![t] = Null]
      /\ inside' = [inside EXCEPT ![t] = Null]
      /\ transferArguments' = [transferArguments EXCEPT ![t] = FALSE]
  BY <1>1 DEF GiveUp
<1>3. Fine(bl, channelBlockedOn, inside) /\ Good(bl, channelBlockedOn) BY DEF IInv, Fine
<1>4. channelBlockedOn[t] = c \/ channelBlockedOn[t] = Null
  BY <1>3, CallerIs DEF GiveUp, Inside
<1>5. Fine(n, channelBlockedOn', inside)
  <2>1. Off(bl, channelBlockedOn, inside, c, t, n, channelBlockedOn') BY <1>1, <1>2, <1>3, <1>4 DEF Off
  <2> QED BY <2>1, Removes
<1>6. SameLinks(n, bl') /\ bl'.closing = n.closing
  <2>1. Seen(n, channelBlockedOn', inside, c, bl') BY <1>2, <1>5 DEF Seen
  <2> QED BY <2>1, Updates
<1>7. Queue(bl') = Queue(n)
  <2>1. \A x, y : Chain(bl', x, y) = Chain(n, x, y) BY <1>6, ChainSame
  <2> QED BY <2>1, QueueSame
<1>8. Done(inside', transferArguments') = Done(inside, transferArguments) \ {t}
  <2>1. /\ inside'[t] = Null
        /\ \A u \in Blockers : u # t => inside'[u] = inside[u] /\ transferArguments'[u] = transferArguments[u]
    BY <1>2 DEF IInv, Fine
  <2> QED BY <2>1 DEF Done
<1>9. CASE channelBlockedOn[t] = c
  <2>1. Removed(bl, channelBlockedOn, c, t, n, channelBlockedOn')
    BY <1>1, <1>2, <1>3, <1>9 DEF Removed
  <2>2. PICK y : y = bl.dir[t] OBVIOUS
  <2>3. y \in Directions BY <2>1, <2>2, QueueTaken
  <2>4. PICK k \in DOMAIN Queue(bl)[c][y] : Queue(n) = [Queue(bl) EXCEPT ![c][y] = RemoveAt(@, k)]
    BY <2>1, <2>2, QueueTaken
  <2>5. Shut(bl') = Shut(bl)
    <3>1. n.closing = bl.closing BY <2>1, RemoveGood
    <3> QED BY <1>6, <3>1 DEF Shut
  <2>6. t \notin Done(inside, transferArguments)
    <3>1. channelBlockedOn[t] # Null BY <1>9, Names
    <3>2. transferArguments \in [Blockers -> BOOLEAN] /\ Held(bl, channelBlockedOn, transferArguments)
      BY DEF IInv
    <3> QED BY <1>3, <3>1, <3>2, BlockedNotDone
  <2>7. Done(inside', transferArguments') = Done(inside, transferArguments) BY <1>8, <2>6
  <2>8. Abstract!Interrupt(c, y, k) BY <1>7, <2>4, <2>5, <2>7, MappedIs
    DEF Abstract!Interrupt, Abstract!RemoveAt, RemoveAt
  <2> QED BY <2>3, <2>4, <2>8, MappedIs
<1>10. CASE channelBlockedOn[t] = Null
  <2>1. n = bl BY <1>1, <1>3, <1>10, RemoveNothing
  <2>2. Shut(bl') = Shut(bl) BY <1>6, <2>1 DEF Shut
  <2>3. Abstract!Finish(t) BY <1>7, <1>8, <2>1, <2>2, MappedIs DEF Abstract!Finish
  <2> QED BY <2>3
<1> QED BY <1>4, <1>9, <1>10

LEMMA FinishStep ==
  ASSUME IInv, NEW c \in Channels, NEW d \in Directions, NEW t \in Blockers, Complete(c, d, t)
  PROVE  Abstract!Finish(t)
<1>1. /\ bl' = (IF d = "SENDER" THEN UpdateCloseState(bl, c) ELSE bl)
      /\ inside' = [inside EXCEPT ![t] = Null]
      /\ transferArguments' = [transferArguments EXCEPT ![t] = FALSE]
  BY DEF Complete
<1>2. Queue(bl') = Queue(bl) /\ Shut(bl') = Shut(bl)
  <2>1. CASE d = "SENDER"
    <3>1. Seen(bl, channelBlockedOn, inside, c, bl') BY <1>1, <2>1 DEF Seen, IInv
    <3>2. SameLinks(bl, bl') /\ bl'.closing = bl.closing BY <3>1, Updates
    <3>3. \A x, y : Chain(bl', x, y) = Chain(bl, x, y) BY <3>2, ChainSame
    <3>4. Queue(bl') = Queue(bl) BY <3>3, QueueSame
    <3> QED BY <3>2, <3>4 DEF Shut
  <2>2. CASE d # "SENDER" BY <1>1, <2>2
  <2> QED BY <2>1, <2>2
<1>3. Done(inside', transferArguments') = Done(inside, transferArguments) \ {t}
  <2>1. /\ inside'[t] = Null
        /\ \A u \in Blockers : u # t => inside'[u] = inside[u] /\ transferArguments'[u] = transferArguments[u]
    BY <1>1 DEF IInv, Fine
  <2> QED BY <2>1 DEF Done
<1> QED BY <1>2, <1>3, MappedIs DEF Abstract!Finish

LEMMA FlagStep ==
  ASSUME IInv, NEW c \in Channels, Close(c) \/ Open(c)
  PROVE  Abstract!Shut(c) \/ Abstract!Reopen(c)
<1>1. /\ bl' = CloseChannel(bl, c) \/ bl' = OpenChannel(bl, c)
      /\ inside' = inside /\ transferArguments' = transferArguments
  BY DEF Close, Open
<1>2. /\ SameLinks(bl, bl')
      /\ bl' = CloseChannel(bl, c) => \A x \in Channels : bl'.closing[x] <=> bl.closing[x] \/ x = c
      /\ bl' = OpenChannel(bl, c) => \A x \in Channels : bl'.closing[x] <=> bl.closing[x] /\ x # c
  BY <1>1, Flags DEF IInv
<1>3. Queue(bl') = Queue(bl)
  <2>1. \A x, y : Chain(bl', x, y) = Chain(bl, x, y) BY <1>2, ChainSame
  <2> QED BY <2>1, QueueSame
<1>4. Done(inside', transferArguments') = Done(inside, transferArguments) BY <1>1
<1>5. CASE bl' = CloseChannel(bl, c)
  <2>1. Shut(bl') = Shut(bl) \cup {c} BY <1>2, <1>5 DEF Shut
  <2> QED BY <1>3, <1>4, <2>1, MappedIs DEF Abstract!Shut
<1>6. CASE bl' = OpenChannel(bl, c)
  <2>1. Shut(bl') = Shut(bl) \ {c} BY <1>2, <1>6 DEF Shut
  <2> QED BY <1>3, <1>4, <2>1, MappedIs DEF Abstract!Reopen
<1> QED BY <1>1, <1>5, <1>6

LEMMA RefuseStep ==
  ASSUME IInv, NEW c \in Channels, NEW t \in Blockers, RefuseReceive(c, t)
  PROVE  UNCHANGED Abstract!vars
<1>1. "RECEIVER" \in Directions BY DEF Directions
<1>2. channelBlockedOn[t] = Null BY CallerIs DEF RefuseReceive, IInv
<1>3. bl' = bl BY <1>1, <1>2, RefuseIsNothing DEF RefuseReceive, IInv, Fine
<1>4. inside' = inside /\ transferArguments' = transferArguments BY DEF RefuseReceive
<1> QED BY <1>3, <1>4, MappedIs DEF Abstract!vars

(* The blocked lists implement ChannelFIFO: only the tasklet that has      *)
(* waited longest on a channel has a message transferred, and one that is  *)
(* killed, interrupted or refused leaves the order of the others alone     *)
(* (Channel.cpp:34-370, 435-495).                                          *)
THEOREM ChannelsAreFair == Spec => FirstComeFirstServed
<1>1. Init => Abstract!Init
  <2> SUFFICES ASSUME Init PROVE Abstract!Init
    OBVIOUS
  <2>1. IInv BY IInvInit
  <2>2. Good(bl, channelBlockedOn) BY <2>1 DEF IInv, Fine
  <2>3. ASSUME NEW c \in Channels, NEW d \in Directions PROVE Chain(bl, c, d) = <<>>
    <3>1. ListOf(bl, channelBlockedOn, c, d, Chain(bl, c, d)) BY <2>2, ChainList
    <3>2. bl.first[c][d] = Null BY DEF Init, EmptyLists
    <3>3. PICK s : s = Chain(bl, c, d) OBVIOUS
    <3>4. s \in Seq(Blockers) /\ (s # <<>> => 1 \in 1..Len(s)) BY <3>1, <3>3, LenProperties, EmptySeq DEF ListOf
    <3>5. s # <<>> => s[1] \in Blockers BY <3>4, ElementOfSeq
    <3> QED BY <3>1, <3>2, <3>3, <3>5, Names DEF ListOf
  <2>4. Waiting = [c \in Channels |-> [d \in Directions |-> <<>>]] BY <2>3 DEF Waiting
  <2>5. Served = {} BY DEF Init, Served, Transferred
  <2>6. Closing = {} BY DEF Init, EmptyLists, Closing
  <2> QED BY <2>4, <2>5, <2>6 DEF Abstract!Init, Abstract!Sides, Directions
<1>2. IInv /\ [Next]_vars => [Abstract!Next]_(Abstract!vars)
  <2> SUFFICES ASSUME IInv, [Next]_vars PROVE Abstract!Next \/ UNCHANGED Abstract!vars
    OBVIOUS
  <2>1. CASE UNCHANGED vars BY <2>1, MappedIs DEF vars, Abstract!vars
  <2>2. CASE Next
    <3>1. Abstract!Sides = Directions BY DEF Abstract!Sides, Directions
    <3>2. ASSUME NEW c \in Channels, Close(c) \/ Open(c) PROVE Abstract!Next
      BY <3>2, FlagStep DEF Abstract!Next
    <3>3. ASSUME NEW c \in Channels, NEW d \in Directions, Match(c, d) PROVE Abstract!Next
      BY <3>1, <3>3, ServeStep DEF Abstract!Next
    <3>4. ASSUME NEW c \in Channels, NEW t \in Blockers, RefuseReceive(c, t)
          PROVE  UNCHANGED Abstract!vars
      BY <3>4, RefuseStep
    <3>5. ASSUME NEW c \in Channels, NEW t \in Blockers, KillPending(c, t) PROVE Abstract!Next
      BY <3>1, <3>5, InterruptStep DEF Abstract!Next
    <3>6. ASSUME NEW c \in Channels, NEW t \in Blockers, NEW d \in Directions, BlockOn(c, d, t)
          PROVE  Abstract!Next
      BY <3>1, <3>6, JoinStep DEF Abstract!Next
    <3>7. ASSUME NEW c \in Channels, NEW t \in Blockers, NEW d \in Directions, GiveUp(c, d, t)
          PROVE  Abstract!Next
      BY <3>1, <3>7, GiveUpStep DEF Abstract!Next
    <3>8. ASSUME NEW c \in Channels, NEW t \in Blockers, NEW d \in Directions, Complete(c, d, t)
          PROVE  Abstract!Next
      BY <3>8, FinishStep DEF Abstract!Next
    <3> QED BY <2>2, <3>2, <3>3, <3>4, <3>5, <3>6, <3>7, <3>8 DEF Next
  <2> QED BY <2>1, <2>2
<1> QED BY <1>1, <1>2, AlwaysIInv, PTL DEF Spec, FirstComeFirstServed, Abstract!Spec

=============================================================================
