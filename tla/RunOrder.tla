------------------------------ MODULE RunOrder ------------------------------
(***************************************************************************)
(* What the run queue promises: an order of the tasklets, in which a       *)
(* tasklet stands at most once.  A tasklet joins it at the end or directly *)
(* behind the tasklet that executes; it keeps its place while it executes; *)
(* when it gives control back it leaves, and goes where it has asked to    *)
(* go: nowhere, to the end, or one place behind the next in line.          *)
(***************************************************************************)
EXTENDS Integers, SequencesExt

CONSTANTS Tasklets, Main

VARIABLES
  order,        \* the queued tasklets, next in line first
  wants,        \* where a tasklet asks to go when it gives control back
  current       \* the tasklet that executes

vars == <<order, wants, current>>

Places == {"NONE", "FRONT_PLUS_ONE", "BACK"}

Queued(t) == t \in ToSet(order)

(* The place of n in the order s; the main tasklet stands before it.       *)
Place(s, n) == IF n = Main THEN 0 ELSE CHOOSE i \in DOMAIN s : s[i] = n

Init == /\ order = <<>>
        /\ wants = [n \in Tasklets \cup {Main} |-> "NONE"]
        /\ current = Main

(* A tasklet that is in the order already asks to be put last later.       *)
AskForBack(t) ==
  /\ Queued(t)
  /\ wants' = [wants EXCEPT ![t] = "BACK"]
  /\ UNCHANGED <<order, current>>

JoinLast(t) ==
  /\ ~Queued(t)
  /\ order' = Append(order, t)
  /\ UNCHANGED <<wants, current>>

JoinNext(t) ==
  /\ ~Queued(t)
  /\ order' = InsertAt(order, Place(order, current) + 1, t)
  /\ UNCHANGED <<wants, current>>

Leave(t) ==
  /\ Queued(t) /\ t # current
  /\ order' = RemoveAt(order, Place(order, t))
  /\ UNCHANGED <<wants, current>>

Ask(place) ==
  /\ wants' = [wants EXCEPT ![current] = place]
  /\ UNCHANGED <<order, current>>

Execute(t) ==
  /\ Queued(t)
  /\ current' = t
  /\ UNCHANGED <<order, wants>>

GiveBack(p) ==
  /\ current # Main /\ p # current
  /\ p = Main \/ Queued(p)
  /\ LET rest == RemoveAt(order, Place(order, current))
     IN  \/ wants[current] = "NONE" /\ order' = rest
         \/ wants[current] = "BACK" /\ order' = Append(rest, current)
         \/ /\ wants[current] = "FRONT_PLUS_ONE"
            /\ Place(rest, p) < Len(rest)
            /\ order' = InsertAt(rest, Place(rest, p) + 2, current)
  /\ wants' = [wants EXCEPT ![current] = "NONE"]
  /\ current' = p

Next ==
  \/ \E t \in Tasklets : \/ AskForBack(t) \/ JoinLast(t) \/ JoinNext(t)
                         \/ Leave(t) \/ Execute(t)
  \/ \E place \in Places : Ask(place)
  \/ \E p \in Tasklets \cup {Main} : GiveBack(p)

Spec == Init /\ [][Next]_vars

=============================================================================
