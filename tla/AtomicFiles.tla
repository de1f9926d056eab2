---------------------------- MODULE AtomicFiles ----------------------------
(***************************************************************************)
(* What a FileTransaction promises to a reader who comes after recovery:  *)
(* the files of one transaction change together or not at all.  As long   *)
(* as its record of the commit is there, the change may be taken back,    *)
(* file by file.  An edit made outside the transactions is told by its    *)
(* content, and may be lost to a transaction that had already looked at   *)
(* the file.                                                              *)
(***************************************************************************)
EXTENDS Integers, Sequences, Functions

CONSTANTS Names,     \* transaction names; one name is one lock
          Targets,   \* [Names -> Seq(paths)]: what a transaction of the name replaces
          Contents,  \* contents a transaction writes ("absent" among them)
          Foreign    \* contents written by somebody else

Files == UNION {Range(Targets[n]) : n \in Names}

VARIABLES vis,   \* what a reader finds in each file once recovery has run
          want,  \* what the transaction of each name is to write
          was,   \* what its files held before
          open   \* it is committed, and the record of that still there
avars == <<vis, want, was, open>>

Init ==
    /\ vis \in [Files -> Contents]
    /\ want = [n \in Names |-> vis] /\ was = [n \in Names |-> vis]
    /\ open = [n \in Names |-> FALSE]

\* A caller hands over new contents; the last transaction is settled by then.
Announce(n) ==
    /\ ~open[n]
    /\ was' = [was EXCEPT ![n] =
                  [f \in Files |-> IF f \in Range(Targets[n]) THEN vis[f] ELSE was[n][f]]]
    /\ \E w \in [Files -> Contents] : want' = [want EXCEPT ![n] = w]
    /\ UNCHANGED <<vis, open>>

\* All the files of the transaction at once; an outside edit that came while
\* the transaction ran may stay.
Commit(n) ==
    /\ ~open[n] /\ open' = [open EXCEPT ![n] = TRUE]
    /\ \E kept \in SUBSET {f \in Range(Targets[n]) : vis[f] \in Foreign} :
          vis' = [f \in Files |-> IF f \in Range(Targets[n]) \ kept
                                  THEN want[n][f] ELSE vis[f]]
    /\ UNCHANGED <<want, was>>

\* An exception after the commit: a file goes back to what it was.
TakeBack(n, f) ==
    /\ open[n]
    /\ vis' = [vis EXCEPT ![f] = was[n][f]]
    /\ UNCHANGED <<want, was, open>>

Reads(n, contents) == \A f \in Range(Targets[n]) : vis[f] \in {contents[f]} \cup Foreign

\* The record of the commit goes, over files that are all new or all back.
Settle(n) ==
    /\ open[n] /\ open' = [open EXCEPT ![n] = FALSE]
    /\ Reads(n, want[n]) \/ Reads(n, was[n])
    /\ UNCHANGED <<vis, want, was>>

Edit(f) ==
    /\ \E c \in Foreign : vis' = [vis EXCEPT ![f] = c]
    /\ UNCHANGED <<want, was, open>>

\* An edit that slipped in between a look and a write is overwritten.
LoseEdit(f) ==
    /\ vis[f] \in Foreign
    /\ \E c \in Contents : vis' = [vis EXCEPT ![f] = c]
    /\ UNCHANGED <<want, was, open>>

Next ==
    \/ \E n \in Names : Announce(n) \/ Commit(n) \/ Settle(n)
    \/ \E n \in Names : \E f \in Range(Targets[n]) : TakeBack(n, f)
    \/ \E f \in Files : Edit(f) \/ LoseEdit(f)

Spec == Init /\ [][Next]_avars
============================================================================
