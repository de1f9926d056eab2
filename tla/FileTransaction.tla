-------------------------- MODULE FileTransaction --------------------------
(***************************************************************************)
(* agentinfra/transaction.py over agentinfra/atomic.py: the journaled,    *)
(* recoverable replacement of several files.  Every transaction of one    *)
(* name runs under the lock of that name, so a name has at most one       *)
(* process inside commit() and at most one directory in state_dir.  A     *)
(* process may stop between any two disk operations; the next caller of   *)
(* the name takes the stale lock over and recovers.                       *)
(***************************************************************************)
EXTENDS Integers, Sequences, FiniteSets, Functions

CONSTANTS Names, Targets, Contents, Foreign, MaxCalls, MaxCrashes, MaxEdits

Paths(n) == Range(Targets[n])
Files == UNION {Paths(n) : n \in Names}

ASSUME TargetsAssumption ==
    /\ Targets \in [Names -> Seq(Files)]
    /\ \A n \in Names : Len(Targets[n]) > 0
    /\ \A n \in Names : \A i, j \in 1..Len(Targets[n]) :
          Targets[n][i] = Targets[n][j] => i = j
    /\ \A m, n \in Names : m # n => Paths(m) \cap Paths(n) = {}
ASSUME ContentsAssumption == Contents \cap Foreign = {}
ASSUME BoundsAssumption == MaxCalls \in Nat /\ MaxCrashes \in Nat /\ MaxEdits \in Nat

VARIABLES
    file,     \* contents of the destinations
    made,     \* the transaction directory of the name exists
    temp,     \* a temporary file was left in that directory by a crash
    phase,    \* phase of its journal.json, "none" when there is no journal
    before, after,  \* the records of the journal
    late,     \* ghost: an exception after the COMMITTED journal is taken back
    pc, k,    \* where the process of the name stands, and at which record
    job,      \* "commit" or "recover": what the caller asked for
    calls, crashes, edits

disk == <<made, temp, phase>>
records == <<before, after, late>>
bounds == <<calls, crashes, edits>>
vars == <<file, disk, records, pc, k, job, bounds>>

Steps == {"mkdir", "prepare", "apply", "check", "write", "verify", "note",
          "commit", "unlink", "rmdir"}
PCs == Steps \cup {"idle", "scan", "undo", "drop", "dropdir", "plan", "fail", "revert"}
Phases == {"none", "PREPARED", "APPLYING", "COMMITTED", "ROLLED_BACK"}
Pending(n) == phase[n] \in {"PREPARED", "APPLYING"}
Data == Contents \cup Foreign
Target(n) == Targets[n][k[n]]

TypeOK ==
    /\ file \in [Files -> Data]
    /\ made \in [Names -> BOOLEAN] /\ temp \in [Names -> BOOLEAN]
    /\ phase \in [Names -> Phases]
    /\ before \in [Names -> [Files -> Data]] /\ after \in [Names -> [Files -> Contents]]
    /\ late \in [Names -> BOOLEAN]
    /\ pc \in [Names -> PCs]
    /\ k \in [Names -> Nat] /\ \A n \in Names : k[n] \in 0..Len(Targets[n])
    /\ job \in [Names -> {"commit", "recover"}]
    /\ calls \in 0..MaxCalls /\ crashes \in 0..MaxCrashes /\ edits \in 0..MaxEdits

Init ==
    /\ file \in [Files -> Contents]
    /\ made = [n \in Names |-> FALSE] /\ temp = [n \in Names |-> FALSE]
    /\ phase = [n \in Names |-> "none"]
    /\ before = [n \in Names |-> file] /\ after = [n \in Names |-> file]
    /\ late = [n \in Names |-> FALSE]
    /\ pc = [n \in Names |-> "idle"] /\ k = [n \in Names |-> 0]
    /\ job = [n \in Names |-> "commit"]
    /\ calls = 0 /\ crashes = 0 /\ edits = 0

\* What the record of each destination holds changes for those of n only.
Noted(n, old, new) == [f \in Files |-> IF f \in Paths(n) THEN new[f] ELSE old[f]]

Goto(n, l) == pc' = [pc EXCEPT ![n] = l]

\* atomic_write_bytes / durable_unlink: a reader sees the old or the new
\* contents; "absent" is one of the contents.
Put(f, c) == file' = [file EXCEPT ![f] = c]

\* atomic_write_json of journal.json
Journal(n, p) == phase' = [phase EXCEPT ![n] = p] /\ UNCHANGED <<made, temp>>

(***************************************************************************)
(* Recovery of what an earlier process left.                               *)
(***************************************************************************)

\* _prepare_recovery: the contents under which a journal may be recovered.
Recoverable(n, force) ==
    \A f \in Paths(n) : file[f] \in
        CASE phase[n] = "ROLLED_BACK" -> {before[n][f]}
          [] phase[n] = "COMMITTED" /\ ~force -> {after[n][f]}
          [] OTHER -> {before[n][f], after[n][f]}

\* _recover_candidates reads every directory before it looks at the name.
ScanAccepts(n) ==
    /\ \A m \in Names : made[m] => phase[m] # "none"
    /\ made[n] => ~temp[n] /\ Recoverable(n, FALSE)

AfterRecovery(n) == IF job[n] = "commit" THEN "plan" ELSE "idle"

\* commit() or recover_named_transactions() takes the lock of the name.
Call(n, j) ==
    /\ pc[n] = "idle" /\ calls < MaxCalls
    /\ Goto(n, "scan")
    /\ job' = [job EXCEPT ![n] = j]
    /\ calls' = calls + 1
    /\ UNCHANGED <<file, disk, records, k, crashes, edits>>

ScanRefused(n) ==
    /\ pc[n] = "scan" /\ ~ScanAccepts(n)
    /\ Goto(n, "idle")
    /\ UNCHANGED <<file, disk, records, k, job, bounds>>

\* Mutant: a journal is cleared away before what it noted is restored.
ScanDropsPending(n) ==
    /\ pc[n] = "scan" /\ ScanAccepts(n)
    /\ Goto(n, IF made[n] THEN "drop" ELSE AfterRecovery(n))
    /\ k' = [k EXCEPT ![n] = Len(Targets[n])]
    /\ UNCHANGED <<file, disk, records, job, bounds>>

Scan(n) ==
    /\ pc[n] = "scan" /\ ScanAccepts(n)
    /\ Goto(n, CASE ~made[n] -> AfterRecovery(n)
                 [] Pending(n) -> "undo"
                 [] OTHER -> "drop")
    /\ k' = [k EXCEPT ![n] = Len(Targets[n])]
    /\ UNCHANGED <<file, disk, records, job, bounds>>

\* _apply_recovery: the last record first, then the journal says so.
Restore(n, here, next) ==
    /\ pc[n] = here
    /\ \/ /\ k[n] > 0
          /\ Put(Target(n), before[n][Target(n)])
          /\ k' = [k EXCEPT ![n] = @ - 1]
          /\ UNCHANGED <<pc, disk>>
       \/ /\ k[n] = 0
          /\ Journal(n, "ROLLED_BACK")
          /\ Goto(n, next)
          /\ UNCHANGED <<file, k>>
    /\ UNCHANGED <<records, job, bounds>>

Undo(n) == Restore(n, "undo", "drop")

DropJournal(n) ==
    /\ pc[n] = "drop"
    /\ Journal(n, "none") /\ Goto(n, "dropdir")
    /\ UNCHANGED <<file, records, k, job, bounds>>

DropDirectory(n) ==
    /\ pc[n] = "dropdir"
    /\ made' = [made EXCEPT ![n] = FALSE] /\ Goto(n, AfterRecovery(n))
    /\ UNCHANGED <<file, temp, phase, records, k, job, bounds>>

(***************************************************************************)
(* The transaction itself.                                                 *)
(***************************************************************************)

\* _preflight: the destinations must still be what the caller planned on,
\* which a recovery just made, or an edit, may have changed.
Preflight(n, new, expected) ==
    /\ pc[n] = "plan"
    /\ \/ /\ \A f \in Paths(n) : file[f] = expected[f]
          /\ before' = [before EXCEPT ![n] = Noted(n, @, file)]
          /\ after' = [after EXCEPT ![n] = Noted(n, @, new)]
          /\ late' = [late EXCEPT ![n] = FALSE]
          /\ Goto(n, "mkdir")
       \/ /\ \E f \in Paths(n) : file[f] # expected[f]
          /\ Goto(n, "idle") /\ UNCHANGED records
    /\ UNCHANGED <<file, disk, k, job, bounds>>

MakeDirectory(n) ==
    /\ pc[n] = "mkdir"
    /\ made' = [made EXCEPT ![n] = TRUE] /\ Goto(n, "prepare")
    /\ UNCHANGED <<file, temp, phase, records, k, job, bounds>>

Prepare(n) ==
    /\ pc[n] = "prepare"
    /\ Journal(n, "PREPARED") /\ Goto(n, "apply")
    /\ UNCHANGED <<file, records, k, job, bounds>>

Apply(n) ==
    /\ pc[n] = "apply"
    /\ Journal(n, "APPLYING") /\ Goto(n, "check")
    /\ k' = [k EXCEPT ![n] = 1]
    /\ UNCHANGED <<file, records, job, bounds>>

Check(n) ==
    /\ pc[n] = "check"
    /\ Goto(n, IF file[Target(n)] = before[n][Target(n)] THEN "write" ELSE "fail")
    /\ UNCHANGED <<file, disk, records, k, job, bounds>>

Write(n) ==
    /\ pc[n] = "write"
    /\ Put(Target(n), after[n][Target(n)]) /\ Goto(n, "verify")
    /\ UNCHANGED <<disk, records, k, job, bounds>>

Verify(n) ==
    /\ pc[n] = "verify"
    /\ Goto(n, IF file[Target(n)] = after[n][Target(n)] THEN "note" ELSE "fail")
    /\ UNCHANGED <<file, disk, records, k, job, bounds>>

\* Mutant: the last record is not waited for.
NoteOneEarly(n) ==
    /\ pc[n] = "note"
    /\ IF k[n] + 1 < Len(Targets[n])
       THEN Goto(n, "check") /\ k' = [k EXCEPT ![n] = @ + 1]
       ELSE Goto(n, "commit") /\ UNCHANGED k
    /\ UNCHANGED <<file, disk, records, job, bounds>>

\* The journal is written again with its count of applied records.
Note(n) ==
    /\ pc[n] = "note"
    /\ IF k[n] < Len(Targets[n])
       THEN Goto(n, "check") /\ k' = [k EXCEPT ![n] = @ + 1]
       ELSE Goto(n, "commit") /\ UNCHANGED k
    /\ UNCHANGED <<file, disk, records, job, bounds>>

Commit(n) ==
    /\ pc[n] = "commit"
    /\ Journal(n, "COMMITTED") /\ Goto(n, "unlink")
    /\ UNCHANGED <<file, records, k, job, bounds>>

\* Every caller passes retain=False.
UnlinkJournal(n) ==
    /\ pc[n] = "unlink"
    /\ Journal(n, "none") /\ Goto(n, "rmdir")
    /\ UNCHANGED <<file, records, k, job, bounds>>

RemoveDirectory(n) ==
    /\ pc[n] = "rmdir"
    /\ made' = [made EXCEPT ![n] = FALSE] /\ Goto(n, "idle")
    /\ UNCHANGED <<file, temp, phase, records, k, job, bounds>>

(***************************************************************************)
(* What goes wrong.                                                        *)
(***************************************************************************)

\* An I/O error or an interrupt reaches commit()'s except clause, also from
\* the two steps after the COMMITTED journal.  A step whose write is on disk
\* when its fsync fails is the next step failing.
Raise(n) ==
    /\ pc[n] \in Steps
    /\ Goto(n, "fail")
    /\ UNCHANGED <<file, disk, records, k, job, bounds>>

\* One inside recovery, or inside the except clause itself, leaves everything
\* to the next caller of the name.
GiveUp(n) ==
    /\ pc[n] \in {"scan", "undo", "drop", "dropdir", "plan", "fail", "revert"}
    /\ Goto(n, "idle") /\ k' = [k EXCEPT ![n] = 0]
    /\ UNCHANGED <<file, disk, records, job, bounds>>

\* Mutant: the except clause cleans up and does not roll back.
HandleWithoutRollback(n) ==
    /\ pc[n] = "fail"
    /\ Goto(n, IF phase[n] = "none" THEN "rmdir" ELSE "unlink")
    /\ UNCHANGED <<file, disk, records, k, job, bounds>>

\* The except clause: roll back under the journal, a COMMITTED one too, or
\* drop the directory.
Handle(n) ==
    /\ pc[n] = "fail"
    /\ \/ /\ phase[n] # "none" /\ Recoverable(n, TRUE)
          /\ Goto(n, "revert") /\ k' = [k EXCEPT ![n] = Len(Targets[n])]
          /\ late' = [late EXCEPT ![n] = phase[n] = "COMMITTED"]
          /\ UNCHANGED made
       \/ /\ phase[n] # "none" /\ ~Recoverable(n, TRUE)
          /\ Goto(n, "idle") /\ k' = [k EXCEPT ![n] = 0]
          /\ UNCHANGED <<made, late>>
       \/ /\ phase[n] = "none"
          /\ Goto(n, "idle") /\ k' = [k EXCEPT ![n] = 0]
          /\ made' = [made EXCEPT ![n] = FALSE]
          /\ UNCHANGED late
    /\ UNCHANGED <<file, temp, phase, before, after, job, bounds>>

Revert(n) == Restore(n, "revert", "idle")

\* The process writes journal.json through a temporary file next to it.
WritesJournal(n) ==
    \/ pc[n] \in {"prepare", "apply", "note", "commit"}
    \/ pc[n] \in {"undo", "revert"} /\ k[n] = 0

\* The process stops; memory is lost, the disk stays.
Crash(n) ==
    /\ pc[n] # "idle" /\ crashes < MaxCrashes
    /\ Goto(n, "idle")
    /\ \/ UNCHANGED temp
       \/ WritesJournal(n) /\ temp' = [temp EXCEPT ![n] = TRUE]
    /\ crashes' = crashes + 1
    /\ k' = [k EXCEPT ![n] = 0]
    /\ UNCHANGED <<file, made, phase, records, job, calls, edits>>

\* Somebody outside the transactions changes a destination.
Edit(f, c) ==
    /\ edits < MaxEdits /\ file[f] # c
    /\ Put(f, c) /\ edits' = edits + 1
    /\ UNCHANGED <<disk, records, pc, k, job, calls, crashes>>

Step(n) ==
    \/ \E j \in {"commit", "recover"} : Call(n, j)
    \/ ScanRefused(n) \/ Scan(n) \/ Undo(n) \/ DropJournal(n) \/ DropDirectory(n)
    \/ \E new \in [Paths(n) -> Contents], expected \in [Paths(n) -> Data] :
          Preflight(n, new, expected)
    \/ MakeDirectory(n) \/ Prepare(n) \/ Apply(n)
    \/ Check(n) \/ Write(n) \/ Verify(n) \/ Note(n)
    \/ Commit(n) \/ UnlinkJournal(n) \/ RemoveDirectory(n)
    \/ Raise(n) \/ GiveUp(n) \/ Handle(n) \/ Revert(n)

Next ==
    \/ \E n \in Names : Step(n) \/ Crash(n)
    \/ \E f \in Files, c \in Foreign : Edit(f, c)

Spec == Init /\ [][Next]_vars

(***************************************************************************)
(* Properties.                                                             *)
(***************************************************************************)

Holds(n, contents) == \A f \in Paths(n) : file[f] \in {contents[f]} \cup Foreign

\* Whatever crashes, exceptions and failed rollbacks came before, the journal
\* never lies: COMMITTED stands over the new contents of every destination and
\* ROLLED_BACK over the old ones, outside edits apart (transaction.py:64-66).
\* The one exception: once commit() takes a COMMITTED transaction back, since
\* clearing its journal failed (transaction.py:170-175), COMMITTED stands over
\* whatever part is taken back until the journal says ROLLED_BACK.
JournalTells ==
    \A n \in Names :
        /\ phase[n] = "COMMITTED" => late[n] \/ Holds(n, after[n])
        /\ phase[n] = "ROLLED_BACK" => Holds(n, before[n])

\* A half-applied transaction is always under a journal that keeps the next
\* caller from going on: a pending one, or a COMMITTED one that was being taken
\* back.  Otherwise the destinations are all old or all new; half-applied means
\* each is old or new, never a third thing of the transaction's own.
RestsWhole ==
    \A n \in Names :
        \/ Pending(n) \/ Holds(n, before[n]) \/ Holds(n, after[n])
        \/ /\ phase[n] = "COMMITTED" /\ late[n]
           /\ \A f \in Paths(n) : file[f] \in {before[n][f], after[n][f]} \cup Foreign

Owner == [f \in Files |-> CHOOSE n \in Names : f \in Paths(n)]
Visible(f) ==
    IF Pending(Owner[f]) /\ file[f] = after[Owner[f]][f]
    THEN before[Owner[f]][f] ELSE file[f]

Abstract == INSTANCE AtomicFiles WITH
    vis <- [f \in Files |-> Visible(f)], want <- after, was <- before,
    open <- [n \in Names |-> phase[n] = "COMMITTED"]

\* What is visible once recovery has run changes for all the files of a
\* transaction at one instant, the COMMITTED journal write; until that journal
\* is cleared an exception may take the files back to what they were, one by
\* one, and the journal goes only when they are whole again.
AllOrNothing == Abstract!Spec
============================================================================
