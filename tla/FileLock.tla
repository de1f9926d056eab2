------------------------------ MODULE FileLock ------------------------------
(***************************************************************************)
(* agentinfra/locks.py, FileLock: the lock file that serialises commands  *)
(* of different processes.  The file is created exclusively and named     *)
(* after its owner in a second step; a later process reclaims the lock of *)
(* an owner it finds dead.  An owner is the serial number of a command,   *)
(* which stands for the nonce, the pid and the process identity of the    *)
(* record: together they are fresh for every command.                     *)
(***************************************************************************)
EXTENDS Integers, FiniteSets

CONSTANTS Procs, MaxCommands, NoFile

ASSUME CommandsAssumption == MaxCommands \in Nat

VARIABLES
    lock,     \* the lock file: absent, blank, or naming its owner
    started,  \* how many commands have been started
    me,       \* the command each process runs, or ran last
    at,       \* where the process stands in acquire() or release()
    seen,     \* the dead owner its inspection found
    robbed    \* history: an unlink has removed a lock it had not inspected

lockVars == <<lock, started, me, at, seen, robbed>>

Owners == 1..MaxCommands
LockFiles == [by : Owners, text : BOOLEAN]

ASSUME NoFileAssumption == NoFile \notin LockFiles

Stages == {"out", "try", "write", "look", "reclaim", "held", "unlink"}

LockTypeOK ==
    /\ lock \in LockFiles \cup {NoFile}
    /\ started \in 0..MaxCommands
    /\ me \in [Procs -> 0..MaxCommands]
    /\ at \in [Procs -> Stages]
    /\ seen \in [Procs -> 0..MaxCommands]
    /\ robbed \in BOOLEAN

LockInit ==
    /\ lock = NoFile /\ robbed = FALSE /\ started = 0
    /\ me = [p \in Procs |-> 0]
    /\ at = [p \in Procs |-> "out"]
    /\ seen = [p \in Procs |-> 0]

Alive(o) == \E p \in Procs : me[p] = o /\ at[p] # "out"
Move(p, stage) == at' = [at EXCEPT ![p] = stage]

\* Mutant: a lock without a record is taken for a stale one.
ProvenDeadIfBlank == lock # NoFile /\ (~lock.text \/ ~Alive(lock.by))

\* inspect() proves the owner dead; a blank or unreadable record proves nothing.
ProvenDead == lock # NoFile /\ lock.text /\ ~Alive(lock.by)

\* A process starts a command of its own.
Start(p) ==
    /\ at[p] = "out" /\ started < MaxCommands
    /\ started' = started + 1
    /\ me' = [me EXCEPT ![p] = started']

\* A new command calls acquire().
Acquire(p) == Start(p) /\ Move(p, "try") /\ UNCHANGED <<lock, seen, robbed>>

\* O_CREAT | O_EXCL
TryCreate(p) ==
    /\ at[p] = "try"
    /\ \/ lock = NoFile /\ Move(p, "write") /\ lock' = [by |-> me[p], text |-> FALSE]
       \/ lock # NoFile /\ Move(p, "look") /\ UNCHANGED lock
    /\ UNCHANGED <<started, me, seen, robbed>>

\* The record goes into the created file, whether or not its name still does.
WriteRecord(p) ==
    /\ at[p] = "write"
    /\ Move(p, "held")
    /\ lock' = IF lock = [by |-> me[p], text |-> FALSE]
               THEN [lock EXCEPT !.text = TRUE] ELSE lock
    /\ UNCHANGED <<started, me, seen, robbed>>

\* A lock that is gone, blank or alive is tried again until the deadline.
Look(p) ==
    /\ at[p] = "look"
    /\ \/ ProvenDead /\ Move(p, "reclaim") /\ seen' = [seen EXCEPT ![p] = lock.by]
       \/ ~ProvenDead /\ \E stage \in {"try", "out"} : Move(p, stage) /\ UNCHANGED seen
    /\ UNCHANGED <<lock, started, me, robbed>>

\* unlink() takes whatever file has the name by now.
Unlinks(o) ==
    /\ lock' = NoFile
    /\ robbed' = (robbed \/ (lock # NoFile /\ lock.by # o))

Reclaim(p) ==
    /\ at[p] = "reclaim"
    /\ Unlinks(seen[p]) /\ Move(p, "try")
    /\ UNCHANGED <<started, me, seen>>

\* release() inspects the record and refuses one that is gone or not its own.
CheckOwner(p) ==
    /\ at[p] = "held"
    /\ Move(p, IF lock = [by |-> me[p], text |-> TRUE] THEN "unlink" ELSE "out")
    /\ UNCHANGED <<lock, started, me, seen, robbed>>

Unlock(p) ==
    /\ at[p] = "unlink"
    /\ Unlinks(me[p]) /\ Move(p, "out")
    /\ UNCHANGED <<started, me, seen>>

\* The process stops where it is and leaves the file as it is.
Die(p) ==
    /\ at[p] # "out"
    /\ Move(p, "out")
    /\ UNCHANGED <<lock, started, me, seen, robbed>>

Acquiring(p) == TryCreate(p) \/ WriteRecord(p) \/ Look(p) \/ Reclaim(p)
LockNext == \E p \in Procs : Acquire(p) \/ Acquiring(p) \/ CheckOwner(p) \/ Unlock(p) \/ Die(p)
LockSpec == LockInit /\ [][LockNext]_lockVars

Holders == {p \in Procs : at[p] \in {"held", "unlink"}}

\* The lock excludes: no two commands hold it at once, crashes and stale locks
\* included, as long as no unlink has hit a lock that replaced the inspected
\* one, the window between inspect() and unlink() of locks.py:131-134, 176-194.
OneHolder == robbed \/ Cardinality(Holders) <= 1
=============================================================================
