------------------------------ MODULE Subagent ------------------------------
(***************************************************************************)
(* `agentctl subagent open | close | recover` (cli.py, cmd_subagent) over *)
(* the control lock (FileLock), the global lease file (locks.py,          *)
(* LeaseLock) and the active_child of each task, against the `task        *)
(* transition` commands of other processes.  A mutation of a task is one  *)
(* step under that task's own lock, except the transition, whose look at  *)
(* the lease and whose save are two.                                      *)
(***************************************************************************)
EXTENDS FileLock

CONSTANTS Tasks, NoLease, NoChild, Nobody, MaxCrashes

VARIABLES
    lease,    \* subagent-lease.json: absent, blank, or naming its task
    child,    \* active_child.lease_id of each task
    state,    \* workflow state of each task, as far as a child depends on it
    taskLock, \* the process inside a transition of the task
    cmd, step, task, mine,  \* command, place, task and lease of each process
    crashes,
    unwritten \* history: the leases whose payload could not be written

handoff == <<cmd, task, mine>>
locals == <<cmd, step, task, mine>>
vars == <<lockVars, lease, child, state, taskLock, locals, crashes, unwritten>>

Leases == [id : Owners, task : Tasks, text : BOOLEAN]
States == {"WORK", "FINAL_AUDIT", "ENDED"}
Commands == {"open", "close", "recover"} \cup States

ASSUME HandoffAssumption ==
    /\ NoLease \notin Leases \cup Owners /\ NoChild \notin Owners
    /\ Nobody \notin Procs /\ MaxCrashes \in Nat

TypeOK ==
    /\ LockTypeOK
    /\ lease \in Leases \cup {NoLease}
    /\ child \in [Tasks -> Owners \cup {NoChild}]
    /\ state \in [Tasks -> States]
    /\ taskLock \in [Tasks -> Procs \cup {Nobody}]
    /\ cmd \in [Procs -> Commands]
    /\ step \in [Procs -> {"idle", "lease", "text", "mutate", "undo", "restore", "leave", "save"}]
    /\ task \in [Procs -> Tasks]
    /\ mine \in [Procs -> Owners \cup {NoLease}]
    /\ crashes \in 0..MaxCrashes /\ unwritten \subseteq Owners

Init ==
    /\ LockInit
    /\ lease = NoLease /\ child = [t \in Tasks |-> NoChild]
    /\ state = [t \in Tasks |-> "WORK"] /\ taskLock = [t \in Tasks |-> Nobody]
    /\ cmd = [p \in Procs |-> "open"] /\ step = [p \in Procs |-> "idle"]
    /\ task \in [Procs -> Tasks] /\ mine = [p \in Procs |-> NoLease]
    /\ crashes = 0 /\ unwritten = {}

Then(p, s) == step' = [step EXCEPT ![p] = s]
Inside(p, s) == at[p] = "held" /\ step[p] = s

\* What `close` and `recover` read before they ask for the control lock.
LeaseOf(t) ==
    /\ child[t] # NoChild /\ lease # NoLease
    /\ lease.text /\ lease.id = child[t] /\ lease.task = t

\* A command reads the task and the lease, then asks for the control lock.
Begin(p, c, t) ==
    /\ step[p] = "idle"
    /\ IF c = "open" THEN state[t] = "WORK" ELSE LeaseOf(t)
    /\ Acquire(p) /\ Then(p, "lease")
    /\ cmd' = [cmd EXCEPT ![p] = c] /\ task' = [task EXCEPT ![p] = t]
    /\ mine' = [mine EXCEPT ![p] = IF c = "open" THEN me'[p] ELSE child[t]]
    /\ UNCHANGED <<lease, child, state, taskLock, crashes, unwritten>>

\* The control lock could not be had in time: the command ends.
LockStep(p) ==
    /\ step[p] = "lease" /\ Acquiring(p)
    /\ step' = IF at'[p] = "out" THEN [step EXCEPT ![p] = "idle"] ELSE step
    /\ UNCHANGED <<lease, child, state, taskLock, handoff, crashes, unwritten>>

\* LeaseLock.acquire and restore: exclusive creation, the payload after it.
CreateLease(p) ==
    /\ (Inside(p, "lease") /\ cmd[p] = "open") \/ Inside(p, "restore")
    /\ \/ /\ lease = NoLease
          /\ lease' = [id |-> mine[p], task |-> task[p], text |-> FALSE]
          /\ Then(p, "text")
       \/ lease # NoLease /\ Then(p, "leave") /\ UNCHANGED lease
    /\ UNCHANGED <<lockVars, child, state, taskLock, handoff, crashes, unwritten>>

WriteLease(p) ==
    /\ Inside(p, "text")
    /\ lease' = IF lease = [id |-> mine[p], task |-> task[p], text |-> FALSE]
                THEN [lease EXCEPT !.text = TRUE] ELSE lease
    /\ Then(p, IF cmd[p] = "open" THEN "mutate" ELSE "leave")
    /\ UNCHANGED <<lockVars, child, state, taskLock, handoff, crashes, unwritten>>

\* The write, flush or fsync of the payload raises: the file stays, blank or
\* whole, and since acquire() has returned no lease, nothing is taken back.
WriteFails(p) ==
    /\ Inside(p, "text")
    /\ \/ UNCHANGED lease
       \/ /\ lease = [id |-> mine[p], task |-> task[p], text |-> FALSE]
          /\ lease' = [lease EXCEPT !.text = TRUE]
    /\ unwritten' = unwritten \cup {mine[p]}
    /\ Then(p, "leave")
    /\ UNCHANGED <<lockVars, child, state, taskLock, handoff, crashes>>

\* LeaseLock.release, for `close` and for an `open` that failed.
ReleaseLease(p) ==
    /\ (Inside(p, "lease") /\ cmd[p] = "close") \/ Inside(p, "undo")
    /\ LET own == lease = [id |-> mine[p], task |-> task[p], text |-> TRUE] IN
       /\ lease' = IF own THEN NoLease ELSE lease
       /\ Then(p, IF own /\ cmd[p] = "close" THEN "mutate" ELSE "leave")
    /\ UNCHANGED <<lockVars, child, state, taskLock, handoff, crashes, unwritten>>

\* LeaseLock.force_clear compares the task, not the lease id.
ForceClear(p) ==
    /\ Inside(p, "lease") /\ cmd[p] = "recover"
    /\ LET clears == lease = NoLease \/ (lease.text /\ lease.task = task[p]) IN
       /\ lease' = IF clears THEN NoLease ELSE lease
       /\ mine' = IF clears THEN [mine EXCEPT ![p] = IF lease = NoLease THEN NoLease ELSE lease.id]
                  ELSE mine
       /\ Then(p, IF clears THEN "mutate" ELSE "leave")
    /\ UNCHANGED <<lockVars, child, state, taskLock, cmd, task, crashes, unwritten>>

\* Mutant: the state read before the lock is trusted.
RefusedIfEnded(p) ==
    \/ state[task[p]] = "ENDED"
    \/ cmd[p] = "open" /\ child[task[p]] # NoChild

\* StateStore.mutate refuses a terminal task; the function of `open` checks
\* again what the command had read before the lock.
Refused(p) ==
    \/ state[task[p]] = "ENDED"
    \/ cmd[p] = "open" /\ (state[task[p]] # "WORK" \/ child[task[p]] # NoChild)

\* Mutant: a failed `close` does not put the lease back.
MutateWithoutRestore(p) ==
    /\ Inside(p, "mutate") /\ taskLock[task[p]] = Nobody
    /\ \/ /\ ~Refused(p)
          /\ child' = [child EXCEPT ![task[p]] = IF cmd[p] = "open" THEN mine[p] ELSE NoChild]
          /\ Then(p, "leave")
       \/ /\ Then(p, IF cmd[p] = "open" THEN "undo" ELSE "leave")
          /\ UNCHANGED child
    /\ UNCHANGED <<lockVars, lease, state, taskLock, handoff, crashes, unwritten>>

\* The mutation of the task; an I/O error refuses it as a failed check does.
Mutate(p) ==
    /\ Inside(p, "mutate") /\ taskLock[task[p]] = Nobody
    /\ \/ /\ ~Refused(p)
          /\ child' = [child EXCEPT ![task[p]] = IF cmd[p] = "open" THEN mine[p] ELSE NoChild]
          /\ Then(p, "leave")
       \/ /\ Then(p, IF cmd[p] = "open" THEN "undo"
                     ELSE IF mine[p] = NoLease THEN "leave" ELSE "restore")
          /\ UNCHANGED child
    /\ UNCHANGED <<lockVars, lease, state, taskLock, handoff, crashes, unwritten>>

\* control.release(), and the end of the command.
Leave(p) ==
    /\ step[p] = "leave" /\ (CheckOwner(p) \/ Unlock(p))
    /\ step' = IF at'[p] = "out" THEN [step EXCEPT ![p] = "idle"] ELSE step
    /\ UNCHANGED <<lease, child, state, taskLock, handoff, crashes, unwritten>>

\* StateStore.transition, under the task's lock: an active child refuses it,
\* and so does a lease of anybody when the audit begins.
BeginTransition(p, t, s) ==
    /\ step[p] = "idle" /\ Start(p)
    /\ taskLock[t] = Nobody /\ child[t] = NoChild
    /\ state[t] # "ENDED" /\ state[t] # s
    /\ s = "FINAL_AUDIT" => lease = NoLease
    /\ taskLock' = [taskLock EXCEPT ![t] = p]
    /\ cmd' = [cmd EXCEPT ![p] = s] /\ task' = [task EXCEPT ![p] = t] /\ Then(p, "save")
    /\ UNCHANGED <<lock, at, seen, robbed, lease, child, state, mine, crashes, unwritten>>

SaveTransition(p) ==
    /\ step[p] = "save"
    /\ state' = [state EXCEPT ![task[p]] = cmd[p]]
    /\ taskLock' = [taskLock EXCEPT ![task[p]] = Nobody]
    /\ Then(p, "idle")
    /\ UNCHANGED <<lockVars, lease, child, handoff, crashes, unwritten>>

\* A process stops; its task lock is proven dead and reclaimed.  A command
\* whose write of the lock record raises leaves the lock in the same way.
Crash(p) ==
    /\ crashes < MaxCrashes /\ step[p] # "idle"
    /\ IF at[p] = "out" THEN UNCHANGED lockVars ELSE Die(p)
    /\ Then(p, "idle")
    /\ taskLock' = [t \in Tasks |-> IF taskLock[t] = p THEN Nobody ELSE taskLock[t]]
    /\ crashes' = crashes + 1
    /\ UNCHANGED <<lease, child, state, handoff, unwritten>>

Next ==
    \E p \in Procs :
        \/ \E c \in {"open", "close", "recover"}, t \in Tasks : Begin(p, c, t)
        \/ LockStep(p) \/ CreateLease(p) \/ WriteLease(p) \/ WriteFails(p)
        \/ ReleaseLease(p)
        \/ ForceClear(p) \/ Mutate(p) \/ Leave(p)
        \/ \E t \in Tasks, s \in States : BeginTransition(p, t, s)
        \/ SaveTransition(p) \/ Crash(p)

Spec == Init /\ [][Next]_vars

(***************************************************************************)
(* Properties.                                                             *)
(***************************************************************************)

\* No task is in its final audit, or past it, with a child still recorded,
\* whichever way `open`, `transition`, failures and crashes interleave, and
\* although `open` reads the state before it waits for the control lock.
NoChildInAudit == \A t \in Tasks : state[t] # "WORK" => child[t] = NoChild

Quiet == \A p \in Procs : step[p] = "idle"
Children == {t \in Tasks : child[t] # NoChild}

\* When nobody has crashed and no command is under way, the lease file and the
\* tasks agree, whatever was refused, failed and taken back: no lease and no
\* child, or one lease and the one task it names.  A lease whose payload could
\* not be written (locks.py:227-234) stays behind: no task but its own has a
\* child then, and that one has no other.
HandoffAgrees ==
    Quiet /\ crashes = 0 =>
        \/ lease = NoLease /\ Children = {}
        \/ lease # NoLease /\ Children = {lease.task} /\ LeaseOf(lease.task)
        \/ /\ lease # NoLease /\ lease.id \in unwritten
           /\ \A t \in Children : t = lease.task /\ child[t] = lease.id
=============================================================================
