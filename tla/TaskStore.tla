----------------------------- MODULE TaskStore -----------------------------
(***************************************************************************)
(* agentinfra/state_store.py: the three files of a task (state.json, its  *)
(* anchor, the anchor history), replaced together by a transaction named  *)
(* "task-state" that all the tasks share, and the evidence ledger, which  *)
(* is written outside that transaction.  Every mutation of a task runs    *)
(* under the task's lock, so each task has at most one process at work.   *)
(* A file is the revision it belongs to, state.json with the evidence     *)
(* head it names.  The phases of the transaction are FileTransaction's:   *)
(* here a journal is pending or done, or there is none.                   *)
(***************************************************************************)
EXTENDS EvidenceLedger

CONSTANTS NoJournal, Nobody, MaxCommands, MaxFaults

ASSUME BoundsAssumption == MaxCommands \in Nat /\ MaxFaults \in Nat

VARIABLES
    disk,     \* the state, the anchor and the history of each task
    current,  \* the current-task pointer
    journal,  \* what a "task-state" transaction has noted; done: it says COMMITTED
    inside,   \* the task whose process is in that transaction
    pc, kind, \* where the process of the task stands, in which command
    got,      \* the state it has loaded
    fresh,    \* the record it has appended
    plan,     \* the files its transaction expects
    acked,    \* the last revision, and the records, it was told are saved
    hurt,     \* ghost: what struck the task that no handler takes back
    commands, faults

locals == <<kind, got, fresh, plan>>
bounds == <<commands, faults>>
vars == <<ledgerVars, disk, current, journal, inside, pc, locals, acked, hurt, bounds>>

PCs == {"none", "idle", "load", "anchor", "append", "mark", "verify", "plan", "enter",
        "recover", "preflight", "state", "history", "commit", "clear", "revert",
        "undo", "cut"}
Disks == [rev : Nat, head : Nat, anchor : Nat, history : SUBSET Nat]
\* failed is a ghost: the rollback under this journal raised.
Journals == [task : Tasks, before : Disks, after : Disks, done : BOOLEAN, failed : BOOLEAN]
Faults == {"crash", "append", "undo", "rollback", "late"}

ASSUME NamesAssumption == NoJournal \notin Journals /\ Nobody \notin Tasks

NoDisk == [rev |-> 0, head |-> NoRecord, anchor |-> 0, history |-> {}]
NewDisk == [NoDisk EXCEPT !.history = {0}]

TypeOK ==
    /\ LedgerTypeOK
    /\ disk \in [Tasks -> Disks] /\ current \in Tasks \cup {Nobody}
    /\ journal \in Journals \cup {NoJournal}
    /\ inside \in Tasks \cup {Nobody}
    /\ pc \in [Tasks -> PCs] /\ kind \in [Tasks -> {"plain", "evidence"}]
    /\ got \in [Tasks -> Disks] /\ plan \in [Tasks -> Disks] /\ fresh \in [Tasks -> Nat]
    /\ acked \in [Tasks -> [rev : Nat, records : SUBSET Nat]]
    /\ hurt \in [Tasks -> SUBSET Faults]
    /\ commands \in 0..MaxCommands /\ faults \in 0..MaxFaults

Init ==
    /\ LedgerInit
    /\ disk = [t \in Tasks |-> NoDisk] /\ current = Nobody
    /\ journal = NoJournal /\ inside = Nobody
    /\ pc = [t \in Tasks |-> "none"] /\ kind = [t \in Tasks |-> "plain"]
    /\ got = [t \in Tasks |-> NoDisk] /\ plan = [t \in Tasks |-> NoDisk]
    /\ fresh = [t \in Tasks |-> NoRecord]
    /\ acked = [t \in Tasks |-> [rev |-> 0, records |-> {}]]
    /\ hurt = [t \in Tasks |-> {}] /\ commands = 0 /\ faults = 0

Goto(t, l) == pc' = [pc EXCEPT ![t] = l]
Put(t, files) == disk' = [disk EXCEPT ![t] = files]

\* create: the state, its anchor and the pointer, in one transaction.
Create(t) ==
    /\ pc[t] = "none"
    /\ Put(t, NewDisk) /\ current' = t /\ Goto(t, "idle")
    /\ UNCHANGED <<ledgerVars, journal, inside, locals, acked, hurt, bounds>>

\* mutate takes the lock of the task.
Mutate(t, c) ==
    /\ pc[t] = "idle" /\ commands < MaxCommands
    /\ commands' = commands + 1
    /\ kind' = [kind EXCEPT ![t] = c] /\ fresh' = [fresh EXCEPT ![t] = NoRecord]
    /\ Goto(t, "load")
    /\ UNCHANGED <<ledgerVars, disk, current, journal, inside, got, plan, acked, hurt, faults>>

\* _load_unlocked reads state.json, then the anchor and its history.
LoadState(t) ==
    /\ pc[t] = "load"
    /\ got' = [got EXCEPT ![t] = disk[t]] /\ Goto(t, "anchor")
    /\ UNCHANGED <<ledgerVars, disk, current, journal, inside, kind, fresh, plan, acked, hurt, bounds>>

\* _load_anchor with _validate_anchor_history: contiguous up to the anchor.
AnchorHolds(files) == files.history = 0..files.anchor

LoadAnchor(t) ==
    /\ pc[t] = "anchor"
    /\ Goto(t, IF ~(AnchorHolds(disk[t]) /\ disk[t].anchor = got[t].rev) THEN "idle"
               ELSE IF kind[t] = "evidence" THEN "append" ELSE "verify")
    /\ UNCHANGED <<ledgerVars, disk, current, journal, inside, locals, acked, hurt, bounds>>

(***************************************************************************)
(* The evidence side effect of a mutation.                                 *)
(***************************************************************************)

Repair(t) ==
    /\ pc[t] = "append" /\ RepairMark(t)
    /\ UNCHANGED <<disk, current, journal, inside, pc, locals, acked, hurt, bounds>>

AppendEvidence(t) ==
    /\ pc[t] = "append" /\ AppendRecord(t)
    /\ fresh' = [fresh EXCEPT ![t] = minted'] /\ Goto(t, "mark")
    /\ UNCHANGED <<disk, current, journal, inside, kind, got, plan, acked, hurt, bounds>>

\* append_evidence raises before it has written anything.
AppendRefused(t) ==
    /\ pc[t] = "append"
    /\ Goto(t, "idle")
    /\ UNCHANGED <<ledgerVars, disk, current, journal, inside, locals, acked, hurt, bounds>>

Mark(t) ==
    /\ pc[t] = "mark" /\ MarkRecord(t) /\ Goto(t, "verify")
    /\ UNCHANGED <<disk, current, journal, inside, locals, acked, hurt, bounds>>

\* Something strikes t that nothing takes back.
Strike(t, what) ==
    /\ faults < MaxFaults /\ faults' = faults + 1
    /\ hurt' = [hurt EXCEPT ![t] = @ \cup {what}]
    /\ UNCHANGED commands

\* append_evidence raises inside os.write, or before or after the write of the
\* anchor: the command does not know of the record, so on_failure does nothing.
AppendFails(t) ==
    /\ \/ pc[t] = "append" /\ Appendable(t) /\ TearRecord(t)
       \/ pc[t] = "mark" /\ (MarkRecord(t) \/ UNCHANGED ledgerVars)
    /\ Strike(t, "append") /\ Goto(t, "idle")
    /\ UNCHANGED <<disk, current, journal, inside, locals, acked>>

\* Mutant: no on_failure is passed to mutate.
AfterFailureKeeps(t) == "idle"

\* on_failure: take back the record that was appended.
AfterFailure(t) == IF fresh[t] = NoRecord THEN "idle" ELSE "undo"

Undo(t) ==
    /\ pc[t] = "undo"
    /\ \/ RollbackMark(t, fresh[t]) /\ Goto(t, "cut")
       \/ ~CanRollback(t, fresh[t]) /\ Goto(t, "idle") /\ UNCHANGED ledgerVars
    /\ UNCHANGED <<disk, current, journal, inside, locals, acked, hurt, bounds>>

\* rollback_last_evidence raises at its first write, or at its second: then the
\* anchor is written back, which is the first case again, or that fails too.
UndoFails(t) ==
    /\ pc[t] \in {"undo", "cut"}
    /\ Strike(t, "undo") /\ Goto(t, "idle")
    /\ UNCHANGED <<ledgerVars, disk, current, journal, inside, locals, acked>>

Cut(t) ==
    /\ pc[t] = "cut" /\ RollbackRecord(t) /\ Goto(t, "idle")
    /\ UNCHANGED <<disk, current, journal, inside, locals, acked, hurt, bounds>>

(***************************************************************************)
(* _save_locked.                                                           *)
(***************************************************************************)

NewHead(t) == IF fresh[t] = NoRecord THEN got[t].head ELSE fresh[t]

\* The ledger verifies, ends in the head of the new state, and extends the old.
SaveAccepts(t) ==
    /\ Verified(t) /\ LedgerHead(t) = NewHead(t)
    /\ NewHead(t) # got[t].head =>
          got[t].head = NoRecord \/ got[t].head \in Range(Front(ledger[t]))

Verify(t) ==
    /\ pc[t] = "verify" /\ SaveAccepts(t) /\ Goto(t, "plan")
    /\ UNCHANGED <<ledgerVars, disk, current, journal, inside, locals, acked, hurt, bounds>>

\* The anchor and the expected digests are read from the disk, not from what
\* was loaded.
Plan(t) ==
    /\ pc[t] = "plan" /\ AnchorHolds(disk[t])
    /\ plan' = [plan EXCEPT ![t] = disk[t]] /\ Goto(t, "enter")
    /\ UNCHANGED <<ledgerVars, disk, current, journal, inside, kind, got, fresh, acked, hurt, bounds>>

\* FileTransaction.commit takes the lock of the name.
Enter(t) ==
    /\ pc[t] = "enter" /\ inside = Nobody
    /\ inside' = t /\ Goto(t, IF journal = NoJournal THEN "preflight" ELSE "recover")
    /\ UNCHANGED <<ledgerVars, disk, current, journal, locals, acked, hurt, bounds>>

\* Mutant: the state is left as it is.
RestoreKeepsState(t, here, next) ==
    /\ pc[t] = here /\ journal # NoJournal
    /\ LET u == journal.task
           old == journal.before
           now == disk[u] IN
       \/ /\ now.history # old.history \/ now.anchor # old.anchor
          /\ Put(u, [now EXCEPT !.history = old.history, !.anchor = old.anchor])
          /\ UNCHANGED <<journal, pc, inside>>
       \/ now.history = old.history /\ now.anchor = old.anchor
          /\ journal' = NoJournal /\ Goto(t, next)
          /\ inside' = (IF next = "preflight" THEN inside ELSE Nobody) /\ UNCHANGED disk
    /\ UNCHANGED <<ledgerVars, current, locals, acked, hurt, bounds>>

\* One file of the transaction gets its old contents back, the last one first;
\* then the journal is settled.
Restore(t, here, next) ==
    /\ pc[t] = here /\ journal # NoJournal
    /\ LET u == journal.task
           old == journal.before
           now == disk[u] IN
       \/ now.history # old.history /\ Put(u, [now EXCEPT !.history = old.history])
          /\ UNCHANGED <<journal, pc, inside>>
       \/ now.history = old.history /\ now.anchor # old.anchor
          /\ Put(u, [now EXCEPT !.anchor = old.anchor]) /\ UNCHANGED <<journal, pc, inside>>
       \/ now.history = old.history /\ now.anchor = old.anchor /\ now # old
          /\ Put(u, old) /\ UNCHANGED <<journal, pc, inside>>
       \/ now = old /\ journal' = NoJournal /\ Goto(t, next)
          /\ inside' = (IF next = "preflight" THEN inside ELSE Nobody) /\ UNCHANGED disk
    /\ UNCHANGED <<ledgerVars, current, locals, acked, hurt, bounds>>

\* recover_pending_transactions: a pending journal is rolled back; a done one
\* goes if the files are the new ones, and is refused (Raise) otherwise.
Recover(t) == journal # NoJournal /\ ~journal.done /\ Restore(t, "recover", "preflight")

RecoverDone(t) ==
    /\ pc[t] = "recover" /\ journal # NoJournal /\ journal.done
    /\ disk[journal.task] = journal.after
    /\ journal' = NoJournal /\ Goto(t, "preflight")
    /\ UNCHANGED <<ledgerVars, disk, current, inside, locals, acked, hurt, bounds>>

\* The rollback of commit()'s except clause, under a done journal too.
Revert(t) == Restore(t, "revert", AfterFailure(t))

\* It raises: the journal stays over whatever is restored by then, and
\* on_failure takes the record back all the same.
RevertFails(t) ==
    /\ pc[t] = "revert"
    /\ journal' = [journal EXCEPT !.failed = TRUE] /\ inside' = Nobody
    /\ Strike(t, IF journal.done THEN "late" ELSE "rollback")
    /\ Goto(t, AfterFailure(t))
    /\ UNCHANGED <<ledgerVars, disk, current, locals, acked>>

After(t) ==
    [rev |-> got[t].rev + 1, head |-> NewHead(t), anchor |-> got[t].rev + 1,
     history |-> plan[t].history \cup {got[t].rev + 1}]

Preflight(t) ==
    /\ pc[t] = "preflight"
    /\ \/ /\ disk[t] = plan[t]
          /\ journal' = [task |-> t, before |-> disk[t], after |-> After(t),
                        done |-> FALSE, failed |-> FALSE]
          /\ Goto(t, "state") /\ UNCHANGED inside
       \/ /\ disk[t] # plan[t]
          /\ inside' = Nobody /\ Goto(t, AfterFailure(t)) /\ UNCHANGED journal
    /\ UNCHANGED <<ledgerVars, disk, current, locals, acked, hurt, bounds>>

WriteState(t) ==
    /\ pc[t] = "state"
    /\ Put(t, [disk[t] EXCEPT !.rev = journal.after.rev, !.head = journal.after.head])
    /\ Goto(t, "history")
    /\ UNCHANGED <<ledgerVars, current, journal, inside, locals, acked, hurt, bounds>>

\* The anchor, then its copy in the history.
WriteAnchor(t) ==
    /\ pc[t] = "history"
    /\ IF disk[t].anchor # journal.after.anchor
       THEN Put(t, [disk[t] EXCEPT !.anchor = journal.after.anchor]) /\ UNCHANGED pc
       ELSE Put(t, journal.after) /\ Goto(t, "commit")
    /\ UNCHANGED <<ledgerVars, current, journal, inside, locals, acked, hurt, bounds>>

\* Mutant: the journal of a finished transaction stays pending.
CommitKeepsJournal(t) ==
    /\ pc[t] = "commit"
    /\ inside' = Nobody /\ Goto(t, "idle")
    /\ acked' = [acked EXCEPT ![t] = [rev |-> journal.after.rev,
                                      records |-> @.records \cup ({fresh[t]} \ {NoRecord})]]
    /\ UNCHANGED <<ledgerVars, disk, current, journal, locals, hurt, bounds>>

Commit(t) ==
    /\ pc[t] = "commit"
    /\ journal' = [journal EXCEPT !.done = TRUE] /\ Goto(t, "clear")
    /\ UNCHANGED <<ledgerVars, disk, current, inside, locals, acked, hurt, bounds>>

\* The journal and its directory go; mutate returns the new state.
Clear(t) ==
    /\ pc[t] = "clear"
    /\ journal' = NoJournal /\ inside' = Nobody /\ Goto(t, "idle")
    /\ acked' = [acked EXCEPT ![t] = [rev |-> journal.after.rev,
                                      records |-> @.records \cup ({fresh[t]} \ {NoRecord})]]
    /\ UNCHANGED <<ledgerVars, disk, current, locals, hurt, bounds>>

\* The journal goes, its directory does not: without a journal the except
\* clause restores nothing, and on_failure takes the record back.
ClearFails(t) ==
    /\ pc[t] = "clear"
    /\ journal' = NoJournal /\ inside' = Nobody
    /\ Strike(t, "late") /\ Goto(t, AfterFailure(t))
    /\ UNCHANGED <<ledgerVars, disk, current, locals, acked>>

(***************************************************************************)
(* What goes wrong.                                                        *)
(***************************************************************************)

\* A check of the mutation or of its save, a lock that is not to be had, or
\* an I/O error raises: the files of the transaction are to be rolled back,
\* also when the journal says COMMITTED already, and the record is.
Raise(t) ==
    /\ \/ /\ pc[t] \in {"verify", "plan", "enter", "recover", "preflight"}
          /\ Goto(t, AfterFailure(t))
          /\ inside' = IF inside = t THEN Nobody ELSE inside
       \/ /\ pc[t] \in {"state", "history", "commit", "clear"}
          /\ Goto(t, "revert") /\ UNCHANGED inside
    /\ UNCHANGED <<ledgerVars, disk, current, journal, locals, acked, hurt, bounds>>

\* The process stops: what is on disk stays.
Crash(t) ==
    /\ pc[t] \notin {"none", "idle"} /\ Strike(t, "crash") /\ Goto(t, "idle")
    /\ inside' = IF inside = t THEN Nobody ELSE inside
    /\ \/ UNCHANGED ledgerVars
       \/ pc[t] = "append" /\ Appendable(t) /\ TearRecord(t)
    /\ UNCHANGED <<disk, current, journal, locals, acked>>

Next ==
    \E t \in Tasks :
        \/ Create(t) \/ \E c \in {"plain", "evidence"} : Mutate(t, c)
        \/ LoadState(t) \/ LoadAnchor(t)
        \/ Repair(t) \/ AppendEvidence(t) \/ AppendRefused(t) \/ Mark(t) \/ Undo(t) \/ Cut(t)
        \/ Verify(t) \/ Plan(t) \/ Enter(t) \/ Recover(t) \/ RecoverDone(t) \/ Revert(t)
        \/ Preflight(t) \/ WriteState(t) \/ WriteAnchor(t) \/ Commit(t) \/ Clear(t)
        \/ AppendFails(t) \/ UndoFails(t) \/ RevertFails(t) \/ ClearFails(t)
        \/ Raise(t) \/ Crash(t)

Spec == Init /\ [][Next]_vars

(***************************************************************************)
(* Properties.                                                             *)
(***************************************************************************)

Loadable(t) == AnchorHolds(disk[t]) /\ disk[t].anchor = disk[t].rev
Pending(t) == journal # NoJournal /\ journal.task = t
Rests(t) == pc[t] = "idle"

\* What mutate has returned is never undone: a later crash, rollback or
\* recovery, of this task or of another one, keeps the revision and its
\* evidence records (state_store.py:914-921, cli.py:144-150).
AckedStays ==
    \A t \in Tasks :
        disk[t].rev >= acked[t].rev /\ acked[t].records \subseteq Range(ledger[t])

\* A command that fails leaves no trace, whatever becomes of the other tasks:
\* a task at rest loads, its ledger verifies, and it names the head of its
\* ledger.  Excepted are the tasks that were struck by what no handler takes
\* back: a crash, an error inside append_evidence once it has written
\* (evidence.py:321-337), a rollback that fails itself (transaction.py:176-179,
\* state_store.py:970-973), or an error once the journal is unlinked.
FailureLeavesNoTrace ==
    \A t \in Tasks : hurt[t] = {} /\ Rests(t) =>
        Loadable(t) /\ Verified(t) /\ LedgerHead(t) = disk[t].head

\* The state of a task never runs ahead of its ledger, crashes and failed
\* appends included: the head it names is a record of the ledger.  Excepted is
\* a task whose rollback failed before on_failure took the record back: until
\* its journal is recovered, and for good if the journal said COMMITTED or was
\* unlinked already (transaction.py:170-179).
HeadIsRecord ==
    \A t \in Tasks :
        \/ disk[t].head = NoRecord \/ disk[t].head \in Range(ledger[t])
        \/ Pending(t) /\ journal.failed
        \/ "late" \in hurt[t]

\* Once a crashed save has been recovered and nothing is pending or under
\* way, every task can be loaded (tests-to-impl/33, "crash during state
\* transition recovers coherently").
RecoversCoherently ==
    (journal = NoJournal /\ \A t \in Tasks : Rests(t)) => \A t \in Tasks : Loadable(t)
=============================================================================
