# carbon-scheduler: a TLA+ development

The repository holds two programs. **carbon-scheduler** (`src/src`,
`src/python`) gives Python the tasklets and channels of Stackless Python on top
of greenlet: a tasklet is a greenlet, a schedule manager per thread keeps the
runnable ones in a linked queue and switches between them, and channels let two
tasklets meet and hand over a message. The **control plane**
(`src/.agents/infra/agentinfra`) governs the development work on it: a command
line tool, run by several processes at once, that keeps tasks, evidence, leases
and installs in files and decides what may be written and what counts as
proven. The two share nothing at run time.

This directory models both, checks the models with TLC and proves, with TLAPS,
the run queue, the channels and the control plane's components correct for every
size. Paths below are relative to `src/src` for C++ and to
`src/.agents/infra/agentinfra` for the control plane.

## 1. Inventory

### The scheduler

| Part | Source | State | Operations |
|---|---|---|---|
| Run queue | `ScheduleManager.cpp` | the chain `m_next`/`m_previous` from the main tasklet, its end `m_previousTasklet`, `m_numberOfTaskletsInQueue`; `m_scheduled` and `m_reschedule` of each tasklet | `InsertTasklet`, `InsertTaskletToRunNext`, `RemoveTasklet`, the end of an iteration of `Run` |
| Schedule manager | `ScheduleManager.cpp`, `SchedulerModule.cpp` | `m_currentTasklet`, run type, task and time limit, `m_stopScheduler`, switch trap, nested flag | `Yield`, `Run`, `RunNTasklets`, `RunTaskletsForTime`, `Schedule`, `switch_trap` |
| Tasklet | `Tasklet.cpp`, `PyTasklet.cpp` | alive, blocked (and on which channel), paused, first run, tagged for removal, pending exception, pending kill, transfer flag and message, parent, block trap | `Insert`, `Remove`, `Setup`, `Run`, `SwitchImplementation`, `SwitchTo`, `Kill`, `ThrowException` |
| Channel | `Channel.cpp`, `PyChannel.cpp` | a list of blocked senders and one of blocked receivers, threaded through the tasklets; balance, preference, closing, closed | `Send`, `Receive`, `ClearBlocked`, `UnblockAllActiveChannels`, `Close`, `Open` |
| QueueChannel | `python/scheduler/__init__.py` | a deque in front of a channel | `send`, `send_throw`, `receive` |
| greenlet | external | which greenlet executes, who is whose parent, which have ended | `PyGreenlet_Switch`, `PyGreenlet_SetParent` |

Python code calls into C++ on the stack of its own greenlet. `Send` and
`Receive` put the caller on a channel's list and call `Schedule`/`Yield`;
`Yield` switches to the tasklet's parent (or, on main, runs the queue); `Run`
takes the next tasklet off the queue, makes itself its parent and calls
`SwitchTo`, which ends in `PyGreenlet_Switch`. There the C++ of the caller is
left in the middle and goes on when another greenlet switches back, perhaps
after many other calls have changed the queue, the lists and the flags. `Kill`,
`ThrowException`, `switch()` and `tasklet.run()` start further `Run` loops on
the stack of whoever calls them, all on the same queue.

What is hard: state read before a switch and used after it (`baseTasklet` and
`endTasklet` of `Run`, `this` in `SwitchTo`); the guess of `SwitchTo`, from five
flags, whether a tasklet has ended; error paths that unwind `Yield`, `Send` or
`Receive` half way; runs inside runs that share the manager's fields; two lists
threaded through the tasklets, each with a cached end and count.

### The control plane

| Part | Source | State | Operations |
|---|---|---|---|
| File transactions | `transaction.py`, `atomic.py` | the transaction directory with its journal (phase, before, after, applied), the destinations | `commit`, `recover_pending_transactions`, `recover_transaction` |
| Locks, subagent handoff | `locks.py`, `cli.py` | lock file with pid and nonce, lease file, `active_child` of the tasks | `FileLock.acquire/release`, `LeaseLock`, `subagent open/close/recover` |
| Evidence | `evidence.py` | `evidence.jsonl`, a hash chain, and `evidence-head.json`, its anchor | `append_evidence`, `rollback_last_evidence`, anchor repair |
| Task store | `state_store.py` | `state.json`, the anchor of the task, the anchor history, the current-task pointer | `create`, `mutate` (load, change, verify, save) |
| Workflow, assurance, review | `state_machine.py`, `state_store.py`, `assurance.py`, `review.py` | the task record: state, epoch, TDD cycles, receipts, gates, risks, audit | transitions, cycle, gate, risk, evidence, review and audit commands, finalization |
| Policy, scope, governance | `policy.py`, `scope.py`, `governance.py`, `discovery.py`, `precheck.py` | governance digest, compiled policy, write scope | `build_precheck`, `compile_contract`, `compile_write_scope`, `write_authorized`, managed writes |
| Installer, migration, modules | `codex_config.py`, `bootstrap.py`, `migration.py`, `runtime_migration.py`, `modules.py` | install journals, backups, module manifests | install, upgrade, uninstall, legacy adoption, layout migration, module actions |
| Laws, processes | `laws.py`, `process.py` | definitions, watcher thread, sandbox copy, child processes | `LawRunner.run`, `run_process` |
| Context ledger | `context_cache.py` | `context-ledger.json` and its lock | `record`, `record_external`, `record_log_summary`, `check` |

The commands of several processes meet in files. A mutation of a task takes the
task's lock, appends evidence to a ledger of its own, then replaces the task's
three files with a file transaction; all tasks share the transaction name
`task-state`, so that the save of one task may first have to recover what
another one's crash left. The workflow rests on the store (each mutation is
atomic as long as nobody crashes) and looks at the workspace, which is never
locked. Installer and modules use the same transactions on the project's own
files. Law runs and the context ledger only look at files that others edit.

What is hard: a crash between any two writes, also inside recovery and inside
rollback; a lock whose owner is dead; compensation (a lease is taken and the
change that needed it fails); receipts and digests that are built at one time
and recorded or used at another; files that change and change back between two
looks; one path with many spellings, and links put in the way between two looks.

### What makes each part correct

* Run queue: the links agree, the end is the end, the count is right, the order
  is the one the calls asked for, and the executing tasklet is never off it.
* Schedule manager and tasklet: control always comes back to main; nothing goes
  on from a wait without what it waited for; limits hold; `alive` and `blocked`
  say what the documentation says; no tasklet is lost.
* Channel: the lists are queues, balance counts them, at most one side waits,
  `closed` implies empty, a message is never overwritten.
* QueueChannel: nobody waits beside data, nothing is lost, repeated or reordered.
* File transactions: all files or none, whatever stops where.
* Locks and handoff: one holder; lease and task agree; no child in an audit.
* Evidence and store: what was acknowledged stays; a failure that can be taken
  back leaves no trace; nothing names a record that is not there; a crash is
  recovered from.
* Workflow: what is finalized was proven, reviewed and verified on the workspace
  that is finalized; no stored proof is out of date; a receipt that went out of
  date is no obstacle; history is not rewritten.
* Policy and scope: a grant is never for the user's work and belongs to one
  governance; policy packs only strengthen. Managed writes: none lands on the
  governance.
* Installer and modules: originals are kept and restored; user work survives.
* Laws and context: no silent change, no unearned pass, no stale "fresh", no
  lost entry.

`PROJECT.json` lists the hazards, each with its line and the properties that
would catch it going wrong.

## 2. The modules

### The scheduler

| Module | Models | Correspondence |
|---|---|---|
| `RunQueue` | the queue of `ScheduleManager.cpp` | `q` is a record of the link fields, the end, the count, `scheduled` and `resched`. Each member function is an operator on `q`; the actions are their callers in the order the code allows. `SelfRemove` says whether anybody calls `remove()` on the executing tasklet. |
| `RunOrder` | abstract: a sequence of tasklets | what the queue promises; `MCRunQueue` shows that `RunQueue` implements it (the sequence is a walk from main). |
| `Channel` | the lists, balance and close state of `Channel.cpp` | `bl` holds the fields, operators are the member functions. The actions are the points at which a tasklet blocks, is matched, is refused, is killed with `pending=True`, gives up or completes; `inside` is who is in the middle of a call and `transferArguments` whose message is set (`m_transferArguments`). |
| `ChannelFIFO` | abstract: two sequences per channel and the set of those served | first come, first served; whoever is interrupted leaves and is not served; `MCChannel` shows that `Channel` implements it (the sequence is a walk along `m_previousBlocked`). |
| `QueueChannel` | `QueueChannel` | look and act are two steps. On one thread no step of another tasklet comes between them; with `threads` any may, since `threading.Lock()` is created anew in each call. The base channel is two sequences. |
| `Scheduler` | one thread: manager, tasklets and channels, composed from the operators of `RunQueue` and `Channel` | see below; `MCScheduler` has the programs. |

`Scheduler` keeps the C++ stacks. `stack[t]` has one frame per C++ function of
tasklet `t` that waits for a callee (`run`, `switchTo`, `yield`, `send...`,
`receive...`, `kill`, `clear`, ...), with the local variables that it uses
afterwards; `ctl` says what the executing greenlet does next (Python code, a
call, a loop iteration, a return with or without an error); `err` is the pending
Python error. One action is the C++ between two calls: `CallSend` is the code of
`Send` up to its `Schedule`, `SendBlockedReturn` what follows it. `active` is the
greenlet that executes and `current` is `m_currentTasklet`. A `program` says
which tasklets main has set up, which calls Python code makes and how many; it
makes them in any order and from any tasklet, catches errors or not, and returns
when it likes.

Abstractions: a message is the number of the call that sent it and whether it
is an exception; an error is `TaskletExit`, some other error or the deadlock
error; wall-clock time is a free choice of "late" at each test of the time
limit. Names, call sites, telemetry and argument parsing are left out.

Restrictions, each at a state where the code dereferences a null pointer or
where two pieces of the model would have to be duplicated:

* `kill`, `throw`, `switch` and `run` are called on tasklets, not on main.
* `clear` and `unblock_all_channels` are not called while main is blocked on the
  channel (`Run(main)` would follow main's null `m_previous`).
* `CallBindAndSetup` sets up dead tasklets that are not blocked.
* `RunQueue!Return` is enabled when the front that `FRONT_PLUS_ONE` needs is
  there; `Tasklet::Run`, the one caller, has just inserted it.
* The operation names `remove_executing`, `insert_queued`, `interrupt_ancestor`,
  `nested_run_limited` and `run_self_flat` split off calls whose target is in a
  state the code handles wrongly (section 6). The programs leave them out, and
  the properties they break except them in their formulas (`BreaksQueue`,
  `LimitHonoured`).

### The control plane

| Module | Models | Correspondence |
|---|---|---|
| `FileTransaction` | `commit()` and recovery | one action per disk operation; `phase` is the journal, `made` the directory, `temp` a temporary file that a crash left. An exception may come at every step, also between the COMMITTED journal and its removal (`Raise`), in recovery and in the rollback itself (`GiveUp`); `late` says that what the journal calls COMMITTED is being taken back. A name is one lock, so it has one process. Contents are model values. |
| `AtomicFiles` | abstract: all files of a transaction change at one instant, and until the transaction is settled may be taken back one by one | `FileTransaction` implements it: a file under a pending journal is seen as recovery will leave it. |
| `FileLock` | `FileLock` | create, name the owner, inspect, unlink and release are steps; an owner is the serial number of a command, which stands for pid, start time and nonce. `robbed` records that an unlink hit another lock than the one inspected. |
| `Subagent` | `subagent open/close/recover`, `LeaseLock`, transitions | extends `FileLock` with the lease file and the tasks; the compensations of `cli.py` are steps; the change of the task that they answer may fail, and so may the write of the lease (`unwritten`). |
| `EvidenceLedger` | `evidence.py` | ledger and anchor as two files; a record is its serial number, which stands for its digest. |
| `TaskStore` | `mutate` and `_save_locked` | extends `EvidenceLedger`; a file is the revision it belongs to; the journal of the save is pending, done or gone, its phases are `FileTransaction`'s. Errors come at every step: in a check or a write (`Raise`, taken back by the rollback and by `on_failure`), inside `append_evidence` (`AppendFails`), in the rollback of the files (`RevertFails`, after which `on_failure` runs all the same), in the rollback of the evidence (`UndoFails`), between the removal of the journal and of its directory (`ClearFails`). `hurt` records which of those that nothing takes back have struck a task. |
| `TaskWorkflow` | transitions, receipts, gates, audit | one task record; a workspace digest is the number of the edit that made it, a cycle digest is the cycle. Evidence is a note, a command's or external (`verified-observation` counts as the former, and an external source as one within its time to live). `drafts` are receipts and cycles that were built and not yet recorded; `returned` says that somebody took the workspace back to an earlier content. Mutations exclude one another (as `TaskStore` shows). |
| `ManagedWrite` | `atomic_write_bytes`, `durable_unlink` and `assert_mutation_allowed`, their guard | a path is the sequence of its parts as spelled, `Stored` the name the disk keeps, `Lead` where it leads through links; `Fold` is `casefold`. Check, check again and replace are steps, between which links appear and go. |
| `WriteControl` | policy, scope, precheck, `write_authorized` | uses the paths of `ManagedWrite`. The precheck is a sequence of steps between which user and governance edits happen; git may fail, or its work tree (`top`) begin above the project. `Ask` is an agent that is told it may write; that the agent then writes there is its own doing, and no code of the repository asks. |
| `ModuleRegistry` | manifests and declared write roots of `modules.py` | predicates on manifests, used by `Installer`. |
| `Installer` | install, uninstall, adoption, migration, module actions | plan, lock, plan again, save originals, commit; a commit is one step, as `AtomicFiles` promises. A content is the user's part and the managed part; a hash is the content. A backup's name is the adapter, whose directory it is in, and a number that stands for the `uuid4` of the code. `prior` is the journal that an install read under the lock. `first` is what a file held before any install, legacy ones included; `over` are the adapters with an install that went past a journal it had not read. |
| `WatchedFiles` | files that others edit | bytes and stat identity. |
| `LawRunner` | `LawRunner.run`, watcher, sandbox, `run_process` | on POSIX; what commands do is arbitrary. |
| `ContextLedger` | `context_cache.py` | hash, lock, hash again and rewrite are steps. |
| `Observations` | | `LawRunner` and `ContextLedger` over the same edited files. |

`QueueProofs` (about `RunQueue` and `QueueChannel`), `ChannelProofs`,
`FileTransactionProofs`, `SubagentProofs`, `TaskStoreProofs`,
`TaskWorkflowProofs`, `WorkspaceProofs` (about `ManagedWrite`, `WriteControl` and
`Installer`, which guard and change the project's own files) and `ObservationsProofs` hold the
proofs (section 5).

## 3. The runs

| Run | Instance | Properties |
|---|---|---|
| `run_queue` | 4 tasklets, every sequence of calls but `remove()` on the executing tasklet | `QueueOK` (links, end, count, current tasklet queued); implements `RunOrder` (`OrderKept`) |
| `channel` | 4 tasklets, 2 channels, every sequence of calls | `ListsOK` (links, balance, one side, closed is empty); implements `ChannelFIFO` (`FirstComeFirstServed`) |
| `queue_channel` | 3 users, 3 messages, one thread and several | `NobodyWaitsOnOneThread`, `QueueKeepsOrder`, `EachMessageOnce` |
| `scheduler` | six kinds of programs, 2 or 3 tasklets, 1 or 2 channels, 3 to 5 calls | `QueueWellFormed`, `BlockedIsListed`, `NoneLost`, `WokenByTransfer`, `UnfinishedIsAlive`, `LimitHonoured`, `NoTransferOverwrite`, `ControlReturns` |
| `file_transaction` | 2 names, 3 files, 3 calls, 2 crashes, 1 outside edit, exceptions at every step | `JournalTells`, `RestsWhole`; implements `AtomicFiles` (`AllOrNothing`) |
| `subagent` | 3 processes, 2 tasks, 4 commands, 1 crash, errors in the write of the lease | `OneHolder`, `NoChildInAudit`, `HandoffAgrees` |
| `task_store` | 2 tasks, 3 commands, any number of errors that handlers take back, 3 faults (crashes and errors) that they do not | `AckedStays`, `FailureLeavesNoTrace`, `HeadIsRecord`, `MarkNamesRecord` |
| `task_workflow` | two writing tasks and a reading one, 2 epochs, 2 workspace contents, 1 cycle, 2 records, 1 draft | `FinalizedIsProven`, `StaleReceiptsNeverBlock`, `ProofsAreCurrent`, `CyclesOnlyGrow` |
| `write_control` | 18 spellings; either managed writes with a link that comes and goes, or 4 contracts, 2 prechecks, 1 governance edit, 2 tops of the git work tree | `GovernanceKept`; `UserWorkKept`, `GrantedUnderOneGovernance`, `PacksStrengthen` |
| `installer` | 2 processes, 2 adapters, 7 files, 5 module registries, 2 releases, 3 operations | `OriginalsKept`, `UninstallRestores`, `UserWorkSurvives` |
| `observations` | 2 files, 2 edits, one list of 4 laws, 2 recorders | `NoSilentChange`, `PassIsEarned`, `FreshWasCurrent`, `NoEntryLost` |
| `recover_coherently` | as `task_store`, 4 commands and 2 faults | `RecoversCoherently`, violated (section 6) |

The programs of `scheduler`: `Nesting` (three tasklets that send, receive, raise
and run the queue from within each other), `Flat` (nested tasklets off: every
operation on the queue, limited runs), `Interrupting` (switch, kill and throw,
pending or not), `KillingAll` (kills and clears of waiting tasklets on two
channels), `LeavingBehind` (receives that are interrupted after the message has
been handed over) and `Refusing` (traps and closed channels). The properties
except, in their formulas, what the code is known to break (section 6):
`QueueWellFormed` programs with the calls of `BreaksQueue`, `BlockedIsListed`
those that throw, `NoneLost` those that switch, `LimitHonoured` those with limited
runs inside limited runs, `ControlReturns` those that clear; `UnfinishedIsAlive`
is about nested tasklets off, and `NoTransferOverwrite` excepts the message that
an interrupted receive has left behind, which the run reaches.

**Bounds.** `RunQueue` and `Channel` have no bound but their sets: their runs
are complete for four tasklets. Four is enough for a first, a last and two
middle positions, so that every branch of the unlinking code meets a tasklet
whose neighbours are themselves neighboured. In `Scheduler` the bound is the
number of calls Python code makes; the C++ that they cause is not bounded, and
when the calls are used up main still runs what is queued, so that no behaviour
ends with runnable tasklets. Four calls are enough for a block, a match, an
interrupt of either side and the call after it, five for another transfer to the
same tasklet. `MaxSends` bounds the messages
of `QueueChannel`: with three, one can be in the deque, one handed over and one
under way.

In the control plane the bounds count what the environment does: commands,
crashes, outside edits, releases. Errors that a handler answers are not counted.
Two crashes let recovery crash and be recovered from; with three faults in
`TaskStore` a save can crash, its recovery fail, and the next command be struck
again; the transaction of two files can stop before, between and after
its writes; two tasks are needed for one save to recover another's. Three
processes let two reclaim what a third one left. Two contents of the workspace
separate "built on", "recorded on" and "finalized on"; two edits of a watched
file let it change and change back. `TaskWorkflow`'s `Uses` names, per task, the
states in which a run gives each command (the ones around which what was
recorded goes out of date); without it the commands that commute everywhere
multiply the states for nothing. Of the two writing tasks one is edited during its
implementation, the other has drafts of every kind. A behaviour of `Observations`
has either a law run or the ledger's users, since neither writes what the other
reads; one of `write_control` has either managed writes or prechecks, for the same
reason (`part` of `MCWriteControl`).

Symmetry is used where processes, tasks, tasklets or channels are
interchangeable and no liveness is checked (`channel`: all tasklets and all
channels; a refinement without fairness is a safety property). Deadlock is checked in `run_queue`, `channel` and
`scheduler`, where an explicit `Terminated` is the only way to stop; in the
other runs users may wait for ever in `receive`, or the bounded commands are
used up.

**Mutants.** Each property is paired with a variant of the code that breaks it
(definitions marked "Mutant").

**Fairness.** Only `Scheduler` states any: `FairSpec` is `WF_vars(Next)`, the
thread keeps executing. There is one thread and one actor at a time, so this
assumes nothing about the choices Python code makes and nothing about the
scheduler; `ControlReturns` (main executes again and again) follows from the
scheduler's own order. With the calls bounded, it says that no bounded number of
calls makes the C++ loop forever. The control plane's processes may stop at any
moment and nobody restarts them, so no progress of theirs is claimed.

## 4. What a reader may conclude

*Scheduler.* In the programs of section 3 queue, lists, flags and messages agree
whenever Python code can look, as far as the properties say and with what they
except. They do not agree after every call: `remove()` on an executing tasklet,
and with nested tasklets off `run()` on the caller itself, on a tasklet that waits
for the caller after `switch()` or a nested run, or under a switch trap, break
the queue, and a limited run inside a limited run lifts the limit. No program
makes these calls. With interrupts the queue survives and nobody goes on from a
wait without its message; some flags, and one message, do not survive
(section 6). `alive` is right for running tasklets as long as runs are not nested.

*Control plane.* A file transaction is atomic for whoever comes after recovery,
through crashes and exceptions at any step and crashes of the recovery, with one
exception: an error after the commit record takes the files back one by one, and
if that is interrupted, a COMMITTED journal over half of them stops every later
caller of the name. A task's acknowledged revisions and records survive. A
failing command leaves nothing behind, unless it is struck by something that no
handler takes back: a crash, an error between the two writes of
`append_evidence`, a rollback that fails itself, or an error once the journal is
unlinked. With a crash, the one shared transaction name makes a task lose its
history (section 6). What FINALIZE accepts was tested, falsified, reviewed and
verified; the proofs saw the audited workspace, and so did the tests and the
review unless somebody took the workspace back to an earlier content. A receipt
that went out of date is dropped and never in the way.

A managed write has one guard, which looks twice; no spelling, and no link that is
there at the second look, leads it to the governance, except a new name in another
case on a POSIX host that ignores case. The write scope is a different matter: it
protects what git named to the precheck, references and nested repositories, and
it protects them from an agent that asks `write_authorized`; nothing in the
repository asks. An install can be taken back, except over a legacy journal it did
not read and by an uninstall that waited while the adapter was installed anew. The
tools lose nothing of the user's, except where a module may write and the file has
a name that its isolated copy leaves out (section 6). A law run that passes was not
tampered with while it watched.

## 5. The proofs

Every theorem holds for all values of the constants that satisfy the named
assumptions: any finite set of tasklets, any number of processes, tasks, files
and messages, any bounds on commands, crashes and edits. TLC evaluates the
assumptions on the instances of section 3. Each specification has one invariant,
`IInv` (`InstallInv`, `DequeInv` where two share a module), one lemma per action
that says that the action keeps it, and the theorems that follow from it.

| Module | Theorem | Property | Under |
|---|---|---|---|
| `QueueProofs` | `QueueTypeCorrect` | `TypeOK`: `m_previousTasklet` and the current tasklet never dangle | `~SelfRemove` |
| | `QueueWellFormed` | `QueueOK` | `~SelfRemove` |
| | `QueueIsAnOrder` | `OrderKept`: the queue implements `RunOrder` | `~SelfRemove` |
| | `CountsAreEqual` | `CountsAgree` | `~SelfRemove` |
| `ChannelProofs` | `ListsAgree` | `ListsOK` | |
| | `ChannelsAreFair` | `FirstComeFirstServed`: the lists implement `ChannelFIFO` | |
| `QueueProofs` | `NobodyWaits`, `OrderIsKept`, `MessagesOnce` | `NobodyWaitsOnOneThread`, `QueueKeepsOrder`, `EachMessageOnce` | |
| `FileTransactionProofs` | `NothingTorn` | a destination is old, new or edited; half of a transaction is never without its journal | |
| | `JournalIsTrue`, `RestsAreWhole` | `JournalTells`, `RestsWhole` | |
| | `TransactionsAreAtomic` | `AllOrNothing`: transactions implement `AtomicFiles` | |
| `SubagentProofs` | `LockExcludes`, `AuditHasNoChild`, `HandoffsAgree` | `OneHolder`, `NoChildInAudit`, `HandoffAgrees` | |
| `TaskStoreProofs` | `AnchorNamesRecord`, `StateNamesRecord`, `AcknowledgedStays`, `FailuresLeaveNoTrace` | `MarkNamesRecord`, `HeadIsRecord`, `AckedStays`, `FailureLeavesNoTrace` | |
| `TaskWorkflowProofs` | `WorkflowTypeCorrect`, `FinalizedTasksAreProven` | `TypeOK`, `FinalizedIsProven` | |
| | `ReceiptsNeverBlock`, `StoredProofsAreCurrent`, `CyclesGrow` | `StaleReceiptsNeverBlock`, `ProofsAreCurrent`, `CyclesOnlyGrow` | |
| `WorkspaceProofs` | `GovernanceIsKept` | `GovernanceKept`, of managed writes | names are kept up to case |
| | `OneGovernance`, `PacksOnlyStrengthen`, `UserWorkIsKept` | `GrantedUnderOneGovernance`, `PacksStrengthen`, `UserWorkKept` | names are kept up to case |
| | `InstallTypeCorrect`, `OriginalsAreKept`, `UninstallGivesBack` | `InstallTypeOK`, `OriginalsKept`, `UninstallRestores` | governed blocks |
| | `ToolsKeepUserWork` | what a tool changes of the user's is kept, backed up, or declared by the module that changes it | governed blocks |
| `ObservationsProofs` | `ChangesAreNoticed`, `PassesAreEarned`, `FreshIsCurrent`, `EntriesStay` | `NoSilentChange`, `PassIsEarned`, `FreshWasCurrent`, `NoEntryLost` | |

The modules that have a `TypeOK` also prove it (`TypeCorrect`).

**Conditions.** `~SelfRemove`: nobody calls `remove()` on the executing tasklet;
without it the queue breaks (section 6). `ManagedWrite` assumes that the disk
keeps a name inside the root, without `..`, as it is spelled up to case
(`StoredAssumption`), and of `casefold` that it maps `.agents` and `AGENTS.md` as
it does (`FoldAssumption`). `WriteControl` assumes that paths are sequences of
parts (`PathsAssumption`), also without their `.` parts (`CollapseAssumption`),
and that git names a file by the place it lies in (`GitAssumption`). The other assumptions say that a name for
nothing (`Null`, `NoFile`, `NoLease`, `NoJournal`, ...) is none of the things,
that the targets of two transactions, and the files of two adapters, are
disjoint, and that sets are finite where the code counts. `GovernedBlocks`: the
files that carry a marked block (`AGENTS.md`) are governed, as `governance.py`
has it; an install of them is refused at its commit.

**The run queue.** A good queue has its types, agreeing links, the right end, the
right count, and is `Ranked`: the nodes can be numbered so that `m_next` always
leads upwards. The last part is the strengthening. `RemoveTasklet` takes a
tasklet whose neighbours are equal for one that is not queued; on a cycle of two
it would leave the tasklet linked and the count would be wrong. Agreement of the
links alone does not exclude such a cycle, an ordering does. `CurrentIsQueued` is
needed as well, since `InsertTaskletToRunNext` links behind the current tasklet.
One lemma per member function (`InsertGood`, `RunNextGood`, `RemoveGood`,
`UnqueueGood`, `AfterFrontGood`, `RequeueGood`) takes good queues to good queues.
For the refinement a second invariant, `Ordered`, says that a sequence without
repetitions lists the queue: `m_next` leads from each of its places to the next.
Linking behind a place is `InsertAt` on that sequence, unlinking is `RemoveAt`,
and the three calls of the `FRONT_PLUS_ONE` exchange amount to one `InsertAt`
(`AfterFrontLists`). `WalkIs` connects the sequence with the walk of
`GetCalculatedTaskletCount`, which is a recursive function: the sequence
satisfies its equation, and two solutions have no smallest place at which they
differ.

**Channels.** Behind each blocked list there is a sequence that the links spell
out in both directions, that holds exactly the tasklets blocked there, and whose
length is the balance up to its sign (`Good`); on one side of a channel nobody
waits (`Sided`), a closed channel is closing and empty (`Shutting`), who is
blocked is inside the call that blocked it (`Calling`), and a blocked sender
holds its message while a blocked receiver has none (`Held`). The last two are
what makes `RemoveTaskletFromBlocked` harmless when it is called a second time on
the error path. `ChainIs` is `WalkIs` for `m_previousBlocked`.

**QueueChannel.** A message is on its way, in the deque, with a waiting sender or
delivered, and in one of these only (`Split`); on one thread the look of `send`
and `receive` is still true when they act (`OneThread`).

**File transactions.** For each name, what its process has done so far (`PlaceOK`:
phase, directory and position agree with the program counter) and what its files
therefore hold (`ContentsOK`: a prefix is new, the rest old, edits excepted; under
a COMMITTED journal all is new, unless it is `late`, that is, an exception after
the commit record is taking the files back or did). Names do not disturb each
other as their files are disjoint. For the refinement, a file under a pending
journal is seen as recovery will leave it; the write of the COMMITTED journal is
then the one step that makes anything new visible, the removal of the journal
settles the transaction, and a late exception shows as files taken back while it
is open, which `AtomicFiles` allows and a settled transaction does not.

**Locks and handoff.** Until an unlink hits a lock it had not inspected, a holder
is the owner that the lock file names, a serial number is not reused, and an owner
that was found dead is dead (`LockInv`). Without crashes, what a command has done
of lease and task follows from its program counter (`HandoffInv`): a lease is
followed by the child of its task, or its write failed and nobody is a child
(`Follows`).

**Task store.** Per task: which record is minted, appended and anchored
(`LedgerPart`), and which the files name (`DiskPart`); what the journal would
restore is sound as well (`JournalPart`), so that a recovery at any time is
harmless, and a command inside the transaction has seen what the disk still holds
(`InsidePart`). A head that the files name is in the ledger (`Known`) and is
not the record that may still have to be taken back (`Spared`), unless a failed
rollback or a late error struck the task (`Excused`), which is the exception that
`HeadIsRecord` states.
`FailureLeavesNoTrace` needs a second invariant on top (`TraceInv`), per task and
as long as nothing that no handler takes back has struck it.

**Workflow.** FINALIZE compares the proofs with the audited workspace and the
receipts with the candidate, and nothing compares the candidate with the
workspace. That they are one follows from the order of events, which the
invariant records: a review counts the evidence it has seen, so that every proof
is older than the review, and the review's diff is that of the candidate and was
taken from the workspace. As long as no content returns, workspaces are ordered
by age; hence audited = proof's workspace <= review's diff = candidate <= audited.
The rest of `IInv` says of the gate that its proof is younger than its
definition and of this epoch (`ProofsOK`), of a cycle that it holds nothing ahead
of its stage (`CyclesOK`; `CyclesGrow` rests on it, since the code compares stages
only), of a stored or drafted review that it saw the evidence it counts (`SeenOK`,
`DraftsOK`), that what every save checks is so of the stored task at any time
(`SaveAccepts`), and of a task that is being finalized that what FINALIZE checked
still holds (`Proven`). `ReceiptsNeverBlock` is about the step that drops receipts:
one that stays was valid before and is about what has not changed
(`ReceiptsDropped`), so that with the new proofs or cycles (`AppliedIs`,
`WithCycleIs`) the save accepts the task.

**Installer.** `InstallInv`: whoever is past the lock and before the unlock is
named by it (`LockOK`). No backup has a number that is still to be given
(`NamesOK`), and backups of two adapters never share a name, so that what one
process removes is nobody else's. A journal's record agrees with its backup,
and with `first` unless the adapter is in `over` (`JournalOK`, `Kept`); `first`
is set once and also by a legacy install, whose originals it is (`LegacyOK`); what was installed holds nothing of the user's that the
original does not hold too (`RecordOK`), which is why an uninstall loses nothing.
A legacy journal stands only where there is no other. What a process
carries from one step to the next is still true where the code relies on it
(`DoingOK`): a journal that an install read under the lock stands until its
commit, and the backups it made hold what it is about to replace.
`OriginalsAreKept` follows from `JournalOK`; an uninstall that read the journal of
an earlier install is what `ReadThisInstall` excepts.

**Managed writes.** `WInv`: what the last check found of an operation still holds
until a link appears (`late`), and then the operation lands where its name is
kept. `..` and links are refused, so that the name is the spelled one up to case,
which the guard compares as the host does.

**Write control.** The precheck carries the edition of the governance it began
with and what git told it, which includes the user's files when the work tree
begins at the root (`Told`); each later step compares or passes them on (`PreOK`,
`PolicyOK`, `ScopeOK`, `GrantOK`). `PacksOnlyStrengthen` compares two compilations:
more packs bring more classes (`MoreClasses`), and more classes more gates and no
weaker mode (`MorePacks`).

**Laws, context.** The watcher has its first snapshot before it looks for
changes, and what it missed would show in the stat identity, which no edit
restores (`WatchOK`); the verdicts given so far are those of a prefix of the laws
(`LawsOK`). The ledger that a recorder will save is the one on disk plus its
entry, since it read it under the lock (`RecOK`), and a check remembers which
comparison saw what (`CheckOK`).

**Only model-checked.** `ControlReturns`, which is liveness. The invariants of
`Scheduler`: none of them holds of every program, since each of section 6's
disagreements about the scheduler breaks one. They hold of the programs of the
run, and TLC finds them true of flat programs (nested tasklets off) with two
tasklets and six calls, or three and five. A theorem would have to be about such
programs, from an invariant on the C++ stacks. `UserWorkSurvives` in full: which
file a module's own command changed is not what the code compares, since the
commit compares contents by value, and a file that changed and changed back
passes for unchanged; `ToolsKeepUserWork` is what holds always. Beyond the provers
are also statements about what a recursive definition computes for every input in
general; the two walks are proved through their equations, as described above.

## 6. Disagreements

### Kept as a run

`recover_coherently`: a mutation of a task loads it without recovering a pending
`task-state` transaction, and its save reads the prior anchor and the expected
digests from the disk once more (state_store.py:882-893). A save of task 1
crashes between its last file and the commit record; the next mutation of task 1
loads that uncommitted revision 1; a save of task 2 recovers the name and takes
task 1 back to revision 0; task 1 then plans from revision 0 and commits
revision 2. Its anchor history lacks revision 1, and every later load refuses the
task.

### Met while modelling: the scheduler

Each can be reproduced with `MCScheduler` by a program with the operations named
(two tasklets, one channel, 3 to 6 calls), or as said.

* `remove()` on the executing tasklet nulls its links; `Run` then stores null in
  `m_previousTasklet` (ScheduleManager.cpp:541-545; `RunQueue` with `SelfRemove`).
* With threads, `QueueChannel.send` queues data beside a waiting receiver, and a
  sender can block in the base channel, since the lock is new in each call
  (`__init__.py:34`, `:38`; `NobodyWaitsBesideData`).
* After `switch()`, the caller can end up alive and neither scheduled, blocked
  nor paused (Tasklet.cpp:252, 387).
* A receiver killed while it yields to the sender keeps its message; the next
  transfer overwrites it (Channel.cpp:259, Tasklet.cpp:670; `run`, `send`,
  `receive`, `kill_pending`, preference SENDER, 5 calls). No kill is needed when
  main is the receiver: its yield also fails when another tasklet raises an error
  (6 calls). The programs `LeavingBehind` get there, and `NoTransferOverwrite`
  excepts the message so left behind.
* With nested tasklets off, `run()` on a tasklet that itself waits for the caller
  (the caller was started by its `switch()` or nested run) moves it behind the
  caller, and the `FRONT_PLUS_ONE` of `Run` follows a front that is no longer
  there (ScheduleManager.cpp:561-578, Tasklet.cpp:547; `switch` or `nested_run`,
  `tasklet_run`).
* With nested tasklets off, a `run()` that a switch trap refuses leaves the
  caller's `FRONT_PLUS_ONE` request standing. When the other tasklet is then
  removed and the caller ends, `Run` follows a null front
  (ScheduleManager.cpp:561-578; `run`, `switch_trap`, `tasklet_run`, `remove`).
* `clear()` repeats `Kill` on a listed tasklet that is marked dead, forever
  (Channel.cpp:535; `clear` after `nested_run`).
* `alive` becomes false inside a nested run (`run`, `schedule`, `nested_run`):
  Tasklet.cpp:427 marks the parent that a yielding child resumed from.
  PyTasklet.cpp:672 says "True while a tasklet is still running".
* A tasklet whose `send` was refused, or that was killed while it yielded to its
  receiver, stays alive after it has ended: Channel.cpp:57 and :126 return with
  `m_transferInProgress` set.
* An uncaught `throw()` leaves its target flagged as blocked, on no list
  (Tasklet.cpp:869); `throw(pending=True)` unblocks its target and leaves it on
  the channel's list until it runs (Tasklet.cpp:831).
* Interrupting a tasklet that waits inside a nested run, or throwing into one
  that has ended and is still marked alive, leaves `m_currentTasklet` wrong:
  ScheduleManager.cpp:596 does not set it back. In the second case the wrong
  current tasklet has no parent, and a `schedule()` on main follows the null
  pointer.
* A nested `run_n_tasklets` lifts the limit of the outer one
  (ScheduleManager.cpp:414; `nested_run_limited`).
* `tasklet.run()` on the executing tasklet with nested tasklets off makes the
  queue a cycle (Tasklet.cpp:547; `run_self_flat`).
* `m_killPending` is never reset: a tasklet that caught its `TaskletExit` cannot
  be killed again (Tasklet.cpp:579, 611). A tasklet killed before its first run
  keeps the exception, and does not run when it is set up again (Tasklet.cpp:366).
* `kill(pending=True)` empties a closing channel without closing it
  (Tasklet.cpp:615), where PyChannel.cpp:228 says that closed is true "when
  close() has been called and the channel is empty".

### Met while modelling: the control plane

File transactions, locks, evidence:

* A crash between `mkdir` and the journal, or inside the write of the journal,
  leaves a directory that recovery refuses for good (transaction.py:145), where
  the docstring (transaction.py:64-66) and tests-to-impl/37 promise recovery.
* An exception after the commit record (transaction.py:168-182; scenarios.py:535
  injects one, "after_commit") rolls a committed transaction back. If that rollback
  is interrupted, half of the files is left under a journal that says COMMITTED;
  recovery then finds new contents missing and refuses, and with the one name
  `task-state` every task is blocked. The runs reach both, and the properties speak
  of `late` journals separately.
* A crash between the removal of the journal and that of its directory leaves a
  directory without a journal, which refuses later transactions (`FileTransaction`
  has it, `TaskStore` does not).
* A rollback of the files that fails (transaction.py:176-179) does not keep
  `on_failure` from removing the record (state_store.py:970-973): the state on disk
  names a record that is gone, until recovery. An error between the removal of
  journal and directory (transaction.py:170-182) has the same effect for good: the
  record is taken back and `state.json` keeps naming it. `HeadIsRecord` and
  `FailureLeavesNoTrace` except tasks so struck (`hurt`).
* When the lease file is created and the write of its payload fails
  (locks.py:227-234), `open` leaves before its compensation begins
  (cli.py:197-199): the lease blocks every later `open`, and `recover` refuses a
  lease without a child. A release that fails inside a compensation is not modelled.
* Between `inspect()` and `unlink()` a stale lock may be replaced by a live one,
  which is then removed (locks.py:131-134); two holders follow. `OneHolder`
  excepts these behaviours. A lock whose owner crashed before naming itself is
  never reclaimed (locks.py:91).
* After a crash between lease and task, or after a robbed lock, two tasks can
  have a child, where protocols/SUBAGENT.md:3 says "zero or one".
* A crash inside `rollback_last_evidence` can leave a ledger that neither loads
  nor is repaired, where evidence.py:384-386 speaks of "an extra, recoverable
  append".

Workflow:

* Re-entering IMPLEMENT or REMEDIATE after GREEN is authorised by the baseline of
  the old cycle (core/08:3). Aborting a cycle after its baseline cannot be
  recorded (core/06:14). BLOCKED entered from CREATED leads only to FAILED.
* `record_tdd_cycle` checks no state. A waived gate blocks IMPLEMENT until it is
  proven, which `StaleReceiptsNeverBlock` excepts. `finalize_audit` is not called by `audit complete`, although core/02:18
  says so. The validation of a falsification skips bindings that are `None` now.
* FINALIZE never compares the candidate with the audited workspace: with proofs
  made on one content, the review on a second and the audit on the first again, a
  task is finalized whose candidate is not what was audited
  (state_machine.py:299-326). `FinalizedIsProven` excepts workspaces that
  returned to an earlier content.

Policy, scope, discovery:

* Untracked user files, and files that become dirty after discovery, are not
  protected (core/00-charter.md:22, core/09:3); a failed or slow `git status`
  protects nothing (discovery.py:55); its paths are relative to the top level of
  the repository, the scope's to its root. The run reaches these cases;
  `UserWorkKept` speaks of what git named, and only when the two are the same
  directory.
* `write_authorized` is called by no production code, only by agents that choose to
  and by tests. A managed write passes `assert_mutation_allowed` alone
  (atomic.py:119-125), which protects the governing files and nothing else, and
  which some writers below `.aegis` do not reach, since they pass no root
  (`evidence.py`, `context_cache.py`).
* A link that is put in the way after the last check is followed; on a POSIX host
  that ignores case the guard compares exactly, and a name in another case that
  does not exist yet passes it. An `AGENTS.md` in a directory that the search leaves
  out is not among the identities that are compared (governance.py:53).
* `compile_contract` can keep prior classes, but its callers (cli.py:283, :293) pass
  none: a second precheck compiles the classes anew and may weaken them. Within one
  contract a pack that brings a class takes the FEATURE default, and its test-first
  mode, away from a task without classes; `PacksStrengthen` excepts it.
* An immutable boundary without a wildcard denies that one path only
  (scope.py:100); `_normalize(".")` raises an `IndexError` (scope.py:47); a
  leading `./` hides `.github` from `_classify_paths`.
* The governance may be edited between the grant and the write.

Installer and modules:

* An install of codex over a legacy journal ignores it as prior record, saves the
  installed content as the original and then removes the legacy journal
  (codex_config.py:344, :362): the true original is lost. The run reaches it;
  `OriginalsKept` and `UninstallRestores` except the adapters in `over`.
* The isolated copy leaves out every `runtime`, `transactions` and `.git`
  directory (modules.py:382), the snapshots only those of the framework: a user's
  file below such a directory looks deleted by the command, and is removed when the
  module may write there. The run has such a file; `UserWorkSurvives` excepts it.
* Bootstrap install, uninstall, upgrade and scaffold with `apply` are always
  refused, as their destinations are governed; the codex install of the command
  line never applies; the codex module declares a state directory that is not the
  one it uses; a crash leaves orphan backups.
* An uninstall uses the journal it read before the lock (codex_config.py:371).
  When the adapter is uninstalled and installed anew while it waits, and the
  installed contents are the same, it restores the originals of the earlier
  install and leaves the backup of the later one.
* An install that reads no journal, and commits after an upgrade has adopted a
  legacy one, overwrites the adopted journal: the upgrade takes no adapter lock
  (migration.py:287-323). This too puts the adapter in `over`.
* The commit of a module's action compares contents by value, so that a file the
  user changed and changed back meanwhile counts as unchanged (modules.py:389-419).

Laws, processes, context:

* A definition edited and restored between the first digest and the start of the
  watcher goes unnoticed (laws.py:342), where tests-to-impl/20:11 wants it
  detected. `run_suite.py` drops the result
  `framework.laws.immutable_during_run`.
* `_kill_tree` does not kill the group when its leader exits between the timeout
  and `poll()` (process.py:127). Background children with redirected output
  survive a normal exit.
* The content branch of `check` may call an entry fresh although file and
  dependency never were current at the same moment.
* `execute_command_evidence` does not see a change that was taken back.

## 7. Not modelled

* Scheduler: several threads with a schedule manager each, channels shared
  between them, and the teardown of a thread; reference counts; callbacks, which
  run Python code inside `Send`, `Receive` and `SetCurrentTasklet`;
  `bind`/`unbind` of living tasklets and destruction; the C API capsule, argument
  parsing, getters and type registration; telemetry and call-site metadata.
* Control plane: `StateStore.save()` and the re-validation of finalized tasks at
  load; schema migration of task files; `final_audit.py`; change and semantic
  budgets (`controls.py`); the merge of TOML documents; the watcher and process
  code for Windows; two edits within one tick of the file system's clock; the
  time-to-live of external sources; manifests, release packaging, reports and the
  law tests, which are sequential comparisons of files or tests of the rest.
* `bevy_defer`, which the scheduler does not call; the build and vendored ports.

## 8. Plan

Done: the scheduler of one thread, channels, `QueueChannel`; the control plane's
transactions, locks and handoff, store, workflow, write control, installer, law
runner and context ledger; three refinements, all three proved; proofs for ten
of the eleven specifications.

Next: `Scheduler` for flat programs (nested tasklets off). That its composed
steps keep the queue and the lists well formed follows from the lemmas about the
operators in `QueueProofs` and `ChannelProofs`; what is missing is an invariant on
the C++ stacks that says which tasklet each pending frame will requeue: a tasklet
that waits has one yield above the frame of the call it made, main has at most one
run loop.

Should a later extension have room for it: several schedule managers sharing
channels (`InsertTasklet` counts in the caller's manager,
ScheduleManager.cpp:211), reference ownership, and callbacks.
