--------------------------- MODULE SubagentProofs ---------------------------
(***************************************************************************)
(* Machine-checked proofs about the control lock (FileLock) and the        *)
(* commands that run under it (Subagent), for every set of processes and   *)
(* tasks and every number of commands and crashes.                         *)
(***************************************************************************)
EXTENDS Subagent, FiniteSetTheorems, TLAPS

(***************************************************************************)
(* The lock.  Until an unlink has robbed somebody, a process that has      *)
(* created the lock file finds it as it left it, and one that is about to  *)
(* reclaim has seen an owner that nobody alive has the name of.            *)
(***************************************************************************)
OwnersFresh ==
    /\ \A p \in Procs : me[p] <= started
    /\ \A p \in Procs : at[p] # "out" => me[p] > 0
    /\ \A p, q \in Procs : me[p] = me[q] => p = q \/ me[p] = 0

FileIsMine(p) ==
    /\ at[p] = "write" => lock = [by |-> me[p], text |-> FALSE]
    /\ at[p] \in {"held", "unlink"} => lock = [by |-> me[p], text |-> TRUE]

SeenIsDead(p) ==
    at[p] = "reclaim" =>
        /\ seen[p] <= started
        /\ \A q \in Procs : at[q] # "out" => me[q] # seen[p]

LockInv ==
    /\ LockTypeOK
    /\ OwnersFresh
    /\ lock # NoFile => lock.by <= started
    /\ ~robbed => \A p \in Procs : FileIsMine(p) /\ SeenIsDead(p)

(* A step of the lock, as the commands and the transitions take them.      *)
LiveAct(p) ==
    \/ Acquire(p) \/ TryCreate(p) \/ WriteRecord(p) \/ Look(p) \/ Reclaim(p)
    \/ CheckOwner(p) \/ Unlock(p)
    \/ Start(p) /\ UNCHANGED <<lock, at, seen, robbed>>

LockAct(p) == LiveAct(p) \/ Die(p)

(* At the start there is no lock file and nobody has asked for it.         *)
LEMMA LockInvInit == LockInit => LockInv
<1> SUFFICES ASSUME LockInit PROVE LockInv OBVIOUS
<1>1. LockTypeOK
  <2>1. robbed \in BOOLEAN BY DEF LockInit
  <2>2. started \in 0..MaxCommands /\ 0 \in 0..MaxCommands BY CommandsAssumption DEF LockInit
  <2> QED BY <2>1, <2>2 DEF LockInit, LockTypeOK, Stages
<1>2. OwnersFresh BY DEF LockInit, OwnersFresh
<1>3. \A p \in Procs : FileIsMine(p) /\ SeenIsDead(p)
  BY DEF LockInit, FileIsMine, SeenIsDead
<1> QED BY <1>1, <1>2, <1>3 DEF LockInit, LockInv

(* Every step of the lock keeps its variables in their types.              *)
LEMMA LockTypeStep ==
    ASSUME LockTypeOK, OwnersFresh, NEW p \in Procs, LockAct(p) PROVE LockTypeOK'
<1> USE CommandsAssumption, NoFileAssumption DEF LockTypeOK, Stages, Owners, LockFiles, Move
<1>1. CASE Acquire(p) BY <1>1 DEF Acquire, Start
<1>2. CASE TryCreate(p)
  <2>1. me[p] \in Owners BY <1>2 DEF TryCreate, OwnersFresh
  <2>2. [by |-> me[p], text |-> FALSE] \in LockFiles BY <2>1
  <2>3. lock' \in LockFiles \cup {NoFile} BY <1>2, <2>2 DEF TryCreate
  <2> QED BY <1>2, <2>3 DEF TryCreate
<1>3. CASE WriteRecord(p)
  <2>1. CASE lock = [by |-> me[p], text |-> FALSE]
    <3>1. me[p] \in Owners BY <1>3 DEF WriteRecord, OwnersFresh
    <3>2. lock' = [by |-> me[p], text |-> TRUE] BY <1>3, <2>1 DEF WriteRecord
    <3>3. lock' \in LockFiles BY <3>1, <3>2
    <3> QED BY <1>3, <3>3 DEF WriteRecord
  <2>2. CASE lock # [by |-> me[p], text |-> FALSE]
    BY <1>3, <2>2 DEF WriteRecord
  <2> QED BY <2>1, <2>2
<1>4. CASE Look(p)
  <2>1. lock # NoFile => lock.by \in 0..MaxCommands OBVIOUS
  <2> QED BY <1>4, <2>1 DEF Look, ProvenDead
<1>5. CASE Reclaim(p) BY <1>5 DEF Reclaim, Unlinks
<1>6. CASE CheckOwner(p) BY <1>6 DEF CheckOwner
<1>7. CASE Unlock(p) BY <1>7 DEF Unlock, Unlinks
<1>8. CASE Die(p) BY <1>8 DEF Die
<1>9. CASE Start(p) /\ UNCHANGED <<lock, at, seen, robbed>> BY <1>9 DEF Start
<1> QED BY <1>1, <1>2, <1>3, <1>4, <1>5, <1>6, <1>7, <1>8, <1>9 DEF LockAct, LiveAct

(* Two commands never bear the same name.                                  *)
LEMMA OwnersFreshStep ==
    ASSUME LockTypeOK, OwnersFresh, NEW p \in Procs, LockAct(p) PROVE OwnersFresh'
<1> USE CommandsAssumption DEF OwnersFresh, Move
<1>0. me \in [Procs -> Int] /\ started \in Int /\ at \in [Procs -> Stages] /\ started >= 0
  BY DEF LockTypeOK
<1>1. CASE Start(p) /\ (Move(p, "try") \/ UNCHANGED at)
  BY <1>0, <1>1 DEF Start
<1>2. CASE UNCHANGED <<started, me>> /\ at[p] # "out" /\ \E s \in Stages : Move(p, s)
  BY <1>0, <1>2
<1>3. Acquire(p) => Start(p) /\ Move(p, "try") BY DEF Acquire
<1>4. TryCreate(p) \/ WriteRecord(p) \/ Look(p) \/ Reclaim(p) \/ CheckOwner(p)
         \/ Unlock(p) \/ Die(p)
      => UNCHANGED <<started, me>> /\ at[p] # "out" /\ \E s \in Stages : Move(p, s)
  BY DEF TryCreate, WriteRecord, Look, Reclaim, CheckOwner, Unlock, Die, Stages
<1> QED BY <1>1, <1>2, <1>3, <1>4 DEF LockAct, LiveAct

(* What the lock file and the stages say of each other outlives a step,    *)
(* unless the step robs.                                                   *)
LEMMA FileIsMineStep ==
    ASSUME LockInv, NEW p \in Procs, LockAct(p), ~robbed', NEW q \in Procs
    PROVE  ~robbed /\ FileIsMine(q)' /\ SeenIsDead(q)'
<1> USE CommandsAssumption, NoFileAssumption DEF Move
<1>0. /\ me \in [Procs -> 0..MaxCommands] /\ started \in 0..MaxCommands
      /\ at \in [Procs -> Stages] /\ seen \in [Procs -> 0..MaxCommands]
      /\ lock \in LockFiles \cup {NoFile} /\ OwnersFresh
      /\ lock # NoFile => lock.by <= started
  BY DEF LockInv, LockTypeOK
<1>1. ~robbed BY DEF LockAct, LiveAct, Acquire, TryCreate, WriteRecord, Look, Reclaim, Unlinks,
                     CheckOwner, Unlock, Die
<1>2. \A r \in Procs : FileIsMine(r) /\ SeenIsDead(r) BY <1>1 DEF LockInv
<1>3. \A r \in Procs : at[r] \in {"write", "held", "unlink"} => lock # NoFile /\ lock.by = me[r]
  <2> SUFFICES ASSUME NEW r \in Procs, at[r] \in {"write", "held", "unlink"}
               PROVE  lock # NoFile /\ lock.by = me[r] OBVIOUS
  <2>1. me[r] \in Owners BY <1>0 DEF OwnersFresh, Owners
  <2>2. lock = [by |-> me[r], text |-> TRUE] \/ lock = [by |-> me[r], text |-> FALSE]
    BY <1>2 DEF FileIsMine
  <2>3. [by |-> me[r], text |-> TRUE] \in LockFiles /\ [by |-> me[r], text |-> FALSE] \in LockFiles
    BY <2>1 DEF LockFiles
  <2>4. lock # NoFile BY <2>2, <2>3
  <2> QED BY <2>2, <2>4
<1>4. CASE Acquire(p) \/ (Start(p) /\ UNCHANGED <<lock, at, seen, robbed>>)
  <2>1. /\ lock' = lock /\ seen' = seen /\ started' = started + 1
        /\ me' = [me EXCEPT ![p] = started + 1] /\ at[p] = "out"
        /\ at' = [at EXCEPT ![p] = "try"] \/ at' = at
    BY <1>4 DEF Acquire, Start
  <2>2. FileIsMine(q)' BY <1>0, <1>2, <2>1 DEF FileIsMine
  <2>3. SeenIsDead(q)' BY <1>0, <1>2, <2>1 DEF SeenIsDead
  <2> QED BY <1>1, <2>2, <2>3
<1>5. CASE TryCreate(p)
  <2>1. FileIsMine(q)'
    <3>1. CASE lock = NoFile BY <1>0, <1>2, <1>3, <1>5, <3>1 DEF TryCreate, FileIsMine
    <3>2. CASE lock # NoFile BY <1>0, <1>2, <1>5, <3>2 DEF TryCreate, FileIsMine
    <3> QED BY <3>1, <3>2
  <2>2. SeenIsDead(q)' BY <1>0, <1>2, <1>5 DEF TryCreate, SeenIsDead
  <2> QED BY <1>1, <2>1, <2>2
<1>6. CASE WriteRecord(p)
  <2>1. FileIsMine(q)'
    <3>1. me[p] \in Owners /\ lock = [by |-> me[p], text |-> FALSE]
      BY <1>0, <1>2, <1>6 DEF WriteRecord, FileIsMine, OwnersFresh, Owners
    <3>2. lock' = [by |-> me[p], text |-> TRUE] BY <3>1, <1>6 DEF WriteRecord
    <3>3. q # p => at[q] \notin {"write", "held", "unlink"}
      BY <1>0, <1>3, <3>1 DEF OwnersFresh, Owners
    <3> QED BY <1>0, <1>6, <3>2, <3>3 DEF WriteRecord, FileIsMine
  <2>2. SeenIsDead(q)' BY <1>0, <1>2, <1>6 DEF WriteRecord, SeenIsDead
  <2> QED BY <1>1, <2>1, <2>2
<1>7. CASE Look(p)
  <2>1. FileIsMine(q)' BY <1>0, <1>2, <1>7 DEF Look, FileIsMine
  <2>2. SeenIsDead(q)'
    <3>1. CASE ProvenDead /\ at' = [at EXCEPT ![p] = "reclaim"] /\ seen' = [seen EXCEPT ![p] = lock.by]
      BY <1>0, <1>2, <1>7, <3>1 DEF Look, SeenIsDead, ProvenDead, Alive
    <3>2. CASE seen' = seen /\ at' \in {[at EXCEPT ![p] = s] : s \in {"try", "out"}}
      BY <1>0, <1>2, <1>7, <3>2 DEF Look, SeenIsDead
    <3> QED BY <1>7, <3>1, <3>2 DEF Look
  <2> QED BY <1>1, <2>1, <2>2
<1>8. CASE Reclaim(p)
  <2>1. \A r \in Procs : at[r] \notin {"write", "held", "unlink"}
    BY <1>0, <1>2, <1>3, <1>8 DEF Reclaim, Unlinks, SeenIsDead
  <2>2. FileIsMine(q)' BY <1>0, <1>8, <2>1 DEF Reclaim, FileIsMine
  <2>3. SeenIsDead(q)' BY <1>0, <1>2, <1>8 DEF Reclaim, SeenIsDead
  <2> QED BY <1>1, <2>2, <2>3
<1>9. CASE CheckOwner(p) \/ Die(p)
  <2>1. FileIsMine(q)' BY <1>0, <1>2, <1>9 DEF CheckOwner, Die, FileIsMine
  <2>2. SeenIsDead(q)' BY <1>0, <1>2, <1>9 DEF CheckOwner, Die, SeenIsDead
  <2> QED BY <1>1, <2>1, <2>2
<1>10. CASE Unlock(p)
  <2>1. \A r \in Procs : r # p => at[r] \notin {"write", "held", "unlink"}
    BY <1>0, <1>3, <1>10 DEF Unlock, OwnersFresh
  <2>2. FileIsMine(q)' BY <1>0, <1>10, <2>1 DEF Unlock, FileIsMine
  <2>3. SeenIsDead(q)' BY <1>0, <1>2, <1>10 DEF Unlock, SeenIsDead
  <2> QED BY <1>1, <2>2, <2>3
<1> QED BY <1>4, <1>5, <1>6, <1>7, <1>8, <1>9, <1>10 DEF LockAct, LiveAct

(* The lock's invariant outlives every step of the lock.                   *)
LEMMA LockInvStep ==
    ASSUME LockInv, NEW p \in Procs, LockAct(p) PROVE LockInv'
<1>1. LockTypeOK' BY LockTypeStep DEF LockInv
<1>2. OwnersFresh' BY OwnersFreshStep DEF LockInv
<1>3. (lock # NoFile => lock.by <= started)'
  <2>0. /\ me \in [Procs -> 0..MaxCommands] /\ started \in 0..MaxCommands
        /\ lock \in LockFiles \cup {NoFile} /\ OwnersFresh
        /\ lock # NoFile => lock.by <= started
    BY DEF LockInv, LockTypeOK
  <2>1. started <= started'
    BY <2>0, CommandsAssumption DEF LockAct, LiveAct, Acquire, Start, TryCreate, WriteRecord, Look, Reclaim, CheckOwner, Unlock, Die
  <2>2. lock' # NoFile => (lock # NoFile /\ lock'.by = lock.by) \/ (lock'.by = me[p])
    <3>1. CASE WriteRecord(p) BY <2>0, <3>1, NoFileAssumption DEF WriteRecord, LockFiles
    <3>2. CASE ~WriteRecord(p)
      BY <2>0, <3>2 DEF LockAct, LiveAct, Acquire, Start, TryCreate, Look, Reclaim, Unlinks, CheckOwner, Unlock, Die
    <3> QED BY <3>1, <3>2
  <2>3. me[p] <= started /\ started' \in Int /\ lock' \in LockFiles \cup {NoFile}
    BY <2>0, <1>1 DEF OwnersFresh, LockTypeOK
  <2> QED BY <2>0, <2>1, <2>2, <2>3, CommandsAssumption DEF LockFiles, Owners
<1>4. (~robbed => \A q \in Procs : FileIsMine(q) /\ SeenIsDead(q))' BY FileIsMineStep
<1> QED BY <1>1, <1>2, <1>3, <1>4 DEF LockInv

(* Two holders would both find their own name in the file.                 *)
LEMMA HoldersEqual ==
    ASSUME LockInv, ~robbed, NEW p \in Holders, NEW q \in Holders PROVE p = q
<1>1. [by |-> me[p], text |-> TRUE] = [by |-> me[q], text |-> TRUE]
  BY DEF LockInv, FileIsMine, Holders
<1>2. [by |-> me[p], text |-> TRUE].by = [by |-> me[q], text |-> TRUE].by BY <1>1
<1>3. me[p] = me[q] BY <1>2
<1>4. me[p] > 0 BY DEF LockInv, OwnersFresh, Holders
<1> QED BY <1>3, <1>4 DEF LockInv, OwnersFresh, Holders

(* So the lock's invariant implies that there is one holder.               *)
LEMMA LockInvOneHolder == LockInv => OneHolder
<1> SUFFICES ASSUME LockInv, ~robbed PROVE Cardinality(Holders) <= 1 BY DEF OneHolder
<1>1. \A p, q \in Holders : p = q BY HoldersEqual
<1>2. CASE Holders = {} BY <1>2, FS_EmptySet
<1>3. CASE Holders # {}
  <2>1. PICK p : Holders = {p} BY <1>1, <1>3
  <2>2. Cardinality(Holders) = 1 BY <2>1, FS_Singleton
  <2> QED BY <2>2
<1> QED BY <1>2, <1>3

(***************************************************************************)
(* The commands.  Where a command stands and where it stands with the      *)
(* lock go together; a transition in its save has its task's lock and a    *)
(* task without a child.                                                   *)
(***************************************************************************)
Handing == {"text", "mutate", "undo", "restore"}

PlaceOK(p) ==
    /\ step[p] \in {"idle", "save"} => at[p] = "out"
    /\ step[p] = "lease" => at[p] \in {"try", "write", "look", "reclaim", "held"}
    /\ step[p] \in Handing => at[p] = "held"
    /\ step[p] = "leave" => at[p] \in {"held", "unlink"}
    /\ step[p] \in {"lease", "leave"} \cup Handing => cmd[p] \in {"open", "close", "recover"}
    /\ step[p] = "save" => cmd[p] \in States /\ taskLock[task[p]] = p
    /\ step[p] = "undo" => cmd[p] = "open"
    /\ step[p] = "restore" => cmd[p] # "open"
    /\ step[p] \in {"lease"} \cup Handing =>
          mine[p] \in Owners \/ (cmd[p] = "recover" /\ step[p] = "mutate")

TaskLockOK(t) ==
    taskLock[t] # Nobody =>
        /\ step[taskLock[t]] = "save" /\ task[taskLock[t]] = t
        /\ child[t] = NoChild

(* The handoff, as long as nobody has crashed: the lock file names a live  *)
(* command, and the lease file and the children differ only as far as the  *)
(* command inside the lock has got.                                        *)
Childless == \A t \in Tasks : child[t] = NoChild
ChildIs(t0, id) == \A t \in Tasks : child[t] = IF t = t0 THEN id ELSE NoChild

(* The child of t0 is the one of lease id, or that lease has no child      *)
(* because its payload could not be written.                               *)
Follows(t0, id) == ChildIs(t0, id) \/ (id \in unwritten /\ Childless)

Agreed ==
    \/ lease = NoLease /\ Childless
    \/ /\ lease \in Leases
       /\ lease.text \/ lease.id \in unwritten
       /\ Follows(lease.task, lease.id)

HandingOK(p) ==
    IF cmd[p] = "open"
    THEN Childless /\ lease = [id |-> mine[p], task |-> task[p], text |-> step[p] # "text"]
    ELSE /\ lease = IF step[p] = "text" THEN [id |-> mine[p], task |-> task[p], text |-> FALSE]
                    ELSE NoLease
         /\ \/ mine[p] \in Owners /\ Follows(task[p], mine[p])
            \/ mine[p] = NoLease /\ Childless

NoReclaim ==
    /\ ~robbed
    /\ \A p \in Procs : at[p] # "reclaim"
    /\ lock # NoFile =>
         \E p \in Procs : at[p] \in {"write", "held", "unlink"} /\ lock.by = me[p]

HandoffInv ==
    crashes = 0 =>
        /\ NoReclaim
        /\ \A p \in Procs : step[p] \in Handing => HandingOK(p)
        /\ (\A p \in Procs : step[p] \notin Handing) => Agreed

(* The inductive invariant.                                                *)
IInv ==
    /\ TypeOK /\ LockInv
    /\ \A p \in Procs : PlaceOK(p)
    /\ \A t \in Tasks : TaskLockOK(t)
    /\ NoChildInAudit
    /\ HandoffInv

(* A step of one process.                                                  *)
StepOf(p) ==
    \/ \E c \in {"open", "close", "recover"}, t \in Tasks : Begin(p, c, t)
    \/ LockStep(p) \/ CreateLease(p) \/ WriteLease(p) \/ WriteFails(p) \/ ReleaseLease(p)
    \/ ForceClear(p) \/ Mutate(p) \/ Leave(p)
    \/ \E t \in Tasks, s \in States : BeginTransition(p, t, s)
    \/ SaveTransition(p) \/ Crash(p)

(* Whatever a command does, the lock sees one of its own steps or none.    *)
LEMMA StepIsLockAct ==
    ASSUME NEW p \in Procs, StepOf(p) PROVE LockAct(p) \/ UNCHANGED lockVars
BY DEF StepOf, Begin, LockStep, Acquiring, CreateLease, WriteLease, WriteFails, ReleaseLease, ForceClear,
       Mutate, Leave, BeginTransition, SaveTransition, Crash, LockAct, LiveAct, lockVars

(* So the lock's invariant outlives the step of a command.                 *)
LEMMA LockInvKept ==
    ASSUME LockInv, NEW p \in Procs, StepOf(p) PROVE LockInv'
<1>1. CASE LockAct(p) BY <1>1, LockInvStep
<1>2. CASE UNCHANGED lockVars
  BY <1>2 DEF LockInv, LockTypeOK, OwnersFresh, FileIsMine, SeenIsDead, lockVars
<1> QED BY <1>1, <1>2, StepIsLockAct

(* A lease just created, and a lease completed, are leases.                *)
LEMMA LeaseType ==
    ASSUME NEW i \in Owners, NEW t \in Tasks, NEW b \in BOOLEAN
    PROVE  /\ [id |-> i, task |-> t, text |-> b] \in Leases
           /\ [id |-> i, task |-> t, text |-> b] # NoLease
<1>1. [id |-> i, task |-> t, text |-> b] \in Leases BY DEF Leases
<1> QED BY <1>1, HandoffAssumption

(* The steps keep the variables in their types.                            *)
LEMMA TypeStep ==
    ASSUME IInv, NEW p \in Procs, StepOf(p) PROVE TypeOK'
<1>0. LockTypeOK' BY LockInvKept DEF IInv, LockInv
<1> USE <1>0, HandoffAssumption, CommandsAssumption DEF IInv, TypeOK, Then
<1>1. ASSUME NEW c \in {"open", "close", "recover"}, NEW t \in Tasks, Begin(p, c, t) PROVE TypeOK'
  <2>1. me'[p] \in Owners
    BY <1>1 DEF Begin, Acquire, Start, LockTypeOK, Owners
  <2>2. c # "open" => child[t] \in Owners BY <1>1 DEF Begin, LeaseOf
  <2>3. mine' \in [Procs -> Owners \cup {NoLease}] BY <1>1, <2>1, <2>2 DEF Begin
  <2> QED BY <1>1, <2>3 DEF Begin, Commands
<1>2. CASE LockStep(p) BY <1>2 DEF LockStep, handoff
<1>3. CASE CreateLease(p)
  <2>1. mine[p] \in Owners BY <1>3 DEF CreateLease, Inside, PlaceOK, Handing
  <2>2. [id |-> mine[p], task |-> task[p], text |-> FALSE] \in Leases BY <2>1, LeaseType
  <2>3. lease' \in Leases \cup {NoLease} BY <1>3, <2>2 DEF CreateLease
  <2> QED BY <1>3, <2>3 DEF CreateLease, handoff
<1>4. CASE WriteLease(p)
  <2>1. mine[p] \in Owners BY <1>4 DEF WriteLease, Inside, PlaceOK, Handing
  <2>2. [id |-> mine[p], task |-> task[p], text |-> TRUE] \in Leases BY <2>1, LeaseType
  <2>3. CASE lease = [id |-> mine[p], task |-> task[p], text |-> FALSE]
    <3>1. lease' = [id |-> mine[p], task |-> task[p], text |-> TRUE] BY <1>4, <2>3 DEF WriteLease
    <3>2. lease' \in Leases BY <3>1, <2>2
    <3> QED BY <1>4, <3>2 DEF WriteLease, handoff
  <2>4. CASE lease # [id |-> mine[p], task |-> task[p], text |-> FALSE]
    BY <1>4, <2>4 DEF WriteLease, handoff
  <2> QED BY <2>3, <2>4
<1>12. CASE WriteFails(p)
  <2>1. mine[p] \in Owners BY <1>12 DEF WriteFails, Inside, PlaceOK, Handing
  <2>2. [id |-> mine[p], task |-> task[p], text |-> TRUE] \in Leases BY <2>1, LeaseType
  <2>3. lease' = lease \/ lease' = [id |-> mine[p], task |-> task[p], text |-> TRUE]
    BY <1>12 DEF WriteFails
  <2>4. lease' \in Leases \cup {NoLease} BY <2>2, <2>3
  <2>5. unwritten' \subseteq Owners BY <1>12, <2>1 DEF WriteFails
  <2> QED BY <1>12, <2>4, <2>5 DEF WriteFails, handoff
<1>5. CASE ReleaseLease(p) BY <1>5 DEF ReleaseLease, handoff
<1>6. CASE ForceClear(p)
  <2>1. lease # NoLease => lease.id \in Owners BY DEF Leases
  <2>2. mine' \in [Procs -> Owners \cup {NoLease}] BY <1>6, <2>1 DEF ForceClear
  <2> QED BY <1>6, <2>2 DEF ForceClear
<1>7. CASE Mutate(p)
  <2>1. cmd[p] = "open" => mine[p] \in Owners BY <1>7 DEF Mutate, Inside, PlaceOK, Handing
  <2>2. child' \in [Tasks -> Owners \cup {NoChild}] BY <1>7, <2>1 DEF Mutate
  <2> QED BY <1>7, <2>2 DEF Mutate, handoff
<1>8. CASE Leave(p) BY <1>8 DEF Leave, handoff
<1>9. ASSUME NEW t \in Tasks, NEW s \in States, BeginTransition(p, t, s) PROVE TypeOK'
  BY <1>9 DEF BeginTransition, Commands
<1>10. CASE SaveTransition(p)
  <2>1. cmd[p] \in States BY <1>10 DEF SaveTransition, PlaceOK
  <2> QED BY <1>10, <2>1 DEF SaveTransition, handoff
<1>11. CASE Crash(p) BY <1>11 DEF Crash, handoff
<1> QED BY <1>1, <1>2, <1>3, <1>4, <1>5, <1>6, <1>7, <1>8, <1>9, <1>10, <1>11, <1>12 DEF StepOf

(* A step of one process leaves the place of every other.                  *)
LEMMA OthersStay ==
    ASSUME IInv, NEW p \in Procs, StepOf(p), NEW q \in Procs, q # p
    PROVE  /\ at'[q] = at[q] /\ step'[q] = step[q] /\ cmd'[q] = cmd[q]
           /\ task'[q] = task[q] /\ mine'[q] = mine[q]
<1>0. /\ at \in [Procs -> Stages] /\ step \in [Procs -> {"idle", "lease", "text", "mutate", "undo", "restore", "leave", "save"}]
      /\ cmd \in [Procs -> Commands] /\ task \in [Procs -> Tasks]
      /\ mine \in [Procs -> Owners \cup {NoLease}]
  BY DEF IInv, TypeOK, LockTypeOK
<1>1. at'[q] = at[q]
  <2>1. \/ UNCHANGED at \/ \E s \in Stages : Move(p, s)
    <3>1. LockAct(p) => UNCHANGED at \/ \E s \in Stages : Move(p, s)
      BY DEF LockAct, LiveAct, Acquire, TryCreate, WriteRecord, Look, Reclaim, CheckOwner, Unlock, Die, Stages
    <3> QED BY <3>1, StepIsLockAct DEF lockVars
  <2> QED BY <1>0, <2>1 DEF Move
<1>2. step'[q] = step[q]
  BY <1>0 DEF StepOf, Begin, LockStep, CreateLease, WriteLease, WriteFails, ReleaseLease, ForceClear,
              Mutate, Leave, BeginTransition, SaveTransition, Crash, Then
<1>3. cmd'[q] = cmd[q] /\ task'[q] = task[q] /\ mine'[q] = mine[q]
  BY <1>0 DEF StepOf, Begin, LockStep, CreateLease, WriteLease, WriteFails, ReleaseLease, ForceClear,
              Mutate, Leave, BeginTransition, SaveTransition, Crash, handoff
<1> QED BY <1>1, <1>2, <1>3

(* The task locks of the others are left alone, and a child is only given  *)
(* to, or taken from, a task that nobody is transitioning.                 *)
LEMMA TaskLocksStay ==
    ASSUME IInv, NEW p \in Procs, StepOf(p), NEW t \in Tasks
    PROVE  /\ taskLock[t] \notin {p, Nobody} => taskLock'[t] = taskLock[t]
           /\ taskLock'[t] \notin {p, Nobody} => taskLock'[t] = taskLock[t]
           /\ taskLock[t] # Nobody => child'[t] = child[t]
<1>0. taskLock \in [Tasks -> Procs \cup {Nobody}] /\ child \in [Tasks -> Owners \cup {NoChild}]
  BY DEF IInv, TypeOK
<1>1. step[p] = "save" => taskLock[task[p]] = p /\ task[p] \in Tasks BY DEF IInv, PlaceOK, TypeOK
<1>2. /\ taskLock[t] \notin {p, Nobody} => taskLock'[t] = taskLock[t]
      /\ taskLock'[t] \notin {p, Nobody} => taskLock'[t] = taskLock[t]
  BY <1>0, <1>1 DEF StepOf, Begin, LockStep, CreateLease, WriteLease, WriteFails, ReleaseLease, ForceClear,
              Mutate, Leave, BeginTransition, SaveTransition, Crash
<1>3. taskLock[t] # Nobody => child'[t] = child[t]
  BY <1>0 DEF StepOf, Begin, LockStep, CreateLease, WriteLease, WriteFails, ReleaseLease, ForceClear,
              Mutate, Leave, BeginTransition, SaveTransition, Crash
<1> QED BY <1>2, <1>3

(* Command, place, lock and lease of a process keep in step.               *)
LEMMA PlaceStep ==
    ASSUME IInv, NEW p \in Procs, StepOf(p), NEW q \in Procs PROVE PlaceOK(q)'
<1>0. /\ at \in [Procs -> Stages] /\ step \in [Procs -> {"idle", "lease", "text", "mutate", "undo", "restore", "leave", "save"}]
      /\ cmd \in [Procs -> Commands] /\ task \in [Procs -> Tasks]
      /\ mine \in [Procs -> Owners \cup {NoLease}]
      /\ taskLock \in [Tasks -> Procs \cup {Nobody}]
      /\ child \in [Tasks -> Owners \cup {NoChild}] /\ lease \in Leases \cup {NoLease}
      /\ LockTypeOK
  BY DEF IInv, TypeOK, LockTypeOK
<1>1. PlaceOK(p) /\ PlaceOK(q) BY DEF IInv
<1>2. CASE q # p
  <2>1. step[q] = "save" => taskLock'[task[q]] = q
    BY <1>0, <1>1, <1>2, TaskLocksStay, HandoffAssumption DEF PlaceOK
  <2> QED BY <1>1, <1>2, <2>1, OthersStay DEF PlaceOK
<1>3. CASE q = p
  <2> USE <1>0, <1>1, <1>3, HandoffAssumption DEF PlaceOK, Then, Handing
  <2>1. ASSUME NEW c \in {"open", "close", "recover"}, NEW t \in Tasks, Begin(p, c, t)
        PROVE  PlaceOK(p)'
    <3>1. me'[p] \in Owners
      BY <2>1, CommandsAssumption DEF Begin, Acquire, Start, LockTypeOK, Owners
    <3>2. c # "open" => child[t] \in Owners BY <2>1 DEF Begin, LeaseOf
    <3>3. mine'[p] \in Owners BY <2>1, <3>1, <3>2 DEF Begin
    <3> QED BY <2>1, <3>3 DEF Begin, Acquire, Move
  <2>2. CASE LockStep(p)
    <3>1. at'[p] \in {"try", "write", "look", "reclaim", "held", "out"}
      BY <2>2 DEF LockStep, Acquiring, TryCreate, WriteRecord, Look, Reclaim, Move
    <3> QED BY <2>2, <3>1 DEF LockStep, handoff
  <2>3. CASE CreateLease(p) BY <2>3 DEF CreateLease, Inside, handoff, lockVars
  <2>4. CASE WriteLease(p)
    <3>1. /\ step[p] = "text" /\ at[p] = "held" /\ UNCHANGED <<at, cmd, task, mine>>
          /\ step' = [step EXCEPT ![p] = IF cmd[p] = "open" THEN "mutate" ELSE "leave"]
      BY <2>4 DEF WriteLease, Inside, handoff, lockVars
    <3> QED BY <3>1
  <2>12. CASE WriteFails(p) BY <2>12 DEF WriteFails, Inside, handoff, lockVars
  <2>5. CASE ReleaseLease(p) BY <2>5 DEF ReleaseLease, Inside, handoff, lockVars
  <2>6. CASE ForceClear(p)
    <3>1. lease # NoLease => lease.id \in Owners BY DEF Leases
    <3> QED BY <2>6, <3>1 DEF ForceClear, Inside, lockVars
  <2>7. CASE Mutate(p) BY <2>7 DEF Mutate, Inside, handoff, lockVars
  <2>8. CASE Leave(p)
    <3>1. at'[p] \in {"unlink", "out"}
      BY <2>8 DEF Leave, CheckOwner, Unlock, Move
    <3> QED BY <2>8, <3>1 DEF Leave, handoff
  <2>9. ASSUME NEW t \in Tasks, NEW s \in States, BeginTransition(p, t, s) PROVE PlaceOK(p)'
    BY <2>9 DEF BeginTransition, States
  <2>10. CASE SaveTransition(p) BY <2>10 DEF SaveTransition, handoff, lockVars
  <2>11. CASE Crash(p)
    <3>1. at'[p] = "out" BY <2>11 DEF Crash, Die, Move, lockVars
    <3> QED BY <2>11, <3>1 DEF Crash
  <2> QED BY <2>1, <2>2, <2>3, <2>4, <2>5, <2>6, <2>7, <2>8, <2>9, <2>10, <2>11, <2>12 DEF StepOf
<1> QED BY <1>2, <1>3

(* A locked task is being saved, and has no child.                         *)
LEMMA TaskLockStep ==
    ASSUME IInv, NEW p \in Procs, StepOf(p), NEW t \in Tasks PROVE TaskLockOK(t)'
<1>0. /\ taskLock \in [Tasks -> Procs \cup {Nobody}] /\ task \in [Procs -> Tasks]
      /\ child \in [Tasks -> Owners \cup {NoChild}] /\ cmd \in [Procs -> Commands]
      /\ step \in [Procs -> {"idle", "lease", "text", "mutate", "undo", "restore", "leave", "save"}]
      /\ taskLock' \in [Tasks -> Procs \cup {Nobody}]
  BY TypeStep DEF IInv, TypeOK
<1>1. TaskLockOK(t) /\ PlaceOK(p) BY DEF IInv
<1>2. CASE taskLock'[t] = Nobody BY <1>2 DEF TaskLockOK
<1>3. CASE taskLock'[t] \notin {p, Nobody}
  <2>1. taskLock'[t] = taskLock[t] /\ taskLock[t] # Nobody /\ taskLock[t] \in Procs
    BY <1>0, <1>3, TaskLocksStay
  <2>2. child'[t] = child[t] BY <2>1, TaskLocksStay
  <2>3. step'[taskLock[t]] = step[taskLock[t]] /\ task'[taskLock[t]] = task[taskLock[t]]
    BY <2>1, <1>3, OthersStay
  <2> QED BY <1>1, <2>1, <2>2, <2>3 DEF TaskLockOK
<1>4. CASE taskLock'[t] = p
  <2>1. ASSUME NEW u \in Tasks, NEW s \in States, BeginTransition(p, u, s) PROVE TaskLockOK(t)'
    <3>1. taskLock[t] # p BY <1>1, <2>1, HandoffAssumption DEF TaskLockOK, BeginTransition
    <3>2. t = u BY <1>0, <1>4, <2>1, <3>1 DEF BeginTransition
    <3> QED BY <1>0, <2>1, <3>2, <1>4 DEF BeginTransition, TaskLockOK, Then
  <2>2. ASSUME taskLock' = taskLock, ~SaveTransition(p), StepOf(p),
               ~\E u \in Tasks, s \in States : BeginTransition(p, u, s) PROVE TaskLockOK(t)'
    <3>1. step[p] = "save" BY <1>1, <1>4, <2>2, HandoffAssumption DEF TaskLockOK
    <3>2. step[p] # "save" \/ Crash(p)
      BY <2>2 DEF StepOf, Begin, LockStep, CreateLease, WriteLease, WriteFails, ReleaseLease, ForceClear,
              Mutate, Leave, Inside
    <3>3. taskLock'[t] # p BY <1>0, <3>1, <3>2, HandoffAssumption DEF Crash
    <3> QED BY <3>3, <1>4
  <2>3. CASE SaveTransition(p)
    <3>1. taskLock[t] = p /\ t # task[p] BY <1>0, <1>4, <2>3, HandoffAssumption DEF SaveTransition
    <3> QED BY <1>1, <3>1, HandoffAssumption DEF TaskLockOK
  <2>4. CASE Crash(p) BY <1>0, <1>4, <2>4, HandoffAssumption DEF Crash
  <2> QED BY <2>1, <2>2, <2>3, <2>4 DEF StepOf, Begin, LockStep, CreateLease, WriteLease, WriteFails,
             ReleaseLease, ForceClear, Mutate, Leave
<1> QED BY <1>2, <1>3, <1>4

(* `open` gives a child to a task in WORK only, whose lock is free, and a  *)
(* transition saves under the task's lock, which it took with no child.    *)
LEMMA AuditStep ==
    ASSUME IInv, NEW p \in Procs, StepOf(p) PROVE NoChildInAudit'
<1>0. /\ taskLock \in [Tasks -> Procs \cup {Nobody}] /\ task \in [Procs -> Tasks]
      /\ child \in [Tasks -> Owners \cup {NoChild}] /\ state \in [Tasks -> States]
      /\ cmd \in [Procs -> Commands] /\ PlaceOK(p)
      /\ \A t \in Tasks : TaskLockOK(t)
  BY DEF IInv, TypeOK
<1>1. CASE Mutate(p)
  <2>1. UNCHANGED state BY <1>1 DEF Mutate
  <2>2. \A t \in Tasks : child'[t] = NoChild \/ child'[t] = child[t] \/ state[t] = "WORK"
    BY <1>0, <1>1 DEF Mutate, Refused
  <2> QED BY <2>1, <2>2 DEF IInv, NoChildInAudit
<1>2. CASE SaveTransition(p)
  <2>1. child[task[p]] = NoChild
    BY <1>0, <1>2, HandoffAssumption DEF SaveTransition, PlaceOK, TaskLockOK
  <2> QED BY <1>0, <1>2, <2>1 DEF SaveTransition, IInv, NoChildInAudit
<1>3. CASE UNCHANGED <<child, state>> BY <1>3 DEF IInv, NoChildInAudit
<1> QED BY <1>1, <1>2, <1>3 DEF StepOf, Begin, LockStep, CreateLease, WriteLease, WriteFails, ReleaseLease,
           ForceClear, Leave, BeginTransition, Crash

(* While nobody dies, the owner of the lock file is at work: nobody proves *)
(* it dead, reclaims the file or is robbed of it.                          *)
LEMMA NoReclaimStep ==
    ASSUME LockInv, NoReclaim, NEW p \in Procs, LiveAct(p) PROVE NoReclaim'
<1>0. /\ me \in [Procs -> 0..MaxCommands] /\ started \in 0..MaxCommands
      /\ at \in [Procs -> Stages] /\ lock \in LockFiles \cup {NoFile} /\ OwnersFresh
      /\ ~robbed /\ \A q \in Procs : FileIsMine(q)
  BY DEF LockInv, LockTypeOK, NoReclaim
<1>1. me[p] \in 0..MaxCommands /\ (at[p] # "out" => me[p] \in Owners)
  BY <1>0, CommandsAssumption DEF OwnersFresh, Owners
<1>2. \A b \in BOOLEAN : at[p] # "out" => [by |-> me[p], text |-> b] # NoFile
  BY <1>1, NoFileAssumption DEF LockFiles
<1> USE <1>0 DEF NoReclaim, Move
<1>3. CASE Acquire(p) \/ (Start(p) /\ UNCHANGED <<lock, at, seen, robbed>>)
  BY <1>3 DEF Acquire, Start
<1>4. CASE TryCreate(p)
  <2>1. CASE lock = NoFile
    <3>1. lock'.by = me'[p] /\ at'[p] = "write" BY <1>4, <2>1 DEF TryCreate
    <3> QED BY <1>4, <2>1, <3>1 DEF TryCreate
  <2>2. CASE lock # NoFile BY <1>4, <2>2 DEF TryCreate
  <2> QED BY <2>1, <2>2
<1>5. CASE WriteRecord(p)
  <2>1. lock = [by |-> me[p], text |-> FALSE] BY <1>5 DEF WriteRecord, FileIsMine
  <2>2. lock' = [by |-> me[p], text |-> TRUE] BY <1>5, <2>1 DEF WriteRecord
  <2>3. lock'.by = me'[p] /\ at'[p] = "held" BY <1>5, <2>2 DEF WriteRecord
  <2> QED BY <1>5, <2>3 DEF WriteRecord
<1>6. CASE Look(p)
  <2>1. ~ProvenDead BY DEF ProvenDead, Alive
  <2> QED BY <1>6, <2>1 DEF Look
<1>7. CASE Reclaim(p) BY <1>7 DEF Reclaim
<1>8. CASE CheckOwner(p)
  <2>1. lock = [by |-> me[p], text |-> TRUE] BY <1>8 DEF CheckOwner, FileIsMine
  <2> QED BY <1>8, <2>1 DEF CheckOwner
<1>9. CASE Unlock(p)
  <2>1. lock = [by |-> me[p], text |-> TRUE] BY <1>9 DEF Unlock, FileIsMine
  <2>2. lock.by = me[p] BY <2>1
  <2> QED BY <1>9, <2>2 DEF Unlock, Unlinks
<1> QED BY <1>3, <1>4, <1>5, <1>6, <1>7, <1>8, <1>9 DEF LiveAct

(* A process inside the lock is alone there with its handoff.              *)
LEMMA AloneInside ==
    ASSUME IInv, crashes = 0, NEW p \in Procs, at[p] = "held", NEW q \in Procs, q # p
    PROVE  step[q] \notin Handing
<1>1. ~robbed BY DEF IInv, HandoffInv, NoReclaim
<1>2. step[q] \in Handing => q \in Holders BY DEF IInv, PlaceOK, Holders
<1>3. p \in Holders BY DEF Holders
<1> QED BY <1>1, <1>2, <1>3, HoldersEqual DEF IInv

(* The lease and the children agree, up to the command inside the lock.    *)
LEMMA HandoffStep ==
    ASSUME IInv, NEW p \in Procs, StepOf(p), crashes' = 0
    PROVE  /\ \A q \in Procs : step'[q] \in Handing => HandingOK(q)'
           /\ (\A q \in Procs : step'[q] \notin Handing) => Agreed'
<1>0. /\ step \in [Procs -> {"idle", "lease", "text", "mutate", "undo", "restore", "leave", "save"}]
      /\ cmd \in [Procs -> Commands] /\ task \in [Procs -> Tasks]
      /\ mine \in [Procs -> Owners \cup {NoLease}] /\ crashes \in Nat
      /\ child \in [Tasks -> Owners \cup {NoChild}] /\ lease \in Leases \cup {NoLease}
      /\ PlaceOK(p)
  BY HandoffAssumption DEF IInv, TypeOK
<1>1. crashes = 0 /\ ~Crash(p)
  BY <1>0 DEF StepOf, Begin, LockStep, CreateLease, WriteLease, WriteFails, ReleaseLease, ForceClear,
              Mutate, Leave, BeginTransition, SaveTransition, Crash
<1>2. /\ \A q \in Procs : step[q] \in Handing => HandingOK(q)
      /\ (\A q \in Procs : step[q] \notin Handing) => Agreed
  BY <1>1 DEF IInv, HandoffInv
<1>3. CASE step[p] \notin Handing /\ step'[p] \notin Handing /\ UNCHANGED <<lease, child, unwritten>>
  <2>1. \A q \in Procs : step'[q] \in Handing => q # p /\ step[q] \in Handing BY <1>3, OthersStay
  <2>2. \A q \in Procs : step'[q] \in Handing => HandingOK(q)'
    <3> SUFFICES ASSUME NEW q \in Procs, step'[q] \in Handing PROVE HandingOK(q)' OBVIOUS
    <3>1. q # p /\ HandingOK(q) BY <1>2, <2>1
    <3>2. step'[q] = step[q] /\ cmd'[q] = cmd[q] /\ task'[q] = task[q] /\ mine'[q] = mine[q]
      BY <3>1, OthersStay
    <3> QED BY <1>3, <3>1, <3>2 DEF HandingOK, Childless, ChildIs, Follows
  <2>3. (\A q \in Procs : step'[q] \notin Handing) => \A q \in Procs : step[q] \notin Handing
    BY <1>3, OthersStay
  <2> QED BY <1>2, <1>3, <2>2, <2>3 DEF Agreed, Childless, ChildIs, Follows
<1>4. ASSUME at[p] = "held",
             step'[p] \in Handing => HandingOK(p)', step'[p] \notin Handing => Agreed'
      PROVE  /\ \A q \in Procs : step'[q] \in Handing => HandingOK(q)'
             /\ (\A q \in Procs : step'[q] \notin Handing) => Agreed'
  BY <1>1, <1>4, AloneInside, OthersStay
<1>5. at[p] = "held" /\ step[p] \notin Handing => Agreed BY <1>1, <1>2, AloneInside
<1>6. step[p] \in Handing => HandingOK(p) BY <1>2
<1> USE HandoffAssumption
<1>7. CASE CreateLease(p)
  <2>1. mine[p] \in Owners BY <1>0, <1>7 DEF CreateLease, Inside, PlaceOK, Handing
  <2>2. UNCHANGED <<child, cmd, task, mine, unwritten>> /\ at[p] = "held"
    BY <1>7 DEF CreateLease, handoff, Inside
  <2>3. CASE lease = NoLease
    <3>1. /\ lease' = [id |-> mine[p], task |-> task[p], text |-> FALSE] /\ step'[p] = "text"
      BY <1>0, <1>7, <2>3 DEF CreateLease, Then
    <3>2. CASE cmd[p] = "open"
      <4>1. step[p] = "lease" BY <1>0, <1>7, <3>2 DEF CreateLease, Inside, PlaceOK
      <4>2. Childless BY <1>5, <2>2, <2>3, <4>1 DEF Agreed, Handing
      <4> QED BY <1>4, <2>2, <3>1, <3>2, <4>2 DEF HandingOK, Childless, Handing
    <3>3. CASE cmd[p] # "open"
      <4>1. step[p] = "restore" BY <1>7, <3>3 DEF CreateLease, Inside
      <4>2. Follows(task[p], mine[p]) BY <1>6, <2>1, <3>3, <4>1 DEF HandingOK, Handing
      <4> QED BY <1>4, <2>1, <2>2, <3>1, <3>3, <4>2 DEF HandingOK, ChildIs, Follows, Childless, Handing
    <3> QED BY <3>2, <3>3
  <2>4. CASE lease # NoLease
    <3>1. lease' = lease /\ step'[p] = "leave" BY <1>0, <1>7, <2>4 DEF CreateLease, Then
    <3>2. step[p] = "lease" \/ (step[p] = "restore" /\ cmd[p] # "open")
      BY <1>0, <1>7 DEF CreateLease, Inside, PlaceOK
    <3>3. step[p] = "lease" BY <1>6, <2>4, <3>2 DEF HandingOK, Handing
    <3>4. Agreed' BY <1>5, <2>2, <3>1, <3>3 DEF Agreed, Childless, ChildIs, Follows, Handing
    <3> QED BY <1>4, <2>2, <3>1, <3>4 DEF Handing
  <2> QED BY <2>3, <2>4
<1>8. CASE WriteLease(p)
  <2>1. /\ UNCHANGED <<child, cmd, task, mine, unwritten>> /\ at[p] = "held" /\ step[p] = "text"
        /\ step'[p] = IF cmd[p] = "open" THEN "mutate" ELSE "leave"
    BY <1>0, <1>8 DEF WriteLease, handoff, Inside, Then
  <2>2. lease = [id |-> mine[p], task |-> task[p], text |-> FALSE]
    BY <1>6, <2>1 DEF HandingOK, Handing
  <2>3. lease' = [id |-> mine[p], task |-> task[p], text |-> TRUE] BY <1>8, <2>2 DEF WriteLease
  <2>4. CASE cmd[p] = "open"
    <3>1. Childless BY <1>6, <2>1, <2>4 DEF HandingOK, Handing
    <3> QED BY <1>4, <2>1, <2>3, <2>4, <3>1 DEF HandingOK, Childless, Handing
  <2>5. CASE cmd[p] # "open"
    <3>1. mine[p] \in Owners BY <1>0, <2>1 DEF PlaceOK, Handing
    <3>2. Follows(task[p], mine[p]) BY <1>6, <2>1, <2>5, <3>1 DEF HandingOK, Handing
    <3>3. [id |-> mine[p], task |-> task[p], text |-> TRUE] \in Leases BY <1>0, <3>1, LeaseType
    <3>4. lease' \in Leases /\ lease'.text /\ lease'.task = task[p] /\ lease'.id = mine[p]
      BY <2>3, <3>3
    <3>5. Agreed' BY <2>1, <3>2, <3>4 DEF Agreed, ChildIs, Follows, Childless
    <3> QED BY <1>4, <2>1, <2>5, <3>5 DEF Handing
  <2> QED BY <2>4, <2>5
<1>12. CASE WriteFails(p)
  <2>1. /\ UNCHANGED <<child, cmd, task, mine>> /\ at[p] = "held" /\ step[p] = "text"
        /\ step'[p] = "leave" /\ unwritten' = unwritten \cup {mine[p]}
    BY <1>0, <1>12 DEF WriteFails, handoff, Inside, Then
  <2>2. lease = [id |-> mine[p], task |-> task[p], text |-> FALSE] /\ mine[p] \in Owners
    BY <1>0, <1>6, <2>1 DEF HandingOK, PlaceOK, Handing
  <2>3. PICK b \in BOOLEAN : lease' = [id |-> mine[p], task |-> task[p], text |-> b]
    BY <1>12, <2>2 DEF WriteFails
  <2>4. lease' \in Leases /\ lease'.task = task[p] /\ lease'.id = mine[p]
    BY <1>0, <2>2, <2>3, LeaseType
  <2>5. Childless \/ ChildIs(task[p], mine[p])
    BY <1>6, <2>1, <2>2 DEF HandingOK, Follows, Handing
  <2>6. Follows(task[p], mine[p])'
    BY <2>1, <2>5 DEF Follows, Childless, ChildIs
  <2>7. Agreed' BY <2>1, <2>4, <2>6 DEF Agreed
  <2> QED BY <1>4, <2>1, <2>7 DEF Handing
<1>9. CASE ReleaseLease(p)
  <2> DEFINE own == lease = [id |-> mine[p], task |-> task[p], text |-> TRUE]
  <2>1. /\ UNCHANGED <<child, cmd, task, mine, unwritten>> /\ at[p] = "held"
        /\ lease' = IF own THEN NoLease ELSE lease
        /\ step'[p] = IF own /\ cmd[p] = "close" THEN "mutate" ELSE "leave"
    BY <1>0, <1>9 DEF ReleaseLease, handoff, Inside, Then
  <2>2. CASE step[p] = "undo"
    <3>1. cmd[p] = "open" BY <1>0, <2>2 DEF PlaceOK
    <3>2. Childless /\ own BY <1>6, <2>2, <3>1 DEF HandingOK, Handing
    <3>3. Agreed' BY <2>1, <3>2 DEF Agreed, Childless
    <3> QED BY <1>4, <2>1, <3>1, <3>3 DEF Handing
  <2>3. CASE step[p] = "lease" /\ cmd[p] = "close"
    <3>1. Agreed BY <1>5, <2>1, <2>3 DEF Handing
    <3>2. mine[p] \in Owners BY <1>0, <2>3 DEF PlaceOK, Handing
    <3>3. CASE own
      <4>1. lease # NoLease /\ lease.task = task[p] /\ lease.id = mine[p]
        BY <1>0, <3>2, <3>3, LeaseType
      <4>2. Follows(task[p], mine[p]) BY <3>1, <4>1 DEF Agreed
      <4> QED BY <1>4, <2>1, <2>3, <3>2, <3>3, <4>2 DEF HandingOK, ChildIs, Follows, Childless, Handing
    <3>4. CASE ~own
      <4>1. Agreed' BY <2>1, <3>1, <3>4 DEF Agreed, Childless, ChildIs, Follows
      <4> QED BY <1>4, <2>1, <3>4, <4>1 DEF Handing
    <3> QED BY <3>3, <3>4
  <2> QED BY <1>9, <2>2, <2>3 DEF ReleaseLease, Inside
<1>10. CASE ForceClear(p)
  <2>1. /\ UNCHANGED <<child, cmd, task, unwritten>> /\ at[p] = "held" /\ step[p] = "lease" /\ cmd[p] = "recover"
    BY <1>10 DEF ForceClear, Inside
  <2>2. Agreed BY <1>5, <2>1 DEF Handing
  <2>3. CASE lease = NoLease
    <3>1. lease' = NoLease /\ mine'[p] = NoLease /\ step'[p] = "mutate"
      BY <1>0, <1>10, <2>3 DEF ForceClear, Then
    <3>2. Childless BY <2>2, <2>3 DEF Agreed
    <3> QED BY <1>4, <2>1, <3>1, <3>2 DEF HandingOK, Childless, Handing
  <2>4. CASE lease # NoLease /\ lease.text /\ lease.task = task[p]
    <3>1. lease' = NoLease /\ mine'[p] = lease.id /\ step'[p] = "mutate" /\ lease.id \in Owners
      BY <1>0, <1>10, <2>4 DEF ForceClear, Then, Leases
    <3>2. Follows(task[p], lease.id) BY <2>2, <2>4 DEF Agreed
    <3> QED BY <1>4, <2>1, <3>1, <3>2 DEF HandingOK, ChildIs, Follows, Childless, Handing
  <2>5. CASE lease # NoLease /\ ~(lease.text /\ lease.task = task[p])
    <3>1. lease' = lease /\ step'[p] = "leave" BY <1>0, <1>10, <2>5 DEF ForceClear, Then
    <3>2. Agreed' BY <2>1, <2>2, <3>1 DEF Agreed, Childless, ChildIs, Follows
    <3> QED BY <1>4, <2>1, <3>1, <3>2 DEF Handing
  <2> QED BY <2>3, <2>4, <2>5
<1>11. CASE Mutate(p)
  <2>1. UNCHANGED <<lease, cmd, task, mine, unwritten>> /\ at[p] = "held" /\ step[p] = "mutate" /\ HandingOK(p)
    BY <1>6, <1>11 DEF Mutate, handoff, Inside, Handing
  <2>2. CASE child' = [child EXCEPT ![task[p]] = IF cmd[p] = "open" THEN mine[p] ELSE NoChild] /\ step'[p] = "leave"
    <3>1. CASE cmd[p] = "open"
      <4>1. mine[p] \in Owners BY <1>0, <2>1, <3>1 DEF PlaceOK, Handing
      <4>2. lease' = [id |-> mine[p], task |-> task[p], text |-> TRUE] /\ Childless
        BY <2>1, <3>1 DEF HandingOK
      <4>3. [id |-> mine[p], task |-> task[p], text |-> TRUE] \in Leases BY <1>0, <4>1, LeaseType
      <4>4. lease' \in Leases /\ lease'.text /\ lease'.task = task[p] /\ lease'.id = mine[p]
        BY <4>2, <4>3
      <4>5. Agreed' BY <1>0, <2>2, <3>1, <4>2, <4>4 DEF Agreed, ChildIs, Follows, Childless
      <4> QED BY <1>4, <2>1, <2>2, <4>5 DEF Handing
    <3>2. CASE cmd[p] # "open"
      <4>1. lease' = NoLease BY <2>1, <3>2 DEF HandingOK
      <4>2. Childless' BY <1>0, <2>1, <2>2, <3>2 DEF HandingOK, ChildIs, Follows, Childless
      <4> QED BY <1>4, <2>1, <2>2, <4>1, <4>2 DEF Agreed, Handing
    <3> QED BY <3>1, <3>2
  <2>3. CASE /\ UNCHANGED child
             /\ step'[p] = IF cmd[p] = "open" THEN "undo"
                           ELSE IF mine[p] = NoLease THEN "leave" ELSE "restore"
    <3>1. CASE step'[p] \in Handing
      <4>1. HandingOK(p)' BY <2>1, <2>3, <3>1 DEF HandingOK, ChildIs, Follows, Childless, Handing
      <4> QED BY <1>4, <2>1, <3>1, <4>1
    <3>2. CASE step'[p] \notin Handing
      <4>1. lease = NoLease /\ Childless BY <2>1, <2>3, <3>2 DEF HandingOK, Handing
      <4> QED BY <1>4, <2>1, <2>3, <3>2, <4>1 DEF Agreed, Childless
    <3> QED BY <3>1, <3>2
  <2> QED BY <1>0, <1>11, <2>2, <2>3 DEF Mutate, Then
<1> QED
  <2>1. ASSUME NEW c \in {"open", "close", "recover"}, NEW t \in Tasks, Begin(p, c, t)
        PROVE  step[p] \notin Handing /\ step'[p] \notin Handing /\ UNCHANGED <<lease, child, unwritten>>
    BY <1>0, <2>1 DEF Begin, Then, Handing
  <2>2. CASE LockStep(p) \/ Leave(p) \/ SaveTransition(p)
    BY <1>0, <1>3, <2>2 DEF LockStep, Leave, SaveTransition, Then, Handing
  <2>3. ASSUME NEW t \in Tasks, NEW s \in States, BeginTransition(p, t, s)
        PROVE  step[p] \notin Handing /\ step'[p] \notin Handing /\ UNCHANGED <<lease, child, unwritten>>
    BY <1>0, <2>3 DEF BeginTransition, Then, Handing
  <2> QED BY <1>1, <1>3, <1>7, <1>8, <1>9, <1>10, <1>11, <1>12, <2>1, <2>2, <2>3 DEF StepOf

(* The state the first command meets.                                      *)
LEMMA InitIInv == Init => IInv
<1> SUFFICES ASSUME Init PROVE IInv OBVIOUS
<1>1. LockInv BY LockInvInit DEF Init
<1>2. TypeOK BY <1>1, HandoffAssumption DEF Init, TypeOK, LockInv, States, Commands
<1>3. \A p \in Procs : PlaceOK(p) BY DEF Init, LockInit, PlaceOK, Handing
<1>4. \A t \in Tasks : TaskLockOK(t) BY DEF Init, TaskLockOK
<1>5. NoChildInAudit BY DEF Init, NoChildInAudit
<1>6. HandoffInv
  BY DEF Init, LockInit, HandoffInv, NoReclaim, Agreed, Childless, Handing
<1> QED BY <1>1, <1>2, <1>3, <1>4, <1>5, <1>6 DEF IInv

(* Every step of every process keeps the invariant.                        *)
LEMMA NextIInv == IInv /\ [Next]_vars => IInv'
<1> SUFFICES ASSUME IInv, [Next]_vars PROVE IInv' OBVIOUS
<1>1. CASE UNCHANGED vars
  <2>1. LockInv' BY <1>1 DEF IInv, vars, lockVars, LockInv, LockTypeOK, OwnersFresh, FileIsMine, SeenIsDead
  <2>2. TypeOK' BY <1>1, <2>1 DEF IInv, vars, locals, LockInv, TypeOK
  <2>3. \A p \in Procs : PlaceOK(p)' BY <1>1 DEF IInv, vars, lockVars, locals, PlaceOK
  <2>4. \A t \in Tasks : TaskLockOK(t)' BY <1>1 DEF IInv, vars, locals, TaskLockOK
  <2>5. NoChildInAudit' BY <1>1 DEF IInv, vars, NoChildInAudit
  <2>6. HandoffInv'
    BY <1>1 DEF IInv, vars, lockVars, locals, HandoffInv, NoReclaim, Agreed, Childless, ChildIs, Follows, HandingOK
  <2> QED BY <2>1, <2>2, <2>3, <2>4, <2>5, <2>6 DEF IInv
<1>2. CASE Next
  <2>1. PICK p \in Procs : StepOf(p) BY <1>2 DEF Next, StepOf
  <2>2. TypeOK' BY <2>1, TypeStep
  <2>3. LockInv' BY <2>1, LockInvKept DEF IInv
  <2>4. \A q \in Procs : PlaceOK(q)' BY <2>1, PlaceStep
  <2>5. \A t \in Tasks : TaskLockOK(t)' BY <2>1, TaskLockStep
  <2>6. NoChildInAudit' BY <2>1, AuditStep
  <2>7. HandoffInv'
    <3> SUFFICES ASSUME crashes' = 0 PROVE HandoffInv' BY DEF HandoffInv
    <3>1. crashes = 0 /\ (LiveAct(p) \/ UNCHANGED lockVars)
      <4>1. crashes \in Nat BY HandoffAssumption DEF IInv, TypeOK
      <4> QED BY <2>1, <4>1 DEF StepOf, Begin, LockStep, Acquiring, CreateLease, WriteLease, WriteFails, ReleaseLease,
                  ForceClear, Mutate, Leave, BeginTransition, SaveTransition, Crash, LiveAct, lockVars
    <3>2. NoReclaim BY <3>1 DEF IInv, HandoffInv
    <3>3. CASE LiveAct(p) BY <2>1, <3>2, <3>3, NoReclaimStep, HandoffStep DEF IInv, HandoffInv
    <3>4. CASE UNCHANGED lockVars
      <4>1. NoReclaim' BY <3>2, <3>4 DEF NoReclaim, lockVars
      <4> QED BY <2>1, <4>1, HandoffStep DEF HandoffInv
    <3> QED BY <3>1, <3>3, <3>4
  <2> QED BY <2>2, <2>3, <2>4, <2>5, <2>6, <2>7 DEF IInv
<1> QED BY <1>1, <1>2

(* With no command under way, agreement is what the invariant leaves.      *)
LEMMA IInvHandoffAgrees == IInv => HandoffAgrees
<1> SUFFICES ASSUME IInv, Quiet, crashes = 0
             PROVE  \/ lease = NoLease /\ Children = {}
                    \/ lease # NoLease /\ Children = {lease.task} /\ LeaseOf(lease.task)
                    \/ /\ lease # NoLease /\ lease.id \in unwritten
                       /\ \A t \in Children : t = lease.task /\ child[t] = lease.id
  BY DEF HandoffAgrees
<1>1. Agreed BY DEF IInv, HandoffInv, Quiet, Handing
<1>2. CASE lease = NoLease /\ Childless BY <1>2 DEF Childless, Children
<1>3. CASE lease \in Leases
  <2>1. lease.task \in Tasks /\ lease.id \in Owners BY <1>3 DEF Leases
  <2>2. lease.id # NoChild /\ lease # NoLease BY <1>3, <2>1, HandoffAssumption
  <2>3. CASE lease.text /\ ChildIs(lease.task, lease.id)
    <3>1. child[lease.task] = lease.id BY <2>1, <2>3 DEF ChildIs
    <3>2. Children = {lease.task} BY <2>1, <2>2, <2>3, <3>1 DEF Children, ChildIs
    <3> QED BY <2>2, <2>3, <3>1, <3>2 DEF LeaseOf
  <2>4. CASE lease.id \in unwritten /\ Follows(lease.task, lease.id)
    <3>1. \A t \in Children : t = lease.task /\ child[t] = lease.id
      BY <2>4 DEF Children, Follows, ChildIs, Childless
    <3> QED BY <2>2, <2>4, <3>1
  <2>5. /\ lease.text \/ lease.id \in unwritten
        /\ Follows(lease.task, lease.id)
    BY <1>1, <1>3, HandoffAssumption DEF Agreed
  <2> QED BY <2>3, <2>4, <2>5 DEF Follows
<1> QED BY <1>1, <1>2, <1>3 DEF Agreed

(* The invariant holds of every state of every behaviour.                  *)
LEMMA AlwaysIInv == Spec => []IInv
BY InitIInv, NextIInv, PTL DEF Spec

(* Every variable of the lock, the lease, the tasks and the commands stays *)
(* in its type (locks.py, cli.py cmd_subagent, store.py transition).       *)
THEOREM TypeCorrect == Spec => []TypeOK
<1>1. IInv => TypeOK BY DEF IInv
<1> QED BY <1>1, AlwaysIInv, PTL

(* Two commands never hold the control lock at once, as long as no unlink  *)
(* has hit a lock file other than the one its process had inspected.       *)
THEOREM LockExcludes == Spec => []OneHolder
<1>1. IInv => OneHolder BY LockInvOneHolder DEF IInv
<1> QED BY <1>1, AlwaysIInv, PTL

(* No task in or past its final audit has a child, however `subagent open` *)
(* and `task transition` interleave, fail or crash.                        *)
THEOREM AuditHasNoChild == Spec => []NoChildInAudit
<1>1. IInv => NoChildInAudit BY DEF IInv
<1> QED BY <1>1, AlwaysIInv, PTL

(* Without a crash, the lease file and the tasks agree whenever no command *)
(* is under way, whatever was refused, retried or rolled back before; and  *)
(* a lease whose payload could not be written lets no other task have a    *)
(* child.                                                                  *)
THEOREM HandoffsAgree == Spec => []HandoffAgrees
BY IInvHandoffAgrees, AlwaysIInv, PTL

=============================================================================
