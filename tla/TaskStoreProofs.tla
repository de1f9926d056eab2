--------------------------- MODULE TaskStoreProofs ---------------------------
(***************************************************************************)
(* Machine-checked proofs about the task store and its evidence ledger,    *)
(* for every set of tasks and every number of commands and faults.         *)
(***************************************************************************)
EXTENDS TaskStore, SequenceTheorems, TLAPS

(***************************************************************************)
(* The places a command passes between the record it appends and the last  *)
(* step that depends on that record, those inside the transaction, and     *)
(* those after it has noted what it is about to write.                     *)
(***************************************************************************)
Writing == {"state", "history", "commit", "clear", "revert"}
InTransaction == {"recover", "preflight"} \cup Writing
Saving == {"verify", "plan", "enter"} \cup InTransaction
Appended == {"mark", "undo", "cut"} \cup Saving
Loaded == {"anchor", "append", "mark"} \cup Saving

(* The ledger of a task and the process that appends to it.  Only the      *)
(* record that was appended last, and that nobody was told of, can go.     *)
MarkOK(t) ==
    mark[t] # NoAnchor =>
        mark[t].count \in 0..Len(ledger[t]) /\ mark[t] = MarkAt(t, mark[t].count)

FreshOK(t) ==
    /\ pc[t] \in {"load", "anchor", "append"} => fresh[t] = NoRecord
    /\ pc[t] \in {"mark", "undo", "cut"} => fresh[t] # NoRecord
    /\ pc[t] \in Appended /\ fresh[t] # NoRecord =>
          /\ Len(ledger[t]) > 0 /\ LedgerHead(t) = fresh[t]
          /\ fresh[t] \notin acked[t].records
    /\ pc[t] = "cut" => mark[t] # NoAnchor /\ mark[t].count = Len(ledger[t]) - 1

AckedOK(t) == acked[t].records \subseteq Range(ledger[t])

LedgerPart(t) == MarkOK(t) /\ FreshOK(t) /\ AckedOK(t)

(* A head that a state may name and keep: it is in the ledger, and it is    *)
(* not the record that may have to go.                                     *)
KnownIn(records, head) == head = NoRecord \/ head \in Range(records)

SparedAt(place, record, head) ==
    place \in Appended /\ record # NoRecord => head # record

Known(t, head) == KnownIn(ledger[t], head)
Spared(t, head) == SparedAt(pc[t], fresh[t], head)

(* on_failure has taken the record back, or is about to, over a state that *)
(* the rollback did not reach.                                             *)
Excused(t) == "late" \in hurt[t] \/ (Pending(t) /\ journal.failed)

DiskPart(t) ==
    /\ disk[t].rev >= acked[t].rev
    /\ \/ Excused(t)
       \/ Known(t, disk[t].head) /\ (pc[t] \notin Writing => Spared(t, disk[t].head))
    /\ pc[t] \in Loaded => got[t].rev >= acked[t].rev
    /\ pc[t] = "none" => acked[t].rev = 0
    /\ pc[t] \in {"plan", "enter"} \cup InTransaction => LedgerHead(t) = NewHead(t)

(* The pending transaction, whoever left it.                               *)
JournalPart ==
    journal # NoJournal =>
        /\ journal.before.rev >= acked[journal.task].rev
        /\ \/ "late" \in hurt[journal.task]
           \/ Known(journal.task, journal.before.head) /\ Spared(journal.task, journal.before.head)
        /\ journal.failed /\ journal.done => "late" \in hurt[journal.task]

(* One process is inside the transaction; after its preflight the journal  *)
(* is its own.                                                             *)
InsidePart(t) ==
    /\ inside = t <=> pc[t] \in InTransaction
    /\ pc[t] = "preflight" => journal = NoJournal
    /\ pc[t] \in Writing =>
          /\ journal # NoJournal /\ journal.task = t /\ ~journal.failed
          /\ journal.after.rev >= acked[t].rev /\ Known(t, journal.after.head)
    /\ pc[t] \in {"commit", "clear"} => disk[t] = journal.after

(* The inductive invariant.                                                *)
IInv ==
    /\ TypeOK
    /\ \A t \in Tasks : LedgerPart(t) /\ DiskPart(t) /\ InsidePart(t)
    /\ JournalPart

(***************************************************************************)
(* A task that nothing has struck can always be taken back to files that   *)
(* load and to a ledger that ends in the head they name.                   *)
(***************************************************************************)
Coherent(d) == AnchorHolds(d) /\ d.anchor = d.rev

Base(t) == IF pc[t] \in Writing THEN journal.before ELSE disk[t]

Traceless(t) ==
    /\ ~torn[t]
    /\ pc[t] = "none" => ledger[t] = <<>> /\ mark[t] = NoAnchor /\ disk[t] = NoDisk
    /\ pc[t] # "none" => Coherent(Base(t))
    /\ pc[t] \in Appended /\ fresh[t] # NoRecord
          => RecordAt(t, Len(ledger[t]) - 1) = Base(t).head
    /\ ~(pc[t] \in Appended /\ fresh[t] # NoRecord) => LedgerHead(t) = Base(t).head
    /\ pc[t] \notin {"mark", "cut"} => Verified(t)
    /\ pc[t] \in {"undo"} \cup Saving /\ fresh[t] # NoRecord => mark[t] # NoAnchor
    /\ pc[t] \in Loaded => got[t].rev = Base(t).rev /\ got[t].head = Base(t).head
    /\ pc[t] \in {"enter", "recover", "preflight"} => plan[t] = disk[t]
    /\ pc[t] \in Writing => Coherent(journal.after) /\ journal.after.head = LedgerHead(t)

TraceInv ==
    \A t \in Tasks : hurt[t] = {} =>
        Traceless(t) /\ (Pending(t) => pc[t] \in Writing)

(***************************************************************************)
(* Sequences and records.                                                  *)
(***************************************************************************)

(* A ledger stays one when more records have been given out.               *)
LEMMA SeqWiden == ASSUME NEW n \in Nat, NEW s \in Seq(1..n) PROVE s \in Seq(1..(n + 1))
<1>1. \A i \in 1..Len(s) : s[i] \in 1..(n + 1) OBVIOUS
<1> QED BY <1>1

(* The elements of a sequence come from its set.                           *)
LEMMA RangeInSet == ASSUME NEW S, NEW s \in Seq(S), NEW x \in Range(s) PROVE x \in S
<1>1. PICK i \in DOMAIN s : x = s[i] BY DEF Range
<1>2. i \in 1..Len(s) OBVIOUS
<1> QED BY <1>1, <1>2

(* Appending keeps every record at its place and adds one.                 *)
LEMMA AppendFacts ==
    ASSUME NEW n \in Nat, NEW s \in Seq(1..n)
    PROVE  /\ Append(s, n + 1) \in Seq(1..(n + 1))
           /\ Len(Append(s, n + 1)) = Len(s) + 1
           /\ Append(s, n + 1)[Len(s) + 1] = n + 1
           /\ \A i \in 1..Len(s) : Append(s, n + 1)[i] = s[i]
           /\ Range(s) \subseteq Range(Append(s, n + 1))
           /\ n + 1 \in Range(Append(s, n + 1))
<1> DEFINE a == Append(s, n + 1)
<1>1. s \in Seq(1..(n + 1)) /\ n + 1 \in 1..(n + 1) BY SeqWiden
<1>2. a \in Seq(1..(n + 1)) BY <1>1
<1>3. Len(a) = Len(s) + 1 /\ a[Len(s) + 1] = n + 1 BY <1>1
<1>4. \A i \in 1..Len(s) : a[i] = s[i] BY <1>1
<1>5. DOMAIN s = 1..Len(s) /\ DOMAIN a = 1..(Len(s) + 1) BY <1>1, <1>2, <1>3
<1>6. Range(s) \subseteq Range(a) BY <1>4, <1>5 DEF Range
<1>7. n + 1 \in Range(a) BY <1>3, <1>5 DEF Range
<1> QED BY <1>2, <1>3, <1>4, <1>6, <1>7

(* Cutting the last record keeps the others.                               *)
LEMMA FrontFacts ==
    ASSUME NEW S, NEW s \in Seq(S), Len(s) > 0
    PROVE  /\ Front(s) \in Seq(S)
           /\ Len(Front(s)) = Len(s) - 1
           /\ \A i \in 1..(Len(s) - 1) : Front(s)[i] = s[i]
           /\ \A x \in Range(s) : x # s[Len(s)] => x \in Range(Front(s))
<1> DEFINE f == Front(s)
<1>1. f \in Seq(S) /\ Len(f) = Len(s) - 1 /\ \A i \in 1..(Len(s) - 1) : f[i] = s[i]
  <2>1. f = SubSeq(s, 1, Len(s) - 1) BY DEF Front
  <2>2. Len(s) - 1 \in Nat /\ Len(s) \in Nat OBVIOUS
  <2>3. \A i \in 1..(Len(s) - 1) : s[i] \in S OBVIOUS
  <2>4. f = [i \in 1..(Len(s) - 1) |-> s[i]]
    BY <2>1, <2>2, SubSeqProperties
  <2> QED BY <2>2, <2>3, <2>4
<1>2. DOMAIN f = 1..(Len(s) - 1) /\ DOMAIN s = 1..Len(s) BY <1>1
<1>3. \A x \in Range(s) : x # s[Len(s)] => x \in Range(f)
  <2> SUFFICES ASSUME NEW x \in Range(s), x # s[Len(s)] PROVE x \in Range(f) OBVIOUS
  <2>1. PICK i \in 1..Len(s) : x = s[i] BY <1>2 DEF Range
  <2>2. i \in 1..(Len(s) - 1) BY <2>1
  <2> QED BY <1>1, <1>2, <2>1, <2>2 DEF Range
<1> QED BY <1>1, <1>3

(* The files of a task, one of them replaced.                              *)
LEMMA DiskFields ==
    ASSUME NEW d \in Disks
    PROVE  /\ d.rev \in Nat /\ d.head \in Nat /\ d.anchor \in Nat /\ d.history \in SUBSET Nat
           /\ \A h \in SUBSET Nat :
                [d EXCEPT !.history = h]
                  = [rev |-> d.rev, head |-> d.head, anchor |-> d.anchor, history |-> h]
           /\ \A a \in Nat :
                [d EXCEPT !.anchor = a]
                  = [rev |-> d.rev, head |-> d.head, anchor |-> a, history |-> d.history]
           /\ \A r, h \in Nat :
                [d EXCEPT !.rev = r, !.head = h]
                  = [rev |-> r, head |-> h, anchor |-> d.anchor, history |-> d.history]
<1>1. d = [rev |-> d.rev, head |-> d.head, anchor |-> d.anchor, history |-> d.history]
      /\ d.rev \in Nat /\ d.head \in Nat /\ d.anchor \in Nat /\ d.history \in SUBSET Nat
  BY DEF Disks
<1>2. \A h \in SUBSET Nat :
        [d EXCEPT !.history = h]
          = [rev |-> d.rev, head |-> d.head, anchor |-> d.anchor, history |-> h]
  BY <1>1
<1>3. \A a \in Nat :
        [d EXCEPT !.anchor = a]
          = [rev |-> d.rev, head |-> d.head, anchor |-> a, history |-> d.history]
  BY <1>1
<1>4. \A r, h \in Nat :
        [d EXCEPT !.rev = r, !.head = h]
          = [rev |-> r, head |-> h, anchor |-> d.anchor, history |-> d.history]
  <2> SUFFICES ASSUME NEW r \in Nat, NEW h \in Nat
               PROVE  [d EXCEPT !.rev = r, !.head = h]
                        = [rev |-> r, head |-> h, anchor |-> d.anchor, history |-> d.history]
    OBVIOUS
  <2>1. [d EXCEPT !.rev = r] = [rev |-> r, head |-> d.head, anchor |-> d.anchor, history |-> d.history]
    BY <1>1
  <2>2. [[rev |-> r, head |-> d.head, anchor |-> d.anchor, history |-> d.history] EXCEPT !.head = h]
          = [rev |-> r, head |-> h, anchor |-> d.anchor, history |-> d.history]
    OBVIOUS
  <2>3. [d EXCEPT !.rev = r, !.head = h] = [[d EXCEPT !.rev = r] EXCEPT !.head = h] BY Zenon
  <2> QED BY <2>1, <2>2, <2>3, Zenon
<1> QED BY <1>1, <1>2, <1>3, <1>4

(* A state and the head it names, over older files.                        *)
LEMMA StateFields ==
    ASSUME NEW d \in Disks, NEW r \in Nat, NEW h \in Nat
    PROVE  /\ [d EXCEPT !.rev = r, !.head = h].rev = r
           /\ [d EXCEPT !.rev = r, !.head = h].head = h
<1>1. [d EXCEPT !.rev = r, !.head = h]
        = [rev |-> r, head |-> h, anchor |-> d.anchor, history |-> d.history]
  BY DiskFields, Zenon
<1> QED BY <1>1, Zenon

(* What a pending transaction has noted, and its flags.                    *)
LEMMA JournalFields ==
    ASSUME TypeOK, journal # NoJournal
    PROVE  journal \in Journals /\ journal.task \in Tasks
           /\ journal.before \in Disks /\ journal.after \in Disks
           /\ journal.done \in BOOLEAN /\ journal.failed \in BOOLEAN
BY DEF TypeOK, Journals

LEMMA FlagFields ==
    ASSUME NEW j \in Journals
    PROVE  /\ [j EXCEPT !.done = TRUE] \in Journals
           /\ [j EXCEPT !.done = TRUE].task = j.task
           /\ [j EXCEPT !.done = TRUE].before = j.before
           /\ [j EXCEPT !.done = TRUE].after = j.after
           /\ [j EXCEPT !.done = TRUE].failed <=> j.failed
           /\ [j EXCEPT !.failed = TRUE] \in Journals
           /\ [j EXCEPT !.failed = TRUE].task = j.task
           /\ [j EXCEPT !.failed = TRUE].before = j.before
           /\ [j EXCEPT !.failed = TRUE].after = j.after
           /\ [j EXCEPT !.failed = TRUE].failed
           /\ [j EXCEPT !.failed = TRUE].done <=> j.done
BY DEF Journals

(* The files of a new task.                                                *)
LEMMA NewDiskFields ==
    /\ NoDisk \in Disks /\ NewDisk \in Disks
    /\ NewDisk = [rev |-> 0, head |-> NoRecord, anchor |-> 0, history |-> {0}]
<1>1. NoDisk \in Disks BY DEF NoDisk, Disks, NoRecord
<1>2. NewDisk = [rev |-> 0, head |-> NoRecord, anchor |-> 0, history |-> {0}]
  BY DEF NewDisk, NoDisk
<1> QED BY <1>1, <1>2 DEF Disks, NoRecord

(***************************************************************************)
(* What a step can and cannot touch.                                       *)
(***************************************************************************)
StepOf(t) ==
    \/ Create(t) \/ \E c \in {"plain", "evidence"} : Mutate(t, c)
    \/ LoadState(t) \/ LoadAnchor(t)
    \/ Repair(t) \/ AppendEvidence(t) \/ AppendRefused(t) \/ Mark(t) \/ Undo(t) \/ Cut(t)
    \/ Verify(t) \/ Plan(t) \/ Enter(t) \/ Recover(t) \/ RecoverDone(t) \/ Revert(t)
    \/ Preflight(t) \/ WriteState(t) \/ WriteAnchor(t) \/ Commit(t) \/ Clear(t)
    \/ AppendFails(t) \/ UndoFails(t) \/ RevertFails(t) \/ ClearFails(t)
    \/ Raise(t) \/ Crash(t)

(* The process of one task leaves the ledger and the process of another    *)
(* alone.                                                                  *)
LEMMA OthersStay ==
    ASSUME TypeOK, NEW t \in Tasks, StepOf(t), NEW u \in Tasks, u # t
    PROVE  /\ ledger'[u] = ledger[u] /\ torn'[u] = torn[u] /\ mark'[u] = mark[u]
           /\ pc'[u] = pc[u] /\ kind'[u] = kind[u] /\ got'[u] = got[u]
           /\ fresh'[u] = fresh[u] /\ plan'[u] = plan[u] /\ acked'[u] = acked[u]
           /\ hurt'[u] = hurt[u]
<1>1. ledger'[u] = ledger[u] /\ torn'[u] = torn[u] /\ mark'[u] = mark[u]
  BY DEF TypeOK, LedgerTypeOK, ledgerVars, StepOf, Create, Mutate, LoadState, LoadAnchor, Repair,
         RepairMark, AppendEvidence, AppendRecord, AppendRefused, Mark, MarkRecord, Undo,
         RollbackMark, Cut, RollbackRecord, Verify, Plan, Enter, Recover, Revert, Restore,
         Preflight, WriteState, WriteAnchor, Commit, Raise, Crash, TearRecord, Clear, RecoverDone,
         AppendFails, UndoFails, RevertFails, ClearFails, Strike
<1>2. pc'[u] = pc[u]
  BY DEF TypeOK, StepOf, Create, Mutate, LoadState, LoadAnchor, Repair, AppendEvidence,
         AppendRefused, Mark, Undo, Cut, Verify, Plan, Enter, Recover, Revert, Restore, Preflight,
         WriteState, WriteAnchor, Commit, Raise, Crash, Goto, Clear, RecoverDone, AppendFails,
         UndoFails, RevertFails, ClearFails, Strike
<1>3. /\ kind'[u] = kind[u] /\ got'[u] = got[u] /\ fresh'[u] = fresh[u] /\ plan'[u] = plan[u]
      /\ acked'[u] = acked[u] /\ hurt'[u] = hurt[u]
  BY DEF TypeOK, locals, StepOf, Create, Mutate, LoadState, LoadAnchor, Repair, AppendEvidence,
         AppendRefused, Mark, Undo, Cut, Verify, Plan, Enter, Recover, Revert, Restore, Preflight,
         WriteState, WriteAnchor, Commit, Raise, Crash, Clear, RecoverDone, AppendFails,
         UndoFails, RevertFails, ClearFails, Strike
<1> QED BY <1>1, <1>2, <1>3

(* A restored file is the one that is there or the one the journal keeps;  *)
(* only the process inside the transaction restores.                       *)
LEMMA RestoreFacts ==
    ASSUME IInv, NEW t \in Tasks, Recover(t) \/ Revert(t)
    PROVE  /\ inside = t /\ journal # NoJournal /\ journal.task \in Tasks
           /\ disk' \in [Tasks -> Disks]
           /\ \A u \in Tasks : u # journal.task => disk'[u] = disk[u]
           /\ \/ /\ disk'[journal.task].rev = disk[journal.task].rev
                 /\ disk'[journal.task].head = disk[journal.task].head
              \/ disk'[journal.task] = journal.before
           /\ \/ journal' = journal /\ pc' = pc /\ inside' = inside
              \/ /\ disk' = disk /\ disk[journal.task] = journal.before /\ journal' = NoJournal
                 /\ \/ Recover(t) /\ Goto(t, "preflight") /\ inside' = inside
                    \/ Revert(t) /\ Goto(t, AfterFailure(t)) /\ inside' = Nobody
<1> DEFINE u == journal.task
           old == journal.before
           now == disk[u]
<1>1. journal # NoJournal BY DEF Recover, Revert, Restore
<1>2. u \in Tasks /\ old \in Disks BY <1>1, JournalFields DEF IInv
<1>3. disk \in [Tasks -> Disks] /\ now \in Disks BY <1>2 DEF IInv, TypeOK
<1>4. inside = t BY DEF IInv, InsidePart, Recover, Revert, Restore, InTransaction, Writing
<1>5. CASE /\ Put(u, [now EXCEPT !.history = old.history])
           /\ UNCHANGED <<journal, pc, inside>>
  <2>1. [now EXCEPT !.history = old.history]
          = [rev |-> now.rev, head |-> now.head, anchor |-> now.anchor, history |-> old.history]
    BY <1>2, <1>3, DiskFields
  <2>2. disk'[u] = [rev |-> now.rev, head |-> now.head, anchor |-> now.anchor, history |-> old.history]
    BY <1>2, <1>3, <1>5, <2>1 DEF Put
  <2>3. disk'[u] \in Disks BY <1>2, <1>3, <2>2, DiskFields DEF Disks
  <2>4. disk' \in [Tasks -> Disks] /\ \A v \in Tasks : v # u => disk'[v] = disk[v]
    BY <1>2, <1>3, <1>5, <2>3 DEF Put
  <2> QED BY <1>1, <1>2, <1>4, <1>5, <2>2, <2>4
<1>6. CASE /\ Put(u, [now EXCEPT !.anchor = old.anchor])
           /\ UNCHANGED <<journal, pc, inside>>
  <2>1. [now EXCEPT !.anchor = old.anchor]
          = [rev |-> now.rev, head |-> now.head, anchor |-> old.anchor, history |-> now.history]
    BY <1>2, <1>3, DiskFields
  <2>2. disk'[u] = [rev |-> now.rev, head |-> now.head, anchor |-> old.anchor, history |-> now.history]
    BY <1>2, <1>3, <1>6, <2>1 DEF Put
  <2>3. disk'[u] \in Disks BY <1>2, <1>3, <2>2, DiskFields DEF Disks
  <2>4. disk' \in [Tasks -> Disks] /\ \A v \in Tasks : v # u => disk'[v] = disk[v]
    BY <1>2, <1>3, <1>6, <2>3 DEF Put
  <2> QED BY <1>1, <1>2, <1>4, <1>6, <2>2, <2>4
<1>7. CASE Put(u, old) /\ UNCHANGED <<journal, pc, inside>>
  BY <1>1, <1>2, <1>3, <1>4, <1>7 DEF Put
<1>8. CASE /\ now = old /\ journal' = NoJournal /\ UNCHANGED disk
           /\ \/ Recover(t) /\ Goto(t, "preflight") /\ inside' = inside
              \/ Revert(t) /\ Goto(t, AfterFailure(t)) /\ inside' = Nobody
  BY <1>1, <1>2, <1>3, <1>4, <1>8
<1> QED BY <1>5, <1>6, <1>7, <1>8 DEF Recover, Revert, Restore, AfterFailure

(* Outside the transaction a process touches no pending transaction and no *)
(* file of another task.                                                   *)
LEMMA FilesStay ==
    ASSUME IInv, NEW t \in Tasks, StepOf(t), ~(Recover(t) \/ Revert(t))
    PROVE  /\ \A u \in Tasks : u # t => disk'[u] = disk[u]
           /\ inside # t => UNCHANGED journal
           /\ disk'[t] # disk[t] => pc[t] \in {"none", "state", "history"}
           /\ inside' = inside \/ (inside = Nobody /\ inside' = t) \/ (inside = t /\ inside' = Nobody)
<1>1. disk \in [Tasks -> Disks] /\ (inside = t <=> pc[t] \in InTransaction)
  BY DEF IInv, TypeOK, InsidePart
<1>2. /\ \A u \in Tasks : u # t => disk'[u] = disk[u]
      /\ disk'[t] # disk[t] => pc[t] \in {"none", "state", "history"}
  BY <1>1 DEF Put, StepOf, Create, Mutate, LoadState, LoadAnchor, Repair, AppendEvidence,
         AppendRefused, Mark, Undo, Cut, Verify, Plan, Enter, Preflight, WriteState, WriteAnchor,
         Commit, Raise, Crash, Clear, RecoverDone, AppendFails, UndoFails, RevertFails,
         ClearFails, Strike
<1>3. inside # t => UNCHANGED journal
  BY <1>1 DEF InTransaction, Writing, StepOf, Create, Mutate, LoadState, LoadAnchor, Repair,
         AppendEvidence, AppendRefused, Mark, Undo, Cut, Verify, Plan, Enter, Preflight,
         WriteState, WriteAnchor, Commit, Raise, Crash, Clear, RecoverDone, AppendFails,
         UndoFails, RevertFails, ClearFails, Strike
<1>4. inside' = inside \/ (inside = Nobody /\ inside' = t) \/ (inside = t /\ inside' = Nobody)
  BY <1>1 DEF InTransaction, Writing, StepOf, Create, Mutate, LoadState, LoadAnchor, Repair,
         AppendEvidence, AppendRefused, Mark, Undo, Cut, Verify, Plan, Enter, Preflight,
         WriteState, WriteAnchor, Commit, Raise, Crash, Clear, RecoverDone, AppendFails,
         UndoFails, RevertFails, ClearFails, Strike
<1> QED BY <1>2, <1>3, <1>4

(***************************************************************************)
(* Types.                                                                  *)
(***************************************************************************)

(* The record at a place of the ledger, and the anchor that names it.      *)
LEMMA MarkFacts ==
    ASSUME LedgerTypeOK, NEW t \in Tasks, NEW n \in 0..Len(ledger[t])
    PROVE  /\ RecordAt(t, n) \in 0..minted /\ MarkAt(t, n) \in Marks
           /\ MarkAt(t, n) # NoAnchor /\ MarkAt(t, n).count = n
           /\ Len(ledger[t]) \in Nat
<1>1. ledger[t] \in Seq(1..minted) /\ minted \in Nat BY DEF LedgerTypeOK
<1>2. Len(ledger[t]) \in Nat BY <1>1
<1>3. RecordAt(t, n) \in 0..minted
  <2>1. CASE n = 0 BY <1>1, <2>1 DEF RecordAt, NoRecord
  <2>2. CASE n # 0
    <3>1. n \in 1..Len(ledger[t]) BY <1>2, <2>2
    <3> QED BY <1>1, <2>2, <3>1 DEF RecordAt
  <2> QED BY <2>1, <2>2
<1>4. MarkAt(t, n) \in Marks BY <1>1, <1>2, <1>3 DEF MarkAt, Marks
<1> QED BY <1>2, <1>3, <1>4, NoAnchorAssumption DEF MarkAt

(* The head of a ledger that is not empty is one of its records.           *)
LEMMA HeadFacts ==
    ASSUME LedgerTypeOK, NEW t \in Tasks, Len(ledger[t]) > 0
    PROVE  /\ LedgerHead(t) = ledger[t][Len(ledger[t])]
           /\ LedgerHead(t) \in Range(ledger[t])
<1>1. ledger[t] \in Seq(1..minted) /\ minted \in Nat BY DEF LedgerTypeOK
<1>2. Len(ledger[t]) \in Nat /\ DOMAIN ledger[t] = 1..Len(ledger[t]) BY <1>1
<1>3. LedgerHead(t) = ledger[t][Len(ledger[t])] BY <1>2 DEF LedgerHead, RecordAt
<1> QED BY <1>2, <1>3 DEF Range

(* The records of a ledger are numbers up to the last one given out.       *)
LEMMA RecordBound ==
    ASSUME LedgerTypeOK, NEW t \in Tasks, NEW x \in Range(ledger[t]) PROVE x \in 1..minted
<1>1. ledger[t] \in Seq(1..minted) BY DEF LedgerTypeOK
<1> QED BY <1>1, RangeInSet

(* The writes of the ledger keep its types.                                *)
LEMMA LedgerTypeStep ==
    ASSUME IInv, NEW t \in Tasks, StepOf(t) PROVE LedgerTypeOK'
<1>0. LedgerTypeOK /\ LedgerPart(t) BY DEF IInv, TypeOK
<1>1. /\ minted \in Nat /\ ledger \in [Tasks -> Seq(1..minted)] /\ torn \in [Tasks -> BOOLEAN]
      /\ mark \in [Tasks -> Marks \cup {NoAnchor}]
  BY <1>0 DEF LedgerTypeOK
<1>2. CASE UNCHANGED ledgerVars BY <1>1, <1>2 DEF LedgerTypeOK, ledgerVars
<1>3. CASE AppendEvidence(t)
  <2>1. /\ minted' = minted + 1 /\ ledger' = [ledger EXCEPT ![t] = Append(@, minted + 1)]
        /\ torn' = torn /\ mark' = mark
    BY <1>3 DEF AppendEvidence, AppendRecord
  <2>2. Append(ledger[t], minted + 1) \in Seq(1..(minted + 1)) BY <1>1, AppendFacts
  <2>3. \A u \in Tasks : ledger[u] \in Seq(1..(minted + 1)) BY <1>1, SeqWiden
  <2>4. ledger' \in [Tasks -> Seq(1..(minted + 1))] BY <1>1, <2>1, <2>2, <2>3
  <2> QED BY <1>1, <2>1, <2>4 DEF LedgerTypeOK
<1>4. CASE \E n \in 0..Len(ledger[t]) :
             mark' = [mark EXCEPT ![t] = MarkAt(t, n)] /\ UNCHANGED <<ledger, torn, minted>>
  BY <1>0, <1>1, <1>4, MarkFacts DEF LedgerTypeOK
<1>5. CASE Cut(t)
  <2>1. Len(ledger[t]) > 0 BY <1>0, <1>5 DEF Cut, LedgerPart, FreshOK, Appended
  <2>2. Front(ledger[t]) \in Seq(1..minted) BY <1>1, <2>1, FrontFacts
  <2>3. ledger' = [ledger EXCEPT ![t] = Front(ledger[t])] /\ UNCHANGED <<torn, mark, minted>>
    BY <1>5 DEF Cut, RollbackRecord
  <2>4. ledger' \in [Tasks -> Seq(1..minted)] BY <1>1, <2>2, <2>3
  <2> QED BY <1>1, <2>3, <2>4 DEF LedgerTypeOK
<1>6. CASE TearRecord(t) BY <1>1, <1>6 DEF TearRecord, LedgerTypeOK
<1>7. CASE Repair(t) \/ MarkRecord(t)
  <2>1. mark' = [mark EXCEPT ![t] = MarkAt(t, Len(ledger[t]))] /\ UNCHANGED <<ledger, torn, minted>>
    BY <1>7 DEF Repair, RepairMark, MarkRecord
  <2>2. Len(ledger[t]) \in 0..Len(ledger[t]) BY <1>1
  <2> QED BY <1>4, <2>1, <2>2
<1>8. CASE Undo(t)
  <2>1. CASE RollbackMark(t, fresh[t])
    <3>1. mark' = [mark EXCEPT ![t] = MarkAt(t, Len(ledger[t]) - 1)] /\ UNCHANGED <<ledger, torn, minted>>
      BY <2>1 DEF RollbackMark
    <3>2. Len(ledger[t]) > 0 BY <1>0, <1>8 DEF Undo, LedgerPart, FreshOK, Appended
    <3>3. Len(ledger[t]) - 1 \in 0..Len(ledger[t]) BY <1>1, <3>2
    <3> QED BY <1>4, <3>1, <3>3
  <2> QED BY <1>2, <1>8, <2>1 DEF Undo
<1> QED BY <1>2, <1>3, <1>5, <1>6, <1>7, <1>8 DEF StepOf, Mark, Create, Mutate, LoadState, LoadAnchor,
       AppendRefused, Verify, Plan, Enter, Recover, Revert, Restore, Preflight, WriteState,
       WriteAnchor, Commit, Raise, Crash, Clear, RecoverDone, AppendFails, UndoFails, RevertFails,
       ClearFails, Strike

(* The steps keep the variables in their types.                            *)
LEMMA TypeStep ==
    ASSUME IInv, NEW t \in Tasks, StepOf(t) PROVE TypeOK'
<1>0. /\ LedgerTypeOK' /\ TypeOK /\ LedgerTypeOK
  BY LedgerTypeStep DEF IInv, TypeOK
<1>1. /\ disk \in [Tasks -> Disks] /\ current \in Tasks \cup {Nobody}
      /\ journal \in Journals \cup {NoJournal} /\ inside \in Tasks \cup {Nobody}
      /\ pc \in [Tasks -> PCs] /\ kind \in [Tasks -> {"plain", "evidence"}]
      /\ got \in [Tasks -> Disks] /\ plan \in [Tasks -> Disks] /\ fresh \in [Tasks -> Nat]
      /\ acked \in [Tasks -> [rev : Nat, records : SUBSET Nat]] /\ hurt \in [Tasks -> SUBSET Faults]
      /\ commands \in 0..MaxCommands /\ faults \in 0..MaxFaults
  BY <1>0 DEF TypeOK
<1>2. pc' \in [Tasks -> PCs]
  <2>1. AfterFailure(t) \in PCs BY DEF AfterFailure, PCs
  <2>2. PCs = {"none", "idle", "load", "anchor", "append", "mark", "verify", "plan", "enter",
               "recover", "preflight", "state", "history", "commit", "clear", "revert", "undo", "cut"}
    BY DEF PCs
  <2>3. UNCHANGED pc \/ \E l \in PCs : Goto(t, l)
    BY <2>1, <2>2 DEF StepOf, Create, Mutate, LoadState, LoadAnchor, Repair, AppendEvidence,
           AppendRefused, Mark, Undo, Cut, Verify, Plan, Enter, Recover, Revert, Restore,
           Preflight, WriteState, WriteAnchor, Commit, Raise, Crash, Clear, RecoverDone,
           AppendFails, UndoFails, RevertFails, ClearFails, Strike
  <2> QED BY <1>1, <2>3 DEF Goto
<1>3. commands' \in 0..MaxCommands /\ faults' \in 0..MaxFaults
  BY <1>1, BoundsAssumption DEF bounds, StepOf, Create, Mutate, LoadState, LoadAnchor, Repair,
         AppendEvidence, AppendRefused, Mark, Undo, Cut, Verify, Plan, Enter, Recover, Revert,
         Restore, Preflight, WriteState, WriteAnchor, Commit, Raise, Crash, Clear, RecoverDone,
         AppendFails, UndoFails, RevertFails, ClearFails, Strike
<1>4. inside' \in Tasks \cup {Nobody} /\ current' \in Tasks \cup {Nobody}
  BY <1>1 DEF StepOf, Create, Mutate, LoadState, LoadAnchor, Repair, AppendEvidence,
         AppendRefused, Mark, Undo, Cut, Verify, Plan, Enter, Recover, Revert, Restore, Preflight,
         WriteState, WriteAnchor, Commit, Raise, Crash, Clear, RecoverDone, AppendFails,
         UndoFails, RevertFails, ClearFails, Strike
<1>5. /\ kind' \in [Tasks -> {"plain", "evidence"}] /\ fresh' \in [Tasks -> Nat]
      /\ got' \in [Tasks -> Disks] /\ plan' \in [Tasks -> Disks]
  <2>1. CASE AppendEvidence(t)
    <3>1. minted \in Nat /\ minted' = minted + 1
      BY <1>0, <2>1 DEF LedgerTypeOK, AppendEvidence, AppendRecord
    <3> QED BY <1>1, <2>1, <3>1 DEF AppendEvidence
  <2>2. ASSUME NEW c \in {"plain", "evidence"}, Mutate(t, c)
        PROVE  /\ kind' \in [Tasks -> {"plain", "evidence"}] /\ fresh' \in [Tasks -> Nat]
               /\ got' = got /\ plan' = plan
    BY <1>1, <2>2 DEF Mutate, NoRecord
  <2>3. CASE LoadState(t) BY <1>1, <2>3 DEF LoadState
  <2>4. CASE Plan(t) BY <1>1, <2>4 DEF Plan
  <2>5. CASE UNCHANGED locals BY <1>1, <2>5 DEF locals
  <2> QED BY <1>1, <2>1, <2>2, <2>3, <2>4, <2>5 DEF StepOf, Create, LoadAnchor, Repair,
         AppendRefused, Mark, Undo, Cut, Verify, Enter, Recover, Revert, Restore, Preflight,
         WriteState, WriteAnchor, Commit, Raise, Crash, Clear, RecoverDone, AppendFails,
         UndoFails, RevertFails, ClearFails, Strike
<1>6. /\ disk' \in [Tasks -> Disks] /\ journal' \in Journals \cup {NoJournal}
      /\ acked' \in [Tasks -> [rev : Nat, records : SUBSET Nat]]
  <2>1. CASE Recover(t) \/ Revert(t)
    <3>1. acked' = acked BY <2>1 DEF Recover, Revert, Restore
    <3>2. disk' \in [Tasks -> Disks] /\ journal' \in Journals \cup {NoJournal}
      BY <1>1, <2>1, RestoreFacts
    <3> QED BY <1>1, <3>1, <3>2
  <2>2. CASE Create(t)
    BY <1>1, <2>2, NewDiskFields DEF Create, Put
  <2>3. CASE Preflight(t)
    <3>1. After(t) \in Disks
      <4>1. /\ got[t].rev \in Nat /\ got[t].head \in Nat /\ plan[t].history \in SUBSET Nat
            /\ fresh[t] \in Nat
        BY <1>1, DiskFields
      <4>2. NewHead(t) \in Nat BY <4>1 DEF NewHead
      <4> QED BY <4>1, <4>2 DEF After, Disks
    <3>2. [task |-> t, before |-> disk[t], after |-> After(t), done |-> FALSE, failed |-> FALSE] \in Journals
      BY <1>1, <3>1 DEF Journals
    <3> QED BY <1>1, <2>3, <3>2 DEF Preflight
  <2>4. CASE WriteState(t) \/ WriteAnchor(t)
    <3>1. journal.after \in Disks /\ journal # NoJournal
      BY <1>0, <2>4, JournalFields DEF IInv, InsidePart, WriteState, WriteAnchor, Writing
    <3>2. disk[t] \in Disks /\ journal.after.rev \in Nat /\ journal.after.head \in Nat
          /\ journal.after.anchor \in Nat
      BY <1>1, <3>1, DiskFields
    <3>3. [disk[t] EXCEPT !.rev = journal.after.rev, !.head = journal.after.head] \in Disks
      BY <3>2, DiskFields DEF Disks
    <3>4. [disk[t] EXCEPT !.anchor = journal.after.anchor] \in Disks
      BY <3>2, DiskFields DEF Disks
    <3> QED BY <1>1, <2>4, <3>1, <3>3, <3>4 DEF WriteState, WriteAnchor, Put
  <2>5. CASE Clear(t)
    <3>1. journal.after \in Disks
      BY <1>0, <2>5, JournalFields DEF IInv, InsidePart, Clear, Writing
    <3>2. journal.after.rev \in Nat BY <3>1, DiskFields
    <3>3. acked[t].records \in SUBSET Nat /\ fresh[t] \in Nat BY <1>1
    <3>4. [rev |-> journal.after.rev, records |-> acked[t].records \cup ({fresh[t]} \ {NoRecord})]
            \in [rev : Nat, records : SUBSET Nat]
      BY <3>2, <3>3
    <3>5. acked' = [acked EXCEPT ![t] = [rev |-> journal.after.rev,
                        records |-> acked[t].records \cup ({fresh[t]} \ {NoRecord})]]
      BY <2>5 DEF Clear
    <3>6. acked' \in [Tasks -> [rev : Nat, records : SUBSET Nat]] BY <1>1, <3>4, <3>5
    <3> QED BY <1>1, <2>5, <3>6 DEF Clear
  <2>7. CASE Commit(t) \/ RevertFails(t)
    <3>1. journal \in Journals
      BY <1>0, <2>7, JournalFields DEF IInv, InsidePart, Commit, RevertFails, Writing
    <3>4. journal' = [journal EXCEPT !.done = TRUE] \/ journal' = [journal EXCEPT !.failed = TRUE]
      BY <2>7 DEF Commit, RevertFails
    <3>2. journal' \in Journals BY <3>1, <3>4, FlagFields
    <3>3. UNCHANGED <<disk, acked>> BY <2>7 DEF Commit, RevertFails
    <3> QED BY <1>1, <3>2, <3>3
  <2>8. CASE RecoverDone(t) \/ ClearFails(t) BY <1>1, <2>8 DEF RecoverDone, ClearFails
  <2>6. CASE UNCHANGED <<disk, journal, acked>> BY <1>1, <2>6
  <2> QED BY <2>1, <2>2, <2>3, <2>4, <2>5, <2>6, <2>7, <2>8 DEF StepOf, Mutate, LoadState,
         LoadAnchor, Repair, AppendEvidence, AppendRefused, Mark, Undo, Cut, Verify, Plan, Enter, Raise,
         Crash, AppendFails, UndoFails
<1>7. hurt' \in [Tasks -> SUBSET Faults]
  <2>1. ASSUME NEW what \in Faults, Strike(t, what) PROVE hurt' \in [Tasks -> SUBSET Faults]
    BY <1>1, <2>1 DEF Strike
  <2>2. CASE UNCHANGED hurt BY <1>1, <2>2
  <2>3. {"crash", "append", "undo", "rollback", "late"} = Faults BY DEF Faults
  <2> QED BY <2>1, <2>2, <2>3 DEF StepOf, Create, Mutate, LoadState, LoadAnchor, Repair,
         AppendEvidence, AppendRefused, Mark, Undo, Cut, Verify, Plan, Enter, Recover, Revert, Restore,
         Preflight, WriteState, WriteAnchor, Commit, Raise, Crash, Clear, RecoverDone, AppendFails,
         UndoFails, RevertFails, ClearFails
<1> QED BY <1>0, <1>2, <1>3, <1>4, <1>5, <1>6, <1>7 DEF TypeOK

(* What has struck a task is not forgotten.                                *)
LEMMA HurtGrows ==
    ASSUME TypeOK, NEW t \in Tasks, StepOf(t), NEW u \in Tasks PROVE hurt[u] \subseteq hurt'[u]
<1>1. hurt \in [Tasks -> SUBSET Faults] BY DEF TypeOK
<1>2. ASSUME NEW what, Strike(t, what) PROVE hurt[u] \subseteq hurt'[u] BY <1>1, <1>2 DEF Strike
<1> QED BY <1>2 DEF StepOf, Create, Mutate, LoadState, LoadAnchor, Repair,
       AppendEvidence, AppendRefused, Mark, Undo, Cut, Verify, Plan, Enter, Recover, Revert, Restore,
       Preflight, WriteState, WriteAnchor, Commit, Raise, Crash, Clear, RecoverDone, AppendFails,
       UndoFails, RevertFails, ClearFails

(***************************************************************************)
(* The ledger of the task whose process moves.                             *)
(***************************************************************************)

(* Where the process goes, as far as its record is concerned.              *)
LEMMA PcMoves ==
    ASSUME IInv, NEW t \in Tasks, StepOf(t)
    PROVE  /\ pc'[t] \in {"load", "anchor", "append"} =>
                (pc[t] \in {"load", "anchor", "append"} /\ fresh'[t] = fresh[t]) \/ fresh'[t] = NoRecord
           /\ pc'[t] \in Appended /\ ~AppendEvidence(t) =>
                pc[t] \in {"anchor"} \cup Appended /\ fresh'[t] = fresh[t] /\ acked'[t] = acked[t]
           /\ pc'[t] \in {"mark", "undo", "cut"} /\ ~AppendEvidence(t) => fresh'[t] # NoRecord
           /\ pc'[t] = "cut" => Undo(t) /\ RollbackMark(t, fresh[t])
<1>0. /\ pc \in [Tasks -> PCs] /\ fresh \in [Tasks -> Nat] /\ FreshOK(t)
      /\ acked \in [Tasks -> [rev : Nat, records : SUBSET Nat]]
  BY DEF IInv, TypeOK, LedgerPart
<1>1. CASE Recover(t) \/ Revert(t)
  <2>1. UNCHANGED <<fresh, acked>> /\ pc[t] \in {"recover", "revert"}
    BY <1>1 DEF Recover, Revert, Restore, locals
  <2>2. pc'[t] = pc[t] \/ (pc[t] = "recover" /\ pc'[t] = "preflight") \/ pc'[t] = AfterFailure(t)
    BY <1>0, <1>1, RestoreFacts DEF Goto, Recover, Restore
  <2> QED BY <1>0, <1>1, <2>1, <2>2 DEF AfterFailure, Appended, Saving, InTransaction, Writing
<1>2. CASE AppendEvidence(t)
  <2>1. pc'[t] = "mark" BY <1>0, <1>2 DEF AppendEvidence, Goto
  <2> QED BY <1>2, <2>1
<1>3. CASE Create(t) \/ (\E c \in {"plain", "evidence"} : Mutate(t, c)) \/ LoadState(t) \/ LoadAnchor(t)
           \/ Repair(t) \/ AppendRefused(t) \/ Mark(t) \/ Undo(t) \/ Cut(t) \/ Verify(t) \/ Plan(t)
  <2>1. \/ pc'[t] = "idle"
        \/ pc'[t] = "load" /\ fresh'[t] = NoRecord
        \/ pc[t] = "load" /\ pc'[t] = "anchor" /\ fresh' = fresh
        \/ pc[t] = "anchor" /\ pc'[t] \in {"append", "verify"} /\ fresh' = fresh /\ acked' = acked
        \/ pc[t] = "append" /\ pc'[t] = "append" /\ fresh' = fresh
        \/ pc[t] = "mark" /\ pc'[t] = "verify" /\ fresh' = fresh /\ acked' = acked
        \/ pc[t] = "undo" /\ pc'[t] = "cut" /\ fresh' = fresh /\ acked' = acked
           /\ Undo(t) /\ RollbackMark(t, fresh[t])
        \/ pc[t] = "verify" /\ pc'[t] = "plan" /\ fresh' = fresh /\ acked' = acked
        \/ pc[t] = "plan" /\ pc'[t] = "enter" /\ fresh' = fresh /\ acked' = acked
    BY <1>0, <1>3 DEF Create, Mutate, LoadState, LoadAnchor, Repair, AppendRefused, Mark, Undo, Cut,
                      Verify, Plan, Goto, locals
  <2> QED BY <1>0, <2>1 DEF FreshOK, Appended, Saving, InTransaction, Writing
<1>4. CASE Enter(t) \/ Preflight(t) \/ WriteState(t) \/ WriteAnchor(t) \/ Commit(t) \/ Clear(t)
           \/ RecoverDone(t) \/ AppendFails(t) \/ UndoFails(t) \/ RevertFails(t) \/ ClearFails(t)
           \/ Raise(t) \/ Crash(t)
  <2>1. \/ pc'[t] = "idle"
        \/ pc[t] \in Saving /\ pc'[t] \in Saving \cup {AfterFailure(t)} /\ fresh' = fresh /\ acked' = acked
    BY <1>0, <1>4 DEF Enter, Preflight, WriteState, WriteAnchor, Commit, Raise, Crash, Goto,
           locals, Saving, InTransaction, Writing, Clear, RecoverDone, AppendFails, UndoFails,
           RevertFails, ClearFails, Strike
  <2> QED BY <1>0, <2>1 DEF AfterFailure, Appended, Saving, InTransaction, Writing
<1> QED BY <1>1, <1>2, <1>3, <1>4 DEF StepOf

(* The ledger, the anchor and the record in hand after a step.             *)
LEMMA LedgerStep ==
    ASSUME IInv, NEW t \in Tasks, StepOf(t) PROVE LedgerPart(t)'
<1>0. /\ LedgerTypeOK /\ MarkOK(t) /\ FreshOK(t) /\ AckedOK(t)
      /\ pc \in [Tasks -> PCs] /\ fresh \in [Tasks -> Nat]
      /\ acked \in [Tasks -> [rev : Nat, records : SUBSET Nat]]
  BY DEF IInv, TypeOK, LedgerPart
<1>1. /\ minted \in Nat /\ ledger \in [Tasks -> Seq(1..minted)] /\ torn \in [Tasks -> BOOLEAN]
      /\ mark \in [Tasks -> Marks \cup {NoAnchor}] /\ ledger[t] \in Seq(1..minted)
      /\ Len(ledger[t]) \in Nat
  BY <1>0 DEF LedgerTypeOK
<1>2. ASSUME UNCHANGED <<ledger, mark>>
      PROVE  LedgerPart(t)'
  <2>1. MarkOK(t)' BY <1>0, <1>2 DEF MarkOK, MarkAt, RecordAt
  <2>2. ~AppendEvidence(t) /\ ~(Undo(t) /\ RollbackMark(t, fresh[t]))
    <3>1. ~AppendEvidence(t)
      <4> SUFFICES ASSUME AppendEvidence(t) PROVE FALSE OBVIOUS
      <4>1. ledger'[t] = Append(ledger[t], minted + 1) BY <1>1 DEF AppendEvidence, AppendRecord
      <4>2. Len(ledger'[t]) = Len(ledger[t]) + 1 BY <1>1, <4>1, AppendFacts
      <4> QED BY <1>1, <1>2, <4>2
    <3>2. ~(Undo(t) /\ RollbackMark(t, fresh[t]))
      <4> SUFFICES ASSUME Undo(t), RollbackMark(t, fresh[t]) PROVE FALSE OBVIOUS
      <4>1. Len(ledger[t]) > 0 BY <1>0 DEF FreshOK, Undo, Appended
      <4>2. mark'[t] = MarkAt(t, Len(ledger[t]) - 1) BY <1>1 DEF RollbackMark
      <4>3. mark[t] = MarkAt(t, Len(ledger[t]))
        BY DEF RollbackMark, CanRollback, Verified
      <4>4. mark[t].count = Len(ledger[t]) /\ mark'[t].count = Len(ledger[t]) - 1
        BY <4>2, <4>3 DEF MarkAt
      <4> QED BY <1>1, <1>2, <4>4
    <3> QED BY <3>1, <3>2
  <2>3. FreshOK(t)'
    <3>1. /\ pc'[t] \in {"load", "anchor", "append"} => fresh'[t] = NoRecord
          /\ pc'[t] \in {"mark", "undo", "cut"} => fresh'[t] # NoRecord
          /\ pc'[t] # "cut"
      BY <1>0, <2>2, PcMoves DEF FreshOK
    <3>2. ASSUME pc'[t] \in Appended, fresh'[t] # NoRecord
          PROVE  /\ Len(ledger[t]) > 0 /\ LedgerHead(t) = fresh'[t]
                 /\ fresh'[t] \notin acked'[t].records
      BY <1>0, <2>2, <3>2, PcMoves DEF FreshOK
    <3> QED BY <1>2, <3>1, <3>2 DEF FreshOK, LedgerHead, RecordAt
  <2>4. AckedOK(t)'
    <3>1. CASE Clear(t)
      <4>1. acked'[t].records = acked[t].records \cup ({fresh[t]} \ {NoRecord})
        BY <1>0, <3>1 DEF Clear
      <4>2. fresh[t] # NoRecord => fresh[t] \in Range(ledger[t])
        BY <1>0, <3>1, HeadFacts DEF FreshOK, Clear, Appended, Saving, InTransaction, Writing
      <4> QED BY <1>0, <1>2, <4>1, <4>2 DEF AckedOK
    <3>2. CASE ~Clear(t)
      <4>1. acked' = acked
        BY <3>2 DEF StepOf, Create, Mutate, LoadState, LoadAnchor, Repair, AppendEvidence,
               AppendRefused, Mark, Undo, Cut, Verify, Plan, Enter, Recover, Revert, Restore,
               Preflight, WriteState, WriteAnchor, Commit, Raise, Crash, RecoverDone, AppendFails,
               UndoFails, RevertFails, ClearFails, Strike
      <4> QED BY <1>0, <1>2, <4>1 DEF AckedOK
    <3> QED BY <3>1, <3>2
  <2> QED BY <2>1, <2>3, <2>4 DEF LedgerPart
<1>3. CASE AppendEvidence(t)
  <2> DEFINE a == Append(ledger[t], minted + 1)
  <2>1. /\ ledger'[t] = a /\ mark' = mark /\ fresh'[t] = minted + 1 /\ pc'[t] = "mark" /\ acked' = acked
    BY <1>0, <1>1, <1>3 DEF AppendEvidence, AppendRecord, Goto
  <2>2. /\ Len(a) = Len(ledger[t]) + 1 /\ a[Len(ledger[t]) + 1] = minted + 1
        /\ \A k \in 1..Len(ledger[t]) : a[k] = ledger[t][k]
        /\ Range(ledger[t]) \subseteq Range(a)
    BY <1>1, AppendFacts
  <2> HIDE DEF a
  <2>3. MarkOK(t)'
    <3> SUFFICES ASSUME mark[t] # NoAnchor
                 PROVE  mark[t].count \in 0..Len(a) /\ mark[t] = MarkAt(t, mark[t].count)'
      BY <2>1 DEF MarkOK
    <3>1. mark[t].count \in 0..Len(ledger[t]) /\ mark[t] = MarkAt(t, mark[t].count)
      BY <1>0 DEF MarkOK
    <3>2. RecordAt(t, mark[t].count)' = RecordAt(t, mark[t].count)
      BY <1>1, <2>1, <2>2, <3>1 DEF RecordAt
    <3>3. MarkAt(t, mark[t].count)' = MarkAt(t, mark[t].count) BY <2>1, <3>2 DEF MarkAt
    <3> QED BY <1>1, <2>2, <3>1, <3>3
  <2>4. AckedOK(t)' BY <1>0, <2>1, <2>2 DEF AckedOK
  <2>5. FreshOK(t)'
    <3>1. LedgerHead(t)' = minted + 1 BY <1>1, <2>1, <2>2 DEF LedgerHead, RecordAt
    <3>2. minted + 1 \notin acked[t].records BY <1>0, <1>1, RecordBound DEF AckedOK
    <3> QED BY <1>1, <2>1, <2>2, <3>1, <3>2 DEF FreshOK, NoRecord
  <2> QED BY <2>3, <2>4, <2>5 DEF LedgerPart
<1>4. ASSUME NEW n \in 0..Len(ledger[t]), mark' = [mark EXCEPT ![t] = MarkAt(t, n)], UNCHANGED ledger,
             ~Clear(t), ~AppendEvidence(t), pc'[t] = "cut" => n = Len(ledger[t]) - 1
      PROVE  LedgerPart(t)'
  <2>1. MarkOK(t)'
    <3>1. mark'[t] = MarkAt(t, n) /\ mark'[t].count = n BY <1>0, <1>1, <1>4, MarkFacts
    <3> QED BY <1>4, <3>1 DEF MarkOK, MarkAt, RecordAt
  <2>2. acked' = acked
    BY <1>4 DEF StepOf, Create, Mutate, LoadState, LoadAnchor, Repair, AppendRefused, Mark, Undo,
           Cut, Verify, Plan, Enter, Recover, Revert, Restore, Preflight, WriteState, WriteAnchor,
           Commit, Raise, Crash, RecoverDone, AppendFails, UndoFails, RevertFails, ClearFails, Strike
  <2>3. FreshOK(t)'
    <3>1. /\ pc'[t] \in {"load", "anchor", "append"} => fresh'[t] = NoRecord
          /\ pc'[t] \in {"mark", "undo", "cut"} => fresh'[t] # NoRecord
      BY <1>0, <1>4, PcMoves DEF FreshOK
    <3>2. ASSUME pc'[t] \in Appended, fresh'[t] # NoRecord
          PROVE  /\ Len(ledger[t]) > 0 /\ LedgerHead(t) = fresh'[t]
                 /\ fresh'[t] \notin acked'[t].records
      BY <1>0, <1>4, <3>2, PcMoves DEF FreshOK
    <3>3. pc'[t] = "cut" => mark'[t] # NoAnchor /\ mark'[t].count = Len(ledger[t]) - 1
      BY <1>0, <1>1, <1>4, MarkFacts
    <3> QED BY <1>4, <3>1, <3>2, <3>3 DEF FreshOK, LedgerHead, RecordAt
  <2> QED BY <1>0, <1>4, <2>1, <2>2, <2>3 DEF LedgerPart, AckedOK
<1>5. CASE Repair(t) \/ ((Mark(t) \/ AppendFails(t)) /\ MarkRecord(t))
  <2>1. mark' = [mark EXCEPT ![t] = MarkAt(t, Len(ledger[t]))] /\ UNCHANGED ledger
    BY <1>5 DEF Repair, RepairMark, MarkRecord
  <2>2. pc'[t] # "cut" /\ pc[t] \notin {"clear", "undo"} /\ ~AppendEvidence(t)
    <3>1. UNCHANGED minted /\ pc'[t] # "cut" /\ pc[t] \notin {"clear", "undo"}
      BY <1>0, <1>5 DEF Repair, RepairMark, Mark, AppendFails, MarkRecord, Goto
    <3> QED BY <1>1, <3>1 DEF AppendEvidence, AppendRecord
  <2>3. Len(ledger[t]) \in 0..Len(ledger[t]) BY <1>1
  <2> QED BY <1>4, <2>1, <2>2, <2>3 DEF Clear
<1>6. CASE Undo(t) /\ RollbackMark(t, fresh[t])
  <2>1. mark' = [mark EXCEPT ![t] = MarkAt(t, Len(ledger[t]) - 1)] /\ UNCHANGED <<ledger, minted>>
    BY <1>6 DEF RollbackMark
  <2>2. Len(ledger[t]) > 0 BY <1>0, <1>6 DEF Undo, FreshOK, Appended
  <2>3. Len(ledger[t]) - 1 \in 0..Len(ledger[t]) BY <1>1, <2>2
  <2>4. ~Clear(t) /\ ~AppendEvidence(t)
    BY <1>1, <1>6 DEF Clear, Undo, AppendEvidence
  <2> QED BY <1>4, <2>1, <2>3, <2>4
<1>7. CASE Cut(t)
  <2> DEFINE f == Front(ledger[t])
  <2>1. /\ Len(ledger[t]) > 0 /\ LedgerHead(t) = fresh[t] /\ fresh[t] \notin acked[t].records
        /\ mark[t] # NoAnchor /\ mark[t].count = Len(ledger[t]) - 1
    BY <1>0, <1>7 DEF Cut, FreshOK, Appended
  <2>2. ledger'[t] = f /\ mark' = mark /\ acked' = acked /\ pc'[t] = "idle"
    BY <1>0, <1>1, <1>7 DEF Cut, RollbackRecord, Goto
  <2>3. /\ Len(f) = Len(ledger[t]) - 1 /\ \A k \in 1..(Len(ledger[t]) - 1) : f[k] = ledger[t][k]
        /\ \A x \in Range(ledger[t]) : x # ledger[t][Len(ledger[t])] => x \in Range(f)
    BY <1>1, <2>1, FrontFacts
  <2> HIDE DEF f
  <2>4. MarkOK(t)'
    <3>1. mark[t] = MarkAt(t, mark[t].count) BY <1>0, <2>1 DEF MarkOK
    <3>2. RecordAt(t, mark[t].count)' = RecordAt(t, mark[t].count)
      <4> DEFINE n == Len(ledger[t]) - 1
      <4>0. Len(ledger[t]) \in Nat /\ Len(ledger[t]) > 0 BY <1>1, <2>1
      <4>1. n \in Nat BY <4>0
      <4>2. \A m \in Nat : m # 0 => m \in 1..m OBVIOUS
      <4>3. \A k \in 1..n : f[k] = ledger[t][k] BY <2>3
      <4> HIDE DEF n
      <4>4. n # 0 => f[n] = ledger[t][n] BY <4>1, <4>2, <4>3
      <4>5. mark[t].count = n /\ mark'[t].count = n BY <2>1, <2>2 DEF n
      <4> QED BY <2>2, <4>4, <4>5 DEF RecordAt
    <3>3. mark[t].count \in 0..Len(f) BY <1>1, <2>1, <2>3
    <3> QED BY <2>2, <3>1, <3>2, <3>3 DEF MarkOK, MarkAt
  <2>5. AckedOK(t)'
    <3>1. fresh[t] = ledger[t][Len(ledger[t])] BY <1>0, <2>1, HeadFacts
    <3> QED BY <1>0, <2>1, <2>2, <2>3, <3>1 DEF AckedOK
  <2>6. FreshOK(t)' BY <2>2 DEF FreshOK, Appended, Saving, InTransaction, Writing
  <2> QED BY <2>4, <2>5, <2>6 DEF LedgerPart
<1> QED BY <1>2, <1>3, <1>5, <1>6, <1>7 DEF ledgerVars, Mark, StepOf, Create, Mutate, LoadState,
       LoadAnchor, AppendRefused, Undo, Verify, Plan, Enter, Recover, Revert, Restore, Preflight,
       WriteState, WriteAnchor, Commit, Raise, Crash, TearRecord, Clear, RecoverDone, AppendFails,
       UndoFails, RevertFails, ClearFails, Strike

(***************************************************************************)
(* The files and the journal.                                              *)
(***************************************************************************)

(* A head in the ledger that is not the record in hand stays in the ledger *)
(* whatever the process of the task does.                                  *)
LEMMA KnownKept ==
    ASSUME IInv, NEW t \in Tasks, StepOf(t), NEW h \in Nat,
           KnownIn(ledger[t], h), SparedAt(pc[t], fresh[t], h)
    PROVE  KnownIn(ledger'[t], h) /\ SparedAt(pc'[t], fresh'[t], h)
<1>0. /\ LedgerTypeOK /\ FreshOK(t) /\ pc \in [Tasks -> PCs] /\ fresh \in [Tasks -> Nat]
      /\ minted \in Nat /\ ledger \in [Tasks -> Seq(1..minted)] /\ ledger[t] \in Seq(1..minted)
  BY DEF IInv, TypeOK, LedgerPart, LedgerTypeOK
<1>2. CASE AppendEvidence(t)
  <2>1. ledger'[t] = Append(ledger[t], minted + 1) /\ fresh'[t] = minted + 1
    BY <1>0, <1>2 DEF AppendEvidence, AppendRecord
  <2>2. Range(ledger[t]) \subseteq Range(ledger'[t]) BY <1>0, <2>1, AppendFacts
  <2>3. h # minted + 1
    <3>1. CASE h = NoRecord BY <1>0, <3>1 DEF NoRecord
    <3>2. CASE h # NoRecord
      <4>1. h \in Range(ledger[t]) BY <3>2 DEF KnownIn
      <4>2. h \in 1..minted BY <1>0, <4>1, RecordBound
      <4> QED BY <1>0, <4>2
    <3> QED BY <3>1, <3>2
  <2> QED BY <2>1, <2>2, <2>3 DEF KnownIn, SparedAt
<1>3. CASE Cut(t)
  <2>1. /\ Len(ledger[t]) > 0 /\ LedgerHead(t) = fresh[t] /\ fresh[t] # NoRecord /\ h # fresh[t]
    BY <1>0, <1>3 DEF Cut, FreshOK, Appended, SparedAt
  <2>2. ledger'[t] = Front(ledger[t]) /\ pc'[t] = "idle"
    BY <1>0, <1>3 DEF Cut, RollbackRecord, Goto
  <2>3. fresh[t] = ledger[t][Len(ledger[t])] BY <1>0, <2>1, HeadFacts
  <2>4. h = NoRecord \/ h \in Range(ledger'[t]) BY <1>0, <2>1, <2>2, <2>3, FrontFacts DEF KnownIn
  <2> QED BY <2>2, <2>4 DEF KnownIn, SparedAt, Appended, Saving, InTransaction, Writing
<1>4. CASE ~AppendEvidence(t) /\ ~Cut(t)
  <2>1. ledger' = ledger
    BY <1>4 DEF ledgerVars, RepairMark, MarkRecord, RollbackMark, TearRecord,
         StepOf, Create, Mutate, LoadState, LoadAnchor, Repair, AppendEvidence, AppendRefused,
         Mark, Undo, Cut, Verify, Plan, Enter, Recover, Revert, Restore, Preflight, WriteState,
         WriteAnchor, Commit, Clear, Raise, Crash, RecoverDone, AppendFails, UndoFails, RevertFails,
         ClearFails
  <2>2. pc'[t] \in Appended /\ fresh'[t] # NoRecord => pc[t] \in Appended /\ fresh'[t] = fresh[t]
    BY <1>0, <1>4, PcMoves DEF FreshOK
  <2> QED BY <2>1, <2>2 DEF KnownIn, SparedAt
<1> QED BY <1>2, <1>3, <1>4

(* So does the process of another task.                                    *)
LEMMA KnownElsewhere ==
    ASSUME IInv, NEW t \in Tasks, StepOf(t), NEW u \in Tasks, u # t, NEW h,
           KnownIn(ledger[u], h), SparedAt(pc[u], fresh[u], h)
    PROVE  KnownIn(ledger'[u], h) /\ SparedAt(pc'[u], fresh'[u], h)
BY OthersStay DEF IInv

(* What becomes of the journal in a step.                                  *)
LEMMA JournalMoves ==
    ASSUME IInv, NEW t \in Tasks, StepOf(t)
    PROVE  \/ journal' = journal
           \/ /\ Commit(t) \/ RevertFails(t)
              /\ journal # NoJournal /\ journal' \in Journals /\ journal' # NoJournal
              /\ journal'.task = t /\ journal.task = t /\ disk' = disk
              /\ journal'.before = journal.before /\ journal'.after = journal.after
              /\ ~journal.failed /\ UNCHANGED <<ledger, fresh, acked, got>>
              /\ journal'.failed /\ journal'.done => "late" \in hurt'[t]
              /\ Commit(t) => ~journal'.failed
              /\ RevertFails(t) => journal'.failed
           \/ /\ Preflight(t) /\ disk[t] = plan[t] /\ journal = NoJournal /\ journal' # NoJournal
              /\ journal'.task = t /\ journal'.before = disk[t] /\ journal'.after = After(t)
              /\ ~journal'.failed
           \/ /\ journal # NoJournal /\ journal' = NoJournal /\ disk' = disk
              /\ \/ disk[journal.task] = journal.before
                 \/ ~journal.failed
                 \/ "late" \in hurt'[journal.task]
<1>0. /\ TypeOK /\ JournalPart /\ InsidePart(t) /\ hurt \in [Tasks -> SUBSET Faults]
      /\ pc \in [Tasks -> PCs] /\ disk \in [Tasks -> Disks]
  BY DEF IInv, TypeOK
<1>1. CASE Recover(t) \/ Revert(t) BY <1>1, RestoreFacts
<1>2. CASE Commit(t) \/ RevertFails(t)
  <2>1. /\ journal # NoJournal /\ journal.task = t /\ ~journal.failed
        /\ pc[t] \in {"commit", "revert"}
    BY <1>0, <1>2 DEF Commit, RevertFails, InsidePart, Writing
  <2>2. journal \in Journals BY <1>0, <2>1, JournalFields
  <2>3. /\ UNCHANGED <<disk, ledger, fresh, acked, got>>
        /\ \/ journal' = [journal EXCEPT !.done = TRUE] /\ pc[t] = "commit"
           \/ journal' = [journal EXCEPT !.failed = TRUE] /\ pc[t] = "revert"
              /\ hurt' = [hurt EXCEPT ![t] = @ \cup {IF journal.done THEN "late" ELSE "rollback"}]
    BY <1>2 DEF Commit, RevertFails, Strike, ledgerVars, locals
  <2>4. CASE journal' = [journal EXCEPT !.done = TRUE] /\ pc[t] = "commit"
    <3>1. /\ journal' \in Journals /\ journal'.task = journal.task
          /\ journal'.before = journal.before /\ journal'.after = journal.after
          /\ journal'.failed <=> journal.failed
      BY <2>2, <2>4, FlagFields
    <3>2. journal' # NoJournal BY <3>1, NamesAssumption
    <3>3. ~RevertFails(t) BY <2>4 DEF RevertFails
    <3> QED BY <1>2, <2>1, <2>3, <3>1, <3>2, <3>3
  <2>5. CASE /\ journal' = [journal EXCEPT !.failed = TRUE] /\ pc[t] = "revert"
             /\ hurt' = [hurt EXCEPT ![t] = @ \cup {IF journal.done THEN "late" ELSE "rollback"}]
    <3>1. /\ journal' \in Journals /\ journal'.task = journal.task
          /\ journal'.before = journal.before /\ journal'.after = journal.after
          /\ journal'.failed /\ (journal'.done <=> journal.done)
      BY <2>2, <2>5, FlagFields
    <3>2. journal' # NoJournal BY <3>1, NamesAssumption
    <3>3. ~Commit(t) BY <2>5 DEF Commit
    <3>4. journal.done => "late" \in hurt'[t] BY <1>0, <2>5
    <3> QED BY <1>2, <2>1, <2>3, <3>1, <3>2, <3>3, <3>4
  <2> QED BY <2>3, <2>4, <2>5
<1>3. CASE Preflight(t)
  <2>1. journal = NoJournal BY <1>0, <1>3 DEF Preflight, InsidePart
  <2>2. CASE disk[t] = plan[t]
    <3>1. journal' = [task |-> t, before |-> disk[t], after |-> After(t),
                      done |-> FALSE, failed |-> FALSE]
      BY <1>3, <2>2 DEF Preflight
    <3>2. journal' # NoJournal
      <4>1. TypeOK' BY TypeStep
      <4>2. /\ got[t].rev \in Nat /\ got[t].head \in Nat /\ plan[t].history \in SUBSET Nat
            /\ fresh[t] \in Nat
        BY <1>0, DiskFields DEF TypeOK
      <4>3. After(t) \in Disks BY <4>2 DEF After, Disks, NewHead
      <4>4. journal' \in Journals BY <1>0, <3>1, <4>3 DEF Journals
      <4> QED BY <4>4, NamesAssumption
    <3> QED BY <1>3, <2>1, <2>2, <3>1, <3>2
  <2>3. CASE disk[t] # plan[t] BY <1>3, <2>3 DEF Preflight
  <2> QED BY <2>2, <2>3
<1>4. CASE RecoverDone(t)
  <2>1. journal # NoJournal /\ journal.done /\ journal' = NoJournal /\ UNCHANGED <<disk, hurt>>
    BY <1>4 DEF RecoverDone
  <2> QED BY <1>0, <2>1 DEF JournalPart
<1>5. CASE Clear(t) \/ ClearFails(t)
  <2>1. journal # NoJournal /\ ~journal.failed
    BY <1>0, <1>5 DEF Clear, ClearFails, InsidePart, Writing
  <2> QED BY <1>5, <2>1 DEF Clear, ClearFails
<1>6. CASE UNCHANGED journal BY <1>6
<1> QED BY <1>1, <1>2, <1>3, <1>4, <1>5, <1>6 DEF WriteState, WriteAnchor,
         StepOf, Create, Mutate, LoadState, LoadAnchor, Repair, AppendEvidence, AppendRefused,
         Mark, Undo, Cut, Verify, Plan, Enter, Raise, Crash, AppendFails, UndoFails

(* Who is inside, and whose the journal is.                                *)
LEMMA InsideStep ==
    ASSUME IInv, NEW t \in Tasks, StepOf(t), NEW u \in Tasks PROVE InsidePart(u)'
<1>0. /\ TypeOK /\ InsidePart(t) /\ InsidePart(u) /\ DiskPart(t) /\ LedgerPart(t)
      /\ pc \in [Tasks -> PCs] /\ inside \in Tasks \cup {Nobody}
      /\ disk \in [Tasks -> Disks]
  BY DEF IInv, TypeOK
<1>1. CASE u # t
  <2>1. /\ pc'[u] = pc[u] /\ ledger'[u] = ledger[u] /\ acked'[u] = acked[u]
    BY <1>0, <1>1, OthersStay
  <2>2. inside = u => UNCHANGED <<inside, journal>> /\ disk'[u] = disk[u]
    <3>1. CASE Recover(t) \/ Revert(t) BY <1>1, <3>1, RestoreFacts
    <3>2. CASE ~(Recover(t) \/ Revert(t))
      BY <1>1, <3>2, FilesStay, NamesAssumption
    <3> QED BY <3>1, <3>2
  <2>3. inside # u => inside' # u
    <3>1. CASE Recover(t) \/ Revert(t)
      <4>1. inside' \in {inside, Nobody} BY <3>1, RestoreFacts
      <4> QED BY <4>1, NamesAssumption
    <3>2. CASE ~(Recover(t) \/ Revert(t))
      BY <1>1, <3>2, FilesStay, NamesAssumption
    <3> QED BY <3>1, <3>2
  <2>4. CASE inside = u
    BY <1>0, <2>1, <2>2, <2>4 DEF InsidePart, Known
  <2>5. CASE inside # u
    BY <1>0, <2>1, <2>3, <2>5 DEF InsidePart, InTransaction, Writing
  <2> QED BY <2>4, <2>5
<1>2. CASE u = t
  <2>1. CASE Recover(t) \/ Revert(t)
    <3>1. UNCHANGED <<ledger, acked>> /\ pc[t] \in {"recover", "revert"} /\ inside = t
      BY <2>1, RestoreFacts DEF Recover, Revert, Restore, ledgerVars
    <3>2. CASE journal' = journal /\ pc' = pc /\ inside' = inside
      BY <1>0, <1>2, <3>1, <3>2 DEF InsidePart, Known, InTransaction, Writing
    <3>3. CASE journal' = NoJournal /\ Goto(t, "preflight") /\ inside' = inside
      BY <1>0, <1>2, <3>1, <3>3 DEF InsidePart, Goto, InTransaction, Writing
    <3>4. CASE journal' = NoJournal /\ Goto(t, AfterFailure(t)) /\ inside' = Nobody
      BY <1>0, <1>2, <3>1, <3>4, NamesAssumption DEF InsidePart, Goto, AfterFailure, InTransaction, Writing
    <3> QED BY <2>1, <3>2, <3>3, <3>4, RestoreFacts
  <2>2. CASE Enter(t)
    BY <1>0, <1>2, <2>2 DEF Enter, Goto, InsidePart, InTransaction, Writing
  <2>3. CASE Preflight(t)
    <3>1. CASE disk[t] = plan[t]
      <4>1. /\ pc'[t] = "state" /\ UNCHANGED <<inside, ledger, acked>> /\ pc[t] = "preflight"
            /\ journal = NoJournal /\ journal' # journal
        <5>1. journal' = [task |-> t, before |-> disk[t], after |-> After(t),
                          done |-> FALSE, failed |-> FALSE]
          BY <2>3, <3>1 DEF Preflight
        <5>2. journal = NoJournal BY <1>0, <2>3 DEF Preflight, InsidePart
        <5>3. After(t) \in Disks
          <6>1. /\ got[t].rev \in Nat /\ got[t].head \in Nat /\ plan[t].history \in SUBSET Nat
                /\ fresh[t] \in Nat
            BY <1>0, DiskFields DEF TypeOK
          <6> QED BY <6>1 DEF After, Disks, NewHead
        <5>4. journal' \in Journals BY <1>0, <5>1, <5>3 DEF Journals
        <5> QED BY <1>0, <2>3, <3>1, <5>2, <5>4, NamesAssumption DEF Preflight, Goto, ledgerVars
      <4>2. /\ journal'.task = t /\ journal'.after = After(t) /\ ~journal'.failed
            /\ journal' # NoJournal
        BY <4>1, JournalMoves
      <4>3. KnownIn(ledger[t], NewHead(t))
        <5>1. LedgerHead(t) = NewHead(t) BY <1>0, <4>1 DEF DiskPart, InTransaction
        <5>2. Len(ledger[t]) \in Nat BY <1>0 DEF TypeOK, LedgerTypeOK
        <5>3. CASE Len(ledger[t]) = 0 BY <5>1, <5>3 DEF LedgerHead, RecordAt, KnownIn
        <5>4. CASE Len(ledger[t]) > 0 BY <1>0, <5>1, <5>4, HeadFacts DEF TypeOK, KnownIn
        <5> QED BY <5>2, <5>3, <5>4
      <4>4. got[t].rev + 1 >= acked[t].rev
        <5>1. got[t].rev >= acked[t].rev
          BY <1>0, <4>1 DEF DiskPart, Loaded, Saving, InTransaction
        <5>2. got[t].rev \in Nat /\ acked[t].rev \in Nat BY <1>0, DiskFields DEF TypeOK
        <5> QED BY <5>1, <5>2
      <4>5. /\ journal'.after.rev = got[t].rev + 1 /\ journal'.after.head = NewHead(t)
        BY <4>2 DEF After
      <4> QED BY <1>0, <1>2, <4>1, <4>2, <4>3, <4>4, <4>5 DEF InsidePart, Known, InTransaction, Writing
    <3>2. CASE disk[t] # plan[t]
      BY <1>0, <1>2, <2>3, <3>2, NamesAssumption
         DEF Preflight, Goto, InsidePart, AfterFailure, InTransaction, Writing
    <3> QED BY <3>1, <3>2
  <2>4. CASE WriteState(t)
    <3>1. /\ UNCHANGED <<journal, inside, ledger, acked>> /\ pc[t] = "state" /\ pc'[t] = "history"
      BY <1>0, <2>4 DEF WriteState, Goto, ledgerVars
    <3> QED BY <1>0, <1>2, <3>1 DEF InsidePart, InTransaction, Writing, Known
  <2>5. CASE WriteAnchor(t)
    <3>1. /\ UNCHANGED <<journal, inside, ledger, acked>> /\ pc[t] = "history"
          /\ \/ pc' = pc
             \/ pc'[t] = "commit" /\ disk'[t] = journal.after
      BY <1>0, <2>5 DEF WriteAnchor, Goto, Put, ledgerVars
    <3> QED BY <1>0, <1>2, <3>1 DEF InsidePart, InTransaction, Writing, Known
  <2>6. CASE Clear(t) \/ ClearFails(t) \/ RevertFails(t)
    BY <1>0, <1>2, <2>6, NamesAssumption DEF Clear, ClearFails, RevertFails, AfterFailure, Goto,
       InsidePart, InTransaction, Writing
  <2>10. CASE Commit(t)
    <3>1. /\ pc[t] = "commit" /\ pc'[t] = "clear" /\ UNCHANGED <<inside, ledger, acked, disk>>
      BY <1>0, <2>10 DEF Commit, Goto, ledgerVars
    <3>2. journal # NoJournal /\ journal.task = t /\ ~journal.failed
      BY <1>0, <3>1 DEF InsidePart, Writing
    <3>3. journal \in Journals /\ journal' = [journal EXCEPT !.done = TRUE]
      BY <1>0, <2>10, <3>2, JournalFields DEF Commit
    <3>4. /\ journal' \in Journals /\ journal'.task = t /\ journal'.after = journal.after
          /\ ~journal'.failed
      BY <3>2, <3>3, FlagFields
    <3>5. journal' # NoJournal BY <3>4, NamesAssumption
    <3> QED BY <1>0, <1>2, <3>1, <3>4, <3>5 DEF InsidePart, InTransaction, Writing, Known
  <2>11. CASE RecoverDone(t)
    BY <1>0, <1>2, <2>11 DEF RecoverDone, Goto, InsidePart, InTransaction, Writing
  <2>7. CASE Raise(t)
    <3>1. CASE pc[t] \in {"verify", "plan", "enter", "recover", "preflight"}
      BY <1>0, <1>2, <2>7, <3>1, NamesAssumption
         DEF Raise, Goto, AfterFailure, InsidePart, InTransaction, Writing
    <3>2. CASE pc[t] \notin {"verify", "plan", "enter", "recover", "preflight"}
      <4>1. /\ pc[t] \in {"state", "history", "commit", "clear"} /\ pc'[t] = "revert"
            /\ UNCHANGED <<journal, inside, ledger, acked>>
        BY <1>0, <2>7, <3>2 DEF Raise, Goto, ledgerVars
      <4> QED BY <1>0, <1>2, <4>1 DEF InsidePart, InTransaction, Writing, Known
    <3> QED BY <3>1, <3>2
  <2>8. CASE Crash(t)
    BY <1>0, <1>2, <2>8, NamesAssumption DEF Crash, Goto, InsidePart, InTransaction, Writing
  <2>9. CASE /\ UNCHANGED inside
             /\ pc[t] \notin InTransaction /\ pc'[t] \notin InTransaction
    BY <1>0, <1>2, <2>9 DEF InsidePart, InTransaction, Writing
  <2> QED BY <1>0, <2>1, <2>2, <2>3, <2>4, <2>5, <2>6, <2>7, <2>8, <2>9, <2>10, <2>11 DEF StepOf,
         Create, Mutate, LoadState, LoadAnchor, Repair, AppendEvidence, AppendRefused, Mark, Undo, Cut,
         Verify, Plan, AppendFails, UndoFails, Goto, InTransaction, Writing
<1> QED BY <1>1, <1>2

(* A state that an excuse covers stays covered until the files are those   *)
(* from before the transaction again.                                      *)
LEMMA ExcusedStep ==
    ASSUME IInv, NEW t \in Tasks, StepOf(t), NEW u \in Tasks, Excused(u)
    PROVE  \/ Excused(u)'
           \/ Pending(u) /\ disk' = disk /\ disk[u] = journal.before
<1>1. CASE "late" \in hurt[u] BY <1>1, HurtGrows DEF IInv, Excused
<1>2. CASE Pending(u) /\ journal.failed
  <2>1. journal # NoJournal /\ journal.task = u BY <1>2 DEF Pending
  <2> QED BY <1>2, <2>1, JournalMoves DEF Excused, Pending
<1> QED BY <1>1, <1>2 DEF Excused

(* What a pending transaction would bring back.                            *)
LEMMA JournalStep ==
    ASSUME IInv, NEW t \in Tasks, StepOf(t) PROVE JournalPart'
<1>0. /\ TypeOK /\ JournalPart /\ DiskPart(t) /\ pc \in [Tasks -> PCs] /\ disk \in [Tasks -> Disks]
  BY DEF IInv, TypeOK
<1>1. ASSUME journal # NoJournal, journal' # NoJournal,
             journal'.task = journal.task, journal'.before = journal.before,
             journal'.failed /\ journal'.done => "late" \in hurt'[journal.task]
      PROVE  JournalPart'
  <2>1. /\ journal.task \in Tasks /\ journal.before.rev \in Nat /\ journal.before.head \in Nat
    BY <1>0, <1>1, JournalFields, DiskFields
  <2>2. "late" \in hurt[journal.task] => "late" \in hurt'[journal.task] BY <1>0, <2>1, HurtGrows
  <2>3. acked'[journal.task] = acked[journal.task]
    <3>1. CASE journal.task # t BY <1>0, <2>1, <3>1, OthersStay
    <3>2. CASE journal.task = t
      <4>1. ~Clear(t) BY <1>1 DEF Clear
      <4> QED BY <3>2, <4>1
           DEF StepOf, Create, Mutate, LoadState, LoadAnchor, Repair, AppendEvidence, AppendRefused,
         Mark, Undo, Cut, Verify, Plan, Enter, Recover, Revert, Restore, Preflight, WriteState,
         WriteAnchor, Commit, Clear, Raise, Crash, RecoverDone, AppendFails, UndoFails, RevertFails,
         ClearFails
    <3> QED BY <3>1, <3>2
  <2>4. \/ "late" \in hurt'[journal.task]
        \/ /\ KnownIn(ledger'[journal.task], journal.before.head)
           /\ SparedAt(pc'[journal.task], fresh'[journal.task], journal.before.head)
    <3>1. CASE "late" \in hurt[journal.task] BY <2>2, <3>1
    <3>2. CASE "late" \notin hurt[journal.task]
      <4>1. /\ KnownIn(ledger[journal.task], journal.before.head)
            /\ SparedAt(pc[journal.task], fresh[journal.task], journal.before.head)
        BY <1>0, <1>1, <3>2 DEF JournalPart, Known, Spared
      <4> QED BY <2>1, <4>1, KnownKept, KnownElsewhere
    <3> QED BY <3>1, <3>2
  <2> QED BY <1>0, <1>1, <2>3, <2>4 DEF JournalPart, Known, Spared
<1>2. CASE journal' = journal /\ journal # NoJournal
  <2>1. journal.task \in Tasks BY <1>0, <1>2, JournalFields
  <2>2. journal.failed /\ journal.done => "late" \in hurt'[journal.task]
    BY <1>0, <1>2, <2>1, HurtGrows DEF JournalPart
  <2> QED BY <1>1, <1>2, <2>2
<1>3. CASE Preflight(t) /\ disk[t] = plan[t] /\ journal = NoJournal /\ journal' # NoJournal
           /\ journal'.task = t /\ journal'.before = disk[t] /\ ~journal'.failed
  <2>1. /\ pc[t] = "preflight" /\ UNCHANGED <<ledger, acked, fresh, hurt>> /\ pc'[t] = "state"
    BY <1>0, <1>3 DEF Preflight, Goto, ledgerVars, locals
  <2>2. \/ "late" \in hurt[t]
        \/ KnownIn(ledger[t], disk[t].head) /\ SparedAt("preflight", fresh[t], disk[t].head)
    BY <1>0, <1>3, <2>1 DEF DiskPart, Excused, Pending, Known, Spared, Writing
  <2>3. disk[t].rev >= acked[t].rev BY <1>0 DEF DiskPart
  <2> QED BY <1>3, <2>1, <2>2, <2>3
          DEF JournalPart, Known, Spared, SparedAt, Appended, Saving, InTransaction, Writing
<1>4. CASE journal' = NoJournal BY <1>4 DEF JournalPart
<1> QED BY <1>1, <1>2, <1>3, <1>4, JournalMoves

(* The head that the files name after a step.                              *)
LEMMA HeadStep ==
    ASSUME IInv, NEW t \in Tasks, StepOf(t), NEW u \in Tasks
    PROVE  \/ Excused(u)'
           \/ /\ KnownIn(ledger'[u], disk'[u].head)
              /\ pc'[u] \notin Writing => SparedAt(pc'[u], fresh'[u], disk'[u].head)
<1>0. /\ TypeOK /\ InsidePart(t) /\ DiskPart(t) /\ DiskPart(u) /\ LedgerPart(t) /\ JournalPart
      /\ pc \in [Tasks -> PCs] /\ disk \in [Tasks -> Disks] /\ fresh \in [Tasks -> Nat]
      /\ disk[u].head \in Nat /\ hurt \in [Tasks -> SUBSET Faults]
  BY DiskFields DEF IInv, TypeOK
<1>1. ASSUME journal # NoJournal, journal.task = u, disk'[u] = journal.before
      PROVE  \/ Excused(u)'
             \/ /\ KnownIn(ledger'[u], disk'[u].head)
                /\ SparedAt(pc'[u], fresh'[u], disk'[u].head)
  <2>1. journal.before.head \in Nat BY <1>0, <1>1, JournalFields, DiskFields
  <2>2. CASE "late" \in hurt[u] BY <1>0, <2>2, HurtGrows DEF Excused
  <2>3. CASE "late" \notin hurt[u]
    <3>1. KnownIn(ledger[u], journal.before.head) /\ SparedAt(pc[u], fresh[u], journal.before.head)
      BY <1>0, <1>1, <2>3 DEF JournalPart, Known, Spared
    <3> QED BY <1>1, <2>1, <3>1, KnownKept, KnownElsewhere
  <2> QED BY <2>2, <2>3
<1>2. CASE Excused(u) BY <1>1, <1>2, ExcusedStep DEF Pending
<1>3. CASE ~Excused(u)
  <2>0. /\ KnownIn(ledger[u], disk[u].head)
        /\ pc[u] \notin Writing => SparedAt(pc[u], fresh[u], disk[u].head)
    BY <1>0, <1>3 DEF DiskPart, Known, Spared
  <2>1. CASE u # t
    <3>1. /\ pc'[u] = pc[u] /\ ledger'[u] = ledger[u] /\ fresh'[u] = fresh[u]
      BY <1>0, <2>1, OthersStay
    <3>2. \/ disk'[u].head = disk[u].head
          \/ journal # NoJournal /\ journal.task = u /\ disk'[u] = journal.before
      BY <2>1, RestoreFacts, FilesStay
    <3> QED BY <1>1, <2>0, <3>1, <3>2
  <2>2. CASE u = t /\ Create(t)
    <3>1. disk'[t] = NewDisk /\ pc'[t] = "idle" BY <1>0, <2>2 DEF Create, Put, Goto
    <3>2. disk'[t].head = NoRecord BY <3>1, NewDiskFields
    <3> QED BY <2>2, <3>1, <3>2 DEF KnownIn, SparedAt, Appended, Saving, InTransaction, Writing
  <2>3. CASE u = t /\ (Recover(t) \/ Revert(t))
    <3>1. UNCHANGED <<ledger, fresh>> /\ pc[t] \in {"recover", "revert"} /\ journal # NoJournal
      BY <2>3 DEF Recover, Revert, Restore, ledgerVars, locals
    <3>2. pc[t] = "revert" => journal.task = t BY <1>0 DEF InsidePart, Writing
    <3>3. \/ disk'[t].head = disk[t].head
          \/ journal.task = t /\ disk'[t] = journal.before
      BY <2>3, RestoreFacts
    <3>4. CASE journal.task = t /\ disk'[t] = journal.before BY <1>1, <2>3, <3>1, <3>4
    <3>5. CASE disk'[t].head = disk[t].head /\ pc' = pc BY <2>0, <2>3, <3>1, <3>5
    <3>6. CASE disk'[t].head = disk[t].head /\ pc' # pc
      <4>1. disk' = disk /\ disk[journal.task] = journal.before BY <2>3, <3>6, RestoreFacts
      <4>2. CASE pc[t] = "revert" BY <3>2, <3>4, <4>1, <4>2
      <4>3. CASE pc[t] = "recover"
        <5>1. SparedAt(pc[t], fresh[t], disk[t].head) BY <2>0, <2>3, <4>3 DEF Writing
        <5>2. pc[t] \in Appended BY <4>3 DEF Appended, Saving, InTransaction
        <5> QED BY <2>0, <2>3, <3>1, <4>1, <5>1, <5>2 DEF SparedAt
      <4> QED BY <3>1, <4>2, <4>3
    <3> QED BY <3>3, <3>4, <3>5, <3>6
  <2>4. CASE u = t /\ (WriteState(t) \/ WriteAnchor(t))
    <3>1. /\ UNCHANGED ledger /\ pc[t] \in Writing /\ pc'[t] \in Writing
          /\ journal # NoJournal
      BY <1>0, <2>4 DEF WriteState, WriteAnchor, Goto, ledgerVars, Writing, InsidePart
    <3>2. journal.after \in Disks BY <1>0, <3>1, JournalFields
    <3>3. /\ journal.after.rev \in Nat /\ journal.after.head \in Nat /\ journal.after.anchor \in Nat
          /\ disk[t] \in Disks
      BY <1>0, <3>2, DiskFields
    <3>4. disk'[t].head \in {disk[t].head, journal.after.head}
      <4>1. CASE WriteState(t)
        <5>1. disk'[t] = [disk[t] EXCEPT !.rev = journal.after.rev, !.head = journal.after.head]
          BY <1>0, <4>1 DEF WriteState, Put
        <5>2. [disk[t] EXCEPT !.rev = journal.after.rev, !.head = journal.after.head].head
                = journal.after.head
          BY <3>3, StateFields
        <5> QED BY <5>1, <5>2
      <4>2. CASE WriteAnchor(t)
        <5>1. disk'[t] \in {[disk[t] EXCEPT !.anchor = journal.after.anchor], journal.after}
          BY <1>0, <4>2 DEF WriteAnchor, Put
        <5>2. [disk[t] EXCEPT !.anchor = journal.after.anchor]
                = [rev |-> disk[t].rev, head |-> disk[t].head,
                   anchor |-> journal.after.anchor, history |-> disk[t].history]
          BY <3>3, DiskFields
        <5> QED BY <5>1, <5>2
      <4> QED BY <2>4, <4>1, <4>2
    <3> QED BY <1>0, <2>0, <2>4, <3>1, <3>4 DEF InsidePart, Known
  <2>5. CASE u = t /\ ~Create(t) /\ ~Recover(t) /\ ~Revert(t) /\ ~WriteState(t) /\ ~WriteAnchor(t)
    <3>1. disk' = disk
      BY <2>5 DEF Preflight, Commit, Clear, RecoverDone, RevertFails, ClearFails,
         StepOf, Create, Mutate, LoadState, LoadAnchor, Repair, AppendEvidence, AppendRefused,
         Mark, Undo, Cut, Verify, Plan, Enter, Raise, Crash, AppendFails, UndoFails
    <3>2. CASE pc[t] \notin Writing BY <1>0, <2>0, <2>5, <3>1, <3>2, KnownKept
    <3>3. CASE pc[t] \in Writing
      <4>1. CASE ClearFails(t)
        <5>1. "late" \in hurt'[t] BY <1>0, <4>1 DEF ClearFails, Strike
        <5> QED BY <2>5, <5>1 DEF Excused
      <4>2. CASE RevertFails(t)
        <5>2. journal' = [journal EXCEPT !.failed = TRUE] BY <4>2 DEF RevertFails
        <5>3. journal # NoJournal /\ journal.task = t BY <1>0, <3>3 DEF InsidePart
        <5>4. journal \in Journals BY <1>0, <5>3, JournalFields
        <5>5. journal' \in Journals /\ journal'.failed /\ journal'.task = t
          BY <5>2, <5>3, <5>4, FlagFields
        <5>6. journal' # NoJournal BY <5>5, NamesAssumption
        <5> QED BY <2>5, <5>5, <5>6 DEF Excused, Pending
      <4>3. CASE ~ClearFails(t) /\ ~RevertFails(t)
        <5>1. UNCHANGED ledger /\ pc'[t] \in Writing \cup {"idle"}
          BY <1>0, <2>5, <3>3, <4>3 DEF Preflight, Commit, Clear, RecoverDone, Goto, Writing,
             ledgerVars, TearRecord,
         StepOf, Create, Mutate, LoadState, LoadAnchor, Repair, AppendEvidence, AppendRefused,
         Mark, Undo, Cut, Verify, Plan, Enter, Raise, Crash, AppendFails, UndoFails
        <5> QED BY <2>0, <2>5, <3>1, <3>3, <5>1
                DEF SparedAt, Appended, Saving, InTransaction, Writing
      <4> QED BY <4>1, <4>2, <4>3
    <3> QED BY <3>2, <3>3
  <2> QED BY <2>1, <2>2, <2>3, <2>4, <2>5
<1> QED BY <1>2, <1>3

(* The revision on the disk is never older than the one acknowledged.      *)
LEMMA RevisionStep ==
    ASSUME IInv, NEW t \in Tasks, StepOf(t), NEW u \in Tasks PROVE disk'[u].rev >= acked'[u].rev
<1>0. /\ TypeOK /\ InsidePart(t) /\ DiskPart(t) /\ DiskPart(u) /\ JournalPart
      /\ pc \in [Tasks -> PCs] /\ disk \in [Tasks -> Disks]
      /\ acked \in [Tasks -> [rev : Nat, records : SUBSET Nat]]
  BY DEF IInv, TypeOK
<1>1. CASE Clear(t) /\ u = t
  <2>1. disk' = disk /\ pc[t] = "clear" /\ acked'[t].rev = journal.after.rev
    BY <1>0, <1>1 DEF Clear
  <2>2. disk[t] = journal.after /\ journal # NoJournal BY <1>0, <2>1 DEF InsidePart, Writing
  <2>3. disk[t].rev \in Nat BY <1>0, DiskFields
  <2> QED BY <1>1, <2>1, <2>2, <2>3
<1>2. CASE ~(Clear(t) /\ u = t)
  <2>1. acked'[u] = acked[u]
    <3>1. CASE u # t BY <1>0, <3>1, OthersStay
    <3>2. CASE u = t
      BY <1>2, <3>2 DEF StepOf, Create, Mutate, LoadState, LoadAnchor, Repair, AppendEvidence, AppendRefused,
         Mark, Undo, Cut, Verify, Plan, Enter, Recover, Revert, Restore, Preflight, WriteState,
         WriteAnchor, Commit, Clear, Raise, Crash, RecoverDone, AppendFails, UndoFails, RevertFails,
         ClearFails
    <3> QED BY <3>1, <3>2
  <2>2. CASE disk'[u].rev = disk[u].rev BY <1>0, <2>1, <2>2 DEF DiskPart
  <2>3. CASE journal # NoJournal /\ journal.task = u /\ disk'[u] = journal.before
    BY <1>0, <2>1, <2>3 DEF JournalPart
  <2>4. CASE u = t /\ Create(t)
    <3>1. disk'[t].rev = 0 BY <1>0, <2>4, NewDiskFields DEF Create, Put
    <3>2. acked[t].rev = 0 BY <1>0, <2>4 DEF Create, DiskPart
    <3> QED BY <2>1, <2>4, <3>1, <3>2
  <2>5. CASE u = t /\ (WriteState(t) \/ WriteAnchor(t))
    <3>1. journal # NoJournal /\ journal.after.rev >= acked[t].rev
      BY <1>0, <2>5 DEF WriteState, WriteAnchor, Writing, InsidePart
    <3>2. journal.after \in Disks BY <1>0, <3>1, JournalFields
    <3>3. /\ journal.after.rev \in Nat /\ journal.after.head \in Nat /\ journal.after.anchor \in Nat
          /\ disk[t] \in Disks
      BY <1>0, <3>2, DiskFields
    <3>4. disk'[t].rev \in {disk[t].rev, journal.after.rev}
      <4>1. CASE WriteState(t)
        <5>1. disk'[t] = [disk[t] EXCEPT !.rev = journal.after.rev, !.head = journal.after.head]
          BY <1>0, <4>1 DEF WriteState, Put
        <5>2. [disk[t] EXCEPT !.rev = journal.after.rev, !.head = journal.after.head].rev
                = journal.after.rev
          BY <3>3, StateFields
        <5> QED BY <5>1, <5>2
      <4>2. CASE WriteAnchor(t)
        <5>1. disk'[t] \in {[disk[t] EXCEPT !.anchor = journal.after.anchor], journal.after}
          BY <1>0, <4>2 DEF WriteAnchor, Put
        <5>2. [disk[t] EXCEPT !.anchor = journal.after.anchor]
                = [rev |-> disk[t].rev, head |-> disk[t].head,
                   anchor |-> journal.after.anchor, history |-> disk[t].history]
          BY <3>3, DiskFields
        <5> QED BY <5>1, <5>2
      <4> QED BY <2>5, <4>1, <4>2
    <3> QED BY <1>0, <2>1, <2>5, <3>1, <3>4 DEF DiskPart
  <2>6. CASE Recover(t) \/ Revert(t) BY <2>2, <2>3, <2>6, RestoreFacts
  <2>7. CASE ~(Recover(t) \/ Revert(t))
    <3>1. CASE u # t BY <2>2, <2>7, <3>1, FilesStay
    <3>2. CASE u = t
      <4>1. disk'[t] # disk[t] => pc[t] \in {"none", "state", "history"} BY <2>7, FilesStay
      <4>2. CASE disk'[t] = disk[t] BY <2>2, <3>2, <4>2
      <4>3. CASE disk'[t] # disk[t] /\ ~Create(t) /\ ~WriteState(t) /\ ~WriteAnchor(t)
        BY <2>7, <4>3 DEF Preflight, Commit, Clear, RecoverDone, RevertFails, ClearFails,
         StepOf, Create, Mutate, LoadState, LoadAnchor, Repair, AppendEvidence, AppendRefused,
         Mark, Undo, Cut, Verify, Plan, Enter, Raise, Crash, AppendFails, UndoFails
      <4> QED BY <2>4, <2>5, <3>2, <4>2, <4>3
    <3> QED BY <3>1, <3>2
  <2> QED BY <2>6, <2>7
<1> QED BY <1>1, <1>2

(* The files a process writes, restores or leaves.                         *)
LEMMA DiskStep ==
    ASSUME IInv, NEW t \in Tasks, StepOf(t), NEW u \in Tasks PROVE DiskPart(u)'
<1>0. /\ TypeOK /\ DiskPart(t) /\ DiskPart(u)
      /\ pc \in [Tasks -> PCs] /\ disk \in [Tasks -> Disks] /\ got \in [Tasks -> Disks]
      /\ acked \in [Tasks -> [rev : Nat, records : SUBSET Nat]]
  BY DEF IInv, TypeOK
<1>1. disk'[u].rev >= acked'[u].rev BY RevisionStep
<1>2. \/ Excused(u)'
      \/ /\ KnownIn(ledger'[u], disk'[u].head)
         /\ pc'[u] \notin Writing => SparedAt(pc'[u], fresh'[u], disk'[u].head)
  BY HeadStep
<1>3. (pc[u] = "none" => acked[u].rev = 0)'
  <2>1. CASE u # t BY <1>0, <2>1, OthersStay DEF DiskPart
  <2>2. CASE u = t
    <3>1. pc'[t] # "none"
      <4>1. pc[t] = "none" => Create(t)
        BY DEF StepOf, Create, Mutate, LoadState, LoadAnchor, Repair, AppendEvidence, AppendRefused,
         Mark, Undo, Cut, Verify, Plan, Enter, Recover, Revert, Restore, Preflight, WriteState,
         WriteAnchor, Commit, Clear, Raise, Crash, RecoverDone, AppendFails, UndoFails, RevertFails,
         ClearFails, Strike
      <4>2. pc[t] # "none" => pc'[t] # "none"
        BY <1>0 DEF Goto, AfterFailure,
         StepOf, Create, Mutate, LoadState, LoadAnchor, Repair, AppendEvidence, AppendRefused,
         Mark, Undo, Cut, Verify, Plan, Enter, Recover, Revert, Restore, Preflight, WriteState,
         WriteAnchor, Commit, Clear, Raise, Crash, RecoverDone, AppendFails, UndoFails, RevertFails,
         ClearFails
      <4> QED BY <1>0, <4>1, <4>2 DEF Create, Goto
    <3> QED BY <2>2, <3>1
  <2> QED BY <2>1, <2>2
<1>4. (pc[u] \in Loaded => got[u].rev >= acked[u].rev)'
  <2>1. CASE u # t BY <1>0, <2>1, OthersStay DEF DiskPart
  <2>2. CASE u = t /\ LoadState(t) BY <1>0, <2>2 DEF LoadState, DiskPart
  <2>3. CASE u = t /\ ~LoadState(t) /\ pc'[t] \in Loaded
    <3>1. pc[t] \in Loaded /\ UNCHANGED <<got, acked>>
      BY <1>0, <2>3 DEF Goto, AfterFailure, locals, Loaded, Saving, InTransaction, Writing,
         StepOf, Create, Mutate, LoadState, LoadAnchor, Repair, AppendEvidence, AppendRefused,
         Mark, Undo, Cut, Verify, Plan, Enter, Recover, Revert, Restore, Preflight, WriteState,
         WriteAnchor, Commit, Clear, Raise, Crash, RecoverDone, AppendFails, UndoFails, RevertFails,
         ClearFails
    <3> QED BY <1>0, <2>3, <3>1 DEF DiskPart
  <2> QED BY <2>1, <2>2, <2>3
<1>5. (pc[u] \in {"plan", "enter"} \cup InTransaction => LedgerHead(u) = NewHead(u))'
  <2>1. CASE u # t BY <1>0, <2>1, OthersStay DEF DiskPart, LedgerHead, RecordAt, NewHead
  <2>2. CASE u = t /\ Verify(t)
    BY <1>0, <2>2 DEF Verify, SaveAccepts, ledgerVars, locals, LedgerHead, RecordAt, NewHead
  <2>3. CASE u = t /\ ~Verify(t) /\ pc'[t] \in {"plan", "enter"} \cup InTransaction
    <3>1. pc[t] \in {"plan", "enter"} \cup InTransaction /\ UNCHANGED <<got, fresh, ledger>>
      BY <1>0, <2>3 DEF Goto, AfterFailure, locals, ledgerVars, InTransaction, Writing,
         StepOf, Create, Mutate, LoadState, LoadAnchor, Repair, AppendEvidence, AppendRefused,
         Mark, Undo, Cut, Verify, Plan, Enter, Recover, Revert, Restore, Preflight, WriteState,
         WriteAnchor, Commit, Clear, Raise, Crash, RecoverDone, AppendFails, UndoFails, RevertFails,
         ClearFails
    <3> QED BY <1>0, <2>3, <3>1 DEF DiskPart, LedgerHead, RecordAt, NewHead
  <2> QED BY <2>1, <2>2, <2>3
<1> QED BY <1>1, <1>2, <1>3, <1>4, <1>5 DEF DiskPart, Known, Spared

(***************************************************************************)
(* The theorems.                                                           *)
(***************************************************************************)

(* Before the first command there is nothing on the disk.                  *)
LEMMA InitIInv == Init => IInv
<1> SUFFICES ASSUME Init PROVE IInv OBVIOUS
<1>1. LedgerTypeOK
  <2>1. <<>> \in Seq(1..0) OBVIOUS
  <2> QED BY <2>1 DEF Init, LedgerInit, LedgerTypeOK
<1>2. TypeOK
  <2>1. [rev |-> 0, records |-> {}] \in [rev : Nat, records : SUBSET Nat] OBVIOUS
  <2> QED BY <1>1, <2>1, NewDiskFields, BoundsAssumption DEF Init, TypeOK, PCs, NoRecord, Faults
<1>3. ASSUME NEW t \in Tasks PROVE LedgerPart(t) /\ DiskPart(t) /\ InsidePart(t)
  <2>1. LedgerPart(t)
    BY DEF Init, LedgerInit, LedgerPart, MarkOK, FreshOK, AckedOK, Appended, Saving, InTransaction, Writing
  <2>2. DiskPart(t)
    <3>1. disk[t].rev = 0 /\ disk[t].head = NoRecord /\ pc[t] = "none" /\ acked[t].rev = 0
      BY DEF Init, NoDisk
    <3> QED BY <3>1 DEF DiskPart, Known, KnownIn, Spared, SparedAt, Loaded, Appended, Saving,
                        InTransaction, Writing
  <2>3. InsidePart(t) BY NamesAssumption DEF Init, InsidePart, InTransaction, Writing
  <2> QED BY <2>1, <2>2, <2>3
<1>4. JournalPart BY DEF Init, JournalPart
<1> QED BY <1>2, <1>3, <1>4 DEF IInv

(* Every step keeps the invariant.                                         *)
LEMMA NextIInv == IInv /\ [Next]_vars => IInv'
<1> SUFFICES ASSUME IInv, [Next]_vars PROVE IInv' OBVIOUS
<1>1. CASE Next
  <2>1. PICK t \in Tasks : StepOf(t) BY <1>1 DEF Next, StepOf
  <2>2. TypeOK' BY <2>1, TypeStep
  <2>3. ASSUME NEW u \in Tasks PROVE LedgerPart(u)'
    <3>1. CASE u = t BY <2>1, <3>1, LedgerStep
    <3>2. CASE u # t
      <4>1. /\ ledger'[u] = ledger[u] /\ mark'[u] = mark[u] /\ pc'[u] = pc[u]
            /\ fresh'[u] = fresh[u] /\ acked'[u] = acked[u]
        BY <2>1, <3>2, OthersStay DEF IInv
      <4>2. LedgerPart(u) BY DEF IInv
      <4> QED BY <4>1, <4>2 DEF LedgerPart, MarkOK, FreshOK, AckedOK, MarkAt, LedgerHead, RecordAt
    <3> QED BY <3>1, <3>2
  <2>4. \A u \in Tasks : DiskPart(u)' BY <2>1, DiskStep
  <2>5. \A u \in Tasks : InsidePart(u)' BY <2>1, InsideStep
  <2>6. JournalPart' BY <2>1, JournalStep
  <2> QED BY <2>2, <2>3, <2>4, <2>5, <2>6 DEF IInv
<1>2. CASE UNCHANGED vars
  <2>1. TypeOK' BY <1>2 DEF IInv, TypeOK, LedgerTypeOK, vars, ledgerVars, locals, bounds
  <2>2. \A t \in Tasks : LedgerPart(t)'
    BY <1>2 DEF IInv, vars, ledgerVars, locals, LedgerPart, MarkOK, FreshOK, AckedOK, MarkAt, LedgerHead, RecordAt
  <2>3. \A t \in Tasks : DiskPart(t)'
    BY <1>2 DEF IInv, vars, ledgerVars, locals, DiskPart, Known, Spared, Excused, Pending,
                LedgerHead, RecordAt, NewHead
  <2>4. \A t \in Tasks : InsidePart(t)'
    BY <1>2 DEF IInv, vars, ledgerVars, locals, InsidePart, Known
  <2>5. JournalPart' BY <1>2 DEF IInv, vars, ledgerVars, locals, JournalPart, Known, Spared
  <2> QED BY <2>1, <2>2, <2>3, <2>4, <2>5 DEF IInv
<1> QED BY <1>1, <1>2

(* The invariant holds of every state of every behaviour.                  *)
LEMMA AlwaysIInv == Spec => []IInv
BY InitIInv, NextIInv, PTL DEF Spec

(* The files, the journal, the ledger and the processes keep their types   *)
(* (state_store.py, evidence.py).                                          *)
THEOREM TypeCorrect == Spec => []TypeOK
<1>1. IInv => TypeOK BY DEF IInv
<1> QED BY <1>1, AlwaysIInv, PTL

(* The anchor of the evidence ledger names a record of the ledger at its   *)
(* place, after every single write of append_evidence, of the rollback and *)
(* of the recovery of a stale anchor.                                      *)
THEOREM AnchorNamesRecord == Spec => []MarkNamesRecord
<1>1. IInv => MarkNamesRecord BY DEF IInv, LedgerPart, MarkOK, MarkNamesRecord
<1> QED BY <1>1, AlwaysIInv, PTL

(* The head that state.json names is a record of the ledger, whichever     *)
(* save, rollback or recovery wrote it, but for a task whose rollback      *)
(* failed before on_failure took the record back: until its journal is     *)
(* recovered, or for good once the journal said COMMITTED or was gone.     *)
THEOREM StateNamesRecord == Spec => []HeadIsRecord
<1>1. IInv => HeadIsRecord BY DEF IInv, DiskPart, Known, KnownIn, Excused, HeadIsRecord
<1> QED BY <1>1, AlwaysIInv, PTL

(* A revision, and the evidence, that mutate has returned outlive every    *)
(* later crash, rollback and recovery, of this task or of another.         *)
THEOREM AcknowledgedStays == Spec => []AckedStays
<1>1. IInv => AckedStays BY DEF IInv, DiskPart, LedgerPart, AckedOK, AckedStays
<1> QED BY <1>1, AlwaysIInv, PTL

(***************************************************************************)
(* Failures that the handlers take back.                                   *)
(***************************************************************************)

(* The process of another task changes nothing a failed command depends    *)
(* on: it recovers no transaction that is under way, and a rollback is of  *)
(* one's own.                                                              *)
LEMMA TracelessElsewhere ==
    ASSUME IInv, TraceInv, NEW t \in Tasks, StepOf(t), NEW u \in Tasks, u # t, hurt[u] = {}
    PROVE  Traceless(u)'
<1>0. /\ TypeOK /\ InsidePart(t) /\ InsidePart(u) /\ Traceless(u)
      /\ Pending(u) => pc[u] \in Writing
  BY DEF IInv, TraceInv
<1>1. /\ pc'[u] = pc[u] /\ ledger'[u] = ledger[u] /\ torn'[u] = torn[u] /\ mark'[u] = mark[u]
      /\ fresh'[u] = fresh[u] /\ got'[u] = got[u] /\ plan'[u] = plan[u]
  BY <1>0, OthersStay
<1>2. disk'[u] = disk[u] /\ (pc[u] \in Writing => journal' = journal)
  <2>1. CASE Recover(t) \/ Revert(t)
    <3>1. inside = t /\ journal # NoJournal BY <2>1, RestoreFacts
    <3>2. pc[u] \notin Writing BY <1>0, <3>1 DEF InsidePart, InTransaction
    <3>3. journal.task # u BY <1>0, <3>1, <3>2 DEF Pending
    <3> QED BY <2>1, <3>2, <3>3, RestoreFacts
  <2>2. CASE ~(Recover(t) \/ Revert(t))
    BY <1>0, <2>2, FilesStay DEF InsidePart, InTransaction, Writing
  <2> QED BY <2>1, <2>2
<1>3. Base(u)' = Base(u) BY <1>1, <1>2 DEF Base
<1>4. Verified(u)' <=> Verified(u) BY <1>1 DEF Verified, MarkAt, RecordAt
<1>5. LedgerHead(u)' = LedgerHead(u) BY <1>1 DEF LedgerHead, RecordAt
<1>6. RecordAt(u, Len(ledger[u]) - 1)' = RecordAt(u, Len(ledger[u]) - 1) BY <1>1 DEF RecordAt
<1> QED BY <1>0, <1>1, <1>2, <1>3, <1>4, <1>5, <1>6 DEF Traceless

(* A step that leaves the ledger and the files of its task.                *)
LEMMA TracelessQuiet ==
    ASSUME IInv, TraceInv, NEW t \in Tasks, hurt[t] = {},
           UNCHANGED ledgerVars, Base(t)' = Base(t),
           pc[t] # "none", pc'[t] \notin {"none", "mark", "cut"}, pc[t] \notin {"mark", "cut"},
           fresh'[t] = fresh[t],
           fresh[t] # NoRecord => (pc[t] \in Appended <=> pc'[t] \in Appended),
           pc'[t] \in Loaded => pc[t] \in Loaded /\ got'[t] = got[t],
           pc'[t] \in {"undo"} \cup Saving /\ fresh[t] # NoRecord => pc[t] \in {"undo"} \cup Saving,
           pc'[t] \in {"enter", "recover", "preflight"} => plan'[t] = disk'[t],
           pc'[t] \in Writing => Coherent(journal'.after) /\ journal'.after.head = LedgerHead(t)
    PROVE  Traceless(t)'
<1>0. Traceless(t) BY DEF TraceInv
<1>1. Verified(t)' <=> Verified(t) BY DEF ledgerVars, Verified, MarkAt, RecordAt
<1>2. LedgerHead(t)' = LedgerHead(t) BY DEF ledgerVars, LedgerHead, RecordAt
<1>3. RecordAt(t, Len(ledger[t]) - 1)' = RecordAt(t, Len(ledger[t]) - 1) BY DEF ledgerVars, RecordAt
<1>4. Verified(t) BY <1>0 DEF Traceless
<1>5. ~torn'[t] BY <1>0 DEF Traceless, ledgerVars
<1>6. Coherent(Base(t))' BY <1>0 DEF Traceless, Coherent, AnchorHolds
<1>7. (mark[t] # NoAnchor)' <=> mark[t] # NoAnchor BY DEF ledgerVars
<1>8. (pc[t] \in Appended /\ fresh[t] # NoRecord
          => RecordAt(t, Len(ledger[t]) - 1) = Base(t).head)'
  BY <1>0, <1>3 DEF Traceless
<1>9. (~(pc[t] \in Appended /\ fresh[t] # NoRecord) => LedgerHead(t) = Base(t).head)'
  BY <1>0, <1>2 DEF Traceless
<1>10. (pc[t] \in {"undo"} \cup Saving /\ fresh[t] # NoRecord => mark[t] # NoAnchor)'
  BY <1>0, <1>7 DEF Traceless
<1>11. (pc[t] \in Loaded => got[t].rev = Base(t).rev /\ got[t].head = Base(t).head)'
  BY <1>0 DEF Traceless
<1>12. (pc[t] \in Writing => Coherent(journal.after) /\ journal.after.head = LedgerHead(t))'
  BY <1>2 DEF Coherent, AnchorHolds
<1> QED BY <1>1, <1>4, <1>5, <1>6, <1>8, <1>9, <1>10, <1>11, <1>12 DEF Traceless

(* The record appended last, and what an append or a rollback leaves.      *)
LEMMA TracelessLedger ==
    ASSUME IInv, TraceInv, NEW t \in Tasks, hurt[t] = {},
           AppendEvidence(t) \/ Mark(t) \/ Undo(t) \/ Cut(t)
    PROVE  Traceless(t)'
<1>0. /\ TypeOK /\ Traceless(t) /\ LedgerPart(t)
      /\ LedgerTypeOK /\ minted \in Nat /\ ledger \in [Tasks -> Seq(1..minted)]
      /\ mark \in [Tasks -> Marks \cup {NoAnchor}] /\ pc \in [Tasks -> PCs] /\ fresh \in [Tasks -> Nat]
      /\ ledger[t] \in Seq(1..minted) /\ Len(ledger[t]) \in Nat
  BY DEF IInv, TraceInv, TypeOK, LedgerTypeOK
<1>1. /\ UNCHANGED <<disk, journal, got, torn>> /\ pc[t] \notin Writing /\ pc'[t] \notin Writing
      /\ pc[t] # "none" /\ pc'[t] \notin {"none", "recover", "enter", "preflight"}
  BY <1>0 DEF AppendEvidence, AppendRecord, Mark, MarkRecord, Undo, RollbackMark, ledgerVars,
              Cut, RollbackRecord, Goto, locals, Writing
<1>2. Base(t)' = disk[t] /\ Base(t) = disk[t] BY <1>1 DEF Base
<1>3. Coherent(Base(t))' BY <1>0, <1>1, <1>2 DEF Traceless, Coherent, AnchorHolds
<1>4. ~torn'[t] BY <1>0, <1>1 DEF Traceless
<1>5. CASE AppendEvidence(t)
  <2>1. /\ pc[t] = "append" /\ ledger'[t] = Append(ledger[t], minted + 1) /\ pc'[t] = "mark"
        /\ fresh'[t] = minted + 1
    BY <1>0, <1>5 DEF AppendEvidence, AppendRecord, Goto
  <2>2. /\ Len(ledger'[t]) = Len(ledger[t]) + 1
        /\ \A k \in 1..Len(ledger[t]) : ledger'[t][k] = ledger[t][k]
    BY <1>0, <2>1, AppendFacts
  <2>3. LedgerHead(t) = disk[t].head
    BY <1>0, <1>2, <2>1 DEF Traceless, Appended, Saving, InTransaction, Writing
  <2>4. RecordAt(t, Len(ledger[t]))' = ledger'[t][Len(ledger[t]) + 1]
    BY <1>0, <2>2 DEF RecordAt
  <2>5. (RecordAt(t, Len(ledger[t]) - 1) = Base(t).head)'
    <3>1. Len(ledger'[t]) - 1 = Len(ledger[t]) BY <1>0, <2>2
    <3>2. Len(ledger[t]) # 0 => Len(ledger[t]) \in 1..Len(ledger[t]) BY <1>0
    <3>3. (IF Len(ledger[t]) = 0 THEN NoRecord ELSE ledger'[t][Len(ledger[t])]) = LedgerHead(t)
      BY <2>2, <3>2 DEF LedgerHead, RecordAt
    <3> QED BY <1>2, <2>3, <3>1, <3>3 DEF RecordAt
  <2>6. got'[t] = got[t] /\ got[t].rev = disk[t].rev /\ got[t].head = disk[t].head
    BY <1>0, <1>1, <1>2, <2>1 DEF Traceless, Loaded
  <2>7. fresh'[t] # NoRecord BY <1>0, <2>1 DEF NoRecord
  <2> QED BY <1>1, <1>2, <1>3, <1>4, <2>1, <2>5, <2>6, <2>7
          DEF Traceless, Appended, Saving, InTransaction, Writing
<1>6. CASE Mark(t)
  <2>1. /\ pc[t] = "mark" /\ pc'[t] = "verify" /\ fresh' = fresh /\ ledger' = ledger
        /\ mark'[t] = MarkAt(t, Len(ledger[t])) /\ fresh[t] # NoRecord
    BY <1>0, <1>6 DEF Mark, MarkRecord, Goto, locals, LedgerPart, FreshOK
  <2>2. Len(ledger[t]) \in 0..Len(ledger[t]) BY <1>0
  <2>3. mark'[t] # NoAnchor BY <1>0, <2>1, <2>2, MarkFacts
  <2>4. Verified(t)' BY <1>4, <2>1 DEF Verified, MarkAt, RecordAt
  <2>5. (RecordAt(t, Len(ledger[t]) - 1) = Base(t).head)'
    <3>1. RecordAt(t, Len(ledger[t]) - 1) = disk[t].head
      BY <1>0, <1>2, <2>1 DEF Traceless, Appended
    <3> QED BY <1>2, <2>1, <3>1 DEF RecordAt
  <2>6. got'[t] = got[t] /\ got[t].rev = disk[t].rev /\ got[t].head = disk[t].head
    BY <1>0, <1>1, <1>2, <2>1 DEF Traceless, Loaded
  <2> QED BY <1>1, <1>2, <1>3, <1>4, <2>1, <2>3, <2>4, <2>5, <2>6
          DEF Traceless, Appended, Saving
<1>7. CASE Undo(t)
  <2>1. pc[t] = "undo" /\ fresh[t] # NoRecord /\ LedgerHead(t) = fresh[t]
    BY <1>0, <1>7 DEF Undo, LedgerPart, FreshOK, Appended
  <2>2. Verified(t) /\ mark[t] # NoAnchor BY <1>0, <2>1 DEF Traceless
  <2>3. CanRollback(t, fresh[t]) BY <2>1, <2>2 DEF CanRollback
  <2>4. /\ ledger' = ledger /\ fresh' = fresh /\ pc'[t] = "cut"
    BY <1>0, <1>7, <2>3 DEF Undo, RollbackMark, Goto, locals
  <2>5. (RecordAt(t, Len(ledger[t]) - 1) = Base(t).head)'
    <3>1. RecordAt(t, Len(ledger[t]) - 1) = disk[t].head
      BY <1>0, <1>2, <2>1 DEF Traceless, Appended
    <3> QED BY <1>2, <2>4, <3>1 DEF RecordAt
  <2> QED BY <1>1, <1>2, <1>3, <1>4, <2>1, <2>4, <2>5
          DEF Traceless, Appended, Saving, Loaded, InTransaction, Writing
<1>8. CASE Cut(t)
  <2>1. /\ pc[t] = "cut" /\ fresh[t] # NoRecord /\ Len(ledger[t]) > 0
        /\ mark[t] # NoAnchor /\ mark[t].count = Len(ledger[t]) - 1
        /\ mark[t] = MarkAt(t, Len(ledger[t]) - 1)
    BY <1>0, <1>8 DEF Cut, LedgerPart, FreshOK, MarkOK, Appended
  <2>2. ledger'[t] = Front(ledger[t]) /\ mark' = mark /\ pc'[t] = "idle"
    BY <1>0, <1>8 DEF Cut, RollbackRecord, Goto
  <2>3. /\ Len(ledger'[t]) = Len(ledger[t]) - 1
        /\ \A k \in 1..(Len(ledger[t]) - 1) : ledger'[t][k] = ledger[t][k]
    BY <1>0, <2>1, <2>2, FrontFacts
  <2>4. RecordAt(t, Len(ledger[t]))' = RecordAt(t, Len(ledger[t]) - 1)
    <3> DEFINE n == Len(ledger[t]) - 1
    <3>0. Len(ledger[t]) \in Nat /\ Len(ledger[t]) > 0 BY <1>0, <2>1
    <3>1. n \in Nat BY <3>0
    <3>2. \A m \in Nat : m # 0 => m \in 1..m OBVIOUS
    <3>3. Len(ledger'[t]) = n /\ \A k \in 1..n : ledger'[t][k] = ledger[t][k] BY <2>3
    <3> HIDE DEF n
    <3>4. n # 0 => ledger'[t][n] = ledger[t][n] BY <3>1, <3>2, <3>3
    <3>5. RecordAt(t, Len(ledger[t]))' = IF n = 0 THEN NoRecord ELSE ledger'[t][n]
      BY <3>3 DEF RecordAt
    <3>6. RecordAt(t, Len(ledger[t]) - 1) = IF n = 0 THEN NoRecord ELSE ledger[t][n]
      BY DEF RecordAt, n
    <3> QED BY <3>4, <3>5, <3>6
  <2>5. LedgerHead(t)' = disk[t].head
    <3>1. RecordAt(t, Len(ledger[t]) - 1) = disk[t].head
      BY <1>0, <1>2, <2>1 DEF Traceless, Appended
    <3> QED BY <2>4, <3>1 DEF LedgerHead
  <2>6. Verified(t)'
    <3>1. mark'[t] = [count |-> Len(ledger'[t]), head |-> RecordAt(t, Len(ledger[t]))']
      BY <2>1, <2>2, <2>3, <2>4 DEF MarkAt
    <3> QED BY <1>4, <3>1 DEF Verified, MarkAt
  <2> QED BY <1>1, <1>2, <1>3, <1>4, <2>2, <2>5, <2>6
          DEF Traceless, Appended, Saving, Loaded, InTransaction, Writing
<1> QED BY <1>5, <1>6, <1>7, <1>8

(* What the preflight notes is as coherent as what it finds.               *)
LEMMA AfterCoherent ==
    ASSUME IInv, TraceInv, NEW t \in Tasks, hurt[t] = {}, pc[t] = "preflight"
    PROVE  Coherent(After(t)) /\ After(t).head = LedgerHead(t) /\ plan[t] = disk[t]
<1>0. /\ Traceless(t) /\ FreshOK(t) /\ disk[t] \in Disks BY DEF IInv, TraceInv, LedgerPart, TypeOK
<1>1. Base(t) = disk[t] BY DEF Base, Writing
<1>2. plan[t] = disk[t] /\ got[t].rev = disk[t].rev /\ got[t].head = disk[t].head
  BY <1>0, <1>1 DEF Traceless, Loaded, Saving, InTransaction
<1>3. disk[t].history = 0..disk[t].rev /\ disk[t].rev \in Nat
  BY <1>0, <1>1, DiskFields DEF Traceless, Coherent, AnchorHolds
<1>4. (0..disk[t].rev) \cup {disk[t].rev + 1} = 0..(disk[t].rev + 1) BY <1>3
<1>5. NewHead(t) = LedgerHead(t)
  BY <1>0, <1>1, <1>2 DEF NewHead, FreshOK, Traceless, Appended, Saving, InTransaction
<1>6. After(t) = [rev |-> disk[t].rev + 1, head |-> NewHead(t), anchor |-> disk[t].rev + 1,
                  history |-> disk[t].history \cup {disk[t].rev + 1}]
  BY <1>2 DEF After
<1> QED BY <1>2, <1>3, <1>4, <1>5, <1>6 DEF Coherent, AnchorHolds

(* The command itself leaves no trace either.                              *)
LEMMA TracelessOwn ==
    ASSUME IInv, TraceInv, NEW t \in Tasks, hurt[t] = {}, StepOf(t), hurt'[t] = {}
    PROVE  Traceless(t)'
<1>0. /\ TypeOK /\ Traceless(t) /\ LedgerPart(t) /\ FreshOK(t) /\ InsidePart(t)
      /\ pc \in [Tasks -> PCs] /\ fresh \in [Tasks -> Nat] /\ disk \in [Tasks -> Disks]
      /\ got \in [Tasks -> Disks] /\ plan \in [Tasks -> Disks]
      /\ hurt \in [Tasks -> SUBSET Faults] /\ (Pending(t) => pc[t] \in Writing)
  BY DEF IInv, TraceInv, LedgerPart, TypeOK
<1>16. ASSUME NEW what PROVE ~Strike(t, what) BY <1>0 DEF Strike
<1>17. /\ ~Crash(t) /\ ~AppendFails(t) /\ ~UndoFails(t) /\ ~RevertFails(t) /\ ~ClearFails(t)
  BY <1>16 DEF Crash, AppendFails, UndoFails, RevertFails, ClearFails
<1>1. CASE AppendEvidence(t) \/ Mark(t) \/ Undo(t) \/ Cut(t) BY <1>1, TracelessLedger
<1>2. CASE Create(t)
  <2>1. /\ pc[t] = "none" /\ pc'[t] = "idle" /\ disk'[t] = NewDisk /\ UNCHANGED ledgerVars
    BY <1>0, <1>2 DEF Create, Put, Goto
  <2>2. ledger'[t] = <<>> /\ mark'[t] = NoAnchor /\ ~torn'[t] BY <1>0, <2>1 DEF Traceless, ledgerVars
  <2>3. Base(t)' = NewDisk BY <2>1 DEF Base, Writing
  <2>4. Coherent(NewDisk) /\ NewDisk.head = NoRecord
    BY NewDiskFields DEF Coherent, AnchorHolds
  <2>5. LedgerHead(t)' = NoRecord BY <2>2 DEF LedgerHead, RecordAt
  <2>6. Verified(t)' BY <2>2 DEF Verified
  <2> QED BY <2>1, <2>2, <2>3, <2>4, <2>5, <2>6
          DEF Traceless, Coherent, AnchorHolds, Appended, Loaded, Saving, InTransaction, Writing
<1>3. ASSUME NEW c \in {"plain", "evidence"}, Mutate(t, c) PROVE Traceless(t)'
  <2>1. /\ pc[t] = "idle" /\ pc'[t] = "load" /\ UNCHANGED <<ledgerVars, disk, journal>>
    BY <1>0, <1>3 DEF Mutate, Goto
  <2>2. Base(t)' = Base(t) /\ ~torn'[t] BY <1>0, <2>1 DEF Base, Writing, ledgerVars, Traceless
  <2>3. Coherent(Base(t)) /\ LedgerHead(t) = Base(t).head /\ Verified(t)
    BY <1>0, <2>1 DEF Traceless, Appended, Saving, InTransaction, Writing
  <2>4. Verified(t)' /\ LedgerHead(t)' = LedgerHead(t)
    BY <2>1, <2>3 DEF ledgerVars, Verified, LedgerHead, MarkAt, RecordAt
  <2> QED BY <2>1, <2>2, <2>3, <2>4
          DEF Traceless, Coherent, AnchorHolds, Appended, Loaded, Saving, InTransaction, Writing
<1>4. CASE LoadState(t)
  <2>1. /\ pc[t] = "load" /\ pc'[t] = "anchor" /\ UNCHANGED <<ledgerVars, disk, journal>>
        /\ got'[t] = disk[t]
    BY <1>0, <1>4 DEF LoadState, Goto
  <2>2. Base(t)' = disk[t] /\ Base(t) = disk[t] /\ ~torn'[t] BY <1>0, <2>1 DEF Base, Writing, ledgerVars, Traceless
  <2>3. Coherent(disk[t]) /\ LedgerHead(t) = disk[t].head /\ Verified(t)
    BY <1>0, <2>1, <2>2 DEF Traceless, Appended, Saving, InTransaction, Writing
  <2>4. Verified(t)' /\ LedgerHead(t)' = LedgerHead(t)
    BY <2>1, <2>3 DEF ledgerVars, Verified, LedgerHead, MarkAt, RecordAt
  <2> QED BY <2>1, <2>2, <2>3, <2>4
          DEF Traceless, Coherent, AnchorHolds, Appended, Saving, InTransaction, Writing
<1>5. CASE LoadAnchor(t)
  <2>1. pc[t] = "anchor" /\ UNCHANGED <<ledgerVars, disk, journal, locals>> /\ fresh[t] = NoRecord
    BY <1>0, <1>5 DEF LoadAnchor, FreshOK
  <2>2. Base(t) = disk[t] BY <2>1 DEF Base, Writing
  <2>3. AnchorHolds(disk[t]) /\ disk[t].anchor = got[t].rev
    BY <1>0, <2>1, <2>2 DEF Traceless, Coherent, Loaded
  <2>4. pc'[t] \in {"append", "verify"} BY <1>0, <1>5, <2>3 DEF LoadAnchor, Goto
  <2>5. Base(t)' = Base(t) BY <2>1, <2>4 DEF Base, Writing
  <2> QED BY <2>1, <2>4, <2>5, TracelessQuiet DEF Loaded, Writing, locals
<1>6. CASE Repair(t)
  <2>1. pc[t] = "append" /\ ~Verified(t) BY <1>6 DEF Repair, RepairMark
  <2> QED BY <1>0, <2>1 DEF Traceless
<1>18. CASE AppendRefused(t)
  <2>1. /\ pc[t] = "append" /\ pc'[t] = "idle" /\ UNCHANGED <<ledgerVars, disk, journal, locals>>
        /\ fresh[t] = NoRecord
    BY <1>0, <1>18 DEF AppendRefused, Goto, FreshOK
  <2>2. Base(t)' = Base(t) BY <2>1 DEF Base, Writing
  <2> QED BY <2>1, <2>2, TracelessQuiet DEF locals, Loaded, Saving, InTransaction, Writing
<1>7. CASE Verify(t) \/ Plan(t) \/ Enter(t)
  <2>1. /\ pc[t] \in {"verify", "plan", "enter"} /\ UNCHANGED <<ledgerVars, disk, journal, got, fresh>>
        /\ pc'[t] \in {"plan", "enter", "preflight", "recover"}
        /\ pc'[t] = "enter" => plan'[t] = disk[t]
        /\ pc'[t] \in {"recover", "preflight"} => pc[t] = "enter" /\ plan' = plan
    BY <1>0, <1>7 DEF Verify, Plan, Enter, Goto, locals
  <2>2. Base(t)' = Base(t) BY <2>1 DEF Base, Writing
  <2>3. pc'[t] \in {"enter", "recover", "preflight"} => plan'[t] = disk'[t]
    BY <1>0, <2>1 DEF Traceless
  <2> QED BY <2>1, <2>2, <2>3, TracelessQuiet
          DEF Loaded, Appended, Saving, InTransaction, Writing
<1>8. CASE Recover(t) \/ RecoverDone(t)
  <2>1. /\ pc[t] = "recover" /\ UNCHANGED <<ledgerVars, locals>> /\ journal # NoJournal
        /\ pc'[t] \in {"recover", "preflight"}
    BY <1>0, <1>8 DEF Recover, Restore, RecoverDone, Goto
  <2>2. journal.task # t BY <1>0, <2>1 DEF Pending, Writing
  <2>3. disk'[t] = disk[t]
    <3>1. CASE Recover(t) BY <2>2, <3>1, RestoreFacts
    <3>2. CASE RecoverDone(t) BY <3>2 DEF RecoverDone
    <3> QED BY <1>8, <3>1, <3>2
  <2>4. Base(t)' = Base(t) BY <2>1, <2>3 DEF Base, Writing
  <2>5. plan'[t] = disk'[t] BY <1>0, <2>1, <2>3 DEF Traceless, locals
  <2> QED BY <2>1, <2>4, <2>5, TracelessQuiet
          DEF locals, Loaded, Appended, Saving, InTransaction, Writing
<1>9. CASE Revert(t)
  <2>1. /\ pc[t] = "revert" /\ UNCHANGED <<ledgerVars, locals>> /\ journal.task = t
    BY <1>0, <1>9 DEF Revert, Restore, InsidePart, Writing
  <2>2. Coherent(journal.after) /\ journal.after.head = LedgerHead(t)
    BY <1>0, <2>1 DEF Traceless, Writing
  <2>3. CASE journal' = journal /\ pc' = pc
    <3>1. Base(t)' = Base(t) BY <2>1, <2>3 DEF Base, Writing
    <3> QED BY <2>1, <2>2, <2>3, <3>1, TracelessQuiet DEF locals
  <2>4. CASE disk' = disk /\ disk[t] = journal.before /\ Goto(t, AfterFailure(t))
    <3>1. pc'[t] = AfterFailure(t) BY <1>0, <2>4 DEF Goto
    <3>2. Base(t)' = Base(t) BY <2>1, <2>4, <3>1 DEF Base, Writing, AfterFailure
    <3> QED BY <2>1, <3>1, <3>2, TracelessQuiet
            DEF AfterFailure, locals, Loaded, Appended, Saving, InTransaction, Writing
  <2> QED BY <1>9, <2>1, <2>3, <2>4, RestoreFacts DEF Recover, Restore
<1>10. CASE Preflight(t)
  <2>1. pc[t] = "preflight" /\ UNCHANGED <<ledgerVars, disk, locals>> BY <1>10 DEF Preflight
  <2>2. Coherent(After(t)) /\ After(t).head = LedgerHead(t) /\ plan[t] = disk[t]
    BY <2>1, AfterCoherent
  <2>3. /\ journal' = [task |-> t, before |-> disk[t], after |-> After(t), done |-> FALSE, failed |-> FALSE] /\ pc'[t] = "state"
    BY <1>0, <1>10, <2>2 DEF Preflight, Goto
  <2>4. journal'.before = disk[t] /\ journal'.after = After(t) BY <2>3
  <2>5. Base(t)' = Base(t) BY <2>1, <2>3, <2>4 DEF Base, Writing
  <2> QED BY <2>1, <2>2, <2>3, <2>4, <2>5, TracelessQuiet
          DEF locals, Loaded, Appended, Saving, InTransaction, Writing
<1>11. CASE WriteState(t) \/ WriteAnchor(t)
  <2>1. /\ pc[t] \in {"state", "history"} /\ pc'[t] \in {"history", "commit"}
        /\ UNCHANGED <<ledgerVars, journal, locals>>
    BY <1>0, <1>11 DEF WriteState, WriteAnchor, Goto
  <2>2. Base(t)' = Base(t) BY <2>1 DEF Base, Writing
  <2>3. Coherent(journal.after) /\ journal.after.head = LedgerHead(t)
    BY <1>0, <2>1 DEF Traceless, Writing
  <2> QED BY <2>1, <2>2, <2>3, TracelessQuiet
          DEF locals, Loaded, Appended, Saving, InTransaction, Writing
<1>12. CASE Clear(t)
  <2>1. pc[t] = "clear" /\ pc'[t] = "idle" /\ UNCHANGED <<ledgerVars, disk>>
    BY <1>0, <1>12 DEF Clear, Goto
  <2>2. disk[t] = journal.after BY <1>0, <2>1 DEF InsidePart
  <2>3. Coherent(disk[t]) /\ disk[t].head = LedgerHead(t) /\ Verified(t) /\ ~torn[t]
    BY <1>0, <2>1, <2>2 DEF Traceless, Writing
  <2>4. Base(t)' = disk[t] BY <2>1 DEF Base, Writing
  <2>5. Verified(t)' /\ LedgerHead(t)' = LedgerHead(t) /\ ~torn'[t]
    BY <2>1, <2>3 DEF ledgerVars, Verified, LedgerHead, MarkAt, RecordAt
  <2> QED BY <2>1, <2>3, <2>4, <2>5
          DEF Traceless, Coherent, AnchorHolds, Loaded, Appended, Saving, InTransaction, Writing
<1>14. CASE Commit(t)
  <2>1. /\ pc[t] = "commit" /\ pc'[t] = "clear" /\ UNCHANGED <<ledgerVars, disk, locals>>
        /\ journal' = [journal EXCEPT !.done = TRUE]
    BY <1>0, <1>14 DEF Commit, Goto
  <2>2. journal \in Journals BY <1>0, <2>1, JournalFields DEF InsidePart, Writing
  <2>3. journal'.before = journal.before /\ journal'.after = journal.after
    BY <2>1, <2>2, FlagFields
  <2>4. Base(t)' = Base(t) BY <2>1, <2>3 DEF Base, Writing
  <2>5. Coherent(journal.after) /\ journal.after.head = LedgerHead(t)
    BY <1>0, <2>1 DEF Traceless, Writing
  <2> QED BY <2>1, <2>3, <2>4, <2>5, TracelessQuiet
          DEF locals, Loaded, Appended, Saving, InTransaction, Writing
<1>13. CASE Raise(t)
  <2>1. UNCHANGED <<ledgerVars, disk, journal, locals>> BY <1>13 DEF Raise
  <2>2. CASE pc[t] \in {"verify", "plan", "enter", "recover", "preflight"}
    <3>1. pc'[t] = AfterFailure(t) BY <1>0, <1>13, <2>2 DEF Raise, Goto
    <3>2. Base(t)' = Base(t) BY <2>1, <2>2, <3>1 DEF Base, Writing, AfterFailure
    <3> QED BY <2>1, <2>2, <3>1, <3>2, TracelessQuiet
            DEF AfterFailure, locals, Loaded, Appended, Saving, InTransaction, Writing
  <2>3. CASE pc[t] \in {"state", "history", "commit", "clear"}
    <3>1. pc'[t] = "revert" BY <1>0, <1>13, <2>3 DEF Raise, Goto
    <3>2. Base(t)' = Base(t) BY <2>1, <2>3, <3>1 DEF Base, Writing
    <3>3. Coherent(journal.after) /\ journal.after.head = LedgerHead(t)
      BY <1>0, <2>3 DEF Traceless, Writing
    <3> QED BY <2>1, <2>3, <3>1, <3>2, <3>3, TracelessQuiet
            DEF locals, Loaded, Appended, Saving, InTransaction, Writing
  <2> QED BY <1>13, <2>2, <2>3 DEF Raise
<1> QED BY <1>1, <1>2, <1>3, <1>4, <1>5, <1>6, <1>7, <1>8, <1>9, <1>10, <1>11, <1>12, <1>13, <1>14,
       <1>17, <1>18 DEF StepOf

(* A journal of a task that nothing struck belongs to a write under way.   *)
LEMMA PendingIsWriting ==
    ASSUME IInv, TraceInv, NEW t \in Tasks, StepOf(t),
           NEW u \in Tasks, hurt[u] = {}, hurt'[u] = {}, Pending(u)'
    PROVE  pc'[u] \in Writing
<1>0. /\ TypeOK /\ pc \in [Tasks -> PCs] /\ hurt \in [Tasks -> SUBSET Faults]
      /\ Pending(u) => pc[u] \in Writing
  BY DEF IInv, TypeOK, TraceInv
<1>1. CASE Pending(u)
  <2>1. CASE u # t BY <1>0, <1>1, <2>1, OthersStay
  <2>2. CASE u = t
    <3>1. ASSUME NEW what PROVE ~Strike(t, what) BY <1>0, <2>2 DEF Strike
    <3>2. CASE Revert(t)
      <4>1. pc' = pc BY <3>2, RestoreFacts DEF Pending
      <4> QED BY <1>0, <1>1, <4>1
    <3>3. CASE ~Revert(t)
      <4>1. pc[t] \in Writing /\ journal' # NoJournal BY <1>0, <1>1, <2>2 DEF Pending
      <4> QED BY <1>0, <2>2, <3>1, <3>3, <4>1 DEF Goto, Writing, StepOf, Create, Mutate, LoadState, LoadAnchor, Repair, AppendEvidence, AppendRefused,
         Mark, Undo, Cut, Verify, Plan, Enter, Recover, Revert, Restore, Preflight, WriteState,
         WriteAnchor, Commit, Clear, Raise, Crash, RecoverDone, AppendFails, UndoFails, RevertFails,
         ClearFails
    <3> QED BY <3>2, <3>3
  <2> QED BY <2>1, <2>2
<1>2. CASE ~Pending(u)
  <2>1. Preflight(t) /\ disk[t] = plan[t] /\ journal'.task = t
    BY <1>2, JournalMoves DEF Pending
  <2>2. pc'[t] = "state" BY <1>0, <2>1 DEF Preflight, Goto
  <2> QED BY <2>1, <2>2 DEF Pending, Writing
<1> QED BY <1>1, <1>2

(* Nothing on the disk, nothing to leave.                                  *)
LEMMA InitTraceInv == Init => TraceInv
<1> SUFFICES ASSUME Init, NEW t \in Tasks PROVE Traceless(t) BY DEF Init, TraceInv, Pending
<1>1. /\ pc[t] = "none" /\ ledger[t] = <<>> /\ mark[t] = NoAnchor /\ ~torn[t] /\ disk[t] = NoDisk
  BY DEF Init, LedgerInit
<1>2. Verified(t) BY <1>1 DEF Verified
<1>3. Base(t) = NoDisk /\ LedgerHead(t) = NoRecord /\ NoDisk.head = NoRecord
  BY <1>1 DEF Base, Writing, LedgerHead, RecordAt, NoDisk
<1> QED BY <1>1, <1>2, <1>3 DEF Traceless, Loaded, Appended, Saving, InTransaction, Writing

(* Every step keeps the second invariant.                                  *)
LEMMA NextTraceInv == IInv /\ TraceInv /\ [Next]_vars => TraceInv'
<1> SUFFICES ASSUME IInv, TraceInv, [Next]_vars, NEW u \in Tasks, hurt'[u] = {}
             PROVE  Traceless(u)' /\ (Pending(u)' => pc'[u] \in Writing)
  BY DEF TraceInv
<1>1. CASE Next
  <2>1. PICK t \in Tasks : StepOf(t) BY <1>1 DEF Next, StepOf
  <2>2. hurt[u] = {} BY <2>1, HurtGrows DEF IInv
  <2>3. Traceless(u)' BY <2>1, <2>2, TracelessElsewhere, TracelessOwn
  <2>4. Pending(u)' => pc'[u] \in Writing BY <2>1, <2>2, PendingIsWriting
  <2> QED BY <2>3, <2>4
<1>2. CASE UNCHANGED vars
  <2>1. /\ UNCHANGED <<ledger, torn, mark, disk, journal, pc, got, fresh, plan, hurt>>
    BY <1>2 DEF vars, ledgerVars, locals
  <2>2. Traceless(u) /\ (Pending(u) => pc[u] \in Writing) BY <2>1 DEF TraceInv
  <2>3. Traceless(u)'
    BY <2>1, <2>2 DEF Traceless, Base, Verified, LedgerHead, MarkAt, RecordAt, Coherent, AnchorHolds
  <2> QED BY <2>1, <2>2, <2>3 DEF Pending
<1> QED BY <1>1, <1>2

(* A command that was refused or failed leaves files that load, a ledger   *)
(* that verifies, and a state that names the head of its ledger, whatever  *)
(* crashes and failures the other tasks meet.  Excepted are the tasks that *)
(* were struck by what no handler takes back: a crash, an error after the  *)
(* first write of append_evidence, an error of a rollback itself, or one   *)
(* after the journal is unlinked.                                          *)
THEOREM FailuresLeaveNoTrace == Spec => []FailureLeavesNoTrace
<1>1. TraceInv => FailureLeavesNoTrace
  <2> SUFFICES ASSUME TraceInv, NEW t \in Tasks, hurt[t] = {}, Rests(t)
               PROVE  Loadable(t) /\ Verified(t) /\ LedgerHead(t) = disk[t].head
    BY DEF FailureLeavesNoTrace
  <2>1. Traceless(t) /\ pc[t] = "idle" BY DEF TraceInv, Rests
  <2>2. Base(t) = disk[t] BY <2>1 DEF Base, Writing
  <2> QED BY <2>1, <2>2 DEF Traceless, Loadable, Coherent, Appended, Saving, InTransaction, Writing
<1>2. Spec => []TraceInv
  <2>1. Init /\ []IInv /\ [][Next]_vars => []TraceInv BY InitTraceInv, NextTraceInv, PTL
  <2> QED BY <2>1, AlwaysIInv, PTL DEF Spec
<1> QED BY <1>1, <1>2, PTL

=============================================================================
