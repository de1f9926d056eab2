--------------------------- MODULE EvidenceLedger ---------------------------
(***************************************************************************)
(* agentinfra/evidence.py: the hash-chained evidence ledger of a task and *)
(* the anchor file that names its length and head.  Ledger and anchor are *)
(* two files written one after the other; every operation below is one    *)
(* disk write of the process that holds the evidence lock of the task.  A *)
(* record is its serial number, which stands for its digest; the chain of *)
(* previous digests is the order of the records.                          *)
(***************************************************************************)
EXTENDS Integers, Sequences, SequencesExt, FiniteSets

CONSTANTS Tasks, NoAnchor

NoRecord == 0

VARIABLES
    ledger,   \* the complete records of evidence.jsonl
    torn,     \* it ends in part of a record
    mark,     \* evidence-head.json: its count and head
    minted    \* records appended so far, in all tasks

ledgerVars == <<ledger, torn, mark, minted>>

RecordAt(t, n) == IF n = 0 THEN NoRecord ELSE ledger[t][n]
LedgerHead(t) == RecordAt(t, Len(ledger[t]))
MarkAt(t, n) == [count |-> n, head |-> RecordAt(t, n)]

Marks == [count : Nat, head : Nat]

ASSUME NoAnchorAssumption == NoAnchor \notin Marks

LedgerTypeOK ==
    /\ minted \in Nat
    /\ ledger \in [Tasks -> Seq(1..minted)] /\ torn \in [Tasks -> BOOLEAN]
    /\ mark \in [Tasks -> Marks \cup {NoAnchor}]

LedgerInit ==
    /\ ledger = [t \in Tasks |-> <<>>] /\ torn = [t \in Tasks |-> FALSE]
    /\ mark = [t \in Tasks |-> NoAnchor] /\ minted = 0

\* load_evidence(verify=True) succeeds.
Verified(t) == ~torn[t] /\ mark[t] \in {NoAnchor, MarkAt(t, Len(ledger[t]))}

\* _recover_stale_anchor accepts: the anchor names a record of the ledger.
Repairable(t) ==
    /\ ~torn[t] /\ mark[t] # NoAnchor
    /\ mark[t].count \in 1..Len(ledger[t]) /\ mark[t] = MarkAt(t, mark[t].count)

\* append_evidence goes on to write a record.
Appendable(t) == Verified(t)

\* append_evidence first moves a stale anchor over the records a crash left.
RepairMark(t) ==
    /\ ~Verified(t) /\ Repairable(t)
    /\ mark' = [mark EXCEPT ![t] = MarkAt(t, Len(ledger[t]))]
    /\ UNCHANGED <<ledger, torn, minted>>

AppendRecord(t) ==
    /\ Appendable(t)
    /\ minted' = minted + 1
    /\ ledger' = [ledger EXCEPT ![t] = Append(@, minted')]
    /\ UNCHANGED <<torn, mark>>

MarkRecord(t) ==
    /\ mark' = [mark EXCEPT ![t] = MarkAt(t, Len(ledger[t]))]
    /\ UNCHANGED <<ledger, torn, minted>>

\* rollback_last_evidence: the prior anchor, then the shorter ledger.
CanRollback(t, r) == Verified(t) /\ mark[t] # NoAnchor /\ LedgerHead(t) = r

\* Mutant: the ledger is cut under an anchor that still names the record.
RollbackMarkLater(t, r) == CanRollback(t, r) /\ UNCHANGED ledgerVars

RollbackMark(t, r) ==
    /\ CanRollback(t, r)
    /\ mark' = [mark EXCEPT ![t] = MarkAt(t, Len(ledger[t]) - 1)]
    /\ UNCHANGED <<ledger, torn, minted>>

RollbackRecord(t) ==
    /\ ledger' = [ledger EXCEPT ![t] = Front(@)]
    /\ UNCHANGED <<torn, mark, minted>>

\* A process stops inside os.write: part of the record stays.
TearRecord(t) ==
    /\ torn' = [torn EXCEPT ![t] = TRUE]
    /\ UNCHANGED <<ledger, mark, minted>>

\* The anchor always names a record that is in the ledger, at its place, so
\* the history before it cannot have been rewritten (evidence.py:192-209),
\* whatever step of an append or of a rollback was the last one to happen.
MarkNamesRecord ==
    \A t \in Tasks : mark[t] # NoAnchor =>
        mark[t].count \in 0..Len(ledger[t]) /\ mark[t] = MarkAt(t, mark[t].count)
=============================================================================
