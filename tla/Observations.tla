----------------------------- MODULE Observations -----------------------------
(***************************************************************************)
(* A law run or the users of the context ledger at work, while somebody    *)
(* edits the files they look at.  Neither writes what the other reads, so  *)
(* that a behaviour has one of the two; task says which.                   *)
(***************************************************************************)
EXTENDS LawRunner, ContextLedger

VARIABLE task

vars == <<fileVars, lawVars, ledgerVars, task>>

Init ==
  /\ FilesInit /\ LawInit /\ LedgerInit
  /\ task \in {"laws", "ledger"}

SomebodyEdits ==
  \E f \in Files, c \in Contents :
    /\ Edit(f, c)
    /\ EditWhileRun(f) /\ EditSeen

RunLaws == task = "laws" /\ LawNext /\ UNCHANGED ledgerVars

UseLedger == task = "ledger" /\ LedgerNext /\ UNCHANGED <<fileVars, lawVars>>

Next == (SomebodyEdits \/ RunLaws \/ UseLedger) /\ UNCHANGED task

Spec == Init /\ [][Next]_vars

=============================================================================
