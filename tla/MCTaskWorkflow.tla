--------------------------- MODULE MCTaskWorkflow ---------------------------
(***************************************************************************)
(* Tasks that change the workspace, with cycles, receipts and a gate, and  *)
(* a critical one that only reads, with risks, notes and a waiver.  Of the *)
(* writing ones the first has a workspace that is edited during the        *)
(* implementation, the other drafts of every kind.  Every command is given *)
(* where what was recorded before it goes out of date.                     *)
(***************************************************************************)
EXTENDS TaskWorkflow
Writing(drafting, editing) ==
    [enter |-> States \ {"EXPLORE", "RESEARCH", "ARCHITECT", "DIAGNOSE", "REVIEW",
                         "FAILED", "CANCELLED", "ABANDONED"},
     escape |-> {"IMPLEMENT"}, precheck |-> {"PRECHECK"},
     gate_hard |-> {"GREEN"}, gate_required |-> {}, gate_prove |-> {"VERIFY"},
     gate_waive |-> {}, risk |-> {}, decision |-> {}, note |-> {}, command |-> {"VERIFY"},
     external |-> {}, draft |-> drafting, child |-> {"ADVERSARIAL_REVIEW"},
     cycle |-> {"TEST_DESIGN", "IMPLEMENT", "VERIFY"},
     falsification |-> {"FALSIFY"}, review |-> {"ADVERSARIAL_REVIEW"}, edit |-> editing]

Reading ==
    [enter |-> States \ {"RESEARCH", "FALSIFY", "GREEN", "BASELINE"},
     escape |-> {"CREATED", "BLOCKED"}, precheck |-> {"PRECHECK"},
     gate_hard |-> {}, gate_required |-> {"PLAN"}, gate_prove |-> {"VERIFY"},
     gate_waive |-> {"VERIFY"}, risk |-> {"VERIFY"}, decision |-> {"FINAL_AUDIT"},
     note |-> {"VERIFY"}, command |-> {"VERIFY"}, external |-> {"PLAN"}, draft |-> {},
     child |-> {"VERIFY"}, cycle |-> {}, falsification |-> {}, review |-> {},
     edit |-> {"FINAL_AUDIT"}]

MCProfiles == {<<"write", "medium">>, <<"write", "high">>, <<"read", "critical">>}

MCUses ==
    [p \in MCProfiles |->
        CASE p = <<"write", "medium">> -> Writing({}, {"IMPLEMENT", "FINAL_AUDIT"})
          [] p = <<"write", "high">> ->
                Writing({"TEST_DESIGN", "IMPLEMENT", "FALSIFY", "ADVERSARIAL_REVIEW"}, {"FINAL_AUDIT"})
          [] OTHER -> Reading]
=============================================================================
