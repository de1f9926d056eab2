---------------------------- MODULE TaskWorkflow ----------------------------
(***************************************************************************)
(* The workflow of one task: state_machine.py decides which transition is *)
(* allowed, state_store.py applies it and what is recorded around it      *)
(* (TDD cycles, falsification and review receipts, gates, risks,          *)
(* evidence), assurance.py and review.py build the receipts.  Mutations   *)
(* of the task exclude one another (TaskStore); the workspace is edited   *)
(* at any time, and a cycle or a receipt is built at one time and         *)
(* recorded at another, so what it is about may be out of date by then.   *)
(* A digest of the workspace is its content, and contents are numbered as *)
(* they first appear; a digest of a cycle is the cycle.                   *)
(***************************************************************************)
EXTENDS Integers, Sequences, FiniteSets

CONSTANTS None, Profiles,   \* the mode and risk a task may be created with
          Uses,             \* bound: the commands a run gives to each of them, in which state
          MaxEpoch, MaxEdits, MaxCycles, MaxEvidence, MaxDrafts

ASSUME ProfilesAssumption ==
    Profiles \subseteq {"read", "write"} \X {"low", "medium", "high", "critical"}
ASSUME BoundsAssumption == \A n \in {MaxEpoch, MaxEdits, MaxCycles, MaxEvidence, MaxDrafts} : n \in Nat
ASSUME NoneAssumption == None \notin Nat

VARIABLES
    task,     \* state.json and the evidence ledger
    ws,       \* the content of the workspace
    returned, \* the workspace has been taken back to an earlier content
    drafts,   \* cycles and receipts built and not yet recorded
    closing   \* FINALIZE has passed its checks and is about to be saved

workspace == <<ws, returned>>
vars == <<task, workspace, drafts, closing>>

Escapes == {"BLOCKED", "CANCELLED", "ABANDONED", "FAILED"}
Terminal == {"FAILED", "FINALIZE", "CANCELLED", "ABANDONED"}
Forward ==
    [CREATED |-> {"DISCOVER"}, DISCOVER |-> {"PRECHECK"}, PRECHECK |-> {"TRIAGE"},
     TRIAGE |-> {"EXPLORE", "RESEARCH", "ARCHITECT", "PLAN"},
     EXPLORE |-> {"TRIAGE", "RESEARCH", "ARCHITECT", "PLAN"},
     RESEARCH |-> {"TRIAGE", "EXPLORE", "ARCHITECT", "PLAN"},
     ARCHITECT |-> {"PLAN", "TRIAGE"},
     PLAN |-> {"TEST_DESIGN", "IMPLEMENT", "VERIFY"},
     TEST_DESIGN |-> {"BASELINE"},
     BASELINE |-> {"IMPLEMENT", "REMEDIATE", "TEST_DESIGN"},
     IMPLEMENT |-> {"GREEN", "DIAGNOSE", "TEST_DESIGN"},
     DIAGNOSE |-> {"TEST_DESIGN", "REVIEW", "ADVERSARIAL_REVIEW"},
     GREEN |-> {"VERIFY", "FALSIFY", "ADVERSARIAL_REVIEW", "TEST_DESIGN"},
     VERIFY |-> {"FALSIFY", "ADVERSARIAL_REVIEW", "TEST_DESIGN", "FINAL_AUDIT"},
     FALSIFY |-> {"VERIFY", "ADVERSARIAL_REVIEW", "TEST_DESIGN"},
     REVIEW |-> {"TEST_DESIGN", "REMEDIATE", "VERIFY", "FINAL_AUDIT"},
     ADVERSARIAL_REVIEW |-> {"TEST_DESIGN", "VERIFY", "FALSIFY", "FINAL_AUDIT"},
     REMEDIATE |-> {"GREEN", "DIAGNOSE", "TEST_DESIGN"},
     FINAL_AUDIT |-> {"TEST_DESIGN", "VERIFY", "FINALIZE"}]
States == DOMAIN Forward \cup Escapes \cup Terminal
Allowed(s) ==
    CASE s = "BLOCKED" -> States \ {"CREATED", "FINALIZE"}
      [] s \in Terminal -> {}
      [] OTHER -> Forward[s] \cup Escapes

Commands == {"precheck", "gate_hard", "gate_required", "gate_prove", "gate_waive", "risk",
             "decision", "note", "command", "external", "draft", "child", "cycle", "falsification", "review", "edit"}
ASSUME UsesAssumption ==
    Uses \in [Profiles -> [Commands \cup {"enter", "escape"} -> SUBSET States]]

Epochs == 0..MaxEpoch
Edits == 0..MaxEdits
Ids == 1..MaxCycles
Proofs == [epoch : Epochs, ws : Edits, kind : {"command", "note", "external"}, gate : BOOLEAN]
Cycles == [status : {"DESIGNED", "OBSERVED", "GREEN", "COMPLETE", "ABORTED"},
           since : Epochs, base : Edits \cup {None},
           green : Epochs \cup {None}, cand : Edits \cup {None}]
Receipts == [cycle : Cycles, epoch : Epochs, diff : Edits, clean : BOOLEAN]
Reviews == [cycle : Cycles, epoch : Epochs, diff : Edits, evidence : 0..MaxEvidence]
Gates == [status : {"NONE", "OPEN", "PROVEN", "WAIVED"}, hard : BOOLEAN,
          after : 0..MaxEvidence, proof : SUBSET (1..MaxEvidence), waiver : 0..MaxEvidence]

TaskRecords ==
    [mode : {"read", "write"}, risk : {"low", "medium", "high", "critical"},
     state : States, prev : States \cup {None}, epoch : Epochs,
     prechecked : BOOLEAN, planned : BOOLEAN, reviewed : Epochs \cup {None},
     cycles : Seq(Cycles), active : 0..MaxCycles,
     impl : Edits \cup {None}, fals : Receipts \cup {None}, review : Reviews \cup {None},
     child : BOOLEAN, accepted : BOOLEAN,
     evidence : Seq(Proofs),
     verif : SUBSET (1..MaxEvidence), vepoch : Epochs \cup {None},
     gate : Gates, hazard : {"NONE", "open", "resolved"}, audited : Edits \cup {None}]

TypeOK ==
    /\ task \in TaskRecords
    /\ Len(task.cycles) <= MaxCycles /\ Len(task.evidence) <= MaxEvidence
    /\ ws \in Edits
    /\ drafts \subseteq [of : {"cycle"}, id : Ids, cycle : Cycles]
              \cup [of : {"falsification"}, receipt : Receipts]
              \cup [of : {"review"}, receipt : Reviews]
    /\ closing \in BOOLEAN /\ returned \in BOOLEAN

NoGate == [status |-> "NONE", hard |-> TRUE, after |-> 0, proof |-> {}, waiver |-> 0]
NewTask(mode, risk) ==
    [mode |-> mode, risk |-> risk, state |-> "CREATED", prev |-> None, epoch |-> 0,
     prechecked |-> FALSE, planned |-> FALSE, reviewed |-> None,
     cycles |-> <<>>, active |-> 0, impl |-> None, fals |-> None, review |-> None,
     child |-> FALSE, accepted |-> FALSE, evidence |-> <<>>, verif |-> {}, vepoch |-> None,
     gate |-> NoGate, hazard |-> "NONE", audited |-> None]

Init ==
    /\ task \in {NewTask(p[1], p[2]) : p \in Profiles}
    /\ ws = 0 /\ returned = FALSE /\ drafts = {} /\ closing = FALSE

May(c) == task.state \in Uses[<<task.mode, task.risk>>][c]
Goes(s) == s \in Uses[<<task.mode, task.risk>>]["enter"] /\ (s \in Escapes => May("escape"))

NoCycle == [status |-> "ABORTED", since |-> 0, base |-> None, green |-> None, cand |-> None]
Current(t) == IF t.active = 0 THEN NoCycle ELSE t.cycles[t.active]

(***************************************************************************)
(* _save_locked: what every mutation passes through.                       *)
(***************************************************************************)

FalsificationBindings(t) == <<Current(t), t.epoch, t.impl>>
ReviewBindings(t) == <<Current(t), t.epoch, t.impl, Len(t.evidence)>>

\* validate_falsification_receipt; a binding the task has no value for is not compared.
ValidFalsification(t) ==
    /\ t.fals # None /\ t.active # 0
    /\ t.fals.cycle = Current(t) /\ t.fals.epoch = t.epoch
    /\ t.impl = None \/ t.fals.diff = t.impl

\* validate_review_receipt: the receipt is about what the task is now.
ReviewReceiptCurrent(t) ==
    /\ t.review.cycle = Current(t) /\ t.review.epoch = t.epoch
    /\ t.review.diff = t.impl /\ t.review.evidence = Len(t.evidence)

\* _validate_bound_review: there is one, by the reviewer of an accepted handoff.
BoundReview(t) ==
    t.review # None /\ t.active # 0 /\ t.accepted /\ ReviewReceiptCurrent(t)

\* _validate_bound_falsification
BoundFalsification(t) == ValidFalsification(t)

\* validate_gate_waiver: the record of an external source in which the user or
\* the host waives the gate.
ValidWaiver(t) ==
    /\ ~t.gate.hard /\ t.gate.waiver \in DOMAIN t.evidence
    /\ LET r == t.evidence[t.gate.waiver]
       IN  r.kind = "external" /\ r.gate /\ r.epoch = t.epoch

Claims(t) == <<t.gate, t.hazard, t.verif, t.vepoch, t.evidence>>

\* Mutant: a receipt stays in the task when what it is about changes.
SavedWithReceipts(old, new) == [new EXCEPT !.audited = IF Claims(old) # Claims(new) THEN None ELSE @]

\* A receipt that is not new and not current any more is dropped, and so is
\* an audit of other claims.
Saved(old, new) ==
    [new EXCEPT
        !.fals = IF @ = old.fals /\ FalsificationBindings(old) # FalsificationBindings(new)
                 THEN None ELSE @,
        !.review = IF @ = old.review /\ ReviewBindings(old) # ReviewBindings(new)
                   THEN None ELSE @,
        !.audited = IF Claims(old) # Claims(new) THEN None ELSE @]

\* A cycle keeps its identity and extends its events; a closed one stays.
Stages == [DESIGNED |-> 0, OBSERVED |-> 1, GREEN |-> 2, COMPLETE |-> 3, ABORTED |-> 4]
\* Mutant: the recorded events are not compared.
ExtendsAnyOpenCycle(old, new) ==
    \/ new = old
    \/ /\ old.status \notin {"ABORTED", "COMPLETE"} /\ new.since = old.since
       /\ Stages[new.status] > Stages[old.status]

Extends(old, new) ==
    \/ new = old
    \/ /\ old.status \notin {"ABORTED", "COMPLETE"} /\ new.since = old.since
       /\ Stages[new.status] > Stages[old.status]
       /\ Stages[old.status] >= 1 => new.base = old.base
       /\ Stages[old.status] >= 2 => new.green = old.green /\ new.cand = old.cand

AppendOnly(old, new) ==
    /\ DOMAIN old.cycles \subseteq DOMAIN new.cycles
    /\ \A i \in DOMAIN old.cycles : Extends(old.cycles[i], new.cycles[i])
    /\ new.epoch \in old.epoch..(old.epoch + 1)
    /\ old.gate.status # "NONE" => new.gate.after = old.gate.after /\ new.gate.hard = old.gate.hard

SaveAccepts(t) ==
    /\ t.fals # None => BoundFalsification(t)
    /\ t.review # None => BoundReview(t)
    /\ t.gate.status = "WAIVED" => ValidWaiver(t)

\* _save_locked drops what is out of date, then compares and validates.
Saves(new) == LET saved == Saved(task, new) IN AppendOnly(task, saved) /\ SaveAccepts(saved)

\* mutate, outside the handoff of a child, on a task that has not ended.
Mutate(new) ==
    /\ ~closing /\ task.state \notin Terminal
    /\ Saves(new) /\ task' = Saved(task, new)

OwnMutation(new) == ~task.child /\ Mutate(new)

(***************************************************************************)
(* state_machine.py, validate_transition                                   *)
(***************************************************************************)

\* _validate_tdd_authority: the recorded cycle has had its baseline.
TddAuthority(t) == t.active # 0 /\ Current(t).base # None /\ Current(t).status # "ABORTED"

\* _validate_current_green
CurrentGreen(t) ==
    /\ t.active # 0 /\ Current(t).status \in {"GREEN", "COMPLETE"}
    /\ Current(t).green = t.epoch /\ Current(t).cand = t.impl

\* _validate_current_review
CurrentReview(t) == t.review # None /\ t.accepted /\ ReviewReceiptCurrent(t)

CleanFalsification(t) == ValidFalsification(t) /\ t.fals.clean

\* _validate_proofs: the records named as proof are of this epoch, and of the
\* audited workspace once there is one.  A command stands for a verified
\* observation too; the record of an external source is taken to be in its
\* time (one that is not refuses the transition, which changes nothing).
Trusted == {"command", "external"}
ProofIds(t) == t.verif \cup (IF t.gate.status = "PROVEN" THEN t.gate.proof ELSE {})
\* Mutant: the audited workspace is not compared.
ValidProofsOfEpoch(t, finalizing) ==
    /\ \A i \in ProofIds(t) :
          /\ i \in DOMAIN t.evidence
          /\ t.evidence[i].kind \in Trusted /\ t.evidence[i].epoch = t.epoch
    /\ t.gate.status = "PROVEN" =>
          \A i \in t.gate.proof : t.evidence[i].gate /\ i > t.gate.after

ValidProofs(t, finalizing) ==
    /\ \A i \in ProofIds(t) :
          /\ i \in DOMAIN t.evidence
          /\ t.evidence[i].kind \in Trusted /\ t.evidence[i].epoch = t.epoch
          /\ finalizing => t.evidence[i].ws = t.audited
    /\ t.gate.status = "PROVEN" =>
          \A i \in t.gate.proof : t.evidence[i].gate /\ i > t.gate.after

\* What FINAL_AUDIT and FINALIZE both ask for.
Acceptable(t) ==
    /\ ~t.child /\ t.verif # {} /\ t.vepoch = t.epoch
    /\ t.mode = "write" => /\ t.gate.status = "PROVEN"
                           /\ CurrentGreen(t) /\ CleanFalsification(t) /\ CurrentReview(t)
    /\ t.gate.status \in {"NONE", "PROVEN", "WAIVED"}
    /\ t.hazard # "open"

Check(t, s) ==
    CASE s = "TRIAGE" -> t.state = "PRECHECK" => t.prechecked
      [] s \in {"IMPLEMENT", "REMEDIATE"} ->
            IF t.mode = "write"
            THEN (t.planned \/ t.state = "BASELINE") /\ TddAuthority(t)
            ELSE t.risk \in {"high", "critical"} => t.planned
      [] s \in {"GREEN", "FALSIFY"} -> t.mode = "write" => CurrentGreen(t)
      [] s = "ADVERSARIAL_REVIEW" ->
            t.mode = "write" => CurrentGreen(t) /\ CleanFalsification(t)
      [] s = "FINAL_AUDIT" ->
            /\ Acceptable(t) /\ ValidProofs(t, FALSE)
            /\ t.mode = "write" => t.reviewed = t.epoch
            /\ t.risk = "critical" => t.accepted
      [] s = "FINALIZE" ->
            Acceptable(t) /\ t.audited # None /\ ValidProofs(t, TRUE)
      [] OTHER -> TRUE

ValidTransition(t, s) ==
    /\ s \in Allowed(t.state)
    /\ t.state = "BLOCKED" /\ s # "FAILED" => s = t.prev
    /\ Check(t, s)

\* Mutant: the verification of the last implementation stays.
NewEpochKeepsProofs(t) ==
    [t EXCEPT !.epoch = @ + 1, !.fals = None, !.review = None, !.audited = None,
              !.hazard = IF @ = "resolved" THEN "open" ELSE @]

\* A change of the implementation reopens what was proved about the last one.
NewEpoch(t) ==
    [t EXCEPT !.epoch = @ + 1, !.verif = {}, !.vepoch = None, !.fals = None,
              !.review = None, !.audited = None,
              !.gate = IF @.status = "PROVEN" THEN [@ EXCEPT !.status = "OPEN", !.proof = {}] ELSE @,
              !.hazard = IF @ = "resolved" THEN "open" ELSE @]

Moved(t, s) ==
    [t EXCEPT !.state = s,
              !.prev = CASE s = "BLOCKED" -> t.state
                         [] t.state = "BLOCKED" -> None
                         [] OTHER -> @,
              !.planned = @ \/ s = "PLAN"]

\* What a transition makes of the task.
Applied(s) ==
    LET moved == Moved(task, s) IN
    CASE s \in {"IMPLEMENT", "REMEDIATE"} -> NewEpoch(moved)
      [] s = "TEST_DESIGN" -> [moved EXCEPT !.fals = None, !.review = None, !.audited = None]
      [] s \in {"REVIEW", "ADVERSARIAL_REVIEW"} -> [moved EXCEPT !.reviewed = task.epoch]
      [] OTHER -> moved

InBounds(s) == s \in {"IMPLEMENT", "REMEDIATE"} => task.epoch < MaxEpoch

\* StateStore.transition, FINALIZE apart.
Transition(s) ==
    /\ s # "FINALIZE" /\ Goes(s) /\ ValidTransition(task, s) /\ InBounds(s)
    /\ OwnMutation(Applied(s))
    /\ UNCHANGED <<workspace, drafts, closing>>

\* FINALIZE compares two fingerprints of the workspace with the audited one,
\* then saves; the workspace is not locked in between.
BeginFinalize ==
    /\ ~closing /\ ~task.child /\ ValidTransition(task, "FINALIZE") /\ ws = task.audited
    /\ closing' = TRUE
    /\ UNCHANGED <<task, workspace, drafts>>

SaveFinalize ==
    /\ closing /\ SaveAccepts(task)
    /\ task' = Moved(task, "FINALIZE") /\ closing' = FALSE
    /\ UNCHANGED <<workspace, drafts>>

AuditComplete ==
    /\ task.state = "FINAL_AUDIT" /\ ValidProofs(task, FALSE)
    /\ OwnMutation([task EXCEPT !.audited = ws])
    /\ UNCHANGED <<workspace, drafts, closing>>

(***************************************************************************)
(* assurance.py, review.py: building cycles and receipts                   *)
(***************************************************************************)

Cycle(i, c) == [of |-> "cycle", id |-> i, cycle |-> c]
In(statuses) == {i \in DOMAIN task.cycles : task.cycles[i].status \in statuses}

\* new_tdd_cycle: a first cycle is since 0, a remediation since the broken epoch.
NewTddCycle ==
    {Cycle(Len(task.cycles) + 1, [NoCycle EXCEPT !.status = "DESIGNED", !.since = since]) :
        since \in IF Len(task.cycles) < MaxCycles THEN {0, task.epoch} ELSE {}}

RecordBaseline ==
    {Cycle(i, [task.cycles[i] EXCEPT !.status = "OBSERVED", !.base = ws]) : i \in In({"DESIGNED"})}

RecordGreen ==
    {Cycle(i, [task.cycles[i] EXCEPT !.status = "GREEN", !.green = task.epoch, !.cand = ws]) :
        i \in {j \in In({"OBSERVED"}) : task.epoch > task.cycles[j].since}}

CompleteTddCycle ==
    {Cycle(i, [task.cycles[i] EXCEPT !.status = "COMPLETE"]) : i \in In({"GREEN"})}

AbortTddCycle ==
    {Cycle(i, [task.cycles[i] EXCEPT !.status = "ABORTED"]) :
        i \in In({"DESIGNED", "OBSERVED", "GREEN"})}

BuildFalsificationReceipt ==
    {[of |-> "falsification",
      receipt |-> [cycle |-> Current(task), epoch |-> task.epoch, diff |-> ws, clean |-> clean]] :
        clean \in IF task.active # 0 /\ task.epoch > 0 THEN BOOLEAN ELSE {}}

BuildReviewReceipt ==
    IF task.active = 0 THEN {}
    ELSE {[of |-> "review",
           receipt |-> [cycle |-> Current(task), epoch |-> task.epoch, diff |-> ws,
                        evidence |-> Len(task.evidence)]]}

Buildable ==
    {d \in NewTddCycle \cup RecordBaseline \cup RecordGreen \cup CompleteTddCycle \cup AbortTddCycle
           \cup BuildFalsificationReceipt \cup BuildReviewReceipt : May(d.of)}

\* A draft is kept for later.
Build(d) ==
    /\ May("draft") /\ d \notin drafts /\ Cardinality(drafts) < MaxDrafts
    /\ drafts' = drafts \cup {d}
    /\ UNCHANGED <<task, workspace, closing>>

(***************************************************************************)
(* state_store.py: recording them, at once or from a draft                 *)
(***************************************************************************)

Recorded(d, new) ==
    /\ May(d.of) /\ OwnMutation(new) /\ drafts' = drafts \ {d} /\ UNCHANGED <<workspace, closing>>

\* record_tdd_cycle: any cycle of the task, in any state, becomes the active one.
WithCycle(i, c) ==
    LET green == c.status \in {"GREEN", "COMPLETE"} IN
    [task EXCEPT !.cycles = IF i \in DOMAIN @ THEN [@ EXCEPT ![i] = c] ELSE Append(@, c),
                 !.active = i,
                 !.impl = IF green THEN c.cand ELSE @]

RecordTddCycle(d) ==
    /\ d.of = "cycle" /\ d.id <= Len(task.cycles) + 1
    /\ d.cycle.base # None => d.cycle.status # "ABORTED"
    /\ Recorded(d, WithCycle(d.id, d.cycle))

RecordFalsification(d) ==
    /\ d.of = "falsification" /\ task.state = "FALSIFY"
    /\ LET new == [task EXCEPT !.fals = d.receipt] IN ValidFalsification(new) /\ Recorded(d, new)

RecordReview(d) ==
    /\ d.of = "review" /\ task.state = "ADVERSARIAL_REVIEW"
    /\ LET new == [task EXCEPT !.review = d.receipt] IN BoundReview(new) /\ Recorded(d, new)

Discard(d) == drafts' = drafts \ {d} /\ UNCHANGED <<task, workspace, closing>>

(***************************************************************************)
(* cli.py: the other commands                                              *)
(***************************************************************************)

Command(c, new) == May(c) /\ OwnMutation(new) /\ UNCHANGED <<workspace, drafts, closing>>

\* The artifacts of build_precheck are stored with the task.
Precheck == ~task.prechecked /\ Command("precheck", [task EXCEPT !.prechecked = TRUE])

GateAdd(hard) ==
    /\ task.gate.status = "NONE"
    /\ Command(IF hard THEN "gate_hard" ELSE "gate_required",
               [task EXCEPT !.gate = [NoGate EXCEPT !.status = "OPEN", !.hard = hard,
                                                   !.after = Len(task.evidence)],
                            !.verif = {}, !.vepoch = None, !.audited = None])

GateProve(i) ==
    /\ task.gate.status # "NONE"
    /\ task.evidence[i].kind \in Trusted /\ task.evidence[i].gate /\ i > task.gate.after
    /\ task.mode = "write" => task.evidence[i].epoch = task.epoch
    /\ Command("gate_prove", [task EXCEPT !.gate.status = "PROVEN", !.gate.proof = @ \cup {i},
                                    !.audited = None])

GateWaive(i) ==
    /\ task.gate.status # "NONE"
    /\ LET new == [task EXCEPT !.gate.status = "WAIVED", !.gate.waiver = i,
                               !.verif = {}, !.vepoch = None, !.audited = None]
       IN  ValidWaiver(new) /\ Command("gate_waive", new)

RiskAdd == task.hazard = "NONE" /\ Command("risk", [task EXCEPT !.hazard = "open", !.audited = None])
RiskResolve ==
    task.hazard = "open" /\ Command("risk", [task EXCEPT !.hazard = "resolved", !.audited = None])

\* A decision proves nothing, but the audit did not see it.
DecisionAdd == Command("decision", [task EXCEPT !.audited = None])

\* `evidence add`: a command that succeeded in a stable workspace, or a note;
\* a failed verification is taken back.  The records of external sources are
\* made by the host.
NewRecord(kind, gate) == [epoch |-> task.epoch, ws |-> ws, kind |-> kind, gate |-> gate]
WithEvidence(record) == [task EXCEPT !.evidence = Append(@, record), !.audited = None]

EvidenceAdd(kind, gate, verification) ==
    /\ Len(task.evidence) < MaxEvidence
    /\ verification => kind = "command" /\ task.state = "VERIFY"
    /\ gate => kind # "note" /\ task.gate.status # "NONE"
    /\ LET added == WithEvidence(NewRecord(kind, gate))
       IN  Command(kind,
                   IF verification
                   THEN [added EXCEPT !.verif = @ \cup {Len(added.evidence)}, !.vepoch = task.epoch]
                   ELSE added)

\* `subagent open` and `close` as the task sees them (Subagent has the rest).
SubagentOpen ==
    /\ ~task.child /\ task.state # "FINAL_AUDIT" /\ May("child")
    /\ Mutate([task EXCEPT !.child = TRUE, !.audited = None])
    /\ UNCHANGED <<workspace, drafts, closing>>

SubagentClose(accepted) ==
    /\ task.child
    /\ Mutate([task EXCEPT !.child = FALSE, !.accepted = @ \/ accepted, !.audited = None])
    /\ UNCHANGED <<workspace, drafts, closing>>

\* `subagent recover --force` leaves a record that binds no gate.
SubagentRecover ==
    /\ task.child /\ Len(task.evidence) < MaxEvidence
    /\ Mutate([task EXCEPT !.child = FALSE, !.evidence = Append(@, NewRecord("note", FALSE))])
    /\ UNCHANGED <<workspace, drafts, closing>>

\* Somebody edits a file, or checks out what it was before.
Edit(content) ==
    /\ May("edit") /\ ws' = content /\ returned' = (returned \/ content < ws)
    /\ UNCHANGED <<task, drafts, closing>>

Next ==
    \/ \E s \in States : Transition(s)
    \/ BeginFinalize \/ SaveFinalize \/ AuditComplete
    \/ \E d \in Buildable : Build(d)
    \/ \E d \in drafts \cup Buildable : RecordTddCycle(d) \/ RecordFalsification(d) \/ RecordReview(d)
    \/ \E d \in drafts : Discard(d)
    \/ Precheck
    \/ \E hard \in BOOLEAN : GateAdd(hard)
    \/ \E i \in DOMAIN task.evidence : GateProve(i) \/ GateWaive(i)
    \/ RiskAdd \/ RiskResolve \/ DecisionAdd
    \/ \E kind \in {"command", "note", "external"}, gate, verification \in BOOLEAN :
          EvidenceAdd(kind, gate, verification)
    \/ SubagentOpen \/ SubagentRecover \/ \E accepted \in BOOLEAN : SubagentClose(accepted)
    \/ \E content \in Edits \ {ws} : Edit(content)

Spec == Init /\ [][Next]_vars

(***************************************************************************)
(* Properties.                                                             *)
(***************************************************************************)

\* What is finalized was shown to be right: one candidate passed the tests,
\* withstood falsification and was reviewed, every proof was made in the
\* audited workspace, all in the last epoch, although each of these was
\* recorded at its own time, from a receipt built earlier, and the workspace
\* was never locked.  The code never compares the candidate with the audited
\* workspace; they are the same because a review counts the evidence that it
\* has seen, as long as nobody takes the workspace back to an earlier content
\* (state_machine.py:299-326, state_store.py:1066-1130, 1147-1159).
FinalizedIsProven ==
    task.state = "FINALIZE" =>
        /\ \A i \in ProofIds(task) : task.evidence[i].ws = task.audited
        /\ task.mode = "write" =>
              /\ Current(task).green = task.epoch
              /\ task.fals.clean /\ task.fals.epoch = task.epoch /\ task.review.epoch = task.epoch
              /\ {task.fals.diff, task.review.diff} = {Current(task).cand}
              /\ ~returned => Current(task).cand = task.audited
              /\ task.hazard # "open"

\* A receipt that is out of date never stands in the task's way: whatever was
\* recorded, and in which order, a transition that the state machine allows, a
\* new record of evidence and a cycle that extends the recorded ones are saved,
\* although the save refuses a task with a stale falsification or review
\* (state_store.py:859-878).  Excepted is a new epoch while a gate is waived:
\* its waiver is of the last epoch and the save refuses it.
StaleReceiptsNeverBlock ==
    task.state \notin Terminal =>
        /\ \A s \in Allowed(task.state) \ {"FINALIZE"} :
              /\ ValidTransition(task, s) /\ InBounds(s)
              /\ s \in {"IMPLEMENT", "REMEDIATE"} => task.gate.status # "WAIVED"
              => Saves(Applied(s))
        /\ \A gate \in BOOLEAN : Saves(WithEvidence(NewRecord("command", gate)))
        /\ \A d \in drafts \cup Buildable :
              /\ d.of = "cycle" /\ d.id <= Len(task.cycles) + 1
              /\ AppendOnly(task, WithCycle(d.id, d.cycle))
              => Saves(WithCycle(d.id, d.cycle))

\* Proof is always of the current implementation: a verification, a proven
\* gate and a waiver rest on records of this epoch, and a gate on records
\* made after it was defined (state_store.py:1166-1184, cli.py:49-78).
ProofsAreCurrent ==
    task.mode = "write" =>
        /\ \A i \in ProofIds(task) : task.evidence[i].epoch = task.epoch
        /\ task.gate.status = "PROVEN" => task.gate.proof # {} /\ \A i \in task.gate.proof : i > task.gate.after
        /\ task.gate.status = "WAIVED" => ValidWaiver(task)

\* Nobody rewrites a cycle: once a baseline, a GREEN or an end is recorded, no
\* draft built on an older copy replaces it (state_store.py:692-715).
CyclesOnlyGrow ==
    [][\A i \in DOMAIN task.cycles :
          LET old == task.cycles[i]
              new == task'.cycles[i]
          IN  /\ old.base # None => new.base = old.base
              /\ old.green # None => new.green = old.green /\ new.cand = old.cand
              /\ old.status \in {"ABORTED", "COMPLETE"} => new = old]_vars
=============================================================================
