------------------------- MODULE TaskWorkflowProofs -------------------------
(***************************************************************************)
(* Proofs about TaskWorkflow: what a task has recorded is about what it is *)
(* now, and what is finalized was proved.                                  *)
(***************************************************************************)
EXTENDS TaskWorkflow, TLAPS

(* What a cycle has not observed yet it does not hold. *)
Shaped(c) ==
    /\ c.status = "DESIGNED" => c.base = None /\ c.green = None
    /\ c.status = "OBSERVED" => c.green = None

CyclesOK(t) ==
    /\ t.active \in 0..Len(t.cycles) /\ Len(t.cycles) <= MaxCycles
    /\ \A i \in DOMAIN t.cycles : Shaped(t.cycles[i])

(* What is named as proof is there, of this epoch and after the gate, also *)
(* under a gate that is waived meanwhile.                                  *)
ProofsOK(t) ==
    /\ t.verif \subseteq DOMAIN t.evidence /\ t.gate.proof \subseteq DOMAIN t.evidence
    /\ t.gate.status \in {"NONE", "OPEN"} => t.gate.proof = {}
    /\ t.gate.status = "PROVEN" => t.gate.proof # {}
    /\ \A i \in t.gate.proof : i > t.gate.after
    /\ t.mode = "write" =>
          \A i \in t.verif \cup t.gate.proof : t.evidence[i].epoch = t.epoch

(* A review has seen the evidence that it counts, and none of it was made  *)
(* later than the candidate, unless the workspace was taken back.          *)
Saw(r, t) ==
    /\ r.evidence <= Len(t.evidence)
    /\ ~returned => r.diff <= ws /\ \A i \in 1..r.evidence : t.evidence[i].ws <= r.diff

SeenOK(t) ==
    /\ ~returned => \A i \in DOMAIN t.evidence : t.evidence[i].ws <= ws
    /\ t.review # None => Saw(t.review, t)

DraftsOK ==
    \A d \in drafts : /\ d.of = "cycle" => Shaped(d.cycle)
                      /\ d.of = "review" => Saw(d.receipt, task)

(* What FINALIZE has checked, and what follows for the candidate. *)
Proven(t) ==
    /\ Acceptable(t) /\ ValidProofs(t, TRUE)
    /\ t.mode = "write" /\ ~returned => t.impl = t.audited

IInv ==
    /\ TypeOK
    /\ SaveAccepts(task)
    /\ CyclesOK(task) /\ ProofsOK(task) /\ SeenOK(task) /\ DraftsOK
    /\ closing \/ task.state = "FINALIZE" => Proven(task)

-----------------------------------------------------------------------------

LEMMA Bounds == /\ MaxEpoch \in Nat /\ MaxEdits \in Nat /\ MaxCycles \in Nat
                /\ MaxEvidence \in Nat /\ MaxDrafts \in Nat
  BY BoundsAssumption

(* _save_locked drops what is stale and changes nothing else. *)
LEMMA SavedIs ==
  ASSUME NEW old \in TaskRecords, NEW new \in TaskRecords
  PROVE  /\ Saved(old, new) \in TaskRecords
         /\ Saved(old, new).mode = new.mode /\ Saved(old, new).state = new.state
         /\ Saved(old, new).epoch = new.epoch /\ Saved(old, new).cycles = new.cycles
         /\ Saved(old, new).active = new.active /\ Saved(old, new).evidence = new.evidence
         /\ Saved(old, new).verif = new.verif /\ Saved(old, new).gate = new.gate
         /\ Saved(old, new).review \in {new.review, None}
         /\ Saved(old, new).impl = new.impl /\ Saved(old, new).accepted = new.accepted
         /\ Saved(old, new).fals = None
            \/ /\ Saved(old, new).fals = new.fals
               /\ new.fals = old.fals => FalsificationBindings(old) = FalsificationBindings(new)
         /\ Saved(old, new).review = None
            \/ /\ Saved(old, new).review = new.review
               /\ new.review = old.review => ReviewBindings(old) = ReviewBindings(new)
<1> DEFINE f == IF new.fals = old.fals /\ FalsificationBindings(old) # FalsificationBindings(new)
                THEN None ELSE new.fals
           r == IF new.review = old.review /\ ReviewBindings(old) # ReviewBindings(new)
                THEN None ELSE new.review
           a == IF Claims(old) # Claims(new) THEN None ELSE new.audited
<1>1. Saved(old, new) = [new EXCEPT !.fals = f, !.review = r, !.audited = a]
  BY DEF Saved, TaskRecords
<1>2. f \in Receipts \cup {None} /\ r \in Reviews \cup {None} /\ a \in Edits \cup {None} /\ r \in {new.review, None}
  BY DEF TaskRecords
<1>5. f = None \/ (f = new.fals /\ (new.fals = old.fals => FalsificationBindings(old) = FalsificationBindings(new)))
  <2>1. CASE new.fals = old.fals /\ FalsificationBindings(old) # FalsificationBindings(new)
    BY <2>1
  <2>2. CASE ~(new.fals = old.fals /\ FalsificationBindings(old) # FalsificationBindings(new))
    <3>1. f = new.fals BY <2>2
    <3> HIDE DEF f
    <3> QED BY <2>2, <3>1, Zenon
  <2> QED BY <2>1, <2>2
<1>6. r = None \/ (r = new.review /\ (new.review = old.review => ReviewBindings(old) = ReviewBindings(new)))
  <2>1. CASE new.review = old.review /\ ReviewBindings(old) # ReviewBindings(new)
    BY <2>1
  <2>2. CASE ~(new.review = old.review /\ ReviewBindings(old) # ReviewBindings(new))
    <3>1. r = new.review BY <2>2
    <3> HIDE DEF r
    <3> QED BY <2>2, <3>1, Zenon
  <2> QED BY <2>1, <2>2
<1> HIDE DEF f, r, a
<1>3. Saved(old, new) \in TaskRecords BY <1>1, <1>2 DEF TaskRecords
<1>4. /\ Saved(old, new).mode = new.mode /\ Saved(old, new).state = new.state
      /\ Saved(old, new).epoch = new.epoch /\ Saved(old, new).cycles = new.cycles
      /\ Saved(old, new).active = new.active /\ Saved(old, new).evidence = new.evidence
      /\ Saved(old, new).verif = new.verif /\ Saved(old, new).gate = new.gate
      /\ Saved(old, new).review = r /\ Saved(old, new).fals = f
      /\ Saved(old, new).impl = new.impl /\ Saved(old, new).accepted = new.accepted
  BY <1>1 DEF TaskRecords
<1> QED BY <1>2, <1>3, <1>4, <1>5, <1>6

LEMMA MutateIs ==
  ASSUME TypeOK, NEW new \in TaskRecords, Mutate(new)
  PROVE  /\ task' \in TaskRecords
         /\ task'.mode = new.mode /\ task'.state = new.state /\ task'.epoch = new.epoch
         /\ task'.cycles = new.cycles /\ task'.active = new.active
         /\ task'.evidence = new.evidence /\ task'.verif = new.verif /\ task'.gate = new.gate
         /\ task'.review \in {new.review, None}
         /\ SaveAccepts(task') /\ AppendOnly(task, task')
         /\ ~closing /\ task.state \notin Terminal
<1>1. task \in TaskRecords BY DEF TypeOK
<1>2. task' = Saved(task, new) /\ SaveAccepts(Saved(task, new)) /\ AppendOnly(task, Saved(task, new))
      /\ ~closing /\ task.state \notin Terminal
  BY Zenon DEF Mutate, Saves
<1>3. /\ Saved(task, new) \in TaskRecords
      /\ Saved(task, new).mode = new.mode /\ Saved(task, new).state = new.state
      /\ Saved(task, new).epoch = new.epoch /\ Saved(task, new).cycles = new.cycles
      /\ Saved(task, new).active = new.active /\ Saved(task, new).evidence = new.evidence
      /\ Saved(task, new).verif = new.verif /\ Saved(task, new).gate = new.gate
      /\ Saved(task, new).review \in {new.review, None}
  BY <1>1, SavedIs
<1> QED BY <1>2, <1>3, Zenon

(* Evidence is only added, and what is added was made in the workspace of  *)
(* now.                                                                    *)
Grows(new) == \/ new.evidence = task.evidence
              \/ \E r \in Proofs : r.ws = ws /\ new.evidence = Append(task.evidence, r)

LEMMA GrowsSaw ==
  ASSUME TypeOK, NEW new \in TaskRecords, Grows(new), NEW r \in Reviews, Saw(r, task)
  PROVE  Saw(r, new)
<1>1. task.evidence \in Seq(Proofs) /\ new.evidence \in Seq(Proofs) BY DEF TypeOK, TaskRecords
<1>2. r.evidence \in Nat BY Bounds DEF Reviews
<1>3. Len(task.evidence) <= Len(new.evidence) /\ \A i \in 1..Len(task.evidence) : new.evidence[i] = task.evidence[i]
  BY <1>1 DEF Grows
<1> QED BY <1>1, <1>2, <1>3 DEF Saw

(* The one argument for all that passes through mutate. *)
LEMMA MutateKeeps ==
  ASSUME IInv, NEW new \in TaskRecords, Mutate(new), new.state # "FINALIZE",
         CyclesOK(new), ProofsOK(new), Grows(new), Len(new.evidence) <= MaxEvidence,
         new.review = None \/ Saw(new.review, task),
         drafts' \subseteq drafts, UNCHANGED <<workspace, closing>>
  PROVE  IInv'
<1> USE Bounds
<1>0. TypeOK /\ SeenOK(task) /\ DraftsOK BY DEF IInv
<1>1. /\ task' \in TaskRecords
      /\ task'.mode = new.mode /\ task'.state = new.state /\ task'.epoch = new.epoch
      /\ task'.cycles = new.cycles /\ task'.active = new.active
      /\ task'.evidence = new.evidence /\ task'.verif = new.verif /\ task'.gate = new.gate
      /\ task'.review \in {new.review, None}
      /\ SaveAccepts(task') /\ ~closing
  BY <1>0, MutateIs
<1>2. ws' = ws /\ returned' = returned /\ closing' = closing BY DEF workspace
<1>3. task.evidence \in Seq(Proofs) /\ new.evidence \in Seq(Proofs)
  BY <1>0 DEF TypeOK, TaskRecords
<1>4. new.review \in Reviews \cup {None} BY DEF TaskRecords
<1>5. new.review # None => Saw(new.review, new) BY <1>0, <1>4, GrowsSaw
<1>6. TypeOK' BY <1>0, <1>1, <1>2 DEF TypeOK, CyclesOK
<1>7. CyclesOK(task)' BY <1>1 DEF CyclesOK
<1>8. ProofsOK(task)' BY <1>1 DEF ProofsOK
<1>9. SeenOK(task)'
  <2>1. ~returned => \A i \in DOMAIN new.evidence : new.evidence[i].ws <= ws
    <3>1. ws \in Nat BY <1>0 DEF TypeOK, Edits
    <3>2. CASE new.evidence = task.evidence BY <1>0, <3>2 DEF SeenOK
    <3>3. ASSUME NEW r \in Proofs, r.ws = ws, new.evidence = Append(task.evidence, r), ~returned,
                 NEW i \in DOMAIN new.evidence
          PROVE  new.evidence[i].ws <= ws
      <4>1. \/ i \in DOMAIN task.evidence /\ new.evidence[i] = task.evidence[i]
            \/ new.evidence[i] = r
        BY <1>3, <3>3
      <4>2. \A j \in DOMAIN task.evidence : task.evidence[j].ws <= ws BY <1>0, <3>3 DEF SeenOK
      <4>3. r.ws <= ws BY <3>1, <3>3
      <4> QED BY <4>1, <4>2, <4>3
    <3> QED BY <3>2, <3>3 DEF Grows
  <2> QED BY <1>1, <1>2, <1>5, <2>1 DEF SeenOK, Saw
<1>10. DraftsOK'
  <2>1. ASSUME NEW d \in drafts, d.of = "review" PROVE Saw(d.receipt, task)'
    <3>1. d.receipt \in Reviews BY <1>0, <2>1 DEF TypeOK
    <3>2. Saw(d.receipt, new) BY <1>0, <2>1, <3>1, GrowsSaw DEF DraftsOK
    <3> QED BY <1>1, <1>2, <3>2 DEF Saw
  <2> QED BY <1>0, <2>1 DEF DraftsOK
<1>11. SaveAccepts(task)' BY <1>1
<1>12. ~closing' /\ task'.state # "FINALIZE" BY <1>1, <1>2
<1> QED BY <1>6, <1>7, <1>8, <1>9, <1>10, <1>11, <1>12 DEF IInv

(* Most commands touch neither the cycles nor the review. *)
LEMMA CommandKeeps ==
  ASSUME IInv, NEW new \in TaskRecords, Mutate(new), new.state # "FINALIZE",
         new.cycles = task.cycles, new.active = task.active, new.review \in {task.review, None},
         ProofsOK(new), Grows(new), Len(new.evidence) <= MaxEvidence,
         drafts' \subseteq drafts, UNCHANGED <<workspace, closing>>
  PROVE  IInv'
<1>1. CyclesOK(new) BY DEF IInv, CyclesOK
<1>2. new.review = None \/ Saw(new.review, task) BY DEF IInv, SeenOK
<1> QED BY <1>1, <1>2, MutateKeeps

LEMMA MovedIs ==
  ASSUME NEW t \in TaskRecords, NEW s \in States
  PROVE  /\ Moved(t, s) \in TaskRecords
         /\ Moved(t, s).state = s /\ Moved(t, s).mode = t.mode /\ Moved(t, s).epoch = t.epoch
         /\ Moved(t, s).cycles = t.cycles /\ Moved(t, s).active = t.active
         /\ Moved(t, s).evidence = t.evidence /\ Moved(t, s).verif = t.verif
         /\ Moved(t, s).gate = t.gate /\ Moved(t, s).review = t.review
         /\ Moved(t, s).vepoch = t.vepoch /\ Moved(t, s).impl = t.impl /\ Moved(t, s).fals = t.fals
         /\ Moved(t, s).child = t.child /\ Moved(t, s).accepted = t.accepted
         /\ Moved(t, s).hazard = t.hazard /\ Moved(t, s).audited = t.audited
<1> DEFINE p == CASE s = "BLOCKED" -> t.state [] t.state = "BLOCKED" -> None [] OTHER -> t.prev
           q == t.planned \/ s = "PLAN"
<1>1. Moved(t, s) = [t EXCEPT !.state = s, !.prev = p, !.planned = q] BY DEF Moved, TaskRecords
<1>2. p \in States \cup {None} BY DEF TaskRecords
<1>3. q \in BOOLEAN BY Zenon
<1> HIDE DEF p, q
<1>4. Moved(t, s) \in TaskRecords BY <1>1, <1>2, <1>3 DEF TaskRecords
<1>5. /\ Moved(t, s).state = s /\ Moved(t, s).mode = t.mode /\ Moved(t, s).epoch = t.epoch
      /\ Moved(t, s).cycles = t.cycles /\ Moved(t, s).active = t.active
      /\ Moved(t, s).evidence = t.evidence /\ Moved(t, s).verif = t.verif
      /\ Moved(t, s).gate = t.gate /\ Moved(t, s).review = t.review
  BY <1>1 DEF TaskRecords
<1>6. /\ Moved(t, s).vepoch = t.vepoch /\ Moved(t, s).impl = t.impl /\ Moved(t, s).fals = t.fals
      /\ Moved(t, s).child = t.child /\ Moved(t, s).accepted = t.accepted
      /\ Moved(t, s).hazard = t.hazard /\ Moved(t, s).audited = t.audited
  BY <1>1 DEF TaskRecords
<1> QED BY <1>4, <1>5, <1>6

LEMMA GateType ==
  ASSUME NEW t \in TaskRecords
  PROVE  /\ t.gate \in Gates /\ t.gate.proof \subseteq 1..MaxEvidence
         /\ t.gate.status \in {"NONE", "OPEN", "PROVEN", "WAIVED"} /\ t.gate.after \in 0..MaxEvidence
  BY DEF TaskRecords, Gates

LEMMA NewEpochIs ==
  ASSUME NEW t \in TaskRecords, t.epoch < MaxEpoch
  PROVE  /\ NewEpoch(t) \in TaskRecords
         /\ NewEpoch(t).state = t.state /\ NewEpoch(t).mode = t.mode
         /\ NewEpoch(t).epoch = t.epoch + 1
         /\ NewEpoch(t).cycles = t.cycles /\ NewEpoch(t).active = t.active
         /\ NewEpoch(t).evidence = t.evidence /\ NewEpoch(t).verif = {}
         /\ NewEpoch(t).review = None /\ NewEpoch(t).fals = None
         /\ NewEpoch(t).accepted = t.accepted
         /\ NewEpoch(t).gate = IF t.gate.status = "PROVEN"
                               THEN [t.gate EXCEPT !.status = "OPEN", !.proof = {}] ELSE t.gate
<1> USE Bounds
<1> DEFINE g == IF t.gate.status = "PROVEN" THEN [t.gate EXCEPT !.status = "OPEN", !.proof = {}] ELSE t.gate
           h == IF t.hazard = "resolved" THEN "open" ELSE t.hazard
           e == t.epoch + 1
<1>1. NewEpoch(t) = [t EXCEPT !.epoch = e, !.verif = {}, !.vepoch = None, !.fals = None,
                              !.review = None, !.audited = None, !.gate = g, !.hazard = h]
  BY DEF NewEpoch, TaskRecords
<1>2. g \in Gates BY GateType DEF Gates
<1>3. h \in {"NONE", "open", "resolved"} /\ e \in Epochs BY DEF TaskRecords, Epochs
<1>4. g = (IF t.gate.status = "PROVEN" THEN [t.gate EXCEPT !.status = "OPEN", !.proof = {}] ELSE t.gate)
      /\ e = t.epoch + 1
  OBVIOUS
<1> HIDE DEF g, h, e
<1>5. NewEpoch(t) \in TaskRecords BY <1>1, <1>2, <1>3 DEF TaskRecords
<1>6. /\ NewEpoch(t).state = t.state /\ NewEpoch(t).mode = t.mode /\ NewEpoch(t).epoch = e
      /\ NewEpoch(t).cycles = t.cycles /\ NewEpoch(t).active = t.active
      /\ NewEpoch(t).evidence = t.evidence /\ NewEpoch(t).verif = {}
      /\ NewEpoch(t).review = None /\ NewEpoch(t).gate = g
      /\ NewEpoch(t).fals = None /\ NewEpoch(t).accepted = t.accepted
  BY <1>1 DEF TaskRecords
<1> QED BY <1>4, <1>5, <1>6

(* The evidence, the gate and the epoch as they were. *)
LEMMA ProofsStay ==
  ASSUME ProofsOK(task), NEW new,
         new.mode = task.mode, new.epoch = task.epoch, new.evidence = task.evidence,
         new.gate = task.gate, new.verif \in {task.verif, {}}
  PROVE  ProofsOK(new)
  BY DEF ProofsOK

(* A waiver is of one epoch, so that no epoch begins while it stands. *)
LEMMA NewEpochProofs ==
  ASSUME IInv, NEW new \in TaskRecords, Mutate(new), new.mode = task.mode,
         new.epoch = task.epoch + 1, new.evidence = task.evidence, new.verif = {},
         new.gate = IF task.gate.status = "PROVEN"
                    THEN [task.gate EXCEPT !.status = "OPEN", !.proof = {}] ELSE task.gate
  PROVE  ProofsOK(new)
<1>1. task \in TaskRecords /\ TypeOK /\ ProofsOK(task) /\ SaveAccepts(task) BY DEF IInv, TypeOK
<1>2. task.gate \in Gates /\ task.gate.status \in {"NONE", "OPEN", "PROVEN", "WAIVED"} BY <1>1, GateType
<1>3. task.gate.status # "WAIVED"
  <2> SUFFICES ASSUME task.gate.status = "WAIVED" PROVE FALSE OBVIOUS
  <2>1. ValidWaiver(task) BY <1>1 DEF SaveAccepts
  <2>2. new.gate = task.gate BY Zenon
  <2>3. task'.gate = task.gate /\ task'.evidence = task.evidence /\ task'.epoch = task.epoch + 1
        /\ SaveAccepts(task')
    BY <1>1, <2>2, MutateIs
  <2>4. ValidWaiver(task') BY <2>3 DEF SaveAccepts
  <2>5. task.epoch \in Nat BY <1>1, Bounds DEF TaskRecords, Epochs
  <2> QED BY <2>1, <2>3, <2>4, <2>5 DEF ValidWaiver
<1>4. new.gate.proof = {} /\ new.gate.status \in {"NONE", "OPEN"}
  <2>1. CASE task.gate.status = "PROVEN" BY <1>2, <2>1 DEF Gates
  <2>2. CASE task.gate.status # "PROVEN" BY <1>1, <1>2, <1>3, <2>2 DEF ProofsOK
  <2> QED BY <2>1, <2>2
<1> QED BY <1>4 DEF ProofsOK

LEMMA TransitionKeeps ==
  ASSUME IInv, NEW s \in States, Transition(s)
  PROVE  IInv'
<1> USE Bounds
<1>1. task \in TaskRecords /\ TypeOK /\ ProofsOK(task) BY DEF IInv, TypeOK
<1> DEFINE m == Moved(task, s)
<1>2. /\ m \in TaskRecords /\ m.state = s /\ m.mode = task.mode /\ m.epoch = task.epoch
      /\ m.cycles = task.cycles /\ m.active = task.active /\ m.evidence = task.evidence
      /\ m.verif = task.verif /\ m.gate = task.gate /\ m.review = task.review
  BY <1>1, MovedIs
<1>3. /\ s # "FINALIZE" /\ UNCHANGED <<workspace, closing>> /\ drafts' \subseteq drafts
      /\ s \in {"IMPLEMENT", "REMEDIATE"} => task.epoch < MaxEpoch
  BY DEF Transition, InBounds
<1>4. Len(task.evidence) <= MaxEvidence BY <1>1 DEF TypeOK
<1> HIDE DEF m
<1>5. CASE s \in {"IMPLEMENT", "REMEDIATE"}
  <2>1. Mutate(NewEpoch(m)) BY <1>5 DEF Transition, Applied, OwnMutation, m
  <2> DEFINE n == NewEpoch(m)
  <2>2. /\ n \in TaskRecords /\ n.state = s /\ n.mode = task.mode /\ n.epoch = task.epoch + 1
        /\ n.cycles = task.cycles /\ n.active = task.active /\ n.evidence = task.evidence
        /\ n.verif = {} /\ n.review = None
        /\ n.gate = IF task.gate.status = "PROVEN"
                    THEN [task.gate EXCEPT !.status = "OPEN", !.proof = {}] ELSE task.gate
    BY <1>2, <1>3, <1>5, NewEpochIs
  <2> HIDE DEF n
  <2>3. Mutate(n) BY <2>1 DEF n
  <2>4. ProofsOK(n) BY <2>2, <2>3, NewEpochProofs
  <2> QED BY <1>3, <1>4, <2>2, <2>3, <2>4, CommandKeeps DEF Grows
<1>6. CASE s = "TEST_DESIGN"
  <2> DEFINE n == [m EXCEPT !.fals = None, !.review = None, !.audited = None]
  <2>1. Mutate(n) BY <1>6 DEF Transition, Applied, OwnMutation, m
  <2>2. n \in TaskRecords BY <1>2 DEF TaskRecords
  <2>3. /\ n.state = s /\ n.mode = task.mode /\ n.epoch = task.epoch
        /\ n.cycles = task.cycles /\ n.active = task.active /\ n.evidence = task.evidence
        /\ n.verif = task.verif /\ n.gate = task.gate /\ n.review = None
    BY <1>2 DEF TaskRecords
  <2> HIDE DEF n
  <2>4. ProofsOK(n) BY <1>1, <2>3, ProofsStay
  <2> QED BY <1>3, <1>4, <2>1, <2>2, <2>3, <2>4, CommandKeeps DEF Grows
<1>7. CASE s \in {"REVIEW", "ADVERSARIAL_REVIEW"}
  <2> DEFINE n == [m EXCEPT !.reviewed = task.epoch]
  <2>1. Mutate(n) BY <1>7 DEF Transition, Applied, OwnMutation, m
  <2>2. n \in TaskRecords BY <1>1, <1>2 DEF TaskRecords
  <2>3. /\ n.state = s /\ n.mode = task.mode /\ n.epoch = task.epoch
        /\ n.cycles = task.cycles /\ n.active = task.active /\ n.evidence = task.evidence
        /\ n.verif = task.verif /\ n.gate = task.gate /\ n.review = task.review
    BY <1>2 DEF TaskRecords
  <2> HIDE DEF n
  <2>4. ProofsOK(n) BY <1>1, <2>3, ProofsStay
  <2> QED BY <1>3, <1>4, <2>1, <2>2, <2>3, <2>4, CommandKeeps DEF Grows
<1>8. CASE s \notin {"IMPLEMENT", "REMEDIATE", "TEST_DESIGN", "REVIEW", "ADVERSARIAL_REVIEW"}
  <2>1. Mutate(m) BY <1>8 DEF Transition, Applied, OwnMutation, m
  <2>2. ProofsOK(m) BY <1>1, <1>2, ProofsStay
  <2> QED BY <1>2, <1>3, <1>4, <2>1, <2>2, CommandKeeps DEF Grows
<1> QED BY <1>5, <1>6, <1>7, <1>8

(* A review has counted all the evidence there is, and one piece of it was *)
(* made in the audited workspace: the candidate cannot be an older one.    *)
LEMMA BeginFinalizeKeeps ==
  ASSUME IInv, BeginFinalize
  PROVE  IInv'
<1> USE Bounds
<1>1. TypeOK /\ task \in TaskRecords /\ SeenOK(task) BY DEF IInv, TypeOK
<1>2. Acceptable(task) /\ ValidProofs(task, TRUE) /\ ws = task.audited
  BY DEF BeginFinalize, ValidTransition, Check
<1>3. ASSUME task.mode = "write", ~returned PROVE task.impl = task.audited
  <2>1. /\ task.review # None /\ task.review.diff = task.impl
        /\ task.review.evidence = Len(task.evidence) /\ task.verif # {}
    BY <1>2, <1>3 DEF Acceptable, CurrentReview, ReviewReceiptCurrent
  <2>2. PICK i \in task.verif : TRUE BY <2>1
  <2>3. i \in DOMAIN task.evidence /\ task.evidence[i].ws = ws BY <1>2, <2>2 DEF ValidProofs, ProofIds
  <2>4. task.evidence \in Seq(Proofs) /\ ws \in Nat /\ task.review \in Reviews
    BY <1>1, <2>1 DEF TypeOK, TaskRecords, Edits
  <2>5. task.review.diff \in Nat BY <2>4 DEF Reviews, Edits
  <2>6. i \in 1..Len(task.evidence) BY <2>3, <2>4
  <2>7. task.review.diff <= ws /\ ws <= task.review.diff
    BY <1>1, <1>3, <2>1, <2>3, <2>6 DEF SeenOK, Saw
  <2> QED BY <1>2, <2>1, <2>4, <2>5, <2>7
<1>4. Proven(task) BY <1>2, <1>3 DEF Proven
<1>5. task' = task /\ ws' = ws /\ returned' = returned /\ drafts' = drafts /\ closing' = TRUE
  BY DEF BeginFinalize, workspace
<1>6. TypeOK' BY <1>1, <1>5 DEF TypeOK
<1>7. SaveAccepts(task)' /\ CyclesOK(task)' /\ ProofsOK(task)'
  BY <1>5 DEF IInv
<1>8. SeenOK(task)' /\ DraftsOK' BY <1>5 DEF IInv, SeenOK, DraftsOK, Saw
<1>9. Proven(task)' BY <1>4, <1>5 DEF Proven
<1> QED BY <1>6, <1>7, <1>8, <1>9 DEF IInv

(* The state is not among what the checks look at. *)
LEMMA SameClaims ==
  ASSUME NEW t, NEW u,
         u.mode = t.mode, u.epoch = t.epoch, u.cycles = t.cycles, u.active = t.active,
         u.evidence = t.evidence, u.verif = t.verif, u.gate = t.gate, u.review = t.review,
         u.vepoch = t.vepoch, u.impl = t.impl, u.fals = t.fals, u.child = t.child,
         u.accepted = t.accepted, u.hazard = t.hazard, u.audited = t.audited
  PROVE  /\ Proven(t) => Proven(u)
         /\ SaveAccepts(t) => SaveAccepts(u)
         /\ CyclesOK(t) => CyclesOK(u)
         /\ ProofsOK(t) => ProofsOK(u)
         /\ SeenOK(t) => SeenOK(u)
<1>1. Current(u) = Current(t) BY DEF Current
<1>2. ValidFalsification(u) = ValidFalsification(t) BY <1>1 DEF ValidFalsification
<1>3. ReviewReceiptCurrent(u) = ReviewReceiptCurrent(t) BY <1>1 DEF ReviewReceiptCurrent
<1>4. BoundReview(u) = BoundReview(t) /\ CurrentReview(u) = CurrentReview(t)
  BY <1>3 DEF BoundReview, CurrentReview
<1>5. ValidWaiver(u) = ValidWaiver(t) BY DEF ValidWaiver
<1>6. CurrentGreen(u) = CurrentGreen(t) BY <1>1 DEF CurrentGreen
<1>7. Acceptable(u) = Acceptable(t) BY <1>2, <1>4, <1>6 DEF Acceptable, CleanFalsification
<1>8. ProofIds(u) = ProofIds(t) BY DEF ProofIds
<1>9. ValidProofs(u, TRUE) = ValidProofs(t, TRUE) BY <1>8 DEF ValidProofs
<1>10. Proven(t) => Proven(u) BY <1>7, <1>9 DEF Proven
<1>11. SaveAccepts(t) => SaveAccepts(u) BY <1>2, <1>4, <1>5 DEF SaveAccepts, BoundFalsification
<1>12. CyclesOK(t) => CyclesOK(u) BY DEF CyclesOK
<1>13. ProofsOK(t) => ProofsOK(u) BY DEF ProofsOK
<1>14. SeenOK(t) => SeenOK(u) BY DEF SeenOK, Saw
<1> QED BY <1>10, <1>11, <1>12, <1>13, <1>14

LEMMA SaveFinalizeKeeps ==
  ASSUME IInv, SaveFinalize
  PROVE  IInv'
<1>1. TypeOK /\ task \in TaskRecords BY DEF IInv, TypeOK
<1> DEFINE m == Moved(task, "FINALIZE")
<1>2. /\ m \in TaskRecords /\ m.mode = task.mode /\ m.epoch = task.epoch
      /\ m.cycles = task.cycles /\ m.active = task.active /\ m.evidence = task.evidence
      /\ m.verif = task.verif /\ m.gate = task.gate /\ m.review = task.review
      /\ m.vepoch = task.vepoch /\ m.impl = task.impl /\ m.fals = task.fals
      /\ m.child = task.child /\ m.accepted = task.accepted
      /\ m.hazard = task.hazard /\ m.audited = task.audited
  BY <1>1, MovedIs DEF States, Terminal
<1>3. task' = m /\ ws' = ws /\ returned' = returned /\ drafts' = drafts /\ closing' = FALSE
  BY DEF SaveFinalize, workspace
<1> HIDE DEF m
<1>4. Proven(m) /\ SaveAccepts(m) /\ CyclesOK(m) /\ ProofsOK(m) /\ SeenOK(m)
  <2>1. Proven(task) /\ SaveAccepts(task) /\ CyclesOK(task) /\ ProofsOK(task) /\ SeenOK(task)
    BY DEF SaveFinalize, IInv
  <2> QED BY <1>2, <2>1, SameClaims
<1>5. TypeOK' BY <1>1, <1>2, <1>3 DEF TypeOK
<1>6. Proven(task)' /\ SaveAccepts(task)' /\ CyclesOK(task)' /\ ProofsOK(task)' /\ SeenOK(task)'
  BY <1>3, <1>4 DEF Proven, SeenOK, Saw
<1>7. DraftsOK' BY <1>2, <1>3 DEF IInv, DraftsOK, Saw
<1> QED BY <1>5, <1>6, <1>7 DEF IInv

(* What can be built: a cycle of the right shape, or a receipt about now.  *)
LEMMA BuildableIs ==
  ASSUME IInv, NEW d \in Buildable
  PROVE  /\ d \in [of : {"cycle"}, id : Ids, cycle : Cycles]
                  \cup [of : {"falsification"}, receipt : Receipts]
                  \cup [of : {"review"}, receipt : Reviews]
         /\ d.of = "cycle" => Shaped(d.cycle)
         /\ d.of = "review" => Saw(d.receipt, task)
<1> USE Bounds
<1>1. TypeOK /\ task \in TaskRecords /\ CyclesOK(task) BY DEF IInv, TypeOK
<1>2. task.cycles \in Seq(Cycles) /\ task.epoch \in Epochs /\ ws \in Edits /\ task.active \in Nat
  BY <1>1 DEF TypeOK, TaskRecords
<1>3. \A i \in DOMAIN task.cycles : task.cycles[i] \in Cycles /\ Shaped(task.cycles[i]) /\ i \in Ids
  BY <1>1, <1>2 DEF CyclesOK, Ids
<1>4. NoCycle \in Cycles BY DEF NoCycle, Cycles, Epochs
<1>5. Current(task) \in Cycles
  BY <1>1, <1>2, <1>3, <1>4 DEF Current, CyclesOK
<1>6. ASSUME NEW i, NEW c, d = Cycle(i, c), i \in Ids, c \in Cycles, Shaped(c)
      PROVE  /\ d \in [of : {"cycle"}, id : Ids, cycle : Cycles]
             /\ d.of = "cycle" /\ Shaped(d.cycle)
  BY <1>6 DEF Cycle
<1>7. CASE d \in NewTddCycle
  <2>1. PICK since \in {0, task.epoch} :
          /\ Len(task.cycles) < MaxCycles
          /\ d = Cycle(Len(task.cycles) + 1, [NoCycle EXCEPT !.status = "DESIGNED", !.since = since])
    BY <1>7 DEF NewTddCycle
  <2>2. since \in Epochs BY <1>2, <2>1 DEF Epochs
  <2>3. [NoCycle EXCEPT !.status = "DESIGNED", !.since = since] \in Cycles
        /\ Shaped([NoCycle EXCEPT !.status = "DESIGNED", !.since = since])
    BY <2>2 DEF NoCycle, Cycles, Shaped
  <2>4. Len(task.cycles) + 1 \in Ids BY <1>2, <2>1 DEF Ids
  <2> QED BY <1>6, <2>1, <2>3, <2>4
<1>8. CASE d \in RecordBaseline
  <2>1. PICK i \in DOMAIN task.cycles :
          d = Cycle(i, [task.cycles[i] EXCEPT !.status = "OBSERVED", !.base = ws])
          /\ task.cycles[i].status = "DESIGNED"
    BY <1>8 DEF RecordBaseline, In
  <2>2. [task.cycles[i] EXCEPT !.status = "OBSERVED", !.base = ws] \in Cycles
        /\ Shaped([task.cycles[i] EXCEPT !.status = "OBSERVED", !.base = ws])
    BY <1>2, <1>3, <2>1 DEF Cycles, Shaped
  <2> QED BY <1>3, <1>6, <2>1, <2>2
<1>9. CASE d \in RecordGreen
  <2>1. PICK i \in DOMAIN task.cycles :
          d = Cycle(i, [task.cycles[i] EXCEPT !.status = "GREEN", !.green = task.epoch, !.cand = ws])
    BY <1>9 DEF RecordGreen, In
  <2>2. [task.cycles[i] EXCEPT !.status = "GREEN", !.green = task.epoch, !.cand = ws] \in Cycles
        /\ Shaped([task.cycles[i] EXCEPT !.status = "GREEN", !.green = task.epoch, !.cand = ws])
    BY <1>2, <1>3, <2>1 DEF Cycles, Shaped
  <2> QED BY <1>3, <1>6, <2>1, <2>2
<1>10. CASE d \in CompleteTddCycle
  <2>1. PICK i \in DOMAIN task.cycles : d = Cycle(i, [task.cycles[i] EXCEPT !.status = "COMPLETE"])
    BY <1>10 DEF CompleteTddCycle, In
  <2>2. [task.cycles[i] EXCEPT !.status = "COMPLETE"] \in Cycles
        /\ Shaped([task.cycles[i] EXCEPT !.status = "COMPLETE"])
    BY <1>3, <2>1 DEF Cycles, Shaped
  <2> QED BY <1>3, <1>6, <2>1, <2>2
<1>11. CASE d \in AbortTddCycle
  <2>1. PICK i \in DOMAIN task.cycles : d = Cycle(i, [task.cycles[i] EXCEPT !.status = "ABORTED"])
    BY <1>11 DEF AbortTddCycle, In
  <2>2. [task.cycles[i] EXCEPT !.status = "ABORTED"] \in Cycles
        /\ Shaped([task.cycles[i] EXCEPT !.status = "ABORTED"])
    BY <1>3, <2>1 DEF Cycles, Shaped
  <2> QED BY <1>3, <1>6, <2>1, <2>2
<1>12. CASE d \in BuildFalsificationReceipt
  <2>1. PICK clean \in BOOLEAN :
          d = [of |-> "falsification",
               receipt |-> [cycle |-> Current(task), epoch |-> task.epoch, diff |-> ws, clean |-> clean]]
    BY <1>12 DEF BuildFalsificationReceipt
  <2> QED BY <1>2, <1>5, <2>1 DEF Receipts
<1>13. CASE d \in BuildReviewReceipt
  <2>1. d = [of |-> "review",
             receipt |-> [cycle |-> Current(task), epoch |-> task.epoch, diff |-> ws,
                          evidence |-> Len(task.evidence)]]
    BY <1>13 DEF BuildReviewReceipt
  <2>2. Len(task.evidence) \in 0..MaxEvidence /\ task.evidence \in Seq(Proofs)
    BY <1>1 DEF TypeOK, TaskRecords
  <2>3. d.receipt \in Reviews BY <1>2, <1>5, <2>1, <2>2 DEF Reviews
  <2>4. ws \in Nat BY <1>2 DEF Edits
  <2>5. Saw(d.receipt, task) BY <2>1, <2>2, <2>4 DEF Saw, IInv, SeenOK
  <2> QED BY <2>1, <2>3, <2>5
<1> QED BY <1>7, <1>8, <1>9, <1>10, <1>11, <1>12, <1>13 DEF Buildable

LEMMA BuildKeeps ==
  ASSUME IInv, NEW d \in Buildable, Build(d)
  PROVE  IInv'
<1>1. task' = task /\ ws' = ws /\ returned' = returned /\ closing' = closing /\ drafts' = drafts \cup {d}
  BY DEF Build, workspace
<1>2. TypeOK' BY <1>1, BuildableIs DEF IInv, TypeOK
<1>3. SaveAccepts(task)' /\ CyclesOK(task)' /\ ProofsOK(task)' BY <1>1 DEF IInv
<1>4. SeenOK(task)' BY <1>1 DEF IInv, SeenOK, Saw
<1>5. DraftsOK' BY <1>1, BuildableIs DEF IInv, DraftsOK, Saw
<1>6. (closing \/ task.state = "FINALIZE" => Proven(task))' BY <1>1 DEF IInv, Proven
<1> QED BY <1>2, <1>3, <1>4, <1>5, <1>6 DEF IInv

LEMMA DiscardKeeps ==
  ASSUME IInv, NEW d, Discard(d)
  PROVE  IInv'
<1>1. task' = task /\ ws' = ws /\ returned' = returned /\ closing' = closing /\ drafts' \subseteq drafts
  BY DEF Discard, workspace
<1>2. TypeOK' BY <1>1 DEF IInv, TypeOK
<1>3. SaveAccepts(task)' /\ CyclesOK(task)' /\ ProofsOK(task)' BY <1>1 DEF IInv
<1>4. SeenOK(task)' BY <1>1 DEF IInv, SeenOK, Saw
<1>5. DraftsOK' BY <1>1 DEF IInv, DraftsOK, Saw
<1>6. (closing \/ task.state = "FINALIZE" => Proven(task))' BY <1>1 DEF IInv, Proven
<1> QED BY <1>2, <1>3, <1>4, <1>5, <1>6 DEF IInv

(* Going forward makes nothing newer than the workspace; going back is     *)
(* remembered.                                                             *)
LEMMA EditKeeps ==
  ASSUME IInv, NEW content \in Edits \ {ws}, Edit(content)
  PROVE  IInv'
<1> USE Bounds
<1>1. task' = task /\ ws' = content /\ returned' = (returned \/ content < ws)
      /\ closing' = closing /\ drafts' = drafts
  BY DEF Edit
<1>2. TypeOK' BY <1>1 DEF IInv, TypeOK
<1>3. SaveAccepts(task)' /\ CyclesOK(task)' /\ ProofsOK(task)' BY <1>1 DEF IInv
<1>4. ws \in Nat /\ content \in Nat BY DEF IInv, TypeOK, Edits
<1>5. ~returned' => ~returned /\ ws <= content
  <2>1. ~returned' => ~returned /\ ~(content < ws) BY <1>1, Zenon
  <2> QED BY <1>4, <2>1
<1>6. ASSUME NEW r \in Reviews, Saw(r, task) PROVE Saw(r, task)'
  <2>1. r.diff \in Nat BY DEF Reviews, Edits
  <2> QED BY <1>1, <1>4, <1>5, <1>6, <2>1 DEF Saw
<1>7. SeenOK(task)'
  <2>1. task.review # None => task.review \in Reviews BY DEF IInv, TypeOK, TaskRecords
  <2>2. task.evidence \in Seq(Proofs) BY DEF IInv, TypeOK, TaskRecords
  <2>3. \A i \in DOMAIN task.evidence : task.evidence[i].ws \in Nat
    <3>1. \A i \in DOMAIN task.evidence : task.evidence[i] \in Proofs BY <2>2
    <3> QED BY <3>1 DEF Proofs, Edits
  <2>4. task.review # None => Saw(task.review, task)'
    <3>1. PICK r : r = task.review OBVIOUS
    <3>2. r # None => Saw(r, task) /\ r \in Reviews BY <2>1, <3>1 DEF IInv, SeenOK
    <3>3. r # None => Saw(r, task)' BY <1>6, <3>2
    <3> QED BY <1>1, <3>1, <3>3
  <2>5. ~returned' => \A i \in DOMAIN task.evidence : task.evidence[i].ws <= content
    BY <1>4, <1>5, <2>3 DEF IInv, SeenOK
  <2> QED BY <1>1, <2>4, <2>5 DEF SeenOK
<1>8. DraftsOK'
  <2>1. ASSUME NEW d \in drafts, d.of = "review" PROVE d.receipt \in Reviews
    BY <2>1 DEF IInv, TypeOK
  <2> QED BY <1>1, <1>6, <2>1 DEF IInv, DraftsOK
<1>9. (closing \/ task.state = "FINALIZE" => Proven(task))' BY <1>1, <1>5 DEF IInv, Proven
<1> QED BY <1>2, <1>3, <1>7, <1>8, <1>9 DEF IInv

LEMMA DraftIs ==
  ASSUME IInv, NEW d \in drafts \cup Buildable
  PROVE  /\ d.of = "cycle" => d.id \in Ids /\ d.cycle \in Cycles /\ Shaped(d.cycle)
         /\ d.of = "falsification" => d.receipt \in Receipts
         /\ d.of = "review" => d.receipt \in Reviews /\ Saw(d.receipt, task)
<1>1. /\ d \in [of : {"cycle"}, id : Ids, cycle : Cycles]
               \cup [of : {"falsification"}, receipt : Receipts]
               \cup [of : {"review"}, receipt : Reviews]
      /\ d.of = "cycle" => Shaped(d.cycle)
      /\ d.of = "review" => Saw(d.receipt, task)
  <2>1. CASE d \in drafts BY <2>1 DEF IInv, TypeOK, DraftsOK
  <2>2. CASE d \in Buildable BY <2>2, BuildableIs
  <2> QED BY <2>1, <2>2
<1> QED BY <1>1

(* Recording a cycle leaves a task with cycles of the right shape. *)
LEMMA WithCycleIs ==
  ASSUME IInv, NEW d \in drafts \cup Buildable, d.of = "cycle", d.id <= Len(task.cycles) + 1,
         NEW n, n = WithCycle(d.id, d.cycle)
  PROVE  /\ n \in TaskRecords /\ CyclesOK(n) /\ d.id # 0
         /\ n.state = task.state /\ n.mode = task.mode /\ n.epoch = task.epoch
         /\ n.active = d.id /\ n.evidence = task.evidence
         /\ n.verif = task.verif /\ n.gate = task.gate /\ n.review = task.review
<1> USE Bounds
<1>1. task \in TaskRecords /\ CyclesOK(task) BY DEF IInv, TypeOK
<1>3. d.id \in Ids /\ d.cycle \in Cycles /\ Shaped(d.cycle) BY DraftIs
<1> DEFINE cs == IF d.id \in DOMAIN task.cycles THEN [task.cycles EXCEPT ![d.id] = d.cycle]
                 ELSE Append(task.cycles, d.cycle)
           impl == IF d.cycle.status \in {"GREEN", "COMPLETE"} THEN d.cycle.cand ELSE task.impl
<1>4. n = [task EXCEPT !.cycles = cs, !.active = d.id, !.impl = impl] BY <1>1 DEF WithCycle, TaskRecords
<1>6. task.cycles \in Seq(Cycles) /\ task.impl \in Edits \cup {None} BY <1>1 DEF TaskRecords
<1>7. d.id \in Nat \ {0} /\ d.id <= MaxCycles BY <1>3 DEF Ids
<1>8. /\ cs \in Seq(Cycles) /\ d.id \in 0..Len(cs) /\ Len(cs) <= MaxCycles
      /\ \A i \in DOMAIN cs : Shaped(cs[i])
  <2>1. CASE d.id \in DOMAIN task.cycles BY <1>1, <1>3, <1>6, <1>7, <2>1 DEF CyclesOK
  <2>2. CASE d.id \notin DOMAIN task.cycles
    <3>1. d.id = Len(task.cycles) + 1 BY <1>6, <1>7, <2>2
    <3> QED BY <1>1, <1>3, <1>6, <1>7, <2>2, <3>1 DEF CyclesOK
  <2> QED BY <2>1, <2>2
<1>9. impl \in Edits \cup {None} BY <1>3, <1>6 DEF Cycles
<1> HIDE DEF cs, impl
<1>10. n \in TaskRecords
  <2>1. d.id \in 0..MaxCycles BY <1>7
  <2>2. cs \in Seq(Cycles) BY <1>8
  <2> QED BY <1>1, <1>4, <1>9, <2>1, <2>2 DEF TaskRecords
<1>11. /\ n.state = task.state /\ n.mode = task.mode /\ n.epoch = task.epoch
       /\ n.cycles = cs /\ n.active = d.id /\ n.evidence = task.evidence
       /\ n.verif = task.verif /\ n.gate = task.gate /\ n.review = task.review
  BY <1>1, <1>4 DEF TaskRecords
<1>12. CyclesOK(n) BY <1>8, <1>11 DEF CyclesOK
<1> QED BY <1>7, <1>10, <1>11, <1>12

LEMMA RecordTddCycleKeeps ==
  ASSUME IInv, NEW d \in drafts \cup Buildable, RecordTddCycle(d)
  PROVE  IInv'
<1>1. task \in TaskRecords /\ TypeOK /\ ProofsOK(task) BY DEF IInv, TypeOK
<1>2. d.of = "cycle" /\ d.id <= Len(task.cycles) + 1 BY DEF RecordTddCycle
<1>3. PICK n : n = WithCycle(d.id, d.cycle) OBVIOUS
<1>4. Mutate(n) /\ UNCHANGED <<workspace, closing>> /\ drafts' \subseteq drafts
  BY <1>3 DEF RecordTddCycle, Recorded, OwnMutation
<1>5. /\ n \in TaskRecords /\ CyclesOK(n)
      /\ n.state = task.state /\ n.mode = task.mode /\ n.epoch = task.epoch
      /\ n.evidence = task.evidence
      /\ n.verif = task.verif /\ n.gate = task.gate /\ n.review = task.review
  BY <1>2, <1>3, WithCycleIs
<1>6. ProofsOK(n) BY <1>1, <1>5, ProofsStay
<1>7. n.state # "FINALIZE" BY <1>4, <1>5 DEF Mutate, Terminal
<1>8. Len(n.evidence) <= MaxEvidence BY <1>1, <1>5 DEF TypeOK
<1>9. n.review = None \/ Saw(n.review, task) BY <1>5 DEF IInv, SeenOK
<1>10. Grows(n) BY <1>5 DEF Grows
<1> QED BY <1>4, <1>5, <1>6, <1>7, <1>8, <1>9, <1>10, MutateKeeps

(* A command that leaves the state, the cycles and the review alone and    *)
(* adds no evidence.                                                       *)
LEMMA QuietKeeps ==
  ASSUME IInv, NEW n \in TaskRecords, Mutate(n), n.state = task.state,
         n.cycles = task.cycles, n.active = task.active, n.review = task.review,
         n.evidence = task.evidence, ProofsOK(n),
         drafts' \subseteq drafts, UNCHANGED <<workspace, closing>>
  PROVE  IInv'
<1>1. n.state # "FINALIZE" BY DEF Mutate, Terminal
<1>2. Len(n.evidence) <= MaxEvidence BY DEF IInv, TypeOK
<1>3. Grows(n) BY DEF Grows
<1> QED BY <1>1, <1>2, <1>3, CommandKeeps

LEMMA RecordFalsificationKeeps ==
  ASSUME IInv, NEW d \in drafts \cup Buildable, RecordFalsification(d)
  PROVE  IInv'
<1>1. task \in TaskRecords /\ TypeOK /\ ProofsOK(task) BY DEF IInv, TypeOK
<1> DEFINE n == [task EXCEPT !.fals = d.receipt]
<1>2. Mutate(n) /\ UNCHANGED <<workspace, closing>> /\ drafts' \subseteq drafts
  BY DEF RecordFalsification, Recorded, OwnMutation
<1>3. d.receipt \in Receipts BY DraftIs DEF RecordFalsification
<1>4. n \in TaskRecords BY <1>1, <1>3 DEF TaskRecords
<1>5. /\ n.state = task.state /\ n.mode = task.mode /\ n.epoch = task.epoch
      /\ n.cycles = task.cycles /\ n.active = task.active /\ n.evidence = task.evidence
      /\ n.verif = task.verif /\ n.gate = task.gate /\ n.review = task.review
  BY <1>1 DEF TaskRecords
<1> HIDE DEF n
<1>6. ProofsOK(n) BY <1>1, <1>5, ProofsStay
<1> QED BY <1>2, <1>4, <1>5, <1>6, QuietKeeps

LEMMA RecordReviewKeeps ==
  ASSUME IInv, NEW d \in drafts \cup Buildable, RecordReview(d)
  PROVE  IInv'
<1>1. task \in TaskRecords /\ TypeOK /\ ProofsOK(task) /\ CyclesOK(task) BY DEF IInv, TypeOK
<1> DEFINE n == [task EXCEPT !.review = d.receipt]
<1>2. Mutate(n) /\ UNCHANGED <<workspace, closing>> /\ drafts' \subseteq drafts
  BY DEF RecordReview, Recorded, OwnMutation
<1>3. d.receipt \in Reviews /\ Saw(d.receipt, task) BY DraftIs DEF RecordReview
<1>4. n \in TaskRecords BY <1>1, <1>3 DEF TaskRecords
<1>5. /\ n.state = task.state /\ n.mode = task.mode /\ n.epoch = task.epoch
      /\ n.cycles = task.cycles /\ n.active = task.active /\ n.evidence = task.evidence
      /\ n.verif = task.verif /\ n.gate = task.gate /\ n.review = d.receipt
  BY <1>1 DEF TaskRecords
<1> HIDE DEF n
<1>6. ProofsOK(n) BY <1>1, <1>5, ProofsStay
<1>7. CyclesOK(n) BY <1>1, <1>5 DEF CyclesOK
<1>8. n.state # "FINALIZE" BY <1>2, <1>5 DEF Mutate, Terminal
<1>9. Len(n.evidence) <= MaxEvidence /\ Grows(n) BY <1>1, <1>5 DEF TypeOK, Grows
<1> QED BY <1>2, <1>3, <1>4, <1>5, <1>6, <1>7, <1>8, <1>9, MutateKeeps

LEMMA PrecheckKeeps ==
  ASSUME IInv, Precheck
  PROVE  IInv'
<1>1. task \in TaskRecords /\ ProofsOK(task) BY DEF IInv, TypeOK
<1> DEFINE n == [task EXCEPT !.prechecked = TRUE]
<1>2. Mutate(n) /\ UNCHANGED <<workspace, closing>> /\ drafts' \subseteq drafts
  BY DEF Precheck, Command, OwnMutation
<1>3. n \in TaskRecords BY <1>1 DEF TaskRecords
<1>4. /\ n.state = task.state /\ n.mode = task.mode /\ n.epoch = task.epoch
      /\ n.cycles = task.cycles /\ n.active = task.active /\ n.evidence = task.evidence
      /\ n.verif = task.verif /\ n.gate = task.gate /\ n.review = task.review
  BY <1>1 DEF TaskRecords
<1> HIDE DEF n
<1>5. ProofsOK(n) BY <1>1, <1>4, ProofsStay
<1> QED BY <1>2, <1>3, <1>4, <1>5, QuietKeeps

(* A risk or a decision: whatever else changes, the proofs stay. *)
LEMMA RiskKeeps ==
  ASSUME IInv, NEW h \in {"NONE", "open", "resolved"}, NEW c,
         Command(c, [task EXCEPT !.hazard = h, !.audited = None])
  PROVE  IInv'
<1>1. task \in TaskRecords /\ ProofsOK(task) BY DEF IInv, TypeOK
<1> DEFINE n == [task EXCEPT !.hazard = h, !.audited = None]
<1>2. Mutate(n) /\ UNCHANGED <<workspace, closing>> /\ drafts' \subseteq drafts
  BY DEF Command, OwnMutation
<1>3. n \in TaskRecords BY <1>1 DEF TaskRecords
<1>4. /\ n.state = task.state /\ n.mode = task.mode /\ n.epoch = task.epoch
      /\ n.cycles = task.cycles /\ n.active = task.active /\ n.evidence = task.evidence
      /\ n.verif = task.verif /\ n.gate = task.gate /\ n.review = task.review
  BY <1>1 DEF TaskRecords
<1> HIDE DEF n
<1>5. ProofsOK(n) BY <1>1, <1>4, ProofsStay
<1> QED BY <1>2, <1>3, <1>4, <1>5, QuietKeeps

LEMMA DecisionAddKeeps ==
  ASSUME IInv, DecisionAdd
  PROVE  IInv'
<1>1. task \in TaskRecords BY DEF IInv, TypeOK
<1>2. [task EXCEPT !.audited = None] = [task EXCEPT !.hazard = task.hazard, !.audited = None]
      /\ task.hazard \in {"NONE", "open", "resolved"}
  BY <1>1 DEF TaskRecords
<1> QED BY <1>2, RiskKeeps DEF DecisionAdd

LEMMA GateAddKeeps ==
  ASSUME IInv, NEW hard \in BOOLEAN, GateAdd(hard)
  PROVE  IInv'
<1> USE Bounds
<1>1. task \in TaskRecords /\ TypeOK BY DEF IInv, TypeOK
<1> DEFINE g == [NoGate EXCEPT !.status = "OPEN", !.hard = hard, !.after = Len(task.evidence)]
           n == [task EXCEPT !.gate = g, !.verif = {}, !.vepoch = None, !.audited = None]
<1>2. Mutate(n) /\ UNCHANGED <<workspace, closing>> /\ drafts' \subseteq drafts
  BY DEF GateAdd, Command, OwnMutation
<1>3. Len(task.evidence) \in 0..MaxEvidence
  <2>1. task.evidence \in Seq(Proofs) BY <1>1 DEF TaskRecords
  <2> QED BY <1>1, <2>1 DEF TypeOK
<1>4. g \in Gates /\ g.status = "OPEN" /\ g.proof = {}
  <2>1. NoGate \in Gates /\ NoGate.proof = {} BY DEF NoGate, Gates
  <2> QED BY <1>3, <2>1 DEF Gates
<1> HIDE DEF g
<1>5. n \in TaskRecords BY <1>1, <1>4 DEF TaskRecords
<1>6. /\ n.state = task.state /\ n.mode = task.mode /\ n.epoch = task.epoch
      /\ n.cycles = task.cycles /\ n.active = task.active /\ n.evidence = task.evidence
      /\ n.verif = {} /\ n.gate = g /\ n.review = task.review
  BY <1>1 DEF TaskRecords
<1> HIDE DEF n
<1>7. ProofsOK(n) BY <1>4, <1>6 DEF ProofsOK
<1> QED BY <1>2, <1>5, <1>6, <1>7, QuietKeeps

LEMMA GateProveKeeps ==
  ASSUME IInv, NEW i \in DOMAIN task.evidence, GateProve(i)
  PROVE  IInv'
<1> USE Bounds
<1>1. task \in TaskRecords /\ TypeOK /\ ProofsOK(task) BY DEF IInv, TypeOK
<1> DEFINE g == [task.gate EXCEPT !.status = "PROVEN", !.proof = task.gate.proof \cup {i}]
           n == [task EXCEPT !.gate = g, !.audited = None]
<1>2. /\ i > task.gate.after
      /\ task.mode = "write" => task.evidence[i].epoch = task.epoch
  BY DEF GateProve
<1>3. task.gate \in Gates /\ task.gate.proof \subseteq 1..MaxEvidence BY <1>1, GateType
<1>4. [task EXCEPT !.gate.status = "PROVEN", !.gate.proof = @ \cup {i}, !.audited = None] = n
  BY <1>1, <1>3 DEF TaskRecords, Gates
<1>5. Mutate(n) /\ UNCHANGED <<workspace, closing>> /\ drafts' \subseteq drafts
  BY <1>4 DEF GateProve, Command, OwnMutation
<1>6. i \in 1..MaxEvidence
  <2>1. task.evidence \in Seq(Proofs) BY <1>1 DEF TaskRecords
  <2> QED BY <1>1, <2>1 DEF TypeOK
<1>7. g \in Gates /\ g.status = "PROVEN" /\ g.proof = task.gate.proof \cup {i} /\ g.after = task.gate.after
  BY <1>3, <1>6 DEF Gates
<1> HIDE DEF g
<1>8. n \in TaskRecords BY <1>1, <1>7 DEF TaskRecords
<1>9. /\ n.state = task.state /\ n.mode = task.mode /\ n.epoch = task.epoch
      /\ n.cycles = task.cycles /\ n.active = task.active /\ n.evidence = task.evidence
      /\ n.verif = task.verif /\ n.gate = g /\ n.review = task.review
  BY <1>1 DEF TaskRecords
<1> HIDE DEF n
<1>10. ProofsOK(n) BY <1>1, <1>2, <1>7, <1>9 DEF ProofsOK
<1> QED BY <1>5, <1>8, <1>9, <1>10, QuietKeeps

LEMMA GateWaiveKeeps ==
  ASSUME IInv, NEW i \in DOMAIN task.evidence, GateWaive(i)
  PROVE  IInv'
<1> USE Bounds
<1>1. task \in TaskRecords /\ TypeOK /\ ProofsOK(task) BY DEF IInv, TypeOK
<1> DEFINE g == [task.gate EXCEPT !.status = "WAIVED", !.waiver = i]
           n == [task EXCEPT !.gate = g, !.verif = {}, !.vepoch = None, !.audited = None]
<1>3. task.gate \in Gates BY <1>1, GateType
<1>4. [task EXCEPT !.gate.status = "WAIVED", !.gate.waiver = i,
                   !.verif = {}, !.vepoch = None, !.audited = None] = n
  BY <1>1, <1>3 DEF TaskRecords, Gates
<1>5. Mutate(n) /\ UNCHANGED <<workspace, closing>> /\ drafts' \subseteq drafts
  BY <1>4 DEF GateWaive, Command, OwnMutation
<1>6. i \in 0..MaxEvidence
  <2>1. task.evidence \in Seq(Proofs) BY <1>1 DEF TaskRecords
  <2> QED BY <1>1, <2>1 DEF TypeOK
<1>7. g \in Gates /\ g.status = "WAIVED" /\ g.proof = task.gate.proof /\ g.after = task.gate.after
  BY <1>3, <1>6 DEF Gates
<1> HIDE DEF g
<1>8. n \in TaskRecords BY <1>1, <1>7 DEF TaskRecords
<1>9. /\ n.state = task.state /\ n.mode = task.mode /\ n.epoch = task.epoch
      /\ n.cycles = task.cycles /\ n.active = task.active /\ n.evidence = task.evidence
      /\ n.verif = {} /\ n.gate = g /\ n.review = task.review
  BY <1>1 DEF TaskRecords
<1> HIDE DEF n
<1>10. ProofsOK(n) BY <1>1, <1>7, <1>9 DEF ProofsOK
<1> QED BY <1>5, <1>8, <1>9, <1>10, QuietKeeps

(* A record is added, and with a verification it is named as proof. *)
LEMMA EvidenceKeeps ==
  ASSUME IInv, NEW n \in TaskRecords, Mutate(n), n.state = task.state,
         n.mode = task.mode, n.epoch = task.epoch, n.gate = task.gate,
         n.cycles = task.cycles, n.active = task.active, n.review = task.review,
         NEW r \in Proofs, r.ws = ws, r.epoch = task.epoch,
         Len(task.evidence) < MaxEvidence, n.evidence = Append(task.evidence, r),
         n.verif \in {task.verif, task.verif \cup {Len(task.evidence) + 1}},
         drafts' \subseteq drafts, UNCHANGED <<workspace, closing>>
  PROVE  IInv'
<1> USE Bounds
<1>1. task \in TaskRecords /\ ProofsOK(task) BY DEF IInv, TypeOK
<1>2. task.evidence \in Seq(Proofs) BY <1>1 DEF TaskRecords
<1>3. n.state # "FINALIZE" BY DEF Mutate, Terminal
<1>4. Len(n.evidence) <= MaxEvidence BY <1>2
<1>5. Grows(n) BY DEF Grows
<1>6. /\ DOMAIN task.evidence \subseteq DOMAIN n.evidence /\ Len(task.evidence) + 1 \in DOMAIN n.evidence
      /\ \A i \in DOMAIN task.evidence : n.evidence[i] = task.evidence[i]
      /\ n.evidence[Len(task.evidence) + 1] = r
  BY <1>2
<1>7. ProofsOK(n)
  <2>1. n.verif \subseteq DOMAIN n.evidence /\ n.gate.proof \subseteq DOMAIN n.evidence
    BY <1>1, <1>6 DEF ProofsOK
  <2>2. ASSUME n.mode = "write", NEW i \in n.verif \cup n.gate.proof
        PROVE  n.evidence[i].epoch = n.epoch
    BY <1>1, <1>6, <2>2 DEF ProofsOK
  <2> QED BY <1>1, <2>1, <2>2 DEF ProofsOK
<1> QED BY <1>3, <1>4, <1>5, <1>7, CommandKeeps

LEMMA EvidenceAddKeeps ==
  ASSUME IInv, NEW kind \in {"command", "note", "external"}, NEW gate \in BOOLEAN,
         NEW verification \in BOOLEAN, EvidenceAdd(kind, gate, verification)
  PROVE  IInv'
<1> USE Bounds
<1>1. task \in TaskRecords /\ TypeOK BY DEF IInv, TypeOK
<1> DEFINE r == [epoch |-> task.epoch, ws |-> ws, kind |-> kind, gate |-> gate]
           es == Append(task.evidence, r)
           a == [task EXCEPT !.evidence = es, !.audited = None]
           v == [a EXCEPT !.verif = @ \cup {Len(a.evidence)}, !.vepoch = task.epoch]
<1>2. Len(task.evidence) < MaxEvidence /\ UNCHANGED <<workspace, closing>> /\ drafts' \subseteq drafts
      /\ Mutate(IF verification THEN v ELSE a)
  BY DEF EvidenceAdd, WithEvidence, NewRecord, Command, OwnMutation
<1>3. task.evidence \in Seq(Proofs) /\ task.epoch \in Epochs /\ ws \in Edits
  BY <1>1 DEF TypeOK, TaskRecords
<1>4. r \in Proofs BY <1>3 DEF Proofs
<1>5. r.ws = ws /\ r.epoch = task.epoch OBVIOUS
<1> HIDE DEF r
<1>6. es \in Seq(Proofs) /\ Len(es) = Len(task.evidence) + 1 /\ Len(es) \in 1..MaxEvidence
  BY <1>2, <1>3, <1>4
<1>7. es = Append(task.evidence, r) OBVIOUS
<1> HIDE DEF es
<1>8. a \in TaskRecords BY <1>1, <1>6 DEF TaskRecords
<1>9. /\ a.state = task.state /\ a.mode = task.mode /\ a.epoch = task.epoch
      /\ a.cycles = task.cycles /\ a.active = task.active /\ a.evidence = es
      /\ a.verif = task.verif /\ a.gate = task.gate /\ a.review = task.review
  BY <1>1 DEF TaskRecords
<1> HIDE DEF a
<1>10. CASE ~verification
  <2>1. Mutate(a) BY <1>2, <1>10
  <2> QED BY <1>2, <1>4, <1>5, <1>7, <1>8, <1>9, <2>1, EvidenceKeeps
<1>11. CASE verification
  <2>1. Mutate(v) BY <1>2, <1>11
  <2> DEFINE w == a.verif \cup {Len(a.evidence)}
  <2>2. v = [a EXCEPT !.verif = w, !.vepoch = task.epoch] BY <1>8 DEF TaskRecords
  <2>3. w \in SUBSET (1..MaxEvidence) BY <1>6, <1>8, <1>9 DEF TaskRecords
  <2>4. w = task.verif \cup {Len(task.evidence) + 1} BY <1>6, <1>9
  <2> HIDE DEF w, v
  <2>5. v \in TaskRecords BY <1>3, <1>8, <2>2, <2>3 DEF TaskRecords
  <2>6. /\ v.state = a.state /\ v.mode = a.mode /\ v.epoch = a.epoch
        /\ v.cycles = a.cycles /\ v.active = a.active /\ v.evidence = a.evidence
        /\ v.verif = w /\ v.gate = a.gate /\ v.review = a.review
    BY <1>8, <2>2 DEF TaskRecords
  <2> QED BY <1>2, <1>4, <1>5, <1>7, <1>9, <2>1, <2>4, <2>5, <2>6, EvidenceKeeps
<1> QED BY <1>10, <1>11

LEMMA SubagentKeeps ==
  ASSUME IInv, SubagentOpen \/ SubagentRecover \/ \E accepted \in BOOLEAN : SubagentClose(accepted)
  PROVE  IInv'
<1> USE Bounds
<1>1. task \in TaskRecords /\ TypeOK /\ ProofsOK(task) BY DEF IInv, TypeOK
<1>2. ASSUME NEW c \in BOOLEAN, NEW a \in BOOLEAN,
             Mutate([task EXCEPT !.child = c, !.accepted = a, !.audited = None]),
             UNCHANGED <<workspace, drafts, closing>>
      PROVE  IInv'
  <2> DEFINE n == [task EXCEPT !.child = c, !.accepted = a, !.audited = None]
  <2>1. n \in TaskRecords BY <1>1 DEF TaskRecords
  <2>2. /\ n.state = task.state /\ n.mode = task.mode /\ n.epoch = task.epoch
        /\ n.cycles = task.cycles /\ n.active = task.active /\ n.evidence = task.evidence
        /\ n.verif = task.verif /\ n.gate = task.gate /\ n.review = task.review
    BY <1>1 DEF TaskRecords
  <2>3. Mutate(n) BY <1>2
  <2> HIDE DEF n
  <2>4. ProofsOK(n) BY <1>1, <2>2, ProofsStay
  <2> QED BY <1>2, <2>1, <2>2, <2>3, <2>4, QuietKeeps
<1>3. CASE SubagentOpen
  <2>1. [task EXCEPT !.child = TRUE, !.audited = None]
          = [task EXCEPT !.child = TRUE, !.accepted = task.accepted, !.audited = None]
        /\ task.accepted \in BOOLEAN
    BY <1>1 DEF TaskRecords
  <2> QED BY <1>2, <1>3, <2>1 DEF SubagentOpen
<1>4. ASSUME NEW accepted \in BOOLEAN, SubagentClose(accepted) PROVE IInv'
  <2>1. [task EXCEPT !.child = FALSE, !.accepted = @ \/ accepted, !.audited = None]
          = [task EXCEPT !.child = FALSE, !.accepted = (task.accepted \/ accepted), !.audited = None]
    BY <1>1 DEF TaskRecords
  <2>2. (task.accepted \/ accepted) \in BOOLEAN BY Zenon
  <2> QED BY <1>2, <1>4, <2>1, <2>2 DEF SubagentClose
<1>5. CASE SubagentRecover
  <2> DEFINE r == [epoch |-> task.epoch, ws |-> ws, kind |-> "note", gate |-> FALSE]
             es == Append(task.evidence, r)
             n == [task EXCEPT !.child = FALSE, !.evidence = es]
  <2>1. Len(task.evidence) < MaxEvidence /\ UNCHANGED <<workspace, drafts, closing>> /\ Mutate(n)
    BY <1>5 DEF SubagentRecover, NewRecord
  <2>2. task.evidence \in Seq(Proofs) /\ task.epoch \in Epochs /\ ws \in Edits
    BY <1>1 DEF TypeOK, TaskRecords
  <2>3. r \in Proofs /\ r.ws = ws /\ r.epoch = task.epoch BY <2>2 DEF Proofs
  <2> HIDE DEF r
  <2>4. es \in Seq(Proofs) BY <2>2, <2>3
  <2>7. es = Append(task.evidence, r) OBVIOUS
  <2> HIDE DEF es
  <2>5. n \in TaskRecords BY <1>1, <2>4 DEF TaskRecords
  <2>6. /\ n.state = task.state /\ n.mode = task.mode /\ n.epoch = task.epoch
        /\ n.cycles = task.cycles /\ n.active = task.active /\ n.evidence = es
        /\ n.verif = task.verif /\ n.gate = task.gate /\ n.review = task.review
    BY <1>1 DEF TaskRecords
  <2> HIDE DEF n
  <2> QED BY <2>1, <2>3, <2>5, <2>6, <2>7, EvidenceKeeps
<1> QED BY <1>3, <1>4, <1>5

LEMMA AuditCompleteKeeps ==
  ASSUME IInv, AuditComplete
  PROVE  IInv'
<1>1. task \in TaskRecords /\ TypeOK /\ ProofsOK(task) BY DEF IInv, TypeOK
<1> DEFINE n == [task EXCEPT !.audited = ws]
<1>2. Mutate(n) /\ UNCHANGED <<workspace, closing>> /\ drafts' \subseteq drafts
  BY DEF AuditComplete, OwnMutation
<1>3. n \in TaskRecords BY <1>1 DEF TypeOK, TaskRecords
<1>4. /\ n.state = task.state /\ n.mode = task.mode /\ n.epoch = task.epoch
      /\ n.cycles = task.cycles /\ n.active = task.active /\ n.evidence = task.evidence
      /\ n.verif = task.verif /\ n.gate = task.gate /\ n.review = task.review
  BY <1>1 DEF TaskRecords
<1> HIDE DEF n
<1>5. ProofsOK(n) BY <1>1, <1>4, ProofsStay
<1> QED BY <1>2, <1>3, <1>4, <1>5, QuietKeeps

-----------------------------------------------------------------------------

LEMMA InitIInv == Init => IInv
<1> USE Bounds
<1> SUFFICES ASSUME Init PROVE IInv OBVIOUS
<1>1. PICK p \in Profiles : task = NewTask(p[1], p[2]) BY DEF Init
<1>2. p[1] \in {"read", "write"} /\ p[2] \in {"low", "medium", "high", "critical"}
  BY ProfilesAssumption
<1>3. PICK mode \in {"read", "write"}, risk \in {"low", "medium", "high", "critical"} :
        task = NewTask(mode, risk)
  BY <1>1, <1>2
<1>4. NoGate \in Gates /\ NoGate.status = "NONE" /\ NoGate.proof = {} BY DEF NoGate, Gates
<1>5. "CREATED" \in States BY DEF States, Forward
<1>6. 0 \in Epochs /\ 0 \in Edits BY DEF Epochs, Edits
<1>7. task \in TaskRecords
  <2>1. <<>> \in Seq(Cycles) /\ <<>> \in Seq(Proofs) /\ 0 \in 0..MaxCycles OBVIOUS
  <2> QED BY <1>3, <1>4, <1>5, <1>6, <2>1 DEF NewTask, TaskRecords
<1>8. /\ task.state = "CREATED" /\ task.cycles = <<>> /\ task.evidence = <<>> /\ task.active = 0
      /\ task.verif = {} /\ task.gate = NoGate /\ task.fals = None /\ task.review = None
  BY <1>3 DEF NewTask
<1>9. ws = 0 /\ returned = FALSE /\ drafts = {} /\ closing = FALSE BY DEF Init
<1>10. TypeOK
  <2>1. Len(task.cycles) <= MaxCycles /\ Len(task.evidence) <= MaxEvidence BY <1>8
  <2>2. closing \in BOOLEAN /\ returned \in BOOLEAN BY <1>9, Zenon
  <2>3. ws \in Edits BY <1>6, <1>9
  <2>4. \A x : {} \subseteq x OBVIOUS
  <2> QED BY <1>7, <1>9, <2>1, <2>2, <2>3, <2>4, Zenon DEF TypeOK
<1>11. SaveAccepts(task) BY <1>4, <1>8 DEF SaveAccepts
<1>12. CyclesOK(task) BY <1>8 DEF CyclesOK
<1>13. ProofsOK(task) BY <1>4, <1>8 DEF ProofsOK
<1>14. SeenOK(task) /\ DraftsOK BY <1>8, <1>9 DEF SeenOK, DraftsOK
<1> QED BY <1>8, <1>9, <1>10, <1>11, <1>12, <1>13, <1>14 DEF IInv

LEMMA NextIInv == IInv /\ [Next]_vars => IInv'
<1> SUFFICES ASSUME IInv, [Next]_vars PROVE IInv' OBVIOUS
<1>1. CASE UNCHANGED vars
  <2>1. task' = task /\ ws' = ws /\ returned' = returned /\ drafts' = drafts /\ closing' = closing
    BY <1>1 DEF vars, workspace
  <2> QED BY <2>1 DEF IInv, TypeOK, SeenOK, DraftsOK, Proven, Saw
<1>2. ASSUME NEW s \in States, Transition(s) PROVE IInv' BY <1>2, TransitionKeeps
<1>3. CASE BeginFinalize BY <1>3, BeginFinalizeKeeps
<1>4. CASE SaveFinalize BY <1>4, SaveFinalizeKeeps
<1>5. CASE AuditComplete BY <1>5, AuditCompleteKeeps
<1>6. ASSUME NEW d \in Buildable, Build(d) PROVE IInv' BY <1>6, BuildKeeps
<1>7. ASSUME NEW d \in drafts \cup Buildable,
             RecordTddCycle(d) \/ RecordFalsification(d) \/ RecordReview(d)
      PROVE  IInv'
  BY <1>7, RecordTddCycleKeeps, RecordFalsificationKeeps, RecordReviewKeeps
<1>8. ASSUME NEW d \in drafts, Discard(d) PROVE IInv' BY <1>8, DiscardKeeps
<1>9. CASE Precheck BY <1>9, PrecheckKeeps
<1>10. ASSUME NEW hard \in BOOLEAN, GateAdd(hard) PROVE IInv' BY <1>10, GateAddKeeps
<1>11. ASSUME NEW i \in DOMAIN task.evidence, GateProve(i) \/ GateWaive(i) PROVE IInv'
  BY <1>11, GateProveKeeps, GateWaiveKeeps
<1>12. CASE RiskAdd \/ RiskResolve BY <1>12, RiskKeeps DEF RiskAdd, RiskResolve
<1>13. CASE DecisionAdd BY <1>13, DecisionAddKeeps
<1>14. ASSUME NEW kind \in {"command", "note", "external"}, NEW gate \in BOOLEAN,
              NEW verification \in BOOLEAN, EvidenceAdd(kind, gate, verification)
       PROVE  IInv'
  BY <1>14, EvidenceAddKeeps
<1>15. CASE SubagentOpen \/ SubagentRecover \/ \E accepted \in BOOLEAN : SubagentClose(accepted)
  BY <1>15, SubagentKeeps
<1>16. ASSUME NEW content \in Edits \ {ws}, Edit(content) PROVE IInv' BY <1>16, EditKeeps
<1> QED
  BY <1>1, <1>2, <1>3, <1>4, <1>5, <1>6, <1>7, <1>8, <1>9, <1>10, <1>11, <1>12, <1>13, <1>14,
     <1>15, <1>16, Zenon
  DEF Next

LEMMA AlwaysIInv == Spec => []IInv
  BY InitIInv, NextIInv, PTL DEF Spec

(* Every reachable task has the fields and the ranges that validate_task   *)
(* asks for (state_store.py:132-307).                                      *)
THEOREM WorkflowTypeCorrect == Spec => []TypeOK
<1>1. IInv => TypeOK BY DEF IInv
<1> QED BY <1>1, AlwaysIInv, PTL

(* What FINALIZE accepts was proved: see FinalizedIsProven.  The argument  *)
(* is that of BeginFinalizeKeeps (state_store.py:1147-1159).               *)
THEOREM FinalizedTasksAreProven == Spec => []FinalizedIsProven
<1>1. IInv => FinalizedIsProven
  <2> SUFFICES ASSUME IInv, task.state = "FINALIZE" PROVE FinalizedIsProven
    BY DEF FinalizedIsProven
  <2>1. Proven(task) /\ task \in TaskRecords BY DEF IInv, TypeOK
  <2>2. \A i \in ProofIds(task) : task.evidence[i].ws = task.audited
    BY <2>1 DEF Proven, ValidProofs
  <2>3. ASSUME task.mode = "write"
        PROVE  /\ Current(task).green = task.epoch
               /\ task.fals.clean /\ task.fals.epoch = task.epoch /\ task.review.epoch = task.epoch
               /\ {task.fals.diff, task.review.diff} = {Current(task).cand}
               /\ ~returned => Current(task).cand = task.audited
               /\ task.hazard # "open"
    <3>1. CurrentGreen(task) /\ CleanFalsification(task) /\ CurrentReview(task) /\ task.hazard # "open"
      BY <2>1, <2>3 DEF Proven, Acceptable
    <3>2. task.review \in Reviews /\ task.review.diff = task.impl /\ task.review.epoch = task.epoch
      BY <2>1, <3>1 DEF CurrentReview, ReviewReceiptCurrent, TaskRecords
    <3>3. task.impl # None BY <3>2, Bounds, NoneAssumption DEF Reviews, Edits
    <3>4. task.fals.diff = task.impl /\ task.fals.epoch = task.epoch /\ task.fals.clean
      BY <3>1, <3>3 DEF CleanFalsification, ValidFalsification
    <3>5. Current(task).green = task.epoch /\ Current(task).cand = task.impl
      BY <3>1 DEF CurrentGreen
    <3>6. ~returned => task.impl = task.audited BY <2>1, <2>3 DEF Proven
    <3> QED BY <3>1, <3>2, <3>4, <3>5, <3>6
  <2> QED BY <2>2, <2>3 DEF FinalizedIsProven
<1> QED BY <1>1, AlwaysIInv, PTL

-----------------------------------------------------------------------------
(* What every save that records no receipt may count on: a receipt that    *)
(* stays is one that was valid, about what has not changed.                *)
LEMMA ReceiptsDropped ==
  ASSUME IInv, NEW new \in TaskRecords,
         new.fals \in {task.fals, None}, new.review \in {task.review, None},
         new.accepted = task.accepted, task.active # 0 => new.active # 0,
         new.gate.status = "WAIVED" => ValidWaiver(new)
  PROVE  SaveAccepts(Saved(task, new))
<1>1. task \in TaskRecords /\ SaveAccepts(task) BY DEF IInv, TypeOK
<1>2. PICK t : t = Saved(task, new) OBVIOUS
<1>3. /\ t.epoch = new.epoch /\ t.cycles = new.cycles /\ t.active = new.active
      /\ t.evidence = new.evidence /\ t.gate = new.gate
      /\ t.impl = new.impl /\ t.accepted = new.accepted
      /\ t.fals = None
         \/ /\ t.fals = new.fals
            /\ new.fals = task.fals => FalsificationBindings(task) = FalsificationBindings(new)
      /\ t.review = None
         \/ /\ t.review = new.review
            /\ new.review = task.review => ReviewBindings(task) = ReviewBindings(new)
  BY <1>1, <1>2, SavedIs
<1>4. Current(t) = Current(new) BY <1>3 DEF Current
<1>5. ASSUME t.fals # None PROVE ValidFalsification(t)
  <2>1. t.fals = task.fals /\ FalsificationBindings(task) = FalsificationBindings(new) BY <1>3, <1>5
  <2>2. Current(task) = Current(new) /\ task.epoch = new.epoch /\ task.impl = new.impl
    BY <2>1 DEF FalsificationBindings
  <2>3. ValidFalsification(task) BY <1>1, <1>5, <2>1 DEF SaveAccepts, BoundFalsification
  <2> QED BY <1>3, <1>4, <2>1, <2>2, <2>3 DEF ValidFalsification
<1>6. ASSUME t.review # None PROVE BoundReview(t)
  <2>1. t.review = task.review /\ ReviewBindings(task) = ReviewBindings(new) BY <1>3, <1>6
  <2>2. /\ Current(task) = Current(new) /\ task.epoch = new.epoch /\ task.impl = new.impl
        /\ Len(task.evidence) = Len(new.evidence)
    BY <2>1 DEF ReviewBindings
  <2>3. BoundReview(task) BY <1>1, <1>6, <2>1 DEF SaveAccepts
  <2> QED BY <1>3, <1>4, <2>1, <2>2, <2>3 DEF BoundReview, ReviewReceiptCurrent
<1>7. t.gate.status = "WAIVED" => ValidWaiver(t) BY <1>3 DEF ValidWaiver
<1> QED BY <1>2, <1>5, <1>6, <1>7 DEF SaveAccepts, BoundFalsification

(* What a transition leaves of the task. *)
LEMMA AppliedIs ==
  ASSUME IInv, NEW s \in States, InBounds(s),
         s \in {"IMPLEMENT", "REMEDIATE"} => task.gate.status # "WAIVED"
  PROVE  /\ Applied(s) \in TaskRecords
         /\ Applied(s).cycles = task.cycles /\ Applied(s).active = task.active
         /\ Applied(s).epoch \in {task.epoch, task.epoch + 1}
         /\ Applied(s).gate.after = task.gate.after /\ Applied(s).gate.hard = task.gate.hard
         /\ Applied(s).fals \in {task.fals, None} /\ Applied(s).review \in {task.review, None}
         /\ Applied(s).accepted = task.accepted
         /\ Applied(s).gate.status = "WAIVED" => ValidWaiver(Applied(s))
<1> USE Bounds
<1>1. task \in TaskRecords /\ SaveAccepts(task) BY DEF IInv, TypeOK
<1> DEFINE m == Moved(task, s)
<1>2. /\ m \in TaskRecords /\ m.epoch = task.epoch /\ m.cycles = task.cycles /\ m.active = task.active
      /\ m.evidence = task.evidence /\ m.gate = task.gate /\ m.review = task.review
      /\ m.fals = task.fals /\ m.accepted = task.accepted
  BY <1>1, MovedIs
<1>3. task.gate \in Gates /\ task.epoch \in Epochs BY <1>1 DEF TaskRecords
<1> HIDE DEF m
<1>4. CASE s \in {"IMPLEMENT", "REMEDIATE"}
  <2>1. Applied(s) = NewEpoch(m) BY <1>4 DEF Applied, m
  <2>2. m.epoch < MaxEpoch /\ task.gate.status # "WAIVED" BY <1>2, <1>4 DEF InBounds
  <2>3. /\ NewEpoch(m) \in TaskRecords /\ NewEpoch(m).epoch = m.epoch + 1
        /\ NewEpoch(m).cycles = m.cycles /\ NewEpoch(m).active = m.active
        /\ NewEpoch(m).review = None /\ NewEpoch(m).fals = None /\ NewEpoch(m).accepted = m.accepted
        /\ NewEpoch(m).gate = IF m.gate.status = "PROVEN"
                              THEN [m.gate EXCEPT !.status = "OPEN", !.proof = {}] ELSE m.gate
    BY <1>2, <2>2, NewEpochIs
  <2>4. /\ NewEpoch(m).gate.after = task.gate.after /\ NewEpoch(m).gate.hard = task.gate.hard
        /\ NewEpoch(m).gate.status # "WAIVED"
    BY <1>2, <1>3, <2>2, <2>3 DEF Gates
  <2> QED BY <1>2, <2>1, <2>3, <2>4
<1>5. CASE s \notin {"IMPLEMENT", "REMEDIATE"}
  <2>1. PICK n : n = Applied(s) OBVIOUS
  <2>2. \/ n = m
        \/ n = [m EXCEPT !.fals = None, !.review = None, !.audited = None]
        \/ n = [m EXCEPT !.reviewed = task.epoch]
    BY <1>5, <2>1 DEF Applied, m
  <2>3. /\ n \in TaskRecords /\ n.epoch = m.epoch /\ n.cycles = m.cycles /\ n.active = m.active
        /\ n.evidence = m.evidence /\ n.gate = m.gate /\ n.review \in {m.review, None}
        /\ n.fals \in {m.fals, None} /\ n.accepted = m.accepted
    <3>1. CASE n = m BY <1>2, <3>1
    <3>2. CASE n = [m EXCEPT !.fals = None, !.review = None, !.audited = None]
      BY <1>2, <3>2 DEF TaskRecords
    <3>3. CASE n = [m EXCEPT !.reviewed = task.epoch] BY <1>2, <1>3, <3>3 DEF TaskRecords
    <3> QED BY <2>2, <3>1, <3>2, <3>3
  <2>4. n.gate.status = "WAIVED" => ValidWaiver(n)
    BY <1>1, <1>2, <2>3 DEF SaveAccepts, ValidWaiver
  <2> QED BY <1>2, <2>1, <2>3, <2>4
<1> QED BY <1>4, <1>5

(* Whatever was recorded before, and in which order, an allowed transition,*)
(* a new record of evidence and a cycle that extends the recorded ones are *)
(* saved: no receipt is left that the save would refuse, except the waiver *)
(* of a gate when a new epoch begins (state_store.py:859-878).             *)
THEOREM ReceiptsNeverBlock == Spec => []StaleReceiptsNeverBlock
<1>1. ASSUME IInv, NEW new \in TaskRecords, new.cycles = task.cycles,
             new.epoch \in {task.epoch, task.epoch + 1},
             new.gate.after = task.gate.after, new.gate.hard = task.gate.hard
      PROVE  AppendOnly(task, Saved(task, new))
  <2>1. task \in TaskRecords BY <1>1 DEF IInv, TypeOK
  <2>2. /\ Saved(task, new).cycles = new.cycles /\ Saved(task, new).epoch = new.epoch
        /\ Saved(task, new).gate = new.gate
    BY <2>1, SavedIs
  <2>3. task.epoch \in Nat BY <2>1, Bounds DEF TaskRecords, Epochs
  <2> QED BY <1>1, <2>2, <2>3 DEF AppendOnly, Extends
<1>2. ASSUME IInv, NEW s \in States, InBounds(s),
             s \in {"IMPLEMENT", "REMEDIATE"} => task.gate.status # "WAIVED"
      PROVE  Saves(Applied(s))
  <2>1. PICK n : n = Applied(s) OBVIOUS
  <2>2. /\ n \in TaskRecords /\ n.cycles = task.cycles /\ n.active = task.active
        /\ n.epoch \in {task.epoch, task.epoch + 1}
        /\ n.gate.after = task.gate.after /\ n.gate.hard = task.gate.hard
        /\ n.fals \in {task.fals, None} /\ n.review \in {task.review, None}
        /\ n.accepted = task.accepted /\ (n.gate.status = "WAIVED" => ValidWaiver(n))
    BY <1>2, <2>1, AppliedIs
  <2>3. AppendOnly(task, Saved(task, n)) BY <1>1, <1>2, <2>2
  <2>4. SaveAccepts(Saved(task, n)) BY <1>2, <2>2, ReceiptsDropped
  <2> QED BY <2>1, <2>3, <2>4 DEF Saves
<1>3. ASSUME IInv, NEW gate \in BOOLEAN
      PROVE  Saves(WithEvidence(NewRecord("command", gate)))
  <2>1. task \in TaskRecords /\ TypeOK /\ SaveAccepts(task) BY <1>3 DEF IInv, TypeOK
  <2>2. PICK r : r = NewRecord("command", gate) OBVIOUS
  <2>3. task.evidence \in Seq(Proofs) /\ task.epoch \in Epochs /\ ws \in Edits
    BY <2>1 DEF TypeOK, TaskRecords
  <2>4. r \in Proofs BY <2>2, <2>3 DEF NewRecord, Proofs
  <2>5. PICK es : es = Append(task.evidence, r) OBVIOUS
  <2>6. es \in Seq(Proofs) /\ \A i \in DOMAIN task.evidence : i \in DOMAIN es /\ es[i] = task.evidence[i]
    BY <2>3, <2>4, <2>5
  <2>7. PICK n : n = [task EXCEPT !.evidence = es, !.audited = None] OBVIOUS
  <2>8. n = WithEvidence(r) BY <2>1, <2>5, <2>7 DEF WithEvidence, TaskRecords
  <2>9. /\ n \in TaskRecords /\ n.cycles = task.cycles /\ n.active = task.active
        /\ n.epoch = task.epoch /\ n.gate = task.gate /\ n.fals = task.fals
        /\ n.review = task.review /\ n.accepted = task.accepted /\ n.evidence = es
    BY <2>1, <2>6, <2>7 DEF TaskRecords
  <2>10. n.gate.status = "WAIVED" => ValidWaiver(n)
    BY <2>1, <2>6, <2>9 DEF SaveAccepts, ValidWaiver
  <2>11. AppendOnly(task, Saved(task, n)) BY <1>1, <1>3, <2>9
  <2>12. SaveAccepts(Saved(task, n)) BY <1>3, <2>9, <2>10, ReceiptsDropped
  <2> QED BY <2>2, <2>8, <2>11, <2>12 DEF Saves
<1>4. ASSUME IInv, NEW d \in drafts \cup Buildable, d.of = "cycle", d.id <= Len(task.cycles) + 1,
             AppendOnly(task, WithCycle(d.id, d.cycle))
      PROVE  Saves(WithCycle(d.id, d.cycle))
  <2>1. task \in TaskRecords /\ SaveAccepts(task) BY <1>4 DEF IInv, TypeOK
  <2>2. PICK n : n = WithCycle(d.id, d.cycle) OBVIOUS
  <2>3. n \in TaskRecords /\ n.active = d.id /\ d.id # 0 BY <1>4, <2>2, WithCycleIs
  <2>4. /\ n.epoch = task.epoch /\ n.gate = task.gate /\ n.fals = task.fals
        /\ n.review = task.review /\ n.accepted = task.accepted /\ n.evidence = task.evidence
    BY <2>1, <2>2 DEF WithCycle, TaskRecords
  <2>5. n.gate.status = "WAIVED" => ValidWaiver(n) BY <2>1, <2>4 DEF SaveAccepts, ValidWaiver
  <2>6. SaveAccepts(Saved(task, n)) BY <1>4, <2>3, <2>4, <2>5, ReceiptsDropped
  <2>7. /\ Saved(task, n).cycles = n.cycles /\ Saved(task, n).epoch = n.epoch
        /\ Saved(task, n).gate = n.gate
    BY <2>1, <2>3, SavedIs
  <2>8. AppendOnly(task, Saved(task, n)) BY <1>4, <2>2, <2>7 DEF AppendOnly
  <2> QED BY <2>2, <2>6, <2>8 DEF Saves
<1>5. ASSUME NEW s \in Allowed(task.state), IInv PROVE s \in States
  BY <1>5 DEF Allowed, Forward, States, Escapes, Terminal, IInv, TypeOK, TaskRecords
<1>6. IInv => StaleReceiptsNeverBlock BY <1>2, <1>3, <1>4, <1>5, Zenon DEF StaleReceiptsNeverBlock
<1> QED BY <1>6, AlwaysIInv, PTL

(* What counts as proof is of the current epoch (state_store.py:1166-1184, *)
(* cli.py:49-78).                                                          *)
THEOREM StoredProofsAreCurrent == Spec => []ProofsAreCurrent
<1>1. IInv => ProofsAreCurrent
  BY DEF IInv, ProofsOK, SaveAccepts, ProofIds, ProofsAreCurrent
<1> QED BY <1>1, AlwaysIInv, PTL

(* A step leaves the task as it is, closes it, or has passed the check     *)
(* that nothing recorded is rewritten.                                     *)
LEMMA NextAppends ==
  ASSUME IInv, Next
  PROVE  task'.cycles = task.cycles \/ AppendOnly(task, task')
<1>1. ASSUME NEW new, Mutate(new) PROVE AppendOnly(task, task') BY <1>1, Zenon DEF Mutate, Saves
<1>2. CASE SaveFinalize
  BY <1>2, MovedIs DEF IInv, TypeOK, SaveFinalize, States, Terminal
<1>3. ASSUME NEW s \in States, Transition(s) PROVE AppendOnly(task, task')
  BY <1>1, <1>3, Zenon DEF Transition, OwnMutation
<1>4. CASE BeginFinalize BY <1>4 DEF BeginFinalize
<1>5. CASE AuditComplete BY <1>1, <1>5, Zenon DEF AuditComplete, OwnMutation
<1>6. ASSUME NEW d \in Buildable, Build(d) PROVE task' = task BY <1>6 DEF Build
<1>7. ASSUME NEW d \in drafts \cup Buildable,
             RecordTddCycle(d) \/ RecordFalsification(d) \/ RecordReview(d)
      PROVE  AppendOnly(task, task')
  BY <1>1, <1>7, Zenon DEF RecordTddCycle, RecordFalsification, RecordReview, Recorded, OwnMutation
<1>8. ASSUME NEW d \in drafts, Discard(d) PROVE task' = task BY <1>8 DEF Discard
<1>9. CASE Precheck BY <1>1, <1>9, Zenon DEF Precheck, Command, OwnMutation
<1>10. ASSUME NEW hard \in BOOLEAN, GateAdd(hard) PROVE AppendOnly(task, task')
  BY <1>1, <1>10, Zenon DEF GateAdd, Command, OwnMutation
<1>11. ASSUME NEW i \in DOMAIN task.evidence, GateProve(i) \/ GateWaive(i) PROVE AppendOnly(task, task')
  BY <1>1, <1>11, Zenon DEF GateProve, GateWaive, Command, OwnMutation
<1>12. CASE RiskAdd \/ RiskResolve \/ DecisionAdd
  BY <1>1, <1>12, Zenon DEF RiskAdd, RiskResolve, DecisionAdd, Command, OwnMutation
<1>13. ASSUME NEW kind \in {"command", "note", "external"}, NEW gate \in BOOLEAN,
              NEW verification \in BOOLEAN, EvidenceAdd(kind, gate, verification)
       PROVE  AppendOnly(task, task')
  BY <1>1, <1>13, Zenon DEF EvidenceAdd, Command, OwnMutation
<1>14. CASE SubagentOpen \/ SubagentRecover \/ \E accepted \in BOOLEAN : SubagentClose(accepted)
  BY <1>1, <1>14, Zenon DEF SubagentOpen, SubagentRecover, SubagentClose
<1>15. ASSUME NEW content \in Edits \ {ws}, Edit(content) PROVE task' = task BY <1>15 DEF Edit
<1>16. task' = task => task'.cycles = task.cycles OBVIOUS
<1> QED
  BY <1>2, <1>3, <1>4, <1>5, <1>6, <1>7, <1>8, <1>9, <1>10, <1>11, <1>12, <1>13, <1>14, <1>15,
     <1>16, Zenon
  DEF Next

(* Nobody rewrites a cycle (state_store.py:692-715): the comparison of     *)
(* stages is enough because a cycle holds nothing before its stage.        *)
THEOREM CyclesGrow == Spec => CyclesOnlyGrow
<1> DEFINE G == \A i \in DOMAIN task.cycles :
                   LET old == task.cycles[i]
                       new == task'.cycles[i]
                   IN  /\ old.base # None => new.base = old.base
                       /\ old.green # None => new.green = old.green /\ new.cand = old.cand
                       /\ old.status \in {"ABORTED", "COMPLETE"} => new = old
<1>1. IInv /\ [Next]_vars => [G]_vars
  <2> SUFFICES ASSUME IInv, Next PROVE G OBVIOUS
  <2>1. CASE task'.cycles = task.cycles BY <2>1
  <2>2. CASE AppendOnly(task, task')
    <3> SUFFICES ASSUME NEW i \in DOMAIN task.cycles
                 PROVE  LET old == task.cycles[i]
                            new == task'.cycles[i]
                        IN  /\ old.base # None => new.base = old.base
                            /\ old.green # None => new.green = old.green /\ new.cand = old.cand
                            /\ old.status \in {"ABORTED", "COMPLETE"} => new = old
      OBVIOUS
    <3>1. Extends(task.cycles[i], task'.cycles[i]) BY <2>2 DEF AppendOnly
    <3>2. Shaped(task.cycles[i]) BY DEF IInv, CyclesOK
    <3>3. task.cycles[i] \in Cycles
      <4>1. task.cycles \in Seq(Cycles) BY DEF IInv, TypeOK, TaskRecords
      <4> QED BY <4>1
    <3>4. task.cycles[i].status \in {"DESIGNED", "OBSERVED", "GREEN", "COMPLETE", "ABORTED"}
      BY <3>3 DEF Cycles
    <3> QED BY <3>1, <3>2, <3>4 DEF Extends, Shaped, Stages
  <2> QED BY <2>1, <2>2, NextAppends
<1> QED BY <1>1, AlwaysIInv, PTL DEF Spec, CyclesOnlyGrow

=============================================================================
