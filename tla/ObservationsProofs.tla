------------------------- MODULE ObservationsProofs -------------------------
(***************************************************************************)
(* Machine-checked proofs about what is concluded from files that somebody *)
(* else edits: the law runner with its watcher and its sandbox, and the    *)
(* context ledger; for any files, laws, recorders and number of edits.     *)
(***************************************************************************)
EXTENDS Observations, SequenceTheorems, TLAPS

(***************************************************************************)
(* The files.  Somebody's stat is the last one given out, so that the next *)
(* one is new.                                                             *)
(***************************************************************************)
Snapshots == [content : Contents, stat : Nat]

FilesOK ==
  /\ file \in [Files -> Snapshots]
  /\ \E g \in Files : \A f \in Files : file[f].stat <= file[g].stat

(* What was seen of a file is older than the file is now, or still true.   *)
Honest(seen, now) ==
  /\ seen \in Snapshots
  /\ seen.stat <= now.stat
  /\ seen.stat = now.stat => seen.content = now.content

(***************************************************************************)
(* The law runner.                                                         *)
(***************************************************************************)
RunPCs == {"idle", "load", "freeze", "watch", "law", "command", "kill", "recheck",
           "report", "passed", "failed", "raised"}
Verdicts == [hard : BOOLEAN, outcome : {"PASS", "FAIL", "ERROR"}]
Boxes == [tree : {0, 1}, law : {0, 1}]
Procs == [state : {"none", "running", "exited"}, ok : BOOLEAN, timedOut : BOOLEAN,
          child : {"none", "piped", "quiet"}]

Firsts == [Files -> Snapshots] \cup [{Definition, Test} -> Snapshots]
Runs == [pc : RunPCs, before : Contents \cup {Missing}, laws : Seq(Laws),
         k : Nat \ {0}, step : Nat \ {0}, box : Boxes, out : Seq(Verdicts)]
Watchers == [on : BOOLEAN, first : Firsts, changed : BOOLEAN]

RunTypeOK ==
  /\ run \in Runs /\ watcher \in Watchers /\ box \in Boxes /\ proc \in Procs
  /\ meddled \in BOOLEAN /\ guilty \in SUBSET Nat

(* While it watches, the watcher has an earlier state of the definitions,  *)
(* and one that has passed if somebody meddled; afterwards it says so.     *)
Behind(f) == watcher.first[f].stat < file[f].stat

WatchOK ==
  /\ watcher.on <=> run.pc \in {"law", "command", "kill"}
  /\ watcher.on =>
       /\ \A f \in {Definition, Test} : watcher.first[f].stat <= file[f].stat
       /\ meddled => \E f \in {Definition, Test} : Behind(f)
  /\ run.pc \in {"idle", "load", "freeze", "watch"} => ~meddled
  /\ run.pc = "recheck" /\ meddled => watcher.changed
  /\ run.pc = "report" /\ meddled => HardFailure
  /\ run.pc = "passed" => ~meddled

(* The laws that are over have their verdicts, and a law whose command     *)
(* misbehaved did not pass.                                                *)
Judged(n) ==
  /\ Len(run.out) = n /\ n <= Len(run.laws)
  /\ \A i \in 1..n : run.out[i].hard = run.laws[i].hard
  /\ \A i \in 1..n : i \in guilty => run.out[i].outcome # "PASS"

(* The command under way, if it is guilty, carries the mark of it.         *)
Marked ==
  \/ proc.timedOut
  \/ proc.state = "exited" /\ ~proc.ok
  \/ Law.kind = "command" /\ box.law # run.box.law
  \/ /\ Law.kind = "command" /\ Law.readOnly /\ proc.state = "exited"
     /\ box.tree # run.box.tree

LawsOK ==
  /\ proc.state = "running" \/ proc.child # "none" => run.pc \in {"command", "kill"}
  /\ run.pc \in {"idle", "load", "freeze", "watch", "law"} => run.k \notin guilty
  /\ run.pc \in {"idle", "load", "freeze", "watch"} =>
       run.out = <<>> /\ run.k = 1 /\ run.step = 1 /\ guilty = {}
  /\ run.pc \in {"law", "command", "kill"} =>
       Judged(run.k - 1) /\ \A i \in guilty : i \in 1..run.k
  /\ run.pc = "law" /\ run.k <= Len(run.laws) /\ run.step > 1 /\ Law.kind = "command" =>
       box.law = 0
  /\ run.pc \in {"command", "kill"} =>
       /\ run.k <= Len(run.laws)
       /\ Law.kind = "command" => run.box.law = 0
       /\ run.k \in guilty => Marked
  /\ run.pc = "recheck" => Judged(Len(run.laws)) /\ guilty \subseteq 1..Len(run.laws)
  /\ run.pc = "report" =>
       HardFailure \/ (Judged(Len(run.laws)) /\ guilty \subseteq 1..Len(run.laws))
  /\ run.pc = "passed" =>
       ~HardFailure /\ Judged(Len(run.laws)) /\ guilty \subseteq 1..Len(run.laws)

LawInv == RunTypeOK /\ WatchOK /\ LawsOK

(***************************************************************************)
(* The context ledger.                                                     *)
(***************************************************************************)
RecPCs == {"idle", "dep1", "path1", "lock", "path2", "dep2", "load", "save"}

(* The files that a recorder has hashed when it stands at pc.              *)
Hashed(pc) == CASE pc = "dep1" -> {}
                [] pc = "path1" -> {Dependency}
                [] OTHER -> {Dependency, Path}

Entries == UNION {[D -> Snapshots] : D \in SUBSET {Dependency, Path}}
Ledgers == [Keys -> Entries \cup {None}]
Recs == [pc : RecPCs, key : Keys \cup {None}, tries : Nat, look : Snapshots \cup {None},
         got : Entries, data : Ledgers \cup {None}]
Checks == [pc : {"idle", "stat", "deps", "hash", "answer"}, entry : Entries \cup {None},
           same : BOOLEAN, deps : BOOLEAN, fresh : BOOLEAN]

LedgerTypeOK ==
  /\ ledger \in Ledgers /\ rec \in [Recorders -> Recs] /\ check \in Checks

HonestAll(got) == \A f \in {Dependency, Path} : f \in DOMAIN got => Honest(got[f], file[f])
Complete(entry) == DOMAIN entry = {Dependency, Path} /\ HonestAll(entry)

RecOK(r) ==
  /\ rec[r].pc # "idle" => rec[r].key \in Keys
  /\ rec[r].pc \in DOMAIN Hashing => rec[r].key = Path
  /\ rec[r].pc # "idle" /\ rec[r].key = Path =>
       DOMAIN rec[r].got = Hashed(rec[r].pc) /\ HonestAll(rec[r].got)
  /\ rec[r].pc \in {"path2", "dep2", "load", "save"} => holder = r
  /\ rec[r].pc = "save" => rec[r].data = ledger

LedgerOK ==
  ledger[Path] # None => Complete(ledger[Path])

CheckOK ==
  /\ check.pc # "idle" => Complete(check.entry)
  /\ check.pc \in {"stat", "deps", "hash"} => Now \in span
  /\ check.pc = "stat" => check.fresh = FALSE
  /\ check.pc \in {"deps", "hash"} /\ check.same =>
       \E s \in span : s[Path] = check.entry[Path].content
  /\ check.pc = "hash" /\ check.deps =>
       \E s \in span : s[Dependency] = check.entry[Dependency].content
  /\ FreshWasCurrent

LedgerInv == LedgerTypeOK /\ LedgerOK /\ (\A r \in Recorders : RecOK(r)) /\ CheckOK

IInv == FilesOK /\ LawInv /\ LedgerInv

(***************************************************************************)
(* Files change by getting a stat that nobody has seen.                    *)
(***************************************************************************)
Later ==
  \A f \in Files : file'[f] = file[f] \/ file[f].stat < file'[f].stat

(* The last change is the one with the largest stat.                       *)
LEMMA LastChangeIsLast ==
  FilesOK => LastChange \in Nat /\ \A f \in Files : file[f].stat <= LastChange
<1> SUFFICES ASSUME FilesOK
             PROVE  LastChange \in Nat /\ \A f \in Files : file[f].stat <= LastChange
  OBVIOUS
<1>1. PICK g \in Files : \A f \in Files : file[f].stat <= file[g].stat BY DEF FilesOK
<1>2. \E n \in {file[f].stat : f \in Files} : \A f \in Files : file[f].stat <= n BY <1>1
<1>3. /\ LastChange \in {file[f].stat : f \in Files}
      /\ \A f \in Files : file[f].stat <= LastChange
  BY <1>2 DEF LastChange
<1>4. \A f \in Files : file[f].stat \in Nat BY DEF FilesOK, Snapshots
<1> QED BY <1>3, <1>4

(* A file gets new bytes, or the ones it has, and the next stat.           *)
LEMMA ChangeIsLater ==
  ASSUME FilesOK, NEW f \in Files, NEW c \in Contents,
         file' = [file EXCEPT ![f] = [content |-> c, stat |-> LastChange + 1]]
  PROVE  FilesOK' /\ Later /\ file[f].stat < file'[f].stat
<1>1. LastChange \in Nat /\ \A h \in Files : file[h].stat <= LastChange
  BY LastChangeIsLast
<1>2. [content |-> c, stat |-> LastChange + 1] \in Snapshots BY <1>1 DEF Snapshots
<1>3. file' \in [Files -> Snapshots] BY <1>2 DEF FilesOK
<1>4. file'[f].stat = LastChange + 1 /\ \A h \in Files : h # f => file'[h] = file[h]
  BY <1>3 DEF FilesOK
<1>5. \A h \in Files : file[h].stat \in Nat BY DEF FilesOK, Snapshots
<1>6. \A h \in Files : file'[h].stat <= file'[f].stat BY <1>1, <1>4, <1>5
<1>7. file[f].stat < file'[f].stat BY <1>1, <1>4, <1>5
<1> QED BY <1>3, <1>4, <1>6, <1>7 DEF FilesOK, Later

LEMMA TouchedIs ==
  ASSUME FilesOK, NEW f \in Files
  PROVE  /\ Touched(f) =
              [file EXCEPT ![f] = [content |-> file[f].content, stat |-> LastChange + 1]]
         /\ file[f].content \in Contents
<1>1. file[f] \in Snapshots BY DEF FilesOK
<1>2. [file[f] EXCEPT !.stat = LastChange + 1] =
        [content |-> file[f].content, stat |-> LastChange + 1]
  BY <1>1 DEF Snapshots
<1>3. Touched(f) = [file EXCEPT ![f] = [file[f] EXCEPT !.stat = LastChange + 1]]
  BY DEF Touched, FilesOK
<1> QED BY <1>1, <1>2, <1>3 DEF Snapshots

LEMMA EditIs ==
  ASSUME FilesOK, NEW f \in Files, NEW c \in Contents, Edit(f, c)
  PROVE  file' = [file EXCEPT ![f] = [content |-> c, stat |-> LastChange + 1]]
<1> DEFINE new == [content |-> file[f].content, stat |-> LastChange + 1]
<1>1. Touched(f) = [file EXCEPT ![f] = new] BY TouchedIs
<1>2. Touched(f)[f] = new BY <1>1 DEF FilesOK
<1>3. file' = [Touched(f) EXCEPT ![f] = [new EXCEPT !.content = c]]
  BY <1>2 DEF Edit
<1>4. [new EXCEPT !.content = c] = [content |-> c, stat |-> LastChange + 1] OBVIOUS
<1> HIDE DEF new
<1> QED BY <1>1, <1>3, <1>4 DEF FilesOK

(* Every step leaves a file as it was or gives it a new stat, and only an  *)
(* edit changes what it holds.                                             *)
LEMMA FilesStep ==
  ASSUME FilesOK, [Next]_vars
  PROVE  /\ FilesOK' /\ Later
         /\ SomebodyEdits \/ \A f \in Files : file'[f].content = file[f].content
<1>1. CASE SomebodyEdits BY <1>1, EditIs, ChangeIsLater DEF SomebodyEdits
<1>2. CASE UNCHANGED file BY <1>2 DEF FilesOK, Later
<1>3. CASE file' = Touched(Definition)
  <2>1. Definition \in Files BY LawAssumption
  <2>2. /\ file' = [file EXCEPT ![Definition] =
                      [content |-> file[Definition].content, stat |-> LastChange + 1]]
        /\ file[Definition].content \in Contents
    BY <1>3, <2>1, TouchedIs
  <2>3. FilesOK' /\ Later BY <2>1, <2>2, ChangeIsLater
  <2>4. \A f \in Files : file'[f].content = file[f].content BY <2>1, <2>2 DEF FilesOK
  <2> QED BY <2>3, <2>4
<1>4. SomebodyEdits \/ UNCHANGED file \/ file' = Touched(Definition)
  <2>1. CASE LawNext
    BY <2>1 DEF LawNext, Vanished, Digest, LoadFails, Load, Freeze, Watch, Poll, FileLaw,
         StartCommand, Commands, WritesTree, WritesLaw, ChildEnds, Forks, Exits, TimeOut,
         KillTree, ReaderStuck, CommandMutates, CommandFails, NextStep, LastStep, Unwatch,
         Recheck, Report, fileVars
  <2> QED BY <2>1 DEF Next, RunLaws, UseLedger, vars, fileVars
<1> QED BY <1>1, <1>2, <1>3, <1>4

(* What was seen of a file stays older or true.                            *)
LEMMA HonestStays ==
  ASSUME FilesOK, FilesOK', Later, NEW f \in Files, NEW seen, Honest(seen, file[f])
  PROVE  Honest(seen, file'[f])
<1>1. file[f] \in Snapshots /\ file'[f] \in Snapshots BY DEF FilesOK
<1>2. file'[f] = file[f] \/ file[f].stat < file'[f].stat BY DEF Later
<1>3. seen.stat \in Nat /\ file[f].stat \in Nat /\ file'[f].stat \in Nat
  BY <1>1 DEF Honest, Snapshots
<1> QED BY <1>2, <1>3 DEF Honest

(***************************************************************************)
(* The law runner: types.                                                  *)
(***************************************************************************)

LEMMA LawTypesInit == Init => FilesOK /\ RunTypeOK
<1> SUFFICES ASSUME Init PROVE FilesOK /\ RunTypeOK OBVIOUS
<1>1. PICK c \in [Files -> Contents \ {Missing}] :
         file = [f \in Files |-> [content |-> c[f], stat |-> 0]]
  BY DEF Init, FilesInit
<1>2. \A f \in Files : [content |-> c[f], stat |-> 0] \in Snapshots BY DEF Snapshots
<1>3. file \in [Files -> Snapshots] BY <1>1, <1>2
<1>4. \A f \in Files : file[f].stat = 0 BY <1>1
<1>5. FilesOK BY <1>3, <1>4, LawAssumption DEF FilesOK
<1>6. NoBox \in Boxes BY DEF NoBox, Boxes
<1>7. run \in Runs
  <2>1. <<>> \in Seq(Laws) /\ <<>> \in Seq(Verdicts) BY EmptySeq
  <2>2. run = [pc |-> "idle", before |-> Missing, laws |-> <<>>, k |-> 1, step |-> 1,
               box |-> NoBox, out |-> <<>>]
    BY DEF Init, LawInit
  <2> QED BY <1>6, <2>1, <2>2 DEF Runs, RunPCs
<1>8. watcher \in Watchers BY <1>3 DEF Init, LawInit, NoWatch, Watchers, Firsts
<1>9. proc \in Procs BY DEF Init, LawInit, NoProc, Procs
<1>10. meddled \in BOOLEAN /\ guilty \in SUBSET Nat BY DEF Init, LawInit
<1>11. box \in Boxes BY <1>6 DEF Init, LawInit
<1> QED BY <1>5, <1>7, <1>8, <1>9, <1>10, <1>11 DEF RunTypeOK

(* The law that a command is run for is one of the definition.             *)
LEMMA LawIsLaw ==
  ASSUME RunTypeOK, run.k <= Len(run.laws)
  PROVE  run.k \in 1..Len(run.laws) /\ Law \in Laws
<1>1. run.laws \in Seq(Laws) /\ run.k \in Nat \ {0} BY DEF RunTypeOK, Runs
<1>2. run.k \in 1..Len(run.laws) BY <1>1
<1> QED BY <1>1, <1>2, ElementOfSeq DEF Law

(* Nothing of the run changes but where it stands.                         *)
LEMMA GotoIs ==
  ASSUME RunTypeOK, NEW pc \in RunPCs, Goto(pc)
  PROVE  /\ run' \in Runs /\ run'.pc = pc
         /\ run'.laws = run.laws /\ run'.k = run.k /\ run'.step = run.step
         /\ run'.box = run.box /\ run'.out = run.out /\ run'.before = run.before
BY DEF RunTypeOK, Runs, Goto

(* What the end of a law leaves.                                           *)
LEMMA OutcomeIs ==
  ASSUME RunTypeOK, NEW o \in {"PASS", "FAIL", "ERROR"}, run.k <= Len(run.laws), Outcome(o)
  PROVE  /\ run' \in Runs /\ run'.pc = "law" /\ run'.laws = run.laws
         /\ run'.k = run.k + 1 /\ run'.step = 1 /\ run'.box = run.box
         /\ run'.out = Append(run.out, [hard |-> Law.hard, outcome |-> o])
         /\ Len(run'.out) = Len(run.out) + 1
         /\ run'.out[Len(run.out) + 1] = [hard |-> Law.hard, outcome |-> o]
         /\ \A i \in 1..Len(run.out) : run'.out[i] = run.out[i]
         /\ box' = NoBox /\ proc' = NoProc
         /\ NoBox \in Boxes /\ NoProc \in Procs
<1> DEFINE v == [hard |-> Law.hard, outcome |-> o]
<1>1. Law \in Laws BY LawIsLaw
<1>2. v \in Verdicts BY <1>1 DEF Laws, Verdicts
<1>3. run.out \in Seq(Verdicts) /\ run.k \in Nat \ {0} BY DEF RunTypeOK, Runs
<1>4. Append(run.out, v) \in Seq(Verdicts) BY <1>2, <1>3, AppendProperties
<1>5. run' = [run EXCEPT !.pc = "law", !.k = run.k + 1, !.step = 1,
                         !.out = Append(run.out, v)]
  BY DEF Outcome
<1> HIDE DEF v
<1>6. /\ run' \in Runs /\ run'.pc = "law" /\ run'.laws = run.laws
      /\ run'.k = run.k + 1 /\ run'.step = 1 /\ run'.box = run.box
      /\ run'.out = Append(run.out, v)
  <2>1. run.k + 1 \in Nat \ {0} /\ 1 \in Nat \ {0} /\ "law" \in RunPCs BY <1>3 DEF RunPCs
  <2>2. run \in Runs BY DEF RunTypeOK
  <2> DEFINE k1 == run.k + 1  o1 == Append(run.out, v)
  <2>3. k1 \in Nat \ {0} /\ o1 \in Seq(Verdicts) BY <2>1, <1>4
  <2>4. run' = [run EXCEPT !.pc = "law", !.k = k1, !.step = 1, !.out = o1] BY <1>5
  <2> HIDE DEF k1, o1
  <2>5. run' = [pc |-> "law", before |-> run.before, laws |-> run.laws, k |-> k1,
                step |-> 1, box |-> run.box, out |-> o1]
    BY <2>2, <2>4 DEF Runs
  <2>6. run' \in Runs BY <2>1, <2>2, <2>3, <2>5 DEF Runs
  <2> QED BY <2>5, <2>6 DEF k1, o1
<1>7. /\ Len(run'.out) = Len(run.out) + 1 /\ run'.out[Len(run.out) + 1] = v
      /\ \A i \in 1..Len(run.out) : run'.out[i] = run.out[i]
  BY <1>2, <1>3, <1>6, AppendProperties
<1>8. NoBox \in Boxes /\ NoProc \in Procs BY DEF NoBox, Boxes, NoProc, Procs
<1> QED BY <1>6, <1>7, <1>8 DEF Outcome, v

(***************************************************************************)
(* The law runner: one step at a time.                                     *)
(***************************************************************************)

(* A law is over: its verdict is noted, and not a pass if it is guilty.    *)
LEMMA OutcomeStep ==
  ASSUME LawInv, NEW o \in {"PASS", "FAIL", "ERROR"}, Outcome(o),
         run.pc \in {"law", "command"}, run.k <= Len(run.laws),
         UNCHANGED <<file, watcher, meddled>>,
         guilty' \in {guilty, guilty \cup {run.k}},
         run.k \in guilty' => o # "PASS"
  PROVE  LawInv'
<1> USE DEF LawInv
<1>0. /\ run.k \in Nat \ {0} /\ Len(run.out) \in Nat /\ Len(run.laws) \in Nat
      /\ guilty \in SUBSET Nat
  BY LenProperties DEF RunTypeOK, Runs
<1>1. /\ run' \in Runs /\ run'.pc = "law" /\ run'.laws = run.laws
      /\ run'.k = run.k + 1 /\ run'.step = 1
      /\ Len(run'.out) = Len(run.out) + 1
      /\ run'.out[Len(run.out) + 1] = [hard |-> Law.hard, outcome |-> o]
      /\ \A i \in 1..Len(run.out) : run'.out[i] = run.out[i]
      /\ box' = NoBox /\ proc' = NoProc
      /\ NoBox \in Boxes /\ NoProc \in Procs
  BY OutcomeIs
<1>2. RunTypeOK' BY <1>0, <1>1 DEF RunTypeOK
<1>3. WatchOK' BY <1>1 DEF WatchOK, Behind
<1>4. Judged(run.k - 1) /\ \A i \in guilty : i \in 1..run.k BY DEF LawsOK
<1>5. Len(run.out) = run.k - 1 BY <1>4 DEF Judged
<1>6. Judged(run.k - 1)'
  <2>1. run'.k - 1 = run.k /\ Len(run'.out) = run.k BY <1>0, <1>1, <1>5
  <2>2. \A i \in 1..run.k : i \in 1..(run.k - 1) \/ i = run.k BY <1>0
  <2>3. \A i \in 1..(run.k - 1) : run'.out[i] = run.out[i] /\ (i \in guilty' => i \in guilty)
    BY <1>0, <1>1, <1>5
  <2>4. run'.out[run.k] = [hard |-> Law.hard, outcome |-> o] BY <1>0, <1>1, <1>5
  <2>5. \A i \in 1..run.k : run'.out[i].hard = run.laws[i].hard
    BY <1>4, <2>2, <2>3, <2>4 DEF Judged, Law
  <2>6. \A i \in 1..run.k : i \in guilty' => run'.out[i].outcome # "PASS"
    BY <1>4, <2>2, <2>3, <2>4 DEF Judged
  <2> QED BY <1>1, <2>1, <2>5, <2>6 DEF Judged
<1>7. (\A i \in guilty : i \in 1..run.k)' /\ run'.k \notin guilty'
  BY <1>0, <1>1, <1>4
<1>8. proc'.state = "none" /\ proc'.child = "none" BY <1>1 DEF NoProc
<1>9. LawsOK' BY <1>1, <1>6, <1>7, <1>8 DEF LawsOK
<1> QED BY <1>2, <1>3, <1>9

(* Before the first law: digest, load, freeze, watch.                      *)
LEMMA BeforeLawsStep ==
  ASSUME FilesOK, LawInv, Later, FilesOK',
         Vanished \/ Digest \/ LoadFails \/ Load \/ Freeze \/ Watch
  PROVE  LawInv'
<1> USE DEF LawInv
<1>1. CASE Vanished
  <2>1. /\ run' \in Runs /\ run'.pc = "raised" /\ UNCHANGED <<file, watcher, box, proc, meddled, guilty>>
    BY <1>1, GotoIs DEF Vanished, RunPCs, fileVars
  <2>2. run.pc \in {"idle", "freeze", "recheck"} BY <1>1 DEF Vanished
  <2>3. RunTypeOK' BY <2>1 DEF RunTypeOK
  <2>4. WatchOK' BY <2>1, <2>2 DEF WatchOK, RunTypeOK, Watchers
  <2>5. LawsOK' BY <2>1, <2>2 DEF LawsOK
  <2> QED BY <2>3, <2>4, <2>5
<1>2. CASE Digest
  <2>1. Definition \in Files /\ file[Definition].content \in Contents
    BY LawAssumption DEF FilesOK, Snapshots
  <2>2. run' = [pc |-> "load", before |-> file[Definition].content, laws |-> run.laws,
                k |-> run.k, step |-> run.step, box |-> run.box, out |-> run.out]
    BY <1>2 DEF Digest, RunTypeOK, Runs
  <2>3. run' \in Runs BY <2>1, <2>2 DEF RunTypeOK, Runs, RunPCs
  <2>4. run.pc = "idle" /\ UNCHANGED <<file, watcher, box, proc, meddled, guilty>>
    BY <1>2 DEF Digest, fileVars
  <2>5. run'.pc = "load" /\ run'.out = run.out /\ run'.k = run.k /\ run'.step = run.step BY <2>2
  <2>6. RunTypeOK' BY <2>3, <2>4 DEF RunTypeOK
  <2>7. WatchOK' BY <2>4, <2>5 DEF WatchOK
  <2>8. LawsOK' BY <2>4, <2>5 DEF LawsOK
  <2> QED BY <2>6, <2>7, <2>8
<1>3. CASE LoadFails
  <2> DEFINE err == <<[hard |-> TRUE, outcome |-> "ERROR"]>>
  <2>1. [hard |-> TRUE, outcome |-> "ERROR"] \in Verdicts BY DEF Verdicts
  <2>2. err \in Seq(Verdicts) /\ Len(err) = 1 /\ err[1] = [hard |-> TRUE, outcome |-> "ERROR"]
    BY <2>1
  <2>3. run' = [pc |-> "report", before |-> run.before, laws |-> run.laws,
                k |-> run.k, step |-> run.step, box |-> run.box, out |-> err]
    BY <1>3 DEF LoadFails, RunTypeOK, Runs
  <2>4. run.pc = "load" /\ UNCHANGED <<file, watcher, box, proc, meddled, guilty>>
    BY <1>3 DEF LoadFails, fileVars
  <2>5. DOMAIN err = {1} BY <2>2
  <2> HIDE DEF err
  <2>6. run' \in Runs BY <2>2, <2>3 DEF RunTypeOK, Runs, RunPCs
  <2>7. run'.pc = "report" /\ run'.out = err BY <2>3
  <2>8. HardFailure' BY <2>2, <2>5, <2>7 DEF HardFailure
  <2>9. RunTypeOK' BY <2>4, <2>6 DEF RunTypeOK
  <2>10. WatchOK' BY <2>4, <2>7, <2>8 DEF WatchOK
  <2>11. LawsOK' BY <2>4, <2>7, <2>8 DEF LawsOK
  <2> QED BY <2>9, <2>10, <2>11
<1>4. CASE Load
  <2>1. LawsIn[file[Definition].content] \in Seq(Laws)
    BY <1>4, LawAssumption DEF Load, Loadable
  <2>2. run' = [pc |-> "freeze", before |-> run.before,
                laws |-> LawsIn[file[Definition].content],
                k |-> run.k, step |-> run.step, box |-> run.box, out |-> run.out]
    BY <1>4 DEF Load, RunTypeOK, Runs
  <2>3. run' \in Runs BY <2>1, <2>2 DEF RunTypeOK, Runs, RunPCs
  <2>4. run.pc = "load" /\ UNCHANGED <<file, watcher, box, proc, meddled, guilty>>
    BY <1>4 DEF Load, fileVars
  <2>5. run'.pc = "freeze" /\ run'.out = run.out /\ run'.k = run.k /\ run'.step = run.step BY <2>2
  <2>6. RunTypeOK' BY <2>3, <2>4 DEF RunTypeOK
  <2>7. WatchOK' BY <2>4, <2>5 DEF WatchOK
  <2>8. LawsOK' BY <2>4, <2>5 DEF LawsOK
  <2> QED BY <2>6, <2>7, <2>8
<1>5. CASE Freeze
  <2>1. /\ run' \in Runs /\ run'.pc = "watch" /\ run'.out = run.out /\ run'.k = run.k
        /\ run'.step = run.step
        /\ run.pc = "freeze" /\ UNCHANGED <<watcher, box, proc, meddled, guilty>>
    BY <1>5, GotoIs DEF Freeze, RunPCs
  <2>2. RunTypeOK' BY <2>1 DEF RunTypeOK
  <2>3. WatchOK' BY <2>1 DEF WatchOK
  <2>4. LawsOK' BY <2>1 DEF LawsOK
  <2> QED BY <2>2, <2>3, <2>4
<1>6. CASE Watch
  <2>1. /\ run' \in Runs /\ run'.pc = "law" /\ run'.out = run.out /\ run'.k = run.k
        /\ run'.laws = run.laws /\ run'.step = run.step
        /\ run.pc = "watch" /\ UNCHANGED <<file, box, proc, meddled, guilty>>
    BY <1>6, GotoIs DEF Watch, RunPCs, fileVars
  <2>2. Snapshot \in Firsts /\ \A f \in {Definition, Test} : Snapshot[f] = file[f]
    BY LawAssumption DEF Snapshot, Firsts, FilesOK
  <2>3. watcher' = [on |-> TRUE, first |-> Snapshot, changed |-> FALSE] BY <1>6 DEF Watch
  <2>4. watcher' \in Watchers BY <2>2, <2>3 DEF Watchers
  <2>5. RunTypeOK' BY <2>1, <2>4 DEF RunTypeOK
  <2>6. \A f \in {Definition, Test} : watcher'.first[f].stat <= file[f].stat
    BY <2>2, <2>3, LawAssumption DEF FilesOK, Snapshots
  <2>7. WatchOK' BY <2>1, <2>3, <2>6 DEF WatchOK
  <2>8. run.out = <<>> /\ run.k = 1 /\ run.step = 1 /\ guilty = {} BY <2>1 DEF LawsOK
  <2>9. Judged(run.k - 1)'
    <3>1. Len(run'.laws) \in Nat BY <2>1, LenProperties DEF Runs
    <3> QED BY <2>1, <2>8, <3>1 DEF Judged
  <2>10. run'.step = 1 BY <2>1, <2>8
  <2>11. LawsOK' BY <2>1, <2>8, <2>9, <2>10 DEF LawsOK
  <2> QED BY <2>5, <2>7, <2>11
<1> QED BY <1>1, <1>2, <1>3, <1>4, <1>5, <1>6

(* The steps that end a law.  A guilty command bears its mark until then,  *)
(* and what bears one does not pass.                                       *)
LEMMA VerdictStep ==
  ASSUME LawInv, FileLaw \/ ReaderStuck \/ CommandMutates \/ CommandFails \/ LastStep
  PROVE  LawInv'
<1> USE DEF LawInv
<1>1. CASE FileLaw
  <2>1. PICK o \in {"PASS", "FAIL", "ERROR"} : Outcome(o) BY <1>1 DEF FileLaw
  <2>2. /\ run.pc = "law" /\ run.k <= Len(run.laws)
        /\ UNCHANGED <<file, watcher, meddled, guilty>>
    BY <1>1 DEF FileLaw, Executing, fileVars
  <2>3. run.k \notin guilty BY <2>2 DEF LawsOK
  <2> QED BY <2>1, <2>2, <2>3, OutcomeStep
<1>2. ASSUME Waited PROVE run.pc = "command" /\ run.k <= Len(run.laws)
  BY <1>2 DEF Waited, LawsOK
<1>3. CASE ReaderStuck
  <2>1. Outcome("ERROR") /\ Waited /\ UNCHANGED <<file, watcher, meddled, guilty>>
    BY <1>3 DEF ReaderStuck, fileVars
  <2> QED BY <1>2, <2>1, OutcomeStep
<1>4. CASE CommandMutates
  <2>1. Outcome("ERROR") /\ Waited /\ UNCHANGED <<file, watcher, meddled, guilty>>
    BY <1>4 DEF CommandMutates, Joined, fileVars
  <2> QED BY <1>2, <2>1, OutcomeStep
<1>5. CASE CommandFails
  <2>1. Waited /\ UNCHANGED <<file, watcher, meddled, guilty>>
    BY <1>5 DEF CommandFails, Joined, fileVars
  <2>2. PICK o \in {"FAIL", "ERROR"} : Outcome(o) BY <1>5 DEF CommandFails
  <2> QED BY <1>2, <2>1, <2>2, OutcomeStep
<1>6. CASE LastStep
  <2>1. /\ Waited /\ Untouched /\ proc.ok /\ ~proc.timedOut
        /\ UNCHANGED <<file, watcher, meddled>>
    BY <1>6 DEF LastStep, Joined, fileVars
  <2>2. run.pc = "command" /\ run.k <= Len(run.laws) BY <1>2, <2>1
  <2>3. CASE Outcome("PASS") /\ UNCHANGED guilty
    <3>1. ~Marked BY <2>1 DEF Marked, Untouched, Fingerprint
    <3>2. run.k \notin guilty BY <2>2, <3>1 DEF LawsOK
    <3> QED BY <2>1, <2>2, <2>3, <3>2, OutcomeStep
  <2>4. CASE \E o \in {"FAIL", "ERROR"} : Outcome(o) /\ guilty' = guilty \cup {run.k}
    BY <2>1, <2>2, <2>4, OutcomeStep
  <2> QED BY <1>6, <2>3, <2>4 DEF LastStep
<1> QED BY <1>1, <1>3, <1>4, <1>5, <1>6

(* A command starts: the first of a law in a copy whose definition is as   *)
(* it was, the next one in what an innocent one left.                      *)
LEMMA StartStep == ASSUME LawInv, StartCommand PROVE LawInv'
<1> USE DEF LawInv
<1> DEFINE copy == IF run.step = 1 \/ Law.kind = "differential" THEN NoBox ELSE box
<1>1. /\ run.pc = "law" /\ run.k <= Len(run.laws) /\ Law.kind # "file"
      /\ box' = copy /\ run' = [run EXCEPT !.pc = "command", !.box = copy]
      /\ proc' = Popen /\ UNCHANGED <<file, watcher, meddled, guilty>>
  BY DEF StartCommand, Executing, fileVars
<1>2. Law \in Laws BY <1>1, LawIsLaw
<1>3. copy \in Boxes /\ (Law.kind = "command" => copy.law = 0)
  <2>1. NoBox \in Boxes /\ NoBox.law = 0 BY DEF NoBox, Boxes
  <2>2. run.step \in Nat \ {0} /\ box \in Boxes BY DEF RunTypeOK, Runs
  <2>3. CASE run.step = 1 \/ Law.kind = "differential" BY <2>1, <2>3
  <2>4. CASE ~(run.step = 1 \/ Law.kind = "differential")
    <3>1. run.step > 1 /\ Law.kind = "command" BY <1>1, <1>2, <2>2, <2>4 DEF Laws
    <3>2. box.law = 0 BY <1>1, <3>1 DEF LawsOK
    <3> QED BY <2>2, <2>4, <3>2
  <2> QED BY <2>3, <2>4
<1>4. proc' \in Procs /\ proc'.state = "running" /\ ~proc'.timedOut
  BY <1>1 DEF Popen, NoProc, Procs
<1> HIDE DEF copy
<1>5. /\ run' \in Runs /\ run'.pc = "command" /\ run'.laws = run.laws /\ run'.k = run.k
      /\ run'.out = run.out /\ run'.box = copy /\ run'.step = run.step
  <2>1. run' = [pc |-> "command", before |-> run.before, laws |-> run.laws, k |-> run.k,
                step |-> run.step, box |-> copy, out |-> run.out]
    BY <1>1 DEF RunTypeOK, Runs
  <2>2. run' \in Runs BY <1>3, <2>1 DEF RunTypeOK, Runs, RunPCs
  <2> QED BY <2>1, <2>2
<1>6. RunTypeOK' BY <1>1, <1>3, <1>4, <1>5 DEF RunTypeOK
<1>7. WatchOK' BY <1>1, <1>5 DEF WatchOK, Behind
<1>8. Law' = Law BY <1>5 DEF Law
<1>9. Judged(run.k - 1)' /\ (\A i \in guilty : i \in 1..run.k)'
  BY <1>1, <1>5 DEF LawsOK, Judged
<1>10. run'.k \notin guilty' BY <1>1, <1>5 DEF LawsOK
<1>11. LawsOK' BY <1>1, <1>3, <1>5, <1>8, <1>9, <1>10 DEF LawsOK
<1> QED BY <1>6, <1>7, <1>11

LEMMA NextStepStep == ASSUME LawInv, NextStep PROVE LawInv'
<1> USE DEF LawInv
<1>1. /\ run.pc = "command" /\ run.k <= Len(run.laws)
      /\ Untouched /\ proc.ok /\ ~proc.timedOut
      /\ run' = [run EXCEPT !.pc = "law", !.step = run.step + 1]
      /\ proc' = NoProc /\ UNCHANGED <<file, watcher, box, meddled, guilty>>
  BY DEF NextStep, Joined, Waited, fileVars, LawsOK
<1>2. Law \in Laws BY <1>1, LawIsLaw
<1>3. /\ run' \in Runs /\ run'.pc = "law" /\ run'.laws = run.laws /\ run'.k = run.k
      /\ run'.out = run.out
  <2>0. run.step + 1 \in Nat \ {0} BY DEF RunTypeOK, Runs
  <2>1. run' = [pc |-> "law", before |-> run.before, laws |-> run.laws, k |-> run.k,
                step |-> run.step + 1, box |-> run.box, out |-> run.out]
    BY <1>1 DEF RunTypeOK, Runs
  <2>2. run' \in Runs BY <2>0, <2>1 DEF RunTypeOK, Runs, RunPCs
  <2> QED BY <2>1, <2>2
<1>4. proc' \in Procs /\ proc'.state = "none" /\ proc'.child = "none" BY <1>1 DEF NoProc, Procs
<1>5. RunTypeOK' BY <1>1, <1>3, <1>4 DEF RunTypeOK
<1>6. WatchOK' BY <1>1, <1>3 DEF WatchOK, Behind
<1>7. Law' = Law BY <1>3 DEF Law
<1>8. ~Marked BY <1>1 DEF Marked, Untouched, Fingerprint
<1>9. run.k \notin guilty BY <1>1, <1>8 DEF LawsOK
<1>10. Law.kind = "command" => box.law = 0 BY <1>1 DEF Untouched, LawsOK
<1>11. Judged(run.k - 1)' /\ (\A i \in guilty : i \in 1..run.k)'
  BY <1>1, <1>3 DEF LawsOK, Judged
<1>12. LawsOK' BY <1>1, <1>3, <1>4, <1>7, <1>9, <1>10, <1>11 DEF LawsOK
<1> QED BY <1>5, <1>6, <1>12

(* While a command is under way: what it does, and the end of its time.    *)
LEMMA UnderwayStep ==
  ASSUME LawInv, run.pc \in {"command", "kill"}, run' \in Runs, box' \in Boxes, proc' \in Procs,
         run'.pc \in {"command", "kill"}, run'.laws = run.laws, run'.k = run.k,
         run'.out = run.out, run'.box = run.box,
         UNCHANGED <<file, watcher, meddled>>,
         guilty' \in {guilty, guilty \cup {run.k}},
         run.k \in guilty' => Marked'
  PROVE  LawInv'
<1> USE DEF LawInv
<1>1. run.k <= Len(run.laws) /\ (Law.kind = "command" => run.box.law = 0) BY DEF LawsOK
<1>2. run.k \in Nat \ {0} /\ guilty \in SUBSET Nat BY DEF RunTypeOK, Runs
<1>3. RunTypeOK' BY <1>2 DEF RunTypeOK
<1>4. WatchOK' BY DEF WatchOK, Behind
<1>5. Law' = Law BY DEF Law
<1>6. Judged(run.k - 1) /\ \A i \in guilty : i \in 1..run.k BY DEF LawsOK
<1>7. (\A i \in guilty : i \in 1..run.k)' BY <1>2, <1>6
<1>8. Judged(run.k - 1)'
  <2>1. \A i \in 1..(run.k - 1) : i \in guilty' => i \in guilty BY <1>2
  <2> QED BY <1>6, <2>1 DEF Judged
<1>9. LawsOK' BY <1>1, <1>5, <1>7, <1>8 DEF LawsOK
<1> QED BY <1>3, <1>4, <1>9

(* What a command does to its copy and to itself, its exit included.       *)
LEMMA CommandsStep == ASSUME LawInv, Commands PROVE LawInv'
<1> USE DEF LawInv
<1>0. box \in Boxes /\ proc \in Procs /\ run \in Runs BY DEF RunTypeOK
<1>1. ASSUME proc.state = "running"
      PROVE  /\ run.pc \in {"command", "kill"} /\ Law \in Laws
             /\ run.k \in guilty => Marked
  BY <1>1, LawIsLaw DEF LawsOK
<1>2. CASE WritesTree
  <2>1. /\ proc.state = "running" /\ box' = [box EXCEPT !.tree = 1 - box.tree]
        /\ UNCHANGED <<file, run, watcher, proc, meddled, guilty>>
    BY <1>2 DEF WritesTree, fileVars
  <2>2. box' \in Boxes /\ box'.law = box.law BY <1>0, <2>1 DEF Boxes
  <2>3. Law' = Law BY <2>1 DEF Law
  <2>4. Marked => Marked' BY <2>1, <2>2, <2>3 DEF Marked
  <2> QED BY <1>0, <1>1, <2>1, <2>2, <2>4, UnderwayStep
<1>3. CASE WritesLaw
  <2>1. /\ proc.state = "running" /\ box.law = 0 /\ box' = [box EXCEPT !.law = 1]
        /\ guilty' = IF Law.kind = "command" THEN guilty \cup {run.k} ELSE guilty
        /\ UNCHANGED <<file, run, watcher, proc, meddled>>
    BY <1>3 DEF WritesLaw, fileVars
  <2>2. box' \in Boxes /\ box'.law = 1 BY <1>0, <2>1 DEF Boxes
  <2>3. Law' = Law BY <2>1 DEF Law
  <2>4. Law.kind = "command" => run.box.law = 0 BY <1>1, <2>1 DEF LawsOK
  <2>5. Law.kind = "command" => Marked' BY <2>1, <2>2, <2>3, <2>4 DEF Marked
  <2>6. Law.kind # "command" /\ Marked => Marked' BY <2>1, <2>3 DEF Marked
  <2>7. run.k \in guilty' => Marked' BY <1>1, <2>1, <2>5, <2>6
  <2> QED BY <1>0, <1>1, <2>1, <2>2, <2>7, UnderwayStep
<1>4. ASSUME NEW child \in {"piped", "quiet"}, Forks(child) PROVE LawInv'
  <2>1. /\ proc.state = "running" /\ proc' = [proc EXCEPT !.child = child]
        /\ UNCHANGED <<file, run, watcher, box, meddled, guilty>>
    BY <1>4 DEF Forks, fileVars
  <2>2. /\ proc' \in Procs /\ proc'.timedOut = proc.timedOut /\ proc'.state = proc.state
        /\ proc'.ok = proc.ok
    BY <1>0, <2>1 DEF Procs
  <2>3. Law' = Law BY <2>1 DEF Law
  <2>4. Marked => Marked' BY <2>1, <2>2, <2>3 DEF Marked
  <2> QED BY <1>0, <1>1, <2>1, <2>2, <2>4, UnderwayStep
<1>5. ASSUME NEW ok \in BOOLEAN, Exits(ok) PROVE LawInv'
  <2>1. /\ proc.state = "running" /\ proc' = [proc EXCEPT !.state = "exited", !.ok = ok]
        /\ guilty' = IF ok /\ (Law.kind = "command" /\ Law.readOnly => box.tree = run.box.tree)
                       THEN guilty ELSE guilty \cup {run.k}
        /\ UNCHANGED <<file, run, watcher, box, meddled>>
    BY <1>5 DEF Exits, fileVars
  <2>2. /\ proc' \in Procs /\ proc'.timedOut = proc.timedOut /\ proc'.state = "exited"
        /\ proc'.ok = ok
    BY <1>0, <2>1 DEF Procs
  <2>3. Law' = Law BY <2>1 DEF Law
  <2>4. Marked => Marked' BY <2>1, <2>2, <2>3 DEF Marked
  <2>5. ~(ok /\ (Law.kind = "command" /\ Law.readOnly => box.tree = run.box.tree)) => Marked'
    BY <2>1, <2>2, <2>3 DEF Marked
  <2>6. run.k \in guilty' => Marked' BY <1>1, <2>1, <2>4, <2>5
  <2>7. guilty' \in {guilty, guilty \cup {run.k}} BY <2>1
  <2> QED BY <1>0, <1>1, <2>1, <2>2, <2>6, <2>7, UnderwayStep
<1>6. CASE ChildEnds
  <2>1. /\ proc.child # "none" /\ proc' = [proc EXCEPT !.child = "none"]
        /\ UNCHANGED <<file, run, watcher, box, meddled, guilty>>
    BY <1>6 DEF ChildEnds, fileVars
  <2>2. /\ proc' \in Procs /\ proc'.timedOut = proc.timedOut /\ proc'.state = proc.state
        /\ proc'.ok = proc.ok
    BY <1>0, <2>1 DEF Procs
  <2>3. run.pc \in {"command", "kill"} /\ (run.k \in guilty => Marked) BY <2>1 DEF LawsOK
  <2>4. Law' = Law BY <2>1 DEF Law
  <2>5. Marked => Marked' BY <2>1, <2>2, <2>4 DEF Marked
  <2> QED BY <1>0, <2>1, <2>2, <2>3, <2>5, UnderwayStep
<1> QED BY <1>2, <1>3, <1>4, <1>5, <1>6 DEF Commands

(* The command has had its time.                                           *)
LEMMA TimeOutStep == ASSUME LawInv, TimeOut \/ KillTree PROVE LawInv'
<1> USE DEF LawInv
<1>0. box \in Boxes /\ proc \in Procs BY DEF RunTypeOK
<1>1. CASE TimeOut
  <2>1. /\ run.pc = "command" /\ proc' = [proc EXCEPT !.timedOut = TRUE]
        /\ guilty' = guilty \cup {run.k} /\ UNCHANGED <<file, watcher, box, meddled>>
    BY <1>1 DEF TimeOut, fileVars
  <2>2. proc' \in Procs /\ proc'.timedOut = TRUE BY <1>0, <2>1 DEF Procs
  <2>3. /\ run' \in Runs /\ run'.pc = "kill" /\ run'.laws = run.laws /\ run'.k = run.k
        /\ run'.out = run.out /\ run'.box = run.box
    BY <1>1, GotoIs DEF TimeOut, RunPCs
  <2>4. Marked' BY <2>2 DEF Marked
  <2> QED BY <1>0, <2>1, <2>2, <2>3, <2>4, UnderwayStep
<1>2. CASE KillTree
  <2>1. /\ run.pc = "kill" /\ UNCHANGED <<file, watcher, box, meddled, guilty>>
        /\ proc' = IF proc.state = "exited" THEN proc
                   ELSE [proc EXCEPT !.state = "exited", !.child = "none"]
    BY <1>2 DEF KillTree, fileVars
  <2>2. proc' \in Procs /\ proc'.timedOut = proc.timedOut /\ proc'.ok = proc.ok
    BY <1>0, <2>1 DEF Procs
  <2>3. /\ run' \in Runs /\ run'.pc = "command" /\ run'.laws = run.laws /\ run'.k = run.k
        /\ run'.out = run.out /\ run'.box = run.box
    BY <1>2, GotoIs DEF KillTree, RunPCs
  <2>4. proc'.state = "exited" BY <1>0, <2>1 DEF Procs
  <2>5. Law' = Law BY <2>3 DEF Law
  <2>6. Marked => Marked' BY <2>1, <2>2, <2>3, <2>4, <2>5 DEF Marked
  <2>7. run.k \in guilty => Marked BY <2>1 DEF LawsOK
  <2> QED BY <1>0, <2>1, <2>2, <2>3, <2>6, <2>7, UnderwayStep
<1> QED BY <1>1, <1>2

(* The watcher sees a change.                                              *)
LEMMA PollStep == ASSUME LawInv, Poll PROVE LawInv'
<1> USE DEF LawInv
<1>1. /\ watcher.on /\ watcher' = [watcher EXCEPT !.changed = TRUE]
      /\ UNCHANGED <<file, run, box, proc, meddled, guilty>>
  BY DEF Poll, fileVars
<1>2. /\ watcher' \in Watchers /\ watcher'.on = watcher.on /\ watcher'.first = watcher.first
      /\ watcher'.changed = TRUE
  BY <1>1 DEF RunTypeOK, Watchers
<1>3. RunTypeOK' BY <1>1, <1>2 DEF RunTypeOK
<1>4. WatchOK' BY <1>1, <1>2 DEF WatchOK, Behind, HardFailure
<1>5. LawsOK' BY <1>1 DEF LawsOK, Judged, Marked, Law, HardFailure
<1> QED BY <1>3, <1>4, <1>5

(* After the last law: the watcher's last look, the digests, the report.   *)
LEMMA AfterLawsStep ==
  ASSUME FilesOK, LawInv, Unwatch \/ Recheck \/ Report PROVE LawInv'
<1> USE DEF LawInv
<1>0. Len(run.out) \in Nat /\ Len(run.laws) \in Nat /\ run.k \in Nat \ {0}
  BY LenProperties DEF RunTypeOK, Runs
<1>1. CASE Unwatch
  <2>1. /\ run.pc = "law" /\ run.k > Len(run.laws)
        /\ watcher' = [watcher EXCEPT !.on = FALSE,
                         !.changed = watcher.changed \/ Snapshot # watcher.first]
        /\ UNCHANGED <<file, box, proc, meddled, guilty>>
    BY <1>1 DEF Unwatch, fileVars
  <2>2. /\ run' \in Runs /\ run'.pc = "recheck" /\ run'.laws = run.laws /\ run'.out = run.out
    BY <1>1, GotoIs DEF Unwatch, RunPCs
  <2>3. watcher.changed \in BOOLEAN /\ watcher.on \in BOOLEAN BY DEF RunTypeOK, Watchers
  <2> DEFINE saw == watcher.changed \/ Snapshot # watcher.first
  <2>4. saw \in BOOLEAN BY <2>3
  <2>5. watcher' = [watcher EXCEPT !.on = FALSE, !.changed = saw] BY <2>1
  <2>6. meddled => saw
    <3>1. SUFFICES ASSUME meddled PROVE Snapshot # watcher.first OBVIOUS
    <3>2. watcher.on BY <2>1 DEF WatchOK
    <3>3. PICK f \in {Definition, Test} : Behind(f) BY <3>1, <3>2 DEF WatchOK
    <3>4. Snapshot[f] = file[f] BY DEF Snapshot
    <3>5. file[f].stat \in Nat /\ watcher.first[f].stat < file[f].stat
      BY <3>3, LawAssumption DEF Behind, FilesOK, Snapshots
    <3>6. watcher.first[f].stat \in Nat
      BY <3>3, LawAssumption DEF RunTypeOK, Watchers, Firsts, Snapshots
    <3> QED BY <3>4, <3>5, <3>6
  <2> HIDE DEF saw
  <2>7. watcher' = [on |-> FALSE, first |-> watcher.first, changed |-> saw]
    BY <2>5 DEF RunTypeOK, Watchers
  <2>8. watcher' \in Watchers BY <2>4, <2>7 DEF RunTypeOK, Watchers
  <2>9. watcher'.on = FALSE /\ watcher'.changed = saw BY <2>7
  <2>10. RunTypeOK' BY <2>1, <2>2, <2>8 DEF RunTypeOK
  <2>11. WatchOK' BY <2>1, <2>2, <2>6, <2>9 DEF WatchOK
  <2>12. Judged(run.k - 1) /\ (\A i \in guilty : i \in 1..run.k) /\ run.k \notin guilty
    BY <2>1 DEF LawsOK
  <2>13. run.k - 1 = Len(run.laws) BY <1>0, <2>1, <2>12 DEF Judged
  <2>14. guilty \subseteq 1..Len(run.laws) BY <1>0, <2>12, <2>13
  <2>15. Judged(Len(run.laws))' BY <2>1, <2>2, <2>12, <2>13 DEF Judged
  <2>16. proc.state # "running" /\ proc.child = "none" BY <2>1 DEF LawsOK
  <2>17. LawsOK' BY <2>1, <2>2, <2>14, <2>15, <2>16 DEF LawsOK
  <2> QED BY <2>10, <2>11, <2>17
<1>2. CASE Recheck
  <2> DEFINE v == [hard |-> TRUE, outcome |-> "FAIL"]
             out == IF ChangedDuringRun THEN Append(run.out, v) ELSE run.out
  <2>1. /\ run.pc = "recheck" /\ UNCHANGED <<watcher, box, proc, meddled, guilty>>
        /\ run' = [run EXCEPT !.pc = "report", !.out = out]
    BY <1>2 DEF Recheck
  <2>2. v \in Verdicts /\ run.out \in Seq(Verdicts) BY DEF Verdicts, RunTypeOK, Runs
  <2>3. out \in Seq(Verdicts) BY <2>2, AppendProperties
  <2> HIDE DEF out
  <2>4. run' = [pc |-> "report", before |-> run.before, laws |-> run.laws, k |-> run.k,
                step |-> run.step, box |-> run.box, out |-> out]
    BY <2>1 DEF RunTypeOK, Runs
  <2>5. run' \in Runs BY <2>3, <2>4 DEF RunTypeOK, Runs, RunPCs
  <2>6. run'.pc = "report" /\ run'.laws = run.laws /\ run'.out = out BY <2>4
  <2>7. ChangedDuringRun => HardFailure'
    <3>1. SUFFICES ASSUME ChangedDuringRun PROVE HardFailure' OBVIOUS
    <3>2. run'.out = Append(run.out, v) BY <2>6, <3>1 DEF out
    <3>3. Len(run'.out) = Len(run.out) + 1 /\ run'.out[Len(run.out) + 1] = v
      BY <2>2, <3>2, AppendProperties
    <3>4. Len(run.out) + 1 \in DOMAIN run'.out BY <1>0, <2>5, <3>3 DEF Runs
    <3> QED BY <3>3, <3>4 DEF HardFailure
  <2>8. ~ChangedDuringRun => run'.out = run.out BY <2>6 DEF out
  <2>9. RunTypeOK' BY <2>1, <2>5 DEF RunTypeOK
  <2>10. WatchOK'
    <3>1. ~watcher.on /\ (meddled => watcher.changed) BY <2>1 DEF WatchOK
    <3> QED BY <2>1, <2>6, <2>7, <3>1 DEF WatchOK, ChangedDuringRun
  <2>11. Judged(Len(run.laws)) /\ guilty \subseteq 1..Len(run.laws) BY <2>1 DEF LawsOK
  <2>12. ~ChangedDuringRun => Judged(Len(run.laws))'
    BY <2>1, <2>6, <2>8, <2>11 DEF Judged
  <2>13. LawsOK' BY <2>1, <2>6, <2>7, <2>11, <2>12 DEF LawsOK
  <2> QED BY <2>9, <2>10, <2>13
<1>3. CASE Report
  <2>1. run.pc = "report" /\ UNCHANGED <<file, watcher, box, proc, meddled, guilty>>
    BY <1>3 DEF Report, fileVars
  <2>2. PICK pc \in {"failed", "passed"} : pc = IF HardFailure THEN "failed" ELSE "passed"
    OBVIOUS
  <2>3. /\ run' \in Runs /\ run'.pc = pc /\ run'.laws = run.laws /\ run'.out = run.out
    BY <1>3, <2>2, GotoIs DEF Report, RunPCs
  <2>4. HardFailure' = HardFailure BY <2>3 DEF HardFailure
  <2>5. RunTypeOK' BY <2>1, <2>3 DEF RunTypeOK
  <2>6. WatchOK' BY <2>1, <2>2, <2>3, <2>4 DEF WatchOK
  <2>7. Judged(Len(run.laws))' <=> Judged(Len(run.laws)) BY <2>1, <2>3 DEF Judged
  <2>8. LawsOK' BY <2>1, <2>2, <2>3, <2>4, <2>7 DEF LawsOK
  <2> QED BY <2>5, <2>6, <2>8
<1> QED BY <1>1, <1>2, <1>3

(* Somebody edits a file: behind the watcher's back it cannot be.          *)
LEMMA EditLawStep ==
  ASSUME FilesOK, FilesOK', Later, LawInv, NEW f \in Files, NEW c \in Contents,
         Edit(f, c), EditWhileRun(f)
  PROVE  LawInv'
<1> USE DEF LawInv
<1>1. /\ meddled' = (meddled \/ (watcher.on /\ f \in {Definition, Test}))
      /\ UNCHANGED <<run, watcher, box, proc, guilty>>
  BY DEF EditWhileRun
<1>2. file[f].stat < file'[f].stat BY EditIs, ChangeIsLater
<1>3. \A h \in {Definition, Test} :
         /\ file[h].stat \in Nat /\ file'[h].stat \in Nat /\ file[h].stat <= file'[h].stat
         /\ watcher.first[h].stat \in Nat
  <2> SUFFICES ASSUME NEW h \in {Definition, Test}
               PROVE  /\ file[h].stat \in Nat /\ file'[h].stat \in Nat
                      /\ file[h].stat <= file'[h].stat /\ watcher.first[h].stat \in Nat
    OBVIOUS
  <2>1. h \in Files BY LawAssumption
  <2>2. file[h].stat \in Nat /\ file'[h].stat \in Nat BY <2>1 DEF FilesOK, Snapshots
  <2>3. file[h].stat <= file'[h].stat BY <2>1, <2>2 DEF Later
  <2>4. watcher.first[h] \in Snapshots BY <2>1 DEF RunTypeOK, Watchers, Firsts
  <2> QED BY <2>2, <2>3, <2>4 DEF Snapshots
<1>4. meddled \in BOOLEAN /\ watcher.on \in BOOLEAN BY DEF RunTypeOK, Watchers
<1>5. RunTypeOK' BY <1>1, <1>4 DEF RunTypeOK
<1>6. HardFailure' = HardFailure BY <1>1 DEF HardFailure
<1>7. ~watcher.on => meddled' = meddled BY <1>1, <1>4
<1>8. watcher.on => \A h \in {Definition, Test} : watcher.first[h].stat <= file'[h].stat
  BY <1>3 DEF WatchOK
<1>9. watcher.on /\ meddled' => \E h \in {Definition, Test} : Behind(h)'
  <2>1. SUFFICES ASSUME watcher.on, meddled' PROVE \E h \in {Definition, Test} : Behind(h)'
    OBVIOUS
  <2>2. CASE meddled
    <3>1. PICK h \in {Definition, Test} : Behind(h) BY <2>1, <2>2 DEF WatchOK
    <3> QED BY <1>1, <1>3, <3>1 DEF Behind
  <2>3. CASE ~meddled
    <3>1. f \in {Definition, Test} BY <1>1, <2>1, <2>3
    <3>2. watcher.first[f].stat <= file[f].stat BY <2>1, <3>1 DEF WatchOK
    <3> QED BY <1>1, <1>2, <1>3, <3>1, <3>2 DEF Behind
  <2> QED BY <2>2, <2>3
<1>10. WatchOK' BY <1>1, <1>6, <1>7, <1>8, <1>9 DEF WatchOK
<1>11. LawsOK' BY <1>1, <1>6 DEF LawsOK, Judged, Marked, Law
<1> QED BY <1>5, <1>10, <1>11

(* A law run keeps what is said of it, whatever is edited meanwhile.       *)
LEMMA LawInvStep ==
  ASSUME FilesOK, FilesOK', Later, LawInv, [Next]_vars PROVE LawInv'
<1>1. CASE LawNext
  BY <1>1, BeforeLawsStep, VerdictStep, StartStep, NextStepStep, CommandsStep, TimeOutStep,
     PollStep, AfterLawsStep
  DEF LawNext
<1>2. CASE SomebodyEdits BY <1>2, EditLawStep DEF SomebodyEdits
<1>3. CASE UNCHANGED <<fileVars, lawVars>>
  <2>1. UNCHANGED <<file, run, watcher, box, proc, meddled, guilty>>
    BY <1>3 DEF fileVars, lawVars
  <2>2. RunTypeOK' BY <2>1 DEF LawInv, RunTypeOK
  <2>3. WatchOK' BY <2>1 DEF LawInv, WatchOK, Behind, HardFailure
  <2>4. LawsOK' BY <2>1 DEF LawInv, LawsOK, Judged, Marked, Law, HardFailure
  <2> QED BY <2>2, <2>3, <2>4 DEF LawInv
<1> QED BY <1>1, <1>2, <1>3 DEF Next, RunLaws, UseLedger, vars

LEMMA LawInvInit == Init => FilesOK /\ LawInv
<1> SUFFICES ASSUME Init PROVE FilesOK /\ LawInv OBVIOUS
<1>1. FilesOK /\ RunTypeOK BY LawTypesInit
<1>2. /\ run = [pc |-> "idle", before |-> Missing, laws |-> <<>>, k |-> 1, step |-> 1,
                box |-> NoBox, out |-> <<>>]
      /\ watcher = NoWatch /\ proc = NoProc /\ meddled = FALSE /\ guilty = {}
  BY DEF Init, LawInit
<1>3. /\ run.pc = "idle" /\ run.k = 1 /\ run.step = 1 /\ run.out = <<>>
      /\ ~watcher.on /\ proc.state = "none" /\ proc.child = "none"
  BY <1>2 DEF NoWatch, NoProc
<1>4. WatchOK BY <1>2, <1>3 DEF WatchOK
<1>5. LawsOK BY <1>2, <1>3 DEF LawsOK
<1> QED BY <1>1, <1>4, <1>5 DEF LawInv

(* The part of the invariant that is about the law runner.                 *)
LEMMA AlwaysLawInv == Spec => [](FilesOK /\ LawInv)
<1>1. FilesOK /\ LawInv /\ [Next]_vars => (FilesOK /\ LawInv)'
  BY FilesStep, LawInvStep
<1> QED BY <1>1, LawInvInit, PTL DEF Spec

(* A law run passes only if nobody edited the definitions while it watched *)
(* them, even if the original bytes are back (laws.py:73-96, :342-371).    *)
THEOREM ChangesAreNoticed == Spec => []NoSilentChange
<1>1. LawInv => NoSilentChange BY DEF LawInv, WatchOK, NoSilentChange
<1> QED BY <1>1, AlwaysLawInv, PTL

(* A law run passes only with a verdict on every law, and no command of a  *)
(* hard law timed out, exited otherwise than the law expects, or touched   *)
(* what it must leave alone (laws.py:411-435, :443-522).                   *)
THEOREM PassesAreEarned == Spec => []PassIsEarned
<1>1. LawInv => PassIsEarned
  <2> SUFFICES ASSUME LawInv, run.pc = "passed"
               PROVE  /\ Len(run.out) = Len(run.laws)
                      /\ \A k \in guilty : ~run.laws[k].hard
    BY DEF PassIsEarned
  <2>1. ~HardFailure /\ Judged(Len(run.laws)) /\ guilty \subseteq 1..Len(run.laws)
    BY DEF LawInv, LawsOK
  <2>2. Len(run.out) = Len(run.laws) BY <2>1 DEF Judged
  <2>3. DOMAIN run.out = 1..Len(run.laws) BY <2>2 DEF LawInv, RunTypeOK, Runs
  <2>4. \A k \in guilty : k \in DOMAIN run.out /\ run.out[k].outcome # "PASS"
                          /\ run.out[k].hard = run.laws[k].hard
    BY <2>1, <2>3 DEF Judged
  <2> QED BY <2>1, <2>2, <2>4 DEF HardFailure
<1> QED BY <1>1, AlwaysLawInv, PTL

(***************************************************************************)
(* The context ledger: what was hashed.                                    *)
(***************************************************************************)

LEMMA NothingHashed == <<>> \in Entries /\ DOMAIN <<>> = {} /\ HonestAll(<<>>)
<1>1. <<>> \in Seq(Snapshots) /\ Len(<<>>) = 0 BY EmptySeq
<1>2. PICK n \in Nat : <<>> \in [1..n -> Snapshots] BY <1>1, SeqDef
<1>3. DOMAIN <<>> = 1..0 OBVIOUS
<1>4. 1..0 = {} OBVIOUS
<1>5. <<>> \in [{} -> Snapshots] BY <1>2, <1>3, <1>4
<1>6. {} \in SUBSET {Dependency, Path} OBVIOUS
<1> QED BY <1>3, <1>4, <1>5, <1>6 DEF Entries, HonestAll

LEMMA IdleIsRec ==
  /\ Idle \in Recs /\ Idle.pc = "idle" /\ NoCheck \in Checks /\ NoCheck.pc = "idle"
  /\ Idle = [pc |-> "idle", key |-> None, tries |-> 0, look |-> None, got |-> <<>>,
             data |-> None]
BY NothingHashed DEF Idle, Recs, RecPCs, NoCheck, Checks

LEMMA LedgerInvInit == Init => LedgerInv
<1> SUFFICES ASSUME Init PROVE LedgerInv OBVIOUS
<1>1. /\ ledger = [k \in Keys |-> None] /\ rec = [r \in Recorders |-> Idle]
      /\ check = NoCheck
  BY DEF Init, LedgerInit
<1>2. LedgerTypeOK BY <1>1, IdleIsRec DEF LedgerTypeOK, Ledgers
<1>3. LedgerOK BY <1>1 DEF LedgerOK, Keys
<1>4. \A r \in Recorders : RecOK(r) BY <1>1, IdleIsRec DEF RecOK, Hashing
<1>5. CheckOK BY <1>1, IdleIsRec DEF CheckOK, FreshWasCurrent
<1> QED BY <1>2, <1>3, <1>4, <1>5 DEF LedgerInv

(* Honest entries stay so while files change.                              *)
LEMMA HonestAllStays ==
  ASSUME FilesOK, FilesOK', Later, NEW got, HonestAll(got)
  PROVE  \A f \in {Dependency, Path} : f \in DOMAIN got => Honest(got[f], file'[f])
BY LedgerAssumption, HonestStays DEF HonestAll

(* The ledger is used by nobody, and a file may change.                    *)
LEMMA FilesMove ==
  ASSUME FilesOK, FilesOK', Later, LedgerInv, UNCHANGED <<ledger, holder, rec, check>>,
         span \subseteq span', check.pc = "answer" => span' = span,
         check.pc \in {"stat", "deps", "hash"} => Now' \in span'
  PROVE  LedgerInv'
<1> USE DEF LedgerInv
<1>1. LedgerTypeOK' BY DEF LedgerTypeOK
<1>2. \A got : HonestAll(got) => \A f \in {Dependency, Path} :
                                    f \in DOMAIN got => Honest(got[f], file'[f])
  BY HonestAllStays
<1>3. LedgerOK' BY <1>2 DEF LedgerOK, Complete, HonestAll
<1>4. ASSUME NEW r \in Recorders PROVE RecOK(r)'
  <2>1. RecOK(r) OBVIOUS
  <2> QED BY <1>2, <2>1 DEF RecOK, HonestAll
<1>5. CheckOK'
  <2>1. check.pc # "idle" => Complete(check.entry)' BY <1>2 DEF CheckOK, Complete, HonestAll
  <2>2. FreshWasCurrent' BY DEF CheckOK, FreshWasCurrent
  <2> QED BY <2>1, <2>2 DEF CheckOK
<1> QED BY <1>1, <1>3, <1>4, <1>5

(***************************************************************************)
(* The context ledger: recording.                                          *)
(***************************************************************************)

(* A step of r that moves the lock only if nobody else holds it, and       *)
(* writes the ledger only under it, leaves the others what they have.      *)
LEMMA OthersKeep ==
  ASSUME LedgerInv, NEW r \in Recorders, NEW new, rec' = [rec EXCEPT ![r] = new],
         UNCHANGED file, holder' = holder \/ holder \in {None, r},
         ledger' = ledger \/ holder = r,
         NEW q \in Recorders, q # r
  PROVE  RecOK(q)'
<1>1. RecOK(q) /\ rec'[q] = rec[q] BY DEF LedgerInv, LedgerTypeOK
<1>2. None \notin Recorders BY LedgerAssumption
<1>3. rec[q].pc \in {"path2", "dep2", "load", "save"} =>
         holder' = holder /\ ledger' = ledger
  BY <1>1, <1>2 DEF RecOK
<1> QED BY <1>1, <1>3 DEF RecOK, HonestAll

(* What is left of the invariant when r moves on.                          *)
LEMMA RecorderMoves ==
  ASSUME LedgerInv, NEW r \in Recorders, NEW new \in Recs, rec' = [rec EXCEPT ![r] = new],
         UNCHANGED <<file, check, span>>, holder' = holder \/ holder \in {None, r},
         ledger' = ledger \/ holder = r, ledger' \in Ledgers, LedgerOK',
         rec'[r] = new => RecOK(r)'
  PROVE  LedgerInv'
<1> USE DEF LedgerInv
<1>1. rec'[r] = new /\ rec' \in [Recorders -> Recs] BY DEF LedgerTypeOK
<1>2. LedgerTypeOK' BY <1>1 DEF LedgerTypeOK
<1>3. \A q \in Recorders : RecOK(q)' BY <1>1, OthersKeep
<1>4. CheckOK'
  <2>1. check.pc # "idle" => Complete(check.entry)' BY DEF CheckOK, Complete, HonestAll
  <2>2. Now' = Now /\ FreshWasCurrent' BY DEF Now, CheckOK, FreshWasCurrent
  <2> QED BY <2>1, <2>2 DEF CheckOK
<1> QED BY <1>2, <1>3, <1>4

(* Somebody starts to record.                                              *)
LEMMA BeginStep ==
  ASSUME LedgerInv, NEW r \in Recorders, UNCHANGED file,
         RecordFile(r) \/ RecordExternal(r) \/ RecordLogSummary(r)
  PROVE  LedgerInv'
<1>1. PICK key \in Keys, pc \in {"dep1", "lock"} :
        /\ rec' = [rec EXCEPT ![r] = [Idle EXCEPT !.pc = pc, !.key = key]]
        /\ (key = Path) <=> (pc = "dep1")
  <2>1. Path # External /\ Path # Summary BY LedgerAssumption
  <2> QED BY <2>1 DEF RecordFile, RecordExternal, RecordLogSummary, Keys
<1> DEFINE new == [pc |-> pc, key |-> key, tries |-> 0, look |-> None,
                   got |-> <<>>, data |-> None]
<1>2. [Idle EXCEPT !.pc = pc, !.key = key] = new
  <2>1. PICK begun : begun = [Idle EXCEPT !.pc = pc, !.key = key] OBVIOUS
  <2>2. begun = new BY <2>1 DEF Idle
  <2> QED BY <2>1, <2>2
<1>3. rec' = [rec EXCEPT ![r] = new] BY <1>1, <1>2
<1>4. new \in Recs BY NothingHashed DEF Recs, RecPCs
<1>5. UNCHANGED <<ledger, holder, check, span>>
  BY DEF RecordFile, RecordExternal, RecordLogSummary
<1>6. new.pc = pc /\ new.key = key /\ new.got = <<>> OBVIOUS
<1> HIDE DEF new
<1>7. rec'[r] = new => RecOK(r)'
  <2>1. SUFFICES ASSUME rec'[r] = new PROVE RecOK(r)' OBVIOUS
  <2>2. HonestAll(<<>>)' BY NothingHashed DEF HonestAll
  <2>3. rec'[r].pc = pc /\ rec'[r].key = key /\ rec'[r].got = <<>> BY <1>6, <2>1
  <2>4. pc \in DOMAIN Hashing => key = Path BY <1>1 DEF Hashing
  <2>5. key = Path => pc = "dep1" /\ Hashed(pc) = {} BY <1>1 DEF Hashed
  <2>6. HonestAll(rec[r].got)' BY <2>2, <2>3 DEF HonestAll
  <2> QED BY <1>1, <2>3, <2>4, <2>5, <2>6, NothingHashed DEF RecOK
<1>8. LedgerOK' /\ ledger' \in Ledgers
  BY <1>5 DEF LedgerInv, LedgerTypeOK, LedgerOK, Complete, HonestAll
<1> QED BY <1>3, <1>4, <1>5, <1>7, <1>8, RecorderMoves

(* A file could not be hashed: the lock, if r has it, is released.         *)
LEMMA FailsStep ==
  ASSUME LedgerInv, NEW r \in Recorders, UNCHANGED <<file, ledger, check, span>>, Fails(r)
  PROVE  LedgerInv'
<1>1. rec' = [rec EXCEPT ![r] = Idle] /\ (holder' = holder \/ holder \in {None, r})
  BY DEF Fails, Released
<1>2. rec'[r] = Idle => RecOK(r)' BY IdleIsRec DEF RecOK, Hashing
<1>3. LedgerOK' /\ ledger' \in Ledgers
  BY DEF LedgerInv, LedgerTypeOK, LedgerOK, Complete, HonestAll
<1> QED BY <1>1, <1>2, <1>3, IdleIsRec, RecorderMoves

(* Where files are hashed, and what is to be hashed there.                 *)
LEMMA HashingIs ==
  /\ DOMAIN Hashing = {"dep1", "path1", "path2", "dep2"}
  /\ \A pc \in DOMAIN Hashing : Hashing[pc] \in {Dependency, Path} /\ Hashing[pc] \in Files
  /\ \A pc \in DOMAIN Hashing :
       /\ AfterHash[pc] \in RecPCs \ {"idle", "save"}
       /\ Hashed(AfterHash[pc]) = Hashed(pc) \cup {Hashing[pc]}
       /\ AfterHash[pc] \in {"path2", "dep2", "load"} => pc \in {"path2", "dep2"}
       /\ AfterHash[pc] # "path2"
  /\ Dependency # Path /\ Dependency \in Files /\ Path \in Files
<1>1. Dependency # Path /\ Dependency \in Files /\ Path \in Files BY LedgerAssumption
<1>2. DOMAIN Hashing = {"dep1", "path1", "path2", "dep2"} BY DEF Hashing
<1>3. /\ Hashing["dep1"] = Dependency /\ Hashing["path1"] = Path
      /\ Hashing["path2"] = Path /\ Hashing["dep2"] = Dependency
  BY DEF Hashing
<1>4. /\ AfterHash["dep1"] = "path1" /\ AfterHash["path1"] = "lock"
      /\ AfterHash["path2"] = "dep2" /\ AfterHash["dep2"] = "load"
  BY DEF AfterHash
<1> QED BY <1>1, <1>2, <1>3, <1>4 DEF Hashed, RecPCs

LEMMA LookStep ==
  ASSUME FilesOK, LedgerInv, NEW r \in Recorders, UNCHANGED file, Look(r) PROVE LedgerInv'
<1>1. PICK f \in Files : f = Hashing[rec[r].pc]
  BY HashingIs DEF Look
<1>2. UNCHANGED <<ledger, check, span>> BY DEF Look
<1>3. CASE Fails(r) BY <1>2, <1>3, FailsStep
<1>4. CASE rec' = [rec EXCEPT ![r].look = file[f]] /\ UNCHANGED holder
  <2> DEFINE new == [rec[r] EXCEPT !.look = file[f]]
  <2>1. rec[r] \in Recs /\ file[f] \in Snapshots BY DEF LedgerInv, LedgerTypeOK, FilesOK
  <2>2. rec' = [rec EXCEPT ![r] = new] BY <1>4
  <2>3. /\ new \in Recs /\ new.pc = rec[r].pc /\ new.key = rec[r].key /\ new.got = rec[r].got
        /\ new.data = rec[r].data
    BY <2>1 DEF Recs
  <2> HIDE DEF new
  <2>4. RecOK(r) BY DEF LedgerInv
  <2>5. rec'[r] = new => RecOK(r)'
    BY <1>2, <1>4, <2>3, <2>4 DEF RecOK, HonestAll
  <2>6. LedgerOK' /\ ledger' \in Ledgers
    BY <1>2 DEF LedgerInv, LedgerTypeOK, LedgerOK, Complete, HonestAll
  <2> QED BY <1>2, <1>4, <2>2, <2>3, <2>5, <2>6, RecorderMoves
<1> QED BY <1>1, <1>3, <1>4 DEF Look

(* A file that did not change between two looks is noted as it is.         *)
LEMMA ConfirmStep ==
  ASSUME FilesOK, LedgerInv, NEW r \in Recorders, UNCHANGED file, Confirm(r) PROVE LedgerInv'
<1> DEFINE old == rec[r]
<1>1. PICK f \in Files : f = Hashing[old.pc] /\ f \in {Dependency, Path}
  BY HashingIs DEF Confirm
<1>2. UNCHANGED <<ledger, check, span>> /\ old.pc \in DOMAIN Hashing /\ old.look # None
  BY DEF Confirm
<1>3. old \in Recs /\ RecOK(r) BY DEF LedgerInv, LedgerTypeOK
<1>4. LedgerOK' /\ ledger' \in Ledgers
  BY <1>2 DEF LedgerInv, LedgerTypeOK, LedgerOK, Complete, HonestAll
<1>5. CASE Fails(r) BY <1>2, <1>5, FailsStep
<1>6. CASE /\ rec' = [rec EXCEPT ![r].look = None, ![r].tries = old.tries + 1]
           /\ UNCHANGED holder
  <2> DEFINE new == [pc |-> old.pc, key |-> old.key, tries |-> old.tries + 1, look |-> None,
                     got |-> old.got, data |-> old.data]
  <2>1. new \in Recs BY <1>3 DEF Recs
  <2>2. rec' = [rec EXCEPT ![r] = new]
    BY <1>3, <1>6 DEF Recs, LedgerInv, LedgerTypeOK
  <2>3. /\ new.pc = rec[r].pc /\ new.key = rec[r].key /\ new.got = rec[r].got
        /\ new.data = rec[r].data
    OBVIOUS
  <2> HIDE DEF new
  <2>4. rec'[r] = new => RecOK(r)'
    BY <1>2, <1>3, <1>6, <2>3 DEF RecOK, HonestAll
  <2> QED BY <1>2, <1>4, <1>6, <2>1, <2>2, <2>4, RecorderMoves
<1>7. CASE /\ Stable(old.look, file[f]) /\ UNCHANGED holder
           /\ rec' = [rec EXCEPT ![r].pc = AfterHash[old.pc], ![r].look = None, ![r].tries = 0,
                        ![r].got = [x \in DOMAIN old.got \cup {f} |->
                                      IF x = f THEN [old.look EXCEPT !.stat = file[f].stat]
                                      ELSE old.got[x]]]
  <2> DEFINE got == [x \in DOMAIN old.got \cup {f} |-> IF x = f THEN file[f] ELSE old.got[x]]
             new == [pc |-> AfterHash[old.pc], key |-> old.key, tries |-> 0, look |-> None,
                     got |-> got, data |-> old.data]
  <2>1. old.look = file[f] /\ file[f] \in Snapshots BY <1>7 DEF Stable, FilesOK
  <2>2. [old.look EXCEPT !.stat = file[f].stat] = file[f] BY <2>1 DEF Snapshots
  <2>3. old.got \in Entries BY <1>3 DEF Recs
  <2>4. PICK D \in SUBSET {Dependency, Path} : old.got \in [D -> Snapshots]
    BY <2>3 DEF Entries
  <2>5. got \in [D \cup {f} -> Snapshots] /\ D \cup {f} \in SUBSET {Dependency, Path}
    BY <1>1, <2>1, <2>4
  <2>6. got \in Entries BY <2>5 DEF Entries
  <2>7. AfterHash[old.pc] \in RecPCs \ {"idle", "save"} BY <1>2, HashingIs
  <2>8. rec' = [rec EXCEPT ![r].pc = AfterHash[old.pc], ![r].look = None, ![r].tries = 0,
                           ![r].got = got]
    BY <1>7, <2>2
  <2>9. /\ DOMAIN got = DOMAIN old.got \cup {f} /\ got[f] = file[f]
        /\ \A x \in DOMAIN old.got : x # f => got[x] = old.got[x]
    OBVIOUS
  <2> HIDE DEF got
  <2>10. new \in Recs BY <1>3, <2>6, <2>7 DEF Recs
  <2>11. rec' = [rec EXCEPT ![r] = new]
    <3>1. rec \in [Recorders -> Recs] BY DEF LedgerInv, LedgerTypeOK
    <3>2. PICK pc : pc = AfterHash[old.pc] OBVIOUS
    <3>3. rec' = [rec EXCEPT ![r].pc = pc, ![r].look = None, ![r].tries = 0, ![r].got = got]
      BY <2>8, <3>2
    <3>4. PICK n : n = rec'[r] OBVIOUS
    <3>5. PICK o \in Recs : o = rec[r] BY <3>1
    <3>6. n = [o EXCEPT !.pc = pc, !.look = None, !.tries = 0, !.got = got]
      BY <3>1, <3>3, <3>4, <3>5
    <3>7. n = [pc |-> pc, key |-> o.key, tries |-> 0, look |-> None, got |-> got,
               data |-> o.data]
      BY <3>6 DEF Recs
    <3>8. rec' = [rec EXCEPT ![r] = rec'[r]] BY <3>1, <3>3
    <3> QED BY <3>2, <3>4, <3>5, <3>7, <3>8
  <2>12. /\ new.pc = AfterHash[old.pc] /\ new.key = old.key /\ new.got = got
    OBVIOUS
  <2> HIDE DEF new
  <2>13. HonestAll(got)
    <3>1. HonestAll(old.got) BY <1>2, <1>3, HashingIs DEF RecOK
    <3>2. Honest(file[f], file[f]) BY <2>1 DEF Honest, Snapshots
    <3> QED BY <2>9, <3>1, <3>2 DEF HonestAll
  <2>14. /\ old.key = Path /\ DOMAIN got = Hashed(AfterHash[old.pc])
    BY <1>1, <1>2, <1>3, <2>9, HashingIs DEF RecOK
  <2>15. AfterHash[old.pc] \in {"path2", "dep2", "load", "save"} => holder = r
    BY <1>2, <1>3, <2>7, HashingIs DEF RecOK
  <2>16. rec'[r] = new => RecOK(r)'
    <3>1. SUFFICES ASSUME rec'[r] = new PROVE RecOK(r)' OBVIOUS
    <3>2. HonestAll(got)' <=> (\A x \in {Dependency, Path} :
                                  x \in DOMAIN got' => Honest(got'[x], file[x]))
      BY DEF HonestAll
    <3>3. \A x \in {Dependency, Path} : x \in DOMAIN got => Honest(got[x], file[x])
      BY <2>13 DEF HonestAll
    <3>4. /\ rec'[r].pc = AfterHash[old.pc] /\ rec'[r].key = Path /\ rec'[r].got = got
      BY <2>12, <2>14, <3>1
    <3>5. HonestAll(rec[r].got)' BY <3>3, <3>4 DEF HonestAll
    <3> QED BY <1>7, <2>7, <2>14, <2>15, <3>4, <3>5 DEF RecOK, Keys
  <2> QED BY <1>2, <1>4, <1>7, <2>10, <2>11, <2>16, RecorderMoves
<1> QED BY <1>1, <1>5, <1>6, <1>7 DEF Confirm

LEMMA LockStep ==
  ASSUME LedgerInv, NEW r \in Recorders, UNCHANGED file, Lock(r) PROVE LedgerInv'
<1> DEFINE new == [rec[r] EXCEPT !.pc = IF rec[r].key = Path THEN "path2" ELSE "load"]
<1>1. /\ rec[r].pc = "lock" /\ holder = None /\ holder' = r
      /\ UNCHANGED <<ledger, check, span>> /\ rec' = [rec EXCEPT ![r] = new]
  BY DEF Lock
<1>2. rec[r] \in Recs /\ RecOK(r) BY DEF LedgerInv, LedgerTypeOK
<1>3. /\ new \in Recs /\ new.key = rec[r].key /\ new.got = rec[r].got
      /\ new.pc = IF rec[r].key = Path THEN "path2" ELSE "load"
  BY <1>2 DEF Recs, RecPCs
<1> HIDE DEF new
<1>4. rec'[r] = new => RecOK(r)'
  <2>1. SUFFICES ASSUME rec'[r] = new PROVE RecOK(r)' OBVIOUS
  <2>2. /\ rec'[r].pc \in {"path2", "load"} /\ rec'[r].key = rec[r].key
        /\ rec'[r].got = rec[r].got /\ (rec'[r].pc = "path2" <=> rec[r].key = Path)
    BY <1>3, <2>1
  <2>3. Hashed("path2") = Hashed("lock") /\ Hashed("load") = Hashed("lock") BY DEF Hashed
  <2>4. HonestAll(rec[r].got) => HonestAll(rec[r].got)' BY <2>2 DEF HonestAll
  <2> QED BY <1>1, <1>2, <2>2, <2>3, <2>4, HashingIs DEF RecOK
<1>5. LedgerOK' /\ ledger' \in Ledgers
  BY <1>1 DEF LedgerInv, LedgerTypeOK, LedgerOK, Complete, HonestAll
<1> QED BY <1>1, <1>3, <1>4, <1>5, RecorderMoves

LEMMA LoadStep ==
  ASSUME LedgerInv, NEW r \in Recorders, UNCHANGED file, LoadLedger(r) PROVE LedgerInv'
<1> DEFINE old == rec[r]
           new == [pc |-> "save", key |-> old.key, tries |-> old.tries, look |-> old.look,
                   got |-> old.got, data |-> ledger]
<1>1. /\ old.pc = "load" /\ UNCHANGED <<ledger, holder, check, span>>
      /\ rec' = [rec EXCEPT ![r].pc = "save", ![r].data = ledger]
  BY DEF LoadLedger
<1>2. old \in Recs /\ RecOK(r) BY DEF LedgerInv, LedgerTypeOK
<1>3. rec' = [rec EXCEPT ![r] = new]
  <2>1. rec \in [Recorders -> Recs] BY DEF LedgerInv, LedgerTypeOK
  <2>2. PICK d : d = ledger OBVIOUS
  <2>3. PICK o \in Recs : o = rec[r] BY <1>2
  <2>4. PICK n : n = rec'[r] OBVIOUS
  <2>5. rec' = [rec EXCEPT ![r] = [[rec[r] EXCEPT !.pc = "save"] EXCEPT !.data = d]]
    BY <1>1, <2>1, <2>2
  <2>6. n = [o EXCEPT !.pc = "save", !.data = d] BY <2>1, <2>3, <2>4, <2>5
  <2>7. n = [pc |-> "save", key |-> o.key, tries |-> o.tries, look |-> o.look,
             got |-> o.got, data |-> d]
    BY <2>3, <2>6 DEF Recs
  <2>8. rec' = [rec EXCEPT ![r] = n] BY <2>1, <2>4, <2>5
  <2> QED BY <2>2, <2>3, <2>7, <2>8
<1>4. new \in Recs BY <1>2 DEF Recs, RecPCs, LedgerInv, LedgerTypeOK
<1>5. new.pc = "save" /\ new.key = old.key /\ new.got = old.got /\ new.data = ledger
  OBVIOUS
<1> HIDE DEF new
<1>6. rec'[r] = new => RecOK(r)'
  <2>1. SUFFICES ASSUME rec'[r] = new PROVE RecOK(r)' OBVIOUS
  <2>2. Hashed("save") = Hashed("load") BY DEF Hashed
  <2>3. HonestAll(rec[r].got) => HonestAll(rec[r].got)' BY <1>5, <2>1 DEF HonestAll
  <2> QED BY <1>1, <1>2, <1>5, <2>1, <2>2, <2>3, HashingIs DEF RecOK
<1>7. LedgerOK' /\ ledger' \in Ledgers
  BY <1>1 DEF LedgerInv, LedgerTypeOK, LedgerOK, Complete, HonestAll
<1> QED BY <1>1, <1>3, <1>4, <1>6, <1>7, RecorderMoves

(* What is saved is the ledger as it is, with one entry replaced.          *)
LEMMA SaveIs ==
  ASSUME LedgerInv, NEW r \in Recorders, SaveLedger(r)
  PROVE  /\ rec[r].pc = "save" /\ rec[r].key \in Keys /\ holder = r
         /\ ledger' = [ledger EXCEPT ![rec[r].key] = Entry(r)]
BY DEF LedgerInv, RecOK, SaveLedger

LEMMA SaveStep ==
  ASSUME LedgerInv, NEW r \in Recorders, UNCHANGED file, SaveLedger(r) PROVE LedgerInv'
<1>1. /\ rec[r].pc = "save" /\ rec[r].key \in Keys /\ holder = r
      /\ ledger' = [ledger EXCEPT ![rec[r].key] = Entry(r)]
  BY SaveIs
<1>2. UNCHANGED <<check, span>> /\ rec' = [rec EXCEPT ![r] = Idle] BY DEF SaveLedger
<1>3. rec[r] \in Recs /\ RecOK(r) /\ ledger \in Ledgers BY DEF LedgerInv, LedgerTypeOK
<1>4. Entry(r) \in Entries BY <1>3, NothingHashed DEF Entry, Recs
<1>5. ledger' \in Ledgers BY <1>1, <1>3, <1>4 DEF Ledgers
<1>6. LedgerOK'
  <2>1. CASE rec[r].key = Path
    <3>1. DOMAIN rec[r].got = {Dependency, Path} /\ HonestAll(rec[r].got)
      BY <1>1, <1>3, <2>1 DEF RecOK, Hashed
    <3>2. ledger'[Path] = rec[r].got BY <1>1, <1>3, <2>1 DEF Entry, Ledgers
    <3> QED BY <3>1, <3>2 DEF LedgerOK, Complete, HonestAll
  <2>2. CASE rec[r].key # Path
    <3>1. ledger'[Path] = ledger[Path] BY <1>1, <1>3, <2>2 DEF Ledgers, Keys
    <3> QED BY <3>1 DEF LedgerInv, LedgerOK, Complete, HonestAll
  <2> QED BY <2>1, <2>2
<1>7. rec'[r] = Idle => RecOK(r)' BY IdleIsRec DEF RecOK, Hashing
<1> QED BY <1>1, <1>2, <1>5, <1>6, <1>7, IdleIsRec, RecorderMoves

(***************************************************************************)
(* The context ledger: checking.                                           *)
(***************************************************************************)

(* An entry with the stat that a file has tells its bytes.                 *)
LEMMA StatTells ==
  ASSUME NEW entry, Complete(entry), NEW f \in {Dependency, Path},
         file[f].stat = entry[f].stat
  PROVE  Now[f] = entry[f].content
BY LedgerAssumption DEF Complete, HonestAll, Honest, Now

LEMMA CheckFileStep ==
  ASSUME FilesOK, LedgerInv, UNCHANGED file, CheckFile PROVE LedgerInv'
<1> USE DEF LedgerInv
<1>1. UNCHANGED <<ledger, holder, rec>>
  BY DEF CheckFile, CheckLoad, CheckStat, CheckDependencies, CheckHash, Answer
<1>2. LedgerOK' /\ \A r \in Recorders : RecOK(r)'
  BY <1>1 DEF LedgerOK, RecOK, Complete, HonestAll
<1>3. Now' = Now BY DEF Now
<1>4. \A e : Complete(e)' <=> Complete(e) BY DEF Complete, HonestAll
<1>5. check \in Checks /\ check.same \in BOOLEAN /\ check.deps \in BOOLEAN
  BY DEF LedgerTypeOK, Checks
<1>6. CASE CheckLoad
  <2> DEFINE new == [pc |-> "stat", entry |-> ledger[Path], same |-> FALSE, deps |-> FALSE,
                     fresh |-> FALSE]
  <2>1. check' = new /\ span' = {Now} /\ ledger[Path] # None
    BY <1>6 DEF CheckLoad, NoCheck
  <2>2. ledger[Path] \in Entries BY <2>1 DEF LedgerTypeOK, Ledgers, Keys
  <2>3. check' \in Checks BY <2>1, <2>2 DEF Checks
  <2>4. check'.pc = "stat" /\ check'.entry = ledger[Path] /\ check'.fresh = FALSE BY <2>1
  <2>5. Complete(ledger[Path]) BY <2>1 DEF LedgerOK
  <2>6. Complete(check.entry)' BY <2>4, <2>5 DEF Complete, HonestAll
  <2>7. CheckOK' BY <1>3, <2>1, <2>4, <2>6 DEF CheckOK, FreshWasCurrent
  <2> QED BY <1>1, <1>2, <2>3, <2>7 DEF LedgerTypeOK
<1>7. CASE CheckStat
  <2>1. PICK pc \in {"deps", "answer"}, same \in BOOLEAN :
           /\ check' = [check EXCEPT !.pc = pc, !.same = same]
           /\ same => file[Path].stat = check.entry[Path].stat
    BY <1>7 DEF CheckStat
  <2>2. check.pc = "stat" /\ span' = span BY <1>7 DEF CheckStat
  <2>3. check' = [pc |-> pc, entry |-> check.entry, same |-> same, deps |-> check.deps,
                  fresh |-> check.fresh]
    BY <1>5, <2>1 DEF Checks
  <2>4. check' \in Checks BY <1>5, <2>3 DEF Checks
  <2>5. /\ check'.pc = pc /\ check'.entry = check.entry /\ check'.same = same
        /\ check'.fresh = check.fresh
    BY <2>3
  <2>6. Complete(check.entry) /\ Now \in span /\ check.fresh = FALSE BY <2>2 DEF CheckOK
  <2>7. Complete(check.entry)' BY <2>5, <2>6 DEF Complete, HonestAll
  <2>8. same => Now[Path] = check.entry[Path].content BY <2>1, <2>6, StatTells
  <2>9. CheckOK'
    BY <1>3, <2>2, <2>5, <2>6, <2>7, <2>8 DEF CheckOK, FreshWasCurrent
  <2> QED BY <1>1, <1>2, <2>4, <2>9 DEF LedgerTypeOK
<1>8. CASE CheckDependencies
  <2>1. PICK pc \in {"hash", "answer"}, deps \in BOOLEAN, fresh \in BOOLEAN :
           /\ check' = [check EXCEPT !.pc = pc, !.deps = deps, !.fresh = fresh]
           /\ deps => file[Dependency].stat = check.entry[Dependency].stat
           /\ fresh = (check.same /\ deps)
    BY <1>5, <1>8 DEF CheckDependencies, DependenciesFresh
  <2>2. check.pc = "deps" /\ span' = span BY <1>8 DEF CheckDependencies
  <2>3. check' = [pc |-> pc, entry |-> check.entry, same |-> check.same, deps |-> deps,
                  fresh |-> fresh]
    BY <1>5, <2>1 DEF Checks
  <2>4. check' \in Checks BY <1>5, <2>3 DEF Checks
  <2>5. /\ check'.pc = pc /\ check'.entry = check.entry /\ check'.same = check.same
        /\ check'.fresh = fresh /\ check'.deps = deps
    BY <2>3
  <2>6. /\ Complete(check.entry) /\ Now \in span
        /\ check.same => \E s \in span : s[Path] = check.entry[Path].content
    BY <2>2 DEF CheckOK
  <2>7. Complete(check.entry)' BY <2>5, <2>6 DEF Complete, HonestAll
  <2>8. deps => Now[Dependency] = check.entry[Dependency].content BY <2>1, <2>6, StatTells
  <2>9. FreshWasCurrent' BY <2>1, <2>2, <2>5, <2>6, <2>8 DEF FreshWasCurrent
  <2>10. CheckOK'
    BY <1>3, <2>2, <2>5, <2>6, <2>7, <2>8, <2>9 DEF CheckOK
  <2> QED BY <1>1, <1>2, <2>4, <2>10 DEF LedgerTypeOK
<1>9. CASE CheckHash
  <2>1. PICK fresh \in BOOLEAN :
           /\ check' = [check EXCEPT !.pc = "answer", !.fresh = fresh]
           /\ fresh = (file[Path].content = check.entry[Path].content /\ check.deps)
    BY <1>5, <1>9 DEF CheckHash
  <2>2. check.pc = "hash" /\ span' = span BY <1>9 DEF CheckHash
  <2>3. check' = [pc |-> "answer", entry |-> check.entry, same |-> check.same,
                  deps |-> check.deps, fresh |-> fresh]
    BY <1>5, <2>1 DEF Checks
  <2>4. check' \in Checks BY <1>5, <2>3 DEF Checks
  <2>5. /\ check'.pc = "answer" /\ check'.entry = check.entry /\ check'.fresh = fresh
    BY <2>3
  <2>6. /\ Complete(check.entry) /\ Now \in span
        /\ check.deps => \E s \in span : s[Dependency] = check.entry[Dependency].content
    BY <2>2 DEF CheckOK
  <2>7. Complete(check.entry)' BY <2>5, <2>6 DEF Complete, HonestAll
  <2>8. fresh => Now[Path] = check.entry[Path].content BY <2>1, HashingIs DEF Now
  <2>9. FreshWasCurrent' BY <2>1, <2>2, <2>5, <2>6, <2>8 DEF FreshWasCurrent
  <2>10. CheckOK' BY <2>2, <2>5, <2>7, <2>9 DEF CheckOK
  <2> QED BY <1>1, <1>2, <2>4, <2>10 DEF LedgerTypeOK
<1>10. CASE Answer
  <2>1. check' = NoCheck BY <1>10 DEF Answer
  <2>2. CheckOK' BY <2>1, IdleIsRec DEF CheckOK, FreshWasCurrent
  <2> QED BY <1>1, <1>2, <2>1, <2>2, IdleIsRec DEF LedgerTypeOK
<1> QED BY <1>6, <1>7, <1>8, <1>9, <1>10 DEF CheckFile

(***************************************************************************)
(* The context ledger: the invariant and what follows.                     *)
(***************************************************************************)

LEMMA LedgerInvStep ==
  ASSUME FilesOK, LedgerInv, [Next]_vars PROVE LedgerInv'
<1>1. /\ FilesOK' /\ Later
      /\ SomebodyEdits \/ \A f \in Files : file'[f].content = file[f].content
  BY FilesStep
<1>2. CASE SomebodyEdits
  <2>1. EditSeen BY <1>2 DEF SomebodyEdits
  <2>2. UNCHANGED <<ledger, holder, rec, check>> BY <2>1 DEF EditSeen
  <2>3. Now' = [f \in Files |-> file'[f].content] BY DEF Now
  <2>4. /\ span \subseteq span' /\ (check.pc = "answer" => span' = span)
        /\ check.pc \in {"stat", "deps", "hash"} => Now' \in span'
    BY <2>1, <2>3 DEF EditSeen
  <2> QED BY <1>1, <2>2, <2>4, FilesMove
<1>3. CASE UNCHANGED ledgerVars /\ ~SomebodyEdits
  <2>1. Now' = Now BY <1>1, <1>3 DEF Now
  <2>2. UNCHANGED <<ledger, holder, rec, check, span>> BY <1>3 DEF ledgerVars
  <2>3. check.pc \in {"stat", "deps", "hash"} => Now \in span BY DEF LedgerInv, CheckOK
  <2> QED BY <1>1, <2>1, <2>2, <2>3, FilesMove
<1>4. CASE LedgerNext /\ UNCHANGED fileVars
  <2>1. UNCHANGED file BY <1>4 DEF fileVars
  <2>2. CASE \E r \in Recorders : Record(r)
    BY <2>1, <2>2, BeginStep, LookStep, ConfirmStep, LockStep, LoadStep, SaveStep DEF Record
  <2>3. CASE CheckFile BY <2>1, <2>3, CheckFileStep
  <2> QED BY <1>4, <2>2, <2>3 DEF LedgerNext
<1> QED BY <1>2, <1>3, <1>4 DEF Next, RunLaws, UseLedger, vars

(* The inductive invariant holds in every reachable state.                 *)
LEMMA AlwaysIInv == Spec => []IInv
<1>1. Init => IInv BY LawInvInit, LedgerInvInit DEF IInv
<1>2. IInv /\ [Next]_vars => IInv' BY FilesStep, LawInvStep, LedgerInvStep DEF IInv
<1> QED BY <1>1, <1>2, PTL DEF Spec

(* A conclusion is called fresh only if the file and its dependency had    *)
(* the recorded bytes at some moment of the check, though the check takes  *)
(* no lock and mostly does not read them (context_cache.py:96-176).        *)
THEOREM FreshIsCurrent == Spec => []FreshWasCurrent
<1>1. IInv => FreshWasCurrent BY DEF IInv, LedgerInv, CheckOK
<1> QED BY <1>1, AlwaysIInv, PTL

(* Recorders that rewrite the whole ledger lose nobody's entry             *)
(* (context_cache.py:127-138, :203-214): what one of them saves is the     *)
(* ledger as it stands, because it has read it under the lock.             *)
THEOREM EntriesStay == Spec => NoEntryLost
<1> DEFINE Kept == \A k \in Keys : ledger'[k] # ledger[k] =>
                     \E r \in Recorders :
                        rec[r].pc = "save" /\ rec[r].key = k /\ rec'[r].pc = "idle"
<1>1. IInv /\ [Next]_vars => [Kept]_<<ledger, rec>>
  <2> SUFFICES ASSUME IInv, [Next]_vars PROVE Kept OBVIOUS
  <2>1. CASE ledger' = ledger BY <2>1
  <2>2. CASE \E r \in Recorders : SaveLedger(r)
    <3>1. PICK r \in Recorders : SaveLedger(r) BY <2>2
    <3>2. /\ rec[r].pc = "save" /\ rec[r].key \in Keys
          /\ ledger' = [ledger EXCEPT ![rec[r].key] = Entry(r)]
      BY <3>1, SaveIs DEF IInv
    <3>3. rec'[r].pc = "idle"
      BY <3>1, IdleIsRec DEF SaveLedger, IInv, LedgerInv, LedgerTypeOK
    <3>4. \A k \in Keys : k # rec[r].key => ledger'[k] = ledger[k]
      BY <3>2 DEF IInv, LedgerInv, LedgerTypeOK, Ledgers
    <3> QED BY <3>2, <3>3, <3>4
  <2>3. ledger' = ledger \/ \E r \in Recorders : SaveLedger(r)
    BY DEF Next, vars, ledgerVars, SomebodyEdits, EditSeen, RunLaws, UseLedger, LedgerNext,
       Record, RecordFile, RecordExternal, RecordLogSummary, Look, Confirm, Lock, LoadLedger,
       CheckFile, CheckLoad, CheckStat, CheckDependencies, CheckHash, Answer
  <2> QED BY <2>1, <2>2, <2>3
<1> QED BY <1>1, AlwaysIInv, PTL DEF Spec, NoEntryLost
=============================================================================
