----------------------- MODULE FileTransactionProofs -----------------------
(***************************************************************************)
(* What TLAPS proves of FileTransaction for any number of names, files,   *)
(* contents, crashes and outside edits.                                    *)
(*                                                                         *)
(* The argument follows one name at a time: the targets of two names are  *)
(* disjoint and a step moves one name only.  Where its process stands and *)
(* the phase of its journal tell how far the destinations have come, the  *)
(* records below k new and the others old, or the ones above k restored.  *)
(***************************************************************************)
EXTENDS FileTransaction, TLAPS

\* Of the files F, the destinations of n hold the contents c, outside edits
\* apart.
Whole(F, c, n) == \A f \in Paths(n) : F[f] \in {c[f]} \cup Foreign

\* Every destination holds its old or its new contents, or an outside edit.
Mixed(F, b, a, n) == \A f \in Paths(n) : F[f] \in {b[f], a[f]} \cup Foreign

\* The first j destinations are new, the others old.
Applied(F, b, a, n, j) ==
    \A i \in 1..Len(Targets[n]) :
        /\ i <= j => F[Targets[n][i]] \in {a[Targets[n][i]]} \cup Foreign
        /\ i > j => F[Targets[n][i]] \in {b[Targets[n][i]]} \cup Foreign

\* The destinations past the j-th are old again.
Restored(F, b, n, j) ==
    \A i \in 1..Len(Targets[n]) :
        i > j => F[Targets[n][i]] \in {b[Targets[n][i]]} \cup Foreign

\* Where the process stands, which journal it then has under it.
PlaceOK(n) ==
    /\ phase[n] # "none" => made[n]
    /\ pc[n] \in {"plan", "mkdir"} => ~made[n]
    /\ pc[n] = "prepare" => made[n] /\ phase[n] = "none"
    /\ pc[n] = "apply" => phase[n] = "PREPARED"
    /\ pc[n] \in {"check", "write", "verify", "note", "commit"} =>
          phase[n] = "APPLYING" /\ k[n] > 0
    /\ pc[n] = "commit" => k[n] = Len(Targets[n])
    /\ pc[n] = "undo" => Pending(n)
    /\ pc[n] = "drop" => phase[n] \in {"COMMITTED", "ROLLED_BACK"}
    /\ pc[n] \in {"dropdir", "rmdir"} => phase[n] = "none"
    /\ pc[n] = "unlink" => phase[n] = "COMMITTED"
    /\ pc[n] \in {"fail", "revert"} =>
          \/ Pending(n)
          \/ pc[n] = "fail" /\ phase[n] = "none"
          \/ phase[n] = "COMMITTED" /\ (pc[n] = "revert" => late[n])

\* What the destinations hold there.
ContentsOK(n) ==
    /\ Mixed(file, before[n], after[n], n)
    /\ phase[n] = "none" => Whole(file, before[n], n) \/ Whole(file, after[n], n)
    /\ phase[n] = "ROLLED_BACK" => Whole(file, before[n], n)
    /\ phase[n] = "COMMITTED" /\ (late[n] => pc[n] \in {"unlink", "drop"}) =>
          Whole(file, after[n], n)
    /\ pc[n] \in {"mkdir", "prepare", "apply"} => Whole(file, before[n], n)
    /\ pc[n] \in {"check", "write"} => Applied(file, before[n], after[n], n, k[n] - 1)
    /\ pc[n] \in {"verify", "note", "commit"} => Applied(file, before[n], after[n], n, k[n])
    /\ pc[n] \in {"undo", "revert"} => Restored(file, before[n], n, k[n])

IInv == TypeOK /\ \A n \in Names : PlaceOK(n) /\ ContentsOK(n)

(***************************************************************************)
(* Facts about the targets.                                                *)
(***************************************************************************)

(* A destination is found at one position, and belongs to one name.        *)
LEMMA TargetFacts ==
    /\ \A n \in Names : Len(Targets[n]) \in Nat \ {0}
    /\ \A n \in Names : Paths(n) \subseteq Files
    /\ \A n \in Names : \A f \in Paths(n) : \E i \in 1..Len(Targets[n]) : f = Targets[n][i]
    /\ \A n \in Names : \A i \in 1..Len(Targets[n]) : Targets[n][i] \in Paths(n)
    /\ \A n \in Names : \A i, j \in 1..Len(Targets[n]) :
          Targets[n][i] = Targets[n][j] => i = j
    /\ \A m, n \in Names : m # n => \A f \in Paths(n) : f \notin Paths(m)
<1>1. \A n \in Names : Targets[n] \in Seq(Files) BY TargetsAssumption
<1>2. \A n \in Names : DOMAIN Targets[n] = 1..Len(Targets[n]) /\ Len(Targets[n]) \in Nat
  BY <1>1
<1>3. \A n \in Names : Paths(n) \subseteq Files BY DEF Files
<1>4. \A n \in Names : Paths(n) = {Targets[n][i] : i \in 1..Len(Targets[n])}
  BY <1>2 DEF Paths, Range
<1>5. \A m, n \in Names : m # n => \A f \in Paths(n) : f \notin Paths(m)
  BY TargetsAssumption
<1> QED BY <1>2, <1>3, <1>4, <1>5, TargetsAssumption

(* Every action but an outside edit is taken by one name.                  *)
OwnStep(n) == Step(n) \/ Crash(n)

(***************************************************************************)
(* Types.                                                                  *)
(***************************************************************************)

LEMMA TypeInit == Init => TypeOK
<1> SUFFICES ASSUME Init PROVE TypeOK OBVIOUS
<1>1. file \in [Files -> Contents] BY DEF Init
<1>2. file \in [Files -> Data] BY <1>1 DEF Data
<1>3. \A n \in Names : 0 \in 0..Len(Targets[n]) BY TargetFacts
<1>4. 0 \in 0..MaxCalls /\ 0 \in 0..MaxCrashes /\ 0 \in 0..MaxEdits BY BoundsAssumption
<1>5. before \in [Names -> [Files -> Data]] /\ after \in [Names -> [Files -> Contents]]
  BY <1>1, <1>2 DEF Init
<1>6. /\ made \in [Names -> BOOLEAN] /\ temp \in [Names -> BOOLEAN]
      /\ late \in [Names -> BOOLEAN]
  BY DEF Init
<1> QED BY <1>2, <1>3, <1>4, <1>5, <1>6 DEF Init, TypeOK, Phases, PCs, Steps

(* The process stands on a record wherever it looks one up.                *)
LEMMA TargetIsFile ==
    ASSUME TypeOK, NEW n \in Names, k[n] > 0
    PROVE  /\ k[n] \in 1..Len(Targets[n])
           /\ Target(n) \in Paths(n)
           /\ Target(n) \in Files
<1>1. k[n] \in 1..Len(Targets[n]) BY TargetFacts DEF TypeOK
<1> QED BY <1>1, TargetFacts DEF Target

(* The process moves to another record.                                    *)
LEMMA RecordType ==
    ASSUME TypeOK, NEW n \in Names, NEW j \in 0..Len(Targets[n]),
           k' = [k EXCEPT ![n] = j]
    PROVE  k' \in [Names -> Nat] /\ \A m \in Names : k'[m] \in 0..Len(Targets[m])
BY TargetFacts DEF TypeOK

(* Writing a file or a journal keeps the types.                            *)
LEMMA TypeRestore ==
    ASSUME TypeOK, NEW n \in Names, NEW here, NEW next \in PCs, Restore(n, here, next)
    PROVE  TypeOK'
<1> USE BoundsAssumption DEF TypeOK, Restore, Put, Goto, Journal, disk, records, bounds
<1>1. CASE k[n] > 0
  <2>1. Target(n) \in Files BY <1>1, TargetIsFile
  <2>2. file' = [file EXCEPT ![Target(n)] = before[n][Target(n)]] BY <1>1
  <2>3. file' \in [Files -> Data] BY <2>1, <2>2
  <2>4. k' = [k EXCEPT ![n] = k[n] - 1] /\ k[n] - 1 \in 0..Len(Targets[n])
    BY <1>1, TargetFacts
  <2>5. k' \in [Names -> Nat] /\ \A m \in Names : k'[m] \in 0..Len(Targets[m])
    BY <2>4, RecordType
  <2> QED BY <1>1, <2>3, <2>5
<1>2. CASE k[n] = 0
  <2>1. /\ phase' = [phase EXCEPT ![n] = "ROLLED_BACK"]
        /\ pc' = [pc EXCEPT ![n] = next]
        /\ UNCHANGED <<file, k, made, temp>>
    BY <1>2
  <2>2. phase' \in [Names -> Phases] BY <2>1 DEF Phases
  <2>3. pc' \in [Names -> PCs] BY <2>1
  <2> QED BY <2>1, <2>2, <2>3
<1> QED BY <1>1, <1>2

LEMMA TypeStep == ASSUME TypeOK, [Next]_vars,
                         \A n \in Names : PlaceOK(n)
                  PROVE TypeOK'
<1> USE BoundsAssumption DEF TypeOK, Put, Goto, Journal, disk, records, bounds
<1>1. ASSUME NEW n \in Names, OwnStep(n) PROVE TypeOK'
  <2> USE DEF PCs, Steps, Phases
  <2>0. k[n] \in 0..Len(Targets[n]) /\ Len(Targets[n]) \in Nat \ {0} BY TargetFacts
  <2>00. AfterRecovery(n) \in PCs BY DEF AfterRecovery
  <2>1. CASE \E j \in {"commit", "recover"} : Call(n, j) BY <2>1 DEF Call
  <2>2. CASE ScanRefused(n) BY <2>2 DEF ScanRefused
  <2>3. CASE Scan(n)
    <3>1. k' \in [Names -> Nat] /\ \A m \in Names : k'[m] \in 0..Len(Targets[m])
      BY <2>3, <2>0 DEF Scan
    <3>2. pc' \in [Names -> PCs] BY <2>3, <2>00 DEF Scan
    <3> QED BY <2>3, <3>1, <3>2 DEF Scan
  <2>4. CASE Undo(n) BY <2>4, TypeRestore DEF Undo
  <2>5. CASE DropJournal(n) BY <2>5 DEF DropJournal
  <2>6. CASE DropDirectory(n)
    <3>1. pc' \in [Names -> PCs] BY <2>6, <2>00 DEF DropDirectory
    <3>2. made' \in [Names -> BOOLEAN] BY <2>6 DEF DropDirectory
    <3> QED BY <2>6, <3>1, <3>2 DEF DropDirectory
  <2>7. CASE \E new \in [Paths(n) -> Contents], expected \in [Paths(n) -> Data] :
                Preflight(n, new, expected)
    <3>1. PICK new \in [Paths(n) -> Contents], expected \in [Paths(n) -> Data] :
             Preflight(n, new, expected) BY <2>7
    <3>2. Noted(n, before[n], file) \in [Files -> Data]
      BY DEF Noted
    <3>3. Noted(n, after[n], new) \in [Files -> Contents]
      BY DEF Noted
    <3>4. before' \in [Names -> [Files -> Data]] BY <3>1, <3>2 DEF Preflight
    <3>5. after' \in [Names -> [Files -> Contents]] BY <3>1, <3>3 DEF Preflight
    <3>6. late' \in [Names -> BOOLEAN] BY <3>1 DEF Preflight
    <3> QED BY <3>1, <3>4, <3>5, <3>6 DEF Preflight
  <2>8. CASE MakeDirectory(n)
    <3>1. made' \in [Names -> BOOLEAN] BY <2>8 DEF MakeDirectory
    <3> QED BY <2>8, <3>1 DEF MakeDirectory
  <2>9. CASE Prepare(n) BY <2>9 DEF Prepare
  <2>10. CASE Apply(n)
    <3>1. k' \in [Names -> Nat] /\ \A m \in Names : k'[m] \in 0..Len(Targets[m])
      BY <2>10, <2>0 DEF Apply
    <3> QED BY <2>10, <3>1 DEF Apply
  <2>11. CASE Check(n) BY <2>11 DEF Check
  <2>12. CASE Write(n)
    <3>1. Target(n) \in Files BY <2>12, TargetIsFile DEF PlaceOK, Write
    <3>2. after[n][Target(n)] \in Data BY <3>1 DEF Data
    <3>3. file' \in [Files -> Data] BY <2>12, <3>1, <3>2 DEF Write
    <3> QED BY <2>12, <3>3 DEF Write
  <2>13. CASE Verify(n) BY <2>13 DEF Verify
  <2>14. CASE Note(n)
    <3>0. ASSUME k[n] < Len(Targets[n])
          PROVE  k' \in [Names -> Nat] /\ \A m \in Names : k'[m] \in 0..Len(Targets[m])
      <4>1. k[n] + 1 \in 0..Len(Targets[n]) /\ k' = [k EXCEPT ![n] = k[n] + 1]
        BY <2>14, <2>0, <3>0 DEF Note
      <4> QED BY <4>1, RecordType
    <3>1. k' \in [Names -> Nat] /\ \A m \in Names : k'[m] \in 0..Len(Targets[m])
      BY <2>14, <3>0 DEF Note
    <3> QED BY <2>14, <3>1 DEF Note
  <2>15. CASE Commit(n) BY <2>15 DEF Commit
  <2>16. CASE UnlinkJournal(n) BY <2>16 DEF UnlinkJournal
  <2>17. CASE RemoveDirectory(n)
    <3>1. made' \in [Names -> BOOLEAN] BY <2>17 DEF RemoveDirectory
    <3> QED BY <2>17, <3>1 DEF RemoveDirectory
  <2>18. CASE Raise(n) BY <2>18 DEF Raise
  <2>19. CASE Handle(n)
    <3>1. made' \in [Names -> BOOLEAN] BY <2>19 DEF Handle
    <3>0. \/ k' = [k EXCEPT ![n] = 0]
          \/ k' = [k EXCEPT ![n] = Len(Targets[n])]
      BY <2>19 DEF Handle
    <3>2. k' \in [Names -> Nat] /\ \A m \in Names : k'[m] \in 0..Len(Targets[m])
      <4>1. 0 \in 0..Len(Targets[n]) /\ Len(Targets[n]) \in 0..Len(Targets[n]) BY <2>0
      <4> QED BY <3>0, <4>1, RecordType
    <3>3. late' \in [Names -> BOOLEAN] BY <2>19 DEF Handle
    <3> QED BY <2>19, <3>1, <3>2, <3>3 DEF Handle
  <2>20. CASE Revert(n) BY <2>20, TypeRestore DEF Revert
  <2>21. CASE Crash(n)
    <3>1. temp' \in [Names -> BOOLEAN] BY <2>21 DEF Crash
    <3>2. k' \in [Names -> Nat] /\ \A m \in Names : k'[m] \in 0..Len(Targets[m])
      BY <2>21, <2>0 DEF Crash
    <3> QED BY <2>21, <3>1, <3>2 DEF Crash
  <2>22. CASE GiveUp(n)
    <3>1. k' \in [Names -> Nat] /\ \A m \in Names : k'[m] \in 0..Len(Targets[m])
      BY <2>22, <2>0 DEF GiveUp
    <3> QED BY <2>22, <3>1 DEF GiveUp
  <2> QED BY <1>1, <2>1, <2>2, <2>3, <2>4, <2>5, <2>6, <2>7, <2>8, <2>9, <2>10, <2>11,
             <2>12, <2>13, <2>14, <2>15, <2>16, <2>17, <2>18, <2>19, <2>20, <2>21, <2>22
          DEF OwnStep, Step
<1>2. ASSUME NEW f \in Files, NEW c \in Foreign, Edit(f, c) PROVE TypeOK'
  <2>1. file' \in [Files -> Data] BY <1>2 DEF Edit, Data
  <2> QED BY <1>2, <2>1 DEF Edit
<1>3. CASE UNCHANGED vars BY <1>3 DEF vars
<1> QED BY <1>1, <1>2, <1>3 DEF Next, OwnStep

(***************************************************************************)
(* Where the process stands.                                               *)
(***************************************************************************)

Stays(m) ==
    /\ phase'[m] = phase[m] /\ made'[m] = made[m] /\ pc'[m] = pc[m] /\ k'[m] = k[m]
    /\ before'[m] = before[m] /\ after'[m] = after[m] /\ late'[m] = late[m]
    /\ \A f \in Paths(m) : file'[f] = file[f]

(* A step of one name leaves the others, and their destinations, alone.    *)
LEMMA OthersStay ==
    ASSUME TypeOK, NEW n \in Names, PlaceOK(n), OwnStep(n), NEW m \in Names, m # n
    PROVE  Stays(m)
<1> USE DEF Stays, TypeOK, Goto, Journal, disk, records, bounds
<1>0. k[n] > 0 => Target(n) \in Files /\ \A f \in Paths(m) : f # Target(n)
  BY TargetIsFile, TargetFacts
<1>00. Paths(m) \subseteq Files BY TargetFacts
<1>1. CASE \E j \in {"commit", "recover"} : Call(n, j) BY <1>1 DEF Call
<1>2. CASE ScanRefused(n) BY <1>2 DEF ScanRefused
<1>3. CASE Scan(n) BY <1>3 DEF Scan
<1>4. ASSUME NEW here, NEW next, Restore(n, here, next) PROVE Stays(m)
  BY <1>0, <1>00, <1>4 DEF Restore, Put
<1>5. CASE DropJournal(n) BY <1>5 DEF DropJournal
<1>6. CASE DropDirectory(n) BY <1>6 DEF DropDirectory
<1>7. CASE \E new \in [Paths(n) -> Contents], expected \in [Paths(n) -> Data] :
              Preflight(n, new, expected)
  BY <1>7 DEF Preflight
<1>8. CASE MakeDirectory(n) BY <1>8 DEF MakeDirectory
<1>9. CASE Prepare(n) BY <1>9 DEF Prepare
<1>10. CASE Apply(n) BY <1>10 DEF Apply
<1>11. CASE Check(n) BY <1>11 DEF Check
<1>12. CASE Write(n) BY <1>0, <1>00, <1>12 DEF Write, Put, PlaceOK
<1>13. CASE Verify(n) BY <1>13 DEF Verify
<1>14. CASE Note(n) BY <1>14 DEF Note
<1>15. CASE Commit(n) BY <1>15 DEF Commit
<1>16. CASE UnlinkJournal(n) BY <1>16 DEF UnlinkJournal
<1>17. CASE RemoveDirectory(n) BY <1>17 DEF RemoveDirectory
<1>18. CASE Raise(n) BY <1>18 DEF Raise
<1>19. CASE Handle(n) BY <1>19 DEF Handle
<1>20. CASE Crash(n) BY <1>20 DEF Crash
<1>21. CASE GiveUp(n) BY <1>21 DEF GiveUp
<1> QED BY <1>1, <1>2, <1>3, <1>4, <1>5, <1>6, <1>7, <1>8, <1>9, <1>10, <1>11, <1>12,
           <1>13, <1>14, <1>15, <1>16, <1>17, <1>18, <1>19, <1>20, <1>21
        DEF OwnStep, Step, Undo, Revert

(* Each step of a process leads to a place that its journal fits.          *)
LEMMA PlaceStep ==
    ASSUME TypeOK, NEW n \in Names, PlaceOK(n), OwnStep(n) PROVE PlaceOK(n)'
<1> USE DEF TypeOK, PlaceOK, Pending, Goto, Journal, disk, records, bounds
<1>0. k[n] \in 0..Len(Targets[n]) /\ Len(Targets[n]) \in Nat \ {0} BY TargetFacts
<1>1. CASE \E j \in {"commit", "recover"} : Call(n, j) BY <1>1 DEF Call
<1>2. CASE ScanRefused(n) BY <1>2 DEF ScanRefused
<1>3. CASE Scan(n)
  <2>1. made[n] => phase[n] # "none" BY <1>3 DEF Scan, ScanAccepts
  <2>2. /\ phase' = phase /\ made' = made
        /\ \/ ~made[n] /\ pc'[n] \in {"plan", "idle"}
           \/ made[n] /\ Pending(n) /\ pc'[n] = "undo"
           \/ made[n] /\ ~Pending(n) /\ pc'[n] = "drop"
    BY <1>3 DEF Scan, AfterRecovery
  <2>3. phase[n] \in Phases BY DEF Phases
  <2> QED BY <2>1, <2>2, <2>3 DEF Phases
<1>4. CASE Undo(n)
  <2>1. CASE k[n] > 0 BY <1>4, <2>1 DEF Undo, Restore
  <2>2. CASE k[n] = 0
    <3>1. phase'[n] = "ROLLED_BACK" /\ pc'[n] = "drop" /\ made' = made
      BY <1>4, <2>2 DEF Undo, Restore
    <3>2. made[n] BY <1>4 DEF Undo, Restore
    <3> QED BY <3>1, <3>2
  <2> QED BY <1>0, <2>1, <2>2
<1>5. CASE DropJournal(n) BY <1>5 DEF DropJournal
<1>6. CASE DropDirectory(n)
  <2>1. phase'[n] = "none" /\ ~made'[n] /\ pc'[n] \in {"plan", "idle"}
    BY <1>6 DEF DropDirectory, AfterRecovery
  <2> QED BY <2>1
<1>7. CASE \E new \in [Paths(n) -> Contents], expected \in [Paths(n) -> Data] :
              Preflight(n, new, expected)
  <2>1. phase' = phase /\ made' = made /\ ~made[n] /\ pc'[n] \in {"mkdir", "idle"}
    BY <1>7 DEF Preflight
  <2> QED BY <2>1
<1>8. CASE MakeDirectory(n) BY <1>8 DEF MakeDirectory
<1>9. CASE Prepare(n) BY <1>9 DEF Prepare
<1>10. CASE Apply(n)
  <2>1. phase'[n] = "APPLYING" /\ pc'[n] = "check" /\ made' = made /\ made[n] /\ k'[n] = 1
    BY <1>10 DEF Apply
  <2> QED BY <2>1
<1>11. CASE Check(n) BY <1>11 DEF Check
<1>12. CASE Write(n) BY <1>12 DEF Write
<1>13. CASE Verify(n) BY <1>13 DEF Verify
<1>14. CASE Note(n)
  <2>1. phase' = phase /\ made' = made /\ phase[n] = "APPLYING"
    BY <1>14 DEF Note
  <2>2. \/ pc'[n] = "check" /\ k'[n] > 0
        \/ pc'[n] = "commit" /\ k'[n] = Len(Targets[n])
    BY <1>0, <1>14 DEF Note
  <2> QED BY <1>0, <2>1, <2>2
<1>15. CASE Commit(n) BY <1>15 DEF Commit
<1>16. CASE UnlinkJournal(n) BY <1>16 DEF UnlinkJournal
<1>17. CASE RemoveDirectory(n)
  <2>1. phase'[n] = "none" /\ ~made'[n] /\ pc'[n] = "idle" BY <1>17 DEF RemoveDirectory
  <2> QED BY <2>1
<1>18. CASE Raise(n)
  <2>1. pc'[n] = "fail" /\ UNCHANGED <<phase, made>> BY <1>18 DEF Raise
  <2>2. pc[n] \in Steps BY <1>18 DEF Raise
  <2>3. Pending(n) \/ phase[n] \in {"none", "COMMITTED"} BY <2>2 DEF Steps
  <2> QED BY <2>1, <2>3
<1>19. CASE Handle(n)
  <2>1. /\ phase' = phase
        /\ \/ /\ phase[n] # "none" /\ pc'[n] = "revert" /\ made' = made
              /\ phase[n] = "COMMITTED" => late'[n]
           \/ phase[n] # "none" /\ pc'[n] = "idle" /\ made' = made
           \/ phase[n] = "none" /\ pc'[n] = "idle"
    BY <1>19 DEF Handle
  <2> QED BY <1>19, <2>1 DEF Handle
<1>20. CASE Revert(n)
  <2>1. CASE k[n] > 0 BY <1>20, <2>1 DEF Revert, Restore
  <2>2. CASE k[n] = 0
    <3>1. phase'[n] = "ROLLED_BACK" /\ pc'[n] = "idle" /\ made' = made
      BY <1>20, <2>2 DEF Revert, Restore
    <3>2. made[n] BY <1>20 DEF Revert, Restore
    <3> QED BY <3>1, <3>2
  <2> QED BY <1>0, <2>1, <2>2
<1>21. CASE Crash(n) BY <1>21 DEF Crash
<1>22. CASE GiveUp(n)
  <2>1. pc'[n] = "idle" /\ UNCHANGED <<phase, made>> BY <1>22 DEF GiveUp
  <2> QED BY <2>1
<1> QED BY <1>1, <1>2, <1>3, <1>4, <1>5, <1>6, <1>7, <1>8, <1>9, <1>10, <1>11, <1>12,
           <1>13, <1>14, <1>15, <1>16, <1>17, <1>18, <1>19, <1>20, <1>21, <1>22
        DEF OwnStep, Step

(***************************************************************************)
(* What the destinations hold.                                             *)
(***************************************************************************)

(* How the readings of a half-applied transaction meet at its two ends.    *)
LEMMA EndsMeet ==
    ASSUME NEW n \in Names, NEW F, NEW b, NEW a
    PROVE  /\ Whole(F, b, n) => Applied(F, b, a, n, 0)
           /\ Applied(F, b, a, n, Len(Targets[n])) => Whole(F, a, n)
           /\ Restored(F, b, n, Len(Targets[n]))
           /\ Restored(F, b, n, 0) => Whole(F, b, n)
           /\ Whole(F, a, n) \/ Whole(F, b, n) => Mixed(F, b, a, n)
<1> USE TargetFacts
<1>1. Whole(F, b, n) => Applied(F, b, a, n, 0) BY DEF Whole, Applied
<1>2. Applied(F, b, a, n, Len(Targets[n])) => Whole(F, a, n) BY DEF Whole, Applied
<1>3. Restored(F, b, n, Len(Targets[n])) BY DEF Restored
<1>4. Restored(F, b, n, 0) => Whole(F, b, n) BY DEF Whole, Restored
<1>5. Whole(F, a, n) \/ Whole(F, b, n) => Mixed(F, b, a, n) BY DEF Whole, Mixed
<1> QED BY <1>1, <1>2, <1>3, <1>4, <1>5

(* An outside edit, or the write of another name, changes no reading.      *)
LEMMA EditKeeps ==
    ASSUME NEW n \in Names, NEW F, NEW G, NEW b, NEW a, NEW j \in Int,
           \A f \in Paths(n) : G[f] = F[f] \/ G[f] \in Foreign
    PROVE  /\ Whole(F, b, n) => Whole(G, b, n)
           /\ Mixed(F, b, a, n) => Mixed(G, b, a, n)
           /\ Applied(F, b, a, n, j) => Applied(G, b, a, n, j)
           /\ Restored(F, b, n, j) => Restored(G, b, n, j)
<1> USE TargetFacts
<1>1. Whole(F, b, n) => Whole(G, b, n) BY DEF Whole
<1>2. Mixed(F, b, a, n) => Mixed(G, b, a, n) BY DEF Mixed
<1>3. Applied(F, b, a, n, j) => Applied(G, b, a, n, j) BY DEF Applied
<1>4. Restored(F, b, n, j) => Restored(G, b, n, j) BY DEF Restored
<1> QED BY <1>1, <1>2, <1>3, <1>4

(* The j-th destination is written.                                        *)
LEMMA WriteAdvances ==
    ASSUME NEW n \in Names, NEW F \in [Files -> Data], NEW b, NEW a,
           NEW j \in 1..Len(Targets[n]), NEW G,
           G = [F EXCEPT ![Targets[n][j]] = a[Targets[n][j]]],
           Applied(F, b, a, n, j - 1), Mixed(F, b, a, n)
    PROVE  Applied(G, b, a, n, j) /\ Mixed(G, b, a, n)
<1> USE TargetFacts
<1>1. \A i \in 1..Len(Targets[n]) :
         /\ Targets[n][i] \in Files
         /\ i # j => G[Targets[n][i]] = F[Targets[n][i]]
         /\ i = j => G[Targets[n][i]] = a[Targets[n][i]]
  OBVIOUS
<1>2. Applied(G, b, a, n, j) BY <1>1 DEF Applied
<1>3. Mixed(G, b, a, n) BY <1>1 DEF Mixed
<1> QED BY <1>2, <1>3

(* The j-th destination is restored.                                       *)
LEMMA RestoreAdvances ==
    ASSUME NEW n \in Names, NEW F, NEW b, NEW a,
           NEW j \in 1..Len(Targets[n]), NEW G, NEW rest, rest = j - 1,
           \A f \in Paths(n) : IF f = Targets[n][j] THEN G[f] = b[f] ELSE G[f] = F[f],
           Restored(F, b, n, j), Mixed(F, b, a, n)
    PROVE  Restored(G, b, n, rest) /\ Mixed(G, b, a, n)
<1>2. Restored(G, b, n, rest) BY TargetFacts DEF Restored
<1>3. Mixed(G, b, a, n) BY DEF Mixed
<1> QED BY <1>2, <1>3

(* Restoring one record, or noting in the journal that all are restored.   *)
LEMMA ContentsRestore ==
    ASSUME TypeOK, NEW n \in Names, PlaceOK(n), ContentsOK(n),
           NEW here \in {"undo", "revert"}, NEW next \in {"drop", "idle"},
           Restore(n, here, next)
    PROVE  ContentsOK(n)'
<1> USE DEF TypeOK, Goto, Journal, disk, records, bounds
<1>0. k[n] \in 0..Len(Targets[n]) /\ Len(Targets[n]) \in Nat \ {0} BY TargetFacts
<1>1. /\ pc[n] = here
      /\ Restored(file, before[n], n, k[n])
      /\ Mixed(file, before[n], after[n], n)
      /\ Pending(n) \/ (here = "revert" /\ late[n] /\ phase[n] = "COMMITTED")
  <2>1. pc[n] = here BY DEF Restore
  <2>2. CASE here = "undo" BY <2>1, <2>2 DEF PlaceOK, ContentsOK
  <2>3. CASE here = "revert" BY <2>1, <2>3 DEF PlaceOK, ContentsOK
  <2> QED BY <2>2, <2>3
<1>2. CASE k[n] > 0
  <2>1. /\ file' = [file EXCEPT ![Targets[n][k[n]]] = before[n][Targets[n][k[n]]]]
        /\ k'[n] = k[n] - 1
        /\ UNCHANGED <<pc, phase, before, after, late>>
    BY <1>2 DEF Restore, Put, Target
  <2>2. Restored(file', before[n], n, k'[n]) /\ Mixed(file', before[n], after[n], n)
    <3>1. k[n] \in 1..Len(Targets[n]) BY <1>0, <1>2
    <3>2. \A f \in Paths(n) : IF f = Targets[n][k[n]] THEN file'[f] = before[n][f]
                                                    ELSE file'[f] = file[f]
      BY <2>1, TargetFacts
    <3>3. Restored(file, before[n], n, k[n]) /\ Mixed(file, before[n], after[n], n) BY <1>1
    <3>4. k'[n] = k[n] - 1 BY <2>1
    <3> HIDE DEF TypeOK
    <3>5. Restored(file', before[n], n, k'[n]) BY <3>1, <3>2, <3>3, <3>4, RestoreAdvances
    <3>6. Mixed(file', before[n], after[n], n) BY <3>1, <3>2, <3>3, <3>4, RestoreAdvances
    <3> QED BY <3>5, <3>6
  <2> QED BY <1>1, <2>1, <2>2 DEF ContentsOK, Pending
<1>3. CASE k[n] = 0
  <2>1. /\ UNCHANGED <<file, before, after>>
        /\ phase'[n] = "ROLLED_BACK" /\ pc'[n] = next
    BY <1>3 DEF Restore
  <2>2. Whole(file, before[n], n) BY <1>1, <1>3, EndsMeet
  <2> QED BY <1>1, <2>1, <2>2 DEF ContentsOK
<1> QED BY <1>0, <1>2, <1>3

(* Each step of a process leaves the destinations as its next place reads. *)
LEMMA ContentsStep ==
    ASSUME TypeOK, NEW n \in Names, PlaceOK(n), ContentsOK(n), OwnStep(n)
    PROVE  ContentsOK(n)'
<1> USE DEF TypeOK, Goto, Journal, disk, records, bounds
<1>0. k[n] \in 0..Len(Targets[n]) /\ Len(Targets[n]) \in Nat \ {0} BY TargetFacts
<1>1. CASE \E j \in {"commit", "recover"} : Call(n, j) BY <1>1 DEF Call, ContentsOK
<1>2. CASE ScanRefused(n) BY <1>2 DEF ScanRefused, ContentsOK
<1>3. CASE Scan(n)
  <2>1. /\ UNCHANGED <<file, before, after, late, phase>> /\ k'[n] = Len(Targets[n])
        /\ pc'[n] \in {"plan", "idle", "undo", "drop"}
        /\ pc'[n] = "drop" => made[n]
    BY <1>3 DEF Scan, AfterRecovery
  <2>2. Restored(file, before[n], n, k'[n]) BY <2>1, EndsMeet
  <2>3. pc'[n] = "drop" /\ phase[n] = "COMMITTED" => Whole(file, after[n], n)
    BY <1>3, <2>1 DEF Scan, ScanAccepts, Recoverable, Whole
  <2> QED BY <1>3, <2>1, <2>2, <2>3 DEF ContentsOK, Scan
<1>4. CASE Undo(n) BY <1>4, ContentsRestore DEF Undo
<1>5. CASE DropJournal(n)
  <2>1. Whole(file, before[n], n) \/ Whole(file, after[n], n)
    BY <1>5 DEF DropJournal, PlaceOK, ContentsOK
  <2>2. UNCHANGED <<file, before, after>> /\ phase'[n] = "none" /\ pc'[n] = "dropdir"
    BY <1>5 DEF DropJournal
  <2> QED BY <2>1, <2>2 DEF ContentsOK
<1>6. CASE DropDirectory(n)
  <2>1. UNCHANGED <<file, before, after, phase>> /\ pc'[n] \in {"plan", "idle"}
    BY <1>6 DEF DropDirectory, AfterRecovery
  <2> QED BY <1>6, <2>1 DEF ContentsOK, DropDirectory, PlaceOK
<1>7. CASE \E new \in [Paths(n) -> Contents], expected \in [Paths(n) -> Data] :
              Preflight(n, new, expected)
  <2>1. PICK new \in [Paths(n) -> Contents], expected \in [Paths(n) -> Data] :
           Preflight(n, new, expected) BY <1>7
  <2>2. phase[n] = "none" /\ phase' = phase /\ file' = file
    BY <2>1 DEF Preflight, PlaceOK
  <2>3. CASE pc'[n] = "mkdir"
    <3>1. before'[n] = Noted(n, before[n], file) BY <2>1, <2>3 DEF Preflight
    <3>2. \A f \in Paths(n) : before'[n][f] = file[f] BY <3>1, TargetFacts DEF Noted
    <3>3. Whole(file', before'[n], n) BY <2>2, <3>2 DEF Whole
    <3>4. Mixed(file', before'[n], after'[n], n) BY <3>3, EndsMeet
    <3> QED BY <2>2, <2>3, <3>3, <3>4 DEF ContentsOK
  <2>4. CASE pc'[n] = "idle" /\ UNCHANGED <<before, after>>
    BY <2>2, <2>4 DEF ContentsOK
  <2> QED BY <2>1, <2>3, <2>4 DEF Preflight
<1>8. CASE MakeDirectory(n) BY <1>8 DEF MakeDirectory, ContentsOK
<1>9. CASE Prepare(n) BY <1>9 DEF Prepare, ContentsOK
<1>10. CASE Apply(n)
  <2>1. /\ UNCHANGED <<file, before, after>>
        /\ phase'[n] = "APPLYING" /\ pc'[n] = "check" /\ k'[n] - 1 = 0
    BY <1>10 DEF Apply
  <2>2. Applied(file, before[n], after[n], n, 0)
    BY <1>10, EndsMeet DEF Apply, ContentsOK
  <2> QED BY <2>1, <2>2 DEF ContentsOK
<1>11. CASE Check(n) BY <1>11 DEF Check, ContentsOK, PlaceOK
<1>12. CASE Write(n)
  <2>1. /\ file' = [file EXCEPT ![Targets[n][k[n]]] = after[n][Targets[n][k[n]]]]
        /\ UNCHANGED <<k, phase, before, after>> /\ pc'[n] = "verify"
        /\ phase[n] = "APPLYING" /\ k[n] \in 1..Len(Targets[n])
    BY <1>0, <1>12 DEF Write, Put, Target, PlaceOK
  <2>2. /\ Applied(file', before[n], after[n], n, k[n])
        /\ Mixed(file', before[n], after[n], n)
    BY <1>12, <2>1, WriteAdvances DEF Write, ContentsOK
  <2> QED BY <2>1, <2>2 DEF ContentsOK
<1>13. CASE Verify(n) BY <1>13 DEF Verify, ContentsOK, PlaceOK
<1>14. CASE Note(n)
  <2>1. UNCHANGED <<file, phase, before, after>> /\ phase[n] = "APPLYING"
    BY <1>14 DEF Note, PlaceOK
  <2>2. \/ pc'[n] = "check" /\ k'[n] = k[n] + 1
        \/ pc'[n] = "commit" /\ k'[n] = k[n]
    BY <1>0, <1>14 DEF Note
  <2>3. k'[n] = k[n] + 1 => k'[n] - 1 = k[n] BY <1>0
  <2> QED BY <1>14, <2>1, <2>2, <2>3 DEF Note, ContentsOK
<1>15. CASE Commit(n)
  <2>1. Whole(file, after[n], n)
    BY <1>15, EndsMeet DEF Commit, PlaceOK, ContentsOK
  <2> QED BY <1>15, <2>1 DEF Commit, ContentsOK
<1>16. CASE UnlinkJournal(n) BY <1>16 DEF UnlinkJournal, ContentsOK, PlaceOK
<1>17. CASE RemoveDirectory(n) BY <1>17 DEF RemoveDirectory, ContentsOK, PlaceOK
<1>18. CASE Raise(n)
  <2>1. UNCHANGED <<file, phase, before, after, late>> /\ pc'[n] = "fail" BY <1>18 DEF Raise
  <2> QED BY <2>1 DEF ContentsOK
<1>19. CASE Handle(n)
  <2>1. UNCHANGED <<file, phase, before, after>> /\ pc[n] = "fail" BY <1>19 DEF Handle
  <2>2. \/ pc'[n] = "revert" /\ k'[n] = Len(Targets[n]) /\ (phase[n] = "COMMITTED" => late'[n])
        \/ pc'[n] = "idle" /\ late' = late
    BY <1>19 DEF Handle
  <2>3. Restored(file, before[n], n, Len(Targets[n])) BY EndsMeet
  <2> QED BY <2>1, <2>2, <2>3 DEF ContentsOK
<1>20. CASE Revert(n) BY <1>20, ContentsRestore DEF Revert
<1>21. CASE Crash(n)
  <2>1. UNCHANGED <<file, phase, before, after, late>> /\ pc'[n] = "idle" BY <1>21 DEF Crash
  <2> QED BY <2>1 DEF ContentsOK
<1>22. CASE GiveUp(n)
  <2>1. UNCHANGED <<file, phase, before, after, late>> /\ pc'[n] = "idle" BY <1>22 DEF GiveUp
  <2> QED BY <2>1 DEF ContentsOK
<1> QED BY <1>1, <1>2, <1>3, <1>4, <1>5, <1>6, <1>7, <1>8, <1>9, <1>10, <1>11, <1>12,
           <1>13, <1>14, <1>15, <1>16, <1>17, <1>18, <1>19, <1>20, <1>21, <1>22
        DEF OwnStep, Step

(* Destinations that were left alone, or edited from outside, still read   *)
(* as they did.                                                            *)
LEMMA ContentsFrame ==
    ASSUME TypeOK, NEW n \in Names, ContentsOK(n),
           phase'[n] = phase[n], pc'[n] = pc[n], k'[n] = k[n],
           before'[n] = before[n], after'[n] = after[n], late'[n] = late[n],
           \A f \in Paths(n) : file'[f] = file[f] \/ file'[f] \in Foreign
    PROVE  ContentsOK(n)'
<1>1. k[n] \in Int /\ k[n] - 1 \in Int BY DEF TypeOK
<1>2. /\ Whole(file, before[n], n) => Whole(file', before[n], n)
      /\ Whole(file, after[n], n) => Whole(file', after[n], n)
      /\ Mixed(file, before[n], after[n], n) => Mixed(file', before[n], after[n], n)
  BY EditKeeps
<1>3. \A j \in {k[n], k[n] - 1} :
         /\ Applied(file, before[n], after[n], n, j) =>
               Applied(file', before[n], after[n], n, j)
         /\ Restored(file, before[n], n, j) => Restored(file', before[n], n, j)
  BY <1>1, EditKeeps
<1> QED BY <1>2, <1>3 DEF ContentsOK

(***************************************************************************)
(* The invariant, and what follows from it.                                *)
(***************************************************************************)

LEMMA IInvInit == Init => IInv
<1> SUFFICES ASSUME Init PROVE IInv OBVIOUS
<1>1. TypeOK BY TypeInit
<1>2. ASSUME NEW n \in Names PROVE PlaceOK(n) /\ ContentsOK(n)
  <2>1. PlaceOK(n) BY DEF Init, PlaceOK
  <2>2. phase[n] = "none" /\ pc[n] = "idle" /\ before[n] = file BY DEF Init
  <2>3. Whole(file, before[n], n) BY <2>2 DEF Whole
  <2>4. Mixed(file, before[n], after[n], n) BY <2>3, EndsMeet
  <2> QED BY <2>1, <2>2, <2>3, <2>4 DEF ContentsOK
<1> QED BY <1>1, <1>2 DEF IInv

LEMMA IInvStep == IInv /\ [Next]_vars => IInv'
<1> SUFFICES ASSUME IInv, [Next]_vars PROVE IInv' OBVIOUS
<1> USE DEF IInv
<1>0. TypeOK' BY TypeStep
<1>1. ASSUME NEW n \in Names, OwnStep(n), NEW m \in Names
      PROVE  PlaceOK(m)' /\ ContentsOK(m)'
  <2>1. CASE m = n BY <1>1, <2>1, PlaceStep, ContentsStep
  <2>2. CASE m # n
    <3>1. Stays(m) BY <1>1, <2>2, OthersStay
    <3>2. PlaceOK(m)' BY <3>1 DEF Stays, PlaceOK, Pending
    <3>3. ContentsOK(m)' BY <3>1, ContentsFrame DEF Stays
    <3> QED BY <3>2, <3>3
  <2> QED BY <2>1, <2>2
<1>2. ASSUME NEW f \in Files, NEW c \in Foreign, Edit(f, c), NEW m \in Names
      PROVE  PlaceOK(m)' /\ ContentsOK(m)'
  <2>1. UNCHANGED <<disk, records, pc, k>> /\ file' = [file EXCEPT ![f] = c]
    BY <1>2 DEF Edit, Put
  <2>2. \A g \in Paths(m) : file'[g] = file[g] \/ file'[g] \in Foreign
    BY <2>1, TargetFacts DEF TypeOK
  <2>3. PlaceOK(m)' BY <2>1 DEF PlaceOK, Pending, disk, records
  <2>4. ContentsOK(m)' BY <2>1, <2>2, ContentsFrame DEF disk, records
  <2> QED BY <2>3, <2>4
<1>3. ASSUME UNCHANGED vars, NEW m \in Names PROVE PlaceOK(m)' /\ ContentsOK(m)'
  BY <1>3 DEF vars, disk, records, PlaceOK, ContentsOK, Pending
<1> QED BY <1>0, <1>1, <1>2, <1>3 DEF Next, OwnStep

(* The inductive invariant holds in every reachable state.                 *)
LEMMA AlwaysIInv == Spec => []IInv
BY IInvInit, IInvStep, PTL DEF Spec

(* The variables of the transactions keep their types: a process that      *)
(* stands on a record stands on one of its own (transaction.py:152-165).   *)
THEOREM TypeCorrect == Spec => []TypeOK
<1>1. IInv => TypeOK BY DEF IInv
<1> QED BY <1>1, AlwaysIInv, PTL

\* What holds wherever exceptions strike: no destination ever holds anything
\* but its old or its new contents or an outside edit, and without a journal
\* to say otherwise the destinations of a name are all old or all new.
NeverTorn ==
    \A n \in Names :
        /\ \A f \in Paths(n) : file[f] \in {before[n][f], after[n][f]} \cup Foreign
        /\ phase[n] = "none" => Holds(n, before[n]) \/ Holds(n, after[n])
        /\ phase[n] = "ROLLED_BACK" => Holds(n, before[n])

(* Whatever crashes, exceptions and edits: a destination is old, new or    *)
(* edited, and half of a transaction is never without its journal          *)
(* (transaction.py:136-184).                                               *)
THEOREM NothingTorn == Spec => []NeverTorn
<1>1. IInv => NeverTorn BY DEF IInv, ContentsOK, NeverTorn, Mixed, Whole, Holds
<1> QED BY <1>1, AlwaysIInv, PTL

(* The journal never lies (transaction.py:64-66), whatever the exceptions, *)
(* but while a COMMITTED transaction is being taken back or was left half  *)
(* taken back (transaction.py:170-179).                                    *)
THEOREM JournalIsTrue == Spec => []JournalTells
<1>1. IInv => JournalTells BY DEF IInv, ContentsOK, JournalTells, Whole, Holds
<1> QED BY <1>1, AlwaysIInv, PTL

(* Half of a transaction is always under a pending journal, or under a     *)
(* COMMITTED one that an exception was taking back (transaction.py:136-184). *)
THEOREM RestsAreWhole == Spec => []RestsWhole
<1>1. IInv => RestsWhole
  BY DEF IInv, TypeOK, Phases, ContentsOK, RestsWhole, Pending, Whole, Holds, Mixed
<1> QED BY <1>1, AlwaysIInv, PTL

(***************************************************************************)
(* The transactions implement AtomicFiles.                                 *)
(***************************************************************************)

\* What a reader finds in file f of name n once recovery has run.
Seen(n, f) ==
    IF Pending(n) /\ file[f] = after[n][f] THEN before[n][f] ELSE file[f]

(* Each file is owned by the one name that has it among its targets.       *)
LEMMA OwnerIsName ==
    /\ \A f \in Files : Owner[f] \in Names /\ f \in Paths(Owner[f])
    /\ \A n \in Names : \A f \in Paths(n) : Owner[f] = n
<1>1. \A f \in Files : \E n \in Names : f \in Paths(n) BY DEF Files
<1>2. \A f \in Files : Owner[f] \in Names /\ f \in Paths(Owner[f]) BY <1>1 DEF Owner
<1> QED BY <1>2, TargetFacts

LEMMA VisibleIsSeen ==
    ASSUME NEW n \in Names, NEW f \in Paths(n)
    PROVE  Visible(f) = Seen(n, f) /\ Visible(f)' = Seen(n, f)'
<1>1. Owner[f] = n BY OwnerIsName
<1>2. Visible(f) = Seen(n, f) BY <1>1 DEF Visible, Seen
<1>3. Visible(f)' = Seen(n, f)' BY <1>1 DEF Visible, Seen
<1> QED BY <1>2, <1>3

\* The journal says COMMITTED before and after the step, or neither time.
SameOpen(n) == phase'[n] = "COMMITTED" <=> phase[n] = "COMMITTED"
SameRecords == after' = after /\ before' = before

\* The six ways in which a step of n may show.
Hidden(n) ==
    /\ SameRecords /\ SameOpen(n)
    /\ \A f \in Paths(n) : Seen(n, f)' = Seen(n, f)
Announced(n) ==
    /\ phase[n] # "COMMITTED" /\ SameOpen(n)
    /\ \E w \in [Files -> Contents] : after' = [after EXCEPT ![n] = w]
    /\ before' = [before EXCEPT ![n] = Noted(n, before[n], [f \in Files |-> Visible(f)])]
    /\ \A f \in Paths(n) : Seen(n, f)' = Seen(n, f)
Committed(n) ==
    /\ SameRecords
    /\ phase[n] # "COMMITTED" /\ phase'[n] = "COMMITTED"
    /\ \A f \in Paths(n) : Seen(n, f)' = IF file[f] \in Foreign THEN Seen(n, f)
                                                             ELSE after[n][f]
    /\ \A f \in Paths(n) : file[f] \in Foreign => Seen(n, f) \in Foreign
Settled(n) ==
    /\ SameRecords
    /\ phase[n] = "COMMITTED" /\ phase'[n] # "COMMITTED"
    /\ \A f \in Paths(n) : Seen(n, f) = file[f] /\ Seen(n, f)' = file[f]
    /\ Whole(file, after[n], n) \/ Whole(file, before[n], n)
TakenBack(n) ==
    /\ SameRecords
    /\ phase[n] = "COMMITTED" /\ phase'[n] = "COMMITTED"
    /\ \E g \in Paths(n) :
          /\ Seen(n, g)' = before[n][g]
          /\ \A f \in Paths(n) : f # g => Seen(n, f)' = Seen(n, f)
EditLost(n) ==
    /\ SameRecords /\ SameOpen(n)
    /\ \E g \in Paths(n) :
          /\ Seen(n, g) \in Foreign /\ Seen(n, g)' \in Data
          /\ \A f \in Paths(n) : f # g => Seen(n, f)' = Seen(n, f)

(* Nothing but the phase of the journal changes, under contents for which  *)
(* a pending journal and a rolled back one show the same.                  *)
LEMMA OldIsSeen ==
    ASSUME TypeOK, NEW n \in Names, Whole(file, before[n], n)
    PROVE  \A f \in Paths(n) : Seen(n, f) = file[f]
<1> SUFFICES ASSUME NEW f \in Paths(n) PROVE Seen(n, f) = file[f] OBVIOUS
<1>1. file[f] = before[n][f] \/ file[f] \in Foreign BY DEF Whole
<1>2. after[n][f] \notin Foreign BY ContentsAssumption, TargetFacts DEF TypeOK
<1> QED BY <1>1, <1>2 DEF Seen

(* Restoring under a pending journal shows nothing, but for an edit that   *)
(* it overwrites; under a COMMITTED one it takes a file back, or settles.   *)
LEMMA RestoreShows ==
    ASSUME TypeOK, NEW n \in Names, PlaceOK(n), ContentsOK(n),
           NEW here \in {"undo", "revert"}, NEW next, Restore(n, here, next)
    PROVE  Hidden(n) \/ EditLost(n) \/ TakenBack(n) \/ Settled(n)
<1> USE DEF TypeOK
<1>0. /\ pc[n] = here /\ SameRecords
      /\ Pending(n) \/ phase[n] = "COMMITTED"
      /\ Restored(file, before[n], n, k[n])
  <2>1. pc[n] = here /\ SameRecords BY DEF Restore, records, SameRecords
  <2>2. CASE here = "undo" BY <2>1, <2>2 DEF PlaceOK, ContentsOK
  <2>3. CASE here = "revert" BY <2>1, <2>3 DEF PlaceOK, ContentsOK
  <2> QED BY <2>1, <2>2, <2>3
<1>00. before' = before /\ after' = after BY <1>0 DEF SameRecords
<1>1. CASE k[n] > 0
  <2>1. PICK g \in Paths(n) : g = Target(n) /\ g \in Files BY <1>1, TargetIsFile
  <2>2. /\ file' = [file EXCEPT ![g] = before[n][g]] /\ phase' = phase
    BY <1>1, <2>1 DEF Restore, Put, disk
  <2>3. Pending(n)' = Pending(n) /\ SameOpen(n) BY <2>2 DEF Pending, SameOpen
  <2>4. \A f \in Paths(n) : f # g => file'[f] = file[f] BY <2>2, TargetFacts
  <2>5. \A f \in Paths(n) : f # g => Seen(n, f)' = Seen(n, f)
    BY <1>00, <2>3, <2>4 DEF Seen
  <2>6. file'[g] = before[n][g] BY <2>1, <2>2
  <2>7. Seen(n, g)' = before[n][g] BY <1>00, <2>6 DEF Seen
  <2>8. file[g] \in {before[n][g], after[n][g]} \cup Foreign
    BY <2>1 DEF ContentsOK, Mixed
  <2>9. CASE Pending(n) /\ file[g] \in {before[n][g], after[n][g]}
    <3>1. Seen(n, g) = before[n][g] BY <2>9 DEF Seen
    <3> QED BY <1>0, <2>3, <2>5, <2>7, <3>1 DEF Hidden
  <2>10. CASE Pending(n) /\ file[g] \notin {before[n][g], after[n][g]}
    <3>1. Seen(n, g) \in Foreign BY <2>8, <2>10 DEF Seen
    <3>2. before[n][g] \in Data BY <2>1
    <3> QED BY <1>0, <2>1, <2>3, <2>5, <2>7, <3>1, <3>2 DEF EditLost
  <2>11. CASE phase[n] = "COMMITTED"
    BY <1>0, <2>1, <2>2, <2>5, <2>7, <2>11 DEF TakenBack
  <2> QED BY <1>0, <2>9, <2>10, <2>11
<1>2. CASE k[n] = 0
  <2>1. file' = file /\ phase'[n] = "ROLLED_BACK"
    BY <1>2 DEF Restore, Journal
  <2>2. Restored(file, before[n], n, 0) BY <1>0, <1>2
  <2>3. Whole(file, before[n], n) BY <2>2, EndsMeet
  <2>4. \A f \in Paths(n) : Seen(n, f) = file[f] BY <2>3, OldIsSeen
  <2>5. \A f \in Paths(n) : Seen(n, f)' = file[f] BY <2>1 DEF Seen, Pending
  <2>6. CASE Pending(n) BY <1>0, <2>1, <2>4, <2>5, <2>6 DEF Hidden, SameOpen, Pending
  <2>7. CASE phase[n] = "COMMITTED" BY <1>0, <2>1, <2>3, <2>4, <2>5, <2>7 DEF Settled
  <2> QED BY <1>0, <2>6, <2>7
<1>3. k[n] > 0 \/ k[n] = 0 OBVIOUS
<1> QED BY <1>1, <1>2, <1>3

(* A COMMITTED journal goes over whole files.                              *)
LEMMA GoneShows ==
    ASSUME NEW n \in Names, UNCHANGED <<file, before, after>>,
           phase[n] = "COMMITTED", phase'[n] = "none",
           Whole(file, after[n], n) \/ Whole(file, before[n], n)
    PROVE  Settled(n)
BY DEF Settled, Seen, Pending, SameRecords

(* A step that writes no destination and changes neither records nor       *)
(* whether the journal is pending shows nothing.                           *)
LEMMA QuietShows ==
    ASSUME NEW n \in Names, UNCHANGED <<file, before, after>>,
           Pending(n)' = Pending(n), SameOpen(n)
    PROVE  Hidden(n)
BY DEF Hidden, Seen, SameRecords

(* Every step of a process shows in one of the six ways.                   *)
LEMMA StepShows ==
    ASSUME TypeOK, NEW n \in Names, PlaceOK(n), ContentsOK(n), OwnStep(n)
    PROVE  \/ Hidden(n) \/ Announced(n) \/ Committed(n)
           \/ Settled(n) \/ TakenBack(n) \/ EditLost(n)
<1> USE DEF Goto, Journal, disk, records, bounds, SameOpen, SameRecords
<1>1. CASE \E j \in {"commit", "recover"} : Call(n, j) BY <1>1, QuietShows DEF Call, Pending
<1>2. CASE ScanRefused(n) BY <1>2, QuietShows DEF ScanRefused, Pending
<1>3. CASE Scan(n) BY <1>3, QuietShows DEF Scan, Pending
<1>4. CASE Undo(n) BY <1>4, RestoreShows DEF Undo
<1>5. CASE DropJournal(n)
  <2>1. UNCHANGED <<file, before, after>> /\ phase'[n] = "none"
    BY <1>5 DEF DropJournal, TypeOK
  <2>2. phase[n] \in {"COMMITTED", "ROLLED_BACK"} /\ pc[n] = "drop"
    BY <1>5 DEF DropJournal, PlaceOK
  <2>3. CASE phase[n] = "ROLLED_BACK" BY <2>1, <2>3, QuietShows DEF Pending
  <2>4. CASE phase[n] = "COMMITTED"
    BY <2>1, <2>2, <2>4, GoneShows DEF ContentsOK
  <2> QED BY <2>2, <2>3, <2>4
<1>6. CASE DropDirectory(n) BY <1>6, QuietShows DEF DropDirectory, Pending
<1>7. CASE \E new \in [Paths(n) -> Contents], expected \in [Paths(n) -> Data] :
              Preflight(n, new, expected)
  <2>1. PICK new \in [Paths(n) -> Contents], expected \in [Paths(n) -> Data] :
           Preflight(n, new, expected) BY <1>7
  <2>2. phase[n] = "none" /\ phase' = phase /\ file' = file
    BY <2>1 DEF Preflight, PlaceOK
  <2>3. \A f \in Paths(n) : Seen(n, f) = file[f] /\ Seen(n, f)' = file[f]
    BY <2>2 DEF Seen, Pending
  <2>4. CASE UNCHANGED <<before, after>> BY <2>2, <2>3, <2>4 DEF Hidden
  <2>5. CASE /\ after' = [after EXCEPT ![n] = Noted(n, after[n], new)]
             /\ before' = [before EXCEPT ![n] = Noted(n, before[n], file)]
    <3>1. Noted(n, after[n], new) \in [Files -> Contents] BY DEF Noted, TypeOK
    <3>2. \A f \in Paths(n) : Visible(f) = file[f] BY <2>3, VisibleIsSeen
    <3>3. Noted(n, before[n], file) = Noted(n, before[n], [f \in Files |-> Visible(f)])
      BY <3>2 DEF Noted
    <3> QED BY <2>2, <2>3, <2>5, <3>1, <3>3 DEF Announced
  <2> QED BY <2>1, <2>4, <2>5 DEF Preflight
<1>8. CASE MakeDirectory(n) BY <1>8, QuietShows DEF MakeDirectory, Pending
<1>9. CASE Prepare(n)
  <2>1. UNCHANGED <<file, before, after>> /\ phase'[n] = "PREPARED" /\ phase[n] = "none"
    BY <1>9 DEF Prepare, PlaceOK, TypeOK
  <2>2. Whole(file, before[n], n) BY <1>9 DEF Prepare, ContentsOK
  <2>3. \A f \in Paths(n) : file[f] = after[n][f] => file[f] = before[n][f]
    BY <2>2, ContentsAssumption, TargetFacts DEF Whole, TypeOK
  <2> QED BY <2>1, <2>3 DEF Hidden, Seen, Pending
<1>10. CASE Apply(n)
  <2>1. /\ UNCHANGED <<file, before, after>>
        /\ phase'[n] = "APPLYING" /\ phase[n] = "PREPARED"
    BY <1>10 DEF Apply, PlaceOK, TypeOK
  <2> QED BY <2>1, QuietShows DEF Pending
<1>11. CASE Check(n) BY <1>11, QuietShows DEF Check, Pending
<1>12. CASE Write(n)
  <2>0. k[n] \in 1..Len(Targets[n]) /\ phase[n] = "APPLYING" /\ pc[n] = "write"
    BY <1>12, TargetIsFile DEF Write, PlaceOK, TypeOK
  <2>1. PICK g \in Paths(n) : g = Target(n) /\ g \in Files BY <2>0, TargetIsFile
  <2>2. file' = [file EXCEPT ![g] = after[n][g]] /\ UNCHANGED <<phase, before, after>>
    BY <1>12, <2>1 DEF Write, Put
  <2>3. file[g] \in {before[n][g]} \cup Foreign
    <3>1. Applied(file, before[n], after[n], n, k[n] - 1) BY <2>0 DEF ContentsOK
    <3>2. k[n] > k[n] - 1 BY <2>0, TargetFacts
    <3> QED BY <2>0, <2>1, <3>1, <3>2 DEF Applied, Target
  <2>4. Pending(n) /\ Pending(n)' BY <2>0, <2>2 DEF Pending
  <2>5. \A f \in Paths(n) : f # g => file'[f] = file[f]
    BY <2>2, TargetFacts DEF TypeOK
  <2>6. \A f \in Paths(n) : f # g => Seen(n, f)' = Seen(n, f)
    BY <2>2, <2>4, <2>5 DEF Seen
  <2>7. file'[g] = after[n][g] BY <2>1, <2>2 DEF TypeOK
  <2>8. Seen(n, g)' = before[n][g] BY <2>2, <2>4, <2>7 DEF Seen
  <2>9. CASE file[g] = before[n][g]
    <3>1. Seen(n, g) = before[n][g] BY <2>4, <2>9 DEF Seen
    <3> QED BY <2>2, <2>6, <2>8, <3>1 DEF Hidden
  <2>10. CASE file[g] # before[n][g]
    <3>1. file[g] \in Foreign /\ file[g] # after[n][g]
      BY <2>1, <2>3, <2>10, ContentsAssumption DEF TypeOK
    <3>2. Seen(n, g) \in Foreign BY <3>1 DEF Seen
    <3>3. before[n][g] \in Data BY <2>1 DEF TypeOK
    <3> QED BY <2>1, <2>2, <2>6, <2>8, <3>2, <3>3 DEF EditLost
  <2> QED BY <2>9, <2>10
<1>13. CASE Verify(n) BY <1>13, QuietShows DEF Verify, Pending
<1>14. CASE Note(n) BY <1>14, QuietShows DEF Note, Pending
<1>15. CASE Commit(n)
  <2>1. UNCHANGED <<file, before, after>> /\ phase'[n] = "COMMITTED"
    BY <1>15 DEF Commit, TypeOK
  <2>2. Whole(file, after[n], n) BY <1>15, EndsMeet DEF Commit, PlaceOK, ContentsOK
  <2>3. \A f \in Paths(n) : Seen(n, f)' = file[f] BY <2>1 DEF Seen, Pending
  <2>4. \A f \in Paths(n) : file[f] \in Foreign => Seen(n, f) = file[f]
    BY ContentsAssumption, TargetFacts DEF Seen, TypeOK
  <2>5. \A f \in Paths(n) : file[f] \notin Foreign => file[f] = after[n][f]
    BY <2>2 DEF Whole
  <2>6. phase[n] # "COMMITTED" BY <1>15 DEF Commit, PlaceOK
  <2> QED BY <2>1, <2>3, <2>4, <2>5, <2>6 DEF Committed
<1>16. CASE UnlinkJournal(n)
  <2>1. UNCHANGED <<file, before, after>> /\ phase'[n] = "none" /\ phase[n] = "COMMITTED"
    BY <1>16 DEF UnlinkJournal, PlaceOK, TypeOK
  <2>2. Whole(file, after[n], n) BY <1>16, <2>1 DEF UnlinkJournal, ContentsOK
  <2> QED BY <2>1, <2>2, GoneShows
<1>17. CASE RemoveDirectory(n) BY <1>17, QuietShows DEF RemoveDirectory, Pending
<1>18. CASE Raise(n) BY <1>18, QuietShows DEF Raise, Pending
<1>19. CASE Handle(n) BY <1>19, QuietShows DEF Handle, Pending
<1>20. CASE Revert(n) BY <1>20, RestoreShows DEF Revert
<1>21. CASE Crash(n) BY <1>21, QuietShows DEF Crash, Pending
<1>22. CASE GiveUp(n) BY <1>22, QuietShows DEF GiveUp, Pending
<1> QED BY <1>1, <1>2, <1>3, <1>4, <1>5, <1>6, <1>7, <1>8, <1>9, <1>10, <1>11, <1>12,
           <1>13, <1>14, <1>15, <1>16, <1>17, <1>18, <1>19, <1>20, <1>21, <1>22
        DEF OwnStep, Step

(* A name whose files and journal are left alone shows nothing new.        *)
LEMMA StaysShows ==
    ASSUME NEW m \in Names, Stays(m), NEW f \in Paths(m) PROVE Seen(m, f)' = Seen(m, f)
BY DEF Stays, Seen, Pending

LEMMA AbstractFiles ==
    Abstract!Files = Files /\ \A n \in Names : Abstract!Range(Targets[n]) = Paths(n)
BY DEF Abstract!Files, Abstract!Range, Range, Files, Paths

\* What is visible, and what is open, as AtomicFiles has them.
Vis == [f \in Files |-> Visible(f)]
Open == [n \in Names |-> phase[n] = "COMMITTED"]

(* How a step of n looks in AtomicFiles.                                   *)
LEMMA StepImplements ==
    ASSUME IInv, NEW n \in Names, OwnStep(n)
    PROVE  [Abstract!Next]_(Abstract!avars)
<1> USE DEF IInv
<1>1. \/ Hidden(n) \/ Announced(n) \/ Committed(n)
      \/ Settled(n) \/ TakenBack(n) \/ EditLost(n)
  BY StepShows
<1>01. \A m \in Names : m # n => phase'[m] = phase[m] BY OthersStay DEF Stays
<1>02. ASSUME SameOpen(n) PROVE Open' = Open BY <1>01, <1>02 DEF Open, SameOpen
<1>03. Open[n] = (phase[n] = "COMMITTED") BY DEF Open
<1>04. ASSUME NEW b \in BOOLEAN, (phase'[n] = "COMMITTED") = b
       PROVE  Open' = [Open EXCEPT ![n] = b]
  BY <1>01, <1>04 DEF Open
<1>2. \A f \in Files : f \notin Paths(n) => Visible(f)' = Visible(f)
  <2> SUFFICES ASSUME NEW f \in Files, f \notin Paths(n) PROVE Visible(f)' = Visible(f)
    OBVIOUS
  <2>1. PICK m \in Names : f \in Paths(m) BY OwnerIsName
  <2>2. m # n BY <2>1
  <2>3. Stays(m) BY <2>2, OthersStay
  <2> QED BY <2>1, <2>3, StaysShows, VisibleIsSeen
<1>3. \A f \in Paths(n) : Visible(f) = Seen(n, f) /\ Visible(f)' = Seen(n, f)'
  BY VisibleIsSeen
<1>4. Abstract!Range(Targets[n]) = Paths(n) /\ Paths(n) \subseteq Files
  BY TargetFacts, AbstractFiles
<1>5. Abstract!Files = Files BY AbstractFiles
<1>6. Vis' = [f \in Files |-> Visible(f)'] BY DEF Vis
<1>7. ASSUME \A f \in Paths(n) : Seen(n, f)' = Seen(n, f) PROVE Vis' = Vis
  BY <1>2, <1>3, <1>6, <1>7 DEF Vis
<1>8. CASE Hidden(n)
  <2>1. Vis' = Vis /\ after' = after /\ before' = before /\ Open' = Open
    BY <1>7, <1>02, <1>8 DEF Hidden, SameRecords
  <2> QED BY <2>1 DEF Abstract!avars, Vis, Open
<1>9. CASE Announced(n)
  <2>1. Vis' = Vis /\ Open' = Open /\ ~Open[n] BY <1>7, <1>02, <1>03, <1>9 DEF Announced
  <2>2. Noted(n, before[n], Vis) =
           [f \in Files |-> IF f \in Paths(n) THEN Vis[f] ELSE before[n][f]]
    BY DEF Noted
  <2>3. before' = [before EXCEPT ![n] = Noted(n, before[n], Vis)] BY <1>9 DEF Announced, Vis
  <2>5. PICK w \in [Files -> Contents] : after' = [after EXCEPT ![n] = w]
    BY <1>9 DEF Announced
  <2>6. before' = [before EXCEPT ![n] =
           [f \in Files |-> IF f \in Abstract!Range(Targets[n]) THEN Vis[f] ELSE before[n][f]]]
    BY <1>4, <2>2, <2>3
  <2>4. Abstract!Announce(n)
    BY <1>5, <2>1, <2>5, <2>6 DEF Abstract!Announce, Vis, Open
  <2> QED BY <2>4 DEF Abstract!Next
<1>10. CASE Committed(n)
  <2> DEFINE kept == {f \in Paths(n) : file[f] \in Foreign}
  <2>1. \A f \in kept : Vis[f] \in Foreign
    BY <1>3, <1>4, <1>10 DEF Committed, Vis
  <2>2. Vis' = [f \in Files |-> IF f \in Paths(n) \ kept THEN after[n][f] ELSE Vis[f]]
    BY <1>2, <1>3, <1>4, <1>6, <1>10 DEF Committed, Vis
  <2>3. kept \in SUBSET {f \in Abstract!Range(Targets[n]) : Vis[f] \in Foreign} BY <1>4, <2>1
  <2> HIDE DEF kept
  <2>5. ~Open[n] /\ Open' = [Open EXCEPT ![n] = TRUE]
    BY <1>03, <1>04, <1>10 DEF Committed
  <2>6. after' = after /\ before' = before BY <1>10 DEF Committed, SameRecords
  <2>4. Abstract!Commit(n)
    BY <1>4, <1>5, <2>2, <2>3, <2>5, <2>6 DEF Abstract!Commit, Vis, Open
  <2> QED BY <2>4 DEF Abstract!Next
<1>11. CASE EditLost(n)
  <2>1. PICK g \in Paths(n) :
           /\ Seen(n, g) \in Foreign /\ Seen(n, g)' \in Data
           /\ \A f \in Paths(n) : f # g => Seen(n, f)' = Seen(n, f)
    BY <1>11 DEF EditLost
  <2>2. PICK c \in Data : c = Seen(n, g)' BY <2>1
  <2>3. Vis' = [Vis EXCEPT ![g] = c] BY <1>2, <1>3, <1>4, <1>6, <2>1, <2>2 DEF Vis
  <2>4. Vis[g] \in Foreign /\ g \in Files BY <1>3, <1>4, <2>1 DEF Vis
  <2>6. after' = after /\ before' = before /\ Open' = Open
    BY <1>02, <1>11 DEF EditLost, SameRecords
  <2>5. Abstract!Edit(g) \/ Abstract!LoseEdit(g)
    <3>1. CASE c \in Foreign BY <2>3, <2>6, <3>1 DEF Abstract!Edit, Vis, Open
    <3>2. CASE c \in Contents BY <2>3, <2>4, <2>6, <3>2 DEF Abstract!LoseEdit, Vis, Open
    <3> QED BY <3>1, <3>2 DEF Data
  <2> QED BY <1>5, <2>4, <2>5 DEF Abstract!Next
<1>12. CASE Settled(n)
  <2>1. Vis' = Vis BY <1>7, <1>12 DEF Settled
  <2>2. Open[n] /\ Open' = [Open EXCEPT ![n] = FALSE] BY <1>03, <1>04, <1>12 DEF Settled
  <2>3. after' = after /\ before' = before BY <1>12 DEF Settled, SameRecords
  <2>4. \A f \in Paths(n) : Vis[f] = file[f] BY <1>3, <1>4, <1>12 DEF Settled, Vis
  <2>5. \/ \A f \in Paths(n) : Vis[f] \in {after[n][f]} \cup Foreign
        \/ \A f \in Paths(n) : Vis[f] \in {before[n][f]} \cup Foreign
    BY <1>12, <2>4 DEF Settled, Whole
  <2>6. Abstract!Settle(n)
    BY <1>4, <2>1, <2>2, <2>3, <2>5 DEF Abstract!Settle, Abstract!Reads, Vis, Open
  <2> QED BY <2>6 DEF Abstract!Next
<1>13. CASE TakenBack(n)
  <2>1. PICK g \in Paths(n) :
           /\ Seen(n, g)' = before[n][g]
           /\ \A f \in Paths(n) : f # g => Seen(n, f)' = Seen(n, f)
    BY <1>13 DEF TakenBack
  <2>2. Vis' = [Vis EXCEPT ![g] = before[n][g]]
    BY <1>2, <1>3, <1>4, <1>6, <2>1 DEF Vis
  <2>3. Open[n] /\ Open' = Open BY <1>02, <1>03, <1>13 DEF TakenBack, SameOpen
  <2>4. after' = after /\ before' = before BY <1>13 DEF TakenBack, SameRecords
  <2>5. Abstract!TakeBack(n, g) BY <2>2, <2>3, <2>4 DEF Abstract!TakeBack, Vis, Open
  <2> QED BY <1>4, <2>1, <2>5 DEF Abstract!Next
<1> QED BY <1>1, <1>8, <1>9, <1>10, <1>11, <1>12, <1>13

(* An outside edit is one there too: its contents are those of no          *)
(* transaction, so a pending journal does not hide it.                     *)
LEMMA EditImplements ==
    ASSUME IInv, NEW g \in Files, NEW c \in Foreign, Edit(g, c)
    PROVE  [Abstract!Next]_(Abstract!avars)
<1>1. file' = [file EXCEPT ![g] = c] /\ UNCHANGED <<phase, before, after>>
  BY DEF Edit, Put, disk, records
<1>2. file'[g] = c /\ \A f \in Files : f # g => file'[f] = file[f]
  BY <1>1 DEF IInv, TypeOK
<1>3. \A f \in Files : Owner[f] \in Names BY OwnerIsName
<1>4. \A f \in Files : f # g => Visible(f)' = Visible(f)
  BY <1>1, <1>2 DEF Visible, Pending
<1>5. c # after[Owner[g]][g] BY <1>3, ContentsAssumption DEF IInv, TypeOK
<1>6. Visible(g)' = c BY <1>1, <1>2, <1>5 DEF Visible
<1>7. Vis' = [Vis EXCEPT ![g] = c] BY <1>4, <1>6 DEF Vis
<1>8. Abstract!Edit(g) BY <1>1, <1>7 DEF Abstract!Edit, Vis
<1>9. Abstract!Files = Files BY AbstractFiles
<1> QED BY <1>8, <1>9 DEF Abstract!Next

(* What a reader finds once recovery has run changes for all the files of  *)
(* a transaction at one instant, the write of the COMMITTED journal        *)
(* (transaction.py:166-168); until that journal is cleared, an exception    *)
(* may take the files back one by one (transaction.py:170-175), and it is  *)
(* cleared over whole files only: the transactions implement AtomicFiles.  *)
THEOREM TransactionsAreAtomic == Spec => AllOrNothing
<1>1. Init => Abstract!Init
  <2> SUFFICES ASSUME Init PROVE Abstract!Init OBVIOUS
  <2>1. /\ file \in [Files -> Contents]
        /\ after = [n \in Names |-> file] /\ before = [n \in Names |-> file]
        /\ Open = [n \in Names |-> FALSE]
    BY DEF Init, Open
  <2>2. \A f \in Files : Visible(f) = file[f] BY OwnerIsName DEF Init, Visible, Pending
  <2>3. Vis = file BY <2>1, <2>2 DEF Vis
  <2>4. Abstract!Files = Files BY AbstractFiles
  <2> QED BY <2>1, <2>3, <2>4 DEF Abstract!Init, Vis, Open
<1>2. IInv /\ [Next]_vars => [Abstract!Next]_(Abstract!avars)
  <2> SUFFICES ASSUME IInv, [Next]_vars PROVE [Abstract!Next]_(Abstract!avars) OBVIOUS
  <2>1. CASE UNCHANGED vars
    <3>1. UNCHANGED <<file, phase, before, after>> BY <2>1 DEF vars, disk, records
    <3>2. Vis' = Vis BY <3>1 DEF Vis, Visible, Pending
    <3> QED BY <3>1, <3>2 DEF Abstract!avars, Vis
  <2> QED BY <2>1, StepImplements, EditImplements DEF Next, OwnStep
<1> QED BY <1>1, <1>2, AlwaysIInv, PTL DEF Spec, AllOrNothing, Abstract!Spec
============================================================================
