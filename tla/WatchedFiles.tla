----------------------------- MODULE WatchedFiles -----------------------------
(***************************************************************************)
(* Files that the control plane looks at while somebody else edits them.   *)
(* A file is its bytes and what stat() says of it.  Every change gives it  *)
(* a new ctime, so that stat never takes an old value again (external; two *)
(* changes within one tick of the file system's clock are not modelled).   *)
(***************************************************************************)
EXTENDS Naturals, Sequences, FiniteSets

CONSTANTS
  Files,
  Contents,     \* what a file may hold, Missing if it is not there
  Missing,
  MaxEdits      \* how often somebody edits a file

ASSUME FilesAssumption == IsFiniteSet(Files) /\ MaxEdits \in Nat

VARIABLES
  file,         \* content and stat identity of each file
  edits         \* how many edits there were

fileVars == <<file, edits>>

FilesInit ==
  /\ \E c \in [Files -> Contents \ {Missing}] : file = [f \in Files |-> [content |-> c[f], stat |-> 0]]
  /\ edits = 0

Exists(f) == file[f].content # Missing

LastChange == CHOOSE n \in {file[f].stat : f \in Files} : \A f \in Files : file[f].stat <= n

Touched(f) == [file EXCEPT ![f].stat = LastChange + 1]

(* Somebody writes other bytes, possibly ones that were there before, or   *)
(* removes the file.                                                       *)
Edit(f, c) ==
  /\ edits < MaxEdits /\ file[f].content # c
  /\ file' = [Touched(f) EXCEPT ![f].content = c]
  /\ edits' = edits + 1

=============================================================================
