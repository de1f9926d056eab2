---------------------------- MODULE ManagedWrite ----------------------------
(***************************************************************************)
(* The managed file operations and the guard that keeps them off the       *)
(* governing files (atomic.py, governance.py).  atomic_write_bytes checks  *)
(* its target, makes the parent directories, checks again and then         *)
(* replaces the target by name; durable_unlink checks once and unlinks.    *)
(* The user, or another program, may put a symbolic link in the way        *)
(* between any two of these steps.                                         *)
(*                                                                         *)
(* A path is the sequence of its parts as spelled, "/" first when it is    *)
(* absolute; Fold is str.casefold on a part.                               *)
(***************************************************************************)
EXTENDS Naturals, Sequences, SequencesExt

CONSTANTS
    Spellings,   \* the spelled paths a caller may name
    Fold,        \* part -> casefolded part
    Root,        \* the parts of the project root
    Windows,     \* the host is Windows: the guard compares casefolded names
    Stored,      \* spelled path -> the parts under which the disk keeps that name
    Lead,        \* spelled path -> the place it leads to through the links
    Redirects,   \* the paths at which a symbolic link may appear
    Shares       \* the spelled paths that stat as an existing governing file

Spelled(p) == [i \in DOMAIN p |-> Fold[p[i]]]

Collapsed(p) == SelectSeq(p, LAMBDA part : part # ".")

Absolute(p) == p # <<>> /\ p[1] = "/"

Inside(p) == Absolute(p) => IsPrefix(<<"/">> \o Root, Collapsed(p))

(* The parts of a path inside the project, relative to its root. *)
Parts(p) == IF Absolute(p) THEN SubSeq(Collapsed(p), Len(Root) + 2, Len(Collapsed(p)))
                           ELSE Collapsed(p)

(* The host keeps a name as it is spelled, up to case.                     *)
ASSUME StoredAssumption ==
  \A p \in Spellings : Inside(p) /\ ".." \notin Range(p) =>
    /\ Parts(p) \in Seq(DOMAIN Fold) /\ Stored[p] \in Seq(DOMAIN Fold)
    /\ Spelled(Stored[p]) = Spelled(Parts(p))
ASSUME FoldAssumption ==
  \A x \in DOMAIN Fold : /\ x = ".agents" => Fold[x] = ".agents"
                         /\ x = "AGENTS.md" => Fold[x] = "agents.md"

VARIABLES links,  \* the symbolic links that are in place
          job     \* the managed operation under way, or the last one made

writeVars == <<links, job>>
-----------------------------------------------------------------------------
(* A directory on the way, or the target itself, is a link. *)
Redirected(p, n) == \E i \in 1..n : SubSeq(Parts(p), 1, i) \in links

(* The file's device and inode are those of a governing file. *)
SharesGoverningFile(p) == p \in Shares

Compared(part) == IF Windows THEN Fold[part] ELSE part

Governing(parts) ==
    parts # <<>> /\ (\/ Compared(Head(parts)) = ".agents"
                     \/ Compared(Last(parts)) = IF Windows THEN "agents.md" ELSE "AGENTS.md")

MutationAllowed(p) == /\ Inside(p) /\ ~Governing(Parts(p))
                      /\ ~Redirected(p, Len(Parts(p))) /\ ~SharesGoverningFile(p)

AssertConfined(p) == ".." \notin Range(p) /\ MutationAllowed(p)

(* Where an operation on the name p lands: the links among its parents are *)
(* followed, a link at the name itself is replaced.                        *)
Landing(p) == IF Redirected(p, Len(Parts(p)) - 1) THEN Lead[p] ELSE Stored[p]

NoJob == [step |-> "idle"]

WriteInit == links = {} /\ job = NoJob

Starting == job.step \in {"idle", "made"}

(* A target that is refused raises before anything is touched. *)
BeginWrite == \E p \in Spellings :
    /\ Starting /\ AssertConfined(p)
    /\ job' = [step |-> "checked", path |-> p, late |-> FALSE]
    /\ UNCHANGED links

(* Mutant: the parents are made, and nothing is checked again. *)
RecheckNot ==
    /\ job.step = "checked"
    /\ job' = [job EXCEPT !.step = "cleared"]
    /\ UNCHANGED links

(* The parents are made, then the target is checked again. *)
Recheck ==
    /\ job.step = "checked"
    /\ job' = IF AssertConfined(job.path) THEN [job EXCEPT !.step = "cleared"] ELSE NoJob
    /\ UNCHANGED links

BeginUnlink == \E p \in Spellings :
    /\ Starting /\ AssertConfined(p)
    /\ job' = [step |-> "cleared", path |-> p, late |-> FALSE]
    /\ UNCHANGED links

(* os.replace or unlink; an error leaves the target as it was. *)
Mutate ==
    /\ job.step = "cleared"
    /\ \/ job' = [step |-> "made", path |-> job.path, late |-> job.late,
                  place |-> Landing(job.path)]
       \/ job' = NoJob
    /\ UNCHANGED links

(* late: a link appeared after the last check of the operation.            *)
PlantLink == \E r \in Redirects \ links :
    /\ links' = links \cup {r}
    /\ job' = IF job.step = "cleared" THEN [job EXCEPT !.late = TRUE] ELSE job

RemoveLink == \E r \in links : links' = links \ {r} /\ UNCHANGED job

WriteNext == BeginWrite \/ Recheck \/ BeginUnlink \/ Mutate \/ PlantLink \/ RemoveLink

WriteSpec == WriteInit /\ [][WriteNext]_writeVars
-----------------------------------------------------------------------------
(* A managed write or unlink that names the project root never lands in    *)
(* the deployed governance or on an instruction file, whatever links the   *)
(* user puts in the way before or while the parent directories are made:   *)
(* atomic_write_bytes looks again after making them.  Two cases are        *)
(* excepted, in which the code does reach a governing place: a link put    *)
(* there after the last look, and, on a host that is not Windows but       *)
(* ignores case, a name spelled in another case that does not exist yet.   *)
GovernanceKept ==
    job.step = "made" /\ ~job.late /\ (Windows \/ Stored[job.path] = Parts(job.path)) =>
        \/ job.place = <<>>
        \/ Head(job.place) # ".agents" /\ Last(job.place) # "AGENTS.md"
=============================================================================
