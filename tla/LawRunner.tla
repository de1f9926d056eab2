------------------------------- MODULE LawRunner -------------------------------
(***************************************************************************)
(* `agentctl law run`: LawRunner.run (laws.py) on one definition file,     *)
(* with the thread that watches the protected definitions, the sandbox     *)
(* that each command runs in, and run_process (process.py) with its        *)
(* timeout, on POSIX.                                                      *)
(*                                                                         *)
(* The bytes of the definition file are abstracted to the laws they hold.  *)
(* A law looks at a file or runs commands; what the commands do is         *)
(* arbitrary: they write into their sandbox, leave processes behind, exit  *)
(* with any code or not at all.                                            *)
(***************************************************************************)
EXTENDS WatchedFiles

CONSTANTS
  Definition,   \* the file of laws
  Test,         \* an acceptance test, protected as well
  LawsIn,       \* the laws that the bytes of the definition stand for
  Good          \* the bytes of Test that a law on it accepts

Laws == [kind : {"file", "command", "differential"}, steps : Nat \ {0},
         readOnly : BOOLEAN, hard : BOOLEAN]

ASSUME LawAssumption ==
  /\ {Definition, Test} \subseteq Files
  /\ DOMAIN LawsIn \subseteq Contents /\ Good \subseteq Contents
  /\ \A c \in DOMAIN LawsIn : LawsIn[c] \in Seq(Laws)

VARIABLES
  run,          \* LawRunner.run
  watcher,      \* _DefinitionWatcher: its first snapshot, and changed
  box,          \* the copy of the workspace that commands run in
  proc,         \* the command under way
  meddled,      \* somebody edited a definition while it was watched (history)
  guilty        \* the laws whose command misbehaved (history)

lawVars == <<run, watcher, box, proc, meddled, guilty>>

NoWatch == [on |-> FALSE, first |-> file, changed |-> FALSE]
NoBox   == [tree |-> 0, law |-> 0]
NoProc  == [state |-> "none", ok |-> FALSE, timedOut |-> FALSE, child |-> "none"]

LawInit ==
  /\ run = [pc |-> "idle", before |-> Missing, laws |-> <<>>, k |-> 1, step |-> 1,
            box |-> NoBox, out |-> <<>>]
  /\ watcher = NoWatch /\ box = NoBox /\ proc = NoProc
  /\ meddled = FALSE /\ guilty = {}

Goto(pc) == run' = [run EXCEPT !.pc = pc]
Law == run.laws[run.k]

-----------------------------------------------------------------------------
(* run: digest, load, read-only, watch.                                    *)
(* The definition is gone where it must be read: the exception ends the    *)
(* run, which so does not pass.                                            *)
Vanished ==
  /\ run.pc \in {"idle", "freeze", "recheck"} /\ ~Exists(Definition)
  /\ Goto("raised")
  /\ UNCHANGED <<fileVars, watcher, box, proc, meddled, guilty>>

Digest ==
  /\ run.pc = "idle" /\ Exists(Definition)
  /\ run' = [run EXCEPT !.pc = "load", !.before = file[Definition].content]
  /\ UNCHANGED <<fileVars, watcher, box, proc, meddled, guilty>>

(* load: a file that is gone, does not parse, fails the validation of its  *)
(* laws or holds none is an error of the collection.                       *)
Loadable(c) == c \in DOMAIN LawsIn /\ LawsIn[c] # <<>>

LoadFails ==
  /\ run.pc = "load" /\ ~Loadable(file[Definition].content)
  /\ run' = [run EXCEPT !.pc = "report",
                        !.out = <<[hard |-> TRUE, outcome |-> "ERROR"]>>]
  /\ UNCHANGED <<fileVars, watcher, box, proc, meddled, guilty>>

Load ==
  /\ run.pc = "load" /\ Loadable(file[Definition].content)
  /\ run' = [run EXCEPT !.pc = "freeze", !.laws = LawsIn[file[Definition].content]]
  /\ UNCHANGED <<fileVars, watcher, box, proc, meddled, guilty>>

(* chmod: only the file's stat changes, and it stops nobody who can chmod. *)
Freeze ==
  /\ run.pc = "freeze" /\ Exists(Definition)
  /\ file' = Touched(Definition)
  /\ Goto("watch")
  /\ UNCHANGED <<edits, watcher, box, proc, meddled, guilty>>

(* Mutant: the watcher compares digests only.                              *)
SnapshotOfDigests == [f \in {Definition, Test} |-> [content |-> file[f].content, stat |-> 0]]

(* _DefinitionWatcher._snapshot: digest, size, mtime, ctime and mode.      *)
Snapshot == [f \in {Definition, Test} |-> file[f]]

Watch ==
  /\ run.pc = "watch"
  /\ watcher' = [on |-> TRUE, first |-> Snapshot, changed |-> FALSE]
  /\ Goto("law")
  /\ UNCHANGED <<fileVars, box, proc, meddled, guilty>>

(* The watching thread wakes up every five milliseconds.                   *)
Poll ==
  /\ watcher.on /\ ~watcher.changed /\ Snapshot # watcher.first
  /\ watcher' = [watcher EXCEPT !.changed = TRUE]
  /\ UNCHANGED <<fileVars, run, box, proc, meddled, guilty>>

-----------------------------------------------------------------------------
(* _one: a law is over with an outcome.                                    *)
Outcome(o) ==
  /\ run' = [run EXCEPT !.pc = "law", !.k = @ + 1, !.step = 1,
                        !.out = Append(@, [hard |-> Law.hard, outcome |-> o])]
  /\ box' = NoBox /\ proc' = NoProc

Executing == run.pc = "law" /\ run.k <= Len(run.laws)

FileLaw ==
  /\ Executing /\ Law.kind = "file"
  /\ Outcome(IF ~Exists(Test) THEN "ERROR"
             ELSE IF file[Test].content \in Good THEN "PASS" ELSE "FAIL")
  /\ UNCHANGED <<fileVars, watcher, meddled, guilty>>

(* run_process: the command starts in a session and a home of its own.     *)
Popen == [NoProc EXCEPT !.state = "running"]

(* _isolated_root and _command_result: a fresh copy for the first step of  *)
(* a sequence and for each side of a differential law; the state of the    *)
(* copy is remembered; Popen.                                              *)
StartCommand ==
  /\ Executing /\ Law.kind # "file"
  /\ LET copy == IF run.step = 1 \/ Law.kind = "differential" THEN NoBox ELSE box
     IN  box' = copy /\ run' = [run EXCEPT !.pc = "command", !.box = copy]
  /\ proc' = Popen
  /\ UNCHANGED <<fileVars, watcher, meddled, guilty>>

(* What a command does to its copy: tree is its content, law the stat of   *)
(* the definition in it.                                                   *)
WritesTree ==
  /\ proc.state = "running"
  /\ box' = [box EXCEPT !.tree = 1 - @]
  /\ UNCHANGED <<fileVars, run, watcher, proc, meddled, guilty>>

WritesLaw ==
  /\ proc.state = "running" /\ box.law = 0
  /\ box' = [box EXCEPT !.law = 1]
  /\ guilty' = IF Law.kind = "command" THEN guilty \cup {run.k} ELSE guilty
  /\ UNCHANGED <<fileVars, run, watcher, proc, meddled>>

(* A background process, which keeps the output pipes open or not.         *)
Forks(child) ==
  /\ proc.state = "running" /\ proc.child = "none"
  /\ proc' = [proc EXCEPT !.child = child]
  /\ UNCHANGED <<fileVars, run, watcher, box, meddled, guilty>>

ChildEnds ==
  /\ proc.child # "none"
  /\ proc' = [proc EXCEPT !.child = "none"]
  /\ UNCHANGED <<fileVars, run, watcher, box, meddled, guilty>>

(* ok: the exit code and the output are those that the law expects.        *)
Exits(ok) ==
  /\ proc.state = "running"
  /\ proc' = [proc EXCEPT !.state = "exited", !.ok = ok]
  /\ guilty' = IF ok /\ (Law.kind = "command" /\ Law.readOnly => box.tree = run.box.tree)
                 THEN guilty ELSE guilty \cup {run.k}
  /\ UNCHANGED <<fileVars, run, watcher, box, meddled>>

(* proc.wait(timeout) gives up.  The command may still exit by itself      *)
(* before _kill_tree looks at it.                                          *)
TimeOut ==
  /\ run.pc = "command" /\ proc.state = "running"
  /\ proc' = [proc EXCEPT !.timedOut = TRUE]
  /\ guilty' = guilty \cup {run.k}
  /\ Goto("kill")
  /\ UNCHANGED <<fileVars, watcher, box, meddled>>

(* _kill_tree: nothing if the command has exited, else the process group.  *)
KillTree ==
  /\ run.pc = "kill"
  /\ proc' = IF proc.state = "exited" THEN proc
             ELSE [proc EXCEPT !.state = "exited", !.child = "none"]
  /\ Goto("command")
  /\ UNCHANGED <<fileVars, watcher, box, meddled, guilty>>

(* The readers of its output are joined for ten seconds; a child that      *)
(* keeps the pipe open is an error.                                        *)
Waited == run.pc = "command" /\ proc.state = "exited"

ReaderStuck ==
  /\ Waited /\ proc.child = "piped"
  /\ Outcome("ERROR")
  /\ UNCHANGED <<fileVars, watcher, meddled, guilty>>

(* tree_workspace_fingerprint: the names, modes and bytes of the files.    *)
Fingerprint(copy) == copy.tree

(* Mutant: a read-only law is not held to its word.                        *)
UntouchedDefinition == Law.kind = "differential" \/ box.law = run.box.law

(* _command_result: the copy of the definition is untouched, and so is the *)
(* content of the copy if the law is read-only.  A differential law does   *)
(* not ask.                                                                *)
Untouched ==
  \/ Law.kind = "differential"
  \/ box.law = run.box.law /\ (Law.readOnly => Fingerprint(box) = Fingerprint(run.box))

Joined == Waited /\ proc.child # "piped"

CommandMutates ==
  /\ Joined /\ ~Untouched
  /\ Outcome("ERROR")
  /\ UNCHANGED <<fileVars, watcher, meddled, guilty>>

CommandFails ==
  /\ Joined /\ Untouched
  /\ proc.timedOut \/ ~proc.ok
  /\ Outcome(IF proc.timedOut \/ Law.kind = "differential" THEN "ERROR" ELSE "FAIL")
  /\ UNCHANGED <<fileVars, watcher, meddled, guilty>>

NextStep ==
  /\ Joined /\ Untouched /\ proc.ok /\ ~proc.timedOut /\ run.step < Law.steps
  /\ run' = [run EXCEPT !.pc = "law", !.step = @ + 1]
  /\ proc' = NoProc
  /\ UNCHANGED <<fileVars, watcher, box, meddled, guilty>>

(* The last command: for a differential law, the two outputs are compared, *)
(* if they are whole and can be parsed.                                    *)
LastStep ==
  /\ Joined /\ Untouched /\ proc.ok /\ ~proc.timedOut /\ run.step = Law.steps
  /\ \/ Outcome("PASS") /\ UNCHANGED guilty
     \/ /\ Law.kind = "differential"
        /\ Outcome("FAIL") \/ Outcome("ERROR")
        /\ guilty' = guilty \cup {run.k}
  /\ UNCHANGED <<fileVars, watcher, meddled>>

-----------------------------------------------------------------------------
(* Leaving the watcher looks once more; then the digests are taken again   *)
(* and the modes restored.                                                 *)
Unwatch ==
  /\ run.pc = "law" /\ run.k > Len(run.laws)
  /\ watcher' = [watcher EXCEPT !.on = FALSE, !.changed = @ \/ Snapshot # watcher.first]
  /\ Goto("recheck")
  /\ UNCHANGED <<fileVars, box, proc, meddled, guilty>>

ChangedDuringRun == run.before # file[Definition].content \/ watcher.changed

Recheck ==
  /\ run.pc = "recheck" /\ Exists(Definition)
  /\ run' = [run EXCEPT !.pc = "report",
               !.out = IF ChangedDuringRun
                         THEN Append(@, [hard |-> TRUE, outcome |-> "FAIL"]) ELSE @]
  /\ file' = Touched(Definition)
  /\ UNCHANGED <<edits, watcher, box, proc, meddled, guilty>>

(* cmd_law: what the exit code says.                                       *)
HardFailure == \E i \in DOMAIN run.out : run.out[i].hard /\ run.out[i].outcome # "PASS"

Report ==
  /\ run.pc = "report"
  /\ Goto(IF HardFailure THEN "failed" ELSE "passed")
  /\ UNCHANGED <<fileVars, watcher, box, proc, meddled, guilty>>

-----------------------------------------------------------------------------
Commands ==
  \/ WritesTree \/ WritesLaw \/ ChildEnds
  \/ \E child \in {"piped", "quiet"} : Forks(child)
  \/ \E ok \in BOOLEAN : Exits(ok)

LawNext ==
  \/ Vanished \/ Digest \/ LoadFails \/ Load \/ Freeze \/ Watch \/ Poll
  \/ FileLaw \/ StartCommand \/ Commands \/ TimeOut \/ KillTree \/ ReaderStuck
  \/ CommandMutates \/ CommandFails \/ NextStep \/ LastStep
  \/ Unwatch \/ Recheck \/ Report

(* An edit happens while laws run.                                         *)
EditWhileRun(f) ==
  /\ meddled' = (meddled \/ (watcher.on /\ f \in {Definition, Test}))
  /\ UNCHANGED <<run, watcher, box, proc, guilty>>

-----------------------------------------------------------------------------
(* "law definition mutation during execution is detected even if original  *)
(* bytes are restored before exit", and that of protected tests            *)
(* (tests-to-impl/20, laws.py:73-96, :342-371): a run passes only if       *)
(* nobody edited them while it watched, however briefly.                   *)
NoSilentChange == run.pc = "passed" => ~meddled

(* Fail closed (laws.py:411-435, :443-522, process.py:216-234): a run      *)
(* passes only if each command of each hard law ended by itself in time,   *)
(* with the exit code that the law expects, and left the copy of the       *)
(* definition, and for a read-only law the whole copy, as it was.          *)
PassIsEarned ==
  run.pc = "passed" =>
    /\ Len(run.out) = Len(run.laws)
    /\ \A k \in guilty : ~run.laws[k].hard

=============================================================================
