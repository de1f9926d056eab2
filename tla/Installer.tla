----------------------------- MODULE Installer -----------------------------
(***************************************************************************)
(* The operations that change a project's own files on the framework's     *)
(* behalf: the install and uninstall of an adapter (codex_config.py,       *)
(* bootstrap.py), the adoption of a legacy install journal by an upgrade   *)
(* (migration.py) and the action of a module run on an isolated copy       *)
(* (modules.py).  Each plans, waits for a lock, plans again, saves the     *)
(* originals and commits one file transaction; here a commit is one step,  *)
(* as AtomicFiles promises.  The user edits files and new framework        *)
(* releases are unpacked at any moment, and a process may stop at any      *)
(* step.                                                                   *)
(*                                                                         *)
(* A file's content is the user's part and the managed part (the version   *)
(* that wrote it, 0 for none, Edited when the user changed it).  A content *)
(* hash is the content.                                                    *)
(***************************************************************************)
EXTENDS ModuleRegistry

CONSTANTS Procs, Adapters,
          FilesOf,      \* adapter -> the files it manages
          Kind,         \* managed file -> "merge", "own" or "block"
          Governed,     \* files no managed mutation may touch
          Modular,      \* files no adapter manages
          Top,          \* file -> the first part of its path
          Registries,   \* the sets of modules that may be present
          CommandFiles, \* files the command of a module changes
          Moves,        \* state file of the legacy layout -> its place in the new one
          Ignored,      \* files the isolated copy of the workspace leaves out
          Legacy,       \* adapters installed by a release with legacy journals
          Editable,     \* files the user edits
          MaxVersion, MaxEdits, MaxBackups, MaxOps

ASSUME FilesAssumption == /\ DOMAIN FilesOf = Adapters
                          /\ \A a, b \in Adapters : a # b => FilesOf[a] \cap FilesOf[b] = {}
                          /\ DOMAIN Kind = UNION {FilesOf[a] : a \in Adapters}
                          /\ Modular \cap DOMAIN Kind = {}
                          /\ Ignored \subseteq Modular
                          /\ DOMAIN Top = DOMAIN Kind \cup Modular
                          /\ \A s \in DOMAIN Moves : {s, Moves[s]} \subseteq Modular
                          /\ CommandFiles \cup Editable \subseteq DOMAIN Kind \cup Modular
                          /\ Legacy \subseteq Adapters /\ "free" \notin Procs
(* The files with a marked block, AGENTS.md, are governed. *)
ASSUME GovernedBlocks == \A f \in DOMAIN Kind : /\ Kind[f] \in {"merge", "own", "block"}
                                                /\ Kind[f] = "block" => f \in Governed
ASSUME InstallBounds == /\ MaxVersion \in Nat \ {0}
                        /\ MaxEdits \in Nat /\ MaxBackups \in Nat /\ MaxOps \in Nat

VARIABLES file, version, journal, legacy, lock, st,
          backups, \* name -> content; a name is an adapter and a number
          named,   \* how many backups have been named
          first,   \* what each file held when it came under a journal
          over,    \* adapters whose install took the place of a journal it did not read
          edits, ops

store == <<backups, named>>
ghosts == <<first, over>>
installVars == <<file, version, journal, legacy, lock, st, store, ghosts, edits, ops>>

Files == DOMAIN Kind \cup Modular
Edited == MaxVersion + 1
Absent == [absent |-> TRUE]
Content(user, block) == [user |-> user, block |-> block]
NoRecord == [none |-> TRUE]
Conflict == [conflict |-> TRUE]
Resting == [pc |-> "idle"]
Free == "free"

(* The managed keys a configuration lacks are merged in, unless one of     *)
(* them holds another value.                                               *)
MergeConservative(c) ==
    IF c.block = Edited THEN Conflict
    ELSE [c EXCEPT !.block = IF @ > version THEN @ ELSE version]

(* A role file is replaced only when it starts with the framework's marker. *)
OwnRole(c) == IF c.block = 0 THEN Conflict ELSE Content(0, version)

(* A marked block is replaced unless neither this release nor the recorded *)
(* install wrote it.                                                       *)
ReplaceBlock(c, recorded) ==
    IF c.block \in {0, version} \cup recorded THEN [c EXCEPT !.block = version] ELSE Conflict

(* What an install makes of a file. *)
Desired(f, c, recorded) ==
    CASE c = Absent -> Content(0, version)
      [] c # Absent /\ Kind[f] = "merge" -> MergeConservative(c)
      [] c # Absent /\ Kind[f] = "own" -> OwnRole(c)
      [] c # Absent /\ Kind[f] = "block" -> ReplaceBlock(c, recorded)

RecordedBlock(a, f) ==
    {j.files[f].installed.block : j \in {i \in {journal[a], legacy[a]} : i # NoRecord}}

Plan(a) == [f \in FilesOf[a] |-> Desired(f, file[f], RecordedBlock(a, f))]

Current(a) == [f \in FilesOf[a] |-> file[f]]

-----------------------------------------------------------------------------
(* Each adapter keeps its backups in a directory of its own, under names   *)
(* that are never used again.                                              *)
Name(a, n) == <<a, n>>
NoBackup == <<>>

(* A legacy release left its journal, and the originals it names, in the   *)
(* disposable runtime directory; the upgrade's durable copy of an original *)
(* is backup 0 of the adapter.                                             *)
LegacyInstalled(f) == IF Kind[f] = "own" THEN Content(0, 1) ELSE Content(1, 1)

LegacyRecord(a, f) ==
    IF Kind[f] = "own"
    THEN [created |-> TRUE, original |-> Absent, installed |-> LegacyInstalled(f),
          backup |-> NoBackup]
    ELSE [created |-> FALSE, original |-> Content(1, 0), installed |-> LegacyInstalled(f),
          backup |-> Name(a, 0)]

Fresh(f) == IF \/ f \in Ignored
               \/ f \in DOMAIN Kind /\ Kind[f] = "own"
               \/ \E s \in DOMAIN Moves : f = Moves[s]
            THEN Absent ELSE Content(1, 0)

InstallInit ==
    /\ \E old \in SUBSET Legacy :
         /\ file = [f \in Files |-> IF \E a \in old : f \in FilesOf[a]
                                    THEN LegacyInstalled(f) ELSE Fresh(f)]
         /\ legacy = [a \in Adapters |->
                        IF a \in old THEN [files |-> [f \in FilesOf[a] |-> LegacyRecord(a, f)]]
                        ELSE NoRecord]
         /\ backups = [b \in {Name(a, 0) : a \in old} |-> Content(1, 0)]
         /\ first = [f \in Files |-> IF \E a \in old : f \in FilesOf[a]
                                     THEN LegacyRecord(CHOOSE a \in old : f \in FilesOf[a], f).original
                                     ELSE NoRecord]
    /\ version = 1 /\ named = 0
    /\ journal = [a \in Adapters |-> NoRecord]
    /\ lock = [a \in Adapters |-> Free]
    /\ st = [p \in Procs |-> Resting]
    /\ over = {}
    /\ edits = 0 /\ ops = 0

Goto(p, s) == st' = [st EXCEPT ![p] = s]

Begin(p) == st[p] = Resting /\ ops < MaxOps /\ ops' = ops + 1

(* Raise: an install removes the backups it made when there is no journal  *)
(* to name them; the lock is released next.                                *)
Fail(p) == /\ Goto(p, [pc |-> "unlock", adapter |-> st[p].adapter])
           /\ backups' = IF st[p].op = "install" /\ journal[st[p].adapter] = NoRecord
                         THEN [b \in DOMAIN backups \ {st[p].made[f] : f \in DOMAIN st[p].made}
                                 |-> backups[b]]
                         ELSE backups
           /\ UNCHANGED <<file, version, journal, legacy, lock, named, ghosts, edits, ops>>

(* A plan without a conflict and with something to change; a dry run ends  *)
(* here.                                                                   *)
PlanInstall(p, a) ==
    /\ Begin(p)
    /\ Conflict \notin {Plan(a)[f] : f \in FilesOf[a]} /\ Plan(a) # Current(a)
    /\ Goto(p, [pc |-> "lock", op |-> "install", adapter |-> a,
                old |-> Current(a), new |-> Plan(a), made |-> <<>>, prior |-> NoRecord])
    /\ UNCHANGED <<file, version, journal, legacy, store, lock, ghosts, edits>>

AcquireLock(p) ==
    /\ st[p].pc = "lock" /\ lock[st[p].adapter] = Free
    /\ lock' = [lock EXCEPT ![st[p].adapter] = p]
    /\ Goto(p, [st[p] EXCEPT !.pc = st[p].op])
    /\ UNCHANGED <<file, version, journal, legacy, store, ghosts, edits, ops>>

Recorded(j) == IF j = NoRecord THEN {} ELSE DOMAIN j.files

(* Under the lock the files must not have changed.  The codex adapter also *)
(* wants the same plan, and what was installed still in place; bootstrap   *)
(* goes on with the new plan.  The journal is read here, once: what an     *)
(* upgrade adopts from now on is not seen.                                 *)
Steady(s, f) ==
    Kind[f] = "block" \/ /\ s.new[f] = Plan(s.adapter)[f]
                         /\ f \in Recorded(journal[s.adapter]) => file[f] = journal[s.adapter].files[f].installed

Replan(p) ==
    LET s == st[p]  a == st[p].adapter IN
    /\ s.pc = "install"
    /\ IF /\ s.old = Current(a) /\ \A f \in FilesOf[a] : Steady(s, f)
          /\ Conflict \notin {Plan(a)[f] : f \in FilesOf[a]}
       THEN /\ Goto(p, [s EXCEPT !.pc = "backup", !.new = Plan(a), !.prior = journal[a]])
            /\ UNCHANGED <<file, version, journal, legacy, store, lock, ghosts, edits, ops>>
       ELSE Fail(p)

ToBackUp(s) == {f \in DOMAIN s.old \ Recorded(s.prior) :
                  s.old[f] # Absent /\ f \notin DOMAIN s.made}

(* The function with one more argument, or another value for it. *)
With(fun, x, v) == [y \in DOMAIN fun \cup {x} |-> IF y = x THEN v ELSE fun[y]]

BackUp(p) ==
    /\ st[p].pc = "backup"
    /\ named < MaxBackups /\ named' = named + 1
    /\ \E f \in ToBackUp(st[p]) :
         LET b == Name(st[p].adapter, named') IN
         /\ backups' = With(backups, b, st[p].old[f])
         /\ Goto(p, [st[p] EXCEPT !.made = With(@, f, b)])
    /\ UNCHANGED <<file, version, journal, legacy, lock, ghosts, edits, ops>>

(* Mutant: an upgrade takes the installed content for the original. *)
NewRecordAnew(s, f) ==
    [created |-> s.old[f] = Absent, original |-> s.old[f], installed |-> s.new[f],
     backup |-> IF f \in DOMAIN s.made THEN s.made[f] ELSE NoBackup]

NewRecord(s, f) ==
    IF f \in Recorded(s.prior)
    THEN [s.prior.files[f] EXCEPT !.installed = s.new[f]]
    ELSE [created |-> s.old[f] = Absent, original |-> s.old[f], installed |-> s.new[f],
          backup |-> IF f \in DOMAIN s.made THEN s.made[f] ELSE NoBackup]

(* There is a journal of the adapter, durable or legacy. *)
Journalled(a) == journal[a] # NoRecord \/ legacy[a] # NoRecord

(* The transaction refuses governed destinations and files that no longer  *)
(* hold what the plan read.  first is what a file held when it came under  *)
(* a journal of either kind; over records that a journal standing now is   *)
(* not the one the install went by.                                        *)
CommitInstall(p) ==
    LET s == st[p]  a == st[p].adapter IN
    /\ s.pc = "backup" /\ ToBackUp(s) = {}
    /\ IF FilesOf[a] \cap Governed = {} /\ \A f \in FilesOf[a] : s.old[f] # s.new[f] => file[f] = s.old[f]
       THEN /\ file' = [f \in Files |-> IF f \in FilesOf[a] /\ s.old[f] # s.new[f]
                                        THEN s.new[f] ELSE file[f]]
            /\ journal' = [journal EXCEPT ![a] = [files |-> [f \in FilesOf[a] |-> NewRecord(s, f)]]]
            /\ legacy' = [legacy EXCEPT ![a] = NoRecord]
            /\ first' = [f \in Files |-> IF f \in FilesOf[a] /\ ~Journalled(a)
                                         THEN s.old[f] ELSE first[f]]
            /\ over' = IF s.prior = NoRecord /\ Journalled(a) THEN over \cup {a} ELSE over
            /\ Goto(p, [pc |-> "unlock", adapter |-> a])
            /\ UNCHANGED <<version, store, lock, edits, ops>>
       ELSE Fail(p)

(* The journal, the installed files and the originals are read before the  *)
(* lock is asked for.                                                      *)
Uninstallable(a) ==
    /\ journal[a] # NoRecord
    /\ \A f \in FilesOf[a] :
         LET r == journal[a].files[f] IN
         /\ file[f] = r.installed
         /\ ~r.created => r.backup \in DOMAIN backups /\ backups[r.backup] = r.original

PlanUninstall(p, a) ==
    /\ Begin(p) /\ Uninstallable(a)
    /\ Goto(p, [pc |-> "lock", op |-> "uninstall", adapter |-> a, files |-> journal[a].files])
    /\ UNCHANGED <<file, version, journal, legacy, store, lock, ghosts, edits>>

(* Mutant: only the files that had an original are put back. *)
CommitUninstallSavedOnly(p) ==
    LET s == st[p]  a == st[p].adapter
        saved == {s.files[f].backup : f \in {g \in FilesOf[a] : ~s.files[g].created}} IN
    /\ s.pc = "uninstall"
    /\ IF /\ \A f \in FilesOf[a] : file[f] = s.files[f].installed
          /\ saved \subseteq DOMAIN backups /\ journal[a] # NoRecord
          /\ FilesOf[a] \cap Governed = {}
       THEN /\ file' = [f \in Files |-> IF f \in FilesOf[a] /\ ~s.files[f].created
                                        THEN s.files[f].original ELSE file[f]]
            /\ backups' = [b \in DOMAIN backups \ saved |-> backups[b]]
            /\ journal' = [journal EXCEPT ![a] = NoRecord]
            /\ over' = over \ {a}
            /\ Goto(p, [pc |-> "unlock", adapter |-> a])
            /\ UNCHANGED <<version, legacy, lock, named, first, edits, ops>>
       ELSE Fail(p)

(* Under the lock only the installed contents are compared again, with the *)
(* journal read before.                                                    *)
CommitUninstall(p) ==
    LET s == st[p]  a == st[p].adapter
        saved == {s.files[f].backup : f \in {g \in FilesOf[a] : ~s.files[g].created}} IN
    /\ s.pc = "uninstall"
    /\ IF /\ \A f \in FilesOf[a] : file[f] = s.files[f].installed
          /\ saved \subseteq DOMAIN backups /\ journal[a] # NoRecord
          /\ FilesOf[a] \cap Governed = {}
       THEN /\ file' = [f \in Files |-> IF f \in FilesOf[a]
                                        THEN s.files[f].original ELSE file[f]]
            /\ backups' = [b \in DOMAIN backups \ saved |-> backups[b]]
            /\ journal' = [journal EXCEPT ![a] = NoRecord]
            /\ over' = over \ {a}
            /\ Goto(p, [pc |-> "unlock", adapter |-> a])
            /\ UNCHANGED <<version, legacy, lock, named, first, edits, ops>>
       ELSE Fail(p)

ReleaseLock(p) ==
    /\ st[p].pc = "unlock"
    /\ lock' = [lock EXCEPT ![st[p].adapter] = Free]
    /\ Goto(p, Resting)
    /\ UNCHANGED <<file, version, journal, legacy, store, ghosts, edits, ops>>

(* An upgrade whose release differs from the deployed one would write      *)
(* under .agents and is refused; one that finds nothing to change there    *)
(* moves the legacy journals and their originals to durable storage.       *)
Migratable(a) == /\ legacy[a] # NoRecord
                 /\ \A f \in FilesOf[a] : LET r == legacy[a].files[f] IN
                      ~r.created => r.backup \in DOMAIN backups /\ backups[r.backup] = r.original

PlanUpgrade ==
    /\ \E a \in Adapters : legacy[a] # NoRecord
    /\ \A a \in Adapters : legacy[a] # NoRecord => journal[a] = NoRecord /\ Migratable(a)

Upgrade(p) ==
    /\ Begin(p) /\ PlanUpgrade
    /\ journal' = [a \in Adapters |-> IF legacy[a] # NoRecord THEN legacy[a] ELSE journal[a]]
    /\ legacy' = [a \in Adapters |-> NoRecord]
    /\ UNCHANGED <<file, version, store, lock, st, ghosts, edits>>

-----------------------------------------------------------------------------
(* A module's action: discover, snapshot, copy, run in the copy, compare   *)
(* the copy with the snapshot, commit the differences.  The modules that   *)
(* are present may be others at every call.                                *)
Snapshot(p) ==
    /\ Begin(p)
    /\ \E present \in Registries : \E m \in Found(present) :
         /\ Discovers(present, version) /\ DeclaredWriteRootsOK(m)
         /\ Goto(p, [pc |-> "copy", before |-> file, module |-> m])
    /\ UNCHANGED <<file, version, journal, legacy, store, lock, ghosts, edits>>

(* The copy leaves out every directory with an ignored name, wherever it   *)
(* is.                                                                     *)
Copied(f) == IF f \in Ignored THEN Absent ELSE file[f]

(* The command changes, adds or removes a file of the copy; when it fails  *)
(* or does not end in time nothing comes of it.                            *)
RunIsolated(p) ==
    /\ st[p].pc = "copy"
    /\ \/ Goto(p, Resting)
       \/ \E f \in CommandFiles, c \in {Absent, Content(0, 1)} :
            Goto(p, [pc |-> "compare", before |-> st[p].before, module |-> st[p].module,
                     ran |-> f, after |-> [[g \in Files |-> Copied(g)] EXCEPT ![f] = c]])
    /\ UNCHANGED <<file, version, journal, legacy, store, lock, ghosts, edits, ops>>

(* Mutant: the workspace is not compared with the snapshot again. *)
CommitModuleUnchecked(p) ==
    LET s == st[p]
        changed == {f \in Files : s.before[f] # s.after[f]} IN
    /\ s.pc = "compare"
    /\ file' = IF /\ changed \cap Governed = {}
                  /\ \A f \in changed : MutationIsDeclared(Top[f], s.module)
               THEN [f \in Files |-> IF f \in changed THEN s.after[f] ELSE file[f]]
               ELSE file
    /\ Goto(p, Resting)
    /\ UNCHANGED <<version, journal, legacy, store, lock, ghosts, edits, ops>>

CommitModule(p) ==
    LET s == st[p]
        changed == {f \in Files : s.before[f] # s.after[f]} IN
    /\ s.pc = "compare"
    /\ file' = IF /\ changed \cap Governed = {}
                  /\ \A f \in changed : MutationIsDeclared(Top[f], s.module)
                  /\ \A f \in changed : file[f] = s.before[f]
               THEN [f \in Files |-> IF f \in changed THEN s.after[f] ELSE file[f]]
               ELSE file
    /\ Goto(p, Resting)
    /\ UNCHANGED <<version, journal, legacy, store, lock, ghosts, edits, ops>>

-----------------------------------------------------------------------------
(* The state of the legacy layout is copied to its new place, unless       *)
(* something else is there; what is there already is left.                 *)
Collides == \E s \in DOMAIN Moves : /\ file[s] # Absent /\ file[Moves[s]] # Absent
                                    /\ file[s] # file[Moves[s]]

RuntimeCopies == {s \in DOMAIN Moves : file[s] # Absent /\ file[Moves[s]] = Absent}

PlanRuntimeMigration(p) ==
    /\ Begin(p) /\ ~Collides /\ RuntimeCopies # {}
    /\ Goto(p, [pc |-> "migrate", copies |-> [s \in RuntimeCopies |-> file[s]]])
    /\ UNCHANGED <<file, version, journal, legacy, store, lock, ghosts, edits>>

(* The plan is made again at the commit; nothing but absence is expected   *)
(* of the destinations.                                                    *)
MigrateRuntime(p) ==
    /\ st[p].pc = "migrate"
    /\ file' = IF ~Collides /\ st[p].copies = [s \in RuntimeCopies |-> file[s]]
               THEN [f \in Files |-> IF \E s \in RuntimeCopies : f = Moves[s]
                                     THEN file[CHOOSE s \in RuntimeCopies : f = Moves[s]]
                                     ELSE file[f]]
               ELSE file
    /\ Goto(p, Resting)
    /\ UNCHANGED <<version, journal, legacy, store, lock, ghosts, edits, ops>>

-----------------------------------------------------------------------------
(* The process stops; the lock of a dead owner is taken by the next one.   *)
Crash(p) == /\ st[p] # Resting
            /\ Goto(p, Resting)
            /\ lock' = [a \in Adapters |-> IF lock[a] = p THEN Free ELSE lock[a]]
            /\ UNCHANGED <<file, version, journal, legacy, store, ghosts, edits, ops>>

UserEdit == /\ edits < MaxEdits /\ edits' = edits + 1
            /\ \E f \in Editable :
                 \/ file' = [file EXCEPT ![f] = Content(edits + 2,
                                                  IF @ = Absent THEN 0 ELSE @.block)]
                 \/ file[f] # Absent /\ file[f].block # 0
                    /\ file' = [file EXCEPT ![f].block = Edited]
                 \/ file[f] # Absent /\ file' = [file EXCEPT ![f] = Absent]
            /\ UNCHANGED <<version, journal, legacy, store, lock, st, ghosts, ops>>

Unpack == /\ version < MaxVersion /\ version' = version + 1
          /\ UNCHANGED <<file, journal, legacy, store, lock, st, ghosts, edits, ops>>

InstallNext ==
    \/ \E p \in Procs :
         \/ \E a \in Adapters : PlanInstall(p, a) \/ PlanUninstall(p, a)
         \/ AcquireLock(p) \/ Replan(p) \/ BackUp(p) \/ CommitInstall(p)
         \/ CommitUninstall(p) \/ ReleaseLock(p) \/ Upgrade(p)
         \/ Snapshot(p) \/ RunIsolated(p) \/ CommitModule(p)
         \/ PlanRuntimeMigration(p) \/ MigrateRuntime(p) \/ Crash(p)
    \/ UserEdit \/ Unpack

InstallSpec == InstallInit /\ [][InstallNext]_installVars

-----------------------------------------------------------------------------
(* As long as an adapter is installed, its journal and the backups hold    *)
(* together what each of its files was to be given back, and that is what  *)
(* the file held when it first came under a journal, the legacy release's  *)
(* included, through any number of upgrades, failed installs, crashes and  *)
(* the adoption of the legacy journal.  Excepted from the second part is   *)
(* an install that found no durable journal while a legacy one was there,  *)
(* or came to be adopted before it committed: it takes the installed files *)
(* for the originals.                                                      *)
OriginalsKept ==
    \A a \in Adapters : journal[a] # NoRecord =>
        \A f \in FilesOf[a] : LET r == journal[a].files[f] IN
            /\ a \notin over => r.original = first[f]
            /\ IF r.created THEN r.original = Absent
               ELSE r.backup \in DOMAIN backups /\ backups[r.backup] = r.original

(* The journal that an uninstall read, before it had the lock, is still    *)
(* that of the same install.                                               *)
ReadThisInstall(p, a) ==
    \A f \in FilesOf[a] : /\ st[p].files[f].original = journal[a].files[f].original
                          /\ st[p].files[f].created = journal[a].files[f].created
                          /\ st[p].files[f].backup = journal[a].files[f].backup

(* An adapter's journal is removed only by an uninstall that has the lock, *)
(* in one step that gives every file of the adapter back as it was before  *)
(* any install, legacy ones included, and leaves no backup of it behind.   *)
(* Excepted are an adapter that was uninstalled and installed anew while   *)
(* the uninstall waited for the lock, and, of the contents, one that was   *)
(* installed over a journal the install did not read (see OriginalsKept).  *)
UninstallRestores ==
    [][\A a \in Adapters : journal[a] # NoRecord /\ journal'[a] = NoRecord =>
           /\ lock[a] # Free /\ st[lock[a]].pc = "uninstall" /\ st[lock[a]].adapter = a
           /\ ReadThisInstall(lock[a], a) =>
                \A f \in FilesOf[a] :
                    /\ a \notin over => file'[f] = first[f]
                    /\ journal[a].files[f].backup \notin DOMAIN backups']_installVars

(* No step of the tools loses what the user wrote: a file they change is   *)
(* one they wrote themselves, one whose user part stays, one a backup      *)
(* keeps, or the file the module's own command changed, which then lies    *)
(* where its module declared to write: not under the governance and, for   *)
(* any other module than the built-in codex adapter, not under .codex.     *)
(* Excepted is a file under a name the isolated copy leaves out (runtime,  *)
(* transactions, .git below the root): it looks deleted by the command,    *)
(* and is removed if it lies where the module declared to write.           *)
UserWorkSurvives ==
    [][\A p \in Procs : st'[p] # st[p] =>
           \A f \in Files : file'[f] # file[f] =>
               \/ file[f] = Absent \/ file[f].user = 0
               \/ file'[f] # Absent /\ file'[f].user = file[f].user
               \/ \E b \in DOMAIN backups' : backups'[b] = file[f]
               \/ /\ st[p].pc = "compare" /\ (st[p].ran = f \/ f \in Ignored)
                  /\ file[f] = st[p].before[f]
                  /\ Top[f] \in st[p].module.writes \ ProtectedTop
                  /\ Top[f] = ".codex" => TrustedCodex(st[p].module)]_installVars
=============================================================================
