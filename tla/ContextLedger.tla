---------------------------- MODULE ContextLedger ----------------------------
(***************************************************************************)
(* The freshness ledger of the control plane (context_cache.py): what was  *)
(* concluded from which bytes of a file and of the files it depends on.    *)
(* `agentctl context record` hashes the files, takes the ledger's lock,    *)
(* hashes them again and rewrites the ledger; `context check` takes no     *)
(* lock and believes an unchanged stat identity without reading the file.  *)
(*                                                                         *)
(* Path is the file that conclusions are about and Dependency one that     *)
(* they depend on.  Other keys of the ledger (external sources and log     *)
(* summaries) are written under the same lock.                             *)
(***************************************************************************)
EXTENDS WatchedFiles

CONSTANTS
  Recorders,
  Records,      \* which keys each of them records
  Path, Dependency, External, Summary, None,
  Tries         \* how often a file that changes is hashed again (3 in the code)

ASSUME LedgerAssumption ==
  /\ {Path, Dependency} \subseteq Files /\ Path # Dependency
  /\ Records \in [Recorders -> SUBSET {Path, External, Summary}]
  /\ External # Summary /\ {External, Summary} \cap Files = {}
  /\ None \notin Recorders /\ None \notin Contents
  /\ Tries \in Nat \ {0}

Keys == {Path, External, Summary}

VARIABLES
  ledger,       \* context-ledger.json
  holder,       \* who holds .context-ledger.lock
  rec,          \* the recorders
  check,        \* the check under way
  span          \* the contents of the files since the check began (history)

ledgerVars == <<ledger, holder, rec, check, span>>

Idle == [pc |-> "idle", key |-> None, tries |-> 0, look |-> None, got |-> <<>>,
         data |-> None]
NoCheck == [pc |-> "idle", entry |-> None, same |-> FALSE, deps |-> FALSE, fresh |-> FALSE]

LedgerInit ==
  /\ ledger = [k \in Keys |-> None] /\ holder = None
  /\ rec = [r \in Recorders |-> Idle]
  /\ check = NoCheck /\ span = {}

Now == [f \in Files |-> file[f].content]

-----------------------------------------------------------------------------
(* _consistent_digest: hash the file between two looks at its stat, and    *)
(* once more, up to Tries times.  Look is the first half, Confirm the      *)
(* second.                                                                 *)
Hashing == [dep1 |-> Dependency, path1 |-> Path, path2 |-> Path, dep2 |-> Dependency]
AfterHash == [dep1 |-> "path1", path1 |-> "lock", path2 |-> "dep2", dep2 |-> "load"]

RecordFile(r) ==
  /\ rec[r].pc = "idle" /\ Path \in Records[r]
  /\ rec' = [rec EXCEPT ![r] = [Idle EXCEPT !.pc = "dep1", !.key = Path]]
  /\ UNCHANGED <<ledger, holder, check, span>>

RecordExternal(r) ==
  /\ rec[r].pc = "idle" /\ External \in Records[r]
  /\ rec' = [rec EXCEPT ![r] = [Idle EXCEPT !.pc = "lock", !.key = External]]
  /\ UNCHANGED <<ledger, holder, check, span>>

(* The summary of a log, which is not kept itself.                         *)
RecordLogSummary(r) ==
  /\ rec[r].pc = "idle" /\ Summary \in Records[r]
  /\ rec' = [rec EXCEPT ![r] = [Idle EXCEPT !.pc = "lock", !.key = Summary]]
  /\ UNCHANGED <<ledger, holder, check, span>>

Released(r) == IF holder = r THEN None ELSE holder

(* An exception leaves record_file, through the release of the lock.       *)
Fails(r) == rec' = [rec EXCEPT ![r] = Idle] /\ holder' = Released(r)

Look(r) ==
  /\ rec[r].pc \in DOMAIN Hashing /\ rec[r].look = None
  /\ LET f == Hashing[rec[r].pc]
     IN  \/ /\ Exists(f)
            /\ rec' = [rec EXCEPT ![r].look = file[f]]
            /\ UNCHANGED holder
         \/ ~Exists(f) /\ Fails(r)
  /\ UNCHANGED <<ledger, check, span>>

Stable(before, after) == before = after

(* record_file: the hashes under the lock must be those from before it.    *)
Confirm(r) ==
  LET pc == rec[r].pc
      f == Hashing[pc]
      again == f \in DOMAIN rec[r].got
      seen == [rec[r].look EXCEPT !.stat = file[f].stat]
      got == [x \in DOMAIN rec[r].got \cup {f} |-> IF x = f THEN seen ELSE rec[r].got[x]]
  IN  /\ pc \in DOMAIN Hashing /\ rec[r].look # None
      /\ \/ /\ Stable(rec[r].look, file[f])
            /\ again => seen = rec[r].got[f]
            /\ rec' = [rec EXCEPT ![r].pc = AfterHash[pc], ![r].look = None,
                                  ![r].tries = 0, ![r].got = got]
            /\ UNCHANGED holder
         \/ /\ ~Stable(rec[r].look, file[f]) /\ rec[r].tries + 1 < Tries
            /\ rec' = [rec EXCEPT ![r].look = None, ![r].tries = @ + 1]
            /\ UNCHANGED holder
         \/ /\ \/ ~Stable(rec[r].look, file[f]) /\ rec[r].tries + 1 = Tries
               \/ Stable(rec[r].look, file[f]) /\ again /\ seen # rec[r].got[f]
            /\ Fails(r)
  /\ UNCHANGED <<ledger, check, span>>

(* Mutant: nobody waits for the lock.                                      *)
LockIgnored(r) ==
  /\ rec[r].pc = "lock"
  /\ holder' = r
  /\ rec' = [rec EXCEPT ![r].pc = IF rec[r].key = Path THEN "path2" ELSE "load"]
  /\ UNCHANGED <<ledger, check, span>>

(* FileLock.acquire and release, by what FileLock promises.                *)
Lock(r) ==
  /\ rec[r].pc = "lock" /\ holder = None
  /\ holder' = r
  /\ rec' = [rec EXCEPT ![r].pc = IF rec[r].key = Path THEN "path2" ELSE "load"]
  /\ UNCHANGED <<ledger, check, span>>

LoadLedger(r) ==
  /\ rec[r].pc = "load"
  /\ rec' = [rec EXCEPT ![r].pc = "save", ![r].data = ledger]
  /\ UNCHANGED <<ledger, holder, check, span>>

Entry(r) == IF rec[r].key = Path THEN rec[r].got ELSE <<>>

(* _save writes the whole ledger, in one os.replace, and the lock is freed.*)
SaveLedger(r) ==
  /\ rec[r].pc = "save"
  /\ ledger' = [rec[r].data EXCEPT ![rec[r].key] = Entry(r)]
  /\ holder' = Released(r) /\ rec' = [rec EXCEPT ![r] = Idle]
  /\ UNCHANGED <<check, span>>

-----------------------------------------------------------------------------
(* check_file: load the ledger, stat the file, stat the dependencies, and  *)
(* hash the file only if its stat has changed.                             *)
CheckLoad ==
  /\ check.pc = "idle" /\ ledger[Path] # None
  /\ check' = [NoCheck EXCEPT !.pc = "stat", !.entry = ledger[Path]]
  /\ span' = {Now}
  /\ UNCHANGED <<ledger, holder, rec>>

CheckStat ==
  /\ check.pc = "stat"
  /\ check' = [check EXCEPT !.pc = IF Exists(Path) THEN "deps" ELSE "answer",
                            !.same = file[Path].stat = check.entry[Path].stat]
  /\ UNCHANGED <<ledger, holder, rec, span>>

(* Mutant: dependencies are not looked at.                                 *)
DependenciesIgnored(entry) == TRUE

DependenciesFresh(entry) ==
  Exists(Dependency) /\ file[Dependency].stat = entry[Dependency].stat

CheckDependencies ==
  /\ check.pc = "deps"
  /\ LET deps == DependenciesFresh(check.entry)
     IN  check' = [check EXCEPT !.pc = IF check.same /\ deps THEN "answer" ELSE "hash",
                                !.deps = deps, !.fresh = check.same /\ deps]
  /\ UNCHANGED <<ledger, holder, rec, span>>

CheckHash ==
  /\ check.pc = "hash"
  /\ check' = [check EXCEPT !.pc = "answer",
                 !.fresh = file[Path].content = check.entry[Path].content /\ check.deps]
  /\ UNCHANGED <<ledger, holder, rec, span>>

Answer ==
  /\ check.pc = "answer"
  /\ check' = NoCheck /\ span' = {}
  /\ UNCHANGED <<ledger, holder, rec>>

-----------------------------------------------------------------------------
Record(r) == \/ RecordFile(r) \/ RecordExternal(r) \/ RecordLogSummary(r)
             \/ Look(r) \/ Confirm(r) \/ Lock(r) \/ LoadLedger(r) \/ SaveLedger(r)

CheckFile == CheckLoad \/ CheckStat \/ CheckDependencies \/ CheckHash \/ Answer

(* An edit happens while the ledger is used.                               *)
EditSeen ==
  /\ span' = IF check.pc \in {"idle", "answer"} THEN span
             ELSE span \cup {[f \in Files |-> file'[f].content]}
  /\ UNCHANGED <<ledger, holder, rec, check>>

LedgerNext == \/ \E r \in Recorders : Record(r)
              \/ CheckFile

-----------------------------------------------------------------------------
(* A conclusion is called fresh only if the file had the recorded bytes at *)
(* some moment of the check, and its dependency at some moment, perhaps    *)
(* another (core/04: "Invalidate a conclusion when its source [...]        *)
(* changes").  Neither recording nor checking stops anybody from editing   *)
(* (context_cache.py:96-176).                                              *)
FreshWasCurrent ==
  check.pc = "answer" /\ check.fresh =>
    \A f \in {Path, Dependency} : \E s \in span : s[f] = check.entry[f].content

(* Recorders that rewrite the whole ledger lose nobody's entry: an entry   *)
(* changes only by a recorder of its own key (context_cache.py:127-138,    *)
(* :203-214).                                                              *)
NoEntryLost ==
  [][\A k \in Keys : ledger'[k] # ledger[k] =>
       \E r \in Recorders : rec[r].pc = "save" /\ rec[r].key = k /\ rec'[r].pc = "idle"]_<<ledger, rec>>

=============================================================================
