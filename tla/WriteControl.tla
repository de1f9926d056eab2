---------------------------- MODULE WriteControl ----------------------------
(***************************************************************************)
(* What the control plane tells an agent it may write.  A precheck freezes *)
(* the governance digest, discovers the repository, compiles the project   *)
(* contract into a policy and the policy into a write scope;               *)
(* write_authorized then answers for a path and a phase (scope.py).  It is *)
(* a question an agent asks: no code of the repository asks it before a    *)
(* write, the managed operations have a guard of their own (ManagedWrite). *)
(* The user edits files and governance at any moment, so a precheck may be *)
(* overtaken between its steps.                                            *)
(*                                                                         *)
(* A digest is the edition of what it digests.                             *)
(***************************************************************************)
EXTENDS ManagedWrite, TLC

CONSTANTS
    Nested,        \* the roots of nested repositories
    Contracts,     \* the project contracts, see ContractOK
    Declarations,  \* the sets of task classes a caller declares
    Changes,       \* the sets of changed paths a caller declares
    Lockfiles, InfraNames, SqlNames, SecurityParts, DocNames,
    UserEdits,     \* the tracked files the user edits
    Tops,          \* the parts from the top of the git work tree to the root
    MaxGov,        \* bound: editions of the governance
    MaxTasks       \* bound: prechecks begun

(* The paths that some contract names as a reference.                      *)
References == UNION {{r.path : r \in c.references} : c \in Contracts}

ASSUME PathsAssumption ==
  /\ UserEdits \subseteq Spellings
  /\ Nested \cup References \cup Tops \cup Spellings \subseteq Seq(DOMAIN Fold)
(* What is left of a path without its "." parts is a path.                 *)
ASSUME CollapseAssumption ==
  \A p \in Nested \cup References : Collapsed(p) \in Seq(DOMAIN Fold)
(* Git names a file by the place it lies in.                               *)
ASSUME GitAssumption == \A p \in UserEdits : Inside(p) /\ ~Absolute(p) /\ ".." \notin Range(p)
ASSUME BoundsAssumption == MaxGov \in Nat /\ MaxTasks \in Nat

VARIABLES gov,     \* edition of the governance (.agents, AGENTS.md)
          top,     \* from the top of the git work tree to the root
          dirty,   \* tracked files that hold the user's uncommitted work
          pre,     \* the precheck under way
          policy,  \* the last compiled policy
          scope,   \* the write scope of the last completed precheck
          grant,   \* the last path write_authorized said yes to
          tasks    \* prechecks begun

vars == <<gov, top, dirty, pre, policy, scope, grant, tasks>>

None == [none |-> TRUE]

-----------------------------------------------------------------------------
(* Policy: the tables of policy.py. *)

TaskClasses ==
    {"BUG_FIX", "FEATURE", "REFACTOR", "REIMPLEMENTATION", "MIGRATION",
     "PERFORMANCE", "CONCURRENCY", "SECURITY", "DEPENDENCY_CHANGE",
     "BUILD_SYSTEM", "CI_CD", "INFRASTRUCTURE", "API_CHANGE", "FFI_CHANGE",
     "DATABASE_CHANGE", "DOCUMENTATION", "TEST_ONLY"}

CoreGates ==
    {"GOVERNANCE_INTEGRITY", "TEST_LAW_INTEGRITY", "EVIDENCE_HONESTY",
     "PRODUCTION_PATH_TRUTH", "WORKSPACE_SAFETY", "SEQUENTIAL_DELEGATION",
     "TEST_DESIGN_COMPLETE", "TEST_FIRST_CONTRACT_RECORDED",
     "BASELINE_EXECUTED", "TEST_CONTRACT_FROZEN", "IMPLEMENTATION_AUTHORIZED",
     "GREEN_EVIDENCE_CURRENT", "PROPERTY_FALSIFICATION_COMPLETE",
     "INDEPENDENT_REVIEW_CURRENT"}

ClassGates ==
    [BUG_FIX |-> {"ORIGINAL_FAILURE_REPRODUCED", "REGRESSION_GREEN"},
     FEATURE |-> {"REQUIREMENT_CONTRACT"},
     REFACTOR |-> {"BEHAVIOR_EQUIVALENCE"},
     REIMPLEMENTATION |-> {"REFERENCE_INTEGRITY", "DIFFERENTIAL_ORACLE"},
     MIGRATION |-> {"MIGRATION_RECOVERY"},
     CONCURRENCY |-> {"CONCURRENCY_MODEL"},
     PERFORMANCE |-> {"PERFORMANCE_METHODOLOGY"},
     SECURITY |-> {"SECURITY_ABUSE_CASES"},
     DEPENDENCY_CHANGE |-> {"DEPENDENCY_DELTA"},
     BUILD_SYSTEM |-> {"BUILD_PLAN_VALIDATED"},
     CI_CD |-> {"CI_PLAN_VALIDATED"},
     INFRASTRUCTURE |-> {"INFRASTRUCTURE_PLAN_VALIDATED"},
     API_CHANGE |-> {"API_CONTRACT"},
     FFI_CHANGE |-> {"FFI_CONTRACT"},
     DATABASE_CHANGE |-> {"DATABASE_MIGRATION"}]

(* pack -> the task classes it brings and the gates it makes mandatory *)
Pack(classes, gates) == [classes |-> classes, gates |-> gates]

Packs ==
    ("rust-systems" :> Pack({"SECURITY"}, {"MEMORY_SAFETY", "UNSAFE_BOUNDARY_AUDIT"}))
    @@ ("rust-concurrency" :> Pack({"CONCURRENCY"}, {"NO_SLEEP_SYNCHRONIZATION",
                                    "CANCELLATION_SHUTDOWN", "BACKPRESSURE"}))
    @@ ("rust-ffi" :> Pack({"FFI_CHANGE"}, {"ABI_OWNERSHIP_LIFETIME"}))
    @@ ("go-service" :> Pack({"API_CHANGE"}, {"SERVICE_SHUTDOWN", "REQUEST_CANCELLATION"}))
    @@ ("python-control-plane" :> Pack({}, {"HYPOTHESIS_PROPERTY_SUITE"}))
    @@ ("distributed-system" :> Pack({"CONCURRENCY"}, {"IDEMPOTENCY",
                                     "DUPLICATE_REORDER_RETRY", "DURABILITY_RECOVERY"}))
    @@ ("reimplementation" :> Pack({"REIMPLEMENTATION"}, {"REFERENCE_INTEGRITY",
                                   "DIFFERENTIAL_ORACLE", "DIVERGENCE_REGISTRY"}))
    @@ ("compatibility-preserving-refactor" :> Pack({"REFACTOR"},
                                   {"BEHAVIOR_EQUIVALENCE", "PUBLIC_SURFACE_AUDIT"}))
    @@ ("performance-critical" :> Pack({"PERFORMANCE"}, {"PERFORMANCE_METHODOLOGY",
                                       "CORRECTNESS_BEFORE_BENCHMARK"}))
    @@ ("terraform" :> Pack({"INFRASTRUCTURE"}, {"TERRAFORM_VALIDATE_PLAN", "NO_LIVE_APPLY"}))
    @@ ("kubernetes" :> Pack({"INFRASTRUCTURE"}, {"KUBERNETES_RENDER_VALIDATE",
                                                  "ROLLOUT_RECOVERY"}))
    @@ ("database" :> Pack({"DATABASE_CHANGE"}, {"DATABASE_MIGRATION", "DATA_PRESERVATION"}))
    @@ ("agent-framework" :> Pack({"SECURITY"}, {"HYPOTHESIS_PROPERTY_SUITE",
                                  "CONTROL_PLANE_ADVERSARIAL_REVIEW"}))

(* The keys whose weakening value makes a project contract invalid. *)
Weakenings ==
    {"independent_review", "strict_evidence", "production_path", "tdd",
     "test_first", "red_required", "property_testing",
     "allow_test_after_implementation", "nested_delegation", "parallel_agents",
     "allow_self_waiver", "allow_test_weakening", "governance_write",
     "verification_optional", "parent_canonical_state", "max_reasoning",
     "falsification"}

(* weakens: the keys, at any depth, that hold their weakening value. *)
ContractOK(c) == c.weakens \cap Weakenings = {} /\ c.packs \subseteq DOMAIN Packs

(* references: [path, canonical], canonical when the entry is complete,    *)
(* carries a digest and is read-only.                                      *)
ReferencesOK(c, required) == /\ \A r \in c.references : r.canonical
                             /\ required => c.references # {}

(* The classes a changed path implies; it is folded but not collapsed, so  *)
(* a leading "." hides .github.                                            *)
MarksPath(class, p) ==
    LET name == Last(p) IN
    CASE class = "DEPENDENCY_CHANGE" -> name \in Lockfiles
      [] class = "CI_CD" -> Len(p) > 1 /\ (Head(p) = ".github" \/ "ci" \in Range(Front(p)))
      [] class = "INFRASTRUCTURE" -> name \in InfraNames
      [] class = "DATABASE_CHANGE" -> name \in SqlNames
      [] class = "SECURITY" -> Range(p) \cap SecurityParts # {}
      [] class = "TEST_ONLY" -> "tests" \in Range(Front(p))
      [] class = "DOCUMENTATION" -> name \in DocNames
      [] OTHER -> FALSE

ClassifyPaths(paths) == {c \in TaskClasses : \E p \in paths : MarksPath(c, Spelled(p))}

(* Mutant: a refactoring among other classes is taken for one alone. *)
TddModeAnyRefactor(classes) ==
    LET behavioral == classes \ {"DOCUMENTATION", "TEST_ONLY"} IN
    CASE behavioral = {} -> 1
      [] "REFACTOR" \in behavioral -> 2
      [] OTHER -> 3

(* 1: non-behavioural, 2: characterization required, 3: red required. *)
TddMode(classes) ==
    LET behavioral == classes \ {"DOCUMENTATION", "TEST_ONLY"} IN
    CASE behavioral = {} -> 1
      [] behavioral = {"REFACTOR"} -> 2
      [] OTHER -> 3

ModeGate == <<"NON_BEHAVIORAL_TEST_FIRST", "CHARACTERIZATION_CURRENT", "RED_EVIDENCE_CURRENT">>

FoundClasses(c, declared, changed) ==
    declared \cup ClassifyPaths(changed) \cup UNION {Packs[k].classes : k \in c.packs}

(* No caller passes the classes of an earlier precheck (prior_classes). *)
CompiledClasses(c, declared, changed) ==
    LET found == FoundClasses(c, declared, changed) IN IF found = {} THEN {"FEATURE"} ELSE found

Accepted(c, classes) == ContractOK(c) /\ ReferencesOK(c, "REIMPLEMENTATION" \in classes)

ClassGatesOf(classes) == UNION {ClassGates[k] : k \in classes \cap DOMAIN ClassGates}

(* declared, changed, packs and found keep, for the properties, what the   *)
(* policy was compiled from.                                               *)
CompileContract(c, declared, changed) ==
    LET classes == CompiledClasses(c, declared, changed) IN
    [declared |-> declared, changed |-> changed, packs |-> c.packs,
     found |-> FoundClasses(c, declared, changed) # {},
     classes |-> classes, mode |-> TddMode(classes),
     gates |-> CoreGates \cup {ModeGate[TddMode(classes)]} \cup ClassGatesOf(classes)
               \cup UNION {Packs[k].gates : k \in c.packs}]

-----------------------------------------------------------------------------
(* Scope: patterns over folded paths. *)

Tree(path) == [kind |-> "tree", path |-> path]     \* path/**
Exact(path) == [kind |-> "exact", path |-> path]   \* path, no wildcard
Named(name) == [kind |-> "named", path |-> <<name>>]  \* **/name

(* The concrete targets _normalize refuses: empty, absolute, traversing or *)
(* holding a wildcard.                                                     *)
Refused(p) == \/ Collapsed(p) = <<>>
              \/ \E i \in DOMAIN p : p[i] \in {"/", "..", "*"}

Normalize(p) == Spelled(Collapsed(p))

FoldPatterns(patterns) == {[q EXCEPT !.path = Normalize(@)] : q \in patterns}

Covered(t, q) == CASE q.kind = "tree" -> IsPrefix(q.path, t)
                   [] q.kind = "exact" -> t = q.path
                   [] q.kind = "named" -> Len(t) > 1 /\ Last(t) = q.path[1]

MatchesAny(t, patterns) == \E q \in patterns : Covered(t, q)

(* Mutant: a boundary covers only its own path. *)
BoundaryPatternsExact(paths) == {Exact(Normalize(p)) : p \in paths}

(* A boundary without a wildcard covers what lies under it too. *)
BoundaryPatterns(paths) ==
    UNION {{Exact(Normalize(p)), Tree(Normalize(p))} : p \in paths}

GovernedPatterns == {Exact(<<".agents">>), Tree(<<".agents">>),
                     Exact(<<"agents.md">>), Named("agents.md")}

TestPaths == {Tree(<<"tests">>), Tree(<<"infra", "tests">>),
              Tree(<<"infra", "property_tests">>), Tree(<<"infra", "law_tests">>)}

CompileWriteScope(c, dirtyPaths, digest, authorized) ==
    [allow |-> FoldPatterns(c.source) \cup (TestPaths \ {Tree(<<"tests">>)}),
     deny |-> FoldPatterns(c.immutable) \cup GovernedPatterns,
     tests |-> TestPaths,
     production |-> FoldPatterns(c.source),
     references |-> BoundaryPatterns({r.path : r \in c.references}),
     userDirty |-> BoundaryPatterns(dirtyPaths),
     nested |-> BoundaryPatterns(Nested),
     baseline |-> authorized, digest |-> digest]

WriteAuthorized(s, p, phase, digest) ==
    LET t == Normalize(p) IN
    /\ ~Refused(p)
    /\ digest = s.digest
    /\ Head(t) # ".agents" /\ Last(t) # "agents.md"
    /\ ~MatchesAny(t, s.deny \cup s.references \cup s.userDirty \cup s.nested)
    /\ MatchesAny(t, s.allow)
    /\ \/ /\ phase = "TEST_DESIGN"
          /\ MatchesAny(t, s.tests) /\ ~MatchesAny(t, s.production)
       \/ /\ phase = "IMPLEMENTATION" /\ s.baseline
          /\ MatchesAny(t, s.production) /\ ~MatchesAny(t, s.tests)

Phases == {"TEST_DESIGN", "IMPLEMENTATION"}

-----------------------------------------------------------------------------
Idle == [step |-> "idle"]

Init == /\ gov = 0 /\ top \in Tops /\ dirty = {} /\ pre = Idle
        /\ policy = None /\ scope = None /\ grant = None /\ tasks = 0

(* build_precheck starts with the governance digest. *)
CaptureGovernance(c, declared, changed) ==
    /\ pre = Idle /\ tasks < MaxTasks
    /\ tasks' = tasks + 1
    /\ pre' = [step |-> "captured", contract |-> c, declared |-> declared,
               changed |-> changed, gov |-> gov, facts |-> {}, user |-> {}]
    /\ UNCHANGED <<gov, top, dirty, policy, scope, grant>>

NewTask == \E c \in Contracts, d \in Declarations, ch \in Changes : CaptureGovernance(c, d, ch)

(* The tracked files with uncommitted work, as git status names them from  *)
(* the top of the work tree; none when there is no repository, or when git *)
(* fails or does not answer.                                               *)
GitStatus == {top \o p : p \in dirty}

(* user keeps, for the properties, the work that was there, when git       *)
(* answered.                                                               *)
DiscoverRepository ==
    /\ pre.step = "captured"
    /\ \/ pre' = [pre EXCEPT !.step = "discovered", !.facts = GitStatus, !.user = dirty]
       \/ pre' = [pre EXCEPT !.step = "discovered"]
    /\ UNCHANGED <<gov, top, dirty, policy, scope, grant, tasks>>

(* The fingerprint of the workspace; when git fails the precheck raises. *)
MeasureWorkspace ==
    /\ pre.step = "discovered"
    /\ \/ pre' = [pre EXCEPT !.step = "measured"]
       \/ pre' = Idle
    /\ UNCHANGED <<gov, top, dirty, policy, scope, grant, tasks>>

Compile ==
    /\ pre.step = "measured"
    /\ IF Accepted(pre.contract, CompiledClasses(pre.contract, pre.declared, pre.changed))
       THEN /\ policy' = CompileContract(pre.contract, pre.declared, pre.changed)
            /\ pre' = [pre EXCEPT !.step = "compiled"]
       ELSE pre' = Idle /\ UNCHANGED policy
    /\ UNCHANGED <<gov, top, dirty, scope, grant, tasks>>

(* Mutant: the digest is taken when the scope is compiled. *)
ScopeOfNow(authorized) == CompileWriteScope(pre.contract, pre.facts, gov, authorized)

ScopeOf(authorized) == CompileWriteScope(pre.contract, pre.facts, pre.gov, authorized)

(* began, user and contract keep, for the properties, what the precheck    *)
(* started from and found.                                                 *)
CompileScope ==
    /\ pre.step = "compiled"
    /\ scope' = [began |-> pre.gov, user |-> pre.user,
                 contract |-> pre.contract, compiled |-> ScopeOf(FALSE)]
    /\ pre' = Idle
    /\ UNCHANGED <<gov, top, dirty, policy, grant, tasks>>

(* A caller that holds the baseline result compiles the same scope again   *)
(* with the implementation authorised.                                     *)
AuthorizeBaseline ==
    /\ scope # None /\ ~scope.compiled.baseline
    /\ scope' = [scope EXCEPT !.compiled.baseline = TRUE]
    /\ UNCHANGED <<gov, top, dirty, pre, policy, grant, tasks>>

(* An agent asks whether it may write a path, and is told yes. *)
Ask == \E p \in Spellings, phase \in Phases :
    /\ scope # None /\ WriteAuthorized(scope.compiled, p, phase, gov)
    /\ grant' = [path |-> p, gov |-> gov, began |-> scope.began, user |-> scope.user,
                 contract |-> scope.contract]
    /\ UNCHANGED <<gov, top, dirty, pre, policy, scope, tasks>>

EditGovernance == /\ gov < MaxGov /\ gov' = gov + 1
                  /\ UNCHANGED <<top, dirty, pre, policy, scope, grant, tasks>>

EditFile == \E p \in UserEdits : /\ dirty' = dirty \cup {p} /\ dirty' # dirty
                                 /\ UNCHANGED <<gov, top, pre, policy, scope, grant, tasks>>

CommitFiles == /\ dirty # {} /\ dirty' = {}
               /\ UNCHANGED <<gov, top, pre, policy, scope, grant, tasks>>

Next == \/ NewTask \/ DiscoverRepository \/ MeasureWorkspace \/ Compile
        \/ CompileScope \/ AuthorizeBaseline \/ Ask
        \/ EditGovernance \/ EditFile \/ CommitFiles

Spec == Init /\ [][Next]_vars
-----------------------------------------------------------------------------
(* The place lies at or under one of the places. *)
Under(place, places) == \E q \in places : IsPrefix(q, place)

(* write_authorized never says yes to a path whose name lies, on the disk, *)
(* at or under a reference, a nested repository or a tracked file that was *)
(* uncommitted when the precheck asked git, however the path is spelled.   *)
(* The files are only kept when git answered and its work tree begins at   *)
(* the project root: git names them from the top of the tree, the scope    *)
(* reads the names from the root.                                          *)
UserWorkKept ==
    grant # None =>
        ~Under(Stored[grant.path],
               {Stored[p] : p \in IF top = <<>> THEN grant.user ELSE {}}
                   \cup {Collapsed(p) : p \in Nested}
                   \cup {Collapsed(r.path) : r \in grant.contract.references})

(* A path is only granted under the governance its precheck started from:  *)
(* a precheck that an edit of the governance overtook, at any of its       *)
(* steps, grants nothing.                                                  *)
GrantedUnderOneGovernance == grant # None => grant.began = grant.gov

(* Adding policy packs to a contract only strengthens what the same        *)
(* declared classes and changed paths compile to: no class and no gate but *)
(* the mode's own is lost and the test-first mode is not lowered.  A task  *)
(* without any class is excepted: it is a FEATURE by default, and a pack   *)
(* that brings a class takes the default, and its mode, away.              *)
PacksStrengthen ==
    [][policy # None /\ policy.found /\ policy.packs \subseteq policy'.packs
       /\ policy.declared = policy'.declared /\ policy.changed = policy'.changed =>
           /\ policy.classes \subseteq policy'.classes
           /\ policy.gates \ Range(ModeGate) \subseteq policy'.gates
           /\ policy.mode <= policy'.mode]_policy
=============================================================================
