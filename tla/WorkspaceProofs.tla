--------------------------- MODULE WorkspaceProofs ---------------------------
(***************************************************************************)
(* Machine-checked proofs about the ways the framework writes to a         *)
(* project: the guard of its file operations (ManagedWrite), the writes    *)
(* the compiled policy grants a task (WriteControl) and the operations of  *)
(* the installer, the migrations and the modules (Installer).  The three   *)
(* have no state in common.                                                *)
(*                                                                         *)
(* ManagedWrite, for any spellings, links, hard links and hosts: what was  *)
(* cleared by the last check is still so when the operation is made,       *)
(* unless a link appeared in between, and then lands where it is spelled.  *)
(*                                                                         *)
(* WriteControl, for any contracts, paths and case rules, any number of    *)
(* prechecks and of edits of the governance.  The argument follows what a  *)
(* precheck carries along: a compiled scope is the one its contract, the   *)
(* files git named and its governance give, a granted path passed the      *)
(* checks of such a scope, and the scope judges a path by what is left of  *)
(* it when its case is folded, which is what the disk keeps.               *)
(*                                                                         *)
(* Installer, for any adapters, files, modules, processes and bounds.  A   *)
(* journal is only as good as the backups it names, and every operation    *)
(* that removes backups or journals must be kept away from those of the    *)
(* others.  Three things do it: the adapter's lock, the names of backups,  *)
(* which are per adapter and never used again, and the journal an install  *)
(* read under the lock, which stands until it commits, because only an     *)
(* uninstall with the lock removes one and an upgrade adopts none where    *)
(* there is one already.                                                   *)
(***************************************************************************)
EXTENDS WriteControl, Installer, SequenceTheorems, TLAPS

(* ManagedWrite.                                                           *)
Jobs == [step : {"checked", "cleared"}, path : Spellings, late : BOOLEAN]
Mutations == [step : {"made"}, path : Spellings, late : BOOLEAN,
              place : {Lead[p] : p \in Spellings} \cup {Stored[p] : p \in Spellings}]

(* Of a cleared operation the guard still holds, unless a link appeared    *)
(* since; what was made under it lies where the disk keeps its name.       *)
WInv ==
  /\ job \in {NoJob} \cup Jobs \cup Mutations
  /\ job.step = "cleared" /\ ~job.late => AssertConfined(job.path)
  /\ job.step = "made" /\ ~job.late =>
       /\ Inside(job.path) /\ ".." \notin Range(job.path)
       /\ ~Governing(Parts(job.path)) /\ job.place = Stored[job.path]

LEMMA JobFacts ==
  /\ NoJob.step = "idle" /\ \A j \in Jobs : j.step # "idle" /\ j.step # "made"
  /\ \A j \in Mutations : j.step = "made"
BY DEF NoJob, Jobs, Mutations

LEMMA WInvInit == WriteInit => WInv
BY JobFacts DEF WriteInit, WInv

(* A job that was cleared by a check keeps the invariant.                  *)
LEMMA ClearedStep ==
  ASSUME WInv, NEW p \in Spellings, AssertConfined(p), UNCHANGED links,
         job' = [step |-> "cleared", path |-> p, late |-> FALSE]
  PROVE  WInv'
<1>1. job' \in Jobs /\ job'.step = "cleared" /\ job'.path = p /\ ~job'.late BY DEF Jobs
<1>2. AssertConfined(p)'
  BY DEF AssertConfined, MutationAllowed, Redirected
<1> QED BY <1>1, <1>2 DEF WInv

LEMMA RecheckStep == ASSUME WInv, Recheck PROVE WInv'
<1>1. job.step = "checked" /\ UNCHANGED links BY DEF Recheck
<1>2. job \in Jobs BY <1>1, JobFacts DEF WInv
<1>3. CASE ~AssertConfined(job.path)
  <2>1. job' = NoJob BY <1>3 DEF Recheck
  <2> QED BY <2>1, JobFacts DEF WInv
<1>4. CASE AssertConfined(job.path)
  <2>1. job' = [job EXCEPT !.step = "cleared"] BY <1>4 DEF Recheck
  <2>2. job' \in Jobs /\ job'.step = "cleared" /\ job'.path = job.path
    BY <1>2, <2>1 DEF Jobs
  <2>3. AssertConfined(job.path)'
    BY <1>1, <1>4, <2>2 DEF AssertConfined, MutationAllowed, Redirected
  <2> QED BY <2>2, <2>3 DEF WInv
<1> QED BY <1>3, <1>4

(* Without a link in place a name lands where the disk keeps it.           *)
LEMMA MutateStep == ASSUME WInv, Mutate PROVE WInv'
<1>1. job.step = "cleared" /\ UNCHANGED links BY DEF Mutate
<1>2. job \in Jobs BY <1>1, JobFacts DEF WInv
<1>3. CASE job' = NoJob BY <1>3, JobFacts DEF WInv
<1>4. CASE job' = [step |-> "made", path |-> job.path, late |-> job.late,
                   place |-> Landing(job.path)]
  <2>1. job.path \in Spellings /\ job.late \in BOOLEAN BY <1>2 DEF Jobs
  <2>2. Landing(job.path) \in {Lead[job.path], Stored[job.path]} BY DEF Landing
  <2>3. job' \in Mutations BY <1>4, <2>1, <2>2 DEF Mutations
  <2>4. /\ job'.step = "made" /\ job'.path = job.path /\ job'.late = job.late
        /\ job'.place = Landing(job.path)
    BY <1>4
  <2>5. ASSUME ~job.late
        PROVE  /\ Inside(job.path) /\ ".." \notin Range(job.path)
               /\ ~Governing(Parts(job.path)) /\ Landing(job.path) = Stored[job.path]
    <3>1. AssertConfined(job.path) BY <1>1, <2>5 DEF WInv
    <3>2. PICK n : n = Len(Parts(job.path)) OBVIOUS
    <3>3. Inside(job.path) /\ ".." \notin Range(job.path) /\ ~Redirected(job.path, n)
      BY <3>1, <3>2 DEF AssertConfined, MutationAllowed
    <3>4. n \in Nat
      BY <2>1, <3>2, <3>3, StoredAssumption, LenProperties
    <3>5. ~Redirected(job.path, n - 1) BY <3>3, <3>4 DEF Redirected
    <3> QED BY <3>1, <3>2, <3>3, <3>5 DEF AssertConfined, MutationAllowed, Landing
  <2> QED BY <2>3, <2>4, <2>5 DEF WInv
<1> QED BY <1>3, <1>4 DEF Mutate

LEMMA PlantStep == ASSUME WInv, PlantLink PROVE WInv'
<1>1. CASE job.step = "cleared"
  <2>1. job \in Jobs BY <1>1, JobFacts DEF WInv
  <2>2. job' = [job EXCEPT !.late = TRUE] BY <1>1 DEF PlantLink
  <2>3. job' \in Jobs /\ job'.late /\ job'.step = "cleared" BY <1>1, <2>1, <2>2 DEF Jobs
  <2> QED BY <2>3 DEF WInv
<1>2. CASE job.step # "cleared"
  <2>1. job' = job BY <1>2 DEF PlantLink
  <2> QED BY <1>2, <2>1 DEF WInv
<1> QED BY <1>1, <1>2

LEMMA RemoveStep == ASSUME WInv, RemoveLink PROVE WInv'
<1>1. job' = job /\ links' \subseteq links BY DEF RemoveLink
<1>2. ASSUME AssertConfined(job.path) PROVE AssertConfined(job.path)'
  BY <1>1, <1>2 DEF AssertConfined, MutationAllowed, Redirected
<1> QED BY <1>1, <1>2 DEF WInv

LEMMA WInvStep == WInv /\ [WriteNext]_writeVars => WInv'
<1> SUFFICES ASSUME WInv, [WriteNext]_writeVars PROVE WInv' OBVIOUS
<1>1. CASE BeginWrite
  <2>1. PICK p \in Spellings : job' = [step |-> "checked", path |-> p, late |-> FALSE]
    BY <1>1 DEF BeginWrite
  <2>2. job' \in Jobs /\ job'.step = "checked" BY <2>1 DEF Jobs
  <2> QED BY <2>2 DEF WInv
<1>2. CASE BeginUnlink BY <1>2, ClearedStep DEF BeginUnlink
<1>3. CASE UNCHANGED writeVars
  <2>1. job' = job /\ links' = links BY <1>3 DEF writeVars
  <2>2. AssertConfined(job.path)' <=> AssertConfined(job.path)
    BY <2>1 DEF AssertConfined, MutationAllowed, Redirected
  <2> QED BY <2>1, <2>2 DEF WInv
<1> QED BY <1>1, <1>2, <1>3, RecheckStep, MutateStep, PlantStep, RemoveStep DEF WriteNext

(* Casefolding a path keeps its length, and folds its parts.               *)
LEMMA SpelledIs ==
  ASSUME NEW q \in Seq(DOMAIN Fold)
  PROVE  /\ Spelled(q) \in Seq({Fold[x] : x \in DOMAIN Fold})
         /\ Len(Spelled(q)) = Len(q)
         /\ \A i \in 1..Len(q) : Spelled(q)[i] = Fold[q[i]] /\ q[i] \in DOMAIN Fold
<1>1. Len(q) \in Nat /\ DOMAIN q = 1..Len(q) BY LenProperties
<1>2. \A i \in 1..Len(q) : q[i] \in DOMAIN Fold BY ElementOfSeq
<1>3. Spelled(q) = [i \in 1..Len(q) |-> Fold[q[i]]] BY <1>1 DEF Spelled
<1>4. Spelled(q) \in Seq({Fold[x] : x \in DOMAIN Fold})
  BY <1>1, <1>2, <1>3, SeqDef
<1> QED BY <1>1, <1>2, <1>3, <1>4, LenProperties

(* No managed write or unlink lands on a governing place, for any          *)
(* spellings, links, hard links and hosts, but for a link put in the way   *)
(* after the last check and, where the host ignores case and is not        *)
(* Windows, a new name in another case (atomic.py:122-124, 179-181;        *)
(* governance.py:117-158).                                                 *)
THEOREM GovernanceIsKept == WriteSpec => []GovernanceKept
<1>1. ASSUME WInv, job.step = "made", ~job.late,
             Windows \/ Stored[job.path] = Parts(job.path), job.place # <<>>
      PROVE  Head(job.place) # ".agents" /\ Last(job.place) # "AGENTS.md"
  <2>1. job.path \in Spellings BY <1>1, JobFacts DEF WInv, Mutations
  <2>2. PICK p \in Spellings : p = job.path BY <2>1
  <2>3. PICK q : q = Stored[p] OBVIOUS
  <2>4. PICK o : o = Parts(p) OBVIOUS
  <2>5. /\ job.place = q /\ ~Governing(o) /\ q # <<>>
        /\ Inside(p) /\ ".." \notin Range(p)
    BY <1>1, <2>2, <2>3, <2>4 DEF WInv
  <2>6. q \in Seq(DOMAIN Fold) /\ o \in Seq(DOMAIN Fold) /\ Spelled(q) = Spelled(o)
    BY <2>3, <2>4, <2>5, StoredAssumption
  <2>7. /\ Len(q) \in Nat \ {0} /\ Len(o) = Len(q)
        /\ \A i \in 1..Len(q) : /\ Fold[q[i]] = Fold[o[i]]
                                /\ q[i] \in DOMAIN Fold
    <3>1. Len(q) \in Nat \ {0} BY <2>5, <2>6, EmptySeq, LenProperties
    <3>2. Len(o) = Len(q) BY <2>6, SpelledIs
    <3>3. \A i \in 1..Len(q) : Spelled(q)[i] = Fold[q[i]] /\ q[i] \in DOMAIN Fold
      BY <2>6, SpelledIs
    <3>4. \A i \in 1..Len(q) : Spelled(o)[i] = Fold[o[i]] BY <2>6, <3>2, SpelledIs
    <3> QED BY <2>6, <3>1, <3>2, <3>3, <3>4
  <2>8. /\ Head(q) = q[1] /\ Last(q) = q[Len(q)] /\ Head(o) = o[1] /\ Last(o) = o[Len(q)]
        /\ 1 \in 1..Len(q) /\ Len(q) \in 1..Len(q) /\ o # <<>>
    BY <2>6, <2>7 DEF Last
  <2>9. CASE Windows
    <3>1. Fold[o[1]] # ".agents" /\ Fold[o[Len(q)]] # "agents.md"
      BY <2>5, <2>8, <2>9 DEF Governing, Compared
    <3>2. Fold[q[1]] # ".agents" /\ Fold[q[Len(q)]] # "agents.md" BY <2>7, <2>8, <3>1
    <3>3. PICK x \in DOMAIN Fold, y \in DOMAIN Fold : x = q[1] /\ y = q[Len(q)]
      BY <2>7, <2>8
    <3>4. x # ".agents" /\ y # "AGENTS.md" BY <3>2, <3>3, FoldAssumption
    <3> QED BY <2>5, <2>8, <3>3, <3>4
  <2>10. CASE ~Windows
    <3>1. q = o BY <1>1, <2>2, <2>3, <2>4, <2>10
    <3> QED BY <2>5, <2>8, <2>10, <3>1 DEF Governing, Compared
  <2> QED BY <2>9, <2>10
<1>2. WInv => GovernanceKept BY <1>1 DEF GovernanceKept
<1> QED BY <1>2, WInvInit, WInvStep, PTL DEF WriteSpec

-----------------------------------------------------------------------------
(* WriteControl.                                                           *)
Prechecks ==
  [step : {"captured", "discovered", "measured", "compiled"}, contract : Contracts,
   declared : Declarations, changed : Changes, gov : Nat, facts : SUBSET Seq(DOMAIN Fold),
   user : SUBSET UserEdits]

(* The files git named are the user's, when its tree begins at the root.   *)
Told(facts, user) == top = <<>> => user \subseteq facts

PreOK == /\ pre \in {Idle} \cup Prechecks
         /\ pre # Idle => Told(pre.facts, pre.user)

(* The last policy is what a contract compiles to.                         *)
PolicyOK ==
  policy # None =>
    \E c \in Contracts, d \in Declarations, ch \in Changes : policy = CompileContract(c, d, ch)

(* A scope is what CompileWriteScope makes of a contract c, the files f    *)
(* git named and the governance g the precheck began under.                *)
Scope(c, f, u, g, b) == [began |-> g, user |-> u, contract |-> c,
                         compiled |-> CompileWriteScope(c, f, g, b)]

ScopeOK ==
  scope # None =>
    \E c \in Contracts, f \in SUBSET Seq(DOMAIN Fold), u \in SUBSET UserEdits, g \in Nat,
       b \in BOOLEAN : scope = Scope(c, f, u, g, b) /\ Told(f, u)

(* What write_authorized has checked of a path, whatever happens later.    *)
Granted(p, facts, c) ==
  /\ ~Refused(p)
  /\ ~MatchesAny(Normalize(p), BoundaryPatterns({r.path : r \in c.references})
                                 \cup BoundaryPatterns(facts) \cup BoundaryPatterns(Nested))

Grants == [path : Spellings, gov : Nat, began : Nat, user : SUBSET UserEdits,
           contract : Contracts]

GrantOK ==
  /\ grant \in {None} \cup Grants
  /\ grant # None =>
       /\ grant.began = grant.gov
       /\ \E f \in SUBSET Seq(DOMAIN Fold) :
            Granted(grant.path, f, grant.contract) /\ Told(f, grant.user)

(* The inductive invariant.                                                *)
IInv ==
  /\ gov \in Nat /\ tasks \in Nat /\ dirty \subseteq UserEdits /\ top \in Seq(DOMAIN Fold)
  /\ PreOK /\ PolicyOK /\ ScopeOK /\ GrantOK

(* Nothing that a policy, a scope or a grant can be is None.               *)
LEMMA NotNone ==
  /\ \A c, d, ch : CompileContract(c, d, ch) # None
  /\ \A c, f, u, g, b : Scope(c, f, u, g, b) # None
  /\ None \notin Grants
  /\ Idle \notin Prechecks /\ Idle.step = "idle"
<1>1. \A c, d, ch : CompileContract(c, d, ch) # None BY DEF CompileContract, None
<1>2. \A c, f, u, g, b : Scope(c, f, u, g, b) # None BY DEF Scope, None
<1>3. None \notin Grants BY DEF Grants, None
<1>4. Idle \notin Prechecks /\ Idle.step = "idle" BY DEF Prechecks, Idle
<1> QED BY <1>1, <1>2, <1>3, <1>4

LEMMA IInvInit == Init => IInv
<1> SUFFICES ASSUME Init PROVE IInv OBVIOUS
<1>1. gov \in Nat /\ tasks \in Nat /\ dirty \subseteq UserEdits BY DEF Init
<1>2. top \in Seq(DOMAIN Fold) BY PathsAssumption DEF Init
<1>3. PreOK BY DEF Init, PreOK
<1>4. PolicyOK /\ ScopeOK /\ GrantOK BY DEF Init, PolicyOK, ScopeOK, GrantOK
<1> QED BY <1>1, <1>2, <1>3, <1>4 DEF IInv

LEMMA CaptureStep == ASSUME IInv, NewTask PROVE IInv'
<1>1. PICK c \in Contracts, d \in Declarations, ch \in Changes : CaptureGovernance(c, d, ch)
  BY DEF NewTask
<1>2. /\ tasks' = tasks + 1 /\ UNCHANGED <<gov, top, dirty, policy, scope, grant>>
      /\ pre' = [step |-> "captured", contract |-> c, declared |-> d, changed |-> ch,
                 gov |-> gov, facts |-> {}, user |-> {}]
  BY <1>1 DEF CaptureGovernance
<1>3. gov \in Nat /\ tasks \in Nat BY DEF IInv
<1>4. pre' \in Prechecks /\ pre'.facts = {} /\ pre'.user = {} BY <1>2, <1>3 DEF Prechecks
<1>5. PreOK' BY <1>4 DEF PreOK, Told
<1> QED BY <1>2, <1>3, <1>5 DEF IInv, PolicyOK, ScopeOK, GrantOK, Told

(* The steps of a precheck.                                                *)
LEMMA DiscoverStep == ASSUME IInv, DiscoverRepository PROVE IInv'
<1>1. UNCHANGED <<gov, top, dirty, policy, scope, grant, tasks>> /\ pre.step = "captured"
  BY DEF DiscoverRepository
<1>2. pre \in Prechecks /\ pre # Idle BY <1>1, NotNone DEF IInv, PreOK
<1>3. GitStatus \in SUBSET Seq(DOMAIN Fold) /\ (top = <<>> => dirty \subseteq GitStatus)
  <2>1. \A p \in dirty : p \in Seq(DOMAIN Fold) BY PathsAssumption DEF IInv
  <2>2. top \in Seq(DOMAIN Fold) BY DEF IInv
  <2>3. \A p \in dirty : top \o p \in Seq(DOMAIN Fold) BY <2>1, <2>2
  <2>4. top = <<>> => \A p \in dirty : top \o p = p BY <2>1
  <2> QED BY <2>3, <2>4 DEF GitStatus
<1>4. CASE pre' = [pre EXCEPT !.step = "discovered", !.facts = GitStatus, !.user = dirty]
  <2>1. PICK F \in SUBSET Seq(DOMAIN Fold) : F = GitStatus BY <1>3
  <2>2. pre' \in Prechecks /\ pre'.facts = F /\ pre'.user = dirty
    BY <1>2, <1>4, <2>1 DEF Prechecks, IInv
  <2>3. PreOK' BY <1>1, <1>3, <2>1, <2>2 DEF PreOK, Told
  <2> QED BY <1>1, <2>3 DEF IInv, PolicyOK, ScopeOK, GrantOK, Told
<1>5. CASE pre' = [pre EXCEPT !.step = "discovered"]
  <2>1. pre' \in Prechecks /\ pre'.facts = pre.facts /\ pre'.user = pre.user
    BY <1>2, <1>5 DEF Prechecks
  <2>2. PreOK' BY <1>1, <1>2, <2>1 DEF IInv, PreOK, Told
  <2> QED BY <1>1, <2>2 DEF IInv, PolicyOK, ScopeOK, GrantOK, Told
<1> QED BY <1>4, <1>5 DEF DiscoverRepository

LEMMA MeasureStep == ASSUME IInv, MeasureWorkspace PROVE IInv'
<1>1. UNCHANGED <<gov, top, dirty, policy, scope, grant, tasks>> /\ pre.step = "discovered"
  BY DEF MeasureWorkspace
<1>2. pre \in Prechecks /\ pre # Idle BY <1>1, NotNone DEF IInv, PreOK
<1>3. CASE pre' = [pre EXCEPT !.step = "measured"]
  <2>1. pre' \in Prechecks /\ pre'.facts = pre.facts /\ pre'.user = pre.user
    BY <1>2, <1>3 DEF Prechecks
  <2> QED BY <1>1, <1>2, <2>1 DEF IInv, PreOK, PolicyOK, ScopeOK, GrantOK, Told
<1>4. CASE pre' = Idle
  BY <1>1, <1>4 DEF IInv, PreOK, PolicyOK, ScopeOK, GrantOK, Told
<1> QED BY <1>3, <1>4 DEF MeasureWorkspace

LEMMA CompileStep == ASSUME IInv, Compile PROVE IInv'
<1>1. UNCHANGED <<gov, top, dirty, scope, grant, tasks>> /\ pre.step = "measured"
  BY DEF Compile
<1>2. pre \in Prechecks /\ pre # Idle BY <1>1, NotNone DEF IInv, PreOK
<1>3. CASE pre' = Idle /\ policy' = policy
  BY <1>1, <1>3 DEF IInv, PreOK, PolicyOK, ScopeOK, GrantOK, Told
<1>4. CASE /\ policy' = CompileContract(pre.contract, pre.declared, pre.changed)
           /\ pre' = [pre EXCEPT !.step = "compiled"]
  <2>1. pre' \in Prechecks /\ pre'.facts = pre.facts /\ pre'.user = pre.user
    BY <1>2, <1>4 DEF Prechecks
  <2>2. pre.contract \in Contracts /\ pre.declared \in Declarations /\ pre.changed \in Changes
    BY <1>2 DEF Prechecks
  <2>3. PolicyOK' BY <1>4, <2>2 DEF PolicyOK
  <2> QED BY <1>1, <1>2, <2>1, <2>3 DEF IInv, PreOK, ScopeOK, GrantOK, Told
<1> QED BY <1>3, <1>4 DEF Compile

LEMMA CompileScopeStep == ASSUME IInv, CompileScope PROVE IInv'
<1>1. /\ UNCHANGED <<gov, top, dirty, policy, grant, tasks>> /\ pre.step = "compiled"
      /\ pre' = Idle
      /\ scope' = [began |-> pre.gov, user |-> pre.user, contract |-> pre.contract,
                   compiled |-> ScopeOf(FALSE)]
  BY DEF CompileScope
<1>2. pre \in Prechecks /\ Told(pre.facts, pre.user) BY <1>1, NotNone DEF IInv, PreOK
<1>3. scope' = Scope(pre.contract, pre.facts, pre.user, pre.gov, FALSE)
  BY <1>1 DEF Scope, ScopeOf
<1>4. /\ pre.contract \in Contracts /\ pre.facts \in SUBSET Seq(DOMAIN Fold)
      /\ pre.user \in SUBSET UserEdits /\ pre.gov \in Nat
  BY <1>2 DEF Prechecks
<1>5. ScopeOK' BY <1>1, <1>2, <1>3, <1>4 DEF ScopeOK, Told
<1> QED BY <1>1, <1>5 DEF IInv, PreOK, PolicyOK, GrantOK, Told

(* Authorising the baseline changes the one flag.                          *)
LEMMA BaselineStep == ASSUME IInv, AuthorizeBaseline PROVE IInv'
<1>1. /\ UNCHANGED <<gov, top, dirty, pre, policy, grant, tasks>> /\ scope # None
      /\ scope' = [scope EXCEPT !.compiled.baseline = TRUE]
  BY DEF AuthorizeBaseline
<1>2. PICK c \in Contracts, f \in SUBSET Seq(DOMAIN Fold), u \in SUBSET UserEdits, g \in Nat,
        b \in BOOLEAN : scope = Scope(c, f, u, g, b) /\ Told(f, u)
  BY <1>1 DEF IInv, ScopeOK
<1>3. PICK s : s = CompileWriteScope(c, f, g, b) OBVIOUS
<1>4. PICK n : n = [s EXCEPT !.baseline = TRUE] OBVIOUS
<1>5. n = CompileWriteScope(c, f, g, TRUE) BY <1>3, <1>4 DEF CompileWriteScope
<1>6. scope = [began |-> g, user |-> u, contract |-> c, compiled |-> s]
  BY <1>2, <1>3 DEF Scope
<1>7. scope' = [scope EXCEPT !.compiled = n] BY <1>1, <1>4, <1>6
<1>8. scope' = Scope(c, f, u, g, TRUE) BY <1>5, <1>6, <1>7 DEF Scope
<1>9. Told(f, u)' BY <1>1, <1>2 DEF Told
<1>10. TRUE \in BOOLEAN OBVIOUS
<1>11. ScopeOK' BY <1>8, <1>9, <1>10 DEF ScopeOK
<1> QED BY <1>1, <1>11 DEF IInv, PreOK, PolicyOK, GrantOK, Told

(* A granted path passed the checks of the scope it was granted under.     *)
LEMMA AskStep == ASSUME IInv, Ask PROVE IInv'
<1>1. PICK p \in Spellings, phase \in Phases :
        /\ scope # None /\ WriteAuthorized(scope.compiled, p, phase, gov)
        /\ grant' = [path |-> p, gov |-> gov, began |-> scope.began, user |-> scope.user,
                     contract |-> scope.contract]
        /\ UNCHANGED <<gov, top, dirty, pre, policy, scope, tasks>>
  BY DEF Ask
<1>2. PICK c \in Contracts, f \in SUBSET Seq(DOMAIN Fold), u \in SUBSET UserEdits, g \in Nat,
        b \in BOOLEAN : scope = Scope(c, f, u, g, b) /\ Told(f, u)
  BY <1>1 DEF IInv, ScopeOK
<1>3. /\ scope.began = g /\ scope.user = u /\ scope.contract = c
      /\ scope.compiled = CompileWriteScope(c, f, g, b)
  BY <1>2 DEF Scope
<1>4. PICK s : s = CompileWriteScope(c, f, g, b) OBVIOUS
<1>5. /\ s.digest = g /\ s.references = BoundaryPatterns({r.path : r \in c.references})
      /\ s.userDirty = BoundaryPatterns(f) /\ s.nested = BoundaryPatterns(Nested)
  BY <1>4 DEF CompileWriteScope
<1>6. WriteAuthorized(s, p, phase, gov) BY <1>1, <1>3, <1>4
<1>7. gov = g /\ Granted(p, f, c)
  <2>1. /\ ~Refused(p) /\ gov = s.digest
        /\ ~MatchesAny(Normalize(p), s.deny \cup s.references \cup s.userDirty \cup s.nested)
    BY <1>6 DEF WriteAuthorized
  <2>2. ~MatchesAny(Normalize(p), s.references \cup s.userDirty \cup s.nested)
    BY <2>1 DEF MatchesAny
  <2> QED BY <1>5, <2>1, <2>2 DEF Granted
<1>8. grant' \in Grants BY <1>1, <1>3, <1>7 DEF Grants, IInv
<1>9. /\ grant'.path = p /\ grant'.gov = gov /\ grant'.began = g
      /\ grant'.user = u /\ grant'.contract = c
  BY <1>1, <1>3
<1>10. Told(f, u)' BY <1>1, <1>2 DEF Told
<1>11. GrantOK' BY <1>7, <1>8, <1>9, <1>10 DEF GrantOK, Told
<1> QED BY <1>1, <1>11 DEF IInv, PreOK, PolicyOK, ScopeOK, Told

LEMMA IInvStep == IInv /\ [Next]_vars => IInv'
<1> SUFFICES ASSUME IInv, [Next]_vars PROVE IInv' OBVIOUS
<1>1. CASE EditGovernance
  BY <1>1 DEF EditGovernance, IInv, PreOK, PolicyOK, ScopeOK, GrantOK, Told
<1>2. CASE EditFile \/ CommitFiles
  <2>1. dirty' \subseteq UserEdits /\ UNCHANGED <<gov, top, pre, policy, scope, grant, tasks>>
    BY <1>2 DEF EditFile, CommitFiles, IInv
  <2> QED BY <2>1 DEF IInv, PreOK, PolicyOK, ScopeOK, GrantOK, Told
<1>3. CASE UNCHANGED vars
  BY <1>3 DEF vars, IInv, PreOK, PolicyOK, ScopeOK, GrantOK, Told
<1> QED
  BY <1>1, <1>2, <1>3, CaptureStep, DiscoverStep, MeasureStep, CompileStep,
     CompileScopeStep, BaselineStep, AskStep DEF Next

(* The inductive invariant holds in every reachable state.                 *)
LEMMA AlwaysIInv == Spec => []IInv
BY IInvInit, IInvStep, PTL DEF Spec

-----------------------------------------------------------------------------
(* A path is granted under the governance its precheck began with,         *)
(* whatever edits of the governance fell between the precheck's steps      *)
(* (precheck.py:101-128, scope.py:137).                                    *)
THEOREM OneGovernance == Spec => []GrantedUnderOneGovernance
<1>1. IInv => GrantedUnderOneGovernance BY DEF IInv, GrantOK, GrantedUnderOneGovernance
<1> QED BY <1>1, AlwaysIInv, PTL

(* More classes, more gates and no lower mode.                             *)
LEMMA MoreClasses ==
  ASSUME NEW S, NEW T, S \subseteq T
  PROVE  TddMode(S) <= TddMode(T) /\ ClassGatesOf(S) \subseteq ClassGatesOf(T)
<1> DEFINE s == S \ {"DOCUMENTATION", "TEST_ONLY"}
           t == T \ {"DOCUMENTATION", "TEST_ONLY"}
<1>1. s \subseteq t OBVIOUS
<1>2. TddMode(S) = IF s = {} THEN 1 ELSE IF s = {"REFACTOR"} THEN 2 ELSE 3
  BY DEF TddMode
<1>3. TddMode(T) = IF t = {} THEN 1 ELSE IF t = {"REFACTOR"} THEN 2 ELSE 3
  BY DEF TddMode
<1> HIDE DEF s, t
<1>4. TddMode(S) <= TddMode(T)
  <2>1. CASE t = {} BY <1>1, <1>2, <1>3, <2>1
  <2>2. CASE t = {"REFACTOR"}
    <3>1. s = {} \/ s = {"REFACTOR"} BY <1>1, <2>2
    <3>2. t # {} BY <2>2
    <3> QED BY <1>2, <1>3, <2>2, <3>1, <3>2
  <2>3. CASE t # {} /\ t # {"REFACTOR"} BY <1>2, <1>3, <2>3
  <2> QED BY <2>1, <2>2, <2>3
<1>5. ClassGatesOf(S) \subseteq ClassGatesOf(T) BY DEF ClassGatesOf
<1> QED BY <1>4, <1>5

(* What a contract compiles to, and with more packs no less.               *)
LEMMA MorePacks ==
  ASSUME NEW c, NEW d, NEW ch, NEW e, c.packs \subseteq e.packs, FoundClasses(c, d, ch) # {}
  PROVE  LET P == CompileContract(c, d, ch)
             Q == CompileContract(e, d, ch)
         IN  /\ P.classes \subseteq Q.classes /\ P.mode <= Q.mode
             /\ P.gates \ Range(ModeGate) \subseteq Q.gates
<1> DEFINE P == CompileContract(c, d, ch)
           Q == CompileContract(e, d, ch)
           S == CompiledClasses(c, d, ch)
           T == CompiledClasses(e, d, ch)
           G(x) == UNION {Packs[k].gates : k \in x.packs}
<1>1. FoundClasses(c, d, ch) \subseteq FoundClasses(e, d, ch) BY DEF FoundClasses
<1>2. S = FoundClasses(c, d, ch) /\ T = FoundClasses(e, d, ch) BY <1>1 DEF CompiledClasses
<1>3. S \subseteq T BY <1>1, <1>2
<1>4. /\ P.classes = S /\ P.mode = TddMode(S)
      /\ P.gates = CoreGates \cup {ModeGate[TddMode(S)]} \cup ClassGatesOf(S) \cup G(c)
      /\ Q.classes = T /\ Q.mode = TddMode(T)
      /\ Q.gates = CoreGates \cup {ModeGate[TddMode(T)]} \cup ClassGatesOf(T) \cup G(e)
  BY DEF CompileContract
<1>5. G(c) \subseteq G(e) OBVIOUS
<1>6. ModeGate[TddMode(S)] \in Range(ModeGate)
  <2>1. DOMAIN ModeGate = 1..3 BY DEF ModeGate
  <2>2. TddMode(S) \in 1..3 BY DEF TddMode
  <2> QED BY <2>1, <2>2 DEF Range
<1> HIDE DEF S, T, G, P, Q
<1>7. TddMode(S) <= TddMode(T) /\ ClassGatesOf(S) \subseteq ClassGatesOf(T)
  BY <1>3, MoreClasses
<1>8. P.gates \ Range(ModeGate) \subseteq Q.gates BY <1>4, <1>5, <1>6, <1>7
<1>9. P.classes \subseteq Q.classes /\ P.mode <= Q.mode BY <1>3, <1>4, <1>7
<1> QED BY <1>8, <1>9 DEF P, Q

(* More packs never weaken what a task with a class compiles to, for any   *)
(* contracts, classes and paths (policy.py:223-256).                       *)
THEOREM PacksOnlyStrengthen == Spec => PacksStrengthen
<1> DEFINE More == policy # None /\ policy.found /\ policy.packs \subseteq policy'.packs
                   /\ policy.declared = policy'.declared /\ policy.changed = policy'.changed
           Kept == /\ policy.classes \subseteq policy'.classes
                   /\ policy.gates \ Range(ModeGate) \subseteq policy'.gates
                   /\ policy.mode <= policy'.mode
<1>1. ASSUME IInv, [Next]_vars PROVE [More => Kept]_policy
  <2>1. SUFFICES ASSUME policy' # policy, More PROVE Kept OBVIOUS
  <2>2. Compile
    BY <1>1, <2>1 DEF Next, vars, NewTask, CaptureGovernance, DiscoverRepository,
       MeasureWorkspace, CompileScope, AuthorizeBaseline, Ask, EditGovernance,
       EditFile, CommitFiles
  <2>3. policy' = CompileContract(pre.contract, pre.declared, pre.changed)
    BY <2>1, <2>2 DEF Compile
  <2>4. PICK c \in Contracts, d \in Declarations, ch \in Changes :
          policy = CompileContract(c, d, ch)
    BY <1>1, <2>1 DEF IInv, PolicyOK
  <2>5. /\ policy.found = (FoundClasses(c, d, ch) # {}) /\ policy.packs = c.packs
        /\ policy.declared = d /\ policy.changed = ch
    BY <2>4 DEF CompileContract
  <2>6. /\ policy'.packs = pre.contract.packs
        /\ policy'.declared = pre.declared /\ policy'.changed = pre.changed
    BY <2>3 DEF CompileContract
  <2>7. /\ c.packs \subseteq pre.contract.packs /\ FoundClasses(c, d, ch) # {}
        /\ pre.declared = d /\ pre.changed = ch
    BY <2>1, <2>5, <2>6
  <2> QED BY <2>3, <2>4, <2>7, MorePacks
<1>2. PacksStrengthen <=> [][More => Kept]_policy BY DEF PacksStrengthen
<1> QED BY <1>1, <1>2, AlwaysIInv, PTL DEF Spec

-----------------------------------------------------------------------------
(* A prefix stays one when both paths are folded.                          *)
LEMMA PrefixSpelled ==
  ASSUME NEW s \in Seq(DOMAIN Fold), NEW t \in Seq(DOMAIN Fold), IsPrefix(s, t)
  PROVE  IsPrefix(Spelled(s), Spelled(t))
<1>1. /\ Len(s) <= Len(t) /\ SubSeq(s, 1, Len(s)) = SubSeq(t, 1, Len(s))
      /\ Len(s) \in Nat /\ Len(t) \in Nat
  BY LenProperties DEF IsPrefix
<1>2. \A i \in 1..Len(s) : s[i] = t[i]
  <2>1. \A i \in 1..Len(s) : SubSeq(s, 1, Len(s))[i] = s[i] OBVIOUS
  <2>2. \A i \in 1..Len(s) : SubSeq(t, 1, Len(s))[i] = t[i] BY <1>1
  <2> QED BY <1>1, <2>1, <2>2
<1> DEFINE u == Spelled(s)
           v == Spelled(t)
           R == {Fold[x] : x \in DOMAIN Fold}
<1>3. /\ u \in Seq(R) /\ Len(u) = Len(s) /\ \A i \in 1..Len(s) : u[i] = Fold[s[i]]
      /\ v \in Seq(R) /\ Len(v) = Len(t) /\ \A i \in 1..Len(t) : v[i] = Fold[t[i]]
  BY SpelledIs
<1> HIDE DEF u, v, R
<1>4. \A i \in 1..Len(s) : u[i] = v[i] BY <1>1, <1>2, <1>3
<1>5. SubSeq(u, 1, Len(u)) = SubSeq(v, 1, Len(u)) BY <1>1, <1>3, <1>4
<1> QED BY <1>1, <1>3, <1>5 DEF IsPrefix, u, v

(* No granted path lies, as the disk keeps it, on work that the precheck   *)
(* learned of from a git work tree beginning at the root, on a reference   *)
(* or in a nested repository (scope.py:70-77, 125-158).                    *)
THEOREM UserWorkIsKept == Spec => []UserWorkKept
<1>1. ASSUME IInv, grant # None
      PROVE  /\ grant \in Grants /\ Stored[grant.path] \in Seq(DOMAIN Fold)
             /\ Spelled(Stored[grant.path]) = Normalize(grant.path)
             /\ \E f \in SUBSET Seq(DOMAIN Fold) :
                  Granted(grant.path, f, grant.contract) /\ Told(f, grant.user)
  <2>1. /\ grant \in Grants
        /\ \E f \in SUBSET Seq(DOMAIN Fold) :
             Granted(grant.path, f, grant.contract) /\ Told(f, grant.user)
    BY <1>1 DEF IInv, GrantOK
  <2>2. PICK p \in Spellings : p = grant.path BY <2>1 DEF Grants
  <2>3. ~Refused(p) BY <2>1, <2>2 DEF Granted
  <2>4. p[1] # "/" \/ p = <<>>
    <3>1. SUFFICES ASSUME p # <<>>, p[1] = "/" PROVE FALSE OBVIOUS
    <3>2. p \in Seq(DOMAIN Fold) BY PathsAssumption
    <3>3. 1 \in DOMAIN p BY <3>1, <3>2, EmptySeq, LenProperties
    <3> QED BY <2>3, <3>1, <3>3 DEF Refused
  <2>5. ~Absolute(p) BY <2>4 DEF Absolute
  <2>6. ".." \notin Range(p) BY <2>3 DEF Refused, Range
  <2>7. Inside(p) /\ Parts(p) = Collapsed(p) BY <2>5 DEF Inside, Parts
  <2>8. Stored[p] \in Seq(DOMAIN Fold) /\ Spelled(Stored[p]) = Spelled(Parts(p))
    BY <2>6, <2>7, StoredAssumption
  <2> QED BY <2>1, <2>2, <2>7, <2>8 DEF Normalize
<1>2. ASSUME IInv, grant # None, NEW b, NEW paths,
             b \in paths, NEW q \in Seq(DOMAIN Fold), Spelled(q) = Normalize(b),
             IsPrefix(q, Stored[grant.path])
      PROVE  MatchesAny(Normalize(grant.path), BoundaryPatterns(paths))
  <2>1. IsPrefix(Normalize(b), Normalize(grant.path)) BY <1>1, <1>2, PrefixSpelled
  <2>2. Tree(Normalize(b)) \in BoundaryPatterns(paths) BY <1>2 DEF BoundaryPatterns
  <2>3. Covered(Normalize(grant.path), Tree(Normalize(b))) BY <2>1 DEF Covered, Tree
  <2> QED BY <2>2, <2>3 DEF MatchesAny
<1>3. ASSUME IInv, grant # None PROVE UserWorkKept
  <2>1. grant \in Grants BY <1>1, <1>3
  <2>2. PICK f \in SUBSET Seq(DOMAIN Fold) :
          Granted(grant.path, f, grant.contract) /\ Told(f, grant.user)
    BY <1>1, <1>3
  <2>3. PICK refs : refs = {r.path : r \in grant.contract.references} OBVIOUS
  <2>4. /\ ~MatchesAny(Normalize(grant.path), BoundaryPatterns(refs))
        /\ ~MatchesAny(Normalize(grant.path), BoundaryPatterns(f))
        /\ ~MatchesAny(Normalize(grant.path), BoundaryPatterns(Nested))
    BY <2>2, <2>3 DEF Granted, MatchesAny
  <2>5. ASSUME top = <<>>, NEW p \in grant.user PROVE ~IsPrefix(Stored[p], Stored[grant.path])
    <3>1. p \in UserEdits /\ p \in Spellings BY <2>1, <2>5, PathsAssumption DEF Grants
    <3>2. Inside(p) /\ ~Absolute(p) /\ ".." \notin Range(p) BY <3>1, GitAssumption
    <3>3. Stored[p] \in Seq(DOMAIN Fold) /\ Spelled(Stored[p]) = Spelled(Parts(p))
      BY <3>1, <3>2, StoredAssumption
    <3>4. Spelled(Stored[p]) = Normalize(p) BY <3>2, <3>3 DEF Parts, Normalize
    <3>5. p \in f BY <2>2, <2>5 DEF Told
    <3> QED BY <1>2, <1>3, <2>4, <3>3, <3>4, <3>5
  <2>6. ASSUME NEW p \in Nested PROVE ~IsPrefix(Collapsed(p), Stored[grant.path])
    <3>1. Collapsed(p) \in Seq(DOMAIN Fold) /\ Spelled(Collapsed(p)) = Normalize(p)
      BY CollapseAssumption DEF Normalize
    <3> QED BY <1>2, <1>3, <2>4, <3>1
  <2>7. ASSUME NEW p \in refs PROVE ~IsPrefix(Collapsed(p), Stored[grant.path])
    <3>1. grant.contract \in Contracts BY <2>1 DEF Grants
    <3>2. p \in References BY <2>3, <3>1 DEF References
    <3>3. Collapsed(p) \in Seq(DOMAIN Fold) /\ Spelled(Collapsed(p)) = Normalize(p)
      BY <3>2, CollapseAssumption DEF Normalize
    <3> QED BY <1>2, <1>3, <2>4, <3>3
  <2>8. \A r \in grant.contract.references : ~IsPrefix(Collapsed(r.path), Stored[grant.path])
    BY <2>3, <2>7
  <2> QED BY <2>5, <2>6, <2>8 DEF UserWorkKept, Under
<1>4. IInv => UserWorkKept BY <1>3 DEF UserWorkKept
<1> QED BY <1>4, AlwaysIInv, PTL

-----------------------------------------------------------------------------
(***************************************************************************)
(* The installer.                                                          *)
(***************************************************************************)

Contents == [user : Nat, block : Nat] \cup {Absent}
Names == Adapters \X Nat
Records == [created : BOOLEAN, original : Contents, installed : Contents,
            backup : Names \cup {NoBackup}]
PerFile(T) == UNION {[FilesOf[a] -> T] : a \in Adapters}
Partial(S, T) == UNION {[D -> T] : D \in SUBSET S}
Journals == [files : PerFile(Records)]

(* What a process is doing. *)
Installs == [pc : {"lock", "install", "backup"}, op : {"install"}, adapter : Adapters,
             old : PerFile(Contents), new : PerFile(Contents), made : Partial(Files, Names),
             prior : Journals \cup {NoRecord}]
Uninstalls == [pc : {"lock", "uninstall"}, op : {"uninstall"}, adapter : Adapters,
               files : PerFile(Records)]
Unlocks == [pc : {"unlock"}, adapter : Adapters]
Snapshots == [pc : {"copy"}, before : [Files -> Contents], module : UNION Registries]
Comparisons == [pc : {"compare"}, before : [Files -> Contents], module : UNION Registries,
                ran : Files, after : [Files -> Contents]]
Migrations == [pc : {"migrate"}, copies : Partial(Files, Contents)]
Doings == {Resting} \cup Installs \cup Uninstalls \cup Unlocks
          \cup Snapshots \cup Comparisons \cup Migrations

(* Every variable has the type its use in the code gives it. *)
InstallTypeOK ==
    /\ file \in [Files -> Contents]
    /\ version \in Nat /\ named \in Nat /\ edits \in Nat
    /\ journal \in [Adapters -> Journals \cup {NoRecord}]
    /\ legacy \in [Adapters -> Journals \cup {NoRecord}]
    /\ backups \in Partial(Names, Contents)
    /\ lock \in [Adapters -> Procs \cup {Free}]
    /\ st \in [Procs -> Doings]

BackupOf(a, b) == \E n \in Nat : b = Name(a, n)

(* A record of a file: created or with a backup in the adapter's own       *)
(* directory, and nothing of the user's in what was installed that the     *)
(* original does not hold too.                                             *)
RecordOK(r, a, f) ==
    /\ r.created <=> r.original = Absent
    /\ r.created => r.backup = NoBackup
    /\ ~r.created => BackupOf(a, r.backup)
    /\ r.installed # Absent
    /\ Kind[f] = "own" => r.installed.user = 0
    /\ Kind[f] = "merge" => \/ r.installed.user = 0
                            \/ r.original # Absent /\ r.installed.user = r.original.user

RecordsOK(files, a) == /\ DOMAIN files = FilesOf[a]
                       /\ \A f \in FilesOf[a] : RecordOK(files[f], a, f)

(* The original is what the file first held, unless the install took the   *)
(* place of a journal it had not read, and its backup is there.            *)
Kept(r, a, f) == /\ a \notin over => r.original = first[f]
                 /\ ~r.created => r.backup \in DOMAIN backups /\ backups[r.backup] = r.original

JournalOK == \A a \in Adapters : journal[a] # NoRecord =>
                 /\ RecordsOK(journal[a].files, a)
                 /\ \A f \in FilesOf[a] : Kept(journal[a].files[f], a, f)

LegacyOK == \A a \in Adapters : legacy[a] # NoRecord =>
                /\ journal[a] = NoRecord /\ RecordsOK(legacy[a].files, a) /\ a \notin over
                /\ \A f \in FilesOf[a] : legacy[a].files[f].original = first[f]

Held == {"install", "backup", "uninstall", "unlock"}
LockOK == \A p \in Procs : st[p].pc \in Held => lock[st[p].adapter] = p

NamesOK == \A a \in Adapters, n \in Nat : Name(a, n) \in DOMAIN backups => n <= named

(* What an install makes of the user's part of a file. *)
UserPart(f, old, new) ==
    /\ new # Absent
    /\ old = Absent => new.user = 0
    /\ old # Absent /\ Kind[f] # "own" => new.user = old.user
    /\ Kind[f] = "own" => new.user = 0

Planned(s) == /\ DOMAIN s.old = FilesOf[s.adapter] /\ DOMAIN s.new = FilesOf[s.adapter]
              /\ \A f \in FilesOf[s.adapter] : UserPart(f, s.old[f], s.new[f])

(* The backups an install has made hold what it is about to replace. *)
Saved(s) == \A f \in DOMAIN s.made :
                /\ f \in FilesOf[s.adapter] /\ s.old[f] # Absent
                /\ BackupOf(s.adapter, s.made[f])
                /\ s.made[f] \in DOMAIN backups /\ backups[s.made[f]] = s.old[f]

(* The journal an install has read is still there, and what it installed   *)
(* was in place.                                                           *)
PriorStands(s) == s.prior # NoRecord =>
                      /\ journal[s.adapter] = s.prior
                      /\ \A f \in FilesOf[s.adapter] :
                           Kind[f] # "block" => s.old[f] = s.prior.files[f].installed

DoingOK(s) ==
    /\ s \in Installs => /\ Planned(s) /\ Saved(s)
                         /\ s.pc = "backup" => PriorStands(s)
                         /\ s.pc # "backup" => DOMAIN s.made = {}
    /\ s \in Uninstalls => RecordsOK(s.files, s.adapter)
    /\ s.pc \in {"copy", "compare"} => DeclaredWriteRootsOK(s.module)

(* The inductive invariant. *)
InstallInv == /\ InstallTypeOK /\ JournalOK /\ LegacyOK /\ LockOK /\ NamesOK
              /\ \A p \in Procs : DoingOK(st[p])

-----------------------------------------------------------------------------
(* Facts about contents, records and what a process is doing.              *)

LEMMA ContentFacts ==
    /\ Absent \notin [user : Nat, block : Nat]
    /\ \A u, b \in Nat : /\ Content(u, b) \in [user : Nat, block : Nat]
                         /\ Content(u, b) # Absent
                         /\ Content(u, b).user = u /\ Content(u, b).block = b
    /\ Conflict \notin Contents
<1>1. DOMAIN Absent = {"absent"} /\ DOMAIN Conflict = {"conflict"} BY DEF Absent, Conflict
<1>2. \A c \in [user : Nat, block : Nat] : DOMAIN c = {"user", "block"} OBVIOUS
<1>3. "absent" # "user" /\ "conflict" # "absent" /\ "conflict" # "user" OBVIOUS
<1>4. Absent \notin [user : Nat, block : Nat] /\ Conflict \notin [user : Nat, block : Nat]
  BY <1>1, <1>2, <1>3
<1>5. Conflict # Absent BY <1>1, <1>3
<1> QED BY <1>4, <1>5 DEF Content, Contents

LEMMA NoRecordFacts == NoRecord \notin Journals
<1>1. DOMAIN NoRecord = {"none"} BY DEF NoRecord
<1>2. \A j \in Journals : DOMAIN j = {"files"} BY DEF Journals
<1>3. "none" # "files" OBVIOUS
<1> QED BY <1>1, <1>2, <1>3

LEMMA NameFacts ==
    /\ \A a \in Adapters, n \in Nat : Name(a, n) \in Names /\ Name(a, n) # NoBackup
    /\ \A a, b \in Adapters, m, n \in Nat : Name(a, m) = Name(b, n) => a = b /\ m = n
    /\ \A a, b \in Adapters : \A x : BackupOf(a, x) /\ BackupOf(b, x) => a = b
    /\ \A a \in Adapters : \A x : BackupOf(a, x) => x \in Names
BY DEF Name, Names, NoBackup, BackupOf

LEMMA DoingFacts ==
  ASSUME NEW s \in Doings
  PROVE  /\ s.pc \in {"idle", "lock", "install", "backup", "uninstall", "unlock",
                      "copy", "compare", "migrate"}
         /\ s.pc = "lock" => s \in Installs \/ s \in Uninstalls
         /\ s.pc \in {"install", "backup"} => s \in Installs
         /\ s.pc = "uninstall" => s \in Uninstalls
         /\ s.pc = "unlock" => s \in Unlocks
         /\ s.pc = "copy" => s \in Snapshots
         /\ s.pc = "compare" => s \in Comparisons
         /\ s.pc = "migrate" => s \in Migrations
         /\ s.pc = "idle" => s = Resting
BY DEF Doings, Resting, Installs, Uninstalls, Unlocks, Snapshots, Comparisons, Migrations

LEMMA KindsApart ==
    /\ \A s \in Installs : s \notin Uninstalls /\ s.pc \in {"lock", "install", "backup"}
    /\ \A s \in Uninstalls : s \notin Installs /\ s.pc \in {"lock", "uninstall"}
    /\ \A s \in {Resting} \cup Unlocks \cup Snapshots \cup Comparisons \cup Migrations :
         s \notin Installs /\ s \notin Uninstalls
BY DEF Resting, Installs, Uninstalls, Unlocks, Snapshots, Comparisons, Migrations

(* The plan of an install, file by file. *)
LEMMA DesiredFacts ==
  ASSUME InstallTypeOK, NEW f \in DOMAIN Kind, NEW c \in Contents, NEW recorded,
         Desired(f, c, recorded) # Conflict
  PROVE  Desired(f, c, recorded) \in Contents /\ UserPart(f, c, Desired(f, c, recorded))
<1>1. version \in Nat BY DEF InstallTypeOK
<1>2. Content(0, version) \in Contents /\ Content(0, version).user = 0
      /\ Content(0, version) # Absent
  BY <1>1, ContentFacts DEF Contents
<1>3. CASE c = Absent
  <2>1. Desired(f, c, recorded) = Content(0, version) BY <1>3 DEF Desired
  <2> QED BY <1>2, <1>3, <2>1 DEF UserPart
<1>4. CASE c # Absent /\ Kind[f] = "own"
  <2>1. Desired(f, c, recorded) = OwnRole(c) BY <1>4 DEF Desired
  <2>2. OwnRole(c) = Content(0, version) BY <2>1 DEF OwnRole
  <2> QED BY <1>2, <1>4, <2>1, <2>2 DEF UserPart
<1>5. CASE c # Absent /\ Kind[f] # "own"
  <2>1. c \in [user : Nat, block : Nat] BY <1>5 DEF Contents
  <2>2. PICK d \in Nat : Desired(f, c, recorded) = [c EXCEPT !.block = d]
    <3>1. CASE Kind[f] = "merge"
      <4>1. Desired(f, c, recorded) = MergeConservative(c) BY <1>5, <3>1 DEF Desired
      <4>2. MergeConservative(c) = [c EXCEPT !.block = IF c.block > version THEN c.block ELSE version]
        BY <4>1 DEF MergeConservative
      <4>3. (IF c.block > version THEN c.block ELSE version) \in Nat BY <1>1, <2>1
      <4> QED BY <4>1, <4>2, <4>3
    <3>2. CASE Kind[f] = "block"
      <4>1. Desired(f, c, recorded) = ReplaceBlock(c, recorded) BY <1>5, <3>2 DEF Desired
      <4>2. ReplaceBlock(c, recorded) = [c EXCEPT !.block = version]
        BY <4>1 DEF ReplaceBlock
      <4> QED BY <1>1, <4>1, <4>2
    <3> QED BY <1>5, <3>1, <3>2, GovernedBlocks
  <2>3. /\ [c EXCEPT !.block = d] \in [user : Nat, block : Nat]
        /\ [c EXCEPT !.block = d].user = c.user
    BY <2>1
  <2>4. [c EXCEPT !.block = d] # Absent BY <2>3, ContentFacts
  <2> QED BY <1>5, <2>2, <2>3, <2>4 DEF UserPart, Contents
<1> QED BY <1>3, <1>4, <1>5

-----------------------------------------------------------------------------
(* A step that changes neither journals nor backups, and in which one      *)
(* process at most goes on, keeps the invariant if it does so for that     *)
(* process.                                                                *)
LEMMA QuietStep ==
  ASSUME InstallInv, NEW p \in Procs, NEW n \in Doings,
         st' = [st EXCEPT ![p] = n], DoingOK(n),
         n.pc \in Held => lock'[n.adapter] = p,
         \A q \in Procs \ {p} : st[q].pc \in Held => lock'[st[q].adapter] = q,
         lock' \in [Adapters -> Procs \cup {Free}],
         file' \in [Files -> Contents], version' \in Nat, edits' \in Nat,
         UNCHANGED <<journal, legacy, store, ghosts>>
  PROVE  InstallInv'
<1>1. /\ InstallTypeOK /\ JournalOK /\ LegacyOK /\ LockOK /\ NamesOK
      /\ \A q \in Procs : DoingOK(st[q])
  BY DEF InstallInv
<1>2. journal' = journal /\ legacy' = legacy /\ backups' = backups /\ named' = named
      /\ first' = first /\ over' = over
  BY DEF store, ghosts
<1>3. \A q \in Procs : st'[q] = IF q = p THEN n ELSE st[q] BY <1>1 DEF InstallTypeOK
<1>4. InstallTypeOK' BY <1>1, <1>2 DEF InstallTypeOK
<1>5. JournalOK' /\ LegacyOK' /\ NamesOK' BY <1>1, <1>2 DEF JournalOK, Kept, LegacyOK, NamesOK
<1>6. LockOK' BY <1>3 DEF LockOK
<1>7. ASSUME NEW s, DoingOK(s) PROVE DoingOK(s)'
  BY <1>2, <1>7 DEF DoingOK, Saved, PriorStands
<1>8. ASSUME NEW q \in Procs PROVE DoingOK(st[q])'
  <2>1. PICK s : s = st'[q] OBVIOUS
  <2>2. DoingOK(s) BY <1>1, <1>3, <2>1
  <2> QED BY <1>7, <2>1, <2>2
<1> QED BY <1>4, <1>5, <1>6, <1>8 DEF InstallInv

(* One that also leaves the locks. *)
LEMMA UnlockedStep ==
  ASSUME InstallInv, NEW p \in Procs, NEW n \in Doings,
         Goto(p, n), DoingOK(n), n.pc \in Held => lock[n.adapter] = p,
         file' \in [Files -> Contents], version' \in Nat, edits' \in Nat,
         UNCHANGED <<journal, legacy, store, lock, ghosts>>
  PROVE  InstallInv'
<1>1. LockOK /\ lock \in [Adapters -> Procs \cup {Free}] BY DEF InstallInv, InstallTypeOK
<1>2. lock' = lock /\ UNCHANGED <<journal, legacy, store, ghosts>> OBVIOUS
<1>3. st' = [st EXCEPT ![p] = n] BY DEF Goto
<1>4. n.pc \in Held => lock'[n.adapter] = p BY <1>2
<1>5. \A q \in Procs \ {p} : st[q].pc \in Held => lock'[st[q].adapter] = q BY <1>1, <1>2 DEF LockOK
<1> QED BY <1>1, <1>2, <1>3, <1>4, <1>5, QuietStep

LEMMA PlansOK ==
  ASSUME InstallTypeOK, NEW a \in Adapters, Conflict \notin {Plan(a)[f] : f \in FilesOf[a]}
  PROVE  /\ Current(a) \in [FilesOf[a] -> Contents] /\ Plan(a) \in [FilesOf[a] -> Contents]
         /\ \A f \in FilesOf[a] : UserPart(f, Current(a)[f], Plan(a)[f])
<1>1. FilesOf[a] \subseteq DOMAIN Kind /\ FilesOf[a] \subseteq Files
  BY FilesAssumption DEF Files
<1>2. \A f \in FilesOf[a] : file[f] \in Contents BY <1>1 DEF InstallTypeOK
<1>3. ASSUME NEW f \in FilesOf[a]
      PROVE  Plan(a)[f] \in Contents /\ UserPart(f, file[f], Plan(a)[f])
  <2>1. Plan(a)[f] = Desired(f, file[f], RecordedBlock(a, f)) BY DEF Plan
  <2>2. Plan(a)[f] # Conflict OBVIOUS
  <2> QED BY <1>1, <1>2, <2>1, <2>2, DesiredFacts
<1>4. Current(a) \in [FilesOf[a] -> Contents] /\ \A f \in FilesOf[a] : Current(a)[f] = file[f]
  BY <1>2 DEF Current
<1>5. Plan(a) \in [FilesOf[a] -> Contents] BY <1>3 DEF Plan
<1> QED BY <1>3, <1>4, <1>5

LEMMA PlanInstallKeeps ==
  ASSUME InstallInv, NEW p \in Procs, NEW a \in Adapters, PlanInstall(p, a)
  PROVE  InstallInv'
<1> DEFINE n == [pc |-> "lock", op |-> "install", adapter |-> a, old |-> Current(a),
                 new |-> Plan(a), made |-> <<>>, prior |-> NoRecord]
<1>1. InstallTypeOK BY DEF InstallInv
<1>2. /\ Goto(p, n) /\ Conflict \notin {Plan(a)[f] : f \in FilesOf[a]}
      /\ UNCHANGED <<file, version, journal, legacy, store, lock, ghosts, edits>>
  BY DEF PlanInstall
<1>3. /\ Current(a) \in [FilesOf[a] -> Contents] /\ Plan(a) \in [FilesOf[a] -> Contents]
      /\ \A f \in FilesOf[a] : UserPart(f, Current(a)[f], Plan(a)[f])
  BY <1>1, <1>2, PlansOK
<1>4. <<>> \in Partial(Files, Names) /\ DOMAIN <<>> = {}
  <2>1. <<>> = [x \in {} |-> {}] OBVIOUS
  <2>2. [x \in {} |-> {}] \in [{} -> Names] OBVIOUS
  <2> QED BY <2>1, <2>2 DEF Partial
<1>5. Current(a) \in PerFile(Contents) /\ Plan(a) \in PerFile(Contents) BY <1>3 DEF PerFile
<1>6. n \in Installs BY <1>4, <1>5 DEF Installs
<1>7. n \in Doings BY <1>6 DEF Doings
<1>8. DoingOK(n)
  <2>1. Planned(n) BY <1>3 DEF Planned
  <2>2. Saved(n) BY <1>4 DEF Saved
  <2> QED BY <1>4, <1>6, <2>1, <2>2, KindsApart DEF DoingOK
<1>9. n.pc \notin Held BY DEF Held
<1> HIDE DEF n
<1> QED BY <1>1, <1>2, <1>7, <1>8, <1>9, UnlockedStep DEF InstallTypeOK

LEMMA PlanUninstallKeeps ==
  ASSUME InstallInv, NEW p \in Procs, NEW a \in Adapters, PlanUninstall(p, a)
  PROVE  InstallInv'
<1> DEFINE n == [pc |-> "lock", op |-> "uninstall", adapter |-> a, files |-> journal[a].files]
<1>1. InstallTypeOK /\ JournalOK BY DEF InstallInv
<1>2. /\ Goto(p, n) /\ journal[a] # NoRecord
      /\ UNCHANGED <<file, version, journal, legacy, store, lock, ghosts, edits>>
  BY DEF PlanUninstall, Uninstallable
<1>3. journal[a] \in Journals /\ RecordsOK(journal[a].files, a)
  BY <1>1, <1>2 DEF InstallTypeOK, JournalOK
<1>4. n \in Uninstalls BY <1>3 DEF Uninstalls, Journals
<1>5. n \in Doings BY <1>4 DEF Doings
<1>6. DoingOK(n) BY <1>3, <1>4, KindsApart DEF DoingOK
<1>7. n.pc \notin Held BY DEF Held
<1> HIDE DEF n
<1> QED BY <1>1, <1>2, <1>5, <1>6, <1>7, UnlockedStep DEF InstallTypeOK

-----------------------------------------------------------------------------
(* The locks. *)

LEMMA AcquireLockKeeps ==
  ASSUME InstallInv, NEW p \in Procs, AcquireLock(p)
  PROVE  InstallInv'
<1>1. InstallTypeOK /\ LockOK /\ DoingOK(st[p]) BY DEF InstallInv
<1>2. PICK s \in Doings : s = st[p] BY <1>1 DEF InstallTypeOK
<1>3. PICK n : n = [s EXCEPT !.pc = s.op] OBVIOUS
<1>4. /\ s.pc = "lock" /\ lock[s.adapter] = Free /\ lock' = [lock EXCEPT ![s.adapter] = p]
      /\ st' = [st EXCEPT ![p] = n]
      /\ UNCHANGED <<file, version, journal, legacy, store, ghosts, edits>>
  BY <1>2, <1>3 DEF AcquireLock, Goto
<1>5. s.adapter \in Adapters BY <1>4, DoingFacts DEF Installs, Uninstalls
<1>6. n \in Doings /\ n.adapter = s.adapter /\ DoingOK(n)
  <2>1. CASE s \in Installs
    <3>1. /\ n \in Installs /\ n.adapter = s.adapter /\ n.pc = "install" /\ n.old = s.old
          /\ n.new = s.new /\ n.made = s.made
      BY <1>3, <2>1 DEF Installs
    <3>2. Planned(s) /\ Saved(s) /\ DOMAIN s.made = {}
      BY <1>1, <1>2, <1>4, <2>1 DEF DoingOK
    <3>3. Planned(n) /\ Saved(n) BY <3>1, <3>2 DEF Planned, Saved
    <3> QED BY <3>1, <3>2, <3>3, KindsApart DEF DoingOK, Doings
  <2>2. CASE s \in Uninstalls
    <3>1. n \in Uninstalls /\ n.adapter = s.adapter /\ n.files = s.files /\ n.pc = "uninstall"
      BY <1>3, <2>2 DEF Uninstalls
    <3>2. RecordsOK(s.files, s.adapter) BY <1>1, <1>2, <2>2 DEF DoingOK
    <3> QED BY <3>1, <3>2, KindsApart DEF DoingOK, Doings
  <2> QED BY <1>4, <2>1, <2>2, DoingFacts
<1>7. lock \in [Adapters -> Procs \cup {Free}] BY <1>1 DEF InstallTypeOK
<1>8. lock' \in [Adapters -> Procs \cup {Free}] /\ lock'[n.adapter] = p
  BY <1>4, <1>5, <1>6, <1>7
<1>9. Free \notin Procs BY FilesAssumption DEF Free
<1>10. ASSUME NEW q \in Procs \ {p}, st[q].pc \in Held PROVE lock'[st[q].adapter] = q
  <2>1. lock[st[q].adapter] = q BY <1>1, <1>10 DEF LockOK
  <2>2. st[q].adapter # s.adapter BY <1>4, <1>9, <2>1
  <2>3. PICK u \in Doings : u = st[q] BY <1>1 DEF InstallTypeOK
  <2>4. u.adapter \in Adapters
    BY <1>10, <2>3, DoingFacts DEF Held, Installs, Uninstalls, Unlocks
  <2> QED BY <1>4, <1>7, <2>1, <2>2, <2>3, <2>4
<1>11. file' \in [Files -> Contents] /\ version' \in Nat /\ edits' \in Nat
  BY <1>1, <1>4 DEF InstallTypeOK
<1> QED BY <1>4, <1>6, <1>8, <1>10, <1>11, QuietStep

LEMMA RestingOK == Resting \in Doings /\ DoingOK(Resting) /\ Resting.pc \notin Held
<1>1. Resting.pc = "idle" BY DEF Resting
<1> QED BY <1>1, KindsApart DEF Doings, DoingOK, Held

LEMMA ReleaseLockKeeps ==
  ASSUME InstallInv, NEW p \in Procs, ReleaseLock(p)
  PROVE  InstallInv'
<1>1. InstallTypeOK /\ LockOK BY DEF InstallInv
<1>2. PICK s \in Doings : s = st[p] BY <1>1 DEF InstallTypeOK
<1>3. /\ s.pc = "unlock" /\ lock' = [lock EXCEPT ![s.adapter] = Free]
      /\ st' = [st EXCEPT ![p] = Resting]
      /\ UNCHANGED <<file, version, journal, legacy, store, ghosts, edits>>
  BY <1>2 DEF ReleaseLock, Goto
<1>4. s.adapter \in Adapters /\ lock[s.adapter] = p
  BY <1>1, <1>2, <1>3, DoingFacts DEF Unlocks, LockOK, Held
<1>5. lock \in [Adapters -> Procs \cup {Free}] BY <1>1 DEF InstallTypeOK
<1>6. lock' \in [Adapters -> Procs \cup {Free}] BY <1>3, <1>5
<1>7. ASSUME NEW q \in Procs \ {p}, st[q].pc \in Held PROVE lock'[st[q].adapter] = q
  <2>1. lock[st[q].adapter] = q BY <1>1, <1>7 DEF LockOK
  <2>2. st[q].adapter # s.adapter BY <1>4, <2>1
  <2>3. PICK u \in Doings : u = st[q] BY <1>1 DEF InstallTypeOK
  <2>4. u.adapter \in Adapters
    BY <1>7, <2>3, DoingFacts DEF Held, Installs, Uninstalls, Unlocks
  <2> QED BY <1>3, <1>5, <2>1, <2>2, <2>3, <2>4
<1>8. file' \in [Files -> Contents] /\ version' \in Nat /\ edits' \in Nat
  BY <1>1, <1>3 DEF InstallTypeOK
<1> QED BY <1>3, <1>6, <1>7, <1>8, RestingOK, QuietStep

LEMMA CrashKeeps ==
  ASSUME InstallInv, NEW p \in Procs, Crash(p)
  PROVE  InstallInv'
<1>1. InstallTypeOK /\ LockOK BY DEF InstallInv
<1>2. /\ st' = [st EXCEPT ![p] = Resting]
      /\ lock' = [a \in Adapters |-> IF lock[a] = p THEN Free ELSE lock[a]]
      /\ UNCHANGED <<file, version, journal, legacy, store, ghosts, edits>>
  BY DEF Crash, Goto
<1>3. lock \in [Adapters -> Procs \cup {Free}] BY <1>1 DEF InstallTypeOK
<1>4. lock' \in [Adapters -> Procs \cup {Free}] BY <1>2, <1>3
<1>5. ASSUME NEW q \in Procs \ {p}, st[q].pc \in Held PROVE lock'[st[q].adapter] = q
  <2>1. lock[st[q].adapter] = q BY <1>1, <1>5 DEF LockOK
  <2>2. PICK u \in Doings : u = st[q] BY <1>1 DEF InstallTypeOK
  <2>3. u.adapter \in Adapters
    BY <1>5, <2>2, DoingFacts DEF Held, Installs, Uninstalls, Unlocks
  <2> QED BY <1>2, <2>1, <2>2, <2>3
<1>6. file' \in [Files -> Contents] /\ version' \in Nat /\ edits' \in Nat
  BY <1>1, <1>2 DEF InstallTypeOK
<1> QED BY <1>2, <1>4, <1>5, <1>6, RestingOK, QuietStep

-----------------------------------------------------------------------------
(* The steps of the process that holds the lock of an adapter.             *)

(* They leave the plans of the others alone. *)
LEMMA OthersGoOn ==
  ASSUME InstallInv, NEW p \in Procs, st[p].pc \in Held, NEW a \in Adapters, a = st[p].adapter,
         \A b \in Adapters \ {a} : \A x :
            BackupOf(b, x) /\ x \in DOMAIN backups => x \in DOMAIN backups' /\ backups'[x] = backups[x],
         \A b \in Adapters \ {a} : journal'[b] = journal[b],
         NEW q \in Procs \ {p}
  PROVE  DoingOK(st[q]) => \A s : s = st[q] => DoingOK(s)'
<1> SUFFICES ASSUME DoingOK(st[q]), NEW s, s = st[q] PROVE DoingOK(s)' OBVIOUS
<1>1. LockOK /\ s \in Doings BY DEF InstallInv, InstallTypeOK
<1>2. CASE s \in Installs /\ s.pc = "backup"
  <2>1. s.adapter \in Adapters \ {a}
    BY <1>1, <1>2 DEF LockOK, Held, Installs
  <2>2. Saved(s)' BY <1>2, <2>1 DEF DoingOK, Saved
  <2>3. PriorStands(s)' BY <1>2, <2>1 DEF DoingOK, PriorStands
  <2> QED BY <1>2, <2>2, <2>3 DEF DoingOK
<1>3. CASE s \in Installs /\ s.pc # "backup" BY <1>3 DEF DoingOK, Saved
<1>4. CASE s \notin Installs BY <1>4 DEF DoingOK
<1> QED BY <1>2, <1>3, <1>4

(* They leave the journals of the other adapters alone. *)
LEMMA JournalsStay ==
  ASSUME InstallInv, NEW a \in Adapters, NEW b \in Adapters \ {a},
         \A x : BackupOf(b, x) /\ x \in DOMAIN backups => x \in DOMAIN backups' /\ backups'[x] = backups[x],
         journal'[b] = journal[b], \A f \in FilesOf[b] : first'[f] = first[f],
         b \in over' <=> b \in over, journal[b] # NoRecord
  PROVE  RecordsOK(journal'[b].files, b) /\ \A f \in FilesOf[b] : Kept(journal[b].files[f], b, f)'
<1>1. RecordsOK(journal[b].files, b) /\ \A f \in FilesOf[b] : Kept(journal[b].files[f], b, f)
  BY DEF InstallInv, JournalOK
<1>2. ASSUME NEW f \in FilesOf[b] PROVE Kept(journal[b].files[f], b, f)'
  <2>1. PICK r : r = journal[b].files[f] OBVIOUS
  <2>2. RecordOK(r, b, f) /\ Kept(r, b, f) BY <1>1, <2>1 DEF RecordsOK
  <2>3. b \notin over' => r.original = first'[f] BY <2>2 DEF Kept
  <2>4. ~r.created => r.backup \in DOMAIN backups' /\ backups'[r.backup] = r.original
    BY <2>2 DEF Kept, RecordOK
  <2>5. journal'[b].files[f] = r BY <2>1
  <2> QED BY <2>3, <2>4, <2>5 DEF Kept
<1> QED BY <1>1, <1>2

LEMMA FailKeeps ==
  ASSUME InstallInv, NEW p \in Procs, st[p].pc \in {"install", "backup", "uninstall"}, Fail(p)
  PROVE  InstallInv'
<1>1. /\ InstallTypeOK /\ JournalOK /\ LegacyOK /\ LockOK /\ NamesOK
      /\ \A q \in Procs : DoingOK(st[q])
  BY DEF InstallInv
<1>2. PICK s \in Doings : s = st[p] BY <1>1 DEF InstallTypeOK
<1>3. PICK a \in Adapters : a = s.adapter
  BY <1>2, DoingFacts DEF Installs, Uninstalls
<1>4. PICK n : n = [pc |-> "unlock", adapter |-> a] OBVIOUS
<1>5. n \in Unlocks /\ n.pc = "unlock" /\ n.adapter = a BY <1>4 DEF Unlocks
<1>6. PICK gone : gone = IF s.op = "install" /\ journal[a] = NoRecord
                         THEN {s.made[f] : f \in DOMAIN s.made} ELSE {}
  OBVIOUS
<1>7. PICK D : D = DOMAIN backups \ gone OBVIOUS
<1>8. /\ st' = [st EXCEPT ![p] = n] /\ journal' = journal /\ legacy' = legacy /\ lock' = lock
      /\ file' = file /\ version' = version /\ named' = named /\ edits' = edits
      /\ first' = first /\ over' = over
      /\ DOMAIN backups' = D /\ \A b \in D : backups'[b] = backups[b]
      /\ backups' \in Partial(Names, Contents)
  <2>1. backups \in Partial(Names, Contents) BY <1>1 DEF InstallTypeOK
  <2>2. PICK E \in SUBSET Names : backups \in [E -> Contents] BY <2>1 DEF Partial
  <2>3. backups' = [b \in D |-> backups[b]]
    <3>1. CASE s.op = "install" /\ journal[a] = NoRecord
      BY <1>2, <1>3, <1>6, <1>7, <3>1 DEF Fail
    <3>2. CASE ~(s.op = "install" /\ journal[a] = NoRecord)
      <4>1. backups' = backups /\ D = DOMAIN backups
        BY <1>2, <1>3, <1>6, <1>7, <3>2 DEF Fail
      <4> QED BY <2>2, <4>1
    <3> QED BY <3>1, <3>2
  <2>4. D \in SUBSET Names /\ backups' \in [D -> Contents] BY <1>7, <2>2, <2>3
  <2>5. backups' \in Partial(Names, Contents) BY <2>4 DEF Partial
  <2>6. st' = [st EXCEPT ![p] = n] BY <1>2, <1>3, <1>4 DEF Fail, Goto
  <2> QED BY <2>3, <2>5, <2>6 DEF Fail, ghosts
<1>9. \A x \in gone : BackupOf(a, x)
  <2>1. s.op = "install" => s \in Installs BY <1>2, DoingFacts DEF Uninstalls, Installs
  <2> QED BY <1>1, <1>2, <1>3, <1>6, <2>1 DEF DoingOK, Saved
<1>10. \A b \in Adapters \ {a} : \A x :
         BackupOf(b, x) /\ x \in DOMAIN backups => x \in DOMAIN backups' /\ backups'[x] = backups[x]
  BY <1>7, <1>8, <1>9, NameFacts
<1>11. \A q \in Procs : st'[q] = IF q = p THEN n ELSE st[q] BY <1>1, <1>8 DEF InstallTypeOK
<1>12. InstallTypeOK'
  <2>1. n \in Doings BY <1>5 DEF Doings
  <2> QED BY <1>1, <1>8, <2>1 DEF InstallTypeOK
<1>13. JournalOK'
  <2> SUFFICES ASSUME NEW b \in Adapters, journal[b] # NoRecord
               PROVE  RecordsOK(journal'[b].files, b) /\ \A f \in FilesOf[b] : Kept(journal[b].files[f], b, f)'
    BY <1>8 DEF JournalOK
  <2>1. CASE b # a BY <1>8, <1>10, <2>1, JournalsStay
  <2>2. CASE b = a
    <3>1. gone = {} BY <1>6, <2>2
    <3>2. DOMAIN backups' = DOMAIN backups /\ \A x \in DOMAIN backups : backups'[x] = backups[x]
      BY <1>7, <1>8, <3>1
    <3> QED BY <1>1, <1>8, <3>2 DEF JournalOK, Kept
  <2> QED BY <2>1, <2>2
<1>14. LegacyOK' /\ NamesOK' BY <1>1, <1>7, <1>8 DEF LegacyOK, NamesOK
<1>15. lock[a] = p /\ st[p].pc \in Held BY <1>1, <1>2, <1>3 DEF LockOK, Held
<1>16. LockOK' BY <1>1, <1>5, <1>8, <1>11, <1>15 DEF LockOK
<1>17. ASSUME NEW q \in Procs PROVE DoingOK(st[q])'
  <2>1. CASE q = p
    <3>1. DoingOK(n)' BY <1>5, KindsApart DEF DoingOK
    <3> QED BY <1>11, <2>1, <3>1
  <2>2. CASE q # p
    <3>1. PICK u : u = st[q] OBVIOUS
    <3>2. DoingOK(u)' BY <1>1, <1>2, <1>3, <1>8, <1>10, <1>15, <2>2, <3>1, OthersGoOn
    <3> QED BY <1>11, <2>2, <3>1, <3>2
  <2> QED BY <2>1, <2>2
<1> QED BY <1>12, <1>13, <1>14, <1>16, <1>17 DEF InstallInv

LEMMA ReplanKeeps ==
  ASSUME InstallInv, NEW p \in Procs, Replan(p)
  PROVE  InstallInv'
<1>1. /\ InstallTypeOK /\ JournalOK /\ LockOK /\ DoingOK(st[p]) BY DEF InstallInv
<1>2. PICK s \in Doings : s = st[p] BY <1>1 DEF InstallTypeOK
<1>3. s.pc = "install" /\ s \in Installs BY <1>2, DoingFacts DEF Replan
<1>4. PICK a \in Adapters : a = s.adapter BY <1>3 DEF Installs
<1>5. CASE Fail(p) BY <1>2, <1>3, <1>5, FailKeeps
<1>6. CASE ~Fail(p)
  <2>1. PICK n : n = [s EXCEPT !.pc = "backup", !.new = Plan(a), !.prior = journal[a]] OBVIOUS
  <2>2. /\ s.old = Current(a) /\ \A f \in FilesOf[a] : Steady(s, f)
        /\ Conflict \notin {Plan(a)[f] : f \in FilesOf[a]}
        /\ Goto(p, n)
        /\ UNCHANGED <<file, version, journal, legacy, store, lock, ghosts, edits>>
    BY <1>2, <1>4, <1>6, <2>1 DEF Replan
  <2>3. /\ Current(a) \in [FilesOf[a] -> Contents] /\ Plan(a) \in [FilesOf[a] -> Contents]
        /\ \A f \in FilesOf[a] : UserPart(f, Current(a)[f], Plan(a)[f])
    BY <1>1, <2>2, PlansOK
  <2>4. Plan(a) \in PerFile(Contents) BY <2>3 DEF PerFile
  <2>5. journal[a] \in Journals \cup {NoRecord} BY <1>1 DEF InstallTypeOK
  <2>6. /\ n \in Installs /\ n.pc = "backup" /\ n.adapter = a /\ n.old = s.old
        /\ n.new = Plan(a) /\ n.made = s.made /\ n.prior = journal[a]
    BY <1>3, <1>4, <2>1, <2>4, <2>5 DEF Installs
  <2>7. Planned(n) BY <2>2, <2>3, <2>6 DEF Planned
  <2>8. DOMAIN n.made = {} BY <1>1, <1>2, <1>3, <2>6 DEF DoingOK
  <2>9. PriorStands(n)
    <3> SUFFICES ASSUME journal[a] # NoRecord, NEW f \in FilesOf[a], Kind[f] # "block"
                 PROVE  n.old[f] = journal[a].files[f].installed
      BY <2>6 DEF PriorStands
    <3>1. f \in Recorded(journal[a]) BY <1>1 DEF Recorded, JournalOK, RecordsOK
    <3>2. file[f] = journal[a].files[f].installed BY <1>4, <2>2, <3>1 DEF Steady
    <3>3. s.old[f] = file[f] BY <2>2 DEF Current
    <3> QED BY <2>6, <3>2, <3>3
  <2>10. DoingOK(n) BY <2>6, <2>7, <2>8, <2>9, KindsApart DEF DoingOK, Saved
  <2>11. n \in Doings BY <2>6 DEF Doings
  <2>12. lock[n.adapter] = p BY <1>1, <1>2, <1>3, <1>4, <2>6 DEF LockOK, Held
  <2>13. file' \in [Files -> Contents] /\ version' \in Nat /\ edits' \in Nat
    BY <1>1, <2>2 DEF InstallTypeOK
  <2> QED BY <2>2, <2>10, <2>11, <2>12, <2>13, UnlockedStep
<1> QED BY <1>5, <1>6

LEMMA BackUpKeeps ==
  ASSUME InstallInv, NEW p \in Procs, BackUp(p)
  PROVE  InstallInv'
<1>1. /\ InstallTypeOK /\ JournalOK /\ LegacyOK /\ LockOK /\ NamesOK
      /\ \A q \in Procs : DoingOK(st[q])
  BY DEF InstallInv
<1>2. PICK s \in Doings : s = st[p] BY <1>1 DEF InstallTypeOK
<1>3. s.pc = "backup" /\ s \in Installs BY <1>2, DoingFacts DEF BackUp
<1>4. PICK a \in Adapters : a = s.adapter BY <1>3 DEF Installs
<1>5. PICK f \in ToBackUp(s), k \in Nat :
        /\ k = named + 1 /\ named' = k
        /\ backups' = With(backups, Name(a, k), s.old[f])
        /\ Goto(p, [s EXCEPT !.made = With(s.made, f, Name(a, k))])
  <2>1. named + 1 \in Nat BY <1>1 DEF InstallTypeOK
  <2> QED BY <1>2, <1>4, <2>1 DEF BackUp
<1>6. UNCHANGED <<file, version, journal, legacy, lock, ghosts, edits>> BY DEF BackUp
<1>7. PICK b : b = Name(a, k) OBVIOUS
<1>8. PICK n : n = [s EXCEPT !.made = With(s.made, f, b)] OBVIOUS
<1>9. Planned(s) /\ Saved(s) /\ PriorStands(s) BY <1>1, <1>2, <1>3 DEF DoingOK
<1>10. f \in FilesOf[a] /\ f \in Files /\ s.old[f] # Absent /\ s.old[f] \in Contents
  <2>1. f \in DOMAIN s.old /\ s.old[f] # Absent BY <1>5 DEF ToBackUp
  <2>2. f \in FilesOf[a] BY <1>4, <1>9, <2>1 DEF Planned
  <2>3. s.old \in PerFile(Contents) BY <1>3 DEF Installs
  <2>4. s.old[f] \in Contents BY <2>1, <2>3 DEF PerFile
  <2> QED BY <2>1, <2>2, <2>4, FilesAssumption DEF Files
<1>11. b \in Names /\ BackupOf(a, b) /\ b \notin DOMAIN backups
  <2>1. b \notin DOMAIN backups BY <1>1, <1>5, <1>7 DEF NamesOK, InstallTypeOK
  <2> QED BY <1>5, <1>7, <2>1, NameFacts DEF BackupOf
<1>12. /\ DOMAIN backups' = DOMAIN backups \cup {b} /\ backups'[b] = s.old[f]
       /\ \A x \in DOMAIN backups : x # b => backups'[x] = backups[x]
       /\ backups' \in Partial(Names, Contents)
  <2>1. PICK E \in SUBSET Names : backups \in [E -> Contents] BY <1>1 DEF InstallTypeOK, Partial
  <2>2. backups' = [y \in E \cup {b} |-> IF y = b THEN s.old[f] ELSE backups[y]]
    BY <1>5, <1>7, <2>1 DEF With
  <2>3. E \cup {b} \in SUBSET Names /\ backups' \in [E \cup {b} -> Contents]
    BY <1>10, <1>11, <2>1, <2>2
  <2>4. backups' \in Partial(Names, Contents) BY <2>3 DEF Partial
  <2> QED BY <2>1, <2>2, <2>4
<1>13. PICK made : /\ made = With(s.made, f, b) /\ made \in Partial(Files, Names)
                   /\ DOMAIN made = DOMAIN s.made \cup {f} /\ made[f] = b
                   /\ \A g \in DOMAIN s.made : g # f => made[g] = s.made[g]
  <2>1. PICK E \in SUBSET Files : s.made \in [E -> Names] BY <1>3 DEF Installs, Partial
  <2>2. PICK m : m = With(s.made, f, b) OBVIOUS
  <2>3. m = [y \in E \cup {f} |-> IF y = f THEN b ELSE s.made[y]] BY <2>1, <2>2 DEF With
  <2>4. E \cup {f} \in SUBSET Files /\ m \in [E \cup {f} -> Names]
    BY <1>10, <1>11, <2>1, <2>3
  <2>5. m \in Partial(Files, Names) BY <2>4 DEF Partial
  <2> QED BY <2>1, <2>2, <2>3, <2>5
<1>14. /\ n \in Installs /\ n.pc = "backup" /\ n.adapter = a /\ n.old = s.old /\ n.new = s.new
       /\ n.made = made /\ n.prior = s.prior
  BY <1>3, <1>4, <1>8, <1>13 DEF Installs
<1>15. st' = [st EXCEPT ![p] = n] BY <1>5, <1>7, <1>8 DEF Goto
<1>16. \A q \in Procs : st'[q] = IF q = p THEN n ELSE st[q] BY <1>1, <1>15 DEF InstallTypeOK
<1>17. \A x : x \in DOMAIN backups => x \in DOMAIN backups' /\ backups'[x] = backups[x]
  BY <1>11, <1>12
<1>18. InstallTypeOK'
  <2>1. n \in Doings BY <1>14 DEF Doings
  <2> QED BY <1>1, <1>5, <1>6, <1>12, <1>15, <2>1 DEF InstallTypeOK
<1>19. JournalOK' /\ LegacyOK'
  BY <1>1, <1>6, <1>17 DEF JournalOK, LegacyOK, Kept, ghosts
<1>20. NamesOK'
  <2> SUFFICES ASSUME NEW c \in Adapters, NEW m \in Nat, Name(c, m) \in DOMAIN backups'
               PROVE  m <= k
    BY <1>5 DEF NamesOK
  <2>1. CASE Name(c, m) = b BY <1>5, <1>7, <2>1, NameFacts
  <2>2. CASE Name(c, m) \in DOMAIN backups
    <3>1. m <= named /\ named \in Nat BY <1>1, <2>2 DEF NamesOK, InstallTypeOK
    <3> QED BY <1>5, <3>1
  <2> QED BY <1>12, <2>1, <2>2
<1>21. LockOK' BY <1>1, <1>2, <1>3, <1>4, <1>6, <1>14, <1>16 DEF LockOK, Held
<1>22. ASSUME NEW q \in Procs PROVE DoingOK(st[q])'
  <2>1. CASE q = p
    <3>1. Planned(n) BY <1>4, <1>9, <1>14 DEF Planned
    <3>2. Saved(n)'
      <4> SUFFICES ASSUME NEW g \in DOMAIN made
                   PROVE  /\ g \in FilesOf[a] /\ s.old[g] # Absent /\ BackupOf(a, made[g])
                          /\ made[g] \in DOMAIN backups' /\ backups'[made[g]] = s.old[g]
        BY <1>14 DEF Saved
      <4>1. CASE g = f BY <1>10, <1>11, <1>12, <1>13, <4>1
      <4>2. CASE g # f BY <1>4, <1>9, <1>13, <1>17, <4>2 DEF Saved
      <4> QED BY <4>1, <4>2
    <3>3. PriorStands(n)' BY <1>4, <1>6, <1>9, <1>14 DEF PriorStands
    <3>4. DoingOK(n)' BY <1>14, <3>1, <3>2, <3>3, KindsApart DEF DoingOK
    <3> QED BY <1>16, <2>1, <3>4
  <2>2. CASE q # p
    <3>1. PICK u : u = st[q] OBVIOUS
    <3>2. DoingOK(u) BY <1>1, <3>1
    <3>3. DoingOK(u)' BY <1>6, <1>17, <3>2 DEF DoingOK, Saved, PriorStands
    <3> QED BY <1>16, <2>2, <3>1, <3>3
  <2> QED BY <2>1, <2>2
<1> QED BY <1>18, <1>19, <1>20, <1>21, <1>22 DEF InstallInv

(* What an install knows of a file when it commits. *)
LEMMA Committing ==
  ASSUME InstallInv, NEW p \in Procs, NEW s \in Installs, s = st[p], s.pc = "backup",
         ToBackUp(s) = {}, NEW a \in Adapters, a = s.adapter, NEW f \in FilesOf[a]
  PROVE  /\ s.old[f] \in Contents /\ s.new[f] \in Contents /\ UserPart(f, s.old[f], s.new[f])
         /\ s.prior = NoRecord =>
              /\ f \notin Recorded(s.prior)
              /\ s.old[f] # Absent => f \in DOMAIN s.made
              /\ s.old[f] = Absent => f \notin DOMAIN s.made
         /\ s.prior # NoRecord =>
              /\ f \in Recorded(s.prior) /\ journal[a] = s.prior
              /\ s.prior.files[f] \in Records /\ RecordOK(s.prior.files[f], a, f)
              /\ Kept(s.prior.files[f], a, f)
              /\ Kind[f] # "block" => s.old[f] = s.prior.files[f].installed
<1>1. Planned(s) /\ Saved(s) /\ PriorStands(s) /\ JournalOK /\ InstallTypeOK
  BY DEF InstallInv, DoingOK
<1>2. s.old \in PerFile(Contents) /\ s.new \in PerFile(Contents) /\ s.prior \in Journals \cup {NoRecord}
  BY DEF Installs
<1>3. s.old[f] \in Contents /\ s.new[f] \in Contents BY <1>1, <1>2 DEF PerFile, Planned
<1>4. UserPart(f, s.old[f], s.new[f]) /\ f \in DOMAIN s.old BY <1>1 DEF Planned
<1>5. ASSUME s.prior = NoRecord
      PROVE  /\ f \notin Recorded(s.prior)
             /\ s.old[f] # Absent => f \in DOMAIN s.made
             /\ s.old[f] = Absent => f \notin DOMAIN s.made
  <2>1. Recorded(s.prior) = {} BY <1>5 DEF Recorded
  <2> QED BY <1>1, <1>4, <2>1 DEF ToBackUp, Saved
<1>6. ASSUME s.prior # NoRecord
      PROVE  /\ f \in Recorded(s.prior) /\ journal[a] = s.prior
             /\ s.prior.files[f] \in Records /\ RecordOK(s.prior.files[f], a, f)
             /\ Kept(s.prior.files[f], a, f)
             /\ Kind[f] # "block" => s.old[f] = s.prior.files[f].installed
  <2>1. journal[a] = s.prior /\ (Kind[f] # "block" => s.old[f] = s.prior.files[f].installed)
    BY <1>1, <1>6 DEF PriorStands
  <2>2. RecordsOK(s.prior.files, a) /\ Kept(s.prior.files[f], a, f)
    BY <1>1, <1>6, <2>1 DEF JournalOK
  <2>3. f \in DOMAIN s.prior.files /\ RecordOK(s.prior.files[f], a, f) BY <2>2 DEF RecordsOK
  <2>4. f \in Recorded(s.prior) BY <1>6, <2>3 DEF Recorded
  <2>5. s.prior.files \in PerFile(Records) BY <1>2, <1>6 DEF Journals
  <2>6. s.prior.files[f] \in Records BY <2>3, <2>5 DEF PerFile
  <2> QED BY <2>1, <2>2, <2>3, <2>4, <2>6
<1> QED BY <1>3, <1>4, <1>5, <1>6

LEMMA CommitInstallKeeps ==
  ASSUME InstallInv, NEW p \in Procs, CommitInstall(p)
  PROVE  InstallInv'
<1>1. /\ InstallTypeOK /\ JournalOK /\ LegacyOK /\ LockOK /\ NamesOK
      /\ \A q \in Procs : DoingOK(st[q])
  BY DEF InstallInv
<1>2. PICK s \in Doings : s = st[p] BY <1>1 DEF InstallTypeOK
<1>3. s.pc = "backup" /\ s \in Installs /\ ToBackUp(s) = {}
  BY <1>2, DoingFacts DEF CommitInstall
<1>4. PICK a \in Adapters : a = s.adapter BY <1>3 DEF Installs
<1>5. CASE Fail(p) BY <1>2, <1>3, <1>5, FailKeeps
<1>6. CASE ~Fail(p)
  <2>1. PICK n : n = [pc |-> "unlock", adapter |-> a] OBVIOUS
  <2>2. n \in Unlocks /\ n.pc = "unlock" /\ n.adapter = a /\ n \in Doings
    BY <2>1 DEF Unlocks, Doings
  <2>3. PICK j : j = [f \in FilesOf[a] |-> NewRecord(s, f)] OBVIOUS
  <2>4. /\ FilesOf[a] \cap Governed = {}
        /\ file' = [f \in Files |-> IF f \in FilesOf[a] /\ s.old[f] # s.new[f]
                                    THEN s.new[f] ELSE file[f]]
        /\ journal' = [journal EXCEPT ![a] = [files |-> j]]
        /\ legacy' = [legacy EXCEPT ![a] = NoRecord]
        /\ first' = [f \in Files |-> IF f \in FilesOf[a] /\ ~Journalled(a)
                                     THEN s.old[f] ELSE first[f]]
        /\ over' = IF s.prior = NoRecord /\ Journalled(a) THEN over \cup {a} ELSE over
        /\ st' = [st EXCEPT ![p] = n]
        /\ version' = version /\ lock' = lock /\ edits' = edits
        /\ backups' = backups /\ named' = named
    BY <1>2, <1>4, <1>6, <2>1, <2>3 DEF CommitInstall, Goto, store
  <2>5. FilesOf[a] \subseteq Files /\ FilesOf[a] \subseteq DOMAIN Kind
    BY FilesAssumption DEF Files
  <2>6. ASSUME NEW f \in FilesOf[a]
        PROVE  /\ j[f] \in Records /\ RecordOK(j[f], a, f)
               /\ a \notin over' => j[f].original = first'[f]
               /\ ~j[f].created => j[f].backup \in DOMAIN backups /\ backups[j[f].backup] = j[f].original
    <3>1. j[f] = NewRecord(s, f) BY <2>3
    <3>2. s.old[f] \in Contents /\ s.new[f] \in Contents /\ UserPart(f, s.old[f], s.new[f])
      BY <1>2, <1>3, <1>4, Committing
    <3>3. Kind[f] \in {"merge", "own"} BY <2>4, <2>5, GovernedBlocks
    <3>4. CASE s.prior = NoRecord
      <4>1. /\ f \notin Recorded(s.prior)
            /\ s.old[f] # Absent => f \in DOMAIN s.made
            /\ s.old[f] = Absent => f \notin DOMAIN s.made
        BY <1>2, <1>3, <1>4, <3>4, Committing
      <4>2. PICK b : b = IF f \in DOMAIN s.made THEN s.made[f] ELSE NoBackup OBVIOUS
      <4>3. j[f] = [created |-> s.old[f] = Absent, original |-> s.old[f],
                    installed |-> s.new[f], backup |-> b]
        BY <3>1, <4>1, <4>2 DEF NewRecord
      <4>4. s.old[f] # Absent =>
              BackupOf(a, b) /\ b \in DOMAIN backups /\ backups[b] = s.old[f]
        BY <1>1, <1>2, <1>3, <1>4, <4>1, <4>2 DEF DoingOK, Saved
      <4>5. s.old[f] = Absent => b = NoBackup BY <4>1, <4>2
      <4>6. b \in Names \cup {NoBackup} BY <4>4, <4>5, NameFacts
      <4>7. j[f] \in Records
        <5>1. (s.old[f] = Absent) \in BOOLEAN OBVIOUS
        <5> QED BY <3>2, <4>3, <4>6, <5>1 DEF Records
      <4>8. /\ (j[f].created <=> s.old[f] = Absent) /\ j[f].original = s.old[f]
            /\ j[f].installed = s.new[f] /\ j[f].backup = b
        <5>1. PICK c : c = (s.old[f] = Absent) OBVIOUS
        <5>2. j[f] = [created |-> c, original |-> s.old[f], installed |-> s.new[f], backup |-> b]
          BY <4>3, <5>1
        <5>3. /\ j[f].created = c /\ j[f].original = s.old[f]
              /\ j[f].installed = s.new[f] /\ j[f].backup = b
          BY <5>2
        <5>4. j[f].created <=> s.old[f] = Absent BY <5>1, <5>3, Zenon
        <5> QED BY <5>3, <5>4
      <4>9. RecordOK(j[f], a, f) BY <3>2, <3>3, <4>4, <4>5, <4>8 DEF RecordOK, UserPart
      <4>10. a \notin over' => first'[f] = s.old[f] BY <2>4, <2>5, <3>4
      <4> QED BY <4>4, <4>7, <4>8, <4>9, <4>10
    <3>5. CASE s.prior # NoRecord
      <4>1. PICK r \in Records : r = s.prior.files[f]
        BY <1>2, <1>3, <1>4, <3>5, Committing
      <4>2. /\ f \in Recorded(s.prior) /\ RecordOK(r, a, f) /\ Kept(r, a, f)
            /\ journal[a] # NoRecord /\ s.old[f] = r.installed
        BY <1>2, <1>3, <1>4, <3>3, <3>5, <4>1, Committing
      <4>3. j[f] = [r EXCEPT !.installed = s.new[f]] BY <3>1, <4>1, <4>2 DEF NewRecord
      <4>4. /\ j[f] \in Records /\ j[f].created = r.created /\ j[f].original = r.original
            /\ j[f].installed = s.new[f] /\ j[f].backup = r.backup
        BY <3>2, <4>3 DEF Records
      <4>5. RecordOK(j[f], a, f) BY <3>2, <3>3, <4>2, <4>4 DEF RecordOK, UserPart
      <4>6. first'[f] = first[f] /\ over' = over BY <2>4, <2>5, <3>5, <4>2 DEF Journalled
      <4> QED BY <4>2, <4>4, <4>5, <4>6 DEF Kept
    <3> QED BY <3>4, <3>5
  <2>7. \A b \in Adapters \ {a} : /\ \A f \in FilesOf[b] : first'[f] = first[f]
                                  /\ b \in over' <=> b \in over
    BY <2>4, FilesAssumption DEF Files
  <2>8. j \in PerFile(Records) /\ DOMAIN j = FilesOf[a]
    <3>1. j \in [FilesOf[a] -> Records] BY <2>3, <2>6
    <3> QED BY <3>1 DEF PerFile
  <2>9. [files |-> j] \in Journals /\ [files |-> j].files = j BY <2>8 DEF Journals
  <2>10. /\ \A b \in Adapters : journal'[b] = IF b = a THEN [files |-> j] ELSE journal[b]
         /\ \A b \in Adapters : legacy'[b] = IF b = a THEN NoRecord ELSE legacy[b]
         /\ \A q \in Procs : st'[q] = IF q = p THEN n ELSE st[q]
    BY <1>1, <2>4 DEF InstallTypeOK
  <2>11. InstallTypeOK'
    <3>1. \A f \in Files : file'[f] \in Contents
      <4>1. \A f \in FilesOf[a] : s.new[f] \in Contents BY <1>2, <1>3, <1>4, Committing
      <4> QED BY <1>1, <2>4, <4>1 DEF InstallTypeOK
    <3>2. file' \in [Files -> Contents] BY <2>4, <3>1
    <3> QED BY <1>1, <2>2, <2>4, <2>9, <3>2 DEF InstallTypeOK
  <2>12. JournalOK'
    <3> SUFFICES ASSUME NEW b \in Adapters, journal'[b] # NoRecord
                 PROVE  RecordsOK(journal'[b].files, b) /\ \A f \in FilesOf[b] : Kept(journal[b].files[f], b, f)'
      BY DEF JournalOK
    <3>1. CASE b # a
      <4>1. journal'[b] = journal[b] BY <2>10, <3>1
      <4> QED BY <2>4, <2>7, <3>1, <4>1, JournalsStay
    <3>2. CASE b = a
      <4>1. journal'[b].files = j BY <2>9, <2>10, <3>2
      <4>2. RecordsOK(j, a) BY <2>6, <2>8 DEF RecordsOK
      <4> QED BY <2>4, <2>6, <3>2, <4>1, <4>2 DEF Kept
    <3> QED BY <3>1, <3>2
  <2>13. LegacyOK' BY <1>1, <2>7, <2>10 DEF LegacyOK
  <2>14. NamesOK' BY <1>1, <2>4 DEF NamesOK
  <2>15. lock[a] = p /\ st[p].pc \in Held BY <1>1, <1>2, <1>3, <1>4 DEF LockOK, Held
  <2>16. LockOK' BY <1>1, <2>2, <2>4, <2>10, <2>15 DEF LockOK
  <2>17. ASSUME NEW q \in Procs PROVE DoingOK(st[q])'
    <3>1. CASE q = p
      <4>1. DoingOK(n)' BY <2>2, KindsApart DEF DoingOK
      <4> QED BY <2>10, <3>1, <4>1
    <3>2. CASE q # p
      <4>1. PICK u : u = st[q] OBVIOUS
      <4>2. \A b \in Adapters \ {a} : journal'[b] = journal[b] BY <2>10
      <4>3. DoingOK(u)' BY <1>1, <1>2, <1>4, <2>4, <2>15, <3>2, <4>1, <4>2, OthersGoOn
      <4> QED BY <2>10, <3>2, <4>1, <4>3
    <3> QED BY <3>1, <3>2
  <2> QED BY <2>11, <2>12, <2>13, <2>14, <2>16, <2>17 DEF InstallInv
<1> QED BY <1>5, <1>6

(* What an uninstall does to the files, journals and backups. *)
Uninstalled(p, s, a, saved) ==
    /\ s = st[p] /\ s.pc = "uninstall" /\ a = s.adapter /\ RecordsOK(s.files, a)
    /\ \A f \in FilesOf[a] : s.files[f] \in Records /\ file[f] = s.files[f].installed
    /\ saved = {s.files[f].backup : f \in {g \in FilesOf[a] : ~s.files[g].created}}
    /\ FilesOf[a] \cap Governed = {}
    /\ file' = [f \in Files |-> IF f \in FilesOf[a] THEN s.files[f].original ELSE file[f]]
    /\ backups' = [b \in DOMAIN backups \ saved |-> backups[b]]
    /\ journal[a] # NoRecord
    /\ journal' = [journal EXCEPT ![a] = NoRecord]
    /\ st' = [st EXCEPT ![p] = [pc |-> "unlock", adapter |-> a]]
    /\ version' = version /\ legacy' = legacy /\ lock' = lock /\ named' = named
    /\ first' = first /\ over' = over \ {a} /\ edits' = edits

LEMMA Uninstalling ==
  ASSUME InstallInv, NEW p \in Procs, CommitUninstall(p), ~Fail(p)
  PROVE  \E s \in Uninstalls, a \in Adapters : \E saved : Uninstalled(p, s, a, saved)
<1>1. PICK s \in Doings : s = st[p] BY DEF InstallInv, InstallTypeOK
<1>2. s.pc = "uninstall" /\ s \in Uninstalls BY <1>1, DoingFacts DEF CommitUninstall
<1>3. PICK a \in Adapters : a = s.adapter BY <1>2 DEF Uninstalls
<1>4. RecordsOK(s.files, a) BY <1>1, <1>2, <1>3 DEF InstallInv, DoingOK
<1>5. \A f \in FilesOf[a] : s.files[f] \in Records
  <2>1. s.files \in PerFile(Records) BY <1>2 DEF Uninstalls
  <2> QED BY <1>4, <2>1 DEF RecordsOK, PerFile
<1>6. PICK saved : saved = {s.files[f].backup : f \in {g \in FilesOf[a] : ~s.files[g].created}}
  OBVIOUS
<1>7. /\ \A f \in FilesOf[a] : file[f] = s.files[f].installed
      /\ FilesOf[a] \cap Governed = {}
      /\ file' = [f \in Files |-> IF f \in FilesOf[a] THEN s.files[f].original ELSE file[f]]
      /\ backups' = [b \in DOMAIN backups \ saved |-> backups[b]]
      /\ journal[a] # NoRecord
      /\ journal' = [journal EXCEPT ![a] = NoRecord]
      /\ st' = [st EXCEPT ![p] = [pc |-> "unlock", adapter |-> a]]
      /\ version' = version /\ legacy' = legacy /\ lock' = lock /\ named' = named
      /\ first' = first /\ over' = over \ {a} /\ edits' = edits
  BY <1>1, <1>3, <1>6 DEF CommitUninstall, Goto
<1>8. Uninstalled(p, s, a, saved) BY <1>1, <1>2, <1>3, <1>4, <1>5, <1>6, <1>7 DEF Uninstalled
<1> QED BY <1>2, <1>8

LEMMA CommitUninstallKeeps ==
  ASSUME InstallInv, NEW p \in Procs, CommitUninstall(p)
  PROVE  InstallInv'
<1>1. /\ InstallTypeOK /\ JournalOK /\ LegacyOK /\ LockOK /\ NamesOK
      /\ \A q \in Procs : DoingOK(st[q])
  BY DEF InstallInv
<1>2. CASE Fail(p)
  <2>1. st[p].pc = "uninstall" BY DEF CommitUninstall
  <2> QED BY <1>2, <2>1, FailKeeps
<1>3. CASE ~Fail(p)
  <2>1a. PICK s \in Uninstalls, a \in Adapters : \E saved : Uninstalled(p, s, a, saved)
    BY <1>3, Uninstalling
  <2>1b. PICK saved : Uninstalled(p, s, a, saved) BY <2>1a
  <2>1. /\ s = st[p] /\ s.pc = "uninstall" /\ a = s.adapter /\ RecordsOK(s.files, a)
        /\ \A f \in FilesOf[a] : s.files[f] \in Records /\ file[f] = s.files[f].installed
        /\ saved = {s.files[f].backup : f \in {g \in FilesOf[a] : ~s.files[g].created}}
        /\ FilesOf[a] \cap Governed = {}
        /\ file' = [f \in Files |-> IF f \in FilesOf[a] THEN s.files[f].original ELSE file[f]]
        /\ backups' = [b \in DOMAIN backups \ saved |-> backups[b]]
        /\ journal[a] # NoRecord
        /\ journal' = [journal EXCEPT ![a] = NoRecord]
        /\ st' = [st EXCEPT ![p] = [pc |-> "unlock", adapter |-> a]]
        /\ version' = version /\ legacy' = legacy /\ lock' = lock /\ named' = named
        /\ first' = first /\ over' = over \ {a} /\ edits' = edits
    BY <2>1b DEF Uninstalled
  <2>2. PICK n : n = [pc |-> "unlock", adapter |-> a] OBVIOUS
  <2>3. n \in Unlocks /\ n.pc = "unlock" /\ n.adapter = a /\ n \in Doings
    BY <2>2 DEF Unlocks, Doings
  <2>4. st' = [st EXCEPT ![p] = n] BY <2>1, <2>2
  <2>5. \A x \in saved : BackupOf(a, x) BY <2>1 DEF RecordsOK, RecordOK
  <2>6. PICK D : D = DOMAIN backups \ saved OBVIOUS
  <2>7. /\ DOMAIN backups' = D /\ \A b \in D : backups'[b] = backups[b]
        /\ backups' \in Partial(Names, Contents)
    <3>1. PICK E \in SUBSET Names : backups \in [E -> Contents]
      BY <1>1 DEF InstallTypeOK, Partial
    <3>2. backups' = [b \in D |-> backups[b]] BY <2>1, <2>6
    <3>3. D \in SUBSET Names /\ backups' \in [D -> Contents] BY <2>6, <3>1, <3>2
    <3>4. backups' \in Partial(Names, Contents) BY <3>3 DEF Partial
    <3> QED BY <3>2, <3>4
  <2>8. \A b \in Adapters \ {a} : \A x :
          BackupOf(b, x) /\ x \in DOMAIN backups => x \in DOMAIN backups' /\ backups'[x] = backups[x]
    BY <2>5, <2>6, <2>7, NameFacts
  <2>9. /\ \A b \in Adapters : journal'[b] = IF b = a THEN NoRecord ELSE journal[b]
        /\ \A q \in Procs : st'[q] = IF q = p THEN n ELSE st[q]
    BY <1>1, <2>1, <2>4 DEF InstallTypeOK
  <2>10. InstallTypeOK'
    <3>1. \A f \in FilesOf[a] : s.files[f].original \in Contents BY <2>1 DEF Records
    <3>2. file' \in [Files -> Contents] BY <1>1, <2>1, <3>1 DEF InstallTypeOK
    <3>3. journal' \in [Adapters -> Journals \cup {NoRecord}] BY <1>1, <2>1 DEF InstallTypeOK
    <3>4. st' \in [Procs -> Doings] BY <1>1, <2>3, <2>4 DEF InstallTypeOK
    <3> QED BY <1>1, <2>1, <2>7, <3>2, <3>3, <3>4 DEF InstallTypeOK
  <2>11. JournalOK'
    <3> SUFFICES ASSUME NEW b \in Adapters, journal'[b] # NoRecord
                 PROVE  RecordsOK(journal'[b].files, b) /\ \A f \in FilesOf[b] : Kept(journal[b].files[f], b, f)'
      BY DEF JournalOK
    <3>1. b # a /\ journal'[b] = journal[b] BY <2>9
    <3>2. (\A f \in FilesOf[b] : first'[f] = first[f]) /\ (b \in over' <=> b \in over) BY <2>1, <3>1
    <3> QED BY <2>8, <3>1, <3>2, JournalsStay
  <2>12. LegacyOK' BY <1>1, <2>1, <2>9 DEF LegacyOK
  <2>13. NamesOK' BY <1>1, <2>1, <2>6, <2>7 DEF NamesOK
  <2>14. lock[a] = p /\ st[p].pc \in Held BY <1>1, <2>1 DEF LockOK, Held
  <2>15. LockOK' BY <1>1, <2>1, <2>3, <2>9, <2>14 DEF LockOK
  <2>16. ASSUME NEW q \in Procs PROVE DoingOK(st[q])'
    <3>1. CASE q = p
      <4>1. DoingOK(n)' BY <2>3, KindsApart DEF DoingOK
      <4> QED BY <2>9, <3>1, <4>1
    <3>2. CASE q # p
      <4>1. PICK u : u = st[q] OBVIOUS
      <4>2. \A b \in Adapters \ {a} : journal'[b] = journal[b] BY <2>9
      <4>3. DoingOK(st[q]) /\ a = st[p].adapter /\ st[p].pc \in Held BY <1>1, <2>1, <2>14
      <4>4. DoingOK(u)' BY <2>8, <3>2, <4>1, <4>2, <4>3, OthersGoOn
      <4> QED BY <2>9, <3>2, <4>1, <4>4
    <3> QED BY <3>1, <3>2
  <2> QED BY <2>10, <2>11, <2>12, <2>13, <2>15, <2>16 DEF InstallInv
<1> QED BY <1>2, <1>3

LEMMA UpgradeKeeps ==
  ASSUME InstallInv, NEW p \in Procs, Upgrade(p)
  PROVE  InstallInv'
<1>1. /\ InstallTypeOK /\ JournalOK /\ LegacyOK /\ LockOK /\ NamesOK
      /\ \A q \in Procs : DoingOK(st[q])
  BY DEF InstallInv
<1>2. /\ journal' = [a \in Adapters |-> IF legacy[a] # NoRecord THEN legacy[a] ELSE journal[a]]
      /\ legacy' = [a \in Adapters |-> NoRecord]
      /\ file' = file /\ version' = version /\ lock' = lock /\ st' = st /\ edits' = edits
      /\ backups' = backups /\ named' = named /\ first' = first /\ over' = over
      /\ \A a \in Adapters : legacy[a] # NoRecord => journal[a] = NoRecord /\ Migratable(a)
  BY DEF Upgrade, PlanUpgrade, store, ghosts
<1>3. InstallTypeOK' BY <1>1, <1>2 DEF InstallTypeOK
<1>4. JournalOK'
  <2> SUFFICES ASSUME NEW a \in Adapters, journal'[a] # NoRecord
               PROVE  RecordsOK(journal'[a].files, a) /\ \A f \in FilesOf[a] : Kept(journal[a].files[f], a, f)'
    BY DEF JournalOK
  <2>1. CASE legacy[a] = NoRecord
    <3>1. journal'[a] = journal[a] BY <1>2, <2>1
    <3> QED BY <1>1, <1>2, <3>1 DEF JournalOK, Kept
  <2>2. CASE legacy[a] # NoRecord
    <3>1. journal'[a] = legacy[a] BY <1>2, <2>2
    <3>2. /\ RecordsOK(legacy[a].files, a)
          /\ \A f \in FilesOf[a] : legacy[a].files[f].original = first[f]
      BY <1>1, <2>2 DEF LegacyOK
    <3>3. \A f \in FilesOf[a] : ~legacy[a].files[f].created =>
             /\ legacy[a].files[f].backup \in DOMAIN backups
             /\ backups[legacy[a].files[f].backup] = legacy[a].files[f].original
      BY <1>2, <2>2 DEF Migratable
    <3> QED BY <1>2, <3>1, <3>2, <3>3 DEF Kept
  <2> QED BY <2>1, <2>2
<1>5. LegacyOK' /\ LockOK' /\ NamesOK' BY <1>1, <1>2 DEF LegacyOK, LockOK, NamesOK
<1>6. ASSUME NEW q \in Procs PROVE DoingOK(st[q])'
  <2>1. PICK s \in Doings : s = st[q] BY <1>1 DEF InstallTypeOK
  <2>2. DoingOK(s) BY <1>1, <2>1
  <2>3. ASSUME s \in Installs, PriorStands(s) PROVE PriorStands(s)'
    <3>1. s.adapter \in Adapters BY <2>3 DEF Installs
    <3>2. ASSUME s.prior # NoRecord PROVE journal'[s.adapter] = s.prior
      <4>1. journal[s.adapter] = s.prior BY <2>3, <3>2 DEF PriorStands
      <4>2. legacy[s.adapter] = NoRecord BY <1>1, <3>1, <3>2, <4>1 DEF LegacyOK
      <4> QED BY <1>2, <3>1, <4>1, <4>2
    <3> QED BY <2>3, <3>2 DEF PriorStands
  <2>4. Saved(s) => Saved(s)' BY <1>2 DEF Saved
  <2>5. DoingOK(s)' BY <2>2, <2>3, <2>4 DEF DoingOK
  <2> QED BY <1>2, <2>1, <2>5
<1> QED BY <1>3, <1>4, <1>5, <1>6 DEF InstallInv

-----------------------------------------------------------------------------
(* Modules, the migration of the state, the user and new releases.         *)

LEMMA SnapshotKeeps ==
  ASSUME InstallInv, NEW p \in Procs, Snapshot(p)
  PROVE  InstallInv'
<1>1. InstallTypeOK BY DEF InstallInv
<1>2. PICK present \in Registries : \E m \in Found(present) :
        /\ DeclaredWriteRootsOK(m)
        /\ Goto(p, [pc |-> "copy", before |-> file, module |-> m])
  BY DEF Snapshot
<1>3. PICK m \in Found(present) :
        /\ DeclaredWriteRootsOK(m)
        /\ Goto(p, [pc |-> "copy", before |-> file, module |-> m])
  BY <1>2
<1>4. m \in UNION Registries BY <1>3 DEF Found
<1>5. PICK n : n = [pc |-> "copy", before |-> file, module |-> m] OBVIOUS
<1>6. n \in Snapshots /\ n.pc = "copy" /\ n.module = m
  BY <1>1, <1>4, <1>5 DEF Snapshots, InstallTypeOK
<1>7. n \in Doings /\ DoingOK(n) /\ n.pc \notin Held
  BY <1>3, <1>6, KindsApart DEF Doings, DoingOK, Held
<1>8. /\ file' \in [Files -> Contents] /\ version' \in Nat /\ edits' \in Nat
      /\ UNCHANGED <<journal, legacy, store, lock, ghosts>>
  BY <1>1 DEF Snapshot, InstallTypeOK
<1> QED BY <1>3, <1>5, <1>7, <1>8, UnlockedStep

LEMMA RunIsolatedKeeps ==
  ASSUME InstallInv, NEW p \in Procs, RunIsolated(p)
  PROVE  InstallInv'
<1>1. InstallTypeOK /\ DoingOK(st[p]) BY DEF InstallInv
<1>2. PICK s \in Doings : s = st[p] BY <1>1 DEF InstallTypeOK
<1>3. s.pc = "copy" /\ s \in Snapshots /\ DeclaredWriteRootsOK(s.module)
  BY <1>1, <1>2, DoingFacts DEF RunIsolated, DoingOK
<1>4. /\ file' \in [Files -> Contents] /\ version' \in Nat /\ edits' \in Nat
      /\ UNCHANGED <<journal, legacy, store, lock, ghosts>>
  BY <1>1 DEF RunIsolated, InstallTypeOK
<1>5. CASE Goto(p, Resting) BY <1>4, <1>5, RestingOK, UnlockedStep
<1>6. CASE ~Goto(p, Resting)
  <2>1. PICK f \in CommandFiles, c \in {Absent, Content(0, 1)} :
          Goto(p, [pc |-> "compare", before |-> s.before, module |-> s.module,
                   ran |-> f, after |-> [[g \in Files |-> Copied(g)] EXCEPT ![f] = c]])
    BY <1>2, <1>6 DEF RunIsolated
  <2>2. PICK after : after = [[g \in Files |-> Copied(g)] EXCEPT ![f] = c] OBVIOUS
  <2>3. f \in Files BY FilesAssumption DEF Files
  <2>4. c \in Contents BY <2>1, ContentFacts DEF Contents
  <2>5. \A g \in Files : Copied(g) \in Contents BY <1>1 DEF Copied, Contents, InstallTypeOK
  <2>6. after \in [Files -> Contents] BY <2>2, <2>3, <2>4, <2>5
  <2>7. PICK n : n = [pc |-> "compare", before |-> s.before, module |-> s.module,
                      ran |-> f, after |-> after]
    OBVIOUS
  <2>8. n \in Comparisons /\ n.pc = "compare" /\ n.module = s.module
    BY <1>3, <2>3, <2>6, <2>7 DEF Comparisons, Snapshots
  <2>9. n \in Doings /\ DoingOK(n) /\ n.pc \notin Held
    BY <1>3, <2>8, KindsApart DEF Doings, DoingOK, Held
  <2>10. Goto(p, n) BY <2>1, <2>2, <2>7
  <2> QED BY <1>4, <2>9, <2>10, UnlockedStep
<1> QED BY <1>5, <1>6

LEMMA CommitModuleKeeps ==
  ASSUME InstallInv, NEW p \in Procs, CommitModule(p)
  PROVE  InstallInv'
<1>1. InstallTypeOK BY DEF InstallInv
<1>2. PICK s \in Doings : s = st[p] BY <1>1 DEF InstallTypeOK
<1>3. s.pc = "compare" /\ s \in Comparisons BY <1>2, DoingFacts DEF CommitModule
<1>4. s.after \in [Files -> Contents] /\ file \in [Files -> Contents]
  BY <1>1, <1>3 DEF Comparisons, InstallTypeOK
<1>5. file' = file \/ \E changed : file' = [f \in Files |-> IF f \in changed THEN s.after[f] ELSE file[f]]
  BY <1>2 DEF CommitModule
<1>6. file' \in [Files -> Contents] BY <1>4, <1>5
<1>7. /\ Goto(p, Resting) /\ version' \in Nat /\ edits' \in Nat
      /\ UNCHANGED <<journal, legacy, store, lock, ghosts>>
  BY <1>1 DEF CommitModule, InstallTypeOK
<1> QED BY <1>6, <1>7, RestingOK, UnlockedStep

LEMMA PlanRuntimeMigrationKeeps ==
  ASSUME InstallInv, NEW p \in Procs, PlanRuntimeMigration(p)
  PROVE  InstallInv'
<1>1. InstallTypeOK BY DEF InstallInv
<1>2. PICK n : n = [pc |-> "migrate", copies |-> [s \in RuntimeCopies |-> file[s]]] OBVIOUS
<1>3. RuntimeCopies \subseteq Files BY FilesAssumption DEF RuntimeCopies, Files
<1>4. [s \in RuntimeCopies |-> file[s]] \in [RuntimeCopies -> Contents]
  BY <1>1, <1>3 DEF InstallTypeOK
<1>5. [s \in RuntimeCopies |-> file[s]] \in Partial(Files, Contents) BY <1>3, <1>4 DEF Partial
<1>6. n \in Migrations /\ n.pc = "migrate" BY <1>2, <1>5 DEF Migrations
<1>7. n \in Doings /\ DoingOK(n) /\ n.pc \notin Held
  BY <1>6, KindsApart DEF Doings, DoingOK, Held
<1>8. /\ Goto(p, n) /\ file' \in [Files -> Contents] /\ version' \in Nat /\ edits' \in Nat
      /\ UNCHANGED <<journal, legacy, store, lock, ghosts>>
  BY <1>1, <1>2 DEF PlanRuntimeMigration, InstallTypeOK
<1> QED BY <1>7, <1>8, UnlockedStep

LEMMA MigrateRuntimeKeeps ==
  ASSUME InstallInv, NEW p \in Procs, MigrateRuntime(p)
  PROVE  InstallInv'
<1>1. InstallTypeOK BY DEF InstallInv
<1>2. RuntimeCopies \subseteq Files BY FilesAssumption DEF RuntimeCopies, Files
<1>3. CASE file' = file
  <2>1. /\ Goto(p, Resting) /\ version' \in Nat /\ edits' \in Nat
        /\ file' \in [Files -> Contents] /\ UNCHANGED <<journal, legacy, store, lock, ghosts>>
    BY <1>1, <1>3 DEF MigrateRuntime, InstallTypeOK
  <2> QED BY <2>1, RestingOK, UnlockedStep
<1>4. CASE file' # file
  <2>1. file' = [f \in Files |-> IF \E s \in RuntimeCopies : f = Moves[s]
                                 THEN file[CHOOSE s \in RuntimeCopies : f = Moves[s]]
                                 ELSE file[f]]
    BY <1>4 DEF MigrateRuntime
  <2>2. file \in [Files -> Contents] BY <1>1 DEF InstallTypeOK
  <2>3. ASSUME NEW f \in Files, \E s \in RuntimeCopies : f = Moves[s]
        PROVE  file[CHOOSE s \in RuntimeCopies : f = Moves[s]] \in Contents
    <3>1. (CHOOSE s \in RuntimeCopies : f = Moves[s]) \in RuntimeCopies BY <2>3
    <3> QED BY <1>2, <2>2, <3>1
  <2>4. file' \in [Files -> Contents] BY <2>1, <2>2, <2>3
  <2>5. /\ Goto(p, Resting) /\ version' \in Nat /\ edits' \in Nat
        /\ UNCHANGED <<journal, legacy, store, lock, ghosts>>
    BY <1>1 DEF MigrateRuntime, InstallTypeOK
  <2> QED BY <2>4, <2>5, RestingOK, UnlockedStep
<1> QED BY <1>3, <1>4

LEMMA StillStep ==
  ASSUME InstallInv, file' \in [Files -> Contents], version' \in Nat, edits' \in Nat,
         UNCHANGED <<journal, legacy, store, lock, st, ghosts>>
  PROVE  InstallInv'
<1>1. /\ InstallTypeOK /\ JournalOK /\ LegacyOK /\ LockOK /\ NamesOK
      /\ \A q \in Procs : DoingOK(st[q])
  BY DEF InstallInv
<1>2. /\ journal' = journal /\ legacy' = legacy /\ backups' = backups /\ named' = named
      /\ lock' = lock /\ st' = st /\ first' = first /\ over' = over
  BY DEF store, ghosts
<1>3. InstallTypeOK' BY <1>1, <1>2 DEF InstallTypeOK
<1>4. JournalOK' /\ LegacyOK' /\ LockOK' /\ NamesOK'
  BY <1>1, <1>2 DEF JournalOK, Kept, LegacyOK, LockOK, NamesOK
<1>5. \A q \in Procs : DoingOK(st[q])' BY <1>1, <1>2 DEF DoingOK, Saved, PriorStands
<1> QED BY <1>3, <1>4, <1>5 DEF InstallInv

LEMMA UserEditKeeps ==
  ASSUME InstallInv, UserEdit
  PROVE  InstallInv'
<1>1. InstallTypeOK BY DEF InstallInv
<1>2. file \in [Files -> Contents] /\ edits \in Nat /\ version \in Nat BY <1>1 DEF InstallTypeOK
<1>3. PICK f \in Editable :
        \/ file' = [file EXCEPT ![f] = Content(edits + 2, IF file[f] = Absent THEN 0 ELSE file[f].block)]
        \/ file[f] # Absent /\ file' = [file EXCEPT ![f].block = Edited]
        \/ file' = [file EXCEPT ![f] = Absent]
  BY DEF UserEdit
<1>4. f \in Files /\ file[f] \in Contents BY <1>2, FilesAssumption DEF Files
<1>5. CASE file' = [file EXCEPT ![f] = Content(edits + 2, IF file[f] = Absent THEN 0 ELSE file[f].block)]
  <2>1. (IF file[f] = Absent THEN 0 ELSE file[f].block) \in Nat BY <1>4 DEF Contents
  <2>2. Content(edits + 2, IF file[f] = Absent THEN 0 ELSE file[f].block) \in Contents
    BY <1>2, <2>1, ContentFacts DEF Contents
  <2>3. file' \in [Files -> Contents] BY <1>2, <1>5, <2>2
  <2> QED BY <1>2, <2>3, StillStep DEF UserEdit
<1>6. CASE file[f] # Absent /\ file' = [file EXCEPT ![f].block = Edited]
  <2>1. Edited \in Nat BY InstallBounds DEF Edited
  <2>2. file[f] \in [user : Nat, block : Nat] BY <1>4, <1>6 DEF Contents
  <2>3. [file[f] EXCEPT !.block = Edited] \in Contents BY <2>1, <2>2 DEF Contents
  <2>4. file' \in [Files -> Contents] BY <1>2, <1>6, <2>3
  <2> QED BY <1>2, <2>4, StillStep DEF UserEdit
<1>7. CASE file' = [file EXCEPT ![f] = Absent]
  <2>1. file' \in [Files -> Contents] BY <1>2, <1>7 DEF Contents
  <2> QED BY <1>2, <2>1, StillStep DEF UserEdit
<1> QED BY <1>3, <1>5, <1>6, <1>7

LEMMA UnpackKeeps ==
  ASSUME InstallInv, Unpack
  PROVE  InstallInv'
<1>1. file \in [Files -> Contents] /\ edits \in Nat /\ version \in Nat
  BY DEF InstallInv, InstallTypeOK
<1> QED BY <1>1, StillStep DEF Unpack

-----------------------------------------------------------------------------
(* The invariant holds from the start and in every step.                   *)

LEMMA LegacyRecordsOK ==
  ASSUME NEW a \in Adapters, NEW f \in FilesOf[a]
  PROVE  LegacyRecord(a, f) \in Records /\ RecordOK(LegacyRecord(a, f), a, f)
<1>1. f \in DOMAIN Kind BY FilesAssumption
<1>2. /\ Content(0, 1) \in Contents /\ Content(1, 1) \in Contents /\ Content(1, 0) \in Contents
      /\ Content(0, 1) # Absent /\ Content(1, 1) # Absent /\ Content(1, 0) # Absent
      /\ Content(0, 1).user = 0 /\ Content(1, 1).user = 1 /\ Content(1, 0).user = 1
      /\ Absent \in Contents
  BY ContentFacts DEF Contents
<1>3. CASE Kind[f] = "own"
  <2>1. PICK r : r = [created |-> TRUE, original |-> Absent, installed |-> Content(0, 1),
                      backup |-> NoBackup]
    OBVIOUS
  <2>2. LegacyRecord(a, f) = r BY <1>3, <2>1 DEF LegacyRecord, LegacyInstalled
  <2>3. /\ r \in Records /\ r.created = TRUE /\ r.original = Absent
        /\ r.installed = Content(0, 1) /\ r.backup = NoBackup
    BY <1>2, <2>1 DEF Records
  <2>4. RecordOK(r, a, f) BY <1>2, <1>3, <2>3 DEF RecordOK
  <2> QED BY <2>2, <2>3, <2>4
<1>4. CASE Kind[f] # "own"
  <2>1. Name(a, 0) \in Names /\ BackupOf(a, Name(a, 0)) BY NameFacts DEF BackupOf
  <2>2. PICK r : r = [created |-> FALSE, original |-> Content(1, 0), installed |-> Content(1, 1),
                      backup |-> Name(a, 0)]
    OBVIOUS
  <2>3. LegacyRecord(a, f) = r BY <1>4, <2>2 DEF LegacyRecord, LegacyInstalled
  <2>4. /\ r \in Records /\ r.created = FALSE /\ r.original = Content(1, 0)
        /\ r.installed = Content(1, 1) /\ r.backup = Name(a, 0)
    BY <1>2, <2>1, <2>2 DEF Records
  <2>5. RecordOK(r, a, f) BY <1>2, <1>4, <2>1, <2>4 DEF RecordOK
  <2> QED BY <2>3, <2>4, <2>5
<1> QED BY <1>3, <1>4

LEMMA InstallInitInv == InstallInit => InstallInv
<1> SUFFICES ASSUME InstallInit PROVE InstallInv OBVIOUS
<1>1. PICK old \in SUBSET Legacy :
        /\ file = [f \in Files |-> IF \E a \in old : f \in FilesOf[a]
                                   THEN LegacyInstalled(f) ELSE Fresh(f)]
        /\ legacy = [a \in Adapters |->
                       IF a \in old THEN [files |-> [f \in FilesOf[a] |-> LegacyRecord(a, f)]]
                       ELSE NoRecord]
        /\ backups = [b \in {Name(a, 0) : a \in old} |-> Content(1, 0)]
        /\ first = [f \in Files |-> IF \E a \in old : f \in FilesOf[a]
                                    THEN LegacyRecord(CHOOSE a \in old : f \in FilesOf[a], f).original
                                    ELSE NoRecord]
  BY DEF InstallInit
<1>2. /\ version = 1 /\ named = 0 /\ edits = 0
      /\ journal = [a \in Adapters |-> NoRecord] /\ lock = [a \in Adapters |-> Free]
      /\ st = [p \in Procs |-> Resting] /\ over = {}
  BY DEF InstallInit
<1>3. old \subseteq Adapters BY FilesAssumption
<1>4. /\ Content(0, 1) \in Contents /\ Content(1, 1) \in Contents /\ Content(1, 0) \in Contents
      /\ Absent \in Contents
  BY ContentFacts DEF Contents
<1>5. file \in [Files -> Contents]
  <2>1. \A f \in Files : LegacyInstalled(f) \in Contents /\ Fresh(f) \in Contents
    BY <1>4 DEF LegacyInstalled, Fresh
  <2> QED BY <1>1, <2>1
<1>6. ASSUME NEW a \in Adapters, legacy[a] # NoRecord
      PROVE  legacy[a] \in Journals /\ RecordsOK(legacy[a].files, a)
  <2>1. PICK fs : fs = [f \in FilesOf[a] |-> LegacyRecord(a, f)] OBVIOUS
  <2>2. legacy[a] = [files |-> fs] BY <1>1, <1>6, <2>1
  <2>3. fs \in [FilesOf[a] -> Records] BY <2>1, LegacyRecordsOK
  <2>4. fs \in PerFile(Records) BY <2>3 DEF PerFile
  <2>5. RecordsOK(fs, a) BY <2>1, LegacyRecordsOK DEF RecordsOK
  <2> QED BY <2>2, <2>4, <2>5 DEF Journals
<1>7. legacy \in [Adapters -> Journals \cup {NoRecord}]
  <2>1. DOMAIN legacy = Adapters /\ legacy = [a \in DOMAIN legacy |-> legacy[a]] BY <1>1
  <2> QED BY <1>6, <2>1
<1>8. backups \in Partial(Names, Contents)
  <2>1. {Name(a, 0) : a \in old} \in SUBSET Names BY <1>3, NameFacts
  <2>2. backups \in [{Name(a, 0) : a \in old} -> Contents] BY <1>1, <1>4
  <2> QED BY <2>1, <2>2 DEF Partial
<1>9. InstallTypeOK
  <2>1. journal \in [Adapters -> Journals \cup {NoRecord}] /\ lock \in [Adapters -> Procs \cup {Free}]
    BY <1>2
  <2>2. st \in [Procs -> Doings] BY <1>2, RestingOK
  <2> QED BY <1>2, <1>5, <1>7, <1>8, <2>1, <2>2 DEF InstallTypeOK
<1>10. JournalOK BY <1>2 DEF JournalOK
<1>11. LegacyOK
  <2>1. ASSUME NEW a \in Adapters, legacy[a] # NoRecord, NEW f \in FilesOf[a]
        PROVE  legacy[a].files[f].original = first[f]
    <3>1. a \in old /\ legacy[a].files[f] = LegacyRecord(a, f) BY <1>1, <2>1
    <3>2. \A b \in old : f \in FilesOf[b] => b = a BY <1>3, FilesAssumption
    <3>3. (CHOOSE b \in old : f \in FilesOf[b]) = a BY <3>1, <3>2
    <3>4. f \in Files BY FilesAssumption DEF Files
    <3> QED BY <1>1, <3>1, <3>3, <3>4
  <2> QED BY <1>2, <1>6, <2>1 DEF LegacyOK
<1>12. LockOK BY <1>2, RestingOK DEF LockOK
<1>13. NamesOK
  <2> SUFFICES ASSUME NEW a \in Adapters, NEW n \in Nat, Name(a, n) \in DOMAIN backups
               PROVE  n <= named
    BY DEF NamesOK
  <2>1. PICK b \in old : Name(a, n) = Name(b, 0) BY <1>1
  <2>2. n = 0 BY <1>3, <2>1, NameFacts
  <2> QED BY <1>2, <2>2
<1>14. \A p \in Procs : DoingOK(st[p])
  <2> SUFFICES ASSUME NEW p \in Procs PROVE DoingOK(st[p]) OBVIOUS
  <2>1. st[p] = Resting BY <1>2
  <2> QED BY <2>1, RestingOK
<1> QED BY <1>9, <1>10, <1>11, <1>12, <1>13, <1>14 DEF InstallInv

LEMMA InstallNextInv == InstallInv /\ [InstallNext]_installVars => InstallInv'
<1> SUFFICES ASSUME InstallInv, [InstallNext]_installVars PROVE InstallInv' OBVIOUS
<1>1. CASE UNCHANGED installVars
  <2>1. /\ file \in [Files -> Contents] /\ edits \in Nat /\ version \in Nat
    BY DEF InstallInv, InstallTypeOK
  <2>2. /\ UNCHANGED <<journal, legacy, store, lock, st, ghosts>>
        /\ file' = file /\ edits' = edits /\ version' = version
    BY <1>1 DEF installVars
  <2> QED BY <2>1, <2>2, StillStep
<1>2. CASE UserEdit BY <1>2, UserEditKeeps
<1>3. CASE Unpack BY <1>3, UnpackKeeps
<1>4. ASSUME NEW p \in Procs,
             \/ \E a \in Adapters : PlanInstall(p, a) \/ PlanUninstall(p, a)
             \/ AcquireLock(p) \/ Replan(p) \/ BackUp(p) \/ CommitInstall(p)
             \/ CommitUninstall(p) \/ ReleaseLock(p) \/ Upgrade(p)
             \/ Snapshot(p) \/ RunIsolated(p) \/ CommitModule(p)
             \/ PlanRuntimeMigration(p) \/ MigrateRuntime(p) \/ Crash(p)
      PROVE  InstallInv'
  BY <1>4, PlanInstallKeeps, PlanUninstallKeeps, AcquireLockKeeps, ReplanKeeps, BackUpKeeps,
     CommitInstallKeeps, CommitUninstallKeeps, ReleaseLockKeeps, UpgradeKeeps, SnapshotKeeps,
     RunIsolatedKeeps, CommitModuleKeeps, PlanRuntimeMigrationKeeps, MigrateRuntimeKeeps, CrashKeeps
<1> QED BY <1>1, <1>2, <1>3, <1>4 DEF InstallNext

LEMMA AlwaysInstallInv == InstallSpec => []InstallInv
BY InstallInitInv, InstallNextInv, PTL DEF InstallSpec

-----------------------------------------------------------------------------
(* In every state of every behaviour the files, journals, backups, locks   *)
(* and processes have the types their use in the code gives them.          *)
THEOREM InstallTypeCorrect == InstallSpec => []InstallTypeOK
<1>1. InstallInv => InstallTypeOK BY DEF InstallInv
<1> QED BY <1>1, AlwaysInstallInv, PTL

(* As long as an adapter is installed, its journal and the backups hold    *)
(* what each file held when it first came under a journal, the legacy one  *)
(* included; only an install that took the place of a journal it had not   *)
(* read goes without the second.                                           *)
THEOREM OriginalsAreKept == InstallSpec => []OriginalsKept
<1>1. ASSUME InstallInv, NEW a \in Adapters, journal[a] # NoRecord, NEW f \in FilesOf[a],
             NEW r, r = journal[a].files[f]
      PROVE  /\ a \notin over => r.original = first[f]
             /\ IF r.created THEN r.original = Absent
                ELSE r.backup \in DOMAIN backups /\ backups[r.backup] = r.original
  <2>1. RecordOK(r, a, f) /\ Kept(r, a, f) BY <1>1 DEF InstallInv, JournalOK, RecordsOK
  <2> QED BY <2>1 DEF RecordOK, Kept
<1>2. InstallInv => OriginalsKept BY <1>1 DEF OriginalsKept
<1> QED BY <1>2, AlwaysInstallInv, PTL

(* Only an uninstall takes a journal away. *)
LEMMA OnlyUninstall ==
  ASSUME InstallInv, [InstallNext]_installVars,
         NEW a \in Adapters, journal[a] # NoRecord, journal'[a] = NoRecord
  PROVE  \E p \in Procs : CommitUninstall(p) /\ ~Fail(p)
<1>1. journal' # journal OBVIOUS
<1>2. journal \in [Adapters -> Journals \cup {NoRecord}] /\ \A j \in Journals : j # NoRecord
  BY NoRecordFacts DEF InstallInv, InstallTypeOK
<1>3. ~UNCHANGED installVars /\ ~UserEdit /\ ~Unpack BY <1>1 DEF installVars, UserEdit, Unpack
<1>4. PICK p \in Procs :
        \/ \E b \in Adapters : PlanInstall(p, b) \/ PlanUninstall(p, b)
        \/ AcquireLock(p) \/ Replan(p) \/ BackUp(p) \/ CommitInstall(p)
        \/ CommitUninstall(p) \/ ReleaseLock(p) \/ Upgrade(p)
        \/ Snapshot(p) \/ RunIsolated(p) \/ CommitModule(p)
        \/ PlanRuntimeMigration(p) \/ MigrateRuntime(p) \/ Crash(p)
  BY <1>3 DEF InstallNext
<1>5. ~Fail(p) BY <1>1 DEF Fail
<1>6. ~\E b \in Adapters : PlanInstall(p, b) \/ PlanUninstall(p, b)
  BY <1>1 DEF PlanInstall, PlanUninstall
<1>7. ~AcquireLock(p) /\ ~ReleaseLock(p) /\ ~Crash(p) /\ ~BackUp(p)
  BY <1>1 DEF AcquireLock, ReleaseLock, Crash, BackUp
<1>8. ~Replan(p) BY <1>1, <1>5 DEF Replan
<1>9. ~Snapshot(p) /\ ~RunIsolated(p) /\ ~CommitModule(p) /\ ~PlanRuntimeMigration(p) /\ ~MigrateRuntime(p)
  BY <1>1 DEF Snapshot, RunIsolated, CommitModule, PlanRuntimeMigration, MigrateRuntime
<1>10. ~CommitInstall(p)
  <2> SUFFICES ASSUME CommitInstall(p) PROVE FALSE OBVIOUS
  <2>1. PICK b, fs : journal' = [journal EXCEPT ![b] = [files |-> fs]]
    BY <1>5 DEF CommitInstall
  <2>2. DOMAIN [files |-> fs] = {"files"} /\ DOMAIN NoRecord = {"none"} /\ "none" # "files"
    BY DEF NoRecord
  <2>3. [files |-> fs] # NoRecord BY <2>2
  <2> QED BY <1>2, <2>1, <2>3
<1>11. ~Upgrade(p) BY DEF Upgrade
<1> QED BY <1>4, <1>5, <1>6, <1>7, <1>8, <1>9, <1>10, <1>11

(* An adapter's journal is removed only by an uninstall that has the lock, *)
(* and with the journal of the same install it gives every file back, if   *)
(* no install took the place of a journal it had not read, and leaves no   *)
(* backup behind.                                                          *)
THEOREM UninstallGivesBack == InstallSpec => UninstallRestores
<1>1. ASSUME InstallInv, [InstallNext]_installVars,
             NEW a \in Adapters, journal[a] # NoRecord, journal'[a] = NoRecord
      PROVE  /\ lock[a] # Free /\ st[lock[a]].pc = "uninstall" /\ st[lock[a]].adapter = a
             /\ ReadThisInstall(lock[a], a) =>
                  \A f \in FilesOf[a] :
                      /\ a \notin over => file'[f] = first[f]
                      /\ journal[a].files[f].backup \notin DOMAIN backups'
  <2>1. PICK p \in Procs : CommitUninstall(p) /\ ~Fail(p) BY <1>1, OnlyUninstall
  <2>a. PICK s \in Uninstalls, b \in Adapters : \E saved : Uninstalled(p, s, b, saved)
    BY <1>1, <2>1, Uninstalling
  <2>b. PICK saved : Uninstalled(p, s, b, saved) BY <2>a
  <2>2. /\ s = st[p] /\ s.pc = "uninstall" /\ b = s.adapter
        /\ saved = {s.files[f].backup : f \in {g \in FilesOf[b] : ~s.files[g].created}}
        /\ file' = [f \in Files |-> IF f \in FilesOf[b] THEN s.files[f].original ELSE file[f]]
        /\ backups' = [x \in DOMAIN backups \ saved |-> backups[x]]
        /\ journal' = [journal EXCEPT ![b] = NoRecord]
    BY <2>b DEF Uninstalled
  <2>3. InstallTypeOK /\ JournalOK /\ LockOK BY <1>1 DEF InstallInv
  <2>4. b = a BY <1>1, <2>2, <2>3 DEF InstallTypeOK
  <2>5. lock[a] = p BY <2>2, <2>3, <2>4 DEF LockOK, Held
  <2>6. p # Free BY FilesAssumption DEF Free
  <2>7. ASSUME ReadThisInstall(p, a), NEW f \in FilesOf[a]
        PROVE  /\ a \notin over => file'[f] = first[f]
               /\ journal[a].files[f].backup \notin DOMAIN backups'
    <3>1. PICK r : r = journal[a].files[f] OBVIOUS
    <3>2. /\ s.files[f].original = r.original /\ s.files[f].created = r.created
          /\ s.files[f].backup = r.backup
      BY <2>2, <2>7, <3>1 DEF ReadThisInstall
    <3>3. RecordOK(r, a, f) /\ Kept(r, a, f) BY <1>1, <2>3, <3>1 DEF JournalOK, RecordsOK
    <3>4. f \in Files BY FilesAssumption DEF Files
    <3>5. a \notin over => file'[f] = first[f] BY <2>2, <2>4, <3>2, <3>3, <3>4 DEF Kept
    <3>6. CASE r.created
      <4>1. r.backup = NoBackup BY <3>3, <3>6 DEF RecordOK
      <4>2. DOMAIN backups \subseteq Names BY <2>3 DEF InstallTypeOK, Partial
      <4>3. NoBackup \notin Names BY DEF NoBackup, Names
      <4> QED BY <2>2, <3>1, <3>5, <4>1, <4>2, <4>3
    <3>7. CASE ~r.created
      <4>1. r.backup \in saved BY <2>2, <2>4, <3>2, <3>7
      <4> QED BY <2>2, <3>1, <3>5, <4>1
    <3> QED BY <3>6, <3>7
  <2> QED BY <2>2, <2>4, <2>5, <2>6, <2>7
<1>2. InstallInv /\ [InstallNext]_installVars =>
        [\A a \in Adapters : journal[a] # NoRecord /\ journal'[a] = NoRecord =>
           /\ lock[a] # Free /\ st[lock[a]].pc = "uninstall" /\ st[lock[a]].adapter = a
           /\ ReadThisInstall(lock[a], a) =>
                \A f \in FilesOf[a] :
                    /\ a \notin over => file'[f] = first[f]
                    /\ journal[a].files[f].backup \notin DOMAIN backups']_installVars
  BY <1>1
<1> QED BY <1>2, AlwaysInstallInv, PTL DEF InstallSpec, UninstallRestores

-----------------------------------------------------------------------------
(* What a step of a tool may do to a file: fill an absent one, replace one *)
(* it wrote itself, keep the user's part, replace one that a backup keeps, *)
(* or write where a module declared to, over what its snapshot held.       *)
Harmless(p, f) ==
    \/ file[f] = Absent \/ file[f].user = 0
    \/ file'[f] # Absent /\ file'[f].user = file[f].user
    \/ \E b \in DOMAIN backups' : backups'[b] = file[f]
    \/ /\ st[p].pc = "compare" /\ file[f] = st[p].before[f]
       /\ Top[f] \in st[p].module.writes \ ProtectedTop
       /\ Top[f] = ".codex" => TrustedCodex(st[p].module)

LEMMA CommitInstallHarmless ==
  ASSUME InstallInv, NEW p \in Procs, CommitInstall(p), NEW f \in Files, file'[f] # file[f]
  PROVE  Harmless(p, f)
<1>1. InstallTypeOK /\ DoingOK(st[p]) BY DEF InstallInv
<1>2. PICK s \in Doings : s = st[p] BY <1>1 DEF InstallTypeOK
<1>3. s.pc = "backup" /\ s \in Installs /\ ToBackUp(s) = {}
  BY <1>2, DoingFacts DEF CommitInstall
<1>4. PICK a \in Adapters : a = s.adapter BY <1>3 DEF Installs
<1>5. ~Fail(p) BY DEF Fail
<1>6. /\ \A g \in FilesOf[a] : s.old[g] # s.new[g] => file[g] = s.old[g]
      /\ file' = [g \in Files |-> IF g \in FilesOf[a] /\ s.old[g] # s.new[g] THEN s.new[g] ELSE file[g]]
      /\ backups' = backups
  BY <1>2, <1>4, <1>5 DEF CommitInstall, store
<1>7. f \in FilesOf[a] /\ file'[f] = s.new[f] /\ file[f] = s.old[f] BY <1>6
<1>8. UserPart(f, s.old[f], s.new[f]) BY <1>2, <1>3, <1>4, <1>7, Committing
<1>9. CASE Kind[f] # "own" BY <1>7, <1>8, <1>9 DEF UserPart, Harmless
<1>10. CASE Kind[f] = "own" /\ s.prior = NoRecord /\ s.old[f] # Absent
  <2>1. f \in DOMAIN s.made BY <1>2, <1>3, <1>4, <1>7, <1>10, Committing
  <2>2. Saved(s) BY <1>1, <1>2, <1>3 DEF DoingOK
  <2>3. s.made[f] \in DOMAIN backups /\ backups[s.made[f]] = s.old[f] BY <2>1, <2>2 DEF Saved
  <2> QED BY <1>6, <1>7, <2>3 DEF Harmless
<1>11. CASE Kind[f] = "own" /\ s.prior # NoRecord
  <2>1. RecordOK(s.prior.files[f], a, f) /\ s.old[f] = s.prior.files[f].installed
    BY <1>2, <1>3, <1>4, <1>7, <1>11, Committing
  <2> QED BY <1>7, <1>11, <2>1 DEF RecordOK, Harmless
<1>12. CASE s.old[f] = Absent BY <1>7, <1>12 DEF Harmless
<1> QED BY <1>9, <1>10, <1>11, <1>12

LEMMA CommitUninstallHarmless ==
  ASSUME InstallInv, NEW p \in Procs, CommitUninstall(p), NEW f \in Files, file'[f] # file[f]
  PROVE  Harmless(p, f)
<1>1. ~Fail(p) BY DEF Fail
<1>a. PICK s \in Uninstalls, a \in Adapters : \E saved : Uninstalled(p, s, a, saved)
  BY <1>1, Uninstalling
<1>b. PICK saved : Uninstalled(p, s, a, saved) BY <1>a
<1>2. /\ s = st[p] /\ a = s.adapter /\ RecordsOK(s.files, a)
      /\ \A g \in FilesOf[a] : file[g] = s.files[g].installed
      /\ FilesOf[a] \cap Governed = {}
      /\ file' = [g \in Files |-> IF g \in FilesOf[a] THEN s.files[g].original ELSE file[g]]
  BY <1>b DEF Uninstalled
<1>3. /\ f \in FilesOf[a] /\ RecordOK(s.files[f], a, f)
      /\ file[f] = s.files[f].installed /\ file'[f] = s.files[f].original
  BY <1>2 DEF RecordsOK
<1>4. Kind[f] \in {"merge", "own"} BY <1>2, <1>3, GovernedBlocks, FilesAssumption
<1> QED BY <1>3, <1>4 DEF RecordOK, Harmless

LEMMA CommitModuleHarmless ==
  ASSUME InstallInv, NEW p \in Procs, CommitModule(p), NEW f \in Files, file'[f] # file[f]
  PROVE  Harmless(p, f)
<1>1. st[p].pc = "compare" BY DEF CommitModule
<1>2. DeclaredWriteRootsOK(st[p].module) BY <1>1 DEF InstallInv, DoingOK
<1>3. PICK changed : /\ \A g \in changed : MutationIsDeclared(Top[g], st[p].module)
                     /\ \A g \in changed : file[g] = st[p].before[g]
                     /\ file' = [g \in Files |-> IF g \in changed THEN st[p].after[g] ELSE file[g]]
  BY DEF CommitModule
<1>4. f \in changed BY <1>3
<1>5. Top[f] \in st[p].module.writes /\ file[f] = st[p].before[f] BY <1>3, <1>4 DEF MutationIsDeclared
<1>6. Top[f] \notin ProtectedTop /\ (Top[f] = ".codex" => TrustedCodex(st[p].module))
  BY <1>2, <1>5 DEF DeclaredWriteRootsOK
<1> QED BY <1>1, <1>5, <1>6 DEF Harmless

LEMMA MigrateRuntimeHarmless ==
  ASSUME NEW p \in Procs, MigrateRuntime(p), NEW f \in Files, file'[f] # file[f]
  PROVE  Harmless(p, f)
<1>1. file' = [g \in Files |-> IF \E s \in RuntimeCopies : g = Moves[s]
                               THEN file[CHOOSE s \in RuntimeCopies : g = Moves[s]]
                               ELSE file[g]]
  BY DEF MigrateRuntime
<1>2. \E s \in RuntimeCopies : f = Moves[s] BY <1>1
<1> QED BY <1>2 DEF RuntimeCopies, Harmless

(* Whatever a process of the tools changes in a file is harmless to the    *)
(* user's work: with any number of installs, uninstalls, upgrades, module  *)
(* runs and crashes at once.                                               *)
THEOREM ToolsKeepUserWork ==
    InstallSpec => [][\A p \in Procs : st'[p] # st[p] =>
                        \A f \in Files : file'[f] # file[f] => Harmless(p, f)]_installVars
<1>1. ASSUME InstallInv, [InstallNext]_installVars, NEW q \in Procs, st'[q] # st[q],
             NEW f \in Files, file'[f] # file[f]
      PROVE  Harmless(q, f)
  <2>1. ~UNCHANGED installVars /\ ~UserEdit /\ ~Unpack BY <1>1 DEF installVars, UserEdit, Unpack
  <2>2. PICK p \in Procs :
          \/ \E b \in Adapters : PlanInstall(p, b) \/ PlanUninstall(p, b)
          \/ AcquireLock(p) \/ Replan(p) \/ BackUp(p) \/ CommitInstall(p)
          \/ CommitUninstall(p) \/ ReleaseLock(p) \/ Upgrade(p)
          \/ Snapshot(p) \/ RunIsolated(p) \/ CommitModule(p)
          \/ PlanRuntimeMigration(p) \/ MigrateRuntime(p) \/ Crash(p)
    BY <1>1, <2>1 DEF InstallNext
  <2>3. file' # file BY <1>1
  <2>4. ~Fail(p) BY <2>3 DEF Fail
  <2>5. ~\E b \in Adapters : PlanInstall(p, b) \/ PlanUninstall(p, b)
    BY <2>3 DEF PlanInstall, PlanUninstall
  <2>6. ~AcquireLock(p) /\ ~ReleaseLock(p) /\ ~Crash(p) /\ ~BackUp(p) /\ ~Upgrade(p)
    BY <2>3 DEF AcquireLock, ReleaseLock, Crash, BackUp, Upgrade
  <2>7. ~Replan(p) BY <2>3, <2>4 DEF Replan
  <2>8. ~Snapshot(p) /\ ~RunIsolated(p) /\ ~PlanRuntimeMigration(p)
    BY <2>3 DEF Snapshot, RunIsolated, PlanRuntimeMigration
  <2>9. CommitInstall(p) \/ CommitUninstall(p) \/ CommitModule(p) \/ MigrateRuntime(p)
    BY <2>2, <2>5, <2>6, <2>7, <2>8
  <2>10. \E n : st' = [st EXCEPT ![p] = n]
    BY <2>4, <2>9 DEF CommitInstall, CommitUninstall, CommitModule, MigrateRuntime, Goto
  <2>11. q = p BY <1>1, <2>10 DEF InstallInv, InstallTypeOK
  <2> QED BY <1>1, <2>9, <2>11, CommitInstallHarmless, CommitUninstallHarmless,
             CommitModuleHarmless, MigrateRuntimeHarmless
<1>2. InstallInv /\ [InstallNext]_installVars =>
        [\A p \in Procs : st'[p] # st[p] =>
           \A f \in Files : file'[f] # file[f] => Harmless(p, f)]_installVars
  BY <1>1
<1> QED BY <1>2, AlwaysInstallInv, PTL DEF InstallSpec

==============================================================================
