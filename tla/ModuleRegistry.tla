--------------------------- MODULE ModuleRegistry ---------------------------
(***************************************************************************)
(* Which modules the framework finds and where each may write              *)
(* (modules.py).  A manifest names the module and its directory, whether   *)
(* it is built-in or local, what it replaces, the framework it requires,   *)
(* the modules it depends on, where the script of its action lies and the  *)
(* top-level paths it declares to write.                                   *)
(***************************************************************************)
EXTENDS Naturals, FiniteSets

ModuleKinds == {"agent-host", "agent-host-template", "environment", "developer-extension"}
HardInvariantAdapters == {"codex", "xonsh", "python-meta"}
Nothing == "nothing"

(* The durable state of the codex adapter, the one protected path that a   *)
(* module may write.                                                       *)
CodexState == ".agents/persistent/install-state/codex"
ProtectedTop ==
    {".agents", ".git", "AGENTS.md", "INDEX.md", "framework.toml", "VERSION",
     "MANIFEST.sha256", "RELEASE.json", "bin", "bootstrap", "core", "infra",
     "laws", "modules", "protocols", "scripts", "templates", "tests-to-impl"}

ManifestOK(m) == m.kind \in ModuleKinds /\ m.policy # {}

(* Policy files and the script of an action lie in the module itself.      *)
ModulePathsOK(m) == m.policy \subseteq m.contents /\ m.script \in m.contents

RequiresOK(current, m) ==
    \A r \in m.requires : CASE r.op = ">=" -> current >= r.wanted
                            [] r.op = "<=" -> current <= r.wanted
                            [] r.op = "==" -> current = r.wanted
                            [] r.op = ">" -> current > r.wanted
                            [] r.op = "<" -> current < r.wanted

(* Every module must be able to come after all it depends on.              *)
DependencyGraphOK(found) ==
    LET ids == {m.id : m \in found}
        Needs(i) == UNION {m.deps : m \in {n \in found : n.id = i}}
    IN  /\ \A i \in ids : Needs(i) \subseteq ids
        /\ \A S \in SUBSET ids \ {{}} : \E i \in S : Needs(i) \cap S = {}

(* A local module takes the place of the built-in one it names.            *)
Replaces(m, n) ==
    /\ m.source = "local" /\ n.source = "built-in" /\ m.id = n.id /\ m.replaces = m.id
    /\ m.id \notin HardInvariantAdapters

Found(present) == {n \in present : ~\E m \in present : Replaces(m, n)}

(* discover raises, and no module can be used, unless all is in order.     *)
Discovers(present, current) ==
    /\ \A m \in present : /\ ManifestOK(m) /\ m.dir = m.id
                          /\ RequiresOK(current, m) /\ ModulePathsOK(m)
                          /\ m.replaces # Nothing => \E n \in present : Replaces(m, n)
    /\ \A m, n \in Found(present) : m.id = n.id => m = n
    /\ DependencyGraphOK(Found(present))

TrustedCodex(m) == m.source = "built-in" /\ m.id = "codex"

DeclaredWriteRootsOK(m) ==
    \A w \in m.writes : /\ w \notin ProtectedTop
                        /\ w \in {".codex", CodexState} => TrustedCodex(m)

MutationIsDeclared(top, m) == top \in m.writes
=============================================================================
