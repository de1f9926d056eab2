---------------------------- MODULE MCInstaller ----------------------------
(* The Codex adapter with its configuration and one role file, the         *)
(* bootstrap of the governed AGENTS.md, a file that a module writes, one   *)
(* beside it that the isolated copy leaves out and a state file of the     *)
(* legacy layout.                                                          *)
EXTENDS Installer, TLC

MCFilesOf == [codex |-> {"config", "role"}, bootstrap |-> {"AGENTS.md"}]
MCKind == ("config" :> "merge") @@ ("role" :> "own") @@ ("AGENTS.md" :> "block")
MCTop == ("config" :> ".codex") @@ ("role" :> ".codex") @@ ("AGENTS.md" :> "AGENTS.md")
         @@ ("data" :> "data") @@ ("old" :> ".agents") @@ ("new" :> ".aegis")
         @@ ("data/runtime" :> "data")
ProcSymmetry == Permutations(Procs)
MCMoves == "old" :> "new"
MCEditable == {"config", "data", "old", "data/runtime"}

Codex == [id |-> "codex", dir |-> "codex", source |-> "built-in", replaces |-> Nothing,
          kind |-> "agent-host", requires |-> {[op |-> ">=", wanted |-> 1]}, deps |-> {},
          policy |-> {"POLICY"}, contents |-> {"POLICY", "install"}, script |-> "install",
          writes |-> {".codex", CodexState}]
Tool == [Codex EXCEPT !.id = "tool", !.dir = "tool", !.source = "local",
                      !.requires = {[op |-> "<", wanted |-> 2]}, !.deps = {"codex"},
                      !.writes = {"data"}]

(* With the tool: a module that would write .codex, one that takes the     *)
(* place of codex, one that depends on the tool that depends on it, and    *)
(* one whose script lies elsewhere.                                        *)
MCRegistries ==
    {{Codex, Tool},
     {Codex, [Tool EXCEPT !.writes = {"data", ".codex"}]},
     {Codex, [Tool EXCEPT !.id = "codex", !.dir = "codex", !.replaces = "codex", !.writes = {".codex"}]},
     {Codex, [Tool EXCEPT !.deps = {"other"}],
             [Tool EXCEPT !.id = "other", !.dir = "other", !.deps = {"tool"}]},
     {Codex, [Tool EXCEPT !.script = "elsewhere"]}}
=============================================================================
