--------------------------- MODULE MCWriteControl ---------------------------
(* A workspace on a POSIX host that ignores case, with an aliased spelling *)
(* of every protected place, a link that may appear and a hard link into   *)
(* .agents.  Prechecks and managed writes have no state in common: a run   *)
(* looks at the one or at the other.                                       *)
EXTENDS WriteControl

VARIABLE part

MCVars == <<vars, writeVars, part>>

MCInit == Init /\ WriteInit /\ part \in {"precheck", "write"}

MCNext == \/ part = "precheck" /\ Next /\ UNCHANGED <<writeVars, part>>
          \/ part = "write" /\ WriteNext /\ UNCHANGED <<vars, part>>

MCSpec == MCInit /\ [][MCNext]_MCVars

MCSpellings ==
    {<<"src", "a">>, <<"SRC", ".", "a">>, <<"src", "b">>, <<"src", "ref", "x">>,
     <<"SRC", "sub", "x">>, <<"src", "link", "x">>, <<"src", "link">>, <<"src", "hard">>,
     <<"src", "agents.md">>, <<"src", "AGENTS.md">>, <<".AGENTS", "new">>,
     <<".", ".agents", "p">>, <<"src", "..", "a">>, <<"/", "home", "src", "a">>,
     <<"/", "home", "proj", "src", "a">>, <<"/", "home", "proj", ".agents", "p">>,
     <<"INFRA", "tests", "t">>, <<".github", "ci", "x">>}

MCParts == UNION {Range(p) : p \in MCSpellings} \cup {"infra"}

MCFold == [x \in MCParts |->
             CASE x = "SRC" -> "src" [] x = "AGENTS.md" -> "agents.md"
               [] x = ".AGENTS" -> ".agents" [] x = "INFRA" -> "infra"
               [] OTHER -> x]

MCRoot == <<"home", "proj">>

(* The disk keeps AGENTS.md in capitals and the rest as it is folded. *)
MCStored == [p \in MCSpellings |->
    [i \in DOMAIN Parts(p) |->
        IF MCFold[Parts(p)[i]] = "agents.md" THEN "AGENTS.md" ELSE MCFold[Parts(p)[i]]]]

MCLead == [p \in MCSpellings |-> <<".agents", Last(p)>>]
MCRedirects == {<<"src", "link">>}
MCShares == {<<"src", "hard">>, <<".", ".agents", "p">>}
MCNested == {<<"src", "sub">>}

MCContract(packs, weakens, source, refs) ==
    [packs |-> packs, weakens |-> weakens, source |-> source,
     immutable |-> {Exact(<<"src", "b">>)},
     references |-> {[path |-> r, canonical |-> TRUE] : r \in refs}]

MCContracts ==
    {MCContract({}, {}, {Tree(<<"SRC">>)}, {}),
     MCContract({"reimplementation"}, {}, {Tree(<<"src">>), Tree(<<"infra">>)},
                {<<"src", "ref">>}),
     MCContract({"reimplementation"}, {"tdd"}, {Tree(<<"src">>)}, {}),
     MCContract({"compatibility-preserving-refactor"}, {},
                {Tree(<<"src">>), Tree(<<".AGENTS">>)}, {})}

MCDeclarations == {{}, {"FEATURE"}}
MCChanges == {{}, {<<"INFRA", "tests", "t">>}}
MCUserEdits == {<<"src", "a">>}
MCTops == {<<>>, <<"proj">>}
NoNames == {}
=============================================================================
