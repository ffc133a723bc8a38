------------------------------ MODULE MCShell ------------------------------
(***************************************************************************)
(* The strings that ShellRun reads and runs: parts of the language, each   *)
(* with the ways its commands can be joined and nested and a bound on how  *)
(* many there are.                                                         *)
(***************************************************************************)
EXTENDS ShellRun

Does(do, to) == [do |-> do, to |-> to, via |-> <<>>]
X     == Does("plain", "")
Cd(to) == Does("cd", to)
Pushd == Does("pushd", "B")
Popd  == Does("popd", "")
Wrapped(via) == [do |-> "plain", to |-> "", via |-> via]

Part(words, operators, opens, most, nest) ==
    [words |-> words, operators |-> operators, opens |-> opens,
     functions |-> {"f"}, chains |-> {<<>>, <<"sub">>, <<"A", "sub">>},
     commands |-> most, compounds |-> nest]

AndOr == {"&&", "||"}

\* The directory stack and $OLDPWD, behind operators.
Stack == Part({X, Cd("A"), Cd("-"), Pushd, Popd}, {"||"}, {}, 5, 0)
\* Relative and unclear targets, home, and a wrapper (env -C sub).
Targets == Part({X, Wrapped(<<"sub">>), Cd(""), Cd("sub"), Cd(Vague)},
                {"&&"}, {"test"}, 3, 0)
\* Branches, loops and subshells within one another.
Branches == Part({X, Cd("A"), Cd("sub")}, AndOr, {"if", "for", "("}, 3, 2)
\* Loops that come back to where they began.
Loops == Part({X, Pushd, Popd}, {}, {"for", "{"}, 4, 2)
\* A function that is called before and after its definition, and within it.
Calls == Part({X, Cd("A"), Does("call", "f")}, {"&&"}, {"f{", "for", "("}, 3, 2)
\* Pipelines of simple commands.
Pipelines == Part({X, Cd("A"), Cd("-")}, {"|", "&&"}, {}, 5, 0)
\* Scripts handed to eval or to a nested shell.
Scripts == Part({X, Cd("A"), Cd("sub")}, {"&&"}, {"eval", "sh"}, 4, 2)

Parts == {Stack, Targets, Branches, Loops, Calls, Pipelines, Scripts}

OnlyScripts == {Scripts}
=============================================================================
