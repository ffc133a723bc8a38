------------------------------- MODULE MCEngine -------------------------------
(***************************************************************************)
(* Small worlds for Engine: families of calls, rules and exceptions, each  *)
(* about one part of the engine.  Directories lie below /p; $D is not set, *)
(* $S is /p/s, and "~" is /h.                                              *)
(***************************************************************************)
EXTENDS Lint

MCRootOf == "/" :> "/"
MCLower == <<>>
MCVariables == "$S" :> <<"/", "p", "s">>
MCUnset == {"$D"}
MCHome == <<"/", "h">>
MCWild == [w \in {"*.t", "a*"} |-> {"a.t"}]
\* "a*" abbreviates "a.t" and not "*.t"; "*.t" begins with a wildcard.
MCAbbreviates == "a*" :> {"a.t", "a*"}
MCCarries == ("-f" :> {"-f"}) @@ ("-rf" :> {"-r", "-f"}) @@ ("-C" :> {"-C"})
MCValueFlags == ("git" :> {"-C"}) @@ ("git worktree add" :> {"-b"})
MCRepoName == "url/s.git" :> "s"
MCUnexceptable == {"fixed"}

P == <<"/", "p">>
S == <<"/", "p", "s">>
Q == <<"/", "q">>

-----------------------------------------------------------------------------
Operand(words, op) == [words |-> words, op |-> op, recursive |-> FALSE]
Command(argv, move, operands) == [argv |-> argv, move |-> move, operands |-> operands]
Rm(name, move) == Command(<<"rm", name>>, move, {Operand(<<name>>, "delete")})
Git(argv, move) == Command(<<"git">> \o argv, move, {})

Shell(given, commands) ==
    [tool |-> "Bash", given |-> given, start |-> <<>>, commands |-> commands,
     target |-> <<>>, glob |-> <<>>, session |-> "a", dynamic |-> {}, assigned |-> {},
     args |-> <<>>]
File(tool, given, target, glob) ==
    [Shell(given, <<>>) EXCEPT !.tool = tool, !.target = target, !.glob = glob]

IsCommand(program) ==
    [kind |-> "command", program |-> {program}, subcommand |-> <<>>, any |-> {}, all |-> {},
     none |-> {}, args |-> {}, noArgs |-> {}]
IsPath(op) ==
    [kind |-> "path", op |-> op, under |-> {}, notUnder |-> {}, notWithin |-> {},
     glob |-> {}, notGlob |-> {}, recursive |-> {}, spared |-> <<>>]
AllOf(parts) == [kind |-> "all", parts |-> parts]
AnyOf(parts) == [kind |-> "any", parts |-> parts]
Not(of) == [kind |-> "not", of |-> of]
UnknownPlace == [kind |-> "unknown"]
Preceded(of) == [kind |-> "preceded", of |-> of]
Exceeds(of, max, within) == [kind |-> "exceeds", of |-> of, max |-> max, within |-> within]

Rule(id, effect, pred) ==
    [id |-> id, effect |-> effect, pred |-> pred, obligation |-> FALSE, tools |-> {},
     under |-> {}, notUnder |-> {}, roots |-> {}, base |-> NoBase, origin |-> "user"]
Under(rule, directories) == [rule EXCEPT !.under = directories]
NotUnder(rule, directories) == [rule EXCEPT !.notUnder = directories]
InRoots(rule, roots) == [rule EXCEPT !.roots = roots]
Twin(rule) == [rule EXCEPT !.id = "twin", !.origin = "project", !.effect = "warn"]
AskUnknown == Rule("unknown", "ask", <<UnknownPlace>>)

Exception(rules) ==
    [rules |-> rules, tools |-> {}, under |-> {}, roots |-> {}, when |-> NoCondition]
ExceptUnder(directories) == [Exception({"r"}) EXCEPT !.under = directories]
ExceptRoots(roots) == [Exception({"r"}) EXCEPT !.roots = roots]
ExceptWhen(pred) == [Exception({"r"}) EXCEPT !.when = pred]

Past(time, call) == [time |-> time, facts |-> Extract(call)]

\* Every family: calls, rules, exceptions, and what else there is.
Family(calls, rules, exceptions) ==
    {[call |-> c, rules |-> r, exceptions |-> e, repositories |-> {}, disk |-> {},
      log |-> <<>>, others |-> {}, places |-> {}, values |-> {}] :
        c \in calls, r \in rules, e \in exceptions}

-----------------------------------------------------------------------------
\* Directories the gate knows and does not know, and exceptions by place.
Moves == {<<>>, S, Q, <<"s">>, <<"$D">>}
RmX == <<IsCommand("rm")>>
InP == Under(Rule("r", "deny", RmX), {P})

Moving ==
    Family({Shell(given, <<Rm("x", a), Rm("y", b)>>) :
                given \in {P, <<>>}, a \in Moves, b \in Moves},
           {<<AskUnknown, InP>>, <<InP, Rule("n", "warn", <<AllOf({2, 3}), UnknownPlace,
                                                            IsCommand("rm")>>)>>,
            <<NotUnder(InP, {S}), AskUnknown>>, <<Rule("r", "warn", RmX)>>},
           {<<>>, <<ExceptUnder({S})>>, <<ExceptUnder({<<"/">>}), ExceptUnder({Q})>>,
            <<ExceptWhen(<<[IsCommand("rm") EXCEPT !.args = {"x"}]>>)>>})

\* Paths of commands, and the exceptions to them.
Operands_ == {<<"x">>, <<"..", "q", "a.t">>, <<"$D", "x">>, <<"$D", "..", "x">>,
              <<"*.t">>, <<"a*">>, <<"~", "x">>, <<"$S", "a.t">>, <<"out", "x">>}
Touch(words, op, recursive) ==
    Command(<<"rm", "-rf", "--", "x">>, <<>>,
            {[words |-> words, op |-> op, recursive |-> recursive]})

PathPreds ==
    {[IsPath("delete") EXCEPT !.under = {P}, !.notWithin = {<<"**", "out">>}],
     [IsPath("any") EXCEPT !.glob = {<<"a.t">>}, !.notGlob = {<<"**", "q", "a.t">>}],
     [IsPath("any") EXCEPT !.notUnder = {<<"s">>, <<"**", "x">>}, !.recursive = {TRUE}],
     [IsPath("delete") EXCEPT !.spared = "out" :> {"x"}]}

Touching ==
    Family({Shell(P, <<Touch(a, "delete", TRUE), Touch(b, "read", FALSE),
                       Touch(<<"x">>, "delete", FALSE)>>) : a \in Operands_, b \in Operands_},
           {<<Rule("r", "deny", <<p>>)>> : p \in PathPreds},
           {<<>>, <<ExceptUnder({S, P})>>, <<ExceptWhen(<<IsPath("read")>>)>>})

\* Repositories that come and go while the rules are judged.
Clone == Git(<<"clone", "url/s.git">>, <<>>)
InRepo == InRoots(Rule("r", "deny", RmX), {P})

Repositories ==
    {[f EXCEPT !.repositories = d, !.disk = {P, S}, !.places = {P, S}] :
        f \in Family({Shell(P, <<Rm("x", a), Rm("y", b)>>) :
                         a \in {<<>>, S, <<"$D">>}, b \in {S, Q}} \cup
                     {Shell(P, <<g, Rm("x", S)>>) :
                         g \in {Clone, Git(<<"init">>, S), Git(<<"-C", "s", "init", "s">>, <<>>),
                                Git(<<"worktree", "add", "-b", "x", "s">>, <<>>)}} \cup
                     {File("Read", P, <<"s", "x">>, <<>>), File("Grep", P, <<"s">>, <<"*.t">>)},
                     {<<InRepo, Twin(InRepo), AskUnknown>>,
                      <<InRoots(Rule("r", "ask", <<IsPath("any")>>), {P})>>,
                      <<Rule("r", "deny", RmX)>>, <<Rule("r", "ask", <<IsPath("any")>>)>>},
                     {<<>>, <<ExceptRoots({S})>>}),
        d \in {{P}, {P, S}}}

\* Earlier calls of the session.
Earlier(call) == Past(5, call)
RmBefore == <<Preceded(2), IsCommand("rm")>>
Often == <<AllOf({2, 3}), IsCommand("rm"), Exceeds(4, 1, 3), IsCommand("rm")>>
OnceInP == Under(Rule("r", "ask", Often), {P})

Sessions ==
    {[f EXCEPT !.log = l, !.others = {Past(9, Shell(P, <<Rm("x", <<>>)>>))},
               !.disk = {S}, !.repositories = {P}] :
        f \in Family({Shell(P, <<Rm("x", <<>>)>>),
                      [Shell(P, <<Rm("x", <<>>)>>) EXCEPT !.session = ""]},
                     {<<OnceInP, Twin(OnceInP), Rule("plain", "warn", RmX)>>,
                      <<[Rule("r", "ask", RmBefore) EXCEPT !.obligation = TRUE],
                        Rule("plain", "warn", RmX)>>,
                      <<InRoots(OnceInP, {P}), Twin(InRoots(OnceInP, {P}))>>,
                      <<Rule("r", "deny", RmX), Rule("plain", "warn", RmX)>>},
                     {<<>>, <<ExceptWhen(<<Not(2), Preceded(3), IsCommand("rm")>>)>>}),
        l \in {<<>>, <<Earlier(Shell(Q, <<Rm("x", S)>>)), Past(9, Shell(P, <<Rm("y", <<>>)>>))>>}}

\* Structured tools, assignments and dynamic input; obligations.
Number(n) == [kind |-> "number", word |-> "", reads |-> {n}]
Text_(word, reads) == [kind |-> "text", word |-> word, reads |-> reads]
Arg(name, op, values) == [kind |-> "arg", name |-> name, op |-> op, values |-> values]
Comparisons == {Arg("n", op, {Number(2)}) : op \in {"<", "<=", ">", ">=", "==", "!="}}
ArgPreds ==
    {<<p>> : p \in Comparisons} \cup
    {<<Arg("n", "in", {Number(1)})>>, <<Arg("n", "matches", {Text_("2", {2})})>>,
     <<[kind |-> "expr", lhs |-> [name \in {"n", "m"} |-> 2], op |-> ">", rhs |-> 5]>>,
     <<AnyOf({2, 3}), [kind |-> "dynamic", reasons |-> {"eval"}],
       [kind |-> "assigns", names |-> {"*.t", "D"}]>>}

Structured ==
    Family({[Shell(P, <<>>) EXCEPT !.tool = "mcp", !.args = a, !.dynamic = d, !.assigned = n] :
                a \in {<<>>, "n" :> Number(1), "n" :> Text_("2", {2}), "n" :> Text_("z", {}),
                       ("n" :> Number(2)) @@ ("m" :> Number(1))},
                d \in {{}, {"eval"}}, n \in {{}, {"D"}}},
           {<<[Rule("r", "ask", p) EXCEPT !.obligation = o, !.tools = {"mcp"}]>> :
                p \in ArgPreds, o \in BOOLEAN},
           {<<>>, <<ExceptWhen(<<Arg("n", "==", {Number(2)})>>)>>})

\* File tools in a directory that may be unknown, below a scoped rule.
Files ==
    Family({File(t, given, <<"s", "x">>, <<>>) : t \in {"Read", "Write"}, given \in {P, S, <<>>}}
               \cup {File("Grep", P, <<>>, <<"*.t">>)},
           {<<Under(Rule("r", "deny", <<IsPath("any")>>), {P}), AskUnknown>>,
            <<NotUnder(Rule("r", "deny", <<IsPath("write")>>), {S})>>,
            <<Rule("fixed", "deny", <<IsPath("any")>>)>>},
           {<<>>, <<ExceptUnder({P})>>, <<[ExceptUnder({S}) EXCEPT !.tools = {"Read"}]>>,
            <<[Exception({"fixed"}) EXCEPT !.under = {P}]>>})

\* Scopes that may hold below the directory a session starts in.
Places_ == {<<"/">>, P, S, Q, <<"/", "p", "s", "x">>}
Scopes == {P, S, <<"/", "p", "*">>, <<"**", "s">>, <<"/", "p", "**", "x">>}
Starting ==
    {[f EXCEPT !.places = Places_, !.repositories = {P}, !.disk = {}] :
        f \in Family({Shell(d, <<Rm("x", <<>>)>>) : d \in Places_},
                     {<<Under(Rule("r", "deny", RmX), {d})>> : d \in Scopes} \cup
                     {<<InRoots(Rule("r", "deny", RmX), {d})>> : d \in Scopes} \cup
                     {<<NotUnder(Under(Rule("r", "deny", RmX), {P}), {d})>> : d \in Scopes},
                     {<<>>})}

\* Variables and the names around them.
Unresolved ==
    {[f EXCEPT !.values = {<<"s">>, <<"..", "q">>, <<"s", "..">>}] :
        f \in Family({Shell(P, <<Command(<<"rm", "x">>, <<>>, {Operand(w, "delete")})>>) :
                         w \in {<<"$D", "..", "x">>, <<"s", "$D", "..", "..", "x">>,
                                <<"$D", "..", "$D", "x">>, <<"..", "..", "..", "$D">>}},
                     {<<Rule("r", "deny", <<[IsPath("delete") EXCEPT !.under = {P}]>>)>>},
                     {<<>>})}

\* Ledgers for lint, and calls to hold its findings against.  Each part is
\* about atoms of one kind.
Push(subcommand) == [IsCommand("git") EXCEPT !.subcommand = subcommand]
Forced == [Push(<<"push">>) EXCEPT !.any = {"-f"}]
Deny(id, pred) == Rule(id, "deny", pred)
Warn(id, pred) == Rule(id, "warn", pred)
Always == <<Not(2), Arg("z", "==", {Number(1)})>>
Deleting(under) == [IsPath("delete") EXCEPT !.under = under]

CommandLedgers ==
    {<<Deny("r", <<a>>), Deny("q", <<b>>)>> :
        a \in {Forced, [Forced EXCEPT !.all = {"-r"}, !.none = {"-n"}, !.args = {"x"},
                                      !.noArgs = {"y"}]},
        b \in {IsCommand("git"), [Forced EXCEPT !.any = {"-f", "-r"}],
               [Push(<<"push">>) EXCEPT !.none = {"-n"}], [Push(<<"push">>) EXCEPT !.all = {"-f"}],
               [Push(<<>>) EXCEPT !.noArgs = {"y"}], [Push(<<"push">>) EXCEPT !.noArgs = {"y"}],
               [Push(<<>>) EXCEPT !.args = {"x", "y"}]}}

CommandCalls ==
    {Shell(P, <<Git(argv, <<>>), Rm("y", <<>>)>>) :
        argv \in {<<"push", "-f">>, <<"push", "-rf", "x">>, <<"push", "-r", "-n", "x">>,
                  <<"-C", "s", "push", "-rf", "y", "x">>, <<"init", "-f">>}}

PathLedgers ==
    {<<Warn("r", <<a>>), Warn("q", <<b>>)>> :
        a \in {Deleting({S}), Deleting({<<"s">>}), [Deleting({}) EXCEPT !.glob = {<<"a.t">>}],
               [Deleting({<<"~", "x">>}) EXCEPT !.recursive = {TRUE}, !.notUnder = {<<"**", "out">>},
                    !.notGlob = {<<"*.t">>}, !.spared = "out" :> {"x"}]},
        b \in {Deleting({P}), Deleting({<<"/">>}), Deleting({<<"s">>, <<"**", "a.t">>}),
               [Deleting({}) EXCEPT !.notUnder = {<<"**", "out">>, <<"s", "q">>}],
               [Deleting({}) EXCEPT !.notWithin = {<<"**", "x", "out">>}],
               [Deleting({}) EXCEPT !.spared = "out" :> {"x"}],
               [IsPath("any") EXCEPT !.notGlob = {<<"*.t">>}, !.recursive = {TRUE}],
               [IsPath("any") EXCEPT !.under = {<<"~">>}, !.notWithin = {<<"**", "out">>}]}}

PathCalls ==
    {Shell(d, <<Touch(a, "delete", r)>>) :
        d \in {P, S}, r \in BOOLEAN,
        a \in {<<"s", "x">>, <<"/", "p", "s", "q">>, <<"a.t">>, <<"*.t">>, <<"a*">>, <<"out", "x">>,
               <<"s", "x", "out">>, <<"~", "x", "out">>, <<"~", "x">>}}

ScopedLedgers ==
    {<<a, b>> :
        a \in {Under(Warn("r", RmX), {S}), InRoots(Under(Warn("r", RmX), {P}), {P}),
               NotUnder(Warn("r", RmX), {P}), InRoots(Warn("r", RmX), {S, Q}),
               [Under(Warn("r", RmX), {P}) EXCEPT !.obligation = TRUE]},
        b \in {Under(Deny("q", RmX), {P}), NotUnder(Deny("q", RmX), {S}),
               InRoots(Deny("q", RmX), {P}), NotUnder(Under(Deny("q", RmX), {P}), {S}),
               Under(Deny("q", <<Not(2), IsCommand("rm")>>), {S}),
               Under(Deny("q", Always), {<<"s">>})}}
    \cup {<<Under(Deny("r", RmX), {P}), Under(Deny("q", <<Not(2), IsCommand("rm")>>), {P})>>,
          <<InRoots(Deny("r", <<AnyOf({2, 3}), IsCommand("rm"), Not(4), IsCommand("rm")>>), {P}),
            Under(Warn("q", RmX), {P, S})>>,
          <<Under(Deny("r", RmX), {Q, <<"/", "q", "s">>}),
            NotUnder(Under(Warn("q", RmX), {P, Q}), {Q})>>}

ScopedCalls ==
    {Shell(P, <<Rm("x", a), Git(<<"push">>, b)>>) :
        a \in {<<>>, S, Q, <<"$D">>}, b \in {<<>>, S}}
        \cup {Shell(d, <<>>) : d \in {P, S}} \cup {Shell(P, <<Git(<<"init">>, S)>>)}

ArgLedgers ==
    {<<Deny("r", <<Arg("n", a, {Number(1)})>>), Deny("q", <<Arg("n", b, {Number(k)})>>)>> :
        a \in {"<", "==", ">="}, b \in {"<=", "!=", "<"}, k \in 1..2}
    \cup {<<Deny("r", <<AllOf({2, 3}), Arg("n", "==", {Number(2)}), Arg("n", "in", {v})>>)>> :
              v \in {Number(1), Text_("2", {2}), Text_("z", {})}}
    \cup {<<Deny("r", <<AnyOf({2, 3}), Arg("n", "<", {Number(2)}),
                           Arg("n", ">=", {Number(2)})>>),
              Deny("q", <<Not(2), Arg("n", "<", {Number(9)})>>)>>}

ArgCalls ==
    {[Shell(P, <<>>) EXCEPT !.tool = "mcp", !.args = a] :
        a \in {<<>>} \cup {"n" :> v : v \in {Number(1), Number(2), Number(3),
                                             Text_("2", {2}), Text_("z", {})}}}

Linting ==
    {[f EXCEPT !.repositories = {P}, !.disk = {S}, !.places = {P, S}] :
        f \in Family(CommandCalls, CommandLedgers, {<<>>})
                 \cup Family(PathCalls, PathLedgers, {<<>>})
                 \cup Family(ScopedCalls, ScopedLedgers, {<<>>})
                 \cup Family(ArgCalls, ArgLedgers, {<<>>})}

\* What lint cannot see.
Hidden ==
    Family({Shell(P, <<Touch(<<"a*">>, "read", FALSE)>>)},
           {<<Warn("r", <<[IsPath("read") EXCEPT !.glob = {<<"a.t">>}]>>),
              Warn("q", <<[IsPath("read") EXCEPT !.under = {<<"**", "a.t">>}]>>)>>}, {<<>>})
    \cup
    Family({Shell(P, <<Command(<<"rm", "s">>, S, {Operand(<<"out">>, "delete")}),
                       Command(<<"rm", "x">>, <<>>, {Operand(<<"s", "x">>, "delete")})>>)},
           {<<Under(Warn("r", <<p>>), {S}), Deny("q", <<p>>)>> :
               p \in {[Deleting({<<"**", "out">>}) EXCEPT !.spared = "out" :> {"x"}]}}, {<<>>})
    \cup
    Family({[Shell(P, <<Rm("x", <<>>)>>) EXCEPT !.start = <<"$D">>]},
           {<<Under(Rule("u", "ask", <<UnknownPlace>>), {P}), Under(Deny("q", Always), {P})>>},
           {<<>>})

MCScenarios ==
    Moving \cup Touching \cup Repositories \cup Sessions \cup Structured \cup Files
        \cup Starting \cup Unresolved \cup Linting \cup Hidden

OnlyMoving == Moving
=============================================================================
