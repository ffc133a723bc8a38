---------------------------------- MODULE Lint ----------------------------------
(***************************************************************************)
(* ember-gate lint (ember_armor/ledger/lint.py): the rules of a ledger     *)
(* described for every possible call, what the solver finds of them, and   *)
(* the directory scopes that have drifted from the filesystem.             *)
(*                                                                         *)
(* A world is what the solver may choose: the tool, which atoms hold, and  *)
(* what is known of each argument.  "Unsatisfiable" is that no world is    *)
(* left.  Sums of arguments are atoms here; the values that single         *)
(* arguments are compared with, and those between, stand for the reals     *)
(* (constants are doubled, so that there is a value between two of them).  *)
(***************************************************************************)
EXTENDS Implies, Engine

ShellTools == {"Bash"}
OtherTool == "another tool"
OtherKind == "another kind"

\* _view: what a rule with a directory scope sees of a call.
NoView == [under |-> {}, notUnder |-> {}, roots |-> {}, base |-> NoBase]
HasDirectories(rule) == rule.under \cup rule.notUnder \cup rule.roots # {}
ViewOf(rule) ==
    IF ~HasDirectories(rule) THEN NoView
    ELSE [under |-> rule.under, notUnder |-> rule.notUnder, roots |-> rule.roots,
          base |-> rule.base]

-----------------------------------------------------------------------------
\* _Model.scope: a choice among the directories or among the repositories; a
\* combination of them is one atom.
Combined(view) == view.notUnder # {} \/ (view.under # {} /\ view.roots # {})
DirectoryAtoms(view) == {<<"cwd", d, view.base>> : d \in view.under}
RepositoryAtoms(view) == {<<"repo", d, view.base>> : d \in view.roots}
PartsOf(view) == DirectoryAtoms(view) \cup RepositoryAtoms(view)

ScopeHolds(tools, view, world) ==
    /\ tools # {} => world.tool \in tools
    /\ IF Combined(view) THEN <<"area", view>> \in world.atoms
       ELSE PartsOf(view) # {} => PartsOf(view) \cap world.atoms # {}

\* _Model.predicate: the atom of a node of a rule's predicate.
AtomOf(rule, node) ==
    CASE node.kind = "command" -> <<"command", node, ViewOf(rule)>>
      [] node.kind = "path" -> <<"path", node, rule.base, ViewOf(rule)>>
      [] node.kind \in {"preceded", "exceeds"} ->
           <<"history", node, rule.pred[node.of], rule.base, ViewOf(rule)>>
      [] OTHER -> <<"opaque", node>>

KindAtoms(node) ==
    {<<"dynamic", k>> : k \in IF node.reasons = {} THEN {"eval", OtherKind} ELSE node.reasons}

\* _Model._arg: of an argument that is a number it is compared, else it is
\* equal to the constant or not.
ArgTerm(node, world) ==
    LET value == world.args[node.name]
        compared(constant) ==
            IF constant.reads # {} /\ constant.kind = "number" /\ value.reads # {}
            THEN \E n \in value.reads, k \in constant.reads : Ordered(n, node.op, 2 * k)
            ELSE \/ node.op = "==" /\ value.same = {constant}
                 \/ node.op = "!=" /\ value.present /\ value.same # {constant}
    IN  CASE node.op = "matches" -> value.present /\ <<"opaque", node>> \in world.atoms
          [] node.op = "in" -> \E v \in node.values : value.same = {v}
          [] OTHER -> \E v \in node.values : compared(v)

PredHolds(rule, world) ==
    LET term[i \in DOMAIN rule.pred] ==
            LET node == rule.pred[i]
            IN  CASE node.kind = "all" -> \A j \in node.parts : term[j]
                  [] node.kind = "any" -> \E j \in node.parts : term[j]
                  [] node.kind = "not" -> ~term[node.of]
                  [] node.kind = "arg" -> ArgTerm(node, world)
                  [] node.kind = "dynamic" -> KindAtoms(node) \cap world.atoms # {}
                  [] OTHER -> AtomOf(rule, node) \in world.atoms
    IN  term[1]

\* _Linter._case.
InScope(rule, world) == ScopeHolds(rule.tools, ViewOf(rule), world)
FiresIn(rule, world) == PredHolds(rule, world) # rule.obligation
AppliesIn(rule, world) == InScope(rule, world) /\ FiresIn(rule, world)

-----------------------------------------------------------------------------
\* _sees_less: everything that is in the one scope is in the other.
Comparables(view) ==
    [field \in {"under", "notUnder", "roots"} |->
        {Comparable(d, view.base, FALSE) : d \in view[field]}]

\* Mutant: the exceptions of the wide scope are not asked about.
MutLiesWithin(mine, theirs) ==
    /\ theirs["under"] # {} =>
         mine["under"] # {} /\ \A d \in mine["under"] : InsideAny(d, theirs["under"])
    /\ theirs["roots"] # {} => Equal(theirs["roots"], mine["roots"])

LiesWithin(mine, theirs) ==
    /\ theirs["under"] # {} =>
         mine["under"] # {} /\ \A d \in mine["under"] : InsideAny(d, theirs["under"])
    /\ \A d \in theirs["notUnder"] : InsideAny(d, mine["notUnder"])
    /\ theirs["roots"] # {} =>
         mine["roots"] # {} /\ Equal(theirs["roots"], mine["roots"])

SeesLess(narrow, wide) ==
    \/ wide = NoView
    \/ narrow = wide
    \/ /\ narrow # NoView
       /\ \E mine \in {Comparables(narrow)}, theirs \in {Comparables(wide)} :
              LiesWithin(mine, theirs)

\* axioms: what one atom implies for every call.
Follows(a, b) ==
    /\ a[1] = b[1]
    /\ CASE a[1] = "command" ->
              (a[2] = b[2] \/ CommandImplies(a[2], b[2])) /\ SeesLess(a[3], b[3])
         [] a[1] = "path" ->
              /\ <<a[2], a[3]>> = <<b[2], b[3]>> \/ PathImplies(a[2], a[3], b[2], b[3])
              /\ SeesLess(a[4], b[4])
         [] a[1] = "cwd" ->
              DirectoryInside(Comparable(a[2], a[3], FALSE), Comparable(b[2], b[3], FALSE))
         [] a[1] = "area" -> SeesLess(a[2], b[2])
         [] OTHER -> FALSE

AtomsOf(rule) ==
    LET nodes == ToSet(rule.pred)
        leaf(node) == node.kind \notin {"all", "any", "not", "arg", "dynamic"}
    IN  {AtomOf(rule, node) : node \in {n \in nodes : leaf(n)}}
            \cup {<<"opaque", n>> : n \in {m \in nodes : m.kind = "arg" /\ m.op = "matches"}}
            \cup UNION {KindAtoms(n) : n \in {m \in nodes : m.kind = "dynamic"}}
            \cup PartsOf(ViewOf(rule))
            \cup (IF Combined(ViewOf(rule)) THEN {<<"area", ViewOf(rule)>>} ELSE {})

\* _area_axioms and _tool_axioms, of what is chosen to hold.
AreaConsistent(atoms) ==
    \A a \in {b \in atoms : b[1] = "area"} :
        /\ a[2].under # {} => DirectoryAtoms(a[2]) \cap atoms # {}
        /\ a[2].roots # {} => RepositoryAtoms(a[2]) \cap atoms # {}

ToolConsistent(tool, atoms) ==
    \A a \in atoms :
        /\ a[1] \in {"command", "dynamic"} => tool \in ShellTools
        /\ a[1] = "path" => tool \in ShellTools \cup FileTools

-----------------------------------------------------------------------------
\* What the rules say of an argument, and what can be true of it: that it
\* is missing; that it reads as a number; that it equals one constant.
ArgNodes(rules) == UNION {{n \in ToSet(r.pred) : n.kind = "arg"} : r \in rules}
ConstantsOf(rules, name) ==
    UNION {n.values : n \in {m \in ArgNodes(rules) : m.name = name}}

ArgWorlds(constants) ==
    LET numbers == UNION {c.reads : c \in {d \in constants : d.kind = "number"}}
        samples == {{2 * k + shift} : k \in numbers, shift \in -1..1} \cup {{}}
        equals == {{c} : c \in constants} \cup {{}}
        consistent(reads, same) ==
            \A c \in same : c.kind = "number" /\ reads # {} => reads = {2 * k : k \in c.reads}
        missing == [present |-> FALSE, reads |-> {}, same |-> {}]
    IN  {missing} \cup
        {[present |-> TRUE, reads |-> pair[1], same |-> pair[2]] :
            pair \in {q \in samples \X equals : consistent(q[1], q[2])}}

ArgsOf(rules) ==
    LET names == {n.name : n \in ArgNodes(rules)}
        all == UNION {ArgWorlds(ConstantsOf(rules, name)) : name \in names}
    IN  {args \in [names -> all] :
            \A name \in names : args[name] \in ArgWorlds(ConstantsOf(rules, name))}

\* The atoms that may hold together, and the worlds that they make.
Closed(atoms, after) ==
    {some \in SUBSET atoms : AreaConsistent(some) /\ \A a \in some : after[a] \subseteq some}

Consistent(atoms) ==
    UNION {Closed(atoms, after) :
              after \in {[a \in atoms |-> {b \in atoms : Follows(a, b)}]}}

WorldsOf(rules) ==
    LET tools == ShellTools \cup FileTools \cup {OtherTool} \cup UNION {r.tools : r \in rules}
        choices == tools \X Consistent(UNION {AtomsOf(r) : r \in rules}) \X ArgsOf(rules)
    IN  {[tool |-> choice[1], atoms |-> choice[2], args |-> choice[3]] :
            choice \in {c \in choices : ToolConsistent(c[1], c[2])}}

-----------------------------------------------------------------------------
\* _Linter.run.  `applies` and `scope` are the worlds of each rule.
Finding(kind, rule, others, tools, view) ==
    [kind |-> kind, rule |-> rule, others |-> others, tools |-> tools, view |-> view]
About(kind, rule, others) == Finding(kind, rule.id, others, rule.tools, ViewOf(rule))

\* _shadowed; of two rules that say the same the later one is reported.
Shadowing(rules, i, applies, dead) ==
    {rules[j].id : j \in
        {k \in DOMAIN rules \ ({i} \cup dead) :
            /\ Severity[rules[k].effect] >= Severity[rules[i].effect]
            /\ applies[i] \subseteq applies[k]
            /\ applies[i] = applies[k] /\ rules[k].effect = rules[i].effect => k < i}}

\* _scopes: one for each tool, directory and repository of a deny rule.
TestedScopes(rule) ==
    LET tools == IF rule.tools = {} THEN {{}} ELSE {{t} : t \in rule.tools}
        under == {[NoView EXCEPT !.under = {d}, !.base = rule.base] : d \in rule.under}
        roots == {[NoView EXCEPT !.roots = {d}, !.base = rule.base] : d \in rule.roots}
        places == IF under \cup roots = {} THEN {NoView} ELSE under \cup roots
    IN  tools \X places

\* _contradictions: every smallest set of deny rules that leaves no call of
\* the scope; the solver picks one of them.
Contradictions(rules, denying, worlds, applies) ==
    LET within(scope) == {w \in worlds : ScopeHolds(scope[1], scope[2], w)}
        denied(some) == UNION {applies[i] : i \in some}
        leavesNone(some, scope) == within(scope) \subseteq denied(some)
        cores(scope) ==
            {some \in SUBSET denying :
                /\ some # {} /\ leavesNone(some, scope)
                /\ \A i \in some : ~leavesNone(some \ {i}, scope)}
        ids(core) == {rules[i].id : i \in core}
    IN  UNION {{Finding("contradiction", "", ids(core), scope[1], scope[2]) :
                   core \in cores(scope)} :
               scope \in UNION {TestedScopes(rules[i]) : i \in denying}}

DeadRules(rules, applies) == {i \in DOMAIN rules : applies[i] = {}}
BlanketRules(rules, scope, applies) ==
    {i \in DOMAIN rules : applies[i] # {} /\ scope[i] \subseteq applies[i]}

FindingsOf(rules, worlds, scope, applies, dead, blanket) ==
    LET own == {i \in DOMAIN rules : rules[i].origin # "builtin"}
        denying == {i \in DOMAIN rules \ (dead \cup blanket) : rules[i].effect = "deny"}
    IN  {About("dead", rules[i], {}) : i \in dead \cap own}
            \cup {About("blanket", rules[i], {}) : i \in blanket \cap own}
            \cup {f \in {About("shadowed", rules[i], Shadowing(rules, i, applies, dead)) :
                             i \in own \ dead} : f.others # {}}
            \cup Contradictions(rules, denying, worlds, applies)

Linted(rules) ==
    UNION {UNION {FindingsOf(rules, worlds, scope, applies, DeadRules(rules, applies),
                             BlanketRules(rules, scope, applies)) :
                     applies \in {[i \in DOMAIN rules |-> {w \in worlds : AppliesIn(rules[i], w)}]},
                     scope \in {[i \in DOMAIN rules |-> {w \in worlds : InScope(rules[i], w)}]}} :
              worlds \in {WorldsOf(ToSet(rules))}}

\* What lint says of every ledger of the scenarios.
Findings == [rules \in {s.rules : s \in Scenarios} |-> Linted(rules)]
-----------------------------------------------------------------------------
\* stale_scopes.  _named_directory: the one directory that a pattern names
\* on this machine, if lint can place it.
NoBaseMark == "?base"
ASSUME LintAssumption == {NoBaseMark, "base"} \subseteq Words

NamedDirectory(words, base) ==
    LET from == IF base = NoBase THEN <<"/", NoBaseMark, "base">> ELSE base
        directory == ResolvePattern(words, from, FALSE)
        placed == /\ \A i \in DOMAIN words : words[i] # ".."
                  /\ directory # NoPath /\ Literal(directory)
                  /\ \A i \in DOMAIN directory : directory[i] # NoBaseMark
    IN  IF placed THEN {directory} ELSE {}

\* _drift, on a machine with these directories and repositories; of `unread'
\* the file system does not say which repository is around.
Drift(field, directory, machine, disk, unread) ==
    LET root == FindRoot(directory, disk, <<>>)
    IN  IF directory \notin machine THEN "does not exist"
        ELSE IF field # "repo_root" \/ directory \in unread \/ root = directory THEN "nothing"
        ELSE IF root = NoRepository THEN "lies in no repository"
        ELSE "lies in another repository"

ScopeFields(rule) ==
    {<<"cwd_under", d>> : d \in rule.under} \cup {<<"cwd_not_under", d>> : d \in rule.notUnder}
        \cup {<<"repo_root", d>> : d \in rule.roots}

StaleScopes(rule, machine, disk, unread) ==
    {scope \in ScopeFields(rule) :
        \E d \in NamedDirectory(scope[2], rule.base) :
            Drift(scope[1], d, machine, disk, unread) # "nothing"}

-----------------------------------------------------------------------------
\* What the engine did with the call.
HasFired(id) == id \in fired \cup excepted

\* A call is in a scope when something of it surely is; what nobody had to
\* look up is looked up now.
AnswersFor(facts) ==
    LET places == {Here(x, facts) : x \in facts.commands \cup facts.paths}
                      \cup {MadeIn(facts)} \cup {p.path : p \in facts.paths}
    IN  found @@ [d \in places \ {UnknownDir} |-> FindRoot(d, repositories, seen)]

CallInScope(tools, view) ==
    /\ ForTool(tools, proposed)
    /\ View(proposed, Area(view.under, view.notUnder, view.roots, view.base, proposed, TRUE),
            [created |-> CreatedRepositories(proposed), found |-> AnswersFor(proposed)],
            "yes") # {}

IsTrue(f) ==
    CASE f.kind = "dead" -> ~HasFired(f.rule)
      [] f.kind = "blanket" -> CallInScope(f.tools, f.view) => HasFired(f.rule)
      [] f.kind = "shadowed" -> HasFired(f.rule) => \A id \in f.others : HasFired(id)
      [] f.kind = "contradiction" ->
           CallInScope(f.tools, f.view) => \E id \in f.others : HasFired(id)

\* Three things that the atoms do not know of: an operand that abbreviates
\* the name in a glob, a sibling that a narrow scope does not show, and the
\* rule for unknown directories, which is judged as if it knew them.
Blind(rule) ==
    \/ \E node \in ToSet(rule.pred) : node.kind = "path" /\
          \/ node.glob # {} /\ \E p \in proposed.paths : Fold(Last(p.path)) \in DOMAIN Abbreviates
          \/ node.spared # <<>> /\ HasDirectories(rule)
    \/ Deferred(rule) /\ HasDirectories(rule)

RulesIn(f) == {RuleOf(id) : id \in (f.others \cup {f.rule}) \ {""}}

(***************************************************************************)
(* A finding of lint is certain: no call contradicts it ("a finding is     *)
(* certain", lint.py:25; tests/ledger/test_lint_soundness.py).             *)
(***************************************************************************)
FindingsHold ==
    Decided => \A f \in Findings[scenario.rules] :
                   failures \cap {r.id : r \in RulesIn(f)} = {} => IsTrue(f)

(***************************************************************************)
(* The same where lint is not blind; and a rule all of whose directories   *)
(* or repositories are reported as stale fires on nothing that is done on  *)
(* the machine as lint saw it.                                             *)
(***************************************************************************)
Machine == UNION {Ancestors(p) : p \in scenario.places \cup repositories}
OnMachine ==
    /\ changes = 0 /\ CreatedRepositories(proposed) = {}
    /\ {Here(x, proposed) : x \in proposed.commands \cup proposed.paths}
           \cup {MadeIn(proposed)} \subseteq Machine

\* Lint reports most where it can read everything.
IsStale(rule) ==
    LET stale == StaleScopes(rule, Machine, repositories, {})
        all(field, patterns) == patterns # {} /\ {<<field, d>> : d \in patterns} \subseteq stale
    IN  all("cwd_under", rule.under) \/ all("repo_root", rule.roots)

StaleIsSilent == OnMachine => \A rule \in Rules : IsStale(rule) => ~HasFired(rule.id)

LintIsCertain ==
    /\ Decided => \A f \in Findings[scenario.rules] :
           \/ \E rule \in RulesIn(f) : rule.id \in failures \/ Blind(rule)
           \/ IsTrue(f)
    /\ StaleIsSilent
=============================================================================
