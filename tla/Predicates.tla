------------------------------ MODULE Predicates ------------------------------
(***************************************************************************)
(* The predicates of rules on the facts of a call: the leaf predicates,    *)
(* the predicate tree and the session's earlier calls                      *)
(* (ember_armor/ledger/engine.py), and the directory scopes that divide a  *)
(* call into what lies in them, what may and what does not.                *)
(*                                                                         *)
(* A predicate is the sequence of the nodes of its tree: the first is the  *)
(* root, and a node names its parts by their positions, which come later.  *)
(***************************************************************************)
EXTENDS Facts, FiniteSetsExt

NoBase == <<>>          \* patterns are relative to the call's directory
NoRepository == <<>>
\* The earlier calls: nothing as long as they are not read, then one sequence.
NotRead == {}

Anywhere(pattern) == Head(pattern) = "**"

\* What parse_predicate of model.py makes.
NodeKinds == {"command", "path", "arg", "expr", "dynamic", "assigns", "unknown", "all",
              "any", "not", "preceded", "exceeds"}
Parts(node) ==
    CASE node.kind \in {"all", "any"} -> node.parts
      [] node.kind \in {"not", "preceded", "exceeds"} -> {node.of}
      [] OTHER -> {}

IsTree(pred) ==
    /\ Len(pred) \in Nat \ {0} /\ DOMAIN pred = 1..Len(pred)
    /\ \A i \in DOMAIN pred :
          pred[i].kind \in NodeKinds /\ Parts(pred[i]) \subseteq i + 1..Len(pred)

-----------------------------------------------------------------------------
\* fnmatchcase of a word and a glob, and args_any_glob of a command.
Globbed(word, glob) ==
    glob = "*" \/ IF glob \in DOMAIN Wild THEN word \in Wild[glob] ELSE word = glob

\* _command_matches.
MatchesAt(argv, positions, pred) ==
    LET count == Len(pred.subcommand)
        rest == IF count = 0 THEN Tail(argv)
                ELSE SubSeq(argv, positions[count] + 1, Len(argv))
        listed(globs) == \E i \in DOMAIN rest, glob \in globs : Globbed(rest[i], glob)
    IN  /\ pred.program # {} => argv[1] \in pred.program
        /\ Len(positions) >= count
        /\ \A i \in 1..count : argv[positions[i]] = pred.subcommand[i]
        /\ pred.any # {} => \E flag \in pred.any : HasFlag(argv, flag)
        /\ \A flag \in pred.all : HasFlag(argv, flag)
        /\ \A flag \in pred.none : ~HasFlag(argv, flag)
        /\ pred.args # {} => listed(pred.args)
        /\ ~listed(pred.noArgs)

CommandMatches(command, pred) ==
    MatchesAt(command.argv, OperandPositions(command.argv, OptionsOf(command.argv[1])), pred)

\* _beyond: how many leading segments a path shares with the directory.
Shared(path, cwd) ==
    Max({n \in 0..Len(path) : n <= Len(cwd) /\ SubSeq(path, 1, n) = SubSeq(cwd, 1, n)})

\* _within: a directory that is not the working directory or above it.
Within(path, cwd, directories) ==
    \E n \in Shared(path, cwd) + 1..Len(path) :
        \E d \in directories : MatchesGlob(SubSeq(path, 1, n), d)

\* _spared_beside: the call touches a sibling of the directory the same way.
SparedBeside(fact, facts, pairs) ==
    LET others == {o.path : o \in {p \in facts.paths : p.op = fact.op /\ p.path # fact.path}}
        path == fact.path
    IN  \E n \in Shared(path, facts.cwd) + 1..Len(path) :
            /\ path[n] \in DOMAIN pairs
            /\ \E sibling \in pairs[path[n]] :
                   Append(SubSeq(path, 1, n - 1), sibling) \in others

\* _path_holds: one path of the call satisfies every field.
PathHolds(pred, base, facts) ==
    LET from == IF base = NoBase THEN facts.cwd ELSE base
        directories(patterns) == {ResolvePattern(p, from, FALSE) : p \in patterns}
        globs(patterns) == {ResolvePattern(p, from, TRUE) : p \in patterns}
        local(patterns, path) ==
            {p \in patterns : ~IsOpen(path) \/ Anywhere(p)}
    IN  \E fact \in facts.paths :
            /\ pred.op \in {"any", fact.op}
            /\ pred.recursive # {} => fact.recursive \in pred.recursive
            /\ pred.under # {} => UnderAny(fact.path, directories(pred.under))
            /\ ~UnderAny(fact.path, local(directories(pred.notUnder), fact.path))
            /\ ~Within(fact.path, facts.cwd, local(directories(pred.notWithin), fact.path))
            /\ ~SparedBeside(fact, facts, pred.spared)
            /\ \A glob \in local(globs(pred.notGlob), fact.path) :
                   ~MatchesGlob(fact.path, glob)
            /\ pred.glob # {} => \E glob \in globs(pred.glob) : MayMatch(fact.path, glob)

-----------------------------------------------------------------------------
\* _ordered, on values that _number reads exactly.
Ordered(left, op, right) ==
    CASE op = "<" -> left < right
      [] op = "<=" -> left <= right
      [] op = ">" -> left > right
      [] op = ">=" -> left >= right
      [] op = "==" -> left = right
      [] op = "!=" -> left # right

\* _arg_holds.  A value is its kind, its identity and the number that it
\* reads as, if any (_number: a text may, a truth value does not).
ArgHolds(pred, facts) ==
    /\ pred.name \in DOMAIN facts.args
    /\ LET value == facts.args[pred.name]
       IN  CASE pred.op = "in" -> value \in pred.values
             [] pred.op = "matches" -> value.kind = "text" /\ value \in pred.values
             [] OTHER ->
                  \E wanted \in pred.values :
                      IF value.reads # {} /\ wanted.reads # {} /\ wanted.kind # "text"
                      THEN \E n \in value.reads, k \in wanted.reads : Ordered(n, pred.op, k)
                      ELSE \/ pred.op = "==" /\ value = wanted
                           \/ pred.op = "!=" /\ value # wanted

\* _expr_holds: every argument is needed, and is a number.
ExprHolds(pred, facts) ==
    /\ \A name \in DOMAIN pred.lhs :
           name \in DOMAIN facts.args /\ facts.args[name].reads # {}
    /\ LET value(name) == CHOOSE n \in facts.args[name].reads : TRUE
           total == FoldFunction(+, 0, [name \in DOMAIN pred.lhs |->
                                            pred.lhs[name] * value(name)])
       IN  Ordered(total, pred.op, pred.rhs)

\* _assigns and DynamicShellPred.
Assigns(pred, facts) == \E name \in facts.assigned, glob \in pred.names : Globbed(name, glob)
IsDynamic(pred, facts) ==
    \E reason \in facts.dynamic : pred.reasons = {} \/ reason \in pred.reasons

-----------------------------------------------------------------------------
\* Directory scopes.  An area is `under`, `notUnder` and `roots`, resolved;
\* a lenient one (a rule's) leaves an unknown directory open, that of an
\* exception does not hold in one.
NoArea == [under |-> {}, notUnder |-> {}, roots |-> {}, lenient |-> TRUE]

\* _area; an exception resolves against no directory.
Area(under, notUnder, roots, base, facts, lenient) ==
    LET from == IF base = NoBase THEN facts.cwd ELSE base
        resolved(patterns) == {ResolvePattern(p, from, FALSE) : p \in patterns}
    IN  [under |-> resolved(under), notUnder |-> resolved(notUnder),
         roots |-> resolved(roots), lenient |-> lenient]

IsNowhere(area) == area.under \cup area.notUnder \cup area.roots = {}

\* _made_in, and the directory of a command or path.
MadeIn(facts) == IF facts.located THEN facts.cwd ELSE UnknownDir
Here(fact, facts) == IF fact.cwd = HereDir THEN MadeIn(facts) ELSE fact.cwd

Placed(directory, area) ==
    /\ area.under # {} => UnderAny(directory, area.under)
    /\ ~UnderAny(directory, area.notUnder)

\* The repositories that the string makes around a directory.
MadeAround(directory, created) == {made \in created : IsUnder(directory, made)}

\* _Roots.root asks the filesystem only when nothing else answers.
Asks(directory, created, found) ==
    /\ directory # UnknownDir /\ ~IsOpen(directory)
    /\ MadeAround(directory, created) = {}
    /\ directory \notin DOMAIN found

RootAmong(made, directory, ctx) ==
    IF directory = UnknownDir \/ IsOpen(directory) THEN UnknownDir
    ELSE IF made # {} THEN CHOOSE d \in made : \A e \in made : Len(e) <= Len(d)
    ELSE ctx.found[directory]

Root(directory, ctx) == RootAmong(MadeAround(directory, ctx.created), directory, ctx)

\* What is not known: no for an exception, unsure for a rule.
Unknown(area) == IF area.lenient THEN "unsure" ELSE "no"
Answer(holds) == IF holds THEN "yes" ELSE "no"

\* _rooted and _inside.
RootedAt(root, area) ==
    IF root = UnknownDir THEN Unknown(area)
    ELSE Answer(root # NoRepository /\ \E wanted \in area.roots : MatchesGlob(root, wanted))

Rooted(path, area, ctx) == RootedAt(Root(path, ctx), area)

\* Mutant: an unknown directory lies in no area, a rule's neither.
MutInside(directory, where, area, ctx) ==
    IF directory = UnknownDir \/ ~Placed(directory, area) THEN "no"
    ELSE IF area.roots = {} THEN "yes"
    ELSE Rooted(where, area, ctx)

Inside(directory, where, area, ctx) ==
    IF directory = UnknownDir THEN Unknown(area)
    ELSE IF ~Placed(directory, area) THEN "no"
    ELSE IF area.roots = {} THEN "yes"
    ELSE Rooted(where, area, ctx)

-----------------------------------------------------------------------------
\* _view, _split and _split_paths: the part of a call for which the answer
\* is `answer`; the empty set when there is none.
Part(facts, commands, paths) ==
    IF commands = {} /\ paths = {} THEN {}
    ELSE {[facts EXCEPT !.commands = commands, !.paths = paths]}

Among(facts, within) == Part(facts, facts.commands \cap within, facts.paths \cap within)

Split(facts, area, ctx, answer) ==
    Among(facts, {x \in facts.commands \cup facts.paths :
                     Inside(Here(x, facts), Here(x, facts), area, ctx) = answer})

\* A call without commands: its directory is placed, its paths are rooted.
RootedParts(facts, area, ctx, answer) ==
    IF facts.paths = {}
    THEN IF Rooted(MadeIn(facts), area, ctx) = answer THEN {facts} ELSE {}
    ELSE Part(facts, {}, {p \in facts.paths : Rooted(p.path, area, ctx) = answer})

SplitPaths(facts, area, ctx, answer) ==
    LET here == MadeIn(facts)
        all(wanted) == IF answer = wanted THEN {facts} ELSE {}
    IN  IF here = UnknownDir /\ area.under \cup area.notUnder # {} THEN all("unsure")
        ELSE IF here # UnknownDir /\ ~Placed(here, area) THEN {}
        ELSE IF area.roots = {} THEN all("yes")
        ELSE RootedParts(facts, area, ctx, answer)

View(facts, area, ctx, answer) ==
    IF IsNowhere(area) THEN IF answer = "yes" THEN {facts} ELSE {}
    ELSE IF facts.commands # {} THEN Split(facts, area, ctx, answer)
    ELSE SplitPaths(facts, area, ctx, answer)

-----------------------------------------------------------------------------
\* _past_matches: of an earlier call a rule sees what it would see of this
\* one.  A call without a session has no history.
PastViews(facts, ctx) ==
    IF facts.session = "" THEN {}
    ELSE UNION {UNION {{[time |-> calls[i].time, at |-> i, facts |-> view] :
                          view \in View(calls[i].facts, ctx.area, ctx, "yes")} :
                       i \in DOMAIN calls} : calls \in ctx.past}

\* _holds, of one node of a predicate, on the call or on an earlier one; those
\* have no history.
Case(call, earlier) == [call |-> call, earlier |-> earlier]

NodeHolds(node, at, seen, holds, ctx) ==
    LET past == IF at.earlier THEN {}
                ELSE {s \in seen : holds[node.of][Case(s.facts, TRUE)]}
    IN  CASE node.kind = "command" ->
               \E c \in at.call.commands : c.argv # <<>> /\ CommandMatches(c, node)
          [] node.kind = "path" -> PathHolds(node, ctx.base, at.call)
          [] node.kind = "arg" -> ArgHolds(node, at.call)
          [] node.kind = "expr" -> ExprHolds(node, at.call)
          [] node.kind = "dynamic" -> IsDynamic(node, at.call)
          [] node.kind = "assigns" -> Assigns(node, at.call)
          [] node.kind = "unknown" -> ctx.possible # {}
          [] node.kind = "all" -> \A j \in node.parts : holds[j][at]
          [] node.kind = "any" -> \E j \in node.parts : holds[j][at]
          [] node.kind = "not" -> ~holds[node.of][at]
          [] node.kind = "preceded" -> past = {}
          [] node.kind = "exceeds" ->
               Cardinality({s \in past : s.time >= ctx.now - node.within}) > node.max

HoldsGiven(pred, root, facts, seen, ctx) ==
    LET cases == [call : {facts} \cup {s.facts : s \in seen}, earlier : BOOLEAN]
        holds[i \in DOMAIN pred] ==
            [at \in cases |-> NodeHolds(pred[i], at, seen, holds, ctx)]
    IN  holds[root][Case(facts, FALSE)]

HoldsAt(pred, root, facts, ctx) ==
    HoldsGiven(pred, root, facts, PastViews(facts, ctx), ctx)

Holds(pred, facts, ctx) == HoldsAt(pred, 1, facts, ctx)

\* _reads_history, of a node; _reads_paths is the same for paths, and does
\* not look into what is asked of earlier calls.
NodeMentions(node, kinds, mentions) ==
    \/ node.kind \in kinds
    \/ node.kind \in {"all", "any"} /\ \E j \in node.parts : mentions[j]
    \/ node.kind = "not" /\ mentions[node.of]

Mentions(pred, kinds) ==
    LET mentions[i \in DOMAIN pred] == NodeMentions(pred[i], kinds, mentions) IN mentions

ReadsPaths(pred) == Mentions(pred, {"path"})[1]

\* _cheapest_first: whether judging the predicate comes to need the history,
\* which is asked only when the parts that do without do not decide.
History == {"preceded", "exceeds"}

NodeConsults(node, pred, facts, ctx, consults) ==
    LET free == {j \in Parts(node) : ~Mentions(pred, History)[j]}
    IN  \/ node.kind \in History
        \/ node.kind = "not" /\ consults[node.of]
        \/ /\ node.kind \in {"all", "any"}
           /\ \A j \in free : HoldsAt(pred, j, facts, ctx) = (node.kind = "all")
           /\ \E j \in node.parts : consults[j]

Consults(pred, facts, ctx) ==
    LET consults[i \in DOMAIN pred] == NodeConsults(pred[i], pred, facts, ctx, consults)
    IN  facts.session # "" /\ consults[1]

-----------------------------------------------------------------------------
\* fnmatchcase of one segment, in lower case where names are folded.
Fits(segment, piece) == piece \in {"*", segment} \/ Describes(piece, segment)

\* _below: a resolved pattern may name the directory or a place below it.
\* Mutant: "**" stands for one segment.
MutBelow(pattern, directory) ==
    /\ Len(pattern) >= Len(directory)
    /\ \A i \in DOMAIN directory : pattern[i] = "**" \/ Fits(directory[i], pattern[i])

Below(pattern, directory) ==
    LET open == {i \in DOMAIN pattern : pattern[i] = "**"}
        upto == IF open = {} THEN Len(directory) ELSE Min(open) - 1
    IN  /\ Len(pattern) >= Len(directory) \/ \E i \in open : i <= Len(directory)
        /\ \A i \in 1..Len(directory) : i <= upto => Fits(directory[i], pattern[i])

\* scope_reaches: asked where a session starts, before any call is made.
ScopeReaches(rule, facts, ctx) ==
    LET area == Area(rule.under, rule.notUnder, rule.roots, rule.base, facts, TRUE)
        here == MadeIn(facts)
    IN  \/ IsNowhere(area) \/ here = UnknownDir
        \/ /\ ~UnderAny(here, area.notUnder)
           /\ area.under # {} =>
                \E d \in area.under : IsUnder(here, d) \/ Below(d, here)
           /\ \/ area.roots = {}
              \/ \E root \in area.roots : Below(root, here)
              \/ Rooted(here, area, ctx) # "no"
=============================================================================
