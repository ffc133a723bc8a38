-------------------------------- MODULE Engine --------------------------------
(***************************************************************************)
(* evaluate of ember_armor/ledger/engine.py: the decision on one call.     *)
(*                                                                         *)
(* The rules are judged one after the other.  While that happens the disk  *)
(* and the audit log are somebody else's too: repositories appear and      *)
(* vanish, other calls of the session are logged, a lookup may fail and    *)
(* the log may be unreadable.  What a judgement asks of them is an action  *)
(* of its own: LookUp for the nearest repository of a directory (asked at  *)
(* most once), ReadHistory for the earlier calls (read at most once).      *)
(***************************************************************************)
EXTENDS Predicates

CONSTANTS
    Scenarios,      \* a call, the rules and exceptions in force, the
                    \* repositories and the log, and what may happen to them
    Unexceptable,   \* ids of rules that take no exception
    RepoName,       \* the directory that cloning a URL makes
    Now,            \* the time of the call
    MaxChanges      \* bound: what others do while the call is judged

NoCondition == <<>>

\* The paths of a call are made of words.
Spoken(facts) ==
    /\ facts.cwd \in Seq(Words)
    /\ \A x \in facts.commands \cup facts.paths : x.cwd \in Seq(Words) \cup {UnknownDir}
    /\ \A p \in facts.paths : p.path \in Seq(Words)

\* Each rule has an id of its own, predicates are trees, and paths are made
\* of words.
ASSUME EngineAssumption ==
    \A s \in Scenarios :
        /\ Len(s.rules) \in Nat /\ DOMAIN s.rules = 1..Len(s.rules)
        /\ \A i \in DOMAIN s.rules : IsTree(s.rules[i].pred)
        /\ \A i, j \in DOMAIN s.rules : s.rules[i].id = s.rules[j].id => i = j
        /\ \A i \in DOMAIN s.rules :
              \A words \in {s.rules[i].base} \cup s.rules[i].under
                             \cup s.rules[i].notUnder \cup s.rules[i].roots : IsWritten(words)
        /\ DOMAIN s.exceptions \subseteq Nat
        /\ \A i \in DOMAIN s.exceptions :
              s.exceptions[i].when = NoCondition \/ IsTree(s.exceptions[i].when)
        /\ IsWritten(s.call.given)
        /\ {s.call.start, s.call.target, s.call.glob} \subseteq Seq(Words)
        /\ \A directory \in s.places \cup s.repositories : IsDirectory(directory)
        /\ \A i \in DOMAIN s.call.commands :
              /\ s.call.commands[i].move \in Seq(Words)
              /\ \A operand \in s.call.commands[i].operands : operand.words \in Seq(Words)
        /\ \A i \in DOMAIN s.log : Spoken(s.log[i].facts)
        /\ \A value \in s.values : value \in Seq(Words) /\ value # <<>>
                                    /\ Head(value) \notin DOMAIN RootOf

VARIABLES
    scenario,       \* the call, the rules and the exceptions in force
    proposed,       \* the facts of the call
    repositories,   \* directories that hold a .git entry
    logged,         \* the earlier calls in the audit log
    changes,        \* what others did so far
    todo,           \* the places of the rules that are not judged yet
    asking,         \* what the judgement of the first of them waits for
    found,          \* _Roots.found: the answers of the lookup
    seen,           \* finder: the levels that the lookup has asked about
    past,           \* _Session.calls
    fired, excepted, failures, possible, errors,    \* of the rules so far
    decision        \* what evaluate returned, or Undecided

environment == <<scenario, proposed, repositories, logged, changes>>
outcome == <<fired, excepted, failures, possible>>
vars == <<environment, todo, asking, found, seen, past, outcome, errors, decision>>

Undecided == [effect |-> "undecided"]
Idle == [of |-> "idle", at |-> <<>>]
Ready == [of |-> "nothing", at |-> <<>>]
Severity == [none |-> 0, warn |-> 1, ask |-> 2, deny |-> 3]

-----------------------------------------------------------------------------
\* _created_repositories: git init, git clone and git worktree add.
GitWords(argv) == Operands(argv, OptionsOf("git"))
WorktreeWords(argv) == Operands(argv, OptionsOf("git") \cup OptionsOf("git worktree add"))

Target(argv) ==
    LET words == GitWords(argv)
        nth(seq, n) == IF Len(seq) >= n THEN {seq[n]} ELSE {}
        clone == IF Len(words) = 2 THEN {RepoName[words[2]]} ELSE nth(words, 3)
        add == IF nth(words, 2) = {"add"} THEN nth(WorktreeWords(argv), 3) ELSE {}
    IN  IF words = <<>> THEN {}
        ELSE CASE words[1] = "init" -> IF Len(words) > 1 THEN {words[2]} ELSE {"."}
               [] words[1] = "clone" -> clone
               [] words[1] = "worktree" -> add
               [] OTHER -> {}

CreatedRepositories(facts) ==
    UNION {{Resolved(<<target>>, IF c.cwd = HereDir THEN facts.cwd ELSE c.cwd) :
                target \in {t \in Target(c.argv) : ~Open(t) /\ t \notin DOMAIN Wild}} :
           c \in {d \in facts.commands :
                    d.argv # <<>> /\ d.argv[1] = "git" /\ d.cwd # UnknownDir}}

-----------------------------------------------------------------------------
\* What a rule is judged on and with.  The rule for unknown directories is
\* judged after the others, with an unknown directory read as the call's.
AtHome(facts) ==
    LET home(fact) == IF fact.cwd = UnknownDir THEN [fact EXCEPT !.cwd = HereDir] ELSE fact
    IN  [facts EXCEPT !.commands = {home(c) : c \in facts.commands},
                      !.paths = {home(p) : p \in facts.paths}]

Deferred(rule) == rule.pred[1].kind = "unknown"
Judged(rule) == IF Deferred(rule) THEN AtHome(proposed) ELSE proposed

AreaOf(rule, facts) ==
    Area(rule.under, rule.notUnder, rule.roots, rule.base, facts, TRUE)

Context(rule, answers, calls) ==
    [base |-> rule.base, past |-> calls, now |-> Now,
     created |-> CreatedRepositories(proposed), found |-> answers,
     area |-> AreaOf(rule, Judged(rule)),
     possible |-> IF Deferred(rule) THEN possible ELSE {}]

ForTool(tools, facts) == tools = {} \/ facts.tool \in tools

\* judge: an obligation fires when its predicate is false.
FiresOn(rule, view, ctx) == Holds(rule.pred, view, ctx) # rule.obligation

-----------------------------------------------------------------------------
\* _excepted.  The exceptions that may apply to a rule, with their places;
\* a place that is a whole file system is no place.
RootDirectory(directory) ==
    \A i \in DOMAIN directory : IsRoot(directory[i]) \/ directory[i] \in {"*", "**"}

Zone(exception, facts) ==
    [area |-> Area(exception.under, {}, exception.roots, <<"nowhere">>, facts, FALSE),
     when |-> exception.when, tools |-> exception.tools, rules |-> exception.rules]

Zones(exceptions, rule, facts) ==
    LET applies(zone) ==
            /\ rule.id \notin Unexceptable
            /\ rule.id \in zone.rules
            /\ ForTool(zone.tools, facts)
            /\ ~\E d \in zone.area.under : RootDirectory(d)
        places == {i \in DOMAIN exceptions : applies(Zone(exceptions[i], facts))}
    IN  [i \in places |-> Zone(exceptions[i], facts)]

\* An exception's condition is judged without the rule's base and scope.
Inner(ctx) == [ctx EXCEPT !.base = NoBase, !.area = NoArea]
ConditionHolds(zone, alone, ctx) ==
    zone.when = NoCondition \/ Holds(zone.when, alone, Inner(ctx))

Applies(zone, deed, ctx) ==
    /\ IsNowhere(zone.area) \/ Inside(deed.at, deed.where, zone.area, ctx) = "yes"
    /\ ConditionHolds(zone, deed.alone, ctx)

\* covering: the place of the first exception that covers the deed.
Covering(zones, deed, ctx) ==
    UNION {IF covers = {} THEN {} ELSE {zones[Min(covers)].area} :
              covers \in {{k \in DOMAIN zones : Applies(zones[k], deed, ctx)}}}

Alone(command, facts) ==
    [facts EXCEPT !.commands = {command},
                  !.paths = {p \in facts.paths : p.source = command.index}]

\* _beside: the path does not lie in the place an exception names.
Beside(fact, zone, ctx) ==
    \/ IsOpen(fact.path)
    \/ zone.under # {} /\ ~UnderAny(fact.path, zone.under)
    \/ zone.roots # {} /\ Rooted(fact.path, zone, ctx) # "yes"

\* One judgement: the rule, the facts it is judged on, what it sees of them
\* and what it may not see, and the exceptions that may apply to it.
Judgement(rule, facts, ctx) ==
    [rule |-> rule, facts |-> facts, ctx |-> ctx,
     zones |-> Zones(scenario.exceptions, rule, facts),
     sure |-> View(facts, ctx.area, ctx, "yes"),
     unsure |-> View(facts, ctx.area, ctx, "unsure")]

Fires(j) == \E view \in j.sure : FiresOn(j.rule, view, j.ctx)

\* What is done by itself, with the directory it is done in and the place
\* that is asked about: a command, a path of a file tool, or the call.
DeedOf(command, facts) ==
    [at |-> Here(command, facts), where |-> Here(command, facts),
     alone |-> Alone(command, facts)]
DeedOn(fact, facts) ==
    [at |-> MadeIn(facts), where |-> fact.path, alone |-> [facts EXCEPT !.paths = {fact}]]
DeedOfCall(facts) == [at |-> MadeIn(facts), where |-> MadeIn(facts), alone |-> facts]

Deeds(facts, view) ==
    IF facts.commands # {} THEN {DeedOf(c, facts) : c \in view.commands}
    ELSE IF view.paths # {} THEN {DeedOn(p, facts) : p \in view.paths}
    ELSE {DeedOfCall(facts)}

\* stays: a path of a covered command that no exception reaches.
\* Mutant: a covered command takes all its paths away.
MutStays(fact, zone, j) == FALSE

Stays(fact, zone, j) ==
    /\ ~IsNowhere(zone) /\ ReadsPaths(j.rule.pred)
    /\ \/ Inside(Here(fact, j.facts), Here(fact, j.facts), zone, j.ctx) # "yes"
       \/ Beside(fact, zone, j.ctx)

\* What is left of a shell call: commands that nothing covers, and covered
\* ones with the paths that stay.  `covers` are the places for each command.
LeftGiven(covers, j, view) ==
    LET staying(p) ==
            \A c \in {d \in DOMAIN covers : d.index = p.source /\ covers[d] # {}} :
                \E zone \in covers[c] : Stays(p, zone, j)
    IN  {[gone |-> {c \in DOMAIN covers : covers[c] # {}},
          commands |-> {c \in DOMAIN covers :
                          covers[c] = {} \/ \E p \in paths : p.source = c.index},
          paths |-> paths] : paths \in {{p \in view.paths : staying(p)}}}

LeftOfCommands(j, view) ==
    UNION {LeftGiven(covers, j, view) :
              covers \in {[c \in view.commands |->
                              Covering(j.zones, DeedOf(c, j.facts), j.ctx)]}}

\* Of a call without commands: the paths that nothing covers.
LeftOfPaths(j, view) ==
    LET remains(p, covers) ==
            \/ covers = {}
            \/ \E zone \in covers : /\ ReadsPaths(j.rule.pred) /\ ~IsNowhere(zone)
                                    /\ Beside(p, zone, j.ctx)
        covering(p) == {Covering(j.zones, DeedOn(p, j.facts), j.ctx)}
    IN  {[gone |-> view.paths \ paths, commands |-> {}, paths |-> paths] :
            paths \in {{p \in view.paths : \E covers \in covering(p) : remains(p, covers)}}}

Left(j, view) ==
    IF j.facts.commands # {} THEN LeftOfCommands(j, view)
    ELSE IF view.paths # {} THEN LeftOfPaths(j, view)
    ELSE {[gone |-> Covering(j.zones, DeedOfCall(j.facts), j.ctx),
           commands |-> {}, paths |-> {}]}

Rest(j, left) == [j.facts EXCEPT !.commands = left.commands, !.paths = left.paths]

\* The rule is dropped when it does not fire on what is left.
IsExcepted(j, view) ==
    \E left \in Left(j, view) :
        /\ left.gone # {}
        /\ left.commands \cup left.paths # {} => ~FiresOn(j.rule, Rest(j, left), j.ctx)

-----------------------------------------------------------------------------
\* What judging a rule asks next, with the answers it has.  _view asks for
\* the places of a call; the history is read when nothing else decides, and
\* then _view asks for the places of the earlier calls; last the exceptions.
Wanted(directories, ctx) ==
    {d \in directories : Asks(d, ctx.created, ctx.found)}

ViewAsks(facts, area, ctx) ==
    LET here == MadeIn(facts)
        asked(d) == d # UnknownDir /\ Placed(d, area)
    IN  IF area.roots = {} THEN {}
        ELSE IF facts.commands # {}
        THEN Wanted({d \in {Here(x, facts) : x \in facts.commands \cup facts.paths} :
                        asked(d)}, ctx)
        ELSE IF ~asked(here) /\ (here # UnknownDir \/ area.under \cup area.notUnder # {})
        THEN {}
        ELSE IF facts.paths = {} THEN Wanted({here}, ctx)
        ELSE Wanted({p.path : p \in facts.paths}, ctx)

\* Whether the predicate comes to need the history, in or out of sight.
RuleConsults(j) ==
    \/ \E view \in j.sure : Consults(j.rule.pred, view, j.ctx)
    \/ ~Fires(j) /\ \E view \in j.unsure : Consults(j.rule.pred, view, j.ctx)

PastAsks(ctx) ==
    UNION {UNION {ViewAsks(calls[i].facts, ctx.area, ctx) : i \in DOMAIN calls} :
           calls \in ctx.past}

\* covering asks for a place when no exception before that one covers it.
CoveringAsks(zones, deed, ctx) ==
    LET settled(k) == zones[k].area.roots = {} /\ Applies(zones[k], deed, ctx)
        unsettled(k) == /\ zones[k].area.roots # {}
                        /\ deed.at # UnknownDir /\ Placed(deed.at, zones[k].area)
                        /\ ~\E l \in DOMAIN zones : l < k /\ settled(l)
    IN  IF \E k \in DOMAIN zones : unsettled(k) THEN Wanted({deed.where}, ctx) ELSE {}

\* A condition of an exception asks for the earlier calls.
ExceptionConsults(j, deeds) ==
    \E k \in DOMAIN j.zones, d \in deeds :
        j.zones[k].when # NoCondition /\ Consults(j.zones[k].when, d.alone, Inner(j.ctx))

\* The paths of the commands that an exception covers are asked about last.
StaysAsks(fact, there, zone, ctx) ==
    IF zone.roots = {} \/ there = UnknownDir \/ ~Placed(there, zone) THEN {}
    ELSE IF Wanted({there}, ctx) # {} THEN {there}
    ELSE IF Rooted(there, zone, ctx) # "yes" THEN {}
    ELSE IF zone.under # {} /\ ~UnderAny(fact.path, zone.under) THEN {}
    ELSE Wanted({fact.path}, ctx)

PathAsks(j, view, deeds) ==
    IF j.facts.commands = {} \/ ~ReadsPaths(j.rule.pred) THEN {}
    ELSE UNION {UNION {UNION {StaysAsks(p, Here(p, j.facts), zone, j.ctx) :
                                 p \in d.alone.paths \cap view.paths} :
                          zone \in Covering(j.zones, d, j.ctx)} : d \in deeds}

\* The rule may ask for the earlier calls on what is left, as it did not
\* have to on its view.
LeftConsults(j, view) ==
    \E left \in Left(j, view) :
        /\ left.gone # {} /\ left.commands \cup left.paths # {}
        /\ Consults(j.rule.pred, Rest(j, left), j.ctx)

RootsOf(directories) == {[of |-> "root", at |-> d] : d \in directories}
CallsFor(who) == {[of |-> who, at |-> <<>>]}

\* Of a rule that fires on its view: what its exceptions ask.
LastAsks(j, view) ==
    IF ~LeftConsults(j, view) THEN {}
    ELSE IF j.ctx.past = NotRead THEN CallsFor("exception")
    ELSE RootsOf(PastAsks(j.ctx))

AsksOfExceptions(j, view, deeds) ==
    UNION {IF places # {} THEN RootsOf(places)
           ELSE IF j.ctx.past = NotRead /\ ExceptionConsults(j, deeds)
           THEN CallsFor("exception")
           ELSE UNION {IF paths # {} THEN RootsOf(paths) ELSE LastAsks(j, view) :
                          paths \in {PathAsks(j, view, deeds)}} :
              places \in {UNION {CoveringAsks(j.zones, d, j.ctx) : d \in deeds}}}

\* Of a rule whose view is known.
AsksOfRule(j, consults) ==
    IF consults /\ j.ctx.past = NotRead THEN CallsFor("rule")
    ELSE IF consults /\ PastAsks(j.ctx) # {} THEN RootsOf(PastAsks(j.ctx))
    ELSE IF j.zones = <<>> THEN {}
    ELSE UNION {UNION {AsksOfExceptions(j, view, deeds) : deeds \in {Deeds(j.facts, view)}} :
                   view \in {v \in j.sure : FiresOn(j.rule, v, j.ctx)}}

NextAsks(rule, facts, ctx) ==
    UNION {IF ForTool(rule.tools, facts) /\ places # {} THEN RootsOf(places)
           ELSE IF ~ForTool(rule.tools, facts) THEN {}
           ELSE UNION {AsksOfRule(j, RuleConsults([j EXCEPT !.ctx.past = NotRead])) :
                          j \in {Judgement(rule, facts, ctx)}} :
              places \in {ViewAsks(facts, ctx.area, ctx)}}

-----------------------------------------------------------------------------
\* The rules are judged in order, those for unknown directories last.
Before(i, j) ==
    LET last(k) == Deferred(scenario.rules[k])
    IN  IF last(i) = last(j) THEN i < j ELSE last(j)

Turn == CHOOSE i \in todo : \A j \in todo \ {i} : Before(i, j)
RuleAtTurn == scenario.rules[Turn]

Init ==
    /\ scenario \in Scenarios
    /\ proposed = Extract(scenario.call)
    /\ repositories = scenario.repositories /\ logged = scenario.log
    /\ changes = 0
    /\ todo = DOMAIN scenario.rules
    /\ asking = Idle
    /\ found = <<>> /\ seen = <<>> /\ past = NotRead
    /\ fired = {} /\ excepted = {} /\ failures = {} /\ possible = {} /\ errors = {}
    /\ decision = Undecided

\* The judgement of a rule goes on until it has to ask for something, or has
\* everything that it needs.
Proceed ==
    /\ todo # {} /\ asking = Idle
    /\ \E rule \in {RuleAtTurn} :
       \E facts \in {Judged(rule)}, ctx \in {Context(rule, found, past)} :
       \E asks \in {NextAsks(rule, facts, ctx)} :
           IF asks = {} THEN asking' = Ready ELSE asking' \in asks
    /\ UNCHANGED <<environment, todo, found, seen, past, outcome, errors, decision>>

\* The answers, with the one for some directories.
Learnt(answers, directories, root) ==
    [d \in DOMAIN answers \cup directories |-> IF d \in directories THEN root ELSE answers[d]]

\* _Roots.root and finder: the answer, and every level the walk passed.
LookUp ==
    /\ asking.of = "root" /\ asking' = Idle
    /\ LET root == FindRoot(asking.at, repositories, seen)
       IN  /\ found' = Learnt(found, {asking.at}, root)
           /\ seen' = Learnt(seen, Passed(asking.at, repositories, seen), root)
    /\ UNCHANGED <<environment, todo, past, outcome, errors, decision>>

\* The lookup raises: recorded once, and the answer is that nobody knows.
LookUpFails ==
    /\ asking.of = "root" /\ asking' = Idle
    /\ changes < MaxChanges /\ changes' = changes + 1
    /\ found' = Learnt(found, {asking.at}, UnknownDir)
    /\ errors' = errors \cup {asking.at}
    /\ UNCHANGED <<scenario, proposed, repositories, logged, todo, seen, past, outcome,
                   decision>>

\* _Session.earlier.
ReadHistory ==
    /\ asking.of \in {"rule", "exception"} /\ asking' = Idle
    /\ past' = {logged}
    /\ UNCHANGED <<environment, todo, found, seen, outcome, errors, decision>>

\* The log cannot be read: the rule fails and does not fire.
\* Mutant: the rules behind it are not judged either.
MutRuleFails ==
    /\ asking.of = "rule" /\ asking' = Idle
    /\ failures' = failures \cup {RuleAtTurn.id}
    /\ todo' = {}
    /\ changes < MaxChanges /\ changes' = changes + 1
    /\ UNCHANGED <<scenario, proposed, repositories, logged, found, seen, past, fired,
                   excepted, possible, errors, decision>>

RuleFails ==
    /\ asking.of = "rule" /\ asking' = Idle
    /\ failures' = failures \cup {RuleAtTurn.id}
    /\ todo' = todo \ {Turn}
    /\ changes < MaxChanges /\ changes' = changes + 1
    /\ UNCHANGED <<scenario, proposed, repositories, logged, found, seen, past, fired,
                   excepted, possible, errors, decision>>

\* It cannot be read for an exception: that drops nothing.
ExceptionFails ==
    /\ asking.of = "exception" /\ asking' = Idle
    /\ failures' = failures \cup {RuleAtTurn.id}
    /\ fired' = fired \cup {RuleAtTurn.id}
    /\ todo' = todo \ {Turn}
    /\ changes < MaxChanges /\ changes' = changes + 1
    /\ UNCHANGED <<scenario, proposed, repositories, logged, found, seen, past, excepted,
                   possible, errors, decision>>

\* judge, with everything answered: fired, dropped, possible or neither.
Verdict(j) ==
    IF ~ForTool(j.rule.tools, j.facts) THEN "quiet"
    ELSE IF Fires(j)
    THEN IF j.zones # <<>> /\ \E view \in j.sure : IsExcepted(j, view)
         THEN "excepted" ELSE "fired"
    ELSE IF \E view \in j.unsure : FiresOn(j.rule, view, j.ctx) THEN "possible"
    ELSE "quiet"

Concludes(rule) ==
    \E facts \in {Judged(rule)}, ctx \in {Context(rule, found, past)} :
    \E j \in {Judgement(rule, facts, ctx)} :
    \E verdict \in {Verdict(j)} :
        LET with(ids, kind) == IF verdict = kind THEN ids \cup {rule.id} ELSE ids
        IN  /\ fired' = with(fired, "fired")
            /\ excepted' = with(excepted, "excepted")
            /\ possible' = with(possible, "possible")

\* Mutant: what was looked up and read is forgotten with the rule.
MutJudge ==
    /\ asking = Ready /\ asking' = Idle
    /\ Concludes(RuleAtTurn)
    /\ todo' = todo \ {Turn} /\ found' = <<>> /\ seen' = <<>> /\ past' = NotRead
    /\ UNCHANGED <<environment, failures, errors, decision>>

Judge ==
    /\ asking = Ready /\ asking' = Idle
    /\ Concludes(RuleAtTurn)
    /\ todo' = todo \ {Turn}
    /\ UNCHANGED <<environment, found, seen, past, failures, errors, decision>>

\* The most restrictive effect of the rules that fired.
RuleOf(id) == CHOOSE r \in ToSet(scenario.rules) : r.id = id
Strongest(ids) ==
    LET rank(e) == Severity[e]
        effects == {"none"} \cup {RuleOf(id).effect : id \in ids}
    IN  CHOOSE e \in effects : \A f \in effects : rank(f) <= rank(e)

\* _unjudged: the words of a project rule are not said.
SaidOf(id) == IF RuleOf(id).origin = "project" THEN "a project rule" ELSE id

Decide ==
    /\ todo = {} /\ decision = Undecided
    /\ decision' = [effect |-> Strongest(fired), fired |-> fired, excepted |-> excepted,
                    possible |-> possible, error |-> errors \cup {<<id>> : id \in failures},
                    said |-> {SaidOf(id) : id \in failures}]
    /\ UNCHANGED <<environment, todo, asking, found, seen, past, outcome, errors>>

\* Meanwhile: somebody makes or removes a repository; another call of the
\* session is logged.
DiskChanges ==
    /\ decision = Undecided
    /\ changes < MaxChanges /\ changes' = changes + 1
    /\ \E d \in scenario.disk :
           repositories' = IF d \in repositories THEN repositories \ {d}
                           ELSE repositories \cup {d}
    /\ UNCHANGED <<scenario, proposed, logged, todo, asking, found, seen, past, outcome, errors, decision>>

CallIsLogged ==
    /\ decision = Undecided
    /\ changes < MaxChanges /\ changes' = changes + 1
    /\ \E call \in scenario.others : logged' = Append(logged, call)
    /\ UNCHANGED <<scenario, proposed, repositories, todo, asking, found, seen, past, outcome, errors, decision>>

Done == decision # Undecided /\ UNCHANGED vars

Next ==
    \/ Proceed \/ LookUp \/ LookUpFails \/ ReadHistory \/ RuleFails \/ ExceptionFails
    \/ Judge \/ Decide \/ DiskChanges \/ CallIsLogged
    \/ Done

Spec == Init /\ [][Next]_vars

-----------------------------------------------------------------------------
Decided == decision # Undecided
Rules == ToSet(scenario.rules)

\* A rule that bans one thing, wherever else it stands.  (A path that is
\* spared beside a sibling is not one: it depends on the other paths.)
Positive(rule) ==
    /\ Len(rule.pred) = 1 /\ ~rule.obligation
    /\ rule.pred[1].kind = "path" => DOMAIN rule.pred[1].spared = {}

(***************************************************************************)
(* An exception lifts no more than it names: of a rule that it dropped,    *)
(* everything the rule fires on by itself - a command with its paths, a    *)
(* path of a file tool, or the call - is what some exception covers, in a  *)
(* place that is known, and every path it fires on lies there (_excepted;  *)
(* docs/constraint-ledger.md, "Exceptions").                               *)
(***************************************************************************)
Names(zone, rule, deed, one, ctx) ==
    /\ IsNowhere(zone.area) \/ (deed.at # UnknownDir /\ Placed(deed.at, zone.area))
    /\ ConditionHolds(zone, deed.alone, ctx)
    /\ rule.pred[1].kind = "path" /\ ~IsNowhere(zone.area) =>
         \A p \in one.paths :
             FiresOn(rule, [one EXCEPT !.paths = {p}], ctx)
                 => ~IsOpen(p.path) /\ Placed(p.path, zone.area)

SomeNames(zones, rule, deed, one, ctx) ==
    \E k \in DOMAIN zones : Names(zones[k], rule, deed, one, ctx)

LiftsNoMore(rule, facts, ctx) ==
    \A view \in View(facts, ctx.area, ctx, "yes") : \A deed \in Deeds(facts, view) :
    \A one \in {[deed.alone EXCEPT !.paths = @ \cap view.paths]} :
        FiresOn(rule, one, ctx) =>
            SomeNames(Zones(scenario.exceptions, rule, facts), rule, deed, one, ctx)

LiftsOnlyCovered ==
    Decided =>
        \A rule \in {r \in Rules : r.id \in excepted /\ Positive(r)} :
            LiftsNoMore(rule, Judged(rule), Context(rule, found, past))

(***************************************************************************)
(* A command in a directory that is not known passes no scoped rule by: a  *)
(* rule that would fire on such commands fires, or is named as possible,   *)
(* and then a ban of unknown directories that is in force everywhere       *)
(* fires or is excepted itself (judge, _view, UnknownDirectoryPred).  All  *)
(* that may lie in a rule's scope is judged together: where it holds more  *)
(* than unknown directories, the rule has to be one that bans one thing.   *)
(***************************************************************************)
OutOfSight(facts) ==
    Part(facts, {c \in facts.commands : Here(c, facts) = UnknownDir},
                {p \in facts.paths : facts.commands # {} /\ Here(p, facts) = UnknownDir})

AllElsePlaced(area, ctx) ==
    \A x \in {y \in proposed.commands \cup proposed.paths : Here(y, proposed) # UnknownDir} :
        Inside(Here(x, proposed), Here(x, proposed), area, ctx) # "unsure"

WouldFire(rule) ==
    /\ ~IsNowhere(AreaOf(rule, proposed)) /\ ~Deferred(rule)
    /\ rule.id \notin failures /\ ForTool(rule.tools, proposed)
    /\ \E unseen \in OutOfSight(proposed), ctx \in {Context(rule, found, past)} :
           FiresOn(rule, unseen, ctx) /\ (Positive(rule) \/ AllElsePlaced(ctx.area, ctx))

BansUnknown(rule) ==
    /\ Deferred(rule) /\ rule.obligation = FALSE /\ ForTool(rule.tools, proposed)
    /\ rule.under = {} /\ rule.notUnder = {} /\ rule.roots = {}

SaidOfUnknown(rule) ==
    \/ rule.id \in fired
    \/ /\ rule.id \in possible
       /\ \A r \in Rules : BansUnknown(r) => r.id \in fired \cup excepted

UnknownIsSaid == Decided => \A rule \in Rules : WouldFire(rule) => SaidOfUnknown(rule)

\* The same, but for a rule that an exception dropped where it did fire.
UnknownIsSaidUnlessExcepted ==
    Decided => \A rule \in Rules :
        WouldFire(rule) => SaidOfUnknown(rule) \/ rule.id \in excepted

(***************************************************************************)
(* All rules are judged in one world: two that say the same agree, though  *)
(* repositories come and go and calls are logged between the judgement of  *)
(* the one and of the other (_Roots, _Session: asked at most once).  Two   *)
(* rules about unknown directories agree when none of them is an           *)
(* obligation: one that applies to a call of unknown place adds to the     *)
(* rules that might apply, which the next one is asked about.              *)
(***************************************************************************)
SameRule(r, q) ==
    \A field \in {"pred", "obligation", "tools", "under", "notUnder", "roots", "base"} :
        r[field] = q[field]

UnknownIsBan == \A rule \in Rules : Deferred(rule) => rule.obligation = FALSE

RulesAgree ==
    Decided =>
        \A r, q \in {x \in Rules : x.id \notin failures} :
            SameRule(r, q) /\ (Deferred(r) => UnknownIsBan) =>
                /\ r.id \in fired \cup excepted <=> q.id \in fired \cup excepted
                /\ r.id \in possible <=> q.id \in possible

(***************************************************************************)
(* A rule that cannot be judged takes no other with it: one that needs     *)
(* neither the disk nor the log fires exactly when it holds for the call,  *)
(* whatever failed before it (judge: "each rule is judged on its own").    *)
(***************************************************************************)
FailuresStayLocal ==
    Decided =>
        \A rule \in Rules :
            /\ rule.roots = {} /\ ~Deferred(rule)
            /\ ~Mentions(rule.pred, History)[1]
            => \A ctx \in {Context(rule, <<>>, NotRead)} :
               \A j \in {Judgement(rule, proposed, ctx)} :
                   rule.id \in fired \cup excepted
                       <=> ForTool(rule.tools, proposed) /\ Fires(j)

(***************************************************************************)
(* What is announced covers what is judged: a rule that sees something of  *)
(* a call made in a directory is one that scope_reaches names for that     *)
(* directory and for every directory above it, when a session starts there *)
(* (scope_reaches, which announce asks, against _view, which judges).  The *)
(* scope has to be one place for both: patterns without a base are read    *)
(* from where they are asked about.                                        *)
(***************************************************************************)
StartsIn(directory) ==
    [proposed EXCEPT !.cwd = directory, !.located = TRUE, !.commands = {}, !.paths = {}]

Lookups == [d \in scenario.places |-> FindRoot(d, repositories, <<>>)]

ReachesInScope ==
    \A rule \in Rules :
    \A ctx \in {[Context(rule, Lookups, NotRead) EXCEPT !.created = {}]} :
        LET within(directory) ==
                {c \in proposed.commands :
                    /\ Here(c, proposed) \in scenario.places
                    /\ directory \in Ancestors(Here(c, proposed))
                    /\ Inside(Here(c, proposed), Here(c, proposed), ctx.area, ctx) = "yes"}
        IN  \A directory \in scenario.places :
                within(directory) # {} /\ AreaOf(rule, StartsIn(directory)) = ctx.area
                    => ScopeReaches(rule, StartsIn(directory), ctx)

(***************************************************************************)
(* A variable that is not resolved is never reasoned away: setting it to   *)
(* any relative path before or after the path is normalised names the same *)
(* place, so ".." behind it takes nothing else away (normalize).           *)
(***************************************************************************)
SetTo(words, value) ==
    FlattenSeq([i \in DOMAIN words |-> IF words[i] \in Unset THEN value ELSE <<words[i]>>])

NamesOne(text, cwd, value) ==
    LET set(path) == SetTo(path, value)
    IN  Resolve(set(Resolve(text, cwd)), cwd) = Resolve(set(text), set(cwd))

UnresolvedSafe ==
    LET operands == UNION {scenario.call.commands[i].operands : i \in DOMAIN scenario.call.commands}
    IN  \A operand \in operands, value \in scenario.values :
            NamesOne(Written(operand.words, Variables, Home), proposed.cwd, value)
=============================================================================
