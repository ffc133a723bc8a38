-------------------------------- MODULE Implies --------------------------------
(***************************************************************************)
(* When one path pattern, command predicate or path predicate certainly    *)
(* implies another (ember_armor/ledger/implies.py), on predicates as       *)
(* Predicates has them.  The answer is no whenever it is not certain.      *)
(***************************************************************************)
EXTENDS Predicates

\* Roots of paths in directories that lint cannot know.
CwdRoot == "?cwd"
VarRoot == "?var"
ASSUME ImpliesAssumption == CwdRoot \in Words
Incomparable == <<>>

OfUnknownRoot(path) == Len(path) > 1 /\ path[2] \in {CwdRoot, VarRoot}

\* resolved: a pattern in comparable form, with a root of its own when it is
\* relative to the directory of each call or uses a variable; then the base
\* is part of that root.
Comparable(words, base, bare) ==
    LET from == IF base = NoBase THEN <<"/", CwdRoot>> ELSE base
        climbs == \E i \in DOMAIN words : words[i] = ".."
        uses(i) == Open(words[i]) \/ (i = 1 /\ words[i] = "~")
    IN  IF climbs THEN Incomparable
        ELSE IF \E i \in DOMAIN words : uses(i)
        THEN <<"/", VarRoot, ToString(base)>> \o words
        ELSE ResolvePattern(words, from, bare)

\* directory_inside.
Literal(path) == \A i \in DOMAIN path : path[i] \notin DOMAIN Wild \cup {"*", "**"}

DirectoryInside(inner, outer) ==
    LET both == Anywhere(inner) /\ Anywhere(outer)
        names == IF both THEN Tail(inner) ELSE inner
    IN  /\ inner # Incomparable /\ outer # Incomparable
        /\ \/ inner = outer
           \/ /\ Literal(names)
              /\ IF OfUnknownRoot(names) /\ ~Anywhere(outer) /\ ~OfUnknownRoot(outer)
                 THEN outer = <<"/">>
                 ELSE IsUnder(names, outer)

-----------------------------------------------------------------------------
\* command_implies, for one shell.
CommandImplies(a, b) ==
    LET same == a.subcommand = b.subcommand
        narrower(mine, theirs) == theirs = {} \/ (mine # {} /\ mine \subseteq theirs)
    IN  /\ narrower(a.program, b.program)
        /\ IsPrefix(b.subcommand, a.subcommand)
        /\ narrower(a.any, b.any) \/ a.all \cap b.any # {}
        /\ \A flag \in b.all : flag \in a.all \/ a.any = {flag}
        /\ b.none \subseteq a.none
        /\ b.noArgs # {} => same /\ b.noArgs \subseteq a.noArgs
        /\ narrower(a.args, b.args)

\* The patterns of a path predicate in comparable form.
PatternsOf(pred, base) ==
    LET patterns(field, bare) == {Comparable(p, base, bare) : p \in field}
    IN  [places |-> [field \in {"under", "notUnder", "notWithin"} |->
                        patterns(pred[field], FALSE)],
         globs |-> [field \in {"glob", "notGlob"} |-> patterns(pred[field], TRUE)]]

\* That the paths of the one predicate lie where the other wants them, and
\* that it spares what the other spares.
InsideAny(inner, outers) == \E o \in outers : DirectoryInside(inner, o)
Equal(mine, theirs) == Incomparable \notin theirs /\ theirs \subseteq mine

LiesInside(ofA, ofB) ==
    \/ ofB.places["under"] = {}
    \/ \E group \in {ofA.places["under"], ofA.globs["glob"]} \ {{}} :
           \A p \in group : InsideAny(p, ofB.places["under"])

SparesAsMuch(ofA, ofB) ==
    /\ \A n \in ofB.places["notUnder"] : InsideAny(n, ofA.places["notUnder"])
    /\ \A n \in ofB.places["notWithin"] :
           /\ n # Incomparable
           /\ n \in ofA.places["notWithin"] \/ InsideAny(n, ofA.places["notUnder"])
    /\ Equal(ofA.globs["notGlob"], ofB.globs["notGlob"])

\* path_implies, with the bases of the two rules.
PathImplies(a, baseA, b, baseB) ==
    /\ b.op = "any" \/ a.op = b.op
    /\ b.recursive # {} => a.recursive = b.recursive
    /\ \A name \in DOMAIN b.spared :
           b.spared[name] \subseteq (IF name \in DOMAIN a.spared THEN a.spared[name] ELSE {})
    /\ \E ofA \in {PatternsOf(a, baseA)}, ofB \in {PatternsOf(b, baseB)} :
           /\ LiesInside(ofA, ofB)
           /\ SparesAsMuch(ofA, ofB)
           /\ b.glob = {} \/ (a.glob # {} /\ Equal(ofB.globs["glob"], ofA.globs["glob"]))
=============================================================================
