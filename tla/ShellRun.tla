------------------------------ MODULE ShellRun ------------------------------
(***************************************************************************)
(* A Bash string is read (ShellGuards), the directories of its commands    *)
(* are worked out (Directories), and then a shell runs it: the judge of    *)
(* what was worked out.  The shell is Bash, not code of this repository.   *)
(* It runs the tokens one by one: a plain command or test fails or not, a  *)
(* loop goes round any number of times, and a move succeeds, which is what *)
(* the trackers take for granted.  A stage of a pipeline and a subshell    *)
(* run in a process of their own; the last stage may also run in the shell *)
(* itself (lastpipe).  A function is what was last defined under its name. *)
(*                                                                         *)
(* Before the string the shell may have been anywhere (Elsewhere): cd -    *)
(* and popd on an empty stack go there.                                    *)
(***************************************************************************)
EXTENDS Directories, FiniteSetsExt

CONSTANTS
    MaxDepth,       \* bound on the depth of directories and of the stack
    MaxCalls        \* bound on the processes and calls that are open

ASSUME ShellAssumption ==
    /\ Home \in Absolute /\ Start \notin Absolute /\ Vague \notin Absolute
    /\ MaxDepth \in Nat /\ MaxCalls \in Nat

VARIABLES
    facts,          \* what shell_facts says, once the string is read
    pc,             \* the token to run; 0 before
    ok,             \* $?: whether the last command succeeded
    shell,          \* the directory, $OLDPWD and the directory stack
    conts,          \* processes and calls that are open, the innermost last
    bodies          \* where the body of each function starts; 0: not defined

runVars == <<facts, pc, ok, shell, conts, bodies>>

Elsewhere == <<"elsewhere">>
FunctionsNamed == {"f", "g"}

RunInit ==
    /\ Init
    /\ facts = <<>>
    /\ pc = 0
    /\ ok = TRUE
    /\ shell = [current |-> Here, previous |-> Elsewhere, stack |-> <<>>]
    /\ conts = <<>>
    /\ bodies = [name \in FunctionsNamed |-> 0]

-----------------------------------------------------------------------------
\* The structure of the string.
T(p) == IF p \in DOMAIN tokens THEN tokens[p].t ELSE ""
Closers == {"fi", "done", "}", ")"}

\* The token that closes the compound command opened at p.
Match(p) ==
    CHOOSE q \in p + 1 .. Len(tokens) :
        /\ T(q) \in Closers
        /\ LET Count(set) == Cardinality({r \in p .. q : T(r) \in set})
           IN  Count(Openers) = Count(Closers)
        /\ \A r \in p .. q - 1 :
              Cardinality({s \in p .. r : T(s) \in Openers})
                > Cardinality({s \in p .. r : T(s) \in Closers})

\* The compound command that token p stands directly in.
Opener(p) == Max({q \in 1 .. p - 1 : T(q) \in Openers /\ Match(q) >= p})

\* The last token of the command that starts at p.
EndOf(p) == IF T(p) \in Openers THEN Match(p) ELSE p

RECURSIVE PipelineEnd(_)
PipelineEnd(p) ==
    IF T(EndOf(p) + 1) = "|" THEN PipelineEnd(EndOf(p) + 2) ELSE EndOf(p)

Staged(p) == T(p - 1) = "|" \/ T(EndOf(p) + 1) = "|"
LastStage(p) == T(EndOf(p) + 1) # "|"

\* Whether the command that starts at p runs in a process of its own.
Alone(p) == {alone \in BOOLEAN : IF Staged(p) THEN alone \/ LastStage(p) ELSE ~alone}

\* The number of the simple command at token p.
Number(p) == Cardinality({q \in 1 .. p : T(q) \in {"command", "eval", "sh"}})

-----------------------------------------------------------------------------
\* The directory and the stack as Bash moves them.
Resolved(target, base) == IF target \in Absolute THEN <<target>> ELSE Append(base, target)

Started(chain, dir) == FoldLeft(LAMBDA base, to : Resolved(to, base), dir, chain)

Moved(word, sh) ==
    LET Goes(dir, stack) == [current |-> dir, previous |-> sh.current, stack |-> stack]
        pushed == IF word.do = "pushd" THEN Append(sh.stack, sh.current) ELSE sh.stack
        bare == word.to = ""
    IN  CASE word.do = "popd" /\ sh.stack = <<>> -> {Goes(Elsewhere, <<>>)}
          [] word.do = "popd" -> {Goes(Last(sh.stack), Front(sh.stack))}
          [] word.do = "pushd" /\ bare /\ sh.stack = <<>> -> {sh}
          [] word.do = "pushd" /\ bare ->
               {Goes(Last(sh.stack), Append(Front(sh.stack), sh.current))}
          [] bare -> {Goes(<<Home>>, sh.stack)}
          [] word.to = "-" -> {Goes(sh.previous, pushed)}
          [] word.to = Vague -> {Goes(Elsewhere, pushed), Goes(sh.current, pushed)}
          [] OTHER -> {Goes(Resolved(word.to, sh.current), pushed)}

Shallow(sh) == Len(sh.current) <= MaxDepth /\ Len(sh.stack) <= MaxDepth

\* The innermost process or call ends with the command that closes it.
ClosesAt(q) == conts # <<>> /\ Last(conts).at = q

Runs == pc \in DOMAIN tokens

\* What is kept of it.
Told(f) == [directories |-> f.directories, bases |-> f.bases, crowded |-> f.crowded]

\* The string was read: shell_facts is asked about it.
Extract ==
    /\ Finished /\ pc = 0
    /\ facts' = Told(ShellFacts)
    /\ pc' = 1
    /\ UNCHANGED <<vars, ok, shell, conts, bodies>>

\* A plain command, or a test: it fails or not.
RunPlain ==
    /\ Runs
    /\ T(pc) = "test" \/ (T(pc) = "command" /\ tokens[pc].arg.do = "plain")
    /\ ok' \in BOOLEAN
    /\ pc' = pc + 1
    /\ UNCHANGED <<vars, facts, shell, conts, bodies>>

\* A move; in a process of its own it moves that process.
RunMove ==
    /\ Runs
    /\ T(pc) = "command" /\ tokens[pc].arg.do \in Movers
    /\ \E alone \in Alone(pc) :
          IF alone THEN UNCHANGED shell
          ELSE shell' \in Moved(tokens[pc].arg, shell)
    /\ Shallow(shell')
    /\ ok' = TRUE
    /\ pc' = pc + 1
    /\ UNCHANGED <<vars, facts, conts, bodies>>

\* A function is called; a name nobody defined is no command.
RunCall ==
    /\ Runs
    /\ T(pc) = "command" /\ tokens[pc].arg.do = "call"
    /\ LET body == bodies[tokens[pc].arg.to]
       IN  \/ /\ body = 0
              /\ ok' = FALSE
              /\ pc' = pc + 1
              /\ UNCHANGED conts
           \/ /\ body # 0
              /\ Len(conts) < MaxCalls
              /\ \E alone \in Alone(pc) :
                    conts' = Append(conts, [at |-> Match(body), to |-> pc + 1,
                                            alone |-> alone, shell |-> shell])
              /\ pc' = body + 1
              /\ UNCHANGED ok
    /\ UNCHANGED <<vars, facts, shell, bodies>>

\* An operator: the pipeline behind it runs, or is skipped.
RunOperator ==
    /\ Runs
    /\ T(pc) \in {";", "&&", "||", "|"}
    /\ pc' = IF (T(pc) = "&&" /\ ~ok) \/ (T(pc) = "||" /\ ok)
             THEN PipelineEnd(pc + 1) + 1 ELSE pc + 1
    /\ UNCHANGED <<vars, facts, ok, shell, conts, bodies>>

\* if, then, else, fi: one branch runs, or none.
RunIf ==
    /\ Runs
    /\ \/ /\ T(pc) \in {"if", "fi"}
          /\ pc' = pc + 1
          /\ UNCHANGED ok
       \/ /\ T(pc) = "then"
          /\ LET fi     == Match(Opener(pc))
                 others == {q \in pc .. fi : T(q) = "else" /\ Opener(q) = Opener(pc)}
             IN  pc' = IF ok THEN pc + 1 ELSE Min(others \cup {fi}) + 1
          /\ ok' = TRUE
       \/ /\ T(pc) = "else"
          /\ pc' = Match(Opener(pc))
          /\ UNCHANGED ok
    /\ UNCHANGED <<vars, facts, shell, conts, bodies>>

\* for, done: the body runs once more, or the loop is over.
RunFor ==
    /\ Runs
    /\ \/ /\ T(pc) = "for"
          /\ pc' \in {pc + 1, Match(pc) + 1}
       \/ /\ T(pc) = "done"
          /\ pc' = Opener(pc)
    /\ UNCHANGED <<vars, facts, ok, shell, conts, bodies>>

\* A function is defined.
RunDefine ==
    /\ Runs
    /\ T(pc) = "f{"
    /\ bodies' = [bodies EXCEPT ![tokens[pc].arg] = pc]
    /\ pc' = Match(pc) + 1
    /\ ok' = TRUE
    /\ UNCHANGED <<vars, facts, shell, conts>>

\* A group, a subshell, or a script that is run: by the shell itself, unless
\* it is a stage of a pipeline or has a process of its own.
RunOpen ==
    /\ Runs
    /\ T(pc) \in {"{", "(", "eval", "sh"}
    /\ \E alone \in Alone(pc) :
          IF alone \/ T(pc) \in {"(", "sh"}
          THEN /\ Len(conts) < MaxCalls
               /\ conts' = Append(conts, [at |-> Match(pc), to |-> Match(pc) + 1,
                                          alone |-> TRUE, shell |-> shell])
          ELSE UNCHANGED conts
    /\ shell' = IF T(pc) = "sh"
                THEN [shell EXCEPT !.stack = <<>>,
                                   !.current = Started(tokens[pc].arg, shell.current)]
                ELSE shell
    /\ Shallow(shell')
    /\ pc' = pc + 1
    /\ UNCHANGED <<vars, facts, ok, bodies>>

RunClose ==
    /\ Runs
    /\ T(pc) \in {"}", ")"}
    /\ IF ClosesAt(pc)
       THEN /\ pc' = Last(conts).to
            /\ shell' = IF Last(conts).alone THEN Last(conts).shell ELSE shell
            /\ conts' = Front(conts)
       ELSE pc' = pc + 1 /\ UNCHANGED <<shell, conts>>
    /\ UNCHANGED <<vars, facts, ok, bodies>>

\* The string is read first.
Reading == ~Finished /\ UNCHANGED runVars

RunNext ==
    \/ Reading /\ \E word \in profile.words : Command(word)
    \/ Reading /\ Test
    \/ Reading /\ \E operator \in {"&&", "||"} : Link(operator)
    \/ Reading /\ Pipe
    \/ Reading /\ End
    \/ Reading /\ \E tag \in {"if", "for", "{"} : Enter(tag)
    \/ Reading /\ \E name \in profile.functions : Define(name)
    \/ Reading /\ \E tag \in {"then", "else"} : Branch(tag)
    \/ Reading /\ Leave
    \/ Reading /\ Subshell
    \/ Reading /\ \E by \in {"eval", "sh"}, chain \in profile.chains : Script(by, chain)
    \/ Reading /\ Close
    \/ Reading /\ Finish
    \/ Extract \/ RunPlain \/ RunMove \/ RunCall \/ RunOperator
    \/ RunIf \/ RunFor \/ RunDefine \/ RunOpen \/ RunClose

RunSpec == RunInit /\ [][RunNext]_<<vars, runVars>>

-----------------------------------------------------------------------------
\* The simple command that is about to run, where it would run, and whether
\* it is written in the body of a function: those are judged where the
\* function is defined (docs/constraint-ledger.md names that as a limit).
AtCommand == pc > 0 /\ T(pc) \in {"command", "eval", "sh"}
Word == commands[Number(pc)].word
RunsIn == Started(Word.via, shell.current)
InBody == \E scope \in ToSet(scopes) :
             /\ scope.kind = "defined"
             /\ Number(pc) \in scope.low + 1 .. scope.high

Before(k, P(_)) == Cardinality({i \in 1 .. k - 1 : P(commands[i].word)})

\* Nothing in the string is up to what its commands do: each runs once, and
\* each move names its target, or one the string itself put there.
Certain ==
    /\ \A scope \in ToSet(scopes) : scope.kind \in {"own", "kept"}
    /\ \A token \in ToSet(tokens) : token.t # "|"
    /\ \A k \in DOMAIN commands :
          LET word == commands[k].word
          IN  /\ word.to # Vague
              /\ word.to = "-" => scopes = <<>> /\ Before(k, LAMBDA w : w.do \in Movers) > 0
              /\ word.do = "popd" =>
                    /\ scopes = <<>>
                    /\ Before(k, LAMBDA w : w.do = "pushd") > Before(k, LAMBDA w : w.do = "popd")

\* A directory the string does not name is unknown, never silently another
\* one: a command runs where the tracker says, or the tracker says that it
\* does not know; and it knows when nothing stands in the way.  That relates
\* every way the string can run to the one pass the tracker makes over it.
DirectorySound ==
    AtCommand /\ ~InBody =>
        facts.directories[Number(pc)] \in
            {RunsIn} \cup (IF Certain THEN {} ELSE {Unknown})

\* Moves that name their target, perhaps in a branch or behind an operator,
\* outside of loops, functions and pipelines.
Straight ==
    /\ \A token \in ToSet(tokens) : token.t \notin {"|", "for", "f{"}
    /\ \A command \in ToSet(commands) :
          /\ command.word.do # "popd"
          /\ command.word.to \notin {Vague, "-"}
          /\ command.word.via = <<>> \/ command.word.via[1] \in Absolute

PathsCover == ~facts.crowded => RunsIn \in facts.bases[Number(pc)]

\* After moves that may not have run a relative path is resolved both ways:
\* the directory the shell is in is one of those the paths of the command are
\* resolved against, unless the call is marked as not read in full.
PathsBothWays ==
    AtCommand /\ Straight /\ (\A scope \in ToSet(scopes) : scope.kind # "kept") =>
        PathsCover

\* The moves of a script given to eval stay in force after it, for relative
\* paths as well.
PathsAfterEval == AtCommand /\ Straight => PathsCover

\* The types; in particular every scope is a range of commands that were read,
\* and every one of them was given a directory.
TypeOK ==
    /\ profile \in Profiles
    /\ \A i \in DOMAIN scopes :
          /\ scopes[i].kind \in {"own", "kept", "maybe", "loop", "defined"}
          /\ scopes[i].low \in Nat /\ scopes[i].high \in scopes[i].low .. Len(commands)
    /\ pc > 0 => Len(facts.directories) = Len(commands)
    /\ pc \in 0 .. Len(tokens) + 1
    /\ ok \in BOOLEAN
    /\ Shallow(shell)
    /\ Len(conts) <= MaxCalls
    /\ \A name \in FunctionsNamed : bodies[name] = 0 \/ T(bodies[name]) = "f{"
=============================================================================
