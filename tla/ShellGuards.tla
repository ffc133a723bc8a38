----------------------------- MODULE ShellGuards -----------------------------
(***************************************************************************)
(* How a Bash command string is read (ember_armor/ledger/shell/bash.py)    *)
(* and how Guards (shell/core.py) tells which of its commands may not run. *)
(*                                                                         *)
(* The string is built token by token.  Each action reads one token, does  *)
(* what the parser does with it and keeps it in `tokens`, which is what a  *)
(* shell runs.  What the reader leaves behind are `commands`, the simple   *)
(* commands in the order they are written, and `scopes`, ranges of them:   *)
(* those that run in a process of their own, in the shell itself (eval),   *)
(* perhaps not at all (maybe), any number of times (loop) or when called   *)
(* (defined).  A range is <<low, high>>: commands low + 1 to high.         *)
(*                                                                         *)
(* The `;` or newline in front of a reserved word that ends or continues a *)
(* compound command is read with it.  Only strings a shell accepts are     *)
(* built.  A word is what its command does to the directory, the name or  *)
(* directory it is given, and the directories a wrapper starts it in.      *)
(***************************************************************************)
EXTENDS Naturals, Sequences

CONSTANTS
    Profiles,   \* bounds on the strings: their words, operators and so on
    NoWord      \* no command feeds this one

VARIABLES
    profile,    \* the bounds of this string
    tokens,     \* the string so far
    commands,   \* ParseResult.commands
    scopes,     \* ParseResult.scopes, with guards, named, entered and kept
    lists       \* the lists being read, the innermost last

vars == <<profile, tokens, commands, scopes, lists>>

-----------------------------------------------------------------------------
Movers == {"cd", "pushd", "popd"}

Now  == Len(commands)
List == lists[Len(lists)]
Frame == List.frames[Len(List.frames)]

\* _Frame; its tag is the reserved word of the compound command read last.
Open(tag, kind, name) ==
    [tag |-> tag, kind |-> kind, name |-> name, low |-> Now, seen |-> Now,
     plain |-> FALSE, open |-> <<>>, endsOn |-> "", branch |-> <<>>]

\* _list and _commands of one list: `feed` is the command that feeds the next
\* one over a pipe, `turn` whether a command is due and which kinds are.
NewList(by, chain) ==
    [by |-> by, chain |-> chain, low |-> Now, feed |-> NoWord,
     turn |-> "command", frames |-> <<Open("", "", "")>>]

Scope(low, kind, name, chain) ==
    [low |-> low, high |-> Now, kind |-> kind, name |-> name, chain |-> chain]

\* ParseResult.guard: a range without commands is not recorded.
Guard(low, kind, name) ==
    IF Now > low THEN <<Scope(low, kind, name, <<>>)>> ELSE <<>>

\* _close: the ranges that an operator ends, the last one opened first.
Ends(frame, operator) == operator = "" \/ frame.endsOn = operator

Ranges(frame, operator) ==
    IF Ends(frame, operator)
    THEN SelectSeq(
           [i \in DOMAIN frame.open |->
               Scope(frame.open[Len(frame.open) + 1 - i], "maybe", "", <<>>)],
           LAMBDA scope : scope.low < scope.high)
    ELSE <<>>

Closed(frame, operator) ==
    IF Ends(frame, operator) THEN [frame EXCEPT !.open = <<>>] ELSE frame

Reset(frame) == [frame EXCEPT !.seen = Now, !.plain = FALSE]

\* Something that can fail was read since the last range was opened.
CanFail(frame) ==
    frame.plain \/ \E i \in frame.seen + 1 .. Now : commands[i].word.do \notin Movers

\* link: what follows || may not run, up to the next &&; what follows && may
\* not run either, up to the next ||, unless only moves stand before it.
Linked(frame, operator) ==
    LET closed == Closed(frame, operator)
        opens  == operator = "||" \/ CanFail(frame)
    IN  [closed EXCEPT
            !.open   = IF opens THEN Append(closed.open, Now) ELSE closed.open,
            !.endsOn = CASE operator = "||" -> "&&"
                         [] operator = "&&" /\ opens -> "||"
                         [] OTHER -> closed.endsOn,
            !.plain  = operator = "||" /\ CanFail(frame),
            !.seen   = Now]

\* A branch that was being read ends.
BranchGuard(frame) ==
    IF frame.branch = <<>> THEN <<>> ELSE Guard(frame.branch[1], "maybe", "")

\* branch with more to come: a branch ends, and the next one starts.
Branched(frame, tag) ==
    [Reset(Closed(frame, "")) EXCEPT !.branch = <<Now>>, !.tag = tag]

\* _leave: a compound command closes.
LeaveScopes(frame) ==
    Ranges(frame, "") \o BranchGuard(frame)
        \o (IF frame.kind = "" THEN <<>> ELSE Guard(frame.low, frame.kind, frame.name))

-----------------------------------------------------------------------------
\* What the string may go on with.
CommandDue == List.turn = "command" \/ List.turn = "stage"
AfterCommand == ~CommandDue
Openers == {"if", "for", "{", "f{", "(", "eval", "sh"}

Room == Now < profile.commands
Nests(opener) ==
    /\ opener \in profile.opens
    /\ Len(SelectSeq(tokens, LAMBDA token : token.t \in Openers)) < profile.compounds
    /\ Room

\* The token is read in the innermost list, of which this is the new state.
Reads(t, arg, list) ==
    /\ tokens' = Append(tokens, [t |-> t, arg |-> arg])
    /\ lists' = [lists EXCEPT ![Len(lists)] = list]

InFrame(frame) == [List.frames EXCEPT ![Len(List.frames)] = frame]

\* _end_command with _add: a command joins the pipeline being read.
Joins(word) == commands' = Append(commands, [word |-> word, up |-> List.feed])

Init ==
    /\ profile \in Profiles
    /\ tokens = <<>>
    /\ commands = <<>>
    /\ scopes = <<>>
    /\ lists = <<NewList("", <<>>)>>

\* A simple command.
Command(word) ==
    /\ CommandDue /\ Room
    /\ Joins(word)
    /\ Reads("command", word, [List EXCEPT !.feed = word, !.turn = "simple"])
    /\ UNCHANGED <<profile, scopes>>

\* note: `[[ ... ]]` is no command, but it can fail.
Test ==
    /\ "test" \in profile.opens
    /\ \A i \in DOMAIN tokens : tokens[i].t # "test"
    /\ List.turn = "command"
    /\ Reads("test", "", [List EXCEPT !.turn = "simple",
                              !.frames = InFrame([Frame EXCEPT !.plain = TRUE])])
    /\ UNCHANGED <<profile, commands, scopes>>

\* && or ||, behind a pipeline.
Link(operator) ==
    /\ AfterCommand
    /\ operator \in profile.operators
    /\ scopes' = scopes \o Ranges(Frame, operator)
    /\ Reads(operator, "", [List EXCEPT !.feed = NoWord, !.turn = "command",
                                !.frames = InFrame(Linked(Frame, operator))])
    /\ UNCHANGED <<profile, commands>>

\* A pipe: the next command is fed by this one.
Pipe ==
    /\ "|" \in profile.operators
    /\ List.turn = "simple" \/ "group" \in profile.opens
    /\ Reads("|", "", [List EXCEPT !.turn = "stage"])
    /\ UNCHANGED <<profile, commands, scopes>>

\* end: the and-or list is over.
End ==
    /\ AfterCommand
    /\ scopes' = scopes \o Ranges(Frame, "")
    /\ Reads(";", "", [List EXCEPT !.feed = NoWord, !.turn = "command",
                           !.frames = InFrame(Reset(Closed(Frame, "")))])
    /\ UNCHANGED <<profile, commands>>

\* enter: a compound command opens: a body of commands, the condition of an
\* `if`, or the commands of a loop.
Enter(tag) ==
    /\ tag \in {"if", "for", "{"}
    /\ Nests(tag)
    /\ List.turn = "command"
    /\ LET kind == IF tag = "for" THEN "loop" ELSE ""
       IN  Reads(tag, "", [List EXCEPT !.frames = Append(List.frames, Open(tag, kind, ""))])
    /\ UNCHANGED <<profile, commands, scopes>>

\* name() { opens the body of a function.
Define(name) ==
    /\ Nests("f{")
    /\ List.turn = "command"
    /\ Reads("f{", name,
             [List EXCEPT !.frames = Append(List.frames, Open("{", "defined", name))])
    /\ UNCHANGED <<profile, commands, scopes>>

\* `then` and `else` start a branch.
Branch(tag) ==
    /\ AfterCommand /\ Room
    /\ Frame.tag = IF tag = "then" THEN "if" ELSE "then"
    /\ scopes' = scopes \o Ranges(Frame, "") \o BranchGuard(Frame)
    /\ Reads(tag, "", [List EXCEPT !.feed = NoWord, !.turn = "command",
                           !.frames = InFrame(Branched(Frame, tag))])
    /\ UNCHANGED <<profile, commands>>

\* leave: `fi`, `done` or `}`.
Closer(tag) ==
    CASE tag \in {"then", "else"} -> "fi"
      [] tag = "for" -> "done"
      [] tag = "{" -> "}"

Leave ==
    /\ AfterCommand
    /\ Frame.tag \in {"then", "else", "for", "{"}
    /\ scopes' = scopes \o LeaveScopes(Frame)
    /\ Reads(Closer(Frame.tag), "",
             [List EXCEPT !.feed = NoWord, !.turn = "compound",
                  !.frames = SubSeq(List.frames, 1, Len(List.frames) - 1)])
    /\ UNCHANGED <<profile, commands>>

\* A subshell opens: a list of its own.
Subshell ==
    /\ List.turn = "command" \/ (List.turn = "stage" /\ "group" \in profile.opens)
    /\ Nests("(")
    /\ tokens' = Append(tokens, [t |-> "(", arg |-> ""])
    /\ lists' = Append(lists, NewList("(", <<>>))
    /\ UNCHANGED <<profile, commands, scopes>>

\* A command that is given a script: eval, or a nested shell that a wrapper
\* starts in other directories (env -C dir sh -c '...').
Script(by, chain) ==
    /\ Nests(by)
    /\ List.turn = "command"
    /\ chain = <<>> \/ by = "sh"
    /\ LET word == [do |-> by, to |-> "", via |-> chain]
           fed  == [List EXCEPT !.feed = word]
       IN  /\ Joins(word)
           /\ tokens' = Append(tokens, [t |-> by, arg |-> chain])
           /\ lists' = Append([lists EXCEPT ![Len(lists)] = fed],
                              [NewList(by, chain) EXCEPT !.low = Now + 1,
                                   !.frames = <<[Open("", "", "") EXCEPT
                                                    !.low = Now + 1, !.seen = Now + 1]>>])
    /\ UNCHANGED <<profile, scopes>>

\* The list is over (finish), and becomes a scope: _scope, or merge.
Close ==
    /\ Len(lists) > 1
    /\ AfterCommand
    /\ Len(List.frames) = 1
    /\ LET outer == lists[Len(lists) - 1]
           kind  == IF List.by = "eval" THEN "kept" ELSE "own"
           feed  == IF List.by = "(" THEN NoWord ELSE outer.feed
           rest  == SubSeq(lists, 1, Len(lists) - 1)
       IN  /\ scopes' = Append(scopes \o Ranges(Frame, ""),
                               Scope(List.low, kind, "", List.chain))
           /\ lists' = [rest EXCEPT ![Len(rest)] =
                            [outer EXCEPT !.feed = feed, !.turn = "compound"]]
    /\ tokens' = Append(tokens, [t |-> ")", arg |-> ""])
    /\ UNCHANGED <<profile, commands>>

\* The string is over; its last command is no move, so that there is one to
\* be judged.
Finished == lists = <<>>

Finish ==
    /\ Len(lists) = 1
    /\ AfterCommand
    /\ Len(List.frames) = 1
    /\ Now > 0 /\ commands[Now].word.do \notin Movers
    /\ scopes' = scopes \o Ranges(Frame, "")
    /\ lists' = <<>>
    /\ UNCHANGED <<profile, tokens, commands>>

Next ==
    /\ ~Finished
    /\ \/ \E word \in profile.words : Command(word)
       \/ Test
       \/ \E operator \in {"&&", "||"} : Link(operator)
       \/ Pipe
       \/ End
       \/ \E tag \in {"if", "for", "{"} : Enter(tag)
       \/ \E name \in profile.functions : Define(name)
       \/ \E tag \in {"then", "else"} : Branch(tag)
       \/ Leave
       \/ Subshell
       \/ \E by \in {"eval", "sh"}, chain \in profile.chains : Script(by, chain)
       \/ Close
       \/ Finish

Spec == Init /\ [][Next]_vars
=============================================================================
