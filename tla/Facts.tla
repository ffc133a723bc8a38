-------------------------------- MODULE Facts --------------------------------
(***************************************************************************)
(* The facts of one tool call: ember_armor/ledger/facts.py, with the way   *)
(* options are read out of a command (ember_armor/ledger/shell/argv.py).   *)
(*                                                                         *)
(* A call is what the host says: the tool, the directory the call is made  *)
(* in, the directory a terminal tool starts in, and the input.  The input  *)
(* of a shell is already parsed: for each command its words, the directory *)
(* the string moved to before it (<< >>: none) and its operands that are   *)
(* paths.  Commands and paths are sets; each command has its index and     *)
(* each path the index of its command (0 for a file tool).                 *)
(***************************************************************************)
EXTENDS Paths

CONSTANTS
    Carries,        \* words that are options, and the flags each carries
    ValueFlags      \* for a program, the options that take the next word

\* The directory of a command that runs where the call is made.
HereDir == <<>>
FileTools == {"Read", "Write", "Grep"}
Operation(tool) == IF tool = "Write" THEN "write" ELSE "read"

-----------------------------------------------------------------------------
\* option_args: options end at a bare "--".
OptionArgs(argv) ==
    LET ends == {i \in 2..Len(argv) : argv[i] = "--"}
        last == IF ends = {} THEN Len(argv)
                ELSE (CHOOSE i \in ends : \A j \in ends : i <= j) - 1
    IN  {argv[i] : i \in 2..last}

\* has_flag: "-rf" carries -r and -f, "--flag=value" carries --flag.
HasFlag(argv, flag) ==
    \E arg \in OptionArgs(argv) : arg \in DOMAIN Carries /\ flag \in Carries[arg]

\* One word of the loop of operand_positions, the i-th; `flags` take the next
\* one.
TakeWord(reading, i, word, flags) ==
    LET takes == [reading EXCEPT !.found = Append(reading.found, i)]
    IN  IF reading.skip THEN [reading EXCEPT !.skip = FALSE]
        ELSE IF reading.rest THEN takes
        ELSE IF word = "--" THEN [reading EXCEPT !.rest = TRUE]
        ELSE IF word \in flags THEN [reading EXCEPT !.skip = TRUE]
        ELSE IF word \in DOMAIN Carries THEN reading
        ELSE takes

\* operand_positions: where the words stand that are neither an option nor
\* the value of one.
OperandPositions(argv, flags) ==
    LET read[i \in DOMAIN argv] ==
            IF i = 1 THEN [skip |-> FALSE, rest |-> FALSE, found |-> <<>>]
            ELSE TakeWord(read[i - 1], i, argv[i], flags)
    IN  read[Len(argv)].found

Operands(argv, flags) ==
    [i \in DOMAIN OperandPositions(argv, flags) |-> argv[OperandPositions(argv, flags)[i]]]

OptionsOf(program) ==
    IF program \in DOMAIN ValueFlags THEN ValueFlags[program] ELSE {}

-----------------------------------------------------------------------------
\* _anchored: the words name one directory wherever they are read from.
Anchored(words, variables, home) ==
    Normalize(words, <<"/", "one">>, variables, home)
        = Normalize(words, <<"/", "two">>, variables, home)

\* A host that names no directory, or a relative one, leaves it unknown.
Located(call) == call.given # <<>> /\ Anchored(call.given, <<>>, <<>>)
CallDirectory(call) == Normalize(call.given, <<"/">>, <<>>, <<>>)

\* _UNSETTLED_RE: the directory names no one place.
Unsettled(path) ==
    \E i \in DOMAIN path : Open(path[i]) \/ path[i] \in DOMAIN Wild \cup {"~"}

\* The directory a shell starts in, and whether it is known.
StartDirectory(call) ==
    IF call.start = <<>> THEN CallDirectory(call)
    ELSE Resolved(call.start, CallDirectory(call))

StartKnown(call) ==
    IF call.start = <<>> THEN Located(call)
    ELSE /\ Located(call) \/ Anchored(call.start, Variables, Home)
         /\ ~Unsettled(StartDirectory(call))

\* What shell_facts says of a command behind one move that surely ran.
RunsIn(move, start, known) ==
    LET there == Resolved(move, start)
    IN  CASE move = <<>> -> IF known THEN start ELSE UnknownDir
          [] Unsettled(there) -> UnknownDir
          [] known \/ Anchored(move, Variables, Home) -> there
          [] OTHER -> UnknownDir

\* label of shell_facts: `origin` is the call's directory when it is known.
Label(directory, call) ==
    IF Located(call) /\ directory = CallDirectory(call) THEN HereDir ELSE directory

PathFact(path, op, recursive, cwd, source) ==
    [path |-> path, op |-> op, recursive |-> recursive, cwd |-> cwd,
     source |-> source]

\* The commands of a shell call, and the paths of their operands.
ShellCommands(call, start, known) ==
    {[argv |-> call.commands[i].argv, index |-> i,
      cwd |-> Label(RunsIn(call.commands[i].move, start, known), call)] :
        i \in DOMAIN call.commands}

\* _change_directory: where relative operands are read from behind a move; a
\* target that still holds a variable is no move.
MovesTo(move, start) ==
    LET there == Resolved(move, start) IN IF IsOpen(there) THEN start ELSE there

ShellPaths(call, start, known) ==
    UNION {{PathFact(Resolved(operand.words, MovesTo(call.commands[i].move, start)),
                     operand.op, operand.recursive,
                     Label(RunsIn(call.commands[i].move, start, known), call), i) :
                operand \in call.commands[i].operands} : i \in DOMAIN call.commands}

\* The path of a file tool; Grep with a glob reads every such file below.  A
\* glob that leaves files out ("!name") counts as none, << >>.
FilePaths(call) ==
    LET below == IF call.glob = <<>> THEN call.target
                 ELSE (IF call.target = <<>> THEN <<".">> ELSE call.target)
                          \o <<"**">> \o call.glob
    IN  IF below = <<>> THEN {}
        ELSE {PathFact(Resolved(below, CallDirectory(call)), Operation(call.tool),
                       FALSE, HereDir, 0)}

\* extract, of a call that has a tool name and an input of the right shape.
Extract(call) ==
    LET shell == call.tool \notin FileTools
        start == StartDirectory(call)
        known == StartKnown(call)
    IN  [tool |-> call.tool, cwd |-> CallDirectory(call),
         located |-> Located(call), session |-> call.session,
         commands |-> IF shell THEN ShellCommands(call, start, known) ELSE {},
         paths |-> IF shell THEN ShellPaths(call, start, known) ELSE FilePaths(call),
         dynamic |-> call.dynamic, assigned |-> call.assigned, args |-> call.args]
=============================================================================
