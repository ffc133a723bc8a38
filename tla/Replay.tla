------------------------------- MODULE Replay -------------------------------
(***************************************************************************)
(* replay.py: the rules of today judge the calls that transcripts recorded.*)
(* Sessions are lived through first: the gate in remind mode judges each   *)
(* call as it is made, with the limit read from its log, and the host      *)
(* writes a line of the session's transcript.  A session that is resumed   *)
(* begins with a copy of an earlier transcript and goes on from there, and *)
(* so may the earlier one.  Then a replay reads files in the order they    *)
(* were named in, one of them twice perhaps.                               *)
(***************************************************************************)
EXTENDS Gate

CONSTANTS
    Sessions,       \* the sessions, and the names of their transcripts
    Matched,        \* the sets of rules a call can match
    Recalling,      \* rules that fire only after an earlier call they match
    MaxMade,        \* bound on the calls and starts lived through
    MaxNamed        \* bound on the files named to a replay

VARIABLES
    lived,          \* what the gate judged and logged, oldest first
    transcripts,    \* the lines of each file
    lacks,          \* what the host leaves out of the lines it writes
    named,          \* the files of the replay; none yet while sessions go on
    replay          \* the replay: where it is, what it keeps, its report

recorded == <<lived, transcripts, lacks>>
replaying == <<recorded, named, replay>>

ASSUME ReplayAssumption ==
    /\ "" \notin Sessions
    /\ Matched \subseteq (SUBSET Rules) \ {{}}
    /\ Recalling \subseteq Rules

-----------------------------------------------------------------------------
NoTime == -1
NoId == 0
Unreadable == {"unreadable"}

\* What a call matches: rules, unless no facts can be extracted of it.
Proposals == {Unreadable} \cup Matched

\* evaluate: a rule about the past fires after an earlier call it matches.
FiredOn(matches, earlier) ==
    {r \in matches : r \in Recalling => \E before \in earlier : r \in before}

\* What of the rules that are due fits into one reminder.
Quoted(due) == CHOOSE quoted \in Composed(due, confirmed) : TRUE

-----------------------------------------------------------------------------
(* The sessions as they were.                                              *)

LogOf(s) == [i \in {j \in DOMAIN lived : lived[j].session = s} |-> lived[i]]
Past(s) == {lived[i].matches : i \in {j \in DOMAIN lived : lived[j].session = s}} \ {{}, Unreadable}

Live(s, of, matches, fired, quoted) ==
    lived' = Append(lived, [of |-> of, session |-> s, when |-> now, matches |-> matches,
                            fired |-> fired, quoted |-> quoted])

\* Nothing is recorded at the epoch itself, a time that is read as none.
Epoch(moment) == moment + 1

\* A line lacks what this version of the host does not write; a line without an
\* id is told from every other only by its place.
Make(s, matches) ==
    /\ named = <<>> /\ Len(lived) < MaxMade
    /\ LET fired == IF matches = Unreadable THEN {} ELSE FiredOn(matches, Past(s))
           due   == (fired \cap confirmed) \ HeldBack(LogOf(s), now)
       IN  Live(s, "call", matches, fired, Quoted(due))
    /\ transcripts' = [transcripts EXCEPT ![s] = Append(@,
           [id |-> IF lacks = "ids" THEN NoId ELSE Len(lived) + 1,
            session |-> IF lacks = "sessions" THEN "" ELSE s,
            when |-> IF lacks = "times" THEN NoTime ELSE Epoch(now),
            matches |-> matches, of |-> Len(lived) + 1])]
    /\ UNCHANGED <<lacks, named, replay>>

\* The context is compacted: the log knows, the transcript does not say it in a
\* line that is read.
Compact(s) ==
    /\ named = <<>> /\ Len(lived) < MaxMade
    /\ \A i \in DOMAIN lived : lived[i].of # "start"
    /\ Live(s, "start", {}, {}, {})
    /\ UNCHANGED <<transcripts, lacks, named, replay>>

Resume(s, new) ==
    /\ named = <<>>
    /\ transcripts[s] # <<>> /\ \A i \in DOMAIN lived : lived[i].session # new
    /\ transcripts[new] = <<>>
    /\ transcripts' = [transcripts EXCEPT ![new] = transcripts[s]]
    /\ UNCHANGED <<lived, lacks, named, replay>>

-----------------------------------------------------------------------------
(* The replay.                                                             *)

NoReplay == <<>>
NewReplay ==
    [file |-> 1, line |-> 1, when |-> 0, seen |-> {},
     earlier |-> [s \in Sessions |-> {}],
     sent |-> [s \in Sessions |-> [r \in Rules |-> {}]],
     calls |-> 0, errors |-> 0, decisions |-> [e \in Effects |-> 0],
     rules |-> [r \in Rules |-> 0], reminders |-> [r \in Rules |-> 0]]

ReplayInit ==
    /\ lived = <<>>
    /\ transcripts = [s \in Sessions |-> <<>>]
    /\ lacks \in {"nothing", "ids", "sessions", "times"}
    /\ named = <<>>
    /\ replay = NoReplay

\* transcript_files: a file is read as often as it is named.
Name(files) ==
    /\ named = <<>>
    /\ named' = files
    /\ replay' = NewReplay
    /\ UNCHANGED recorded

Reading == named # <<>> /\ replay.file \in DOMAIN named
File == transcripts[named[replay.file]]

NextFile ==
    /\ Reading /\ replay.line > Len(File)
    /\ replay' = [replay EXCEPT !.file = @ + 1, !.line = 1, !.when = 0]
    /\ UNCHANGED <<recorded, named>>

\* The line at hand, with the time of the line before it, or none at all, and
\* the name of the file where it has no time and no session.
AtLine == Reading /\ replay.line \in DOMAIN File
ThisLine ==
    LET line == File[replay.line]
    IN  [line EXCEPT !.when = IF @ \in {0, NoTime} THEN replay.when ELSE @,
                     !.session = IF @ = "" THEN named[replay.file] ELSE @]

\* A resumed session repeats the earlier lines.
SeenBefore(line) == line.id \in replay.seen

\* The replay once it is past a line.
Passed(line) ==
    [replay EXCEPT !.line = @ + 1, !.when = line.when,
                   !.seen = IF line.id = NoId THEN @ ELSE @ \cup {line.id}]

Repeated ==
    /\ AtLine /\ SeenBefore(ThisLine)
    /\ replay' = Passed(ThisLine)
    /\ UNCHANGED <<recorded, named>>

\* One bad call does not end the replay.
BadCall ==
    /\ AtLine /\ ~ SeenBefore(ThisLine) /\ ThisLine.matches = Unreadable
    /\ replay' = [Passed(ThisLine) EXCEPT !.calls = @ + 1, !.errors = @ + 1]
    /\ UNCHANGED <<recorded, named>>

\* Mutant: a reminder dated after the call holds back, too.
MutRecent(times, when) == \E t \in times : when - t < Window

\* limited: what was sent within the interval is not due.
Recent(times, when) == \E t \in times : t <= when /\ when - t < Window

Judge ==
    /\ AtLine /\ ~ SeenBefore(ThisLine) /\ ThisLine.matches # Unreadable
    /\ \E line \in {ThisLine} : \E fired \in {FiredOn(line.matches, replay.earlier[line.session])} :
       \E quoted \in {Quoted({r \in fired \cap confirmed :
                                ~ Recent(replay.sent[line.session][r], line.when)})} :
         replay' = [Passed(line) EXCEPT
             !.calls = @ + 1,
             !.earlier[line.session] = @ \cup {line.matches},
             !.decisions[Decided(fired, confirmed)] = @ + 1,
             !.sent[line.session] =
                 [r \in Rules |-> IF r \in quoted THEN @[r] \cup {line.when} ELSE @[r]],
             !.rules = [r \in Rules |-> IF r \in fired THEN @[r] + 1 ELSE @[r]],
             !.reminders = [r \in Rules |-> IF r \in quoted THEN @[r] + 1 ELSE @[r]]]
    /\ UNCHANGED <<recorded, named>>

ReplayNext ==
    \/ \E s \in Sessions, matches \in Proposals : Make(s, matches)
    \/ \E s \in Sessions : Compact(s)
    \/ \E s, new \in Sessions : Resume(s, new)
    \/ \E n \in 1 .. MaxNamed : \E files \in [1 .. n -> Sessions] : Name(files)
    \/ NextFile
    \/ Repeated
    \/ BadCall
    \/ Judge

\* The clock moves while the sessions are lived through.
ReplayStep ==
    \/ ReplayNext /\ UNCHANGED vars
    \/ ~ Reading /\ Clock /\ UNCHANGED replaying

ReplaySpec == Init /\ ReplayInit /\ [][ReplayStep]_<<vars, replaying>>

-----------------------------------------------------------------------------
\* The lines a replay reads, by file and place, in its order.
Lines == UNION {{<<f, i>> : i \in DOMAIN transcripts[named[f]]} : f \in DOMAIN named}
CallAt(p) == transcripts[named[p[1]]][p[2]].of
Earlier(p, q) == p[1] < q[1] \/ (p[1] = q[1] /\ p[2] < q[2])
Firsts == {p \in Lines : \A q \in Lines : CallAt(q) = CallAt(p) => ~ Earlier(q, p)}
LivedIn(p) == lived[CallAt(p)].session

\* The files tell the sessions as they were: all of their calls, no call twice
\* that cannot be known again, those of a session in their order, and where the
\* lines say neither times nor sessions these were as they are taken to be.
ToldAsLived ==
    /\ \A i \in DOMAIN lived : lived[i].of = "call" /\ \E p \in Lines : CallAt(p) = i
    /\ lacks = "ids" => Firsts = Lines
    /\ \A p, q \in Firsts : LivedIn(p) = LivedIn(q) /\ Earlier(p, q) => CallAt(p) < CallAt(q)
    /\ lacks = "sessions" => \A p \in Firsts : named[p[1]] = LivedIn(p)
    /\ lacks = "times" => \A i, j \in DOMAIN lived : lived[i].when = lived[j].when

\* "how many reminders `remind` mode would have sent" (replay.py:10): whatever
\* files repeat each other's lines, and in whatever order sessions and files
\* follow each other, the report of a replay counts what the gate did on the
\* calls when they were made; and a call with an id counts at most once even
\* where the files do not tell the sessions as they were.
ReplayAgrees ==
    named # <<>> /\ ~ Reading =>
        /\ lacks # "ids" => replay.calls <= Len(lived)
        /\ ToldAsLived =>
             /\ replay.calls = Len(lived)
             /\ replay.errors = Cardinality({i \in DOMAIN lived : lived[i].matches = Unreadable})
             /\ \A r \in Rules :
                  /\ replay.rules[r] = Cardinality({i \in DOMAIN lived : r \in lived[i].fired})
                  /\ replay.reminders[r]
                       = Cardinality({i \in DOMAIN lived : r \in lived[i].quoted})
=============================================================================
