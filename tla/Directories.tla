----------------------------- MODULE Directories -----------------------------
(***************************************************************************)
(* The directory each command of a Bash string runs in, and the            *)
(* directories its relative paths are resolved against: shell_facts and    *)
(* the tracker under it (ember_armor/ledger/shellpaths.py), for the        *)
(* commands and scopes that ShellGuards leaves behind.                     *)
(*                                                                         *)
(* A directory is a sequence of names of which the first is an absolute    *)
(* path.  Commands are numbered from 1: command k opens the scopes whose   *)
(* `low` is k - 1 and comes after those whose `high` is.                   *)
(***************************************************************************)
EXTENDS ShellGuards, Integers, SequencesExt

CONSTANTS
    Absolute,       \* targets of moves that are absolute paths
    Home,           \* the home directory, one of them
    Start,          \* the directory the string starts in, another one
    Vague,          \* a target the string does not name: cd $somewhere
    MaxPlaces,      \* MAX_PLACES
    TrialSteps      \* _TRIAL_STEPS

\* Not a directory: it cannot be known.
Unknown == <<"?">>
Here == <<Start>>

\* _Places.directory: what a target names seen from a directory.
Directory(target, base) ==
    CASE target = Vague      -> Unknown
      [] target \in Absolute -> <<target>>
      [] base = Unknown      -> Unknown
      [] OTHER               -> Append(base, target)

Follow(chain, base) == FoldLeft(LAMBDA dir, target : Directory(target, dir), base, chain)

-----------------------------------------------------------------------------
\* _Where
At(dir) == [current |-> dir, previous |-> Unknown, stack |-> <<>>, moves |-> 0]

Lose(where) ==
    [current |-> Unknown, previous |-> Unknown,
     stack |-> [i \in DOMAIN where.stack |-> Unknown], moves |-> where.moves + 1]

\* Mutant: a stack that was left different goes unnoticed.
MutDiffers(where, other) == where.current # other.current

Differs(where, other) ==
    where.current # other.current \/ where.stack # other.stack

Forgets(where, other) ==
    IF where.previous = other.previous THEN where
    ELSE [where EXCEPT !.previous = Unknown]

GoesTo(where, dir, stack) ==
    [where EXCEPT !.previous = where.current, !.current = dir, !.stack = stack]

\* _move: a target that is unclear leaves the directory unknown.
Move(word, where) ==
    LET stack == where.stack
        pushed == IF word.do = "pushd" THEN Append(stack, where.current) ELSE stack
    IN  CASE word.do = "popd" ->
               IF stack = <<>> THEN GoesTo(where, Unknown, stack)
               ELSE GoesTo(where, Last(stack), Front(stack))
          [] word.do = "pushd" /\ word.to = "" ->
               IF stack = <<>> THEN where
               ELSE GoesTo(where, Last(stack), Append(Front(stack), where.current))
          [] word.do = "cd" /\ word.to = "" -> GoesTo(where, <<Home>>, stack)
          [] word.to = "-" -> GoesTo(where, where.previous, pushed)
          [] OTHER -> GoesTo(where, Directory(word.to, where.current), pushed)

\* _piped: the command is one stage of a pipeline.
Piped(k) ==
    \/ commands[k].up # NoWord
    \/ k < Len(commands) /\ commands[k + 1].up = commands[k].word

-----------------------------------------------------------------------------
\* _Tracker.  Its state: where the shell is, the scopes that are open, the
\* functions whose body moves and those whose body was read, the steps left
\* for trials, how many trials are under way, and where nested shells start.
Tracker ==
    [where |-> At(Here), left |-> <<>>, movers |-> {}, settled |-> {},
     budget |-> TrialSteps, trials |-> 0, started |-> <<>>]

FunctionNames == {scopes[n].name : n \in {m \in DOMAIN scopes : scopes[m].name # ""}}

\* The scopes that open at command k, the outer one first.
Opening(k) ==
    SetToSortSeq({n \in DOMAIN scopes : /\ scopes[n].low = k - 1
                                          /\ scopes[n].high > k - 1},
                 LAMBDA m, n : \/ scopes[m].high > scopes[n].high
                               \/ scopes[m].high = scopes[n].high /\ m > n)

\* step: command k moves the shell, if it does.
Step(t, k) ==
    LET word   == commands[k].word
        where  == t.where
        lost   == [where EXCEPT !.previous = Unknown, !.current = Unknown]
        moved  == IF Piped(k) THEN lost ELSE Move(word, where)
        unsure == word.to \in t.movers \/ word.to \notin t.settled
    IN  CASE word.do \in Movers ->
               [t EXCEPT !.where = [moved EXCEPT !.moves = where.moves + 1]]
          [] word.do = "call" /\ word.to \in FunctionNames /\ unsure ->
               [t EXCEPT !.where = Lose(where)]
          [] OTHER -> t

\* _leave: the innermost scope that is open ends.
LeaveOne(t) ==
    LET open   == Last(t.left)
        scope  == scopes[open.number]
        where  == t.where
        before == open.before
        back   == [t EXCEPT !.left = Front(t.left)]
    IN  CASE scope.kind = "kept" -> back
          [] scope.kind = "own"  -> [back EXCEPT !.where = before]
          [] scope.kind = "defined" ->
               [back EXCEPT !.where = before,
                    !.movers = IF where.moves # before.moves
                               THEN t.movers \cup {scope.name} ELSE t.movers,
                    !.settled = t.settled \cup {scope.name}]
          [] open.wild \/ Differs(where, before) -> [back EXCEPT !.where = Lose(where)]
          [] OTHER -> [back EXCEPT !.where = Forgets(where, before)]

RECURSIVE LeaveUntil(_, _)
LeaveUntil(t, k) ==
    IF t.left # <<>> /\ Last(t.left).high < k
    THEN LeaveUntil(LeaveOne(t), k) ELSE t

\* _enter: a scope opens.  A loop is tried first.
Opened(t, number, before, wild) ==
    [t EXCEPT !.left = Append(t.left,
        [high |-> scopes[number].high, number |-> number, before |-> before, wild |-> wild])]

EnterWild(t, number, after) ==
    Opened([after EXCEPT !.where = Lose(t.where)], number, t.where, TRUE)

EnterLoop(t, number, pass) ==
    IF ~pass.done \/ Differs(pass.end, t.where)
    THEN EnterWild(t, number, pass.after)
    ELSE Opened([pass.after EXCEPT !.where = Forgets(t.where, pass.end)],
                number, t.where, FALSE)

EnterShell(t, number, inside) ==
    Opened([t EXCEPT !.where.current = inside,
                     !.started = IF t.trials > 0 THEN t.started
                                 ELSE Append(t.started, [number |-> number, dir |-> inside])],
           number, t.where, FALSE)

RECURSIVE EnterScope(_, _, _, _), Trial(_, _, _, _), Arrive(_, _)
EnterScope(t, k, at, number) ==
    LET scope == scopes[number]
    IN  CASE scope.kind = "loop" ->
               EnterLoop(t, number, Trial(t, k, at + 1, scope.high))
          [] scope.chain # <<>> ->
               EnterShell(t, number, Follow(scope.chain, t.where.current))
          [] OTHER -> Opened(t, number, t.where, FALSE)

EnterFrom(t, k, from) ==
    FoldLeft(LAMBDA tracker, at : EnterScope(tracker, k, at, Opening(k)[at]), t,
             [i \in 1 .. Len(Opening(k)) - from + 1 |-> from + i - 1])

\* arrive: where the shell is when command k starts.
Arrive(t, k) == EnterFrom(LeaveUntil(t, k), k, 1)

\* _trial: where one pass over a loop ends, unless that costs too much.
Ended(t, ended) ==
    [done |-> TRUE, end |-> ended.where,
     after |-> [ended EXCEPT !.where = t.where, !.left = t.left, !.trials = t.trials]]

Trial(t, k, from, high) ==
    LET left   == t.budget - (high - k + 1)
        begun  == [t EXCEPT !.budget = left, !.trials = t.trials + 1, !.left = <<>>]
        first  == Step(EnterFrom(begun, k, from), k)
        rest   == FoldLeft(LAMBDA tracker, i : Step(Arrive(tracker, i), i), first,
                           [i \in 1 .. high - k |-> k + i])
    IN  IF left < 0
        THEN [done |-> FALSE, end |-> t.where, after |-> [t EXCEPT !.budget = left]]
        ELSE Ended(t, LeaveUntil(rest, high + 1))

-----------------------------------------------------------------------------
\* _Location, for relative paths; a target that is unclear is no move.
NoMove == "none"

ChangeDirectory(word, place) ==
    LET popped == word.do = "popd" \/ (word.do = "pushd" /\ word.to = "")
        stack  == IF popped /\ place.stack # <<>> THEN Front(place.stack) ELSE place.stack
        destination ==
            CASE popped         -> IF place.stack = <<>> THEN <<NoMove>> ELSE Last(place.stack)
              [] word.to = ""   -> <<Home>>
              [] word.to = "-"  -> place.previous
              [] word.to = Vague -> <<NoMove>>
              [] OTHER          -> Directory(word.to, place.current)
    IN  IF destination = <<NoMove>> THEN place
        ELSE [current |-> destination, previous |-> place.current,
              stack |-> IF word.do = "pushd" THEN Append(stack, place.current) ELSE stack]

\* _moved_too: the other directories the shell may be in move as it does.
MovedToo(also, word, current) ==
    FoldLeft(LAMBDA moved, other :
                LET spot == ChangeDirectory(word,
                                [current |-> other, previous |-> other, stack |-> <<>>])
                IN  IF spot.current = current \/ spot.current \in ToSet(moved) THEN moved
                    ELSE Append(moved, spot.current),
             <<>>, also)

\* Mutant: a branch moves the shell for sure.
MutJoined(f, others) == f

\* After commands that may not have run the shell may as well be wherever it
\* could be before them, in up to MaxPlaces directories.
Joined(f, others) ==
    FoldLeft(LAMBDA facts, other :
                CASE other \in {facts.place.current} \cup ToSet(facts.also) -> facts
                  [] Len(facts.also) < MaxPlaces ->
                       [facts EXCEPT !.also = Append(facts.also, other)]
                  [] OTHER -> [facts EXCEPT !.crowded = TRUE],
             f, others)

RECURSIVE Unshelved(_, _)
Unshelved(f, k) ==
    LET last == Last(f.shelved)
        rest == [f EXCEPT !.shelved = Front(f.shelved)]
    IN  IF f.shelved = <<>> \/ last.high >= k THEN f
        ELSE IF last.guarded
        THEN Unshelved(Joined(rest, <<last.place.current>> \o last.also), k)
        ELSE Unshelved([rest EXCEPT !.place = last.place, !.also = last.also], k)

Shelved(f, k) ==
    FoldLeft(LAMBDA facts, n :
                LET scope   == scopes[n]
                    started == SelectSeq(facts.t.started, LAMBDA s : s.number = n)
                    shelf   == [high |-> scope.high, place |-> facts.place,
                                guarded |-> scope.kind \notin {"own", "kept"},
                                also |-> facts.also]
                    kept    == [facts EXCEPT !.shelved = Append(facts.shelved, shelf)]
                IN  IF started = <<>> \/ started[1].dir = Unknown THEN kept
                    ELSE [kept EXCEPT !.place.current = started[1].dir],
             f, Opening(k))

\* What shell_facts does with command k.  `directories` are the ones commands
\* run in, `bases` those their relative paths are resolved against.
Placed(f, k) ==
    Shelved([f EXCEPT !.t = Arrive([f.t EXCEPT !.started = <<>>], k)], k)

MovedBy(f, word, place) ==
    [f EXCEPT !.place = place, !.also = MovedToo(f.also, word, place.current)]

Judged(f, k, runs) ==
    LET word == commands[k].word
        bases == IF word.via # <<>> /\ runs # Unknown THEN {runs}
                 ELSE {f.place.current} \cup ToSet(f.also)
        judged == [f EXCEPT !.t = Step(f.t, k),
                            !.directories = Append(f.directories, runs),
                            !.bases = Append(f.bases, bases)]
    IN  IF word.do \in Movers THEN MovedBy(judged, word, ChangeDirectory(word, f.place))
        ELSE judged

Fact(f, k) ==
    LET Judge(placed) ==
            Judged(placed, k, Follow(commands[k].word.via, placed.t.where.current))
    IN  Judge(Placed(Unshelved(f, k), k))

ShellFacts ==
    FoldLeft(LAMBDA facts, k : Fact(facts, k),
             [t |-> Tracker, place |-> [current |-> Here, previous |-> Here, stack |-> <<>>],
              also |-> <<>>, shelved |-> <<>>, crowded |-> FALSE,
              directories |-> <<>>, bases |-> <<>>],
             [k \in DOMAIN commands |-> k])
=============================================================================
