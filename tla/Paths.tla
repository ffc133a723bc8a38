-------------------------------- MODULE Paths --------------------------------
(***************************************************************************)
(* Paths and path patterns (ember_armor/ledger/paths.py) and the nearest   *)
(* enclosing repository (ember_armor/ledger/repo.py).                      *)
(*                                                                         *)
(* A normalised path is the sequence of its segments behind its root; a    *)
(* path as somebody wrote it is a sequence of words, of which the first    *)
(* may be a root, "~" or a variable.  On a POSIX system the only root is   *)
(* "/" and Lower is empty; for the Windows flavour RootOf gives the drive  *)
(* that each way of writing it means and Lower folds the case of names.    *)
(***************************************************************************)
EXTENDS Naturals, Sequences, SequencesExt, FiniteSets

CONSTANTS
    RootOf,         \* the ways to write a root, and the root they mean
    Lower,          \* names that have another lower-case form, and that form
    Variables,      \* variables that may be expanded, and their words
    Unset,          \* variables that nothing sets
    Home,           \* the home directory, or << >>
    Wild,           \* words with wildcards, and the names that they describe
    Abbreviates     \* those that begin with literal text, and the names and
                    \* pieces of patterns that they abbreviate

UnknownDir == <<"?">>
\* What a pattern resolves to when it names a variable that is not set.
NoPath == <<"no path">>
MaxExpansions == 4

\* Pieces of patterns that are no words.
Levels == "**/"
Deeper == "(?:/.*)?"
Words == STRING \ {Levels, Deeper}

\* What somebody wrote: only the first word may be the root of POSIX.
IsWritten(words) == words \in Seq(Words) /\ \A i \in DOMAIN words \ {1} : words[i] # "/"

\* A root is written in ways of its own, which are no variables and no
\* wildcards, and one of them is the root itself.  What the code writes
\* itself are words like any others.
ASSUME PathsAssumption ==
    /\ "/" \in DOMAIN RootOf
    /\ \A spelling \in DOMAIN RootOf :
          /\ RootOf[spelling] \in Words \ {"*", "**"}
          /\ RootOf[spelling] \in DOMAIN RootOf
          /\ RootOf[RootOf[spelling]] = RootOf[spelling]
          /\ {spelling, RootOf[spelling]} \cap Unset = {}
    /\ Unset \cap {"/", ".", ".."} = {}
    /\ {".", "**"} \subseteq Words
    /\ \A name \in DOMAIN Variables : Variables[name] \in Seq(Words)
    /\ Home \in Seq(Words)
    /\ DOMAIN Abbreviates \subseteq DOMAIN Wild \ {"*", "**"}

Fold(word) == IF word \in DOMAIN Lower THEN Lower[word] ELSE word
IsRoot(word) == \E spelling \in DOMAIN RootOf : word \in {spelling, RootOf[spelling]}

\* _OPEN_RE: the segment still holds a variable or a substitution.
Open(word) == word \in Unset \cup DOMAIN Variables
IsOpen(path) == \E i \in DOMAIN path : Open(path[i])

\* The path of a directory: a root, and names below it.
IsDirectory(path) ==
    /\ path \in Seq(Words) /\ path # <<>>
    /\ \E spelling \in DOMAIN RootOf : path[1] = RootOf[spelling]
    /\ \A i \in DOMAIN path \ {1} : ~IsRoot(path[i]) /\ path[i] # "**"

-----------------------------------------------------------------------------
\* expand_variables: a value may hold variables itself, up to a depth.
ExpandOnce(words, variables) ==
    FlattenSeq([i \in DOMAIN words |->
        IF words[i] \in DOMAIN variables THEN variables[words[i]] ELSE <<words[i]>>])

ExpandVariables(words, variables) ==
    LET expanded[n \in 0..MaxExpansions] ==
            IF n = 0 THEN words ELSE ExpandOnce(expanded[n - 1], variables)
    IN  expanded[MaxExpansions]

\* The text that normalize resolves: variables, then the home directory.
Written(words, variables, home) ==
    LET homed(text) == IF text # <<>> /\ home # <<>> /\ Head(text) = "~"
                       THEN home \o Tail(text) ELSE text
    IN  homed(ExpandVariables(words, variables))

\* Mutant: ".." takes an unresolved segment away like any other.
MutTakeSegment(segments, word) ==
    CASE word \in {"/", "."} -> segments
      [] word = ".." -> IF Len(segments) > 1 THEN Front(segments) ELSE segments
      [] OTHER -> Append(segments, word)

\* One segment of the loop of normalize; the root is never taken away.
TakeSegment(segments, word) ==
    LET below == Len(segments) > 1
        stays == below /\ (Last(segments) = ".." \/ Open(Last(segments)))
    IN  CASE word \notin {"/", ".", ".."} \/ (word = ".." /\ stays) -> Append(segments, word)
          [] word = ".." /\ below /\ ~stays -> Front(segments)
          [] OTHER -> segments

Segments(root, words) ==
    LET taken[n \in 0..Len(words)] ==
            IF n = 0 THEN <<root>> ELSE TakeSegment(taken[n - 1], words[n])
    IN  taken[Len(words)]

\* normalize; _split_root is the question whether the first word is a root.
Resolve(text, cwd) ==
    LET rooted(path) == path # <<>> /\ Head(path) \in DOMAIN RootOf
        whole == IF rooted(text) THEN text
                 ELSE IF rooted(cwd) THEN cwd \o text ELSE <<"/">> \o cwd \o text
    IN  Segments(RootOf[Head(whole)], Tail(whole))

Normalize(words, cwd, variables, home) == Resolve(Written(words, variables, home), cwd)

\* The same in the environment of the call.
Resolved(words, cwd) == Normalize(words, cwd, Variables, Home)

\* resolve_pattern: a lone name means that name anywhere when `bare`.
ResolvePattern(words, base, bare) ==
    LET text == ExpandVariables(words, Variables)
        unset == \E i \in DOMAIN text : text[i] \in Unset
        lone == bare /\ Len(words) = 1 /\ ~IsRoot(words[1]) /\ words[1] # "~"
                /\ words[1] \notin DOMAIN Variables
        anywhere == words # <<>> /\ Head(words) = "**"
    IN  IF unset THEN NoPath
        ELSE IF lone THEN <<"**">> \o words
        ELSE IF anywhere THEN words
        ELSE Resolved(words, base)

-----------------------------------------------------------------------------
\* _glob_regex.  The text of a path: names and the slashes between them.
Spelled(word, last) ==
    CASE word = "/" -> <<word>>
      [] word # "/" /\ last /\ ~IsRoot(word) -> <<word>>
      [] word = "**" /\ ~last -> <<Levels>>
      [] OTHER -> <<word, "/">>

Text(path) ==
    FlattenSeq([i \in DOMAIN path |-> Spelled(path[i], i = Len(path))])

\* One piece of a pattern and one name.
Describes(piece, name) ==
    /\ name # "/"
    /\ IF piece \in DOMAIN Wild THEN Fold(name) \in Wild[piece]
       ELSE Fold(piece) = Fold(name)

\* The rest of a pattern from its piece i on, and of a text from j on, when
\* what follows the piece is known.
MatchesFrom(text, pieces, matches, i, j) ==
    LET n == Len(text)
        m == Len(pieces)
        is(piece) == i <= m /\ pieces[i] = piece
        at(character) == j <= n /\ text[j] = character
    IN  \/ i > m /\ j > n
        \/ is(Levels) /\ \/ matches[i + 1][j]
                         \/ \E k \in j..n : text[k] = "/" /\ matches[i + 1][k + 1]
        \/ is("**") /\ \E k \in j..n + 1 : matches[i + 1][k]
        \/ is(Deeper) /\ (j > n \/ at("/"))
        \/ is("*") /\ \/ matches[i + 1][j]
                      \/ j <= n /\ ~at("/") /\ matches[i + 1][j + 1]
        \/ is("/") /\ at("/") /\ matches[i + 1][j + 1]
        \/ /\ i <= m /\ pieces[i] \notin {Levels, Deeper, "**", "*", "/"}
           /\ j <= n /\ Describes(pieces[i], text[j]) /\ matches[i + 1][j + 1]

\* fullmatch of a pattern; Deeper, at its end, is anything below.
FullMatch(text, pieces) ==
    LET matches[i \in 1..Len(pieces) + 1] ==
            [j \in 1..Len(text) + 1 |-> MatchesFrom(text, pieces, matches, i, j)]
    IN  matches[1][1]

MatchesGlob(path, pattern) == FullMatch(Text(path), Text(pattern))

\* The pattern of is_under: without a slash at its end, and anything below.
UnderPieces(directory) ==
    LET below(pieces) == IF pieces # <<>> /\ Last(pieces) = "/"
                         THEN Append(Front(pieces), Deeper) ELSE Append(pieces, Deeper)
    IN  below(Text(directory))

IsUnder(path, directory) == FullMatch(Text(path), UnderPieces(directory))

UnderAny(path, directories) == \E d \in directories : IsUnder(path, d)

\* may_match: an operand that still holds wildcards may name a file the
\* pattern describes.  Its last segment has to begin with literal text, and to
\* abbreviate the pattern's (_abbreviates); one of nothing but wildcards is
\* abbreviated by any.
MayMatch(path, pattern) ==
    \/ MatchesGlob(path, pattern)
    \/ /\ Len(path) > 1 /\ Len(pattern) > 1
       /\ Fold(Last(path)) \in DOMAIN Abbreviates
       /\ Fold(Last(pattern)) \in {"*", "**"} \cup Abbreviates[Fold(Last(path))]
       /\ MatchesGlob(Front(path), Front(pattern))

-----------------------------------------------------------------------------
\* The directories at and above a path.
Ancestors(path) == {SubSeq(path, 1, n) : n \in 1..Len(path)}

\* find_root on directories that hold a .git entry, with the answers of the
\* levels asked before; a path on the network or with a variable is not
\* looked up.
FindRoot(directory, repositories, seen) ==
    LET known(d) == d \in DOMAIN seen
        levels == {d \in Ancestors(directory) : known(d) \/ d \in repositories}
    IN  IF levels = {} THEN <<>>
        ELSE LET near == CHOOSE d \in levels : \A e \in levels : Len(e) <= Len(d)
             IN  IF known(near) THEN seen[near] ELSE near

\* The levels that the walk passed and now knows.
Passed(directory, repositories, seen) ==
    LET stops == {d \in Ancestors(directory) : d \in DOMAIN seen \/ d \in repositories}
    IN  {d \in Ancestors(directory) :
            /\ d \notin DOMAIN seen
            /\ \A e \in stops : Len(e) <= Len(d)}
=============================================================================
