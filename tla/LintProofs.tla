------------------------------- MODULE LintProofs -------------------------------
(***************************************************************************)
(* A rule whose directories or repositories are all reported as stale does *)
(* nothing; and what lint tells the solver of two commands, each seen in a *)
(* scope of its own, holds of every call.                                  *)
(***************************************************************************)
EXTENDS Lint, EngineProofs

-----------------------------------------------------------------------------
\* A literal directory as a pattern.

\* The flavour of POSIX: one root, and the case of names counts.
Posix == DOMAIN RootOf = {"/"} /\ DOMAIN Lower = {}

LEMMA PosixRoot ==
    ASSUME Posix
    PROVE  RootOf["/"] = "/" /\ (\A word : IsRoot(word) <=> word = "/")
           /\ \A word : Fold(word) = word
<1>1. RootOf["/"] = "/"
  BY PathsAssumption DEF Posix
<1> QED
  BY <1>1 DEF Posix, IsRoot, Fold

\* A place that names a directory: a root and names without wildcards.
OneDirectory(p) == IsDirectory(p) /\ Literal(p)

\* Where the text of the first k segments ends.
End(k) == IF k = 1 THEN 1 ELSE 2 * k - 2

\* A piece that is no wildcard takes one name or slash of the text,
LEMMA PieceTakes ==
    ASSUME NEW t, NEW q, NEW M, Len(t) \in Nat, Len(q) \in Nat, NEW i \in 1..Len(q), NEW j \in Nat,
           MatchesFrom(t, q, M, i, j), q[i] \notin {"*", "**", Levels, Deeper}
    PROVE  j <= Len(t) /\ M[i + 1][j + 1]
BY DEF MatchesFrom

\* and behind the last piece is the end of the text.
LEMMA PiecesEnd ==
    ASSUME NEW t, NEW q, NEW M, Len(t) \in Nat, Len(q) \in Nat, NEW j \in Nat,
           MatchesFrom(t, q, M, Len(q) + 1, j)
    PROVE  j > Len(t)
BY DEF MatchesFrom

LEMMA LiteralIs ==
    ASSUME Posix, NEW p, IsDirectory(p)
    PROVE  /\ p \in Seq(Words) /\ Len(p) \in Nat \ {0} /\ PathLike(p) /\ Start(p) = 0
           /\ p[1] = "/" /\ (\A i \in 2..Len(p) : p[i] # "/")
           /\ \A k \in 1..Len(p) : Plain(p, k)
           /\ NamesIn(Text(p), p, Len(p)) /\ Slashes(Text(p), p, Stops(p))
           /\ Len(Text(p)) = End(Len(p))
<1>1. PathLike(p) /\ Plain(p, Len(p)) /\ p \in Seq(Words) /\ IsRoot(p[1]) /\ DirectoryText(p)
  BY DirectoryIs, DirectoryTextIs
<1>2. p[1] = "/" /\ Len(p) \in Nat \ {0} /\ \A i \in 2..Len(p) : p[i] # "/"
  BY <1>1, PosixRoot DEF PathLike
<1>3. Start(p) = 0
  BY <1>2 DEF Start
<1>4. \A k \in 1..Len(p) : Plain(p, k)
  BY <1>1, <1>2 DEF Plain
<1>5. Len(Text(p)) = End(Len(p)) /\ NamesIn(Text(p), p, Len(p)) /\ Slashes(Text(p), p, Stops(p))
  BY <1>1, <1>2, <1>3 DEF DirectoryText, End
<1> QED
  BY <1>1, <1>2, <1>3, <1>4, <1>5

\* Up to the shorter of both the segments are equal, and the rest of the text
\* is matched by the rest of the pattern.
LEMMA SegmentsEqual ==
    ASSUME Posix, NEW H, IsDirectory(H), NEW p, OneDirectory(p), NEW q, ShowsPlain(q, p),
           NEW M, IsTable(M, Text(H), q), M[1][1], NEW k \in 1..Len(p), k <= Len(H)
    PROVE  /\ \A i \in 1..k : p[i] = H[i]
           /\ (k = 1 => Len(q) >= 1 /\ q[1] = "/") => M[End(k) + 1][End(k) + 1]
<1> DEFINE t == Text(H)
<1>1. /\ IsDirectory(p) /\ Literal(p) /\ PathLike(p) /\ Start(p) = 0 /\ p[1] = "/"
      /\ Plain(p, k) /\ Len(p) \in Nat \ {0} /\ p \in Seq(Words)
  BY LiteralIs DEF OneDirectory
<1>2. /\ H[1] = "/" /\ Len(H) \in Nat \ {0} /\ Len(t) \in Nat /\ Len(t) = End(Len(H))
  BY LiteralIs, DirectoryIs
<1>3. Len(q) \in Nat /\ RootFirst(q, p) /\ NamesIn(q, p, k) /\ Slashes(q, p, k - 1)
  BY <1>1 DEF ShowsPlain
<1>4. Row(M, H, p, k)
  BY <1>1, <1>3, Aligned
<1>5. \A i \in 1..k : p[i] \notin DOMAIN Wild \cup {"*", "**", Levels, Deeper}
  <2>1. k \in Nat /\ \A i \in 1..k : i \in 1..Len(p)
    BY <1>1
  <2>2. \A i \in 1..Len(p) : p[i] \in Words /\ p[i] \notin DOMAIN Wild \cup {"*", "**"}
    BY <1>1 DEF Literal
  <2> QED
    BY <2>1, <2>2 DEF Words
<1>6. \A i \in 2..k : /\ M[2 * i - 2][2 * i - 2] /\ Local(p[i], H[i])
                      /\ 2 * i - 2 \in 1..Len(q) /\ q[2 * i - 2] = p[i]
  <2> SUFFICES ASSUME NEW i \in 2..k
               PROVE  /\ M[2 * i - 2][2 * i - 2] /\ Local(p[i], H[i])
                      /\ 2 * i - 2 \in 1..Len(q) /\ q[2 * i - 2] = p[i]
    OBVIOUS
  <2>1. i \in 1..k /\ Start(p) + 2 * i - 2 = 2 * i - 2 /\ 2 * i - 2 >= 1 /\ 2 * i - 2 \in Nat
    BY <1>1
  <2>2. M[Start(p) + 2 * i - 2][Start(p) + 2 * i - 2] /\ Local(p[i], H[i])
    BY <1>4, <2>1 DEF Row
  <2>3. Start(p) + 2 * i - 2 <= Len(q) /\ q[Start(p) + 2 * i - 2] = p[i]
    BY <1>3, <2>1 DEF NamesIn
  <2> QED
    BY <1>3, <2>1, <2>2, <2>3
<1>7. \A i \in 1..k : p[i] = H[i]
  <2> SUFFICES ASSUME NEW i \in 1..k PROVE p[i] = H[i]
    OBVIOUS
  <2>1. CASE i = 1
    BY <1>1, <1>2, <2>1
  <2>2. CASE i \in 2..k
    BY <1>5, <1>6, <2>2, PosixRoot DEF Local, Describes
  <2> QED
    BY <1>1, <2>1, <2>2
<1>8. ASSUME k = 1 => Len(q) >= 1 /\ q[1] = "/"
      PROVE  M[End(k) + 1][End(k) + 1]
  <2>1. /\ End(k) \in 1..Len(q) /\ M[End(k)][End(k)]
        /\ q[End(k)] \notin {"*", "**", Levels, Deeper}
    <3>1. CASE k = 1
      BY <1>3, <1>8, <3>1 DEF End, Levels, Deeper
    <3>2. CASE k \in 2..k
      BY <1>5, <1>6, <3>2 DEF End
    <3> QED
      BY <1>1, <3>1, <3>2
  <2>2. End(k) \in 1..Len(t)
    <3>1. k \in Nat \ {0}
      BY <1>1
    <3> HIDE DEF t
    <3>2. Len(H) \in Nat \ {0} /\ k <= Len(H)
      BY <1>2
    <3>3. End(k) \in Nat \ {0} /\ End(k) <= End(Len(H))
      <4> DEFINE h == Len(H)
      <4>1. h \in Nat \ {0} /\ k <= h
        BY <3>2
      <4> HIDE DEF h
      <4>2. End(k) \in Nat \ {0} /\ End(k) <= End(h)
        BY <3>1, <4>1 DEF End
      <4> QED
        BY <4>2 DEF h
    <3> QED
      BY <1>2, <3>3
  <2>3. MatchesFrom(t, q, M, End(k), End(k))
    <3>1. End(k) \in 1..Len(q) + 1 /\ End(k) \in 1..Len(t) + 1
      BY <1>2, <1>3, <2>1, <2>2
    <3> QED
      BY <2>1, <3>1 DEF IsTable
  <2> HIDE DEF t
  <2> QED
    BY <1>2, <1>3, <2>1, <2>2, <2>3, PieceTakes
<1> QED
  BY <1>7, <1>8

\* What a literal directory describes is itself, and what lies under it is
\* below it.
LEMMA LiteralMatch ==
    ASSUME Posix, NEW H, IsDirectory(H), NEW p, OneDirectory(p)
    PROVE  /\ IsUnder(H, p) => Above(p, H)
           /\ MatchesGlob(H, p) => p = H
<1> DEFINE t == Text(H)
           h == Len(H)
           L == Len(p)
<1>1. /\ IsDirectory(p) /\ Literal(p) /\ PathLike(p) /\ L \in Nat \ {0} /\ p \in Seq(Words)
      /\ Slashes(Text(p), p, Stops(p)) /\ Len(Text(p)) = End(L) /\ Start(p) = 0
      /\ Plain(p, L)
  BY LiteralIs, DirectoryIs DEF OneDirectory
<1>2. h \in Nat \ {0} /\ Len(t) \in Nat /\ Len(t) = End(h) /\ H \in Seq(Words)
  BY LiteralIs, DirectoryIs
<1>3. ShowsPlain(Text(p), p) /\ ShowsPlain(UnderPieces(p), p)
  BY <1>1, TextShows
<1>4. ASSUME NEW q, ShowsPlain(q, p), FullMatch(t, q)
      PROVE  Above(p, H)
  <2>1. Len(q) \in Nat /\ NamesIn(q, p, L) /\ Slashes(q, p, L - 1)
    BY <1>1, <1>4 DEF ShowsPlain
  <2>2. PICK M : IsTable(M, t, q) /\ M[1][1]
    BY <1>2, <1>4, <2>1, FullMatchIs
  <2>3. CASE L <= h
    <3>1. L \in 1..L
      BY <1>1
    <3>2. \A i \in 1..L : p[i] = H[i]
      BY <1>4, <2>2, <2>3, <3>1, SegmentsEqual
    <3> QED
      BY <2>3, <3>2 DEF Above
  <2>4. CASE L > h
    <3>1. h \in 1..L /\ h <= h /\ 1 \in 1..L - 1 /\ h \in 1..L - 1
      BY <1>1, <1>2, <2>4
    <3>2. \A i \in 1..L - 1 : 2 * i - 1 <= Len(q) /\ q[2 * i - 1] = "/"
      <4> SUFFICES ASSUME NEW i \in 1..L - 1 PROVE 2 * i - 1 <= Len(q) /\ q[2 * i - 1] = "/"
        OBVIOUS
      <4>1. Start(p) + 2 * i - 1 = 2 * i - 1
        BY <1>1
      <4>2. Start(p) + 2 * i - 1 <= Len(q) /\ q[Start(p) + 2 * i - 1] = "/"
        BY <2>1 DEF Slashes
      <4> QED
        BY <4>1, <4>2
    <3>3. Len(q) >= 1 /\ q[1] = "/"
      BY <3>1, <3>2
    <3>4. M[End(h) + 1][End(h) + 1]
      BY <1>4, <2>2, <3>1, <3>3, SegmentsEqual
    <3>5. End(h) + 1 \in 1..Len(q) /\ q[End(h) + 1] \notin {"*", "**", Levels, Deeper}
      <4>1. CASE h = 1
        <5>1. 2 \in 1..L /\ Start(p) + 2 * 2 - 2 = 2 /\ Start(p) + 2 * 2 - 2 >= 1
          BY <1>1, <2>4, <4>1
        <5>2. 2 <= Len(q) /\ q[2] = p[2]
          BY <2>1, <5>1 DEF NamesIn
        <5>3. p[2] \in Words /\ p[2] \notin {"*", "**"}
          BY <1>1, <5>1 DEF Literal
        <5>4. p[2] \notin {"*", "**", Levels, Deeper}
          BY <5>3 DEF Words
        <5> QED
          BY <2>1, <4>1, <5>2, <5>4 DEF End
      <4>2. CASE h # 1
        <5>1. End(h) + 1 = 2 * h - 1 /\ 2 * h - 1 \in Nat \ {0}
          BY <1>2, <4>2 DEF End
        <5>2. 2 * h - 1 <= Len(q) /\ q[2 * h - 1] = "/"
          BY <3>1, <3>2
        <5> QED
          BY <2>1, <5>1, <5>2 DEF Levels, Deeper
      <4> QED
        BY <4>1, <4>2
    <3>6. MatchesFrom(t, q, M, End(h) + 1, End(h) + 1)
      <4>1. End(h) + 1 \in 1..Len(q) + 1 /\ End(h) + 1 \in 1..Len(t) + 1
        BY <1>2, <2>1, <3>5
      <4> HIDE DEF t, h
      <4> QED
        BY <2>2, <3>4, <4>1 DEF IsTable
    <3>7. End(h) + 1 <= Len(t)
      <4>1. End(h) + 1 \in Nat
        BY <3>5
      <4> HIDE DEF t, h
      <4> QED
        BY <1>2, <2>1, <3>5, <3>6, <4>1, PieceTakes
    <3> QED
      BY <1>2, <3>7
  <2> QED
    BY <1>1, <1>2, <2>3, <2>4
<1>5. ASSUME MatchesGlob(H, p)
      PROVE  p = H
  <2> DEFINE q == Text(p)
  <2>1. Above(p, H) /\ ShowsPlain(q, p) /\ Len(q) = End(L) /\ Len(q) \in Nat
    BY <1>1, <1>3, <1>4, <1>5 DEF MatchesGlob, ShowsPlain
  <2>2. q[1] = "/" /\ Len(q) >= 1
    <3>0. Stops(p) = IF L = 1 THEN 1 ELSE L - 1
      BY DEF Stops
    <3>1. 1 \in 1..Stops(p) /\ Start(p) + 2 * 1 - 1 = 1
      <4> HIDE DEF L
      <4> QED
        BY <1>1, <3>0
    <3> HIDE DEF q
    <3> QED
      BY <1>1, <3>1 DEF Slashes, q
  <2>3. L <= h /\ \A i \in 1..L : p[i] = H[i]
    BY <2>1 DEF Above
  <2> HIDE DEF q
  <2>4. PICK M : IsTable(M, t, q) /\ M[1][1]
    BY <1>2, <1>5, <2>1, FullMatchIs DEF MatchesGlob, q
  <2>5. ~(L < h)
    <3> SUFFICES ASSUME L < h PROVE FALSE
      OBVIOUS
    <3>1. L \in 1..L
      BY <1>1
    <3>2. M[End(L) + 1][End(L) + 1]
      BY <2>1, <2>2, <2>3, <2>4, <3>1, SegmentsEqual
    <3>3. End(L) + 1 \in Nat /\ End(L) + 1 <= Len(t) /\ End(L) + 1 \in 1..Len(t) + 1
          /\ End(L) + 1 \in 1..Len(q) + 1
      <4> HIDE DEF t, h, L
      <4> QED
        BY <1>1, <1>2, <2>1 DEF End
    <3>4. MatchesFrom(t, q, M, Len(q) + 1, End(L) + 1)
      <4> HIDE DEF t, h, L
      <4> QED
        BY <2>1, <2>4, <3>2, <3>3 DEF IsTable
    <3> HIDE DEF t, h, L
    <3> QED
      BY <1>2, <2>1, <3>3, <3>4, PiecesEnd
  <2>6. Len(p) = Len(H)
    BY <1>1, <1>2, <2>3, <2>5
  <2> QED
    BY <1>1, <1>2, <2>3, <2>6, SeqEqual
<1> QED
  BY <1>3, <1>4, <1>5 DEF IsUnder, MatchesGlob

-----------------------------------------------------------------------------
\* What lint takes a scope to name is what the engine takes it to be.

\* Words that do not climb, and an environment that adds none that do.
Straight(words) == \A i \in DOMAIN words : words[i] # ".."
NoClimb == Straight(Home) /\ \A name \in DOMAIN Variables : Straight(Variables[name])

Level == Words \ {".."}

LEMMA StraightIn ==
    ASSUME NEW words \in Seq(Words), Straight(words)
    PROVE  words \in Seq(Level)
<1>1. Len(words) \in Nat /\ words \in [1..Len(words) -> Words]
      /\ \A i \in 1..Len(words) : words[i] \in Level
  BY DEF Straight, Level
<1>2. words \in [1..Len(words) -> Level]
  BY <1>1
<1> QED
  BY <1>1, <1>2

Marked(s, m) == s \in Seq(Words) /\ Len(s) >= 2 /\ s[2] = m

\* The mark of a base that nobody knows stays where nothing climbs.
LEMMA MarkStays ==
    ASSUME NEW m, m \notin {"/", "."},
           NEW words \in Seq(Level), Len(words) >= 1, words[1] = m, "/" \in Words
    PROVE  Marked(Segments("/", words), m)
<1> DEFINE n == Len(words)
<1>0. n \in Nat \ {0} /\ words \in Seq(Words) /\ \A i \in 1..n : words[i] \in Words /\ words[i] # ".."
  <2>1. Level \subseteq Words
    BY DEF Level
  <2>2. words \in Seq(Words)
    BY <2>1, SeqWider
  <2> QED
    BY <2>2 DEF Level
<1>1. PICK f : Steps(f, "/", words) /\ Segments("/", words) = f[n]
  BY <1>0, SegmentsAre
<1>2. /\ \A i \in 0..n : f[i] \in Seq(Words)
      /\ f[0] = <<"/">>
      /\ \A i \in 1..n : f[i] = TakeSegment(f[i - 1], words[i])
  BY <1>1 DEF Steps
<1> DEFINE S == {i \in 0..n : i = 0 \/ Marked(f[i], m)}
<1>3. 0 \in S
  BY <1>0
<1>4. \A i \in 1..n : i - 1 \in S => i \in S
  <2> SUFFICES ASSUME NEW i \in 1..n, i - 1 \in S PROVE i \in S
    OBVIOUS
  <2>1. i \in 0..n /\ i - 1 \in 0..n /\ f[i] = TakeSegment(f[i - 1], words[i])
        /\ words[i] \in Words /\ words[i] # ".."
    BY <1>0, <1>2
  <2> DEFINE s == f[i - 1]
             w == words[i]
  <2>2. f[i] = IF w \notin {"/", "."} THEN Append(s, w) ELSE s
    BY <2>1 DEF TakeSegment
  <2>3. CASE i = 1
    <3>1. s = <<"/">> /\ w = m
      BY <1>2, <2>3
    <3>2. f[i] = Append(<<"/">>, m)
      BY <2>2, <3>1
    <3>3. <<"/">> \in Seq(Words) /\ Len(<<"/">>) = 1 /\ m \in Words
      BY <2>1, <3>1
    <3>4. Marked(f[i], m)
      BY <3>2, <3>3, AppendProperties DEF Marked
    <3> QED
      BY <2>1, <3>4
  <2>4. CASE i # 1
    <3>1. Marked(s, m) /\ w \in Words
      BY <2>1, <2>4
    <3> HIDE DEF s, w
    <3>2. Marked(Append(s, w), m)
      BY <3>1, AppendProperties DEF Marked
    <3>3. Marked(f[i], m)
      BY <2>2, <3>1, <3>2
    <3> QED
      BY <2>1, <3>3
  <2> QED
    BY <2>3, <2>4
<1>5. n \in S
  <2> HIDE DEF S, n
  <2>1. \A i \in 0..n : i \in S
    BY <1>0, <1>3, <1>4, Onwards
  <2> QED
    BY <1>0, <2>1
<1> QED
  BY <1>0, <1>1, <1>5

\* A base that nobody knows: what is resolved against it shows its mark.
Nowhere(m, more) == <<"/", m>> \o more

LEMMA NowhereWith ==
    ASSUME NEW m, NEW word
    PROVE  Nowhere(m, <<word>>) = <<"/", m, word>>
<1> DEFINE T == {"/", m, word}
           a == <<"/", m>>
           b == <<word>>
           t == <<"/", m, word>>
<1>1. /\ a \in Seq(T) /\ Len(a) = 2 /\ a[1] = "/" /\ a[2] = m
      /\ b \in Seq(T) /\ Len(b) = 1 /\ b[1] = word
      /\ t \in Seq(T) /\ Len(t) = 3 /\ t[1] = "/" /\ t[2] = m /\ t[3] = word
  OBVIOUS
<1> HIDE DEF a, b, t, T
<1> DEFINE s == a \o b
<1>2. /\ s \in Seq(T) /\ Len(s) = 3
      /\ \A i \in 1..3 : s[i] = IF i <= 2 THEN a[i] ELSE b[i - 2]
  <2>1. a \in Seq(T) /\ b \in Seq(T)
    BY <1>1
  <2>2. /\ s \in Seq(T) /\ Len(s) = Len(a) + Len(b)
        /\ \A i \in 1..Len(a) + Len(b) :
              s[i] = IF i <= Len(a) THEN a[i] ELSE b[i - Len(a)]
    BY <2>1, ConcatProperties
  <2> HIDE DEF s
  <2>3. Len(a) = 2 /\ Len(b) = 1
    BY <1>1
  <2> QED
    BY <2>2, <2>3
<1> HIDE DEF s
<1>3. s[1] = t[1] /\ s[2] = t[2] /\ s[3] = t[3]
  BY <1>1, <1>2
<1>4. s = t
  BY <1>1, <1>2, <1>3
<1> QED
  BY <1>4 DEF Nowhere, s, a, b, t

LEMMA NowhereShows ==
    ASSUME Posix, NEW m \in Level, m \notin {"/", "."}, NEW more \in Seq(Level),
           NEW text \in Seq(Level), ~(text # <<>> /\ Head(text) \in DOMAIN RootOf)
    PROVE  Marked(Resolve(text, Nowhere(m, more)), m)
<1> DEFINE from == Nowhere(m, more)
           path == from \o text
           words == (<<m>> \o more) \o text
<1>1. "/" \in DOMAIN RootOf /\ RootOf["/"] = "/" /\ "/" \in Words
  BY PathsAssumption, PosixRoot
<1>2. from # <<>> /\ Head(from) = "/" /\ path # <<>> /\ Head(path) = "/" /\ Tail(path) = words
  <2>1. from = <<"/">> \o (<<m>> \o more)
    BY DEF Nowhere
  <2> DEFINE a == <<m>> \o more
  <2>2. a \in Seq(Level)
    OBVIOUS
  <2> DEFINE T == Level \cup {"/"}
  <2>3. a \in Seq(T) /\ text \in Seq(T) /\ "/" \in T
    <3>1. Level \subseteq T
      OBVIOUS
    <3> HIDE DEF T, a
    <3> QED
      BY <2>2, <3>1, SeqWider DEF T
  <2> HIDE DEF T, a
  <2>4. Begins(T, "/", (<<"/">> \o a) \o text, a \o text)
    BY <2>3, BehindFirst
  <2>5. (<<"/">> \o a) # <<>> /\ Head(<<"/">> \o a) = "/"
    BY <2>3
  <2> QED
    BY <2>1, <2>4, <2>5 DEF Begins, a
<1>3. words \in Seq(Level) /\ Len(words) >= 1 /\ words[1] = m
  OBVIOUS
<1>4. Resolve(text, from) = Segments(RootOf[Head(path)], Tail(path))
  <2> HIDE DEF from
  <2> QED
    BY <1>1, <1>2 DEF Resolve
<1> HIDE DEF words, path, from
<1>5. Marked(Segments("/", words), m)
  BY <1>1, <1>3, MarkStays
<1> QED
  BY <1>1, <1>2, <1>4, <1>5 DEF from

\* What a pattern of directories resolves to: a path behind a root, or itself.
IsPlace(D, words) == BehindRoot(D) \/ (D = words /\ words # <<>> /\ Head(words) = "**")

LEMMA PlaceIs ==
    ASSUME NEW words, Written(words, Variables, Home) \in Seq(Level), NEW base \in Seq(Words),
           NEW D, D = ResolvePattern(words, base, FALSE), D # NoPath
    PROVE  IsPlace(D, words)
<1> DEFINE text == Written(words, Variables, Home)
<1>1. \/ D = words /\ words # <<>> /\ Head(words) = "**"
      \/ D = Resolve(text, base)
  <2> DEFINE expanded == ExpandVariables(words, Variables)
  <2> HIDE DEF expanded, text
  <2> QED
    BY DEF ResolvePattern, Resolved, Normalize, expanded, text
<1>2. Level \subseteq Words
  BY DEF Level
<1>3. text \in Seq(Words)
  BY <1>2, SeqWider
<1> HIDE DEF text
<1> QED
  BY <1>1, <1>3, ResolvesBehind DEF IsPlace

\* Where the mark does not show the base does not matter.
LEMMA PlacedAlways ==
    ASSUME Posix, NEW words, Written(words, Variables, Home) \in Seq(Level),
           NEW m \in Level, m \notin {"/", "."}, NEW more \in Seq(Level),
           NEW D, D = ResolvePattern(words, Nowhere(m, more), FALSE),
           D # NoPath, ~Marked(D, m), NEW base
    PROVE  ResolvePattern(words, base, FALSE) = D
<1> DEFINE from == Nowhere(m, more)
           expanded == ExpandVariables(words, Variables)
           unset == \E i \in DOMAIN expanded : expanded[i] \in Unset
           anywhere == words # <<>> /\ Head(words) = "**"
           text == Written(words, Variables, Home)
           rooted == text # <<>> /\ Head(text) \in DOMAIN RootOf
<1>1. \A b : /\ unset => ResolvePattern(words, b, FALSE) = NoPath
             /\ ~unset /\ anywhere => ResolvePattern(words, b, FALSE) = words
             /\ ~unset /\ ~anywhere => ResolvePattern(words, b, FALSE) = Resolve(text, b)
  <2> HIDE DEF expanded, text
  <2> QED
    BY DEF ResolvePattern, Resolved, Normalize, expanded, text
<1> HIDE DEF unset, text, from
<1>2. ~unset
  BY <1>1 DEF from
<1>3. CASE anywhere
  BY <1>1, <1>2, <1>3 DEF from
<1>4. CASE ~anywhere
  <2>1. D = Resolve(text, from) /\ ResolvePattern(words, base, FALSE) = Resolve(text, base)
    BY <1>1, <1>2, <1>4 DEF from
  <2>2. rooted
    <3> SUFFICES ASSUME ~rooted PROVE FALSE
      OBVIOUS
    <3>1. text \in Seq(Level)
      BY DEF text
    <3>2. Marked(Resolve(text, Nowhere(m, more)), m)
      BY <3>1, NowhereShows
    <3> QED
      BY <2>1, <3>2 DEF from
  <2>3. Resolve(text, from) = Resolve(text, base)
    BY <2>2 DEF Resolve
  <2> QED
    BY <2>1, <2>3
<1> QED
  BY <1>3, <1>4

\* A path behind a root that names no directories anywhere is a directory.
LEMMA LiteralBehind ==
    ASSUME Posix, NEW D, BehindRoot(D), Literal(D)
    PROVE  OneDirectory(D)
<1>1. /\ D \in Seq(Words) /\ D # <<>> /\ Head(D) \in DOMAIN RootOf /\ RootOf[Head(D)] = Head(D)
      /\ Len(D) \in Nat \ {0} /\ \A i \in 2..Len(D) : D[i] \notin {"/", "."}
  BY DEF BehindRoot, Kept
<1>2. D[1] = Head(D) /\ DOMAIN D = 1..Len(D)
  BY <1>1
<1>3. \A i \in DOMAIN D \ {1} : ~IsRoot(D[i]) /\ D[i] # "**"
  <2> SUFFICES ASSUME NEW i \in DOMAIN D \ {1} PROVE ~IsRoot(D[i]) /\ D[i] # "**"
    OBVIOUS
  <2>1. D[i] # "/"
    BY <1>1, <1>2
  <2>2. D[i] # "**"
    BY DEF Literal
  <2> QED
    BY <2>1, <2>2, PosixRoot
<1> QED
  BY <1>1, <1>2, <1>3 DEF IsDirectory, OneDirectory

LEMMA NamedIs ==
    ASSUME Posix, NoClimb, NEW words, IsWritten(words), NEW base \in Seq(Words),
           NEW cwd \in Seq(Words), NEW D \in NamedDirectory(words, base)
    PROVE  OneDirectory(D) /\ ResolvePattern(words, IF base = NoBase THEN cwd ELSE base, FALSE) = D
<1> DEFINE from == IF base = NoBase THEN <<"/", NoBaseMark, "base">> ELSE base
           there == IF base = NoBase THEN cwd ELSE base
<1>1. /\ D = ResolvePattern(words, from, FALSE) /\ Straight(words) /\ D # NoPath /\ Literal(D)
      /\ \A i \in DOMAIN D : D[i] # NoBaseMark
  BY DEF NamedDirectory, Straight
<1>2. words \in Seq(Words) /\ Home \in Seq(Words)
      /\ \A name \in DOMAIN Variables : Variables[name] \in Seq(Words)
  BY PathsAssumption DEF IsWritten
<1>3. Written(words, Variables, Home) \in Seq(Level)
  <2>1. words \in Seq(Level) /\ Home \in Seq(Level) /\ IsValues(Variables, Level)
    BY <1>1, <1>2, StraightIn DEF NoClimb, IsValues
  <2> QED
    BY <2>1, WrittenIn
<1>4. NoBaseMark \in Level /\ NoBaseMark \notin {"/", "."} /\ <<"base">> \in Seq(Level)
      /\ Nowhere(NoBaseMark, <<"base">>) = <<"/", NoBaseMark, "base">>
  <2>1. "base" \in Level /\ NoBaseMark \in Level
    BY LintAssumption DEF Level, NoBaseMark
  <2>2. NoBaseMark \notin {"/", "."}
    BY DEF NoBaseMark
  <2>3. Nowhere(NoBaseMark, <<"base">>) = <<"/", NoBaseMark, "base">>
    BY NowhereWith
  <2> QED
    BY <2>1, <2>2, <2>3
<1>5. ~Marked(D, NoBaseMark)
  <2>1. Marked(D, NoBaseMark) => 2 \in DOMAIN D /\ D[2] = NoBaseMark
    BY DEF Marked
  <2> QED
    BY <1>1, <2>1
<1>6. IsPlace(D, words)
  <2>1. from \in Seq(Words)
    <3>1. "/" \in Words /\ "base" \in Words /\ NoBaseMark \in Words
      BY PathsAssumption, PosixRoot, LintAssumption
    <3> QED
      BY <3>1
  <2> QED
    BY <1>1, <1>3, <2>1, PlaceIs
<1>7. OneDirectory(D)
  <2>1. BehindRoot(D)
    <3> SUFFICES ASSUME D = words, words # <<>>, Head(words) = "**" PROVE FALSE
      BY <1>6 DEF IsPlace
    <3>1. 1 \in DOMAIN D /\ D[1] = "**"
      BY <1>2
    <3> QED
      BY <1>1, <3>1 DEF Literal
  <2> QED
    BY <1>1, <2>1, LiteralBehind
<1>8. ResolvePattern(words, there, FALSE) = D
  <2>1. CASE base = NoBase
    <3>1. D = ResolvePattern(words, Nowhere(NoBaseMark, <<"base">>), FALSE)
      BY <1>1, <1>4, <2>1
    <3> QED
      BY <1>1, <1>3, <1>4, <1>5, <2>1, <3>1, PlacedAlways
  <2>2. CASE base # NoBase
    BY <1>1, <2>2
  <2> QED
    BY <2>1, <2>2
<1> QED
  BY <1>7, <1>8

-----------------------------------------------------------------------------
\* What a rule with a directory scope sees of a call.

HeresOf(facts) ==
    {Here(x, facts) : x \in facts.commands \cup facts.paths} \cup {MadeIn(facts)}

SeesPlace(H, area) == H # UnknownDir /\ UnderAny(H, area.under)
SeesRoot(d, area, ctx) == ~Asks(d, ctx.created, ctx.found) /\ Rooted(d, area, ctx) = "yes"

\* What is surely inside is in a place that is known, and lies in it,
LEMMA InsideIs ==
    ASSUME NEW H, NEW where, NEW area, NEW ctx, Inside(H, where, area, ctx) = "yes"
    PROVE  /\ H # UnknownDir /\ Placed(H, area)
           /\ area.roots # {} => Rooted(where, area, ctx) = "yes"
BY DEF Inside, Unknown

\* so that nobody sees anything of a call that is done nowhere in the scope.
LEMMA ViewPlaces ==
    ASSUME NEW facts, NEW area, NEW ctx, NEW view \in View(facts, area, ctx, "yes")
    PROVE  /\ area.under # {} => \E H \in HeresOf(facts) : SeesPlace(H, area)
           /\ area.roots # {} /\ ViewAsks(facts, area, ctx) = {} => \E d : SeesRoot(d, area, ctx)
<1> DEFINE here == MadeIn(facts)
<1>1. CASE IsNowhere(area)
  BY <1>1 DEF IsNowhere
<1>2. CASE ~IsNowhere(area) /\ facts.commands # {}
  <2>1. view \in Split(facts, area, ctx, "yes")
    BY <1>2 DEF View
  <2>2. PICK x \in facts.commands \cup facts.paths :
            Inside(Here(x, facts), Here(x, facts), area, ctx) = "yes"
    BY <2>1 DEF Split, Among, Part
  <2> DEFINE H == Here(x, facts)
  <2>3. /\ H # UnknownDir /\ Placed(H, area) /\ H \in HeresOf(facts)
        /\ area.roots # {} => Rooted(H, area, ctx) = "yes"
    BY <2>2, InsideIs DEF HeresOf
  <2>4. area.under # {} => SeesPlace(H, area)
    BY <2>3 DEF SeesPlace, Placed
  <2>5. ASSUME area.roots # {}, ViewAsks(facts, area, ctx) = {}
        PROVE  SeesRoot(H, area, ctx)
    <3>1. Wanted({d \in {Here(y, facts) : y \in facts.commands \cup facts.paths} :
                     d # UnknownDir /\ Placed(d, area)}, ctx) = {}
      BY <1>2, <2>5 DEF ViewAsks
    <3>2. ~Asks(H, ctx.created, ctx.found)
      BY <2>3, <3>1 DEF Wanted
    <3> QED
      BY <2>3, <2>5, <3>2 DEF SeesRoot
  <2> HIDE DEF H
  <2> QED
    BY <2>3, <2>4, <2>5
<1>3. CASE ~IsNowhere(area) /\ facts.commands = {}
  <2>1. view \in SplitPaths(facts, area, ctx, "yes")
    BY <1>3 DEF View
  <2>2. /\ ~(here = UnknownDir /\ area.under \cup area.notUnder # {})
        /\ ~(here # UnknownDir /\ ~Placed(here, area))
        /\ area.roots # {} => view \in RootedParts(facts, area, ctx, "yes")
    BY <2>1 DEF SplitPaths
  <2>3. area.under # {} => here \in HeresOf(facts) /\ SeesPlace(here, area)
    BY <2>2 DEF SeesPlace, Placed, HeresOf
  <2>4. ASSUME area.roots # {}, ViewAsks(facts, area, ctx) = {}
        PROVE  \E d : SeesRoot(d, area, ctx)
    <3>1. CASE facts.paths = {}
      <4>1. Rooted(here, area, ctx) = "yes"
        BY <2>2, <2>4, <3>1 DEF RootedParts
      <4>2. Wanted({here}, ctx) = {}
        BY <1>3, <2>2, <2>4, <3>1 DEF ViewAsks
      <4>3. SeesRoot(here, area, ctx)
        BY <4>1, <4>2 DEF SeesRoot, Wanted
      <4> QED
        BY <4>3
    <3>2. CASE facts.paths # {}
      <4>1. PICK p \in facts.paths : Rooted(p.path, area, ctx) = "yes"
        BY <2>2, <2>4, <3>2 DEF RootedParts, Part
      <4>2. Wanted({q.path : q \in facts.paths}, ctx) = {}
        BY <1>3, <2>2, <2>4, <3>2 DEF ViewAsks
      <4>3. SeesRoot(p.path, area, ctx)
        BY <4>1, <4>2 DEF SeesRoot, Wanted
      <4> QED
        BY <4>3
    <3> QED
      BY <3>1, <3>2
  <2> QED
    BY <2>3, <2>4
<1> QED
  BY <1>1, <1>2, <1>3

\* Reading an unknown directory as the call's adds no place.
LEMMA JudgedHeres ==
    ASSUME NEW rule
    PROVE  HeresOf(Judged(rule)) \subseteq HeresOf(proposed) /\ Judged(rule).cwd = proposed.cwd
<1> DEFINE home(fact) == IF fact.cwd = UnknownDir THEN [fact EXCEPT !.cwd = HereDir] ELSE fact
           moved == AtHome(proposed)
<1>1. CASE ~Deferred(rule)
  BY <1>1 DEF Judged
<1>2. CASE Deferred(rule)
  <2>1. Judged(rule) = moved
    BY <1>2 DEF Judged
  <2>2. /\ moved.commands = {home(c) : c \in proposed.commands}
        /\ moved.paths = {home(p) : p \in proposed.paths}
        /\ moved.cwd = proposed.cwd /\ MadeIn(moved) = MadeIn(proposed)
    BY DEF AtHome, MadeIn
  <2>3. ASSUME NEW x \in proposed.commands \cup proposed.paths
        PROVE  Here(home(x), moved) \in HeresOf(proposed)
    BY <2>2 DEF Here, HeresOf
  <2> HIDE DEF home, moved
  <2>4. \A y \in moved.commands \cup moved.paths : Here(y, moved) \in HeresOf(proposed)
    BY <2>2, <2>3
  <2>5. MadeIn(moved) \in HeresOf(proposed)
    BY <2>2 DEF HeresOf
  <2>6. HeresOf(moved) \subseteq HeresOf(proposed)
    BY <2>4, <2>5 DEF HeresOf
  <2> QED
    BY <2>1, <2>2, <2>6
<1> QED
  BY <1>1, <1>2

-----------------------------------------------------------------------------
\* On the machine as lint saw it.

\* What the machine has are directories, and all that is above one of them.
LEMMA MachineIs ==
    ASSUME scenario \in Scenarios, repositories = scenario.repositories,
           NEW H \in Machine
    PROVE  IsDirectory(H) /\ \A D \in Ancestors(H) : D \in Machine
<1>1. PICK p \in scenario.places \cup repositories : H \in Ancestors(p)
  BY DEF Machine
<1>2. IsDirectory(p)
  BY <1>1, EngineAssumption
<1>3. IsDirectory(H) /\ p \in Seq(Words)
  BY <1>1, <1>2, AncestorIsDirectory DEF IsDirectory
<1>4. \A D \in Ancestors(H) : D \in Ancestors(p)
  BY <1>1, <1>3, AncestorsUp
<1> QED
  BY <1>1, <1>3, <1>4 DEF Machine

LEMMA AboveIsAncestor ==
    ASSUME NEW H \in Seq(Words), NEW D, IsDirectory(D), Above(D, H)
    PROVE  D \in Ancestors(H)
<1> DEFINE n == Len(D)
<1>1. D \in Seq(Words) /\ n \in Nat \ {0} /\ n <= Len(H) /\ \A i \in 1..n : D[i] = H[i]
  BY DirectoryIs DEF Above, PathLike
<1>2. Len(H) \in Nat
  OBVIOUS
<1>3. n \in 1..Len(H)
  <2> HIDE DEF n
  <2> QED
    BY <1>1, <1>2
<1>4. /\ SubSeq(H, 1, n) \in Seq(Words) /\ Len(SubSeq(H, 1, n)) = n
      /\ \A i \in 1..n : SubSeq(H, 1, n)[i] = H[i]
  BY <1>3, BeginningIs
<1>5. D = SubSeq(H, 1, n)
  <2> DEFINE E == SubSeq(H, 1, n)
  <2> HIDE DEF E
  <2>1. E \in Seq(Words) /\ Len(E) = Len(D) /\ \A i \in 1..Len(D) : D[i] = E[i]
    BY <1>1, <1>4 DEF E
  <2> QED
    BY <1>1, <2>1, SeqEqual DEF E
<1> QED
  BY <1>3, <1>5 DEF Ancestors

\* A directory that something is done in or below has not drifted,
LEMMA NoDriftUnder ==
    ASSUME Posix, scenario \in Scenarios, repositories = scenario.repositories,
           NEW H \in Machine, NEW D, OneDirectory(D), IsUnder(H, D)
    PROVE  Drift("cwd_under", D, Machine, repositories, {}) = "nothing"
<1>1. IsDirectory(H) /\ \A E \in Ancestors(H) : E \in Machine
  BY MachineIs
<1>2. D \in Ancestors(H)
  BY <1>1, LiteralMatch, AboveIsAncestor DEF OneDirectory, IsDirectory
<1> QED
  BY <1>1, <1>2 DEF Drift

\* and a repository that is nearest to something neither.
LEMMA NoDriftRoot ==
    ASSUME Posix, scenario \in Scenarios, repositories = scenario.repositories,
           NEW d \in Seq(Words), NEW R, R = FindRoot(d, repositories, <<>>), R # NoRepository,
           NEW D, OneDirectory(D), MatchesGlob(R, D)
    PROVE  Drift("repo_root", D, Machine, repositories, {}) = "nothing"
<1>1. Nearest(d, repositories, R)
  BY FindRootIs DEF NoRepository
<1>2. R \in Ancestors(d) /\ R \in repositories /\ IsDirectory(R)
  <2>1. R \in Ancestors(d) /\ R \in repositories
    BY <1>1 DEF Nearest
  <2> QED
    BY <2>1, EngineAssumption
<1>3. D = R
  BY <1>2, LiteralMatch
<1>4. R \in Ancestors(R) /\ R \in Seq(Words) /\ Len(R) \in Nat
  <2>1. Above(R, R) /\ R \in Seq(Words) /\ Len(R) \in Nat
    BY <1>2, DirectoryIs DEF Above, PathLike
  <2> QED
    BY <1>2, <2>1, AboveIsAncestor
<1>5. R \in Machine
  BY <1>2, <1>4 DEF Machine
<1>6. FindRoot(R, repositories, <<>>) = R
  BY <1>1, <1>2, <1>4, NearestStays
<1> QED
  BY <1>3, <1>5, <1>6 DEF Drift

\* Of a stale rule all directories, or all repositories, have drifted.
Drifted(rule, field, patterns) ==
    /\ patterns # {}
    /\ \A words \in patterns : \E D \in NamedDirectory(words, rule.base) :
           Drift(field, D, Machine, repositories, {}) # "nothing"

LEMMA StaleIs ==
    ASSUME NEW rule, IsStale(rule)
    PROVE  Drifted(rule, "cwd_under", rule.under) \/ Drifted(rule, "repo_root", rule.roots)
<1> DEFINE stale == StaleScopes(rule, Machine, repositories, {})
<1>1. ASSUME NEW field, NEW patterns, patterns # {}, {<<field, d>> : d \in patterns} \subseteq stale
      PROVE  Drifted(rule, field, patterns)
  <2> SUFFICES ASSUME NEW words \in patterns
               PROVE  \E D \in NamedDirectory(words, rule.base) :
                          Drift(field, D, Machine, repositories, {}) # "nothing"
    BY <1>1 DEF Drifted
  <2> DEFINE scope == <<field, words>>
  <2>1. scope \in stale /\ scope[1] = field /\ scope[2] = words
    BY <1>1
  <2> QED
    BY <2>1 DEF StaleScopes
<1> HIDE DEF stale
<1> QED
  BY <1>1 DEF IsStale, stale

\* The scope of a rule, as it is judged.
LEMMA ScopeIs ==
    ASSUME Scene, Given, NEW i \in Places
    PROVE  LET rule == RuleAt(i)
               area == ContextAt(i).area
               from == IF rule.base = NoBase THEN proposed.cwd ELSE rule.base
           IN  /\ proposed.cwd \in Seq(Words) /\ rule.base \in Seq(Words)
               /\ \A words \in rule.under \cup rule.roots : IsWritten(words)
               /\ area.under = {ResolvePattern(words, from, FALSE) : words \in rule.under}
               /\ area.roots = {ResolvePattern(words, from, FALSE) : words \in rule.roots}
<1> DEFINE rule == RuleAt(i)
<1>1. \A words \in {rule.base} \cup rule.under \cup rule.notUnder \cup rule.roots : IsWritten(words)
  BY EngineAssumption DEF Scene, Places, RuleAt
<1>2. proposed.cwd \in Seq(Words)
  <2>1. IsWritten(scenario.call.given)
    BY EngineAssumption DEF Given
  <2>2. BehindRoot(proposed.cwd)
    BY <2>1, CallIsPlaced DEF Given
  <2> QED
    BY <2>2 DEF BehindRoot
<1>3. ContextAt(i).area = AreaOf(rule, Judged(rule)) /\ Judged(rule).cwd = proposed.cwd
  BY ContextIs, JudgedHeres DEF ContextAt
<1> HIDE DEF rule
<1>4. rule.base \in Seq(Words)
  BY <1>1 DEF IsWritten
<1> QED
  BY <1>1, <1>2, <1>3, <1>4 DEF AreaOf, Area, rule

\* What the engine looked up is on the machine, so that a stale rule sees
\* nothing of the call.
LEMMA StaleSeesNothing ==
    ASSUME Posix, NoClimb, Scene, Given, Answered, OnMachine, repositories = scenario.repositories,
           NEW i \in Places, IsStale(RuleAt(i)),
           ViewAsks(FactsAt(i), ContextAt(i).area, ContextAt(i)) = {}
    PROVE  View(FactsAt(i), ContextAt(i).area, ContextAt(i), "yes") = {}
<1> DEFINE rule == RuleAt(i)
           facts == FactsAt(i)
           ctx == ContextAt(i)
           area == ctx.area
           from == IF rule.base = NoBase THEN proposed.cwd ELSE rule.base
<1> SUFFICES ASSUME NEW view \in View(facts, area, ctx, "yes") PROVE FALSE
  OBVIOUS
<1>1. /\ proposed.cwd \in Seq(Words) /\ rule.base \in Seq(Words)
      /\ \A words \in rule.under \cup rule.roots : IsWritten(words)
      /\ area.under = {ResolvePattern(words, from, FALSE) : words \in rule.under}
      /\ area.roots = {ResolvePattern(words, from, FALSE) : words \in rule.roots}
  BY ScopeIs
<1>2. /\ area.under # {} => \E H \in HeresOf(facts) : SeesPlace(H, area)
      /\ area.roots # {} => \E d : SeesRoot(d, area, ctx)
  BY ViewPlaces
<1>3. Drifted(rule, "cwd_under", rule.under) \/ Drifted(rule, "repo_root", rule.roots)
  BY StaleIs
<1>4. HeresOf(facts) \subseteq Machine /\ changes = 0 /\ CreatedRepositories(proposed) = {}
  BY JudgedHeres DEF OnMachine, HeresOf, FactsAt
<1>5. ctx.created = {} /\ ctx.found = found /\ AsOnDisk(found) /\ ArePaths(DOMAIN found)
  BY <1>4, ContextIs DEF Answered, ContextAt
<1> HIDE DEF rule, facts, ctx, area
<1>9. (rule.under # {} => area.under # {}) /\ (rule.roots # {} => area.roots # {})
  <2>1. ASSUME NEW words \in rule.under PROVE area.under # {}
    <3>1. ResolvePattern(words, from, FALSE) \in area.under
      BY <1>1
    <3> QED
      BY <3>1
  <2>2. ASSUME NEW words \in rule.roots PROVE area.roots # {}
    <3>1. ResolvePattern(words, from, FALSE) \in area.roots
      BY <1>1
    <3> QED
      BY <3>1
  <2> QED
    BY <2>1, <2>2
<1>6. ASSUME NEW words \in rule.under \cup rule.roots, NEW D \in NamedDirectory(words, rule.base)
      PROVE  OneDirectory(D) /\ ResolvePattern(words, from, FALSE) = D
  BY <1>1, NamedIs
<1> HIDE DEF from
<1>7. CASE Drifted(rule, "cwd_under", rule.under)
  <2>1. PICK H \in HeresOf(facts) : SeesPlace(H, area)
    BY <1>2, <1>7, <1>9 DEF Drifted
  <2>2. PICK words \in rule.under : IsUnder(H, ResolvePattern(words, from, FALSE))
    BY <1>1, <2>1 DEF SeesPlace, UnderAny
  <2>3. PICK D \in NamedDirectory(words, rule.base) :
            Drift("cwd_under", D, Machine, repositories, {}) # "nothing"
    BY <1>7 DEF Drifted
  <2>4. OneDirectory(D) /\ IsUnder(H, D) /\ H \in Machine
    BY <1>4, <1>6, <2>2
  <2> QED
    BY <2>3, <2>4, NoDriftUnder DEF Given
<1>8. CASE Drifted(rule, "repo_root", rule.roots)
  <2>1. PICK d : SeesRoot(d, area, ctx)
    BY <1>2, <1>8, <1>9 DEF Drifted
  <2>2. /\ ~Asks(d, {}, found) /\ MadeAround(d, {}) = {}
        /\ RootedAt(Root(d, ctx), area) = "yes"
    BY <1>5, <2>1 DEF SeesRoot, Rooted, MadeAround
  <2> DEFINE R == Root(d, ctx)
  <2>3. R # UnknownDir /\ R # NoRepository /\ \E wanted \in area.roots : MatchesGlob(R, wanted)
    BY <2>2 DEF RootedAt, Unknown, Answer
  <2>4. R = found[d] /\ d \in DOMAIN found
    BY <1>5, <2>2, <2>3 DEF Root, RootAmong, Asks
  <2> HIDE DEF R
  <2>5. R = FindRoot(d, repositories, <<>>) /\ d \in Seq(Words)
    BY <1>5, <2>4 DEF AsOnDisk, ArePaths
  <2>6. PICK words \in rule.roots : MatchesGlob(R, ResolvePattern(words, from, FALSE))
    BY <1>1, <2>3
  <2>7. PICK D \in NamedDirectory(words, rule.base) :
            Drift("repo_root", D, Machine, repositories, {}) # "nothing"
    BY <1>8 DEF Drifted
  <2>8. OneDirectory(D) /\ MatchesGlob(R, D)
    BY <1>6, <2>6
  <2> QED
    BY <2>3, <2>5, <2>7, <2>8, NoDriftRoot DEF Given
<1> QED
  BY <1>3, <1>7, <1>8

-----------------------------------------------------------------------------
\* While nobody changes anything the repositories are those of the start.
StaleInv ==
    /\ changes = 0 => repositories = scenario.repositories
    /\ StaleIsSilent

LEMMA StaleNext ==
    ASSUME Posix, NoClimb, JudgeInv, Given, Answered, StaleInv, [Next]_vars
    PROVE  StaleInv'
<1>1. \/ changes' = changes + 1
      \/ UNCHANGED <<scenario, proposed, repositories, changes>>
  BY DEF Next, vars, environment, Proceed, LookUp, LookUpFails, ReadHistory, RuleFails,
         ExceptionFails, Judge, Decide, DiskChanges, CallIsLogged, Done
<1>2. CASE changes' = changes + 1
  <2>1. changes' # 0
    BY <1>2 DEF Answered
  <2> QED
    BY <2>1 DEF StaleInv, StaleIsSilent, OnMachine
<1>3. CASE UNCHANGED <<scenario, proposed, repositories, changes>>
  <2>1. /\ OnMachine' <=> OnMachine
        /\ Rules' = Rules
        /\ \A rule : IsStale(rule)' <=> IsStale(rule)
    BY <1>3 DEF OnMachine, Rules, IsStale, Machine
  <2>2. SUFFICES ASSUME OnMachine, NEW rule \in Rules, IsStale(rule),
                        rule.id \in fired' \cup excepted'
                 PROVE  FALSE
    BY <1>3, <2>1 DEF StaleInv, StaleIsSilent, HasFired
  <2>3. rule.id \notin fired \cup excepted /\ changes = 0 /\ repositories = scenario.repositories
    BY <2>2 DEF StaleInv, StaleIsSilent, HasFired, OnMachine
  <2>4. changes' = 0
    BY <1>3, <2>3
  <2>5. Judge
    BY <2>2, <2>3, <2>4 DEF Next, vars, outcome, Proceed, LookUp, LookUpFails, ReadHistory,
       RuleFails, ExceptionFails, Decide, DiskChanges, CallIsLogged, Done
  <2>6. asking = Ready /\ asking # Idle
    BY <2>5 DEF Judge, Ready, Idle
  <2>7. Finishes
    BY <2>2, <2>3, StepKinds DEF LeavesAlone, AsksNext, Answers, Decides, outcome
  <2> DEFINE i == Turn
             verdict == Verdict(Judgement(RuleAt(i), FactsAt(i), ContextAt(i)))
  <2>8. rule.id = IdAt(i) /\ verdict \in {"fired", "excepted"}
    BY <2>2, <2>3, <2>6, <2>7 DEF Finishes, Adds, Ready
  <2>9. i \in Places /\ IsContext(ContextAt(i)) /\ AsksNow = {}
    BY <2>6, AsksNowAre
  <2>10. rule = RuleAt(i)
    <3>1. PICK k \in Places : rule = RuleAt(k)
      BY DEF Rules, ToSet, Places, RuleAt
    <3>2. IdAt(k) = IdAt(i)
      BY <2>8, <3>1 DEF IdAt
    <3> QED
      BY <2>9, <3>1, <3>2, RulesAre DEF JudgeInv
  <2> HIDE DEF i
  <2>11. ForTool(RuleAt(i).tools, FactsAt(i)) /\ FiresGiven(RuleAt(i), FactsAt(i), ContextAt(i))
    BY <2>8, VerdictIs
  <2>12. NextAsks(RuleAt(i), FactsAt(i), ContextAt(i)) = {}
    BY <2>9 DEF AsksNow, i
  <2>13. ViewAsks(FactsAt(i), ContextAt(i).area, ContextAt(i)) = {}
    BY <2>9, <2>11, <2>12, NextAsksIs DEF RootsOf
  <2>14. View(FactsAt(i), ContextAt(i).area, ContextAt(i), "yes") = {}
    BY <2>2, <2>3, <2>9, <2>10, <2>13, StaleSeesNothing DEF JudgeInv
  <2> QED
    BY <2>11, <2>14 DEF FiresGiven
<1> QED
  BY <1>1, <1>2, <1>3

(***************************************************************************)
(* lint's word on stale scopes is certain: while nobody changes anything   *)
(* and nothing fails, a rule all of whose directories, or all of whose     *)
(* repositories, lint reports as stale neither fires nor is excepted,      *)
(* wherever on the machine the call is made and runs.  On POSIX, and as    *)
(* long as no variable's value climbs (_named_directory; _drift).          *)
(***************************************************************************)
THEOREM StaleRulesAreSilent ==
    ASSUME Posix, NoClimb
    PROVE  Spec => []StaleIsSilent
<1>1. Init => StaleInv
  BY DEF Init, StaleInv, StaleIsSilent, HasFired
<1>2. JudgeInv /\ Given /\ Answered /\ StaleInv /\ [Next]_vars => StaleInv'
  BY StaleNext
<1>3. StaleInv => StaleIsSilent
  BY DEF StaleInv
<1> QED
  BY <1>1, <1>2, <1>3, JudgesInTurn, GivenAlways, AnswersAreRight, PTL DEF Spec

-----------------------------------------------------------------------------
\* Which words of a command come behind a subcommand.

Readings == [skip : BOOLEAN, rest : BOOLEAN, found : Seq(Nat)]
NothingRead == [skip |-> FALSE, rest |-> FALSE, found |-> <<>>]

LEMMA TakesOne ==
    ASSUME NEW reading \in Readings, NEW i \in Nat, NEW word, NEW flags
    PROVE  /\ TakeWord(reading, i, word, flags) \in Readings
           /\ TakeWord(reading, i, word, flags).found
                  \in {reading.found, Append(reading.found, i)}
<1> DEFINE takes == [reading EXCEPT !.found = Append(reading.found, i)]
           skips(b) == [reading EXCEPT !.skip = b]
           rests == [reading EXCEPT !.rest = TRUE]
<1>1. reading.found \in Seq(Nat) /\ Append(reading.found, i) \in Seq(Nat)
  BY DEF Readings
<1>2. takes \in Readings /\ takes.found = Append(reading.found, i)
  <2> DEFINE more == Append(reading.found, i)
  <2> HIDE DEF more
  <2>1. more \in Seq(Nat)
    BY <1>1 DEF more
  <2>2. [reading EXCEPT !.found = more] \in Readings /\ [reading EXCEPT !.found = more].found = more
    BY <2>1 DEF Readings
  <2> QED
    BY <2>2 DEF more
<1>3. \A b \in BOOLEAN : skips(b) \in Readings /\ skips(b).found = reading.found
  BY DEF Readings
<1>4. rests \in Readings /\ rests.found = reading.found
  BY DEF Readings
<1>5. TakeWord(reading, i, word, flags) \in {takes, skips(TRUE), skips(FALSE), rests, reading}
  BY DEF TakeWord
<1> HIDE DEF takes, skips, rests
<1> QED
  BY <1>2, <1>3, <1>4, <1>5

\* The places found by a word: each further on than those before it.
Upward(places, i) ==
    /\ places \in Seq(Nat) /\ \A j \in 1..Len(places) : places[j] \in 2..i
    /\ \A j, k \in 1..Len(places) : j < k => places[j] < places[k]

LEMMA UpwardOn ==
    ASSUME NEW i \in Nat, i >= 2, NEW places, Upward(places, i - 1)
    PROVE  Upward(places, i) /\ Upward(Append(places, i), i)
<1>1. places \in Seq(Nat) /\ Len(places) \in Nat
  BY DEF Upward
<1>2. Upward(places, i)
  BY DEF Upward
<1> DEFINE more == Append(places, i)
           n == Len(places)
<1>3. more \in Seq(Nat) /\ Len(more) = n + 1 /\ more[n + 1] = i /\ \A j \in 1..n : more[j] = places[j]
  BY <1>1
<1> HIDE DEF more
<1>4. \A j \in 1..Len(more) : more[j] \in 2..i
  <2> SUFFICES ASSUME NEW j \in 1..Len(more) PROVE more[j] \in 2..i
    OBVIOUS
  <2>1. CASE j = n + 1
    BY <1>3, <2>1
  <2>2. CASE j \in 1..n
    <3>1. more[j] = places[j] /\ places[j] \in 2..i - 1
      BY <1>3, <2>2 DEF Upward
    <3> QED
      BY <3>1
  <2> HIDE DEF n
  <2> QED
    BY <1>1, <1>3, <2>1, <2>2 DEF n
<1>5. \A j, k \in 1..Len(more) : j < k => more[j] < more[k]
  <2> SUFFICES ASSUME NEW j \in 1..Len(more), NEW k \in 1..Len(more), j < k
               PROVE  more[j] < more[k]
    OBVIOUS
  <2>1. j \in 1..n /\ more[j] = places[j] /\ places[j] \in 2..i - 1
    BY <1>1, <1>3 DEF Upward
  <2>2. CASE k = n + 1
    BY <1>3, <2>1, <2>2
  <2>3. CASE k \in 1..n
    BY <1>3, <2>1, <2>3 DEF Upward
  <2>4. k = n + 1 \/ k \in 1..n
    <3>1. n \in Nat /\ Len(more) = n + 1 /\ k \in 1..Len(more)
      BY <1>1, <1>3
    <3> HIDE DEF n
    <3> QED
      BY <3>1
  <2> QED
    BY <2>2, <2>3, <2>4
<1>6. Upward(more, i)
  BY <1>3, <1>4, <1>5 DEF Upward
<1> QED
  BY <1>2, <1>6 DEF more

\* operand_positions gives the places in order.
LEMMA PositionsUpward ==
    ASSUME NEW T, NEW argv \in Seq(T), argv # <<>>, NEW flags
    PROVE  Upward(OperandPositions(argv, flags), Len(argv))
<1> DEFINE n == Len(argv)
           G == [i \in 1..n - 1 |->
                    [r \in Readings |-> TakeWord(r, i + 1, argv[i + 1], flags)]]
           nth(g, i) == IF i = 1 THEN NothingRead
                        ELSE TakeWord(g[i - 1], i, argv[i], flags)
           Is(g) == g = [i \in DOMAIN argv |-> nth(g, i)]
           chosen == CHOOSE g : Is(g)
<1>0. n \in Nat \ {0} /\ DOMAIN argv = 1..n /\ n - 1 \in Nat
  OBVIOUS
<1>1. G \in [1..n - 1 -> [Readings -> Readings]] /\ NothingRead \in Readings
  <2>1. \A i \in 1..n - 1 : \A r \in Readings : TakeWord(r, i + 1, argv[i + 1], flags) \in Readings
    BY <1>0, TakesOne
  <2>2. <<>> \in Seq(Nat)
    OBVIOUS
  <2>3. NothingRead \in Readings
    BY <2>2 DEF NothingRead, Readings
  <2> QED
    BY <2>1, <2>3
<1>2. PICK h : IsChain(h, n - 1, Readings, NothingRead, G)
  <2> HIDE DEF n, G
  <2> QED
    BY <1>0, <1>1, ChainFunction
<1>3. h \in [0..n - 1 -> Readings] /\ h[0] = NothingRead /\ \A i \in 1..n - 1 : h[i] = G[i][h[i - 1]]
  BY <1>2 DEF IsChain
<1>4. \A i \in 1..n - 1 : h[i - 1] \in Readings
                          /\ h[i] = TakeWord(h[i - 1], i + 1, argv[i + 1], flags)
  <2> SUFFICES ASSUME NEW i \in 1..n - 1
               PROVE  h[i - 1] \in Readings
                      /\ h[i] = TakeWord(h[i - 1], i + 1, argv[i + 1], flags)
    OBVIOUS
  <2>1. i - 1 \in 0..n - 1
    BY <1>0
  <2> HIDE DEF n
  <2>2. h[i - 1] \in Readings /\ h[i] = G[i][h[i - 1]]
    BY <1>3, <2>1
  <2> QED
    BY <2>2
<1> HIDE DEF n, G
<1> DEFINE g0 == [i \in DOMAIN argv |-> h[i - 1]]
<1>5. Is(g0)
  <2>1. \A i \in 1..n : g0[i] = nth(g0, i)
    <3> SUFFICES ASSUME NEW i \in 1..n PROVE g0[i] = nth(g0, i)
      OBVIOUS
    <3>1. CASE i = 1
      BY <1>0, <1>3, <3>1
    <3>2. CASE i # 1
      <4>1. i - 1 \in 1..n - 1 /\ i - 1 \in 1..n /\ (i - 1) + 1 = i
        BY <1>0, <3>2
      <4>2. h[i - 1] = TakeWord(h[(i - 1) - 1], (i - 1) + 1, argv[(i - 1) + 1], flags)
        BY <1>4, <4>1
      <4>3. g0[i] = h[i - 1] /\ g0[i - 1] = h[(i - 1) - 1]
        BY <1>0, <4>1
      <4> QED
        BY <3>2, <4>1, <4>2, <4>3
    <3> QED
      BY <3>1, <3>2
  <2> HIDE DEF nth
  <2> QED
    BY <1>0, <2>1
<1>6. Is(chosen)
  BY <1>5
<1>7. OperandPositions(argv, flags) = chosen[n].found
  BY DEF OperandPositions, NothingRead, n
<1>8. \A i \in 1..n : chosen[i] = nth(chosen, i)
  <2> HIDE DEF chosen, nth
  <2> QED
    BY <1>0, <1>6
<1> DEFINE S == {i \in 0..n - 1 : chosen[i + 1] \in Readings /\ Upward(chosen[i + 1].found, i + 1)}
<1>9. n - 1 \in S
  <2> HIDE DEF chosen
  <2>1. 0 \in S
    <3>1. 1 \in 1..n /\ 0 + 1 = 1 /\ 0 \in 0..n - 1
      BY <1>0
    <3>2. chosen[1] = NothingRead
      BY <1>8, <3>1
    <3>3. NothingRead.found = <<>> /\ Upward(<<>>, 1)
      BY DEF NothingRead, Upward
    <3> QED
      BY <1>1, <3>1, <3>2, <3>3
  <2>2. \A i \in 1..n - 1 : i - 1 \in S => i \in S
    <3> SUFFICES ASSUME NEW i \in 1..n - 1, i - 1 \in S PROVE i \in S
      OBVIOUS
    <3>1. i + 1 \in 1..n /\ i + 1 # 1 /\ (i + 1) - 1 = i /\ (i - 1) + 1 = i /\ i \in 0..n - 1
          /\ i + 1 \in Nat /\ i + 1 >= 2
      BY <1>0
    <3>2. chosen[i + 1] = TakeWord(chosen[i], i + 1, argv[i + 1], flags)
      BY <1>8, <3>1
    <3>3. chosen[i] \in Readings /\ Upward(chosen[i].found, i)
      BY <3>1
    <3>4. /\ chosen[i + 1] \in Readings
          /\ chosen[i + 1].found \in {chosen[i].found, Append(chosen[i].found, i + 1)}
      BY <3>1, <3>2, <3>3, TakesOne
    <3>5. /\ Upward(chosen[i].found, i + 1) /\ Upward(Append(chosen[i].found, i + 1), i + 1)
      BY <3>1, <3>3, UpwardOn
    <3> QED
      BY <3>1, <3>4, <3>5
  <2> HIDE DEF S
  <2>3. \A i \in 0..n - 1 : i \in S
    BY <1>0, <2>1, <2>2, Onwards
  <2> QED
    BY <1>0, <2>3
<1> HIDE DEF chosen
<1>10. (n - 1) + 1 = n
  BY <1>0
<1> QED
  BY <1>7, <1>9, <1>10 DEF n

Behind(argv, p) == SubSeq(argv, p + 1, Len(argv))
HasWord(words, word) == \E j \in DOMAIN words : words[j] = word

\* What stands behind a place stands behind every earlier one.
LEMMA FurtherBehind ==
    ASSUME NEW T, NEW argv \in Seq(T), NEW p \in 1..Len(argv), NEW q \in 1..Len(argv), q <= p,
           NEW i \in DOMAIN Behind(argv, p)
    PROVE  HasWord(Behind(argv, q), Behind(argv, p)[i])
<1> DEFINE n == Len(argv)
<1>1. n \in Nat /\ (\A k \in 1..n : argv[k] \in T) /\ p + 1 \in Int /\ q + 1 \in Int /\ n \in Int
  OBVIOUS
<1> DEFINE u == SubSeq(argv, p + 1, n)
           v == SubSeq(argv, q + 1, n)
<1>2. /\ u \in Seq(T) /\ Len(u) = (IF p + 1 <= n THEN n - (p + 1) + 1 ELSE 0)
      /\ \A k \in 1..n - (p + 1) + 1 : u[k] = argv[p + 1 + k - 1]
  <2>1. \A k \in p + 1..n : argv[k] \in T
    BY <1>1
  <2> QED
    BY <1>1, <2>1, SubSeqProperties
<1>3. /\ v \in Seq(T) /\ Len(v) = (IF q + 1 <= n THEN n - (q + 1) + 1 ELSE 0)
      /\ \A k \in 1..n - (q + 1) + 1 : v[k] = argv[q + 1 + k - 1]
  <2>1. \A k \in q + 1..n : argv[k] \in T
    BY <1>1
  <2> QED
    BY <1>1, <2>1, SubSeqProperties
<1>4. i \in DOMAIN u
  BY DEF Behind
<1> HIDE DEF u, v
<1>5. i \in 1..n - p /\ u[i] = argv[p + i]
  <2>1. i \in 1..Len(u) /\ Len(u) \in Nat
    BY <1>2, <1>4
  <2>2. i \in 1..n - (p + 1) + 1
    BY <1>1, <1>2, <2>1
  <2>3. u[i] = argv[p + 1 + i - 1]
    BY <1>2, <2>2
  <2>4. p + 1 + i - 1 = p + i
    BY <2>1
  <2> QED
    BY <1>1, <2>2, <2>3
<1> DEFINE j == (p - q) + i
<1>6. j \in 1..n - (q + 1) + 1 /\ q + 1 + j - 1 = p + i /\ j \in 1..Len(v)
  BY <1>1, <1>3, <1>5
<1> HIDE DEF j
<1>7. v[j] = u[i]
  BY <1>3, <1>5, <1>6
<1>8. j \in DOMAIN v
  BY <1>3, <1>6
<1> QED
  BY <1>7, <1>8 DEF u, v, Behind, HasWord

(***************************************************************************)
(* command_implies is sound: whatever its flags, its subcommand and its    *)
(* other words, a command that the one predicate describes the other       *)
(* describes as well, also where that names less of the subcommand and so  *)
(* looks at more words.                                                    *)
(***************************************************************************)
THEOREM ImpliedCommandsMatch ==
    ASSUME NEW T, NEW command, command.argv \in Seq(T), command.argv # <<>>,
           NEW a, NEW U, a.subcommand \in Seq(U), NEW b, b.subcommand \in Seq(U),
           CommandImplies(a, b), CommandMatches(command, a)
    PROVE  CommandMatches(command, b)
<1> DEFINE argv == command.argv
           n == Len(argv)
           at == OperandPositions(argv, OptionsOf(argv[1]))
           x == Len(a.subcommand)
           y == Len(b.subcommand)
           rest(count) == IF count = 0 THEN Tail(argv) ELSE SubSeq(argv, at[count] + 1, n)
           listed(words, globs) == \E i \in DOMAIN words, glob \in globs : Globbed(words[i], glob)
<1>1. Upward(at, n)
  BY PositionsUpward
<1>2. n \in Nat \ {0} /\ x \in Nat /\ y \in Nat /\ at \in Seq(Nat) /\ Len(at) \in Nat
  BY <1>1 DEF Upward
<1>3. /\ a.program # {} => argv[1] \in a.program
      /\ Len(at) >= x
      /\ \A i \in 1..x : argv[at[i]] = a.subcommand[i]
      /\ a.any # {} => \E flag \in a.any : HasFlag(argv, flag)
      /\ \A flag \in a.all : HasFlag(argv, flag)
      /\ \A flag \in a.none : ~HasFlag(argv, flag)
      /\ a.args # {} => listed(rest(x), a.args)
      /\ ~listed(rest(x), a.noArgs)
  <2> HIDE DEF at
  <2> QED
    BY DEF CommandMatches, MatchesAt, at
<1>4. y <= x /\ \A i \in 1..y : a.subcommand[i] = b.subcommand[i]
  BY DEF CommandImplies, IsPrefix
<1> HIDE DEF at
<1>5. b.program # {} => argv[1] \in b.program
  BY <1>3 DEF CommandImplies
<1>6. Len(at) >= y /\ \A i \in 1..y : argv[at[i]] = b.subcommand[i]
  <2>1. Len(at) >= y /\ \A i \in 1..y : i \in 1..x
    BY <1>2, <1>3, <1>4
  <2> HIDE DEF argv, x, y
  <2> QED
    BY <1>3, <1>4, <2>1
<1>7. /\ b.any # {} => \E flag \in b.any : HasFlag(argv, flag)
      /\ \A flag \in b.all : HasFlag(argv, flag)
      /\ \A flag \in b.none : ~HasFlag(argv, flag)
  BY <1>3 DEF CommandImplies
<1>8. ~listed(rest(y), b.noArgs)
  <2>1. CASE b.noArgs = {}
    BY <2>1
  <2>2. CASE b.noArgs # {}
    BY <1>3, <2>2 DEF CommandImplies
  <2> QED
    BY <2>1, <2>2
<1>9. ASSUME NEW i \in DOMAIN rest(x)
      PROVE  HasWord(rest(y), rest(x)[i])
  <2>1. CASE x = y
    BY <1>9, <2>1 DEF HasWord
  <2>2. CASE x # y
    <3>1. x \in 1..Len(at) /\ (y = 0 \/ (y \in 1..Len(at) /\ y < x))
      <4>1. x \in Nat /\ y \in Nat /\ Len(at) \in Nat
        BY <1>2
      <4>2. Len(at) >= x
        BY <1>3
      <4>3. y <= x /\ x # y
        BY <1>4, <2>2
      <4> HIDE DEF x, y
      <4>4. y < x
        BY <4>1, <4>3
      <4>5. x \in 1..Len(at)
        BY <4>1, <4>2, <4>4
      <4>6. y = 0 \/ y \in 1..Len(at)
        BY <4>1, <4>2, <4>4
      <4> QED
        BY <4>4, <4>5, <4>6
    <3>2. at[x] \in 2..n /\ (y # 0 => at[y] \in 2..n /\ at[y] < at[x])
      BY <1>1, <3>1 DEF Upward
    <3>3. PICK p \in 1..n : at[x] = p
      BY <3>2
    <3>4. PICK q \in 1..n : q <= p /\ q = IF y = 0 THEN 1 ELSE at[y]
      <4>1. CASE y = 0
        <5>1. 1 \in 1..n /\ 1 <= p
          BY <1>2, <3>3
        <5> QED
          BY <4>1, <5>1
      <4>2. CASE y # 0
        <5>1. at[y] \in 1..n /\ at[y] <= p
          BY <3>2, <3>3, <4>2
        <5> QED
          BY <4>2, <5>1
      <4> QED
        BY <4>1, <4>2
    <3>5. rest(x) = Behind(argv, p)
      <4>1. x # 0
        BY <1>2, <3>1
      <4> QED
        BY <3>3, <4>1 DEF Behind
    <3>6. rest(y) = Behind(argv, q)
      <4>1. CASE y = 0
        <5>1. rest(y) = Tail(argv) /\ q = 1
          BY <3>4, <4>1
        <5>2. Tail(argv) = SubSeq(argv, 1 + 1, n)
          <6> HIDE DEF argv
          <6> QED
            BY DEF n
        <5> QED
          BY <5>1, <5>2 DEF Behind
      <4>2. CASE y # 0
        BY <3>4, <4>2 DEF Behind
      <4> QED
        BY <4>1, <4>2
    <3>7. argv \in Seq(T) /\ p \in 1..Len(argv) /\ q \in 1..Len(argv) /\ q <= p
      BY <3>4
    <3>8. i \in DOMAIN Behind(argv, p) /\ rest(x)[i] = Behind(argv, p)[i]
      BY <1>9, <3>5
    <3> HIDE DEF argv, n, rest, x, y
    <3>9. HasWord(Behind(argv, q), Behind(argv, p)[i])
      BY <3>7, <3>8, FurtherBehind
    <3> QED
      BY <3>6, <3>8, <3>9
  <2> QED
    BY <2>1, <2>2
<1>10. b.args # {} => listed(rest(y), b.args)
  <2> SUFFICES ASSUME b.args # {} PROVE listed(rest(y), b.args)
    OBVIOUS
  <2>1. a.args # {} /\ a.args \subseteq b.args
    BY DEF CommandImplies
  <2>2. PICK i \in DOMAIN rest(x), glob \in a.args : Globbed(rest(x)[i], glob)
    BY <1>3, <2>1
  <2>3. PICK j \in DOMAIN rest(y) : rest(y)[j] = rest(x)[i]
    BY <1>9 DEF HasWord
  <2> QED
    BY <2>1, <2>2, <2>3
<1> HIDE DEF argv, n, x, y, rest
<1> QED
  BY <1>5, <1>6, <1>7, <1>8, <1>10 DEF CommandMatches, MatchesAt, argv, at, n, x, y, rest

-----------------------------------------------------------------------------
\* Directories that lie in one another.

\* A pattern that means the same directories wherever a call is made.
Fixed(words, base) ==
    /\ IsWritten(words)
    /\ LET D == Comparable(words, base, FALSE) IN D # Incomparable => ~OfUnknownRoot(D)

\* The base of the patterns of a view, of a call in a directory.
From(base, cwd) == IF base = NoBase THEN cwd ELSE base

\* The roots that lint gives to what it cannot place show.
LEMMA CallShows ==
    ASSUME NEW D, Marked(D, CwdRoot)
    PROVE  OfUnknownRoot(D)
<1>1. Len(D) \in Nat /\ Len(D) >= 2 /\ D[2] = CwdRoot
  BY DEF Marked
<1> QED
  BY <1>1 DEF OfUnknownRoot

LEMMA VariableShows ==
    ASSUME NEW words \in Seq(Words), NEW base
    PROVE  OfUnknownRoot(<<"/", VarRoot, base>> \o words)
<1> DEFINE any == Words \cup {"/", VarRoot, base}
           front == <<"/", VarRoot, base>>
<1>1. Words \subseteq any /\ front \in Seq(any) /\ Len(front) = 3 /\ front[2] = VarRoot
  OBVIOUS
<1> HIDE DEF any, front
<1>2. words \in Seq(any)
  BY <1>1, SeqWider
<1>3. /\ Len(front \o words) = Len(front) + Len(words)
      /\ \A i \in 1..Len(front) + Len(words) :
             (front \o words)[i] = IF i <= Len(front) THEN front[i] ELSE words[i - Len(front)]
  BY <1>1, <1>2, ConcatProperties
<1>4. Len(words) \in Nat
  OBVIOUS
<1>5. 2 \in 1..Len(front) + Len(words) /\ 2 <= Len(front)
  BY <1>1, <1>4
<1>6. (front \o words)[2] = VarRoot /\ Len(front \o words) > 1
  BY <1>1, <1>3, <1>4, <1>5
<1> QED
  BY <1>6 DEF OfUnknownRoot, front

\* What lint compares is what the engine resolves.
LEMMA ComparableIs ==
    ASSUME Posix, Straight(Home), NEW base \in Seq(Words), NEW words, Fixed(words, base),
           NEW D, D = Comparable(words, base, FALSE), D # Incomparable, NEW cwd \in Seq(Words)
    PROVE  ResolvePattern(words, From(base, cwd), FALSE) = D /\ IsPlace(D, words)
<1> DEFINE T == {w \in Level : ~Open(w)}
           from == IF base = NoBase THEN <<"/", CwdRoot>> ELSE base
           climbs == \E i \in DOMAIN words : words[i] = ".."
           uses(i) == Open(words[i]) \/ (i = 1 /\ words[i] = "~")
           varies == \E i \in DOMAIN words : uses(i)
           unknown == <<"/", VarRoot, ToString(base)>> \o words
<1>1. words \in Seq(Words) /\ ~OfUnknownRoot(D)
  BY DEF Fixed, IsWritten
<1>2. ~climbs /\ (varies => D = unknown) /\ (~varies => D = ResolvePattern(words, from, FALSE))
  <2> HIDE DEF unknown, from
  <2> QED
    BY DEF Comparable, unknown, from
<1>3. OfUnknownRoot(unknown)
  BY <1>1, VariableShows
<1>4. ~varies /\ D = ResolvePattern(words, from, FALSE)
  BY <1>1, <1>2, <1>3
<1>5. words \in Seq(T)
  <2>1. Len(words) \in Nat /\ DOMAIN words = 1..Len(words)
        /\ words \in [1..Len(words) -> Words]
    BY <1>1
  <2>2. \A i \in 1..Len(words) : words[i] \in T
    BY <1>2, <1>4, <2>1 DEF Level
  <2> HIDE DEF T
  <2>3. words \in [1..Len(words) -> T]
    BY <2>1, <2>2
  <2> QED
    BY <2>1, <2>3
<1> HIDE DEF varies, climbs, unknown
<1> DEFINE text == ExpandVariables(words, Variables)
<1>6. text \in Seq(T)
  <2>1. IsValues(Variables, T)
    BY DEF IsValues, Open
  <2> HIDE DEF T
  <2> QED
    BY <1>5, <2>1, ExpandIn
<1>7. Written(words, Variables, Home) \in Seq(Level)
  <2>1. Home \in Seq(Level)
    BY PathsAssumption, StraightIn
  <2>2. text \in Seq(Level)
    <3>1. T \subseteq Level
      OBVIOUS
    <3> HIDE DEF T, text
    <3> QED
      BY <1>6, <3>1, SeqWider
  <2> HIDE DEF text
  <2>3. text # <<>> => Tail(text) \in Seq(Level) /\ Home \o Tail(text) \in Seq(Level)
    BY <2>1, <2>2
  <2> QED
    BY <2>2, <2>3 DEF Written, text
<1>8. ~\E i \in DOMAIN text : text[i] \in Unset
  <2>1. \A i \in DOMAIN text : text[i] \in T
    <3> HIDE DEF text, T
    <3> QED
      BY <1>6
  <2> QED
    BY <2>1 DEF Open
<1> HIDE DEF T
<1>9. from \in Seq(Words)
  <2>1. "/" \in Words
    BY PathsAssumption, PosixRoot
  <2> QED
    BY <2>1, ImpliesAssumption
<1>10. D # NoPath /\ IsPlace(D, words)
  <2> DEFINE whole == Written(words, Variables, Home)
  <2>1. \/ D = words /\ words # <<>> /\ Head(words) = "**"
        \/ D = Resolve(whole, from)
    <3> HIDE DEF whole, from
    <3> QED
      BY <1>4, <1>8 DEF ResolvePattern, Resolved, Normalize, whole
  <2>2. CASE D = words /\ words # <<>> /\ Head(words) = "**"
    <3>1. Head(NoPath) = "no path"
      BY DEF NoPath
    <3> QED
      BY <2>2, <3>1 DEF IsPlace
  <2>3. CASE D = Resolve(whole, from)
    <3>1. Level \subseteq Words
      BY DEF Level
    <3>2. whole \in Seq(Words)
      BY <1>7, <3>1, SeqWider
    <3> HIDE DEF whole
    <3>3. BehindRoot(D)
      BY <1>9, <2>3, <3>2, ResolvesBehind
    <3>4. Head(D) = "/"
      BY <3>3 DEF BehindRoot, Posix
    <3>5. Head(NoPath) = "no path"
      BY DEF NoPath
    <3> QED
      BY <3>3, <3>4, <3>5 DEF IsPlace
  <2> QED
    BY <2>1, <2>2, <2>3
<1> HIDE DEF text
<1>11. CASE base = NoBase
  <2>1. CwdRoot \in Level /\ CwdRoot \notin {"/", "."} /\ <<>> \in Seq(Level)
    BY ImpliesAssumption DEF Level, CwdRoot
  <2>2. Nowhere(CwdRoot, <<>>) = <<"/", CwdRoot>>
    BY DEF Nowhere
  <2>3. ~Marked(D, CwdRoot)
    BY <1>1, CallShows
  <2>4. D = ResolvePattern(words, Nowhere(CwdRoot, <<>>), FALSE)
    BY <1>4, <1>11, <2>2
  <2>5. ResolvePattern(words, cwd, FALSE) = D
    BY <1>7, <1>10, <2>1, <2>3, <2>4, PlacedAlways
  <2> QED
    BY <1>10, <1>11, <2>5 DEF From
<1>12. CASE base # NoBase
  BY <1>4, <1>10, <1>12 DEF From
<1> QED
  BY <1>11, <1>12

(***************************************************************************)
(* directory_inside is right: what lies under the inner directory lies     *)
(* under the outer one, whatever wildcards that has and wherever the call  *)
(* is made.  For an inner directory that begins at the root.               *)
(***************************************************************************)
THEOREM InsideIsUnder ==
    ASSUME Posix, Straight(Home), NEW baseA \in Seq(Words), NEW baseB \in Seq(Words),
           NEW a, Fixed(a, baseA), NEW b, Fixed(b, baseB),
           NEW inner, inner = Comparable(a, baseA, FALSE),
           NEW outer, outer = Comparable(b, baseB, FALSE),
           DirectoryInside(inner, outer), inner = outer \/ ~Anywhere(inner),
           NEW cwd \in Seq(Words), NEW H, IsDirectory(H),
           IsUnder(H, ResolvePattern(a, From(baseA, cwd), FALSE))
    PROVE  IsUnder(H, ResolvePattern(b, From(baseB, cwd), FALSE))
<1>1. inner # Incomparable /\ outer # Incomparable
  BY DEF DirectoryInside
<1>2. /\ ResolvePattern(a, From(baseA, cwd), FALSE) = inner /\ IsPlace(inner, a)
      /\ ResolvePattern(b, From(baseB, cwd), FALSE) = outer /\ IsPlace(outer, b)
  BY <1>1, ComparableIs
<1>3. CASE inner = outer
  BY <1>2, <1>3
<1>4. CASE inner # outer
  <2>1. Literal(inner) /\ IsUnder(inner, outer)
    <3>1. ~Anywhere(inner) /\ ~OfUnknownRoot(inner)
      BY <1>1, <1>4 DEF Fixed
    <3> QED
      BY <1>4, <3>1 DEF DirectoryInside
  <2>2. OneDirectory(inner)
    <3>1. BehindRoot(inner)
      BY <1>2, <1>4 DEF IsPlace, Anywhere
    <3> QED
      BY <2>1, <3>1, LiteralBehind
  <2>3. Above(inner, H)
    BY <1>2, <2>2, LiteralMatch
  <2>4. PathLike(outer)
    <3>1. From(baseB, cwd) \in Seq(Words) /\ IsWritten(b)
      BY DEF From, Fixed
    <3> QED
      BY <1>2, <3>1, PatternIs DEF IsPattern
  <2> QED
    BY <1>2, <2>1, <2>2, <2>3, <2>4, UnderStays DEF OneDirectory
<1> QED
  BY <1>3, <1>4

-----------------------------------------------------------------------------
\* The scope of a view, as a call in a directory has it.
AreaIn(view, cwd) ==
    LET resolved(patterns) == {ResolvePattern(p, From(view.base, cwd), FALSE) : p \in patterns}
    IN  [under |-> resolved(view.under), notUnder |-> resolved(view.notUnder),
         roots |-> resolved(view.roots), lenient |-> TRUE]

\* The patterns of a view, as they are compared and as they are resolved.
ComparedOf(patterns, base) == {Comparable(d, base, FALSE) : d \in patterns}
ResolvedOf(patterns, base, cwd) == {ResolvePattern(p, From(base, cwd), FALSE) : p \in patterns}

LEMMA SomeOf ==
    ASSUME NEW patterns, NEW base, NEW cwd
    PROVE  /\ ComparedOf(patterns, base) # {} <=> patterns # {}
           /\ ResolvedOf(patterns, base, cwd) # {} <=> patterns # {}
<1>1. ASSUME NEW p \in patterns
      PROVE  ComparedOf(patterns, base) # {} /\ ResolvedOf(patterns, base, cwd) # {}
  <2>1. Comparable(p, base, FALSE) \in ComparedOf(patterns, base)
    BY DEF ComparedOf
  <2>2. ResolvePattern(p, From(base, cwd), FALSE) \in ResolvedOf(patterns, base, cwd)
    BY DEF ResolvedOf
  <2> QED
    BY <2>1, <2>2
<1>2. patterns = {} => ComparedOf(patterns, base) = {} /\ ResolvedOf(patterns, base, cwd) = {}
  BY DEF ComparedOf, ResolvedOf
<1> QED
  BY <1>1, <1>2

\* The same as InsideIsUnder, by the words of the patterns.
Lies(H, words, base, cwd) == IsUnder(H, ResolvePattern(words, From(base, cwd), FALSE))
LiesIn(a, baseA, b, baseB) ==
    DirectoryInside(Comparable(a, baseA, FALSE), Comparable(b, baseB, FALSE))

LEMMA InsideLies ==
    ASSUME Posix, Straight(Home), NEW baseA \in Seq(Words), NEW baseB \in Seq(Words),
           NEW a, Fixed(a, baseA), NEW b, Fixed(b, baseB), LiesIn(a, baseA, b, baseB),
           ~Anywhere(Comparable(a, baseA, FALSE)), NEW cwd \in Seq(Words),
           NEW H, IsDirectory(H), Lies(H, a, baseA, cwd)
    PROVE  Lies(H, b, baseB, cwd)
<1>1. PICK inner : inner = Comparable(a, baseA, FALSE)
  OBVIOUS
<1>2. PICK outer : outer = Comparable(b, baseB, FALSE)
  OBVIOUS
<1>3. DirectoryInside(inner, outer) /\ ~Anywhere(inner)
  BY <1>1, <1>2 DEF LiesIn
<1>4. IsUnder(H, ResolvePattern(a, From(baseA, cwd), FALSE))
  BY DEF Lies
<1>5. IsUnder(H, ResolvePattern(b, From(baseB, cwd), FALSE))
  BY <1>1, <1>2, <1>3, <1>4, InsideIsUnder
<1> QED
  BY <1>5 DEF Lies

\* A view of directories that lint can place, and that lie below the root.
IsFixedView(view) ==
    /\ view.base \in Seq(Words)
    /\ \A words \in view.under \cup view.notUnder \cup view.roots : Fixed(words, view.base)
    /\ \A words \in view.under \cup view.notUnder :
           ~Anywhere(Comparable(words, view.base, FALSE))

(***************************************************************************)
(* _sees_less is right: what surely lies in the scope of the one rule      *)
(* surely lies in that of the other, wherever the call is made and         *)
(* whatever is known of the repositories (lint.py).                        *)
(***************************************************************************)
THEOREM NarrowLiesInWide ==
    ASSUME Posix, Straight(Home), NEW narrow, IsFixedView(narrow), NEW wide, IsFixedView(wide),
           SeesLess(narrow, wide), NEW cwd \in Seq(Words), NEW ctx,
           NEW H, H = UnknownDir \/ IsDirectory(H), NEW where,
           Inside(H, where, AreaIn(narrow, cwd), ctx) = "yes"
    PROVE  Inside(H, where, AreaIn(wide, cwd), ctx) = "yes"
<1> DEFINE mine == Comparables(narrow)
           theirs == Comparables(wide)
           near == AreaIn(narrow, cwd)
           far == AreaIn(wide, cwd)
           is(words, view) == ResolvePattern(words, From(view.base, cwd), FALSE)
<1>1. IsDirectory(H) /\ H # UnknownDir /\ Placed(H, near)
      /\ (near.roots # {} => Rooted(where, near, ctx) = "yes")
  <2> HIDE DEF near
  <2> QED
    BY DEF Inside, Unknown, near
<1>2. CASE wide = NoView
  <2>1. far.under = {} /\ far.notUnder = {} /\ far.roots = {}
    BY <1>2 DEF AreaIn, NoView
  <2> HIDE DEF far
  <2> QED
    BY <1>1, <2>1 DEF Inside, Placed, UnderAny, far
<1>3. CASE narrow = wide
  BY <1>3
<1>4. CASE LiesWithin(mine, theirs)
  <2>0. /\ mine["under"] = ComparedOf(narrow.under, narrow.base)
        /\ mine["notUnder"] = ComparedOf(narrow.notUnder, narrow.base)
        /\ mine["roots"] = ComparedOf(narrow.roots, narrow.base)
        /\ theirs["under"] = ComparedOf(wide.under, wide.base)
        /\ theirs["notUnder"] = ComparedOf(wide.notUnder, wide.base)
        /\ theirs["roots"] = ComparedOf(wide.roots, wide.base)
    BY DEF Comparables, ComparedOf
  <2>1. /\ near.under = ResolvedOf(narrow.under, narrow.base, cwd)
        /\ near.notUnder = ResolvedOf(narrow.notUnder, narrow.base, cwd)
        /\ near.roots = ResolvedOf(narrow.roots, narrow.base, cwd)
        /\ far.under = ResolvedOf(wide.under, wide.base, cwd)
        /\ far.notUnder = ResolvedOf(wide.notUnder, wide.base, cwd)
        /\ far.roots = ResolvedOf(wide.roots, wide.base, cwd)
    BY DEF AreaIn, ResolvedOf
  <2> HIDE DEF mine, theirs, near, far
  <2>2. far.under # {} => UnderAny(H, far.under)
    <3> SUFFICES ASSUME far.under # {} PROVE UnderAny(H, far.under)
      OBVIOUS
    <3>1. theirs["under"] # {}
      BY <2>0, <2>1, SomeOf
    <3>2. mine["under"] # {} /\ \A d \in mine["under"] : InsideAny(d, theirs["under"])
      BY <1>4, <3>1 DEF LiesWithin
    <3>3. near.under # {}
      BY <2>0, <2>1, <3>2, SomeOf
    <3>4. PICK a \in narrow.under : IsUnder(H, is(a, narrow))
      BY <1>1, <2>1, <3>3 DEF Placed, UnderAny, ResolvedOf
    <3>5. PICK o \in theirs["under"] : DirectoryInside(Comparable(a, narrow.base, FALSE), o)
      <4>1. Comparable(a, narrow.base, FALSE) \in mine["under"]
        BY <2>0 DEF ComparedOf
      <4> QED
        BY <3>2, <4>1 DEF InsideAny
    <3>6. PICK b \in wide.under : o = Comparable(b, wide.base, FALSE)
      BY <2>0 DEF ComparedOf
    <3>7. /\ Fixed(a, narrow.base) /\ Fixed(b, wide.base)
          /\ narrow.base \in Seq(Words) /\ wide.base \in Seq(Words)
          /\ ~Anywhere(Comparable(a, narrow.base, FALSE))
      BY DEF IsFixedView
    <3>8. LiesIn(a, narrow.base, b, wide.base) /\ Lies(H, a, narrow.base, cwd)
      BY <3>4, <3>5, <3>6 DEF LiesIn, Lies
    <3>9. Lies(H, b, wide.base, cwd)
      BY <1>1, <3>7, <3>8, InsideLies
    <3> QED
      BY <2>1, <3>9 DEF UnderAny, ResolvedOf, Lies
  <2>3. ~UnderAny(H, far.notUnder)
    <3> SUFFICES ASSUME UnderAny(H, far.notUnder) PROVE FALSE
      OBVIOUS
    <3>1. PICK a \in wide.notUnder : IsUnder(H, is(a, wide))
      BY <2>1 DEF UnderAny, ResolvedOf
    <3>2. PICK o \in mine["notUnder"] : DirectoryInside(Comparable(a, wide.base, FALSE), o)
      <4>1. Comparable(a, wide.base, FALSE) \in theirs["notUnder"]
        BY <2>0 DEF ComparedOf
      <4> QED
        BY <1>4, <4>1 DEF LiesWithin, InsideAny
    <3>3. PICK b \in narrow.notUnder : o = Comparable(b, narrow.base, FALSE)
      BY <2>0 DEF ComparedOf
    <3>4. /\ Fixed(a, wide.base) /\ Fixed(b, narrow.base)
          /\ narrow.base \in Seq(Words) /\ wide.base \in Seq(Words)
          /\ ~Anywhere(Comparable(a, wide.base, FALSE))
      BY DEF IsFixedView
    <3>5. LiesIn(a, wide.base, b, narrow.base) /\ Lies(H, a, wide.base, cwd)
      BY <3>1, <3>2, <3>3 DEF LiesIn, Lies
    <3>6. Lies(H, b, narrow.base, cwd)
      BY <1>1, <3>4, <3>5, InsideLies
    <3> QED
      BY <1>1, <2>1, <3>6 DEF Placed, UnderAny, ResolvedOf, Lies
  <2>4. far.roots # {} => near.roots # {} /\ Rooted(where, far, ctx) = "yes"
    <3> SUFFICES ASSUME far.roots # {} PROVE near.roots # {} /\ Rooted(where, far, ctx) = "yes"
      OBVIOUS
    <3>1. theirs["roots"] # {}
      BY <2>0, <2>1, SomeOf
    <3>2. mine["roots"] # {} /\ mine["roots"] \subseteq theirs["roots"]
          /\ Incomparable \notin mine["roots"]
      BY <1>4, <3>1 DEF LiesWithin, Equal
    <3>3. near.roots # {}
      BY <2>0, <2>1, <3>2, SomeOf
    <3> DEFINE R == Root(where, ctx)
    <3>4. R # UnknownDir /\ R # NoRepository /\ \E wanted \in near.roots : MatchesGlob(R, wanted)
      <4>1. RootedAt(R, near) = "yes"
        BY <1>1, <3>3 DEF Rooted
      <4> HIDE DEF R
      <4> QED
        BY <4>1 DEF RootedAt, Unknown, Answer
    <3>5. PICK a \in narrow.roots : MatchesGlob(R, is(a, narrow))
      BY <2>1, <3>4 DEF ResolvedOf
    <3>6. PICK d \in mine["roots"] : d = Comparable(a, narrow.base, FALSE)
      BY <2>0 DEF ComparedOf
    <3>7. PICK b \in wide.roots : d = Comparable(b, wide.base, FALSE)
      <4>1. d \in theirs["roots"]
        BY <3>2
      <4> QED
        BY <2>0, <4>1 DEF ComparedOf
    <3>8. d # Incomparable
      BY <3>2
    <3>9. /\ Fixed(a, narrow.base) /\ Fixed(b, wide.base)
          /\ narrow.base \in Seq(Words) /\ wide.base \in Seq(Words)
      BY DEF IsFixedView
    <3>10. is(a, narrow) = d /\ is(b, wide) = d
      BY <3>6, <3>7, <3>8, <3>9, ComparableIs
    <3>11. is(b, wide) \in far.roots /\ MatchesGlob(R, is(b, wide))
      <4>1. is(b, wide) \in far.roots
        BY <2>1 DEF ResolvedOf
      <4> QED
        BY <3>5, <3>10, <4>1
    <3>12. RootedAt(R, far) = "yes"
      <4> HIDE DEF R
      <4> QED
        BY <3>4, <3>11 DEF RootedAt, Answer
    <3> QED
      BY <3>3, <3>12 DEF Rooted
  <2>5. H # UnknownDir /\ Placed(H, far)
    BY <1>1, <2>2, <2>3 DEF Placed
  <2>6. Inside(H, where, far, ctx) = "yes"
    BY <2>4, <2>5 DEF Inside
  <2> QED
    BY <2>6 DEF far
<1> QED
  BY <1>2, <1>3, <1>4 DEF SeesLess

\* What a rule with a view sees of a call, each command of which runs in one
\* directory or nobody knows where.
SeenOf(facts, view, ctx) == View(facts, AreaIn(view, facts.cwd), ctx, "yes")
RunsSomewhere(facts) ==
    /\ IsFacts(facts) /\ facts.cwd \in Seq(Words)
    /\ \A c \in facts.commands : Here(c, facts) = UnknownDir \/ IsDirectory(Here(c, facts))

\* So what a rule with the narrow scope sees of a call the other rule sees.
LEMMA WideSeesMore ==
    ASSUME Posix, Straight(Home), NEW narrow, IsFixedView(narrow), NEW wide, IsFixedView(wide),
           SeesLess(narrow, wide), NEW facts, RunsSomewhere(facts), NEW ctx,
           NEW part \in SeenOf(facts, narrow, ctx), NEW c \in part.commands
    PROVE  \E more \in SeenOf(facts, wide, ctx) : c \in more.commands
<1> DEFINE near == AreaIn(narrow, facts.cwd)
           far == AreaIn(wide, facts.cwd)
           all == facts.commands \cup facts.paths
           within(area) == {x \in all : Inside(Here(x, facts), Here(x, facts), area, ctx) = "yes"}
<1>0. /\ IsFacts(facts) /\ facts.cwd \in Seq(Words) /\ part \in View(facts, near, ctx, "yes")
      /\ \A x \in facts.commands : Here(x, facts) = UnknownDir \/ IsDirectory(Here(x, facts))
  BY DEF RunsSomewhere, SeenOf
<1>1. c \in facts.commands /\ facts.commands # {}
  BY <1>0, ViewIs
<1>2. CASE IsNowhere(far)
  <2>1. View(facts, far, ctx, "yes") = {facts}
    BY <1>2 DEF View
  <2> QED
    BY <1>1, <2>1 DEF SeenOf
<1>3. CASE IsNowhere(near) /\ ~IsNowhere(far)
  <2>1. /\ near.under = ResolvedOf(narrow.under, narrow.base, facts.cwd)
        /\ near.notUnder = ResolvedOf(narrow.notUnder, narrow.base, facts.cwd)
        /\ near.roots = ResolvedOf(narrow.roots, narrow.base, facts.cwd)
        /\ far.under = ResolvedOf(wide.under, wide.base, facts.cwd)
        /\ far.notUnder = ResolvedOf(wide.notUnder, wide.base, facts.cwd)
        /\ far.roots = ResolvedOf(wide.roots, wide.base, facts.cwd)
    BY DEF AreaIn, ResolvedOf
  <2>2. narrow # wide
    BY <1>3
  <2>3. /\ narrow.under = {} /\ narrow.notUnder = {} /\ narrow.roots = {}
        /\ ~(wide.under = {} /\ wide.notUnder = {} /\ wide.roots = {})
    <3> HIDE DEF near, far
    <3> QED
      BY <1>3, <2>1, SomeOf DEF IsNowhere
  <2>4. wide # NoView
    BY <2>3 DEF NoView
  <2>5. LiesWithin(Comparables(narrow), Comparables(wide))
    BY <2>2, <2>4 DEF SeesLess
  <2> DEFINE mine == Comparables(narrow)
             theirs == Comparables(wide)
  <2>6. /\ mine["under"] = ComparedOf(narrow.under, narrow.base)
        /\ mine["notUnder"] = ComparedOf(narrow.notUnder, narrow.base)
        /\ mine["roots"] = ComparedOf(narrow.roots, narrow.base)
        /\ theirs["under"] = ComparedOf(wide.under, wide.base)
        /\ theirs["notUnder"] = ComparedOf(wide.notUnder, wide.base)
        /\ theirs["roots"] = ComparedOf(wide.roots, wide.base)
    BY DEF Comparables, ComparedOf
  <2> HIDE DEF mine, theirs
  <2>7. mine["under"] = {} /\ mine["notUnder"] = {} /\ mine["roots"] = {}
    BY <2>3, <2>6, SomeOf
  <2>8. theirs["under"] # {} \/ theirs["notUnder"] # {} \/ theirs["roots"] # {}
    <3>1. wide.under # {} => theirs["under"] # {}
      <4>1. wide.under # {} => ComparedOf(wide.under, wide.base) # {}
        BY SomeOf
      <4> QED
        BY <2>6, <4>1
    <3>2. wide.notUnder # {} => theirs["notUnder"] # {}
      <4>1. wide.notUnder # {} => ComparedOf(wide.notUnder, wide.base) # {}
        BY SomeOf
      <4> QED
        BY <2>6, <4>1
    <3>3. wide.roots # {} => theirs["roots"] # {}
      <4>1. wide.roots # {} => ComparedOf(wide.roots, wide.base) # {}
        BY SomeOf
      <4> QED
        BY <2>6, <4>1
    <3> QED
      BY <2>3, <3>1, <3>2, <3>3
  <2> QED
    BY <2>5, <2>7, <2>8 DEF LiesWithin, InsideAny, mine, theirs
<1>4. CASE ~IsNowhere(near) /\ ~IsNowhere(far)
  <2>1. \A area : /\ ~IsNowhere(area)
                     => View(facts, area, ctx, "yes")
                          = Part(facts, facts.commands \cap within(area), facts.paths \cap within(area))
    BY <1>1 DEF View, Split, Among
  <2>2. part \in Part(facts, facts.commands \cap within(near), facts.paths \cap within(near))
    BY <1>0, <1>4, <2>1
  <2>3. part = Parted(facts, facts.commands \cap within(near), facts.paths \cap within(near))
    BY <2>2 DEF Part, Parted
  <2>4. c \in within(near)
    BY <1>0, <2>3, PartIs
  <2>5. Inside(Here(c, facts), Here(c, facts), far, ctx) = "yes"
    <3>1. Inside(Here(c, facts), Here(c, facts), near, ctx) = "yes"
      BY <2>4
    <3>2. Here(c, facts) = UnknownDir \/ IsDirectory(Here(c, facts))
      BY <1>0, <1>1
    <3> QED
      BY <1>0, <3>1, <3>2, NarrowLiesInWide
  <2> DEFINE cs == facts.commands \cap within(far)
             ps == facts.paths \cap within(far)
  <2>6. c \in cs
    BY <1>1, <2>5
  <2>7. View(facts, far, ctx, "yes") = Part(facts, cs, ps)
    BY <1>4, <2>1
  <2> HIDE DEF cs, ps
  <2>8. Parted(facts, cs, ps) \in Part(facts, cs, ps)
    BY <2>6 DEF Part, Parted
  <2>9. Parted(facts, cs, ps).commands = cs
    BY <1>0, PartIs
  <2> QED
    BY <2>6, <2>7, <2>8, <2>9 DEF SeenOf
<1> QED
  BY <1>2, <1>3, <1>4

\* That a rule with a view sees a command and that its predicate describes it.
SeesCommand(facts, pred, view, ctx) ==
    \E part \in SeenOf(facts, view, ctx) :
        \E c \in part.commands : c.argv # <<>> /\ CommandMatches(c, pred)

(***************************************************************************)
(* What lint tells the solver of two commands in two scopes holds of every *)
(* call: if the one atom is true of it, so is the other (axioms; _sees_less *)
(* and command_implies).                                                   *)
(***************************************************************************)
THEOREM CommandsFollow ==
    ASSUME Posix, Straight(Home), NEW narrow, IsFixedView(narrow), NEW wide, IsFixedView(wide),
           NEW T, NEW a, a.subcommand \in Seq(T), NEW b, b.subcommand \in Seq(T),
           Follows(<<"command", a, narrow>>, <<"command", b, wide>>),
           NEW facts, RunsSomewhere(facts), \A c \in facts.commands : c.argv \in Seq(T),
           NEW ctx, SeesCommand(facts, a, narrow, ctx)
    PROVE  SeesCommand(facts, b, wide, ctx)
<1>1. (a = b \/ CommandImplies(a, b)) /\ SeesLess(narrow, wide)
  BY DEF Follows
<1>2. PICK part \in SeenOf(facts, narrow, ctx) :
          \E c \in part.commands : c.argv # <<>> /\ CommandMatches(c, a)
  BY DEF SeesCommand
<1>3. PICK c \in part.commands : c.argv # <<>> /\ CommandMatches(c, a)
  BY <1>2
<1>4. PICK more \in SeenOf(facts, wide, ctx) : c \in more.commands
  BY <1>1, WideSeesMore
<1>5. c.argv \in Seq(T)
  <2>1. c \in facts.commands
    BY ViewIs DEF RunsSomewhere, SeenOf
  <2> QED
    BY <2>1
<1>6. CommandMatches(c, b)
  <2>1. CASE a = b
    BY <1>3, <2>1
  <2>2. CASE CommandImplies(a, b)
    BY <1>3, <1>5, <2>2, ImpliedCommandsMatch
  <2> QED
    BY <1>1, <2>1, <2>2
<1> QED
  BY <1>3, <1>4, <1>6 DEF SeesCommand
=============================================================================
