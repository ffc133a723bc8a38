---------------------------- MODULE ReplayProofs ----------------------------
(***************************************************************************)
(* A replay agrees with what the gate did: the proof of ReplayAgrees.      *)
(*                                                                         *)
(* LivedOK says what an entry of the log is, of the calls before it in its *)
(* session.  FilesOK says that a line of a transcript is what the host     *)
(* wrote of the call it is about.  ReplayOK says what the replay holds of  *)
(* the calls told by the lines it is past, Counted: it has seen these, and *)
(* where the files tell the sessions as they were it keeps and has counted *)
(* of them what the gate made of them.  A call is read for the first time  *)
(* once all earlier calls of its session are counted, and no later one is, *)
(* so that it is judged by what the gate had to go by (InOrder,            *)
(* JudgedAsThen).                                                          *)
(***************************************************************************)
EXTENDS Replay, FiniteSetTheorems, NaturalsInduction, WellFoundedInduction, TLAPS

-----------------------------------------------------------------------------
(* The sessions as they were.                                              *)

\* A sequence of anything.
IsSequence(s) == \E S : s \in Seq(S)

\* What evaluate and remind had to go by when an entry was made.
PastUpto(s, i) ==
    {lived[j].matches : j \in {k \in DOMAIN lived : k < i /\ lived[k].session = s}}
        \ {{}, Unreadable}
LogUpto(s, i) == [j \in {k \in DOMAIN lived : k < i /\ lived[k].session = s} |-> lived[j]]

\* An entry is what the gate made of a call.
MadeRight(i) ==
    LET e == lived[i]
    IN  /\ e.session \in Sessions /\ e.when \in Nat /\ e.matches \in Proposals
        /\ e.fired = IF e.matches = Unreadable THEN {}
                     ELSE FiredOn(e.matches, PastUpto(e.session, i))
        /\ e.quoted = Quoted((e.fired \cap confirmed) \ HeldBack(LogUpto(e.session, i), e.when))

LivedOK ==
    /\ now \in Nat /\ confirmed \subseteq Rules
    /\ IsSequence(lived)
    /\ \A i \in DOMAIN lived : lived[i].of = "call" => MadeRight(i)

\* A line says what the host wrote of the call it is about.
LineOf(i, e) ==
    [id |-> IF lacks = "ids" THEN NoId ELSE i,
     session |-> IF lacks = "sessions" THEN "" ELSE e.session,
     when |-> IF lacks = "times" THEN NoTime ELSE Epoch(e.when),
     matches |-> e.matches, of |-> i]

LineOK(line) ==
    /\ line.of \in DOMAIN lived
    /\ lived[line.of].of = "call"
    /\ line = LineOf(line.of, lived[line.of])

FilesOK ==
    /\ transcripts = [s \in Sessions |-> transcripts[s]]
    /\ \A s \in Sessions : /\ IsSequence(transcripts[s])
                           /\ \A i \in DOMAIN transcripts[s] : LineOK(transcripts[s][i])

\* What is appended comes last, and leaves the others what they are.
LEMMA AppendIs ==
    ASSUME NEW s, IsSequence(s), NEW e
    PROVE  /\ IsSequence(Append(s, e))
           /\ DOMAIN s = 1..Len(s) /\ Len(s) \in Nat
           /\ DOMAIN Append(s, e) = 1..Len(s) + 1
           /\ Append(s, e)[Len(s) + 1] = e
           /\ \A i \in DOMAIN s : Append(s, e)[i] = s[i]
<1>1. PICK S : s \in Seq(S)
  BY DEF IsSequence
<1>2. s \in Seq(S \cup {e}) /\ e \in S \cup {e}
  BY <1>1
<1>3. Append(s, e) \in Seq(S \cup {e})
  BY <1>2
<1> QED
  BY <1>2, <1>3 DEF IsSequence

\* The entries made before another one stay what they were.
LEMMA UptoStays ==
    ASSUME DOMAIN lived \subseteq DOMAIN lived', DOMAIN lived' \subseteq Nat,
           \A i \in DOMAIN lived' \ DOMAIN lived : \A j \in DOMAIN lived : j < i,
           \A i \in DOMAIN lived : lived'[i] = lived[i],
           NEW s, NEW i \in DOMAIN lived
    PROVE  PastUpto(s, i)' = PastUpto(s, i) /\ LogUpto(s, i)' = LogUpto(s, i)
<1>1. {k \in DOMAIN lived' : k < i /\ lived'[k].session = s}
        = {k \in DOMAIN lived : k < i /\ lived[k].session = s}
  OBVIOUS
<1>2. PastUpto(s, i)' = PastUpto(s, i)
  BY <1>1 DEF PastUpto
<1>3. LogUpto(s, i)' = LogUpto(s, i)
  BY <1>1 DEF LogUpto
<1> QED
  BY <1>2, <1>3

\* What was made of a call when it was made is what it had to go by.
LEMMA AllUpto ==
    ASSUME DOMAIN lived = 1..Len(lived), Len(lived) \in Nat,
           NEW n, n = Len(lived) + 1, DOMAIN lived' = 1..n,
           \A i \in DOMAIN lived : lived'[i] = lived[i], NEW s
    PROVE  PastUpto(s, n)' = Past(s) /\ LogUpto(s, n)' = LogOf(s)
<1>1. {k \in DOMAIN lived' : k < n /\ lived'[k].session = s}
        = {k \in DOMAIN lived : lived[k].session = s}
  OBVIOUS
<1>2. {lived'[j].matches : j \in {k \in DOMAIN lived' : k < n /\ lived'[k].session = s}}
        = {lived[j].matches : j \in {k \in DOMAIN lived : lived[k].session = s}}
  BY <1>1
<1> QED
  BY <1>1, <1>2 DEF PastUpto, Past, LogUpto, LogOf

\* A call is logged as it was judged, and the entries before it stay right.
LEMMA MakeKeeps ==
    ASSUME LivedOK, FilesOK, NEW s \in Sessions, NEW matches \in Proposals, Make(s, matches),
           UNCHANGED vars
    PROVE  LivedOK' /\ FilesOK'
<1> DEFINE n == Len(lived) + 1
           fired == IF matches = Unreadable THEN {} ELSE FiredOn(matches, Past(s))
           quoted == Quoted((fired \cap confirmed) \ HeldBack(LogOf(s), now))
           e == [of |-> "call", session |-> s, when |-> now, matches |-> matches,
                 fired |-> fired, quoted |-> quoted]
           line == [id |-> IF lacks = "ids" THEN NoId ELSE n,
                    session |-> IF lacks = "sessions" THEN "" ELSE s,
                    when |-> IF lacks = "times" THEN NoTime ELSE Epoch(now),
                    matches |-> matches, of |-> n]
<1>1. /\ lived' = Append(lived, e)
      /\ transcripts' = [transcripts EXCEPT ![s] = Append(@, line)]
      /\ lacks' = lacks
  BY DEF Make, Live
<1>2. now' = now /\ confirmed' = confirmed
  BY DEF vars, owner
<1>3. /\ IsSequence(lived)' /\ DOMAIN lived = 1..Len(lived) /\ Len(lived) \in Nat
      /\ DOMAIN lived' = 1..n /\ lived'[n] = e
      /\ \A i \in DOMAIN lived : lived'[i] = lived[i]
  <2>1. IsSequence(lived)
    BY DEF LivedOK
  <2> DEFINE more == Append(lived, e)
  <2> HIDE DEF e, more
  <2>2. /\ IsSequence(more) /\ DOMAIN lived = 1..Len(lived) /\ Len(lived) \in Nat
        /\ DOMAIN more = 1..Len(lived) + 1 /\ more[Len(lived) + 1] = e
        /\ \A i \in DOMAIN lived : more[i] = lived[i]
    BY <2>1, AppendIs DEF more
  <2>3. lived' = more
    BY <1>1 DEF more
  <2>4. IsSequence(lived)'
    BY <2>2, <2>3 DEF IsSequence
  <2> QED
    BY <2>2, <2>3, <2>4
<1> HIDE DEF fired, quoted
<1>4. ASSUME NEW k, k = n
      PROVE  MadeRight(k)'
  <2>1. PastUpto(s, k)' = Past(s) /\ LogUpto(s, k)' = LogOf(s)
    BY <1>3, <1>4, AllUpto
  <2>2. lived'[k] = e
    BY <1>3, <1>4
  <2>3. /\ lived'[k].session = s /\ lived'[k].when = now /\ lived'[k].matches = matches
        /\ lived'[k].fired = fired /\ lived'[k].quoted = quoted
    BY <2>2
  <2> HIDE DEF e
  <2>4. \A due : Quoted(due)' = Quoted(due)
    BY <1>2 DEF Quoted, Composed, Effective
  <2> QED
    BY <1>2, <2>1, <2>3, <2>4 DEF MadeRight, LivedOK, fired, quoted, FiredOn, HeldBack
<1>5. ASSUME NEW i \in DOMAIN lived, lived[i].of = "call"
      PROVE  MadeRight(i)'
  <2>1. MadeRight(i)
    BY <1>5 DEF LivedOK
  <2>2. \A t : PastUpto(t, i)' = PastUpto(t, i) /\ LogUpto(t, i)' = LogUpto(t, i)
    BY <1>3, UptoStays
  <2>3. \A due : Quoted(due)' = Quoted(due)
    BY <1>2 DEF Quoted, Composed, Effective
  <2>4. lived'[i] = lived[i]
    BY <1>3
  <2> QED
    BY <1>2, <2>1, <2>2, <2>3, <2>4 DEF MadeRight, FiredOn, HeldBack
<1>6. LivedOK'
  <2>1. \A i \in DOMAIN lived' : i \in DOMAIN lived \/ i = n
    BY <1>3
  <2>2. \A i \in DOMAIN lived : lived'[i].of = lived[i].of
    BY <1>3
  <2> QED
    BY <1>2, <1>3, <1>4, <1>5, <2>1, <2>2 DEF LivedOK
<1>7. ASSUME NEW some, LineOK(some)
      PROVE  LineOK(some)'
  <2>1. \A i, f : LineOf(i, f)' = LineOf(i, f)
    BY <1>1 DEF LineOf
  <2> QED
    BY <1>3, <1>7, <2>1 DEF LineOK
<1>8. ASSUME NEW some, some = line
      PROVE  LineOK(some)'
  <2>1. lived'[n].of = "call" /\ n \in DOMAIN lived' /\ some.of = n
    <3>1. some.of = n
      BY <1>8
    <3>2. lived'[n] = e /\ DOMAIN lived' = 1..n /\ n >= 1
      BY <1>3
    <3>3. e.of = "call"
      OBVIOUS
    <3> HIDE DEF n, e, line
    <3> QED
      BY <3>1, <3>2, <3>3 DEF n
  <2>2. some = LineOf(n, e)
    BY <1>8 DEF LineOf
  <2>3. \A i, f : LineOf(i, f)' = LineOf(i, f)
    BY <1>1 DEF LineOf
  <2>4. lived'[n] = e
    BY <1>3
  <2> HIDE DEF n, e, line
  <2> QED
    BY <2>1, <2>2, <2>3, <2>4 DEF LineOK
<1>9. FilesOK'
  <2> HIDE DEF line
  <2>1. transcripts' = [t \in Sessions |-> IF t = s THEN Append(transcripts[s], line)
                                           ELSE transcripts[t]]
    BY <1>1 DEF FilesOK
  <2>2. ASSUME NEW t \in Sessions
        PROVE  /\ IsSequence(transcripts[t])'
               /\ \A i \in DOMAIN transcripts'[t] : LineOK(transcripts[t][i])'
    <3> DEFINE old == transcripts[t]
               new == transcripts'[t]
    <3>1. IsSequence(old) /\ \A i \in DOMAIN old : LineOK(old[i])
      BY DEF FilesOK
    <3>2. CASE t # s
      <4>1. new = old
        BY <2>1, <3>2
      <4> QED
        BY <1>7, <3>1, <4>1
    <3>3. CASE t = s
      <4>1. new = Append(old, line)
        BY <2>1, <3>3
      <4>2. /\ IsSequence(new) /\ new[Len(old) + 1] = line
            /\ \A i \in DOMAIN new : i = Len(old) + 1 \/ (i \in DOMAIN old /\ new[i] = old[i])
        <5> HIDE DEF old, new
        <5> QED
          BY <3>1, <4>1, AppendIs
      <4> QED
        BY <1>7, <1>8, <3>1, <4>2
    <3> QED
      BY <3>2, <3>3
  <2> QED
    BY <2>1, <2>2 DEF FilesOK
<1> QED
  BY <1>6, <1>9

\* A start is logged and written nowhere.
LEMMA CompactKeeps ==
    ASSUME LivedOK, FilesOK, NEW s \in Sessions, Compact(s), UNCHANGED vars
    PROVE  LivedOK' /\ FilesOK'
<1> DEFINE e == [of |-> "start", session |-> s, when |-> now, matches |-> {},
                 fired |-> {}, quoted |-> {}]
           more == Append(lived, e)
<1>1. lived' = more /\ transcripts' = transcripts /\ lacks' = lacks
  BY DEF Compact, Live
<1>2. now' = now /\ confirmed' = confirmed
  BY DEF vars, owner
<1>3. /\ IsSequence(more) /\ DOMAIN lived = 1..Len(lived) /\ Len(lived) \in Nat
      /\ DOMAIN more = 1..Len(lived) + 1 /\ more[Len(lived) + 1] = e
      /\ \A i \in DOMAIN lived : more[i] = lived[i]
  <2>1. IsSequence(lived)
    BY DEF LivedOK
  <2> HIDE DEF e
  <2> QED
    BY <2>1, AppendIs
<1>4. e.of = "start"
  OBVIOUS
<1> HIDE DEF e, more
<1>5. ASSUME NEW i \in DOMAIN lived, lived[i].of = "call"
      PROVE  MadeRight(i)'
  <2>1. MadeRight(i)
    BY <1>5 DEF LivedOK
  <2>2. \A t : PastUpto(t, i)' = PastUpto(t, i) /\ LogUpto(t, i)' = LogUpto(t, i)
    BY <1>1, <1>3, UptoStays
  <2>3. \A due : Quoted(due)' = Quoted(due)
    BY <1>2 DEF Quoted, Composed, Effective
  <2>4. lived'[i] = lived[i]
    BY <1>1, <1>3
  <2> QED
    BY <1>2, <2>1, <2>2, <2>3, <2>4 DEF MadeRight, FiredOn, HeldBack
<1>6. LivedOK'
  <2>1. \A i \in DOMAIN lived' : lived'[i].of = "call" => i \in DOMAIN lived /\ lived[i].of = "call"
    BY <1>1, <1>3, <1>4
  <2>2. IsSequence(lived)'
    BY <1>1, <1>3 DEF IsSequence
  <2> QED
    BY <1>2, <1>5, <2>1, <2>2 DEF LivedOK
<1>7. ASSUME NEW some, LineOK(some)
      PROVE  LineOK(some)'
  <2>1. \A i, f : LineOf(i, f)' = LineOf(i, f)
    BY <1>1 DEF LineOf
  <2> QED
    BY <1>1, <1>3, <1>7, <2>1 DEF LineOK
<1>8. FilesOK'
  BY <1>1, <1>7 DEF FilesOK, IsSequence
<1> QED
  BY <1>6, <1>8

\* What was judged was judged by the rules of its time: the clock changes none of it.
LEMMA StaysLived ==
    ASSUME LivedOK, UNCHANGED <<confirmed, lived>>, now' \in Nat
    PROVE  LivedOK'
<1>1. \A due : Quoted(due)' = Quoted(due)
  BY DEF Quoted, Composed, Effective
<1>2. \A s, i : PastUpto(s, i)' = PastUpto(s, i) /\ LogUpto(s, i)' = LogUpto(s, i)
  BY DEF PastUpto, LogUpto
<1>3. \A i : MadeRight(i) => MadeRight(i)'
  BY <1>1, <1>2 DEF MadeRight, FiredOn, HeldBack
<1> QED
  BY <1>3 DEF LivedOK, IsSequence

\* A session that is resumed begins with lines that are right already.
LEMMA ResumeKeeps ==
    ASSUME LivedOK, FilesOK, NEW s \in Sessions, NEW new \in Sessions, Resume(s, new)
    PROVE  FilesOK'
<1>1. /\ transcripts' = [transcripts EXCEPT ![new] = transcripts[s]]
      /\ lived' = lived /\ lacks' = lacks
  BY DEF Resume
<1>2. \A some : LineOK(some) => LineOK(some)'
  BY <1>1 DEF LineOK, LineOf
<1>3. /\ transcripts' = [t \in Sessions |-> transcripts'[t]]
      /\ \A t \in Sessions : \E old \in Sessions : transcripts'[t] = transcripts[old]
  BY <1>1 DEF FilesOK
<1>4. ASSUME NEW t \in Sessions
      PROVE  /\ IsSequence(transcripts[t])'
             /\ \A i \in DOMAIN transcripts'[t] : LineOK(transcripts[t][i])'
  <2>1. PICK old \in Sessions : transcripts'[t] = transcripts[old]
    BY <1>3
  <2> QED
    BY <1>2, <2>1 DEF FilesOK, IsSequence
<1> QED
  BY <1>3, <1>4 DEF FilesOK

-----------------------------------------------------------------------------
(* The replay.  The lines are in one order, those of a file in theirs.     *)

\* A set of naturals that is not empty has a least element.
LEMMA LeastNumber ==
    ASSUME NEW T, T \subseteq Nat, T # {}
    PROVE  \E n \in T : \A k \in T : n <= k
<1>1. IsWellFoundedOn(OpToRel(<, Nat), Nat)
  BY NatLessThanWellFounded
<1>2. PICK n \in T : \A k \in T : ~ (<<k, n>> \in OpToRel(<, Nat))
  BY <1>1, WFMin
<1>3. \A k \in T : ~ (k < n)
  BY <1>2 DEF OpToRel
<1> QED
  BY <1>3

NamedOK == \E n \in Nat \ {0} : named \in [1..n -> Sessions]

\* Every line is one of a file named, at its place, and about a call that was made.
LEMMA LinesAre ==
    ASSUME LivedOK, FilesOK, NamedOK
    PROVE  /\ DOMAIN named = 1..Len(named) /\ Len(named) \in Nat \ {0}
           /\ \A f \in DOMAIN named : named[f] \in Sessions
           /\ DOMAIN lived = 1..Len(lived) /\ Len(lived) \in Nat
           /\ \A p : p \in Lines <=>
                 \E f \in DOMAIN named : \E i \in DOMAIN transcripts[named[f]] : p = <<f, i>>
           /\ \A f \in DOMAIN named :
                 DOMAIN transcripts[named[f]] = 1..Len(transcripts[named[f]])
                   /\ Len(transcripts[named[f]]) \in Nat
           /\ \A p \in Lines :
                 /\ p = <<p[1], p[2]>> /\ p[1] \in Nat \ {0} /\ p[2] \in Nat \ {0}
                 /\ CallAt(p) \in DOMAIN lived /\ lived[CallAt(p)].of = "call"
                 /\ LineOK(transcripts[named[p[1]]][p[2]])
<1>1. /\ DOMAIN named = 1..Len(named) /\ Len(named) \in Nat \ {0}
      /\ \A f \in DOMAIN named : named[f] \in Sessions
  BY DEF NamedOK
<1>2. DOMAIN lived = 1..Len(lived) /\ Len(lived) \in Nat
  BY DEF LivedOK, IsSequence
<1>3. \A p : p \in Lines <=>
          \E f \in DOMAIN named : \E i \in DOMAIN transcripts[named[f]] : p = <<f, i>>
  BY DEF Lines
<1>4. ASSUME NEW f \in DOMAIN named
      PROVE  /\ DOMAIN transcripts[named[f]] = 1..Len(transcripts[named[f]])
             /\ Len(transcripts[named[f]]) \in Nat
             /\ \A i \in DOMAIN transcripts[named[f]] : LineOK(transcripts[named[f]][i])
  <2>1. named[f] \in Sessions
    BY <1>1
  <2> QED
    BY <2>1 DEF FilesOK, IsSequence
<1>5. ASSUME NEW p \in Lines
      PROVE  /\ p = <<p[1], p[2]>> /\ p[1] \in Nat \ {0} /\ p[2] \in Nat \ {0}
             /\ CallAt(p) \in DOMAIN lived /\ lived[CallAt(p)].of = "call"
             /\ LineOK(transcripts[named[p[1]]][p[2]])
  <2>1. PICK f \in DOMAIN named : \E i \in DOMAIN transcripts[named[f]] : p = <<f, i>>
    BY <1>3
  <2>2. PICK i \in DOMAIN transcripts[named[f]] : p = <<f, i>>
    BY <2>1
  <2>3. p[1] = f /\ p[2] = i /\ LineOK(transcripts[named[f]][i])
    BY <1>4, <2>2
  <2>4. f \in Nat \ {0} /\ i \in Nat \ {0}
    BY <1>1, <1>4
  <2> QED
    BY <2>2, <2>3, <2>4 DEF CallAt, LineOK
<1> QED
  BY <1>1, <1>2, <1>3, <1>4, <1>5

\* Every call that is told is told a first time.
LEMMA FirstPlace ==
    ASSUME LivedOK, FilesOK, NamedOK, NEW p \in Lines
    PROVE  \E q \in Firsts : CallAt(q) = CallAt(p) /\ (q = p \/ Earlier(q, p))
<1> DEFINE Same == {q \in Lines : CallAt(q) = CallAt(p)}
           InFile == {q[1] : q \in Same}
<1>0. \A q \in Lines : q = <<q[1], q[2]>> /\ q[1] \in Nat /\ q[2] \in Nat
  BY LinesAre
<1>1. PICK f \in InFile : \A g \in InFile : f <= g
  <2>1. InFile \subseteq Nat /\ p[1] \in InFile
    BY <1>0
  <2> HIDE DEF InFile
  <2> QED
    BY <2>1, LeastNumber
<1> DEFINE AtPlace == {q[2] : q \in {r \in Same : r[1] = f}}
<1>2. PICK i \in AtPlace : \A k \in AtPlace : i <= k
  <2>1. AtPlace \subseteq Nat /\ AtPlace # {}
    BY <1>0, <1>1
  <2> HIDE DEF AtPlace
  <2> QED
    BY <2>1, LeastNumber
<1>3. PICK q \in Same : q[1] = f /\ q[2] = i
  BY <1>2
<1>4. ASSUME NEW r \in Same
      PROVE  ~ Earlier(r, q) /\ (q = r \/ Earlier(q, r))
  <2>1. f <= r[1] /\ f \in Nat /\ r[1] \in Nat /\ r[2] \in Nat /\ i \in Nat
    BY <1>0, <1>1, <1>3
  <2>2. r[1] = f => i <= r[2]
    BY <1>2
  <2>3. r = <<r[1], r[2]>> /\ q = <<f, i>>
    BY <1>0, <1>3
  <2> QED
    BY <1>3, <2>1, <2>2, <2>3 DEF Earlier
<1>5. q \in Firsts /\ p \in Same
  BY <1>3, <1>4 DEF Firsts
<1> QED
  BY <1>3, <1>4, <1>5

\* The lines read so far, and the calls they tell.
Here == <<replay.file, replay.line>>
Done == {p \in Lines : Earlier(p, Here)}
Counted == {CallAt(p) : p \in Done}

\* A moment as the replay takes it.
Moment(i) == IF lacks = "times" THEN 0 ELSE Epoch(lived[i].when)

\* What the replay keeps is what the gate made of the calls told so far.
CountedIn(s) == {i \in Counted : lived[i].session = s}
KeepsPast ==
    /\ replay.earlier = [s \in Sessions |-> {lived[i].matches : i \in CountedIn(s)} \ {Unreadable}]
    /\ replay.sent = [s \in Sessions |-> [r \in Rules |->
           {Moment(i) : i \in {j \in CountedIn(s) : r \in lived[j].quoted}}]]
KeepsCounts ==
    /\ replay.errors = Cardinality({i \in Counted : lived[i].matches = Unreadable})
    /\ replay.rules = [r \in Rules |-> Cardinality({i \in Counted : r \in lived[i].fired})]
    /\ replay.reminders = [r \in Rules |-> Cardinality({i \in Counted : r \in lived[i].quoted})]

IsReplay ==
    replay = [file |-> replay.file, line |-> replay.line, when |-> replay.when,
              seen |-> replay.seen, earlier |-> replay.earlier, sent |-> replay.sent,
              calls |-> replay.calls, errors |-> replay.errors,
              decisions |-> replay.decisions, rules |-> replay.rules,
              reminders |-> replay.reminders]

\* Calls are told apart.
Tells == lacks # "ids" \/ ToldAsLived

ReplayOK ==
    named # <<>> =>
        /\ NamedOK /\ IsReplay
        /\ replay.file \in Nat \ {0} /\ replay.line \in Nat \ {0}
        /\ replay.seen = IF lacks = "ids" THEN {} ELSE Counted
        /\ lacks = "times" => replay.when = 0
        /\ Tells => replay.calls = Cardinality(Counted)
        /\ ToldAsLived => KeepsPast /\ KeepsCounts

Recordings == UNCHANGED <<lived, transcripts, lacks, named>>

\* What is recorded stays what it is while a replay reads it.
LEMMA RecordingsStay ==
    ASSUME Recordings
    PROVE  /\ Lines' = Lines /\ Firsts' = Firsts
           /\ \A p : CallAt(p)' = CallAt(p)
           /\ ToldAsLived' <=> ToldAsLived
           /\ Tells' <=> Tells
           /\ NamedOK' <=> NamedOK
           /\ \A i : Moment(i)' = Moment(i)
<1>1. Lines' = Lines /\ \A p : CallAt(p)' = CallAt(p) /\ LivedIn(p)' = LivedIn(p)
  BY DEF Recordings, Lines, CallAt, LivedIn
<1>2. Firsts' = Firsts
  BY <1>1 DEF Firsts
<1>3. ToldAsLived' <=> ToldAsLived
  BY <1>1, <1>2 DEF ToldAsLived, Recordings
<1> QED
  BY <1>1, <1>2, <1>3 DEF Recordings, Tells, NamedOK, Moment

\* So do the files.
LEMMA FilesStay ==
    ASSUME FilesOK, UNCHANGED <<lived, transcripts, lacks>>
    PROVE  FilesOK'
BY DEF FilesOK, LineOK, LineOf, IsSequence

\* A step that reads of no other call keeps what the replay has.
LEMMA NothingNewKeeps ==
    ASSUME ReplayOK, named # <<>>, Recordings, Counted' = Counted, IsReplay',
           replay'.file \in Nat \ {0}, replay'.line \in Nat \ {0},
           replay'.seen = replay.seen, lacks = "times" => replay'.when = 0,
           replay'.earlier = replay.earlier, replay'.sent = replay.sent,
           replay'.calls = replay.calls, replay'.errors = replay.errors,
           replay'.rules = replay.rules, replay'.reminders = replay.reminders
    PROVE  ReplayOK'
<1>0. lived' = lived /\ lacks' = lacks /\ named' = named
  BY DEF Recordings
<1>1. /\ ToldAsLived' <=> ToldAsLived
      /\ Tells' <=> Tells
      /\ NamedOK' <=> NamedOK
      /\ \A i : Moment(i)' = Moment(i)
  BY RecordingsStay
<1>2. \A s : CountedIn(s)' = CountedIn(s)
  BY <1>0 DEF CountedIn
<1>3. KeepsPast => KeepsPast'
  BY <1>0, <1>1, <1>2 DEF KeepsPast
<1>4. KeepsCounts => KeepsCounts'
  BY <1>0 DEF KeepsCounts
<1>5. Counted' = Counted /\ (Tells => replay.calls = Cardinality(Counted))
  BY DEF ReplayOK
<1>6. NamedOK /\ replay.seen = IF lacks = "ids" THEN {} ELSE Counted
  BY DEF ReplayOK
<1>7. ToldAsLived => KeepsPast /\ KeepsCounts
  BY DEF ReplayOK
<1>8. Tells' => replay'.calls = Cardinality(Counted')
  BY <1>1, <1>5
<1>9. ToldAsLived' => KeepsPast' /\ KeepsCounts'
  BY <1>1, <1>3, <1>4, <1>7
<1> QED
  BY <1>0, <1>1, <1>6, <1>8, <1>9 DEF ReplayOK

\* The next file: nothing more is read by that.
LEMMA NextFileKeeps ==
    ASSUME LivedOK, FilesOK, ReplayOK, NextFile
    PROVE  ReplayOK'
<1>1. Recordings /\ named # <<>> /\ replay.file \in DOMAIN named
  BY DEF NextFile, recorded, Recordings, Reading
<1>2. /\ NamedOK /\ IsReplay /\ replay.file \in Nat \ {0} /\ replay.line \in Nat \ {0}
  BY <1>1 DEF ReplayOK
<1>3. replay' = [replay EXCEPT !.file = @ + 1, !.line = 1, !.when = 0]
  BY DEF NextFile
<1>4. /\ IsReplay' /\ replay'.file = replay.file + 1 /\ replay'.line = 1 /\ replay'.when = 0
      /\ replay'.seen = replay.seen /\ replay'.earlier = replay.earlier
      /\ replay'.sent = replay.sent /\ replay'.calls = replay.calls
      /\ replay'.errors = replay.errors /\ replay'.rules = replay.rules
      /\ replay'.reminders = replay.reminders
  BY <1>2, <1>3 DEF IsReplay
<1>5. ASSUME NEW p \in Lines
      PROVE  Earlier(p, Here)' <=> Earlier(p, Here)
  <2>1. p \in Lines /\ p[1] \in Nat /\ p[2] \in Nat \ {0}
    BY <1>2, LinesAre
  <2>2. p[1] = replay.file => p[2] < replay.line
    <3>1. PICK f \in DOMAIN named : \E i \in DOMAIN transcripts[named[f]] : p = <<f, i>>
      BY <1>2, LinesAre
    <3>2. PICK i \in DOMAIN transcripts[named[f]] : p = <<f, i>>
      BY <3>1
    <3>3. /\ DOMAIN transcripts[named[f]] = 1..Len(transcripts[named[f]])
          /\ Len(transcripts[named[f]]) \in Nat
      BY <1>2, LinesAre
    <3>4. f = replay.file => i <= Len(File)
      BY <3>2, <3>3 DEF File
    <3> QED
      BY <1>2, <3>2, <3>3, <3>4 DEF NextFile, File
  <2> QED
    BY <1>2, <1>4, <2>1, <2>2 DEF Earlier, Here
<1>6. Done' = Done /\ Counted' = Counted
  BY <1>1, <1>5, RecordingsStay DEF Done, Counted
<1> QED
  BY <1>1, <1>2, <1>4, <1>6, NothingNewKeeps

\* The line at hand, and the place it is read at.
LEMMA AtLineIs ==
    ASSUME LivedOK, FilesOK, ReplayOK, AtLine
    PROVE  /\ named # <<>> /\ NamedOK /\ IsReplay /\ Here \in Lines
           /\ replay.file \in Nat \ {0} /\ replay.line \in Nat \ {0}
           /\ LineOK(File[replay.line]) /\ CallAt(Here) = File[replay.line].of
           /\ Here[1] = replay.file /\ Here[2] = replay.line
<1>1. named # <<>> /\ replay.file \in DOMAIN named /\ replay.line \in DOMAIN File
  BY DEF AtLine, Reading
<1>2. NamedOK /\ IsReplay /\ replay.file \in Nat \ {0} /\ replay.line \in Nat \ {0}
  BY <1>1 DEF ReplayOK
<1>3. Here[1] = replay.file /\ Here[2] = replay.line
  BY DEF Here
<1>4. Here \in Lines
  <2>1. Here = <<replay.file, replay.line>>
    BY DEF Here
  <2> QED
    BY <1>1, <1>2, <2>1, LinesAre DEF File
<1>5. CallAt(Here) = File[replay.line].of
  BY <1>3 DEF CallAt, File
<1>6. LineOK(File[replay.line])
  BY <1>2, <1>3, <1>4, LinesAre DEF File
<1> QED
  BY <1>1, <1>2, <1>3, <1>4, <1>5, <1>6

\* A line is read with the time and the session it is taken to be of.
LEMMA ThisLineIs ==
    ASSUME LivedOK, FilesOK, ReplayOK, AtLine
    PROVE  LET i == CallAt(Here)
               line == ThisLine
           IN  /\ i \in DOMAIN lived /\ lived[i].of = "call" /\ MadeRight(i)
               /\ line.id = IF lacks = "ids" THEN NoId ELSE i
               /\ line.matches = lived[i].matches
               /\ lacks = "times" => line.when = 0
               /\ line.when = Moment(i)
               /\ line.session = IF lacks = "sessions" THEN named[replay.file]
                                 ELSE lived[i].session
<1> DEFINE i == CallAt(Here)
           line == File[replay.line]
<1>1. /\ LineOK(line) /\ line.of = i /\ named # <<>>
  BY AtLineIs
<1>2. /\ i \in DOMAIN lived /\ lived[i].of = "call" /\ line = LineOf(i, lived[i])
  BY <1>1 DEF LineOK
<1>3. MadeRight(i)
  BY <1>2 DEF LivedOK
<1>4. /\ line.id = IF lacks = "ids" THEN NoId ELSE i
      /\ line.session = IF lacks = "sessions" THEN "" ELSE lived[i].session
      /\ line.when = IF lacks = "times" THEN NoTime ELSE Epoch(lived[i].when)
      /\ line.matches = lived[i].matches
      /\ line = [id |-> line.id, session |-> line.session, when |-> line.when,
                 matches |-> line.matches, of |-> line.of]
  <2> HIDE DEF line, i
  <2> QED
    BY <1>2 DEF LineOf
<1>5. ThisLine = [line EXCEPT !.when = IF @ \in {0, NoTime} THEN replay.when ELSE @,
                              !.session = IF @ = "" THEN named[replay.file] ELSE @]
  BY DEF ThisLine
<1>6. lived[i].session # "" /\ lived[i].when \in Nat
  BY <1>3, ReplayAssumption DEF MadeRight
<1>7. Epoch(lived[i].when) \notin {0, NoTime}
  <2>1. \A w \in Nat : Epoch(w) \notin {0, NoTime}
    BY DEF Epoch, NoTime
  <2> QED
    BY <1>6, <2>1
<1>8. lacks = "times" => replay.when = 0
  BY <1>1 DEF ReplayOK
<1> HIDE DEF line, i
<1>9. /\ ThisLine.id = line.id /\ ThisLine.matches = line.matches
      /\ ThisLine.when = IF line.when \in {0, NoTime} THEN replay.when ELSE line.when
      /\ ThisLine.session = IF line.session = "" THEN named[replay.file] ELSE line.session
  BY <1>4, <1>5
<1>10. ThisLine.when = Moment(i) /\ (lacks = "times" => ThisLine.when = 0)
  BY <1>4, <1>7, <1>8, <1>9 DEF Moment
<1> QED
  BY <1>2, <1>3, <1>4, <1>6, <1>9, <1>10 DEF i

\* What is read is added, in its place.
LEMMA CountedGrows ==
    ASSUME LivedOK, FilesOK, ReplayOK, AtLine, Recordings,
           replay'.file = replay.file, replay'.line = replay.line + 1
    PROVE  Counted' = Counted \cup {CallAt(Here)}
<1>1. /\ named # <<>> /\ NamedOK /\ Here \in Lines
      /\ replay.file \in Nat \ {0} /\ replay.line \in Nat \ {0}
      /\ Here[1] = replay.file /\ Here[2] = replay.line
  BY AtLineIs
<1>2. ASSUME NEW p \in Lines
      PROVE  Earlier(p, Here)' <=> Earlier(p, Here) \/ p = Here
  <2>1. p = <<p[1], p[2]>> /\ p[1] \in Nat /\ p[2] \in Nat
    BY <1>1, LinesAre
  <2>2. Here = <<replay.file, replay.line>> /\ Here' = <<replay.file, replay.line + 1>>
    BY DEF Here
  <2> QED
    BY <1>1, <2>1, <2>2 DEF Earlier
<1>3. Lines' = Lines /\ \A p : CallAt(p)' = CallAt(p)
  BY RecordingsStay
<1>4. Done' = Done \cup {Here}
  BY <1>1, <1>2, <1>3 DEF Done
<1>5. Counted' = {CallAt(p) : p \in Done'}
  BY <1>3 DEF Counted
<1> QED
  BY <1>4, <1>5 DEF Counted

\* Only calls that were made are counted.
LEMMA CountedAre ==
    ASSUME LivedOK, FilesOK, NamedOK
    PROVE  Counted \subseteq DOMAIN lived /\ IsFiniteSet(Counted) /\ IsFiniteSet(DOMAIN lived)
<1>1. Counted \subseteq DOMAIN lived /\ DOMAIN lived = 1..Len(lived) /\ Len(lived) \in Nat
  BY LinesAre DEF Counted, Done
<1>2. IsFiniteSet(DOMAIN lived)
  BY <1>1, FS_Interval
<1> QED
  BY <1>1, <1>2, FS_Subset

\* A line that is not known again is the first to tell its call, where calls
\* can be told apart.
LEMMA NewCallIs ==
    ASSUME LivedOK, FilesOK, ReplayOK, AtLine, Tells
    PROVE  /\ SeenBefore(ThisLine) <=> CallAt(Here) \in Counted
           /\ CallAt(Here) \notin Counted => Here \in Firsts
<1>1. /\ named # <<>> /\ NamedOK /\ Here \in Lines
      /\ replay.seen = IF lacks = "ids" THEN {} ELSE Counted
      /\ ThisLine.id = IF lacks = "ids" THEN NoId ELSE CallAt(Here)
  BY AtLineIs, ThisLineIs DEF ReplayOK
<1>2. CallAt(Here) \notin Counted => Here \in Firsts
  BY <1>1 DEF Counted, Done, Firsts
<1>3. CASE lacks # "ids"
  BY <1>1, <1>2, <1>3 DEF SeenBefore
<1>4. CASE lacks = "ids"
  <2>1. Firsts = Lines
    BY <1>4 DEF Tells, ToldAsLived
  <2>2. CallAt(Here) \notin Counted
    <3> SUFFICES ASSUME NEW p \in Done, CallAt(p) = CallAt(Here) PROVE FALSE
      BY DEF Counted
    <3>1. Here \in Firsts /\ p \in Lines /\ Earlier(p, Here)
      BY <1>1, <2>1 DEF Done
    <3> QED
      BY <3>1 DEF Firsts
  <2>3. ~ SeenBefore(ThisLine)
    BY <1>1, <1>4 DEF SeenBefore
  <2> QED
    BY <1>2, <2>2, <2>3
<1> QED
  BY <1>3, <1>4

\* The calls of a session are counted in the order they were made.
LEMMA InOrder ==
    ASSUME LivedOK, FilesOK, ReplayOK, AtLine, ToldAsLived, CallAt(Here) \notin Counted
    PROVE  CountedIn(lived[CallAt(Here)].session)
             = {j \in DOMAIN lived : j < CallAt(Here)
                                     /\ lived[j].session = lived[CallAt(Here)].session}
<1> DEFINE i == CallAt(Here)
           s == lived[i].session
<1>1. named # <<>> /\ NamedOK /\ Here \in Lines /\ Here \in Firsts
  BY AtLineIs, NewCallIs DEF Tells
<1>2. /\ \A p : p \in Lines => p = <<p[1], p[2]>> /\ p[1] \in Nat /\ p[2] \in Nat
                                /\ CallAt(p) \in DOMAIN lived
      /\ DOMAIN lived = 1..Len(lived) /\ Len(lived) \in Nat
  BY <1>1, LinesAre
<1>3. Counted \subseteq DOMAIN lived
  BY <1>1, CountedAre
<1>4. ASSUME NEW j \in Counted, lived[j].session = s
      PROVE  j < i
  <2>1. PICK p \in Lines : Earlier(p, Here) /\ CallAt(p) = j
    BY DEF Counted, Done
  <2>2. PICK q \in Firsts : CallAt(q) = j /\ (q = p \/ Earlier(q, p))
    BY <1>1, <2>1, FirstPlace
  <2>3. q \in Lines
    BY DEF Firsts
  <2>4. Earlier(q, Here)
    BY <1>1, <1>2, <2>1, <2>2, <2>3 DEF Earlier
  <2>5. LivedIn(q) = LivedIn(Here)
    BY <1>4, <2>2 DEF LivedIn
  <2> QED
    BY <1>1, <2>2, <2>4, <2>5 DEF ToldAsLived
<1>5. ASSUME NEW j \in DOMAIN lived, j < i, lived[j].session = s
      PROVE  j \in Counted
  <2>1. PICK p \in Lines : CallAt(p) = j
    BY DEF ToldAsLived
  <2>2. PICK q \in Firsts : CallAt(q) = j
    BY <1>1, <2>1, FirstPlace
  <2>3. q \in Lines /\ q # Here
    BY <1>2, <1>5, <2>2 DEF Firsts
  <2>4. Earlier(q, Here) \/ Earlier(Here, q)
    BY <1>1, <1>2, <2>3 DEF Earlier
  <2>5. LivedIn(q) = LivedIn(Here)
    BY <1>5, <2>2 DEF LivedIn
  <2>6. ~ Earlier(Here, q)
    <3> SUFFICES ASSUME Earlier(Here, q) PROVE FALSE
      OBVIOUS
    <3>1. i < j
      BY <1>1, <2>2, <2>5 DEF ToldAsLived
    <3> QED
      BY <1>1, <1>2, <1>5, <3>1
  <2> QED
    BY <2>2, <2>3, <2>4, <2>6 DEF Counted, Done
<1> QED
  BY <1>3, <1>4, <1>5 DEF CountedIn

\* A line that is known again tells nothing new.
LEMMA RepeatedKeeps ==
    ASSUME LivedOK, FilesOK, ReplayOK, Repeated
    PROVE  ReplayOK'
<1>1. AtLine /\ SeenBefore(ThisLine) /\ Recordings /\ replay' = Passed(ThisLine)
  BY DEF Repeated, recorded, Recordings
<1>2. /\ named # <<>> /\ NamedOK /\ IsReplay
      /\ replay.file \in Nat \ {0} /\ replay.line \in Nat \ {0}
  BY <1>1, AtLineIs
<1>3. ThisLine.id \in replay.seen /\ (lacks = "times" => ThisLine.when = 0)
  BY <1>1, ThisLineIs DEF SeenBefore
<1>4. /\ IsReplay' /\ replay'.file = replay.file /\ replay'.line = replay.line + 1
      /\ replay'.when = ThisLine.when
      /\ replay'.seen = replay.seen /\ replay'.earlier = replay.earlier
      /\ replay'.sent = replay.sent /\ replay'.calls = replay.calls
      /\ replay'.errors = replay.errors /\ replay'.rules = replay.rules
      /\ replay'.reminders = replay.reminders
  BY <1>1, <1>2, <1>3 DEF IsReplay, Passed
<1>5. CallAt(Here) \in Counted
  <2>1. replay.seen = IF lacks = "ids" THEN {} ELSE Counted
    BY <1>2 DEF ReplayOK
  <2>2. lacks # "ids"
    BY <1>3, <2>1
  <2> QED
    BY <1>1, <2>2, NewCallIs DEF Tells
<1>6. Counted' = Counted
  BY <1>1, <1>4, <1>5, CountedGrows
<1> QED
  BY <1>1, <1>2, <1>3, <1>4, <1>6, NothingNewKeeps

\* One more is counted when it is one of those that are.
LEMMA CountOf ==
    ASSUME NEW S, IsFiniteSet(S), NEW i, i \notin S, NEW P
    PROVE  Cardinality({j \in S \cup {i} : j \in P})
             = IF i \in P THEN Cardinality({j \in S : j \in P}) + 1
               ELSE Cardinality({j \in S : j \in P})
<1> DEFINE T == {j \in S : j \in P}
<1>1. IsFiniteSet(T) /\ i \notin T
  <2>1. T \subseteq S
    OBVIOUS
  <2> QED
    BY <2>1, FS_Subset
<1>2. CASE i \in P
  <2>1. {j \in S \cup {i} : j \in P} = T \cup {i}
    BY <1>2
  <2> HIDE DEF T
  <2>2. Cardinality(T \cup {i}) = Cardinality(T) + 1
    BY <1>1, FS_AddElement
  <2> QED
    BY <1>2, <2>1, <2>2 DEF T
<1>3. CASE i \notin P
  <2>1. {j \in S \cup {i} : j \in P} = T
    BY <1>3
  <2> QED
    BY <1>3, <2>1
<1> QED
  BY <1>2, <1>3

\* Of a call that is counted next the replay knows the session it was of.
LEMMA SessionIs ==
    ASSUME LivedOK, FilesOK, ReplayOK, AtLine, ToldAsLived, CallAt(Here) \notin Counted
    PROVE  ThisLine.session = lived[CallAt(Here)].session
<1>1. /\ named # <<>> /\ Here \in Firsts /\ Here[1] = replay.file
      /\ ThisLine.session = IF lacks = "sessions" THEN named[replay.file]
                            ELSE lived[CallAt(Here)].session
  BY AtLineIs, NewCallIs, ThisLineIs DEF Tells
<1>2. lacks = "sessions" => named[replay.file] = LivedIn(Here)
  BY <1>1 DEF ToldAsLived
<1> QED
  BY <1>1, <1>2 DEF LivedIn

\* Nothing is quoted of a call that nothing is due of.
LEMMA NothingDue == Quoted({}) = {}
<1>1. {} \in Composed({}, confirmed)
  <2>1. Cardinality({}) = 0 /\ 0 <= MaxRules
    BY FS_EmptySet, GateAssumption
  <2> QED
    BY <2>1 DEF Composed
<1>2. Quoted({}) \in Composed({}, confirmed)
  BY <1>1 DEF Quoted
<1> QED
  BY <1>2 DEF Composed

\* Where no start made the agent forget, any entry of the interval holds back.
LEMMA HeldBackIs ==
    ASSUME NEW entries, NEW moment, NEW r \in Rules,
           \A j \in DOMAIN entries : entries[j].of # "start"
    PROVE  r \in HeldBack(entries, moment)
             <=> \E i \in DOMAIN entries :
                   /\ r \in entries[i].quoted
                   /\ moment >= entries[i].when /\ moment - entries[i].when < Window
BY DEF HeldBack

\* The replay has sent within the interval what the log of then held back.
LEMMA RecentAsThen ==
    ASSUME LivedOK, FilesOK, ReplayOK, AtLine, ToldAsLived, CallAt(Here) \notin Counted,
           NEW r \in Rules
    PROVE  LET i == CallAt(Here)
               s == lived[i].session
           IN  Recent(replay.sent[s][r], Moment(i))
                 <=> r \in HeldBack(LogUpto(s, i), lived[i].when)
<1> DEFINE i == CallAt(Here)
           s == lived[i].session
           before == {j \in DOMAIN lived : j < i /\ lived[j].session = s}
           times == {Moment(j) : j \in {k \in before : r \in lived[k].quoted}}
           w(j) == lived[j].when
<1>1. /\ named # <<>> /\ NamedOK /\ i \in DOMAIN lived /\ s \in Sessions
  BY AtLineIs, ThisLineIs DEF MadeRight
<1>2. DOMAIN lived = 1..Len(lived) /\ Len(lived) \in Nat
  BY <1>1, LinesAre
<1>3. CountedIn(s) = before
  BY InOrder
<1>4. replay.sent[s][r] = times
  <2>1. replay.sent = [t \in Sessions |-> [q \in Rules |->
           {Moment(j) : j \in {k \in CountedIn(t) : q \in lived[k].quoted}}]]
    BY <1>1 DEF ReplayOK, KeepsPast
  <2>2. replay.sent[s][r] = {Moment(j) : j \in {k \in CountedIn(s) : r \in lived[k].quoted}}
    BY <1>1, <2>1
  <2> QED
    BY <1>3, <2>2
<1>5. \A j \in DOMAIN lived : lived[j].of = "call" /\ lived[j].when \in Nat
  BY DEF ToldAsLived, LivedOK, MadeRight
<1>6. \A j \in DOMAIN lived : (lacks = "times" => w(j) = w(i)) /\ w(j) \in Nat
  BY <1>1, <1>5 DEF ToldAsLived
<1>7. \A j \in DOMAIN lived :
          (Moment(j) <= Moment(i) /\ Moment(i) - Moment(j) < Window)
            <=> (w(i) >= w(j) /\ w(i) - w(j) < Window)
  <2> SUFFICES ASSUME NEW j \in DOMAIN lived
               PROVE  (Moment(j) <= Moment(i) /\ Moment(i) - Moment(j) < Window)
                        <=> (w(i) >= w(j) /\ w(i) - w(j) < Window)
    OBVIOUS
  <2>1. w(i) \in Nat /\ w(j) \in Nat /\ (lacks = "times" => w(j) = w(i)) /\ Window \in Nat
    BY <1>1, <1>6, GateAssumption
  <2>2. /\ Moment(i) = IF lacks = "times" THEN 0 ELSE w(i) + 1
        /\ Moment(j) = IF lacks = "times" THEN 0 ELSE w(j) + 1
    BY DEF Moment, Epoch
  <2> HIDE DEF w, i
  <2> QED
    BY <2>1, <2>2
<1>8. Recent(times, Moment(i))
        <=> \E j \in before : r \in lived[j].quoted /\ w(i) >= w(j) /\ w(i) - w(j) < Window
  <2>1. Recent(times, Moment(i))
          <=> \E j \in before : /\ r \in lived[j].quoted
                                /\ Moment(j) <= Moment(i) /\ Moment(i) - Moment(j) < Window
    <3> HIDE DEF i, s, before
    <3> QED
      BY DEF Recent
  <2> HIDE DEF i, s, w
  <2> QED
    BY <1>7, <2>1
<1>9. r \in HeldBack(LogUpto(s, i), lived[i].when)
        <=> \E j \in before : r \in lived[j].quoted /\ w(i) >= w(j) /\ w(i) - w(j) < Window
  <2> DEFINE entries == LogUpto(s, i)
  <2>1. DOMAIN entries = before /\ \A j \in before : entries[j] = lived[j]
    BY DEF LogUpto
  <2>2. \A j \in DOMAIN entries : entries[j].of # "start"
    BY <1>5, <2>1
  <2>3. \A moment : r \in HeldBack(entries, moment)
             <=> \E j \in DOMAIN entries :
                   /\ r \in entries[j].quoted
                   /\ moment >= entries[j].when /\ moment - entries[j].when < Window
    <3> HIDE DEF entries
    <3> QED
      BY <2>2, HeldBackIs
  <2>4. ASSUME NEW moment
        PROVE  r \in HeldBack(entries, moment)
                 <=> \E j \in before : /\ r \in lived[j].quoted /\ moment >= lived[j].when
                                       /\ moment - lived[j].when < Window
    <3> HIDE DEF entries, before, i, s
    <3> QED
      BY <2>1, <2>3
  <2> HIDE DEF entries, before, i, s
  <2> QED
    BY <2>4 DEF entries
<1> QED
  BY <1>4, <1>8, <1>9

\* The replay judges and quotes as the gate did.
LEMMA JudgedAsThen ==
    ASSUME LivedOK, FilesOK, ReplayOK, AtLine, ToldAsLived, CallAt(Here) \notin Counted,
           ThisLine.matches # Unreadable,
           NEW fired, fired = FiredOn(ThisLine.matches, replay.earlier[ThisLine.session]),
           NEW quoted,
           quoted = Quoted({r \in fired \cap confirmed :
                                ~ Recent(replay.sent[ThisLine.session][r], ThisLine.when)})
    PROVE  fired = lived[CallAt(Here)].fired /\ quoted = lived[CallAt(Here)].quoted
<1> DEFINE i == CallAt(Here)
           s == lived[i].session
<1>1. /\ i \in DOMAIN lived /\ MadeRight(i) /\ ThisLine.matches = lived[i].matches
      /\ ThisLine.when = Moment(i) /\ ThisLine.session = s /\ named # <<>>
  BY AtLineIs, ThisLineIs, SessionIs
<1>2. replay.earlier[s] = {lived[j].matches : j \in CountedIn(s)} \ {Unreadable}
  <2>1. s \in Sessions /\ KeepsPast
    BY <1>1 DEF MadeRight, ReplayOK
  <2> HIDE DEF s
  <2> QED
    BY <2>1 DEF KeepsPast
<1>3. FiredOn(lived[i].matches, replay.earlier[s]) = FiredOn(lived[i].matches, PastUpto(s, i))
  <2>1. CountedIn(s) = {j \in DOMAIN lived : j < i /\ lived[j].session = s}
    BY InOrder
  <2>2. replay.earlier[s] \ {{}} = PastUpto(s, i)
    BY <1>2, <2>1 DEF PastUpto
  <2> QED
    BY <2>2 DEF FiredOn
<1>4. fired = lived[i].fired
  BY <1>1, <1>3 DEF MadeRight
<1>5. {r \in fired \cap confirmed : ~ Recent(replay.sent[s][r], Moment(i))}
        = (fired \cap confirmed) \ HeldBack(LogUpto(s, i), lived[i].when)
  <2>1. confirmed \subseteq Rules
    BY DEF LivedOK
  <2>2. \A r \in Rules : Recent(replay.sent[s][r], Moment(i))
                           <=> r \in HeldBack(LogUpto(s, i), lived[i].when)
    BY RecentAsThen
  <2> HIDE DEF i, s
  <2> QED
    BY <2>1, <2>2
<1> QED
  BY <1>1, <1>4, <1>5 DEF MadeRight

\* The replay counts one more call and goes on to the next line.
ReadsOn ==
    /\ IsReplay' /\ replay'.file = replay.file /\ replay'.line = replay.line + 1
    /\ replay'.when = ThisLine.when
    /\ replay'.seen = IF ThisLine.id = NoId THEN replay.seen
                      ELSE replay.seen \cup {ThisLine.id}
    /\ replay'.calls = replay.calls + 1

\* What it counts and keeps of the call when these rules fire and are quoted.
CountsThese(fired, quoted) ==
    /\ replay'.errors = IF ThisLine.matches = Unreadable THEN replay.errors + 1
                        ELSE replay.errors
    /\ replay'.earlier = [t \in Sessions |->
           IF t = ThisLine.session /\ ThisLine.matches # Unreadable
           THEN replay.earlier[t] \cup {ThisLine.matches} ELSE replay.earlier[t]]
    /\ replay'.sent = [t \in Sessions |-> [r \in Rules |->
           IF t = ThisLine.session /\ r \in quoted
           THEN replay.sent[t][r] \cup {ThisLine.when} ELSE replay.sent[t][r]]]
    /\ replay'.rules = [r \in Rules |-> IF r \in fired THEN replay.rules[r] + 1
                                        ELSE replay.rules[r]]
    /\ replay'.reminders = [r \in Rules |-> IF r \in quoted THEN replay.reminders[r] + 1
                                            ELSE replay.reminders[r]]

\* These are the rules the gate found and quoted.
FoundThen(fired, quoted) ==
    fired = lived[CallAt(Here)].fired /\ quoted = lived[CallAt(Here)].quoted

\* A call that is read for the first time is counted as what the gate made of it.
LEMMA OneMoreKeeps ==
    ASSUME LivedOK, FilesOK, ReplayOK, AtLine, Recordings, ~ SeenBefore(ThisLine), ReadsOn,
           NEW fired, NEW quoted,
           ToldAsLived => FoundThen(fired, quoted) /\ CountsThese(fired, quoted)
    PROVE  ReplayOK'
<1> DEFINE i == CallAt(Here)
<1>1. /\ named # <<>> /\ NamedOK /\ replay.file \in Nat \ {0} /\ replay.line \in Nat \ {0}
  BY AtLineIs
<1>0. ToldAsLived => CountsThese(fired, quoted)
                     /\ fired = lived[i].fired /\ quoted = lived[i].quoted
  BY DEF FoundThen
<1>2. /\ i \in DOMAIN lived /\ i \in Nat \ {0}
      /\ ThisLine.id = IF lacks = "ids" THEN NoId ELSE i
      /\ ThisLine.matches = lived[i].matches /\ ThisLine.when = Moment(i)
      /\ lacks = "times" => ThisLine.when = 0
  <2>1. DOMAIN lived = 1..Len(lived) /\ Len(lived) \in Nat
    BY <1>1, LinesAre
  <2>2. i \in DOMAIN lived
    BY ThisLineIs
  <2> HIDE DEF i
  <2>3. i \in Nat \ {0}
    BY <2>1, <2>2
  <2> QED
    BY <2>2, <2>3, ThisLineIs DEF i
<1>3. /\ lived' = lived /\ lacks' = lacks /\ named' = named
      /\ ToldAsLived' <=> ToldAsLived
  BY RecordingsStay DEF Recordings
<1>4. /\ Tells' <=> Tells
      /\ NamedOK' <=> NamedOK
      /\ \A j : Moment(j)' = Moment(j)
  BY RecordingsStay
<1>5. Counted' = Counted \cup {i}
  BY CountedGrows DEF ReadsOn
<1>6. Tells => i \notin Counted
  BY NewCallIs
<1>7. IsFiniteSet(Counted) /\ Counted \subseteq DOMAIN lived
  BY <1>1, CountedAre
<1> HIDE DEF i
<1>8. replay'.seen = IF lacks' = "ids" THEN {} ELSE Counted'
  <2>1. replay.seen = IF lacks = "ids" THEN {} ELSE Counted
    BY <1>1 DEF ReplayOK
  <2> QED
    BY <1>2, <1>3, <1>5, <2>1 DEF NoId, ReadsOn
<1>9. Tells => replay'.calls = Cardinality(Counted')
  <2> HAVE Tells
  <2>1. replay.calls = Cardinality(Counted)
    BY <1>1 DEF ReplayOK
  <2>2. Cardinality(Counted \cup {i}) = Cardinality(Counted) + 1
    BY <1>6, <1>7, FS_AddElement
  <2> QED
    BY <1>5, <2>1, <2>2 DEF ReadsOn
<1>10. ASSUME ToldAsLived
       PROVE  KeepsPast'
  <2>1. KeepsPast /\ ThisLine.session = lived[i].session /\ quoted = lived[i].quoted
    BY <1>0, <1>1, <1>6, <1>10, SessionIs DEF ReplayOK, Tells, i
  <2>0. /\ replay'.earlier = [t \in Sessions |->
                    IF t = lived[i].session /\ lived[i].matches # Unreadable
                    THEN replay.earlier[t] \cup {lived[i].matches} ELSE replay.earlier[t]]
        /\ replay'.sent = [t \in Sessions |-> [r \in Rules |->
                    IF t = lived[i].session /\ r \in lived[i].quoted
                    THEN replay.sent[t][r] \cup {Moment(i)} ELSE replay.sent[t][r]]]
    <3>1. /\ replay'.earlier = [t \in Sessions |->
                    IF t = ThisLine.session /\ ThisLine.matches # Unreadable
                    THEN replay.earlier[t] \cup {ThisLine.matches} ELSE replay.earlier[t]]
          /\ replay'.sent = [t \in Sessions |-> [r \in Rules |->
                    IF t = ThisLine.session /\ r \in quoted
                    THEN replay.sent[t][r] \cup {ThisLine.when} ELSE replay.sent[t][r]]]
      BY <1>0, <1>10 DEF CountsThese
    <3> QED
      BY <1>2, <2>1, <3>1
  <2>2. ASSUME NEW t
        PROVE  CountedIn(t)' = IF t = lived[i].session THEN CountedIn(t) \cup {i}
                               ELSE CountedIn(t)
    BY <1>3, <1>5 DEF CountedIn
  <2>3. ASSUME NEW t \in Sessions
        PROVE  replay'.earlier[t] = {lived[j].matches : j \in CountedIn(t)'} \ {Unreadable}
    <3>1. replay.earlier[t] = {lived[j].matches : j \in CountedIn(t)} \ {Unreadable}
      BY <2>1 DEF KeepsPast
    <3>2. replay'.earlier[t] = IF t = lived[i].session /\ lived[i].matches # Unreadable
                               THEN replay.earlier[t] \cup {lived[i].matches}
                               ELSE replay.earlier[t]
      BY <2>0
    <3>3. CountedIn(t)' = IF t = lived[i].session THEN CountedIn(t) \cup {i} ELSE CountedIn(t)
      BY <2>2
    <3> QED
      BY <3>1, <3>2, <3>3
  <2>4. ASSUME NEW t \in Sessions, NEW r \in Rules
        PROVE  replay'.sent[t][r]
                 = {Moment(j) : j \in {k \in CountedIn(t)' : r \in lived[k].quoted}}
    <3>1. replay.sent[t][r] = {Moment(j) : j \in {k \in CountedIn(t) : r \in lived[k].quoted}}
      BY <2>1 DEF KeepsPast
    <3>2. replay'.sent[t][r] = IF t = lived[i].session /\ r \in lived[i].quoted
                               THEN replay.sent[t][r] \cup {Moment(i)} ELSE replay.sent[t][r]
      BY <2>0
    <3>3. CountedIn(t)' = IF t = lived[i].session THEN CountedIn(t) \cup {i} ELSE CountedIn(t)
      BY <2>2
    <3> QED
      BY <3>1, <3>2, <3>3
  <2> DEFINE early(t) == {lived'[j].matches : j \in CountedIn(t)'} \ {Unreadable}
             sent(t, r) == {Moment(j)' : j \in {k \in CountedIn(t)' : r \in lived'[k].quoted}}
  <2>5. \A t \in Sessions : replay'.earlier[t] = early(t)
    BY <1>3, <2>3
  <2>6. \A t \in Sessions, r \in Rules : replay'.sent[t][r] = sent(t, r)
    BY <1>3, <1>4, <2>4
  <2>7. replay'.earlier = [t \in Sessions |-> early(t)]
    <3> HIDE DEF early
    <3> QED
      BY <2>0, <2>5
  <2>8. replay'.sent = [t \in Sessions |-> [r \in Rules |-> sent(t, r)]]
    <3> HIDE DEF sent
    <3>1. replay'.sent = [t \in Sessions |-> replay'.sent[t]]
      BY <2>0
    <3>2. ASSUME NEW t \in Sessions
          PROVE  replay'.sent[t] = [r \in Rules |-> sent(t, r)]
      BY <2>0, <2>6
    <3> QED
      BY <3>1, <3>2
  <2> QED
    BY <2>7, <2>8 DEF KeepsPast
<1>11. ASSUME ToldAsLived
       PROVE  KeepsCounts'
  <2>1. /\ KeepsCounts /\ i \notin Counted
        /\ fired = lived[i].fired /\ quoted = lived[i].quoted
    BY <1>0, <1>1, <1>6, <1>11 DEF ReplayOK, Tells
  <2>2. ASSUME NEW P
        PROVE  Cardinality({j \in Counted' : j \in P})
                 = IF i \in P THEN Cardinality({j \in Counted : j \in P}) + 1
                   ELSE Cardinality({j \in Counted : j \in P})
    BY <1>5, <1>7, <2>1, CountOf
  <2>3. replay'.errors = Cardinality({j \in Counted' : lived[j].matches = Unreadable})
    <3> DEFINE P == {j \in DOMAIN lived : lived[j].matches = Unreadable}
    <3>1. /\ {j \in Counted' : j \in P} = {j \in Counted' : lived[j].matches = Unreadable}
          /\ {j \in Counted : j \in P} = {j \in Counted : lived[j].matches = Unreadable}
          /\ i \in P <=> lived[i].matches = Unreadable
      BY <1>2, <1>5, <1>7
    <3>2. replay.errors = Cardinality({j \in Counted : lived[j].matches = Unreadable})
      BY <2>1 DEF KeepsCounts
    <3>3. replay'.errors = IF lived[i].matches = Unreadable THEN replay.errors + 1
                           ELSE replay.errors
      BY <1>0, <1>2, <1>11 DEF CountsThese
    <3> HIDE DEF P
    <3> QED
      BY <2>2, <3>1, <3>2, <3>3
  <2>4. ASSUME NEW r \in Rules
        PROVE  replay'.rules[r] = Cardinality({j \in Counted' : r \in lived[j].fired})
    <3> DEFINE P == {j \in DOMAIN lived : r \in lived[j].fired}
               more == {j \in Counted' : r \in lived[j].fired}
               old == {j \in Counted : r \in lived[j].fired}
    <3>1. /\ {j \in Counted' : j \in P} = more
          /\ {j \in Counted : j \in P} = old
          /\ i \in P <=> r \in lived[i].fired
      BY <1>2, <1>5, <1>7
    <3>2. replay.rules[r] = Cardinality(old)
      BY <2>1 DEF KeepsCounts
    <3>3. replay'.rules[r] = IF r \in lived[i].fired THEN replay.rules[r] + 1
                             ELSE replay.rules[r]
      BY <1>0, <1>11, <2>1 DEF CountsThese
    <3> HIDE DEF P, more, old
    <3>4. Cardinality(more) = IF i \in P THEN Cardinality(old) + 1 ELSE Cardinality(old)
      BY <2>2, <3>1
    <3>5. replay'.rules[r] = Cardinality(more)
      BY <3>1, <3>2, <3>3, <3>4
    <3> QED
      BY <3>5 DEF more
  <2>5. ASSUME NEW r \in Rules
        PROVE  replay'.reminders[r] = Cardinality({j \in Counted' : r \in lived[j].quoted})
    <3> DEFINE P == {j \in DOMAIN lived : r \in lived[j].quoted}
               more == {j \in Counted' : r \in lived[j].quoted}
               old == {j \in Counted : r \in lived[j].quoted}
    <3>1. /\ {j \in Counted' : j \in P} = more
          /\ {j \in Counted : j \in P} = old
          /\ i \in P <=> r \in lived[i].quoted
      BY <1>2, <1>5, <1>7
    <3>2. replay.reminders[r] = Cardinality(old)
      BY <2>1 DEF KeepsCounts
    <3>3. replay'.reminders[r] = IF r \in lived[i].quoted THEN replay.reminders[r] + 1
                             ELSE replay.reminders[r]
      BY <1>0, <1>11, <2>1 DEF CountsThese
    <3> HIDE DEF P, more, old
    <3>4. Cardinality(more) = IF i \in P THEN Cardinality(old) + 1 ELSE Cardinality(old)
      BY <2>2, <3>1
    <3>5. replay'.reminders[r] = Cardinality(more)
      BY <3>1, <3>2, <3>3, <3>4
    <3> QED
      BY <3>5 DEF more
  <2>6. /\ replay'.rules = [r \in Rules |-> replay'.rules[r]]
        /\ replay'.reminders = [r \in Rules |-> replay'.reminders[r]]
    BY <1>0, <1>11 DEF CountsThese
  <2>7. replay'.rules = [r \in Rules |-> Cardinality({j \in Counted' : r \in lived[j].fired})]
    BY <2>4, <2>6
  <2>8. replay'.reminders
          = [r \in Rules |-> Cardinality({j \in Counted' : r \in lived[j].quoted})]
    BY <2>5, <2>6
  <2> QED
    BY <1>3, <2>3, <2>7, <2>8 DEF KeepsCounts
<1>12. ReplayOK'
  <2>1. NamedOK' /\ (Tells' => replay'.calls = Cardinality(Counted'))
    BY <1>1, <1>4, <1>9
  <2>2. ToldAsLived' => KeepsPast' /\ KeepsCounts'
    BY <1>3, <1>10, <1>11
  <2>3. /\ replay'.file \in Nat \ {0} /\ replay'.line \in Nat \ {0}
        /\ lacks' = "times" => replay'.when = 0
    BY <1>1, <1>2, <1>3 DEF ReadsOn
  <2> QED
    BY <1>8, <2>1, <2>2, <2>3 DEF ReplayOK, ReadsOn
<1> QED
  BY <1>12

\* A call no facts can be extracted of is an error now as it was then, of
\* which nothing is kept.
LEMMA BadCallKeeps ==
    ASSUME LivedOK, FilesOK, ReplayOK, BadCall
    PROVE  ReplayOK'
<1>1. /\ AtLine /\ ~ SeenBefore(ThisLine) /\ Recordings /\ ThisLine.matches = Unreadable
      /\ replay' = [Passed(ThisLine) EXCEPT !.calls = @ + 1, !.errors = @ + 1]
  BY DEF BadCall, recorded, Recordings
<1>2. named # <<>> /\ IsReplay
  BY <1>1, AtLineIs
<1>3. /\ IsReplay' /\ replay'.file = replay.file /\ replay'.line = replay.line + 1
      /\ replay'.when = ThisLine.when
      /\ replay'.seen = IF ThisLine.id = NoId THEN replay.seen
                        ELSE replay.seen \cup {ThisLine.id}
      /\ replay'.calls = replay.calls + 1 /\ replay'.errors = replay.errors + 1
      /\ replay'.earlier = replay.earlier /\ replay'.sent = replay.sent
      /\ replay'.rules = replay.rules /\ replay'.reminders = replay.reminders
  BY <1>1, <1>2 DEF IsReplay, Passed
<1>4. lived[CallAt(Here)].fired = {} /\ lived[CallAt(Here)].quoted = {}
  <2>1. MadeRight(CallAt(Here)) /\ lived[CallAt(Here)].matches = Unreadable
    BY <1>1, ThisLineIs
  <2>2. lived[CallAt(Here)].fired = {}
    BY <2>1 DEF MadeRight
  <2>3. \A T : ({} \cap confirmed) \ T = {}
    OBVIOUS
  <2> QED
    BY <2>1, <2>2, <2>3, NothingDue DEF MadeRight
<1>5. ASSUME ToldAsLived
      PROVE  /\ replay.earlier = [t \in Sessions |-> replay.earlier[t]]
             /\ replay.sent = [t \in Sessions |-> [r \in Rules |-> replay.sent[t][r]]]
             /\ replay.rules = [r \in Rules |-> replay.rules[r]]
             /\ replay.reminders = [r \in Rules |-> replay.reminders[r]]
  <2>1. KeepsPast /\ KeepsCounts
    BY <1>2, <1>5 DEF ReplayOK
  <2>2. \A t \in Sessions : replay.sent[t] = [r \in Rules |-> replay.sent[t][r]]
    BY <2>1 DEF KeepsPast
  <2>3. replay.sent = [t \in Sessions |-> replay.sent[t]]
    BY <2>1 DEF KeepsPast
  <2>4. replay.earlier = [t \in Sessions |-> replay.earlier[t]]
    BY <2>1 DEF KeepsPast
  <2> QED
    BY <2>1, <2>2, <2>3, <2>4 DEF KeepsCounts
<1>6. ASSUME ToldAsLived
      PROVE  /\ replay'.earlier = [t \in Sessions |->
                    IF t = ThisLine.session /\ ThisLine.matches # Unreadable
                    THEN replay.earlier[t] \cup {ThisLine.matches} ELSE replay.earlier[t]]
             /\ replay'.sent = [t \in Sessions |-> [r \in Rules |->
                    IF t = ThisLine.session /\ r \in {}
                    THEN replay.sent[t][r] \cup {ThisLine.when} ELSE replay.sent[t][r]]]
             /\ replay'.rules = [r \in Rules |-> IF r \in {} THEN replay.rules[r] + 1
                                                 ELSE replay.rules[r]]
             /\ replay'.reminders = [r \in Rules |-> IF r \in {} THEN replay.reminders[r] + 1
                                                     ELSE replay.reminders[r]]
  <2>1. /\ [t \in Sessions |-> IF t = ThisLine.session /\ ThisLine.matches # Unreadable
                    THEN replay.earlier[t] \cup {ThisLine.matches} ELSE replay.earlier[t]]
             = [t \in Sessions |-> replay.earlier[t]]
        /\ [t \in Sessions |-> [r \in Rules |-> IF t = ThisLine.session /\ r \in {}
                    THEN replay.sent[t][r] \cup {ThisLine.when} ELSE replay.sent[t][r]]]
             = [t \in Sessions |-> [r \in Rules |-> replay.sent[t][r]]]
    BY <1>1
  <2>2. /\ [r \in Rules |-> IF r \in {} THEN replay.rules[r] + 1 ELSE replay.rules[r]]
             = [r \in Rules |-> replay.rules[r]]
        /\ [r \in Rules |-> IF r \in {} THEN replay.reminders[r] + 1 ELSE replay.reminders[r]]
             = [r \in Rules |-> replay.reminders[r]]
    OBVIOUS
  <2> QED
    BY <1>3, <1>5, <1>6, <2>1, <2>2
<1>7. ToldAsLived => replay'.errors = IF ThisLine.matches = Unreadable THEN replay.errors + 1
                                      ELSE replay.errors
  BY <1>1, <1>3
<1>8. ReadsOn
  BY <1>3 DEF ReadsOn
<1>9. ToldAsLived => FoundThen({}, {}) /\ CountsThese({}, {})
  BY <1>4, <1>6, <1>7 DEF FoundThen, CountsThese
<1> QED
  BY <1>1, <1>8, <1>9, OneMoreKeeps

\* A call that is judged again is judged and quoted as it was.
LEMMA JudgeKeeps ==
    ASSUME LivedOK, FilesOK, ReplayOK, Judge
    PROVE  ReplayOK'
<1>1. /\ AtLine /\ ~ SeenBefore(ThisLine) /\ Recordings /\ ThisLine.matches # Unreadable
  BY DEF Judge, recorded, Recordings
<1> DEFINE fired == FiredOn(ThisLine.matches, replay.earlier[ThisLine.session])
           quoted == Quoted({r \in fired \cap confirmed :
                               ~ Recent(replay.sent[ThisLine.session][r], ThisLine.when)})
<1>2. replay' = [Passed(ThisLine) EXCEPT
             !.calls = @ + 1,
             !.earlier[ThisLine.session] = @ \cup {ThisLine.matches},
             !.decisions[Decided(fired, confirmed)] = @ + 1,
             !.sent[ThisLine.session] =
                 [r \in Rules |-> IF r \in quoted THEN @[r] \cup {ThisLine.when} ELSE @[r]],
             !.rules = [r \in Rules |-> IF r \in fired THEN @[r] + 1 ELSE @[r]],
             !.reminders = [r \in Rules |-> IF r \in quoted THEN @[r] + 1 ELSE @[r]]]
  BY DEF Judge
<1>3. named # <<>> /\ IsReplay
  BY <1>1, AtLineIs
<1>4. ToldAsLived => fired = lived[CallAt(Here)].fired /\ quoted = lived[CallAt(Here)].quoted
  <2> HAVE ToldAsLived
  <2>1. CallAt(Here) \notin Counted
    BY <1>1, NewCallIs DEF Tells
  <2> QED
    BY <1>1, <2>1, JudgedAsThen
<1> HIDE DEF fired, quoted
<1> DEFINE s == ThisLine.session
<1>5. /\ IsReplay' /\ replay'.file = replay.file /\ replay'.line = replay.line + 1
      /\ replay'.when = ThisLine.when
      /\ replay'.seen = IF ThisLine.id = NoId THEN replay.seen
                        ELSE replay.seen \cup {ThisLine.id}
      /\ replay'.calls = replay.calls + 1 /\ replay'.errors = replay.errors
  BY <1>2, <1>3 DEF IsReplay, Passed
<1>6. /\ replay'.earlier = [replay.earlier EXCEPT ![s] = @ \cup {ThisLine.matches}]
      /\ replay'.sent = [replay.sent EXCEPT ![s] =
             [r \in Rules |-> IF r \in quoted THEN @[r] \cup {ThisLine.when} ELSE @[r]]]
      /\ replay'.rules = [r \in Rules |-> IF r \in fired THEN replay.rules[r] + 1
                                          ELSE replay.rules[r]]
      /\ replay'.reminders = [r \in Rules |-> IF r \in quoted THEN replay.reminders[r] + 1
                                              ELSE replay.reminders[r]]
  BY <1>2, <1>3 DEF IsReplay, Passed
<1>7. ASSUME ToldAsLived
      PROVE  /\ replay'.earlier = [t \in Sessions |->
                    IF t = s THEN replay.earlier[t] \cup {ThisLine.matches} ELSE replay.earlier[t]]
             /\ replay'.sent = [t \in Sessions |-> [r \in Rules |->
                    IF t = s /\ r \in quoted
                    THEN replay.sent[t][r] \cup {ThisLine.when} ELSE replay.sent[t][r]]]
  <2>1. KeepsPast
    BY <1>3, <1>7 DEF ReplayOK
  <2>2. replay.earlier = [t \in Sessions |-> replay.earlier[t]]
    BY <2>1 DEF KeepsPast
  <2>3. replay.sent = [t \in Sessions |-> replay.sent[t]]
    BY <2>1 DEF KeepsPast
  <2>4. \A t \in Sessions : replay.sent[t] = [r \in Rules |-> replay.sent[t][r]]
    BY <2>1 DEF KeepsPast
  <2> HIDE DEF s
  <2>5. replay'.earlier = [t \in Sessions |->
                    IF t = s THEN replay.earlier[t] \cup {ThisLine.matches} ELSE replay.earlier[t]]
    BY <1>6, <2>2
  <2>6. replay'.sent = [t \in Sessions |->
           IF t = s THEN [r \in Rules |-> IF r \in quoted
                                          THEN replay.sent[s][r] \cup {ThisLine.when}
                                          ELSE replay.sent[s][r]]
           ELSE replay.sent[t]]
    BY <1>6, <2>3
  <2>7. ASSUME NEW t \in Sessions
        PROVE  replay'.sent[t] = [r \in Rules |-> IF t = s /\ r \in quoted
                      THEN replay.sent[t][r] \cup {ThisLine.when} ELSE replay.sent[t][r]]
    <3>1. CASE t = s
      BY <2>6, <3>1
    <3>2. CASE t # s
      BY <2>4, <2>6, <3>2
    <3> QED
      BY <3>1, <3>2
  <2>8. replay'.sent = [t \in Sessions |-> replay'.sent[t]]
    BY <2>6
  <2> QED
    BY <2>5, <2>7, <2>8
<1>8. ReadsOn
  BY <1>5 DEF ReadsOn
<1>9. ToldAsLived => FoundThen(fired, quoted) /\ CountsThese(fired, quoted)
  BY <1>1, <1>4, <1>5, <1>6, <1>7 DEF FoundThen, CountsThese
<1> QED
  BY <1>1, <1>8, <1>9, OneMoreKeeps

\* A replay begins with nothing read.
LEMMA NameKeeps ==
    ASSUME FilesOK, NEW n \in 1..MaxNamed, NEW files \in [1..n -> Sessions], Name(files)
    PROVE  ReplayOK'
<1>1. named' = files /\ replay' = NewReplay /\ transcripts' = transcripts /\ lacks' = lacks
  BY DEF Name, recorded
<1>2. n \in Nat \ {0} /\ NamedOK'
  BY <1>1 DEF NamedOK
<1>3. Done' = {}
  <2>1. Here' = <<1, 1>>
    BY <1>1 DEF Here, NewReplay
  <2>2. ASSUME NEW p, p \in Lines'
        PROVE  p[1] \in Nat \ {0} /\ p[2] \in Nat \ {0}
    <3>1. PICK f \in 1..n : \E i \in DOMAIN transcripts[files[f]] : p = <<f, i>>
      BY <1>1, <2>2 DEF Lines
    <3>2. files[f] \in Sessions /\ IsSequence(transcripts[files[f]])
      BY DEF FilesOK
    <3>3. DOMAIN transcripts[files[f]] \subseteq Nat \ {0}
      BY <3>2 DEF IsSequence
    <3> QED
      BY <3>1, <3>3
  <2>3. ASSUME NEW p, p \in Lines'
        PROVE  ~ Earlier(p, Here)'
    BY <2>1, <2>2, <2>3 DEF Earlier
  <2> QED
    BY <2>3 DEF Done
<1>4. Counted' = {} /\ \A s : CountedIn(s)' = {}
  <2>1. Counted' = {}
    BY <1>3 DEF Counted
  <2> QED
    BY <2>1 DEF CountedIn
<1>5. /\ IsReplay' /\ replay'.file = 1 /\ replay'.line = 1 /\ replay'.when = 0
      /\ replay'.seen = {} /\ replay'.calls = 0 /\ replay'.errors = 0
      /\ replay'.earlier = [s \in Sessions |-> {}]
      /\ replay'.sent = [s \in Sessions |-> [r \in Rules |-> {}]]
      /\ replay'.rules = [r \in Rules |-> 0] /\ replay'.reminders = [r \in Rules |-> 0]
  BY <1>1 DEF NewReplay, IsReplay
<1>6. KeepsPast'
  BY <1>4, <1>5 DEF KeepsPast
<1>7. Cardinality({}) = 0
  BY FS_EmptySet
<1>8. KeepsCounts'
  BY <1>4, <1>5, <1>7 DEF KeepsCounts
<1> QED
  BY <1>2, <1>4, <1>5, <1>6, <1>7, <1>8 DEF ReplayOK

\* The clock is nothing to a replay.
LEMMA ReplayStays ==
    ASSUME ReplayOK, UNCHANGED replaying
    PROVE  ReplayOK'
<1>1. Recordings /\ replay' = replay /\ named' = named
  BY DEF replaying, recorded, Recordings
<1>2. CASE named = <<>>
  BY <1>1, <1>2 DEF ReplayOK
<1>3. CASE named # <<>>
  <2>1. Here' = Here
    BY <1>1 DEF Here
  <2>2. Lines' = Lines /\ \A p : CallAt(p)' = CallAt(p)
    BY <1>1, RecordingsStay
  <2>3. \A p : Earlier(p, Here)' <=> Earlier(p, Here)
    BY <2>1 DEF Earlier
  <2>4. Done' = Done
    BY <2>2, <2>3 DEF Done
  <2>5. Counted' = Counted
    BY <2>2, <2>4 DEF Counted
  <2>6. IsReplay /\ IsReplay'
    BY <1>1, <1>3 DEF ReplayOK, IsReplay
  <2>7. /\ replay.file \in Nat \ {0} /\ replay.line \in Nat \ {0}
        /\ lacks = "times" => replay.when = 0
    BY <1>3 DEF ReplayOK
  <2> QED
    BY <1>1, <1>3, <2>5, <2>6, <2>7, NothingNewKeeps
<1> QED
  BY <1>2, <1>3

\* Nothing is lived, written or read at first.
LEMMA ReplayStarts == Init /\ ReplayInit => LivedOK /\ FilesOK /\ ReplayOK
<1> SUFFICES ASSUME Init, ReplayInit PROVE LivedOK /\ FilesOK /\ ReplayOK
  OBVIOUS
<1>1. /\ lived = <<>> /\ transcripts = [s \in Sessions |-> <<>>] /\ named = <<>>
      /\ now = 0 /\ confirmed \subseteq Rules
  BY DEF Init, ReplayInit
<1>2. IsSequence(<<>>) /\ DOMAIN <<>> = {}
  <2>1. <<>> \in Seq({})
    OBVIOUS
  <2> QED
    BY <2>1 DEF IsSequence
<1>3. LivedOK
  BY <1>1, <1>2 DEF LivedOK
<1>4. FilesOK
  BY <1>1, <1>2 DEF FilesOK
<1> QED
  BY <1>1, <1>3, <1>4 DEF ReplayOK

\* Every step keeps what is recorded and what the replay has of it: sessions go
\* on only until the files are named, and from then on the files are only read.
LEMMA ReplayStepKeeps ==
    ASSUME LivedOK, FilesOK, ReplayOK, [ReplayStep]_<<vars, replaying>>
    PROVE  LivedOK' /\ FilesOK' /\ ReplayOK'
<1>1. CASE ReplayNext /\ UNCHANGED vars
  <2>0. now' = now /\ confirmed' = confirmed /\ now \in Nat
    BY <1>1 DEF vars, owner, LivedOK
  <2>1. ASSUME UNCHANGED recorded, ReplayOK'
        PROVE  LivedOK' /\ FilesOK' /\ ReplayOK'
    BY <2>0, <2>1, StaysLived, FilesStay DEF recorded
  <2>2. ASSUME named' = <<>>
        PROVE  ReplayOK'
    BY <2>2 DEF ReplayOK
  <2>3. ASSUME NEW s \in Sessions, NEW matches \in Proposals, Make(s, matches)
        PROVE  LivedOK' /\ FilesOK' /\ ReplayOK'
    <3>1. named' = <<>>
      BY <2>3 DEF Make
    <3> QED
      BY <1>1, <2>2, <2>3, <3>1, MakeKeeps
  <2>4. ASSUME NEW s \in Sessions, Compact(s)
        PROVE  LivedOK' /\ FilesOK' /\ ReplayOK'
    <3>1. named' = <<>>
      BY <2>4 DEF Compact
    <3> QED
      BY <1>1, <2>2, <2>4, <3>1, CompactKeeps
  <2>5. ASSUME NEW s \in Sessions, NEW new \in Sessions, Resume(s, new)
        PROVE  LivedOK' /\ FilesOK' /\ ReplayOK'
    <3>1. named' = <<>> /\ lived' = lived
      BY <2>5 DEF Resume
    <3> QED
      BY <2>0, <2>2, <2>5, <3>1, ResumeKeeps, StaysLived
  <2>6. ASSUME NEW n \in 1..MaxNamed, NEW files \in [1..n -> Sessions], Name(files)
        PROVE  LivedOK' /\ FilesOK' /\ ReplayOK'
    BY <2>1, <2>6, NameKeeps DEF Name
  <2>7. CASE NextFile
    BY <2>1, <2>7, NextFileKeeps DEF NextFile
  <2>8. CASE Repeated
    BY <2>1, <2>8, RepeatedKeeps DEF Repeated
  <2>9. CASE BadCall
    BY <2>1, <2>9, BadCallKeeps DEF BadCall
  <2>10. CASE Judge
    BY <2>1, <2>10, JudgeKeeps DEF Judge
  <2> QED
    BY <1>1, <2>3, <2>4, <2>5, <2>6, <2>7, <2>8, <2>9, <2>10 DEF ReplayNext
<1>2. CASE ~ Reading /\ Clock /\ UNCHANGED replaying
  <2>1. now' \in Nat /\ confirmed' = confirmed
    BY <1>2, GateAssumption DEF Clock, owner
  <2>2. ReplayOK' /\ UNCHANGED recorded
    BY <1>2, ReplayStays DEF replaying
  <2> QED
    BY <2>1, <2>2, StaysLived, FilesStay DEF recorded
<1>3. CASE UNCHANGED <<vars, replaying>>
  <2>1. now' = now /\ confirmed' = confirmed /\ now \in Nat
    BY <1>3 DEF vars, owner, LivedOK
  <2>2. ReplayOK' /\ UNCHANGED recorded
    BY <1>3, ReplayStays DEF replaying
  <2> QED
    BY <2>1, <2>2, StaysLived, FilesStay DEF recorded
<1> QED
  BY <1>1, <1>2, <1>3 DEF ReplayStep

\* A replay in the middle of files that overlap has counted the calls it has
\* read of, each once, as the gate judged and quoted them when they were made,
\* and keeps of each session what the gate had to go by (replay.py).
THEOREM ReplaySteady == ReplaySpec => [](LivedOK /\ FilesOK /\ ReplayOK)
<1>1. Init /\ ReplayInit => LivedOK /\ FilesOK /\ ReplayOK
  BY ReplayStarts
<1>2. LivedOK /\ FilesOK /\ ReplayOK /\ [ReplayStep]_<<vars, replaying>>
        => (LivedOK /\ FilesOK /\ ReplayOK)'
  BY ReplayStepKeeps
<1> QED
  BY <1>1, <1>2, PTL DEF ReplaySpec

\* At the end every line has been read.
LEMMA AllRead ==
    ASSUME LivedOK, FilesOK, ReplayOK, named # <<>>, ~ Reading
    PROVE  Counted = {CallAt(p) : p \in Lines}
<1>1. NamedOK /\ replay.file \in Nat \ {0} /\ replay.file \notin DOMAIN named
  BY DEF ReplayOK, Reading
<1>2. DOMAIN named = 1..Len(named) /\ Len(named) \in Nat
  BY <1>1, LinesAre
<1>3. ASSUME NEW p \in Lines
      PROVE  Earlier(p, Here)
  <2>1. p[1] \in DOMAIN named
    <3>1. PICK f \in DOMAIN named : \E i \in DOMAIN transcripts[named[f]] : p = <<f, i>>
      BY <1>1, <1>3, LinesAre
    <3> QED
      BY <3>1
  <2>2. Here[1] = replay.file
    BY DEF Here
  <2> HIDE DEF Here
  <2> QED
    BY <1>1, <1>2, <2>1, <2>2 DEF Earlier
<1>4. Done = Lines
  BY <1>3 DEF Done
<1> QED
  BY <1>4 DEF Counted

\* ReplayAgrees: the report of a replay counts what the gate did on the calls
\* when they were made, and a call with an id at most once (replay.py:10).
THEOREM ReplayCounts == ReplaySpec => []ReplayAgrees
<1>1. ASSUME LivedOK, FilesOK, ReplayOK, named # <<>>, ~ Reading
      PROVE  /\ lacks # "ids" => replay.calls <= Len(lived)
             /\ ToldAsLived =>
                  /\ replay.calls = Len(lived)
                  /\ KeepsCounts /\ Counted = DOMAIN lived
  <2>1. NamedOK
    BY <1>1 DEF ReplayOK
  <2>2. /\ Counted \subseteq DOMAIN lived /\ IsFiniteSet(DOMAIN lived)
        /\ DOMAIN lived = 1..Len(lived) /\ Len(lived) \in Nat
    BY <1>1, <2>1, CountedAre, LinesAre
  <2>3. Cardinality(DOMAIN lived) = Len(lived)
    <3>1. Cardinality(1..Len(lived)) = Len(lived)
      BY <2>2, FS_Interval
    <3> QED
      BY <2>2, <3>1
  <2>4. Tells => replay.calls = Cardinality(Counted)
    BY <1>1 DEF ReplayOK
  <2>5. Cardinality(Counted) <= Cardinality(DOMAIN lived)
    BY <2>2, FS_Subset
  <2>6. lacks # "ids" => replay.calls <= Len(lived)
    BY <2>3, <2>4, <2>5 DEF Tells
  <2>7. ASSUME ToldAsLived
        PROVE  replay.calls = Len(lived) /\ KeepsCounts /\ Counted = DOMAIN lived
    <3>1. KeepsCounts
      BY <1>1, <2>7 DEF ReplayOK
    <3>2. Counted = {CallAt(p) : p \in Lines}
      BY <1>1, AllRead
    <3>3. \A i \in DOMAIN lived : \E p \in Lines : CallAt(p) = i
      BY <2>7 DEF ToldAsLived
    <3>4. Counted = DOMAIN lived
      BY <2>2, <3>2, <3>3
    <3> QED
      BY <2>3, <2>4, <2>7, <3>1, <3>4 DEF Tells
  <2> QED
    BY <2>6, <2>7
<1>2. LivedOK /\ FilesOK /\ ReplayOK => ReplayAgrees
  <2> SUFFICES ASSUME LivedOK, FilesOK, ReplayOK, named # <<>>, ~ Reading, ToldAsLived
               PROVE  /\ replay.errors
                           = Cardinality({i \in DOMAIN lived : lived[i].matches = Unreadable})
                      /\ \A r \in Rules :
                           /\ replay.rules[r]
                                = Cardinality({i \in DOMAIN lived : r \in lived[i].fired})
                           /\ replay.reminders[r]
                                = Cardinality({i \in DOMAIN lived : r \in lived[i].quoted})
    BY <1>1 DEF ReplayAgrees
  <2>1. KeepsCounts /\ Counted = DOMAIN lived
    BY <1>1
  <2> QED
    BY <2>1 DEF KeepsCounts
<1>3. ReplaySpec => [](LivedOK /\ FilesOK /\ ReplayOK)
  BY ReplaySteady
<1> QED
  BY <1>2, <1>3, PTL
====
