--------------------------- MODULE AuditLogProofs ---------------------------
(***************************************************************************)
(* Proofs about AuditLog and AuditReaders for any processes, months and    *)
(* bounds.                                                                 *)
(***************************************************************************)
EXTENDS AuditReaders, SequenceTheorems, FiniteSetTheorems, TLAPS

-----------------------------------------------------------------------------
(* The size of a file.                                                     *)

\* The pieces of the first k lines that are in the file of the month.
PrefixPieces(lines, k, month) ==
    {at \in (1 .. k) \X Pieces :
        lines[at[1]].month = month /\ at[2] \in lines[at[1]].on}

PrefixSize(lines, k, month) == Cardinality(PrefixPieces(lines, k, month))

\* The pieces of the first lines of a file (SizeOf stands for os.stat) are finitely
\* many, so their number is a size.
LEMMA PrefixFinite ==
    ASSUME NEW lines, NEW k \in Nat, NEW month
    PROVE  /\ IsFiniteSet(PrefixPieces(lines, k, month))
           /\ PrefixSize(lines, k, month) \in Nat
<1>1. IsFiniteSet(1 .. k)
  BY FS_Interval
<1>2. IsFiniteSet(Pieces)
  <2>1. IsFiniteSet({"pad"})
    BY FS_Singleton
  <2>2. IsFiniteSet({"pad"} \cup {"start"})
    BY <2>1, FS_AddElement
  <2>3. IsFiniteSet(({"pad"} \cup {"start"}) \cup {"rest"})
    BY <2>2, FS_AddElement
  <2>4. IsFiniteSet((({"pad"} \cup {"start"}) \cup {"rest"}) \cup {"end"})
    BY <2>3, FS_AddElement
  <2>5. Pieces = (({"pad"} \cup {"start"}) \cup {"rest"}) \cup {"end"}
    BY DEF Pieces
  <2> QED
    BY <2>4, <2>5
<1>3. IsFiniteSet((1 .. k) \X Pieces)
  BY <1>1, <1>2, FS_Product
<1>4. PrefixPieces(lines, k, month) \in SUBSET ((1 .. k) \X Pieces)
  BY DEF PrefixPieces
<1> QED
  BY <1>3, <1>4, FS_Subset, FS_CardinalityType DEF PrefixSize

\* A file's size is that of all lines up to the last.
LEMMA SizeIsPrefixSize ==
    ASSUME NEW lines \in Seq(Line), NEW month
    PROVE  /\ SizeOf(lines, month) = PrefixSize(lines, Len(lines), month)
           /\ SizeOf(lines, month) \in Nat
<1>1. DOMAIN lines = 1 .. Len(lines) /\ Len(lines) \in Nat
  BY LenProperties
<1>2. SizeOf(lines, month) = PrefixSize(lines, Len(lines), month)
  BY <1>1 DEF SizeOf, PrefixSize, PrefixPieces
<1> QED
  BY <1>1, <1>2, PrefixFinite

\* A file that got another line is larger than it was.
LEMMA SizeGrows ==
    ASSUME NEW lines \in Seq(Line), NEW k \in 0 .. Len(lines) - 1, NEW month,
           lines[Len(lines)].month = month,
           "start" \in lines[Len(lines)].on
    PROVE  PrefixSize(lines, k, month) < SizeOf(lines, month)
<1> DEFINE n == Len(lines)
           Small == PrefixPieces(lines, k, month)
           Large == PrefixPieces(lines, n, month)
<1>1. n \in Nat /\ k \in Nat /\ k < n
  BY LenProperties
<1>2. IsFiniteSet(Small) /\ IsFiniteSet(Large)
  BY <1>1, PrefixFinite
<1>3. Small \in SUBSET Large
  BY <1>1 DEF PrefixPieces
<1>4. <<n, "start">> \in Large /\ <<n, "start">> \notin Small
  BY <1>1 DEF PrefixPieces, Pieces
<1>5. Small # Large
  BY <1>4
<1>6. Cardinality(Small) <= Cardinality(Large) /\ Cardinality(Small) # Cardinality(Large)
  BY <1>2, <1>3, <1>5, FS_Subset
<1>7. Cardinality(Small) \in Nat /\ Cardinality(Large) \in Nat
  BY <1>1, PrefixFinite DEF PrefixSize
<1>8. SizeOf(lines, month) = Cardinality(Large)
  BY SizeIsPrefixSize DEF PrefixSize
<1> QED
  BY <1>6, <1>7, <1>8 DEF PrefixSize

-----------------------------------------------------------------------------
(* The inductive invariant.  What holds of the disk is said of a log that  *)
(* nobody edits; an edit makes tampers positive for good.                  *)

Busy == {"link", "write", "head", "mark"}

\* The lock is held by the one process between _try_lock and _unlock.
LockInv ==
    /\ lock = {p \in Procs : pc[p] \in Busy}
    /\ \A p, q \in lock : p = q

\* Each append under way has a hash of its own, which the log does not hold
\* before the line is written.
IdsInv ==
    /\ \A p \in Procs : pc[p] # "idle" =>
         entry[p].id \in 1 .. begun /\ entry[p].id \notin acked
    /\ \A p, q \in Procs :
         p # q /\ pc[p] # "idle" /\ pc[q] # "idle" => entry[p].id # entry[q].id
    /\ \A p \in Procs : pc[p] \in {"lock", "link", "write"} =>
         \A i \in DOMAIN log : log[i].id # entry[p].id
    /\ \A i \in DOMAIN log : log[i].id \in 1 .. begun
    /\ \A i, j \in DOMAIN log : log[i].id = log[j].id => i = j

\* The lines are in the order of their files.
LinesInv ==
    /\ \A i \in DOMAIN log :
         /\ "start" \in log[i].on
         /\ log[i].month \in files
         /\ log[i].kind # "edited"
    /\ \A i, j \in DOMAIN log : i <= j => log[i].month <= log[j].month

\* A line between two entries whose append() returned links to the first.
ChainInv ==
    \A i \in DOMAIN log : Intact(log[i]) =>
        \/ log[i].prev = Expected(log, i)
        \/ i > 1 /\ log[i - 1].id \notin acked

\* A line stands whole, on a line of its own.
Complete(line) == line.kind = "whole" /\ WholeLine \subseteq line.on

AckedInv ==
    /\ \A id \in acked : \E i \in DOMAIN log : log[i].id = id
    /\ \A i \in DOMAIN log : log[i].id \in acked => Complete(log[i])

HeadInv ==
    IF log = <<>>
    THEN head = NoHead
    ELSE Last(log).id \in acked => head = HeadOf(Last(log).id)

\* A marker stands for the log as it was when its entry was the last one.
MarkersInv ==
    \A m \in markers : \E k \in DOMAIN log :
        /\ log[k].id = m.hash /\ log[k].month = m.month /\ Complete(log[k])
        /\ m.size = PrefixSize(log, k, m.month)

\* The newline before an entry is there when the entry needs it.
NewlineIfNeeded(e) ==
    log # <<>> /\ Last(log).month = e.month /\ "end" \notin Last(log).on
        => e.unfinished

\* An append that is about to write goes to the end of the newest file, starts
\* a new line there, and links to the last line unless that belongs to an append
\* that was cut short.
Ready(p) ==
    /\ \A m \in files : m <= entry[p].month
    /\ NewlineIfNeeded(entry[p])
    /\ \/ entry[p].prev = Expected(log, Len(log) + 1)
       \/ log # <<>> /\ Last(log).id \notin acked

\* An append that has written its line finds it at the end of the log.
Written(p) ==
    /\ log # <<>>
    /\ Last(log).id = entry[p].id
    /\ Last(log).month = entry[p].month
    /\ Complete(Last(log))
    /\ entry[p].written = SizeOf(log, entry[p].month)
    /\ pc[p] = "mark" => head = HeadOf(entry[p].id)

StepInv ==
    \A p \in Procs :
        /\ pc[p] = "write" => Ready(p)
        /\ pc[p] \in {"head", "mark"} => Written(p)

DiskInv ==
    /\ IdsInv
    /\ LinesInv
    /\ ChainInv
    /\ AckedInv
    /\ HeadInv
    /\ MarkersInv
    /\ StepInv

IInv ==
    /\ TypeOK
    /\ LockInv
    /\ tampers = 0 => DiskInv

-----------------------------------------------------------------------------
(* Type correctness.                                                       *)

\* Removing consecutive lines leaves a log.
LEMMA WithoutType ==
    ASSUME TypeOK, NEW i \in 1 .. Len(log) + 1, NEW j \in 0 .. Len(log)
    PROVE  Without(i, j) \in Seq(Line)
<1>1. log \in Seq(Line) /\ Len(log) \in Nat
  BY LenProperties DEF TypeOK
<1>2. SubSeq(log, 1, i - 1) \in Seq(Line)
  <2>1. \A k \in 1 .. i - 1 : log[k] \in Line
    BY <1>1, ElementOfSeq
  <2> QED
    BY <2>1, <1>1, SubSeqProperties
<1>3. SubSeq(log, j + 1, Len(log)) \in Seq(Line)
  <2>1. \A k \in j + 1 .. Len(log) : log[k] \in Line
    BY <1>1, ElementOfSeq
  <2> QED
    BY <2>1, <1>1, SubSeqProperties
<1> QED
  BY <1>2, <1>3, ConcatProperties DEF Without

\* What appending a line does to a log.
LEMMA AppendFacts ==
    ASSUME NEW S, NEW seq \in Seq(S), NEW e \in S
    PROVE  /\ Append(seq, e) \in Seq(S)
           /\ Len(Append(seq, e)) = Len(seq) + 1
           /\ \A i \in 1 .. Len(seq) : Append(seq, e)[i] = seq[i]
           /\ Append(seq, e)[Len(seq) + 1] = e
  OBVIOUS

\* Before and after an entry was added to the log.
Extended(before, after, e, pieces, kind) ==
    /\ Len(after) = Len(before) + 1
    /\ \A i \in 1 .. Len(before) :
         /\ after[i].month = before[i].month
         /\ after[i].id = before[i].id
         /\ after[i].prev = before[i].prev
         /\ after[i].kind = before[i].kind
         /\ before[i].on \subseteq after[i].on
         /\ "end" \in before[i].on \/ i < Len(before) => after[i] = before[i]
    /\ after[Len(after)].month = e.month
    /\ after[Len(after)].id = e.id
    /\ after[Len(after)].prev = e.prev
    /\ after[Len(after)].kind = kind
    /\ pieces \subseteq after[Len(after)].on

\* What writing some pieces of an entry does to the log: with a newline first
\* where one is needed, a line is added and the ones before it keep what they
\* hold; a line that is ended stays as it is.
LEMMA LineAdded ==
    ASSUME TypeOK, NEW e \in Entry, NEW pieces \in SUBSET Pieces,
           NEW kind \in Kinds
    PROVE  /\ LinesAfter(e, pieces, kind) \in Seq(Line)
           /\ NewlineIfNeeded(e) =>
                Extended(log, LinesAfter(e, pieces, kind), e, pieces, kind)
<1> DEFINE n == Len(log)
           open == log # <<>> /\ Last(log).month = e.month /\ "end" \notin Last(log).on
           line == [month |-> e.month, id |-> e.id, prev |-> e.prev, kind |-> kind,
                    on |-> pieces \cup IF e.unfinished /\ ~ open THEN {"pad"} ELSE {}]
           merged == [log[n] EXCEPT !.on = @ \cup pieces, !.kind = "damaged"]
           closed == [log[n] EXCEPT !.on = @ \cup {"end"}]
<1>1. /\ log \in Seq(Line) /\ n \in Nat /\ DOMAIN log = 1 .. n
      /\ \A i \in 1 .. n : log[i] \in Line
  BY LenProperties, ElementOfSeq DEF TypeOK
<1>2. log # <<>> => n \in 1 .. n
  BY <1>1, EmptySeq
<1>3. line \in Line
  BY DEF Line, Entry, Pieces
<1>4. log # <<>> => merged \in Line /\ closed \in Line
  BY <1>1, <1>2 DEF Line, Pieces, Kinds
<1>5. CASE open /\ ~ e.unfinished
  <2>1. LinesAfter(e, pieces, kind) = [log EXCEPT ![n] = merged]
    BY <1>1, <1>2, <1>5 DEF LinesAfter, Last
  <2>2. [log EXCEPT ![n] = merged] \in Seq(Line)
    BY <1>1, <1>2, <1>4, <1>5, ExceptSeq
  <2> QED
    BY <2>1, <2>2, <1>5 DEF NewlineIfNeeded
<1>6. CASE open /\ e.unfinished
  <2> DEFINE ended == [log EXCEPT ![n] = closed]
  <2>1. LinesAfter(e, pieces, kind) = Append(ended, line)
    BY <1>1, <1>2, <1>6 DEF LinesAfter, Last
  <2>2. /\ ended \in Seq(Line)
        /\ Len(ended) = n
        /\ \A i \in 1 .. n : ended[i] =
                              IF i = n THEN closed ELSE log[i]
    BY <1>1, <1>2, <1>4, <1>6, ExceptSeq
  <2>3. /\ closed.month = log[n].month /\ closed.id = log[n].id
        /\ closed.prev = log[n].prev /\ closed.kind = log[n].kind
        /\ log[n].on \subseteq closed.on
    BY <1>1, <1>2, <1>6 DEF Line
  <2>4. "end" \notin log[n].on
    BY <1>6 DEF Last
  <2> HIDE DEF closed, line, ended
  <2>5. Append(ended, line) \in Seq(Line)
    BY <2>2, <1>3, AppendFacts
  <2>6. /\ Len(Append(ended, line)) = n + 1
        /\ \A i \in 1 .. n : Append(ended, line)[i] =
                              IF i = n THEN closed ELSE log[i]
        /\ Append(ended, line)[n + 1] = line
    BY <2>2, <1>3, AppendFacts
  <2>7. /\ line.month = e.month /\ line.id = e.id /\ line.prev = e.prev
        /\ line.kind = kind /\ pieces \subseteq line.on
    BY DEF line
  <2> QED
    <3> DEFINE after == Append(ended, line)
    <3>1. /\ Len(after) = n + 1
          /\ \A i \in 1 .. n : after[i] = IF i = n THEN closed ELSE log[i]
          /\ after[n + 1] = line
      BY <2>6
    <3> HIDE DEF after
    <3>2. \A i \in 1 .. n :
            /\ after[i].month = log[i].month
            /\ after[i].id = log[i].id
            /\ after[i].prev = log[i].prev
            /\ after[i].kind = log[i].kind
            /\ log[i].on \subseteq after[i].on
            /\ "end" \in log[i].on \/ i < n => after[i] = log[i]
      <4> TAKE i \in 1 .. n
      <4>1. CASE i = n
        BY <2>3, <2>4, <3>1, <4>1
      <4>2. CASE i # n
        BY <3>1, <4>2
      <4> QED
        BY <4>1, <4>2
    <3>3. Extended(log, after, e, pieces, kind)
      BY <3>1, <3>2, <2>7 DEF Extended
    <3> QED
      BY <2>1, <2>5, <3>3 DEF after
<1>7. CASE ~ open
  <2>1. LinesAfter(e, pieces, kind) = Append(log, line)
    BY <1>7 DEF LinesAfter, Last
  <2>2. /\ line.month = e.month /\ line.id = e.id /\ line.prev = e.prev
        /\ line.kind = kind /\ pieces \subseteq line.on
    OBVIOUS
  <2> HIDE DEF line
  <2>3. /\ Append(log, line) \in Seq(Line)
        /\ Len(Append(log, line)) = n + 1
        /\ \A i \in 1 .. n : Append(log, line)[i] = log[i]
        /\ Append(log, line)[n + 1] = line
    BY <1>1, <1>3
  <2> QED
    BY <1>1, <2>1, <2>2, <2>3 DEF Extended
<1> QED
  BY <1>5, <1>6, <1>7

\* Every reachable state of append(), of its failures and of the edits is typed.
THEOREM TypeCorrect == Spec => []TypeOK
<1>1. Init => TypeOK
  <2> SUFFICES ASSUME Init PROVE TypeOK
    OBVIOUS
  <2>1. log \in Seq(Line)
    BY EmptySeq DEF Init
  <2>2. 1 \in Months
    BY BoundsAssumption DEF Months
  <2>3. [month |-> 1, id |-> 0, prev |-> GENESIS, unfinished |-> FALSE,
         written |-> 0] \in Entry
    BY <2>2 DEF Entry, GENESIS
  <2>4. entry \in [Procs -> Entry]
    BY <2>3 DEF Init
  <2>5. head \in HeadFile
    BY DEF Init, HeadFile, NoHead
  <2> QED
    BY <2>1, <2>4, <2>5 DEF Init, TypeOK
<1>2. TypeOK /\ [Next]_vars => TypeOK'
  <2> SUFFICES ASSUME TypeOK, [Next]_vars PROVE TypeOK'
    OBVIOUS
  <2> USE DEF vars, disk, history, Goto
  <2>0. ASSUME NEW p \in Procs
        PROVE  /\ entry[p] \in Entry
               /\ LinesAfter(entry[p], WholeLine, "whole") \in Seq(Line)
               /\ LinesAfter(entry[p], {"start"}, "damaged") \in Seq(Line)
               /\ LinesAfter(entry[p], {"start", "rest"}, "whole") \in Seq(Line)
               /\ files \cup {entry[p].month} \in SUBSET Months
    <3>1. entry[p] \in Entry /\ entry[p].month \in Months
      BY DEF TypeOK, Entry
    <3>2. /\ WholeLine \in SUBSET Pieces /\ {"start"} \in SUBSET Pieces
          /\ {"start", "rest"} \in SUBSET Pieces
          /\ "whole" \in Kinds /\ "damaged" \in Kinds
      BY DEF WholeLine, Pieces, Kinds
    <3>3. files \cup {entry[p].month} \in SUBSET Months
      BY <3>1 DEF TypeOK
    <3> QED
      BY <3>1, <3>2, <3>3, LineAdded
  <2>1. ASSUME NEW p \in Procs, Call(p) PROVE TypeOK'
    <3>0. begun + 1 \in Nat
      BY DEF TypeOK
    <3>1. [entry[p] EXCEPT !.id = begun + 1] \in Entry
      BY <2>0, <3>0 DEF Entry
    <3>2. entry' = [entry EXCEPT ![p] = [entry[p] EXCEPT !.id = begun + 1]]
      BY <2>1 DEF Call
    <3>3. entry' \in [Procs -> Entry]
      BY <3>1, <3>2 DEF TypeOK
    <3> QED
      BY <2>1, <3>3 DEF Call, TypeOK
  <2>2. ASSUME NEW p \in Procs, Lock(p) PROVE TypeOK'
    BY <2>2 DEF Lock, TypeOK
  <2>3. ASSUME NEW p \in Procs, LockTimeout(p) PROVE TypeOK'
    BY <2>3 DEF LockTimeout, TypeOK
  <2>4. ASSUME NEW p \in Procs, ReadLog(p) PROVE TypeOK'
    <3>1. PICK target \in Months : \E prev \in LinkTo(target) :
            entry' = [entry EXCEPT ![p] =
                        [@ EXCEPT !.month = target, !.prev = prev,
                                  !.unfinished = Untouched(target) = {} /\ Unfinished]]
      BY <2>4 DEF ReadLog
    <3>2. Link \in Int
      <4>1. log # <<>> => Last(log) \in Line
        BY EmptySeq, ElementOfSeq DEF TypeOK, Last
      <4>2. head.hash \in Nat
        BY DEF TypeOK, HeadFile
      <4> QED
        BY <4>1, <4>2 DEF Link, LinkAfter, Intact, Line, GENESIS
    <3>3. \A m \in Untouched(target) : m.hash \in Nat
      BY DEF Untouched, TypeOK, Marker
    <3>4. \A prev \in LinkTo(target) : prev \in Int
      BY <3>2, <3>3 DEF LinkTo
    <3>5. (Untouched(target) = {} /\ Unfinished) \in BOOLEAN
      BY DEF Unfinished
    <3>6. PICK prev \in LinkTo(target) :
            entry' = [entry EXCEPT ![p] =
                        [@ EXCEPT !.month = target, !.prev = prev,
                                  !.unfinished = Untouched(target) = {} /\ Unfinished]]
      BY <3>1
    <3>7. [entry[p] EXCEPT !.month = target, !.prev = prev,
                           !.unfinished = Untouched(target) = {} /\ Unfinished] \in Entry
      BY <2>0, <3>4, <3>5, <3>6 DEF Entry
    <3>8. entry' \in [Procs -> Entry]
      BY <3>6, <3>7 DEF TypeOK
    <3> QED
      BY <2>4, <3>8 DEF ReadLog, TypeOK
  <2>5. ASSUME NEW p \in Procs, WriteLine(p) PROVE TypeOK'
    <3>1. log' \in Seq(Line) /\ files' \in SUBSET Months
      BY <2>5, <2>0 DEF WriteLine
    <3>2. SizeOf(log', entry[p].month) \in Nat
      BY <3>1, SizeIsPrefixSize
    <3>3. entry' = [entry EXCEPT ![p].written = SizeOf(log', entry[p].month)]
      BY <2>5 DEF WriteLine
    <3>4. entry' \in [Procs -> Entry]
      <4> DEFINE size == SizeOf(log', entry[p].month)
      <4>1. [entry[p] EXCEPT !.written = size] \in Entry
        BY <2>0, <3>2 DEF Entry
      <4>2. entry' = [entry EXCEPT ![p] = [entry[p] EXCEPT !.written = size]]
        BY <3>3
      <4> HIDE DEF size
      <4> QED
        BY <4>1, <4>2 DEF TypeOK
    <3> QED
      BY <2>5, <3>1, <3>4 DEF WriteLine, TypeOK
  <2>6. ASSUME NEW p \in Procs, WriteHead(p) PROVE TypeOK'
    <3>1. entry[p].id \in Nat
      BY <2>0 DEF Entry
    <3> QED
      BY <2>6, <3>1 DEF WriteHead, TypeOK, HeadOf, HeadFile
  <2>7. ASSUME NEW p \in Procs, Mark(p) PROVE TypeOK'
    <3>1. entry[p].written \in Nat
      BY <2>0 DEF Entry
    <3>2. entry[p].id \in Nat /\ entry[p].month \in Months
      BY <2>0 DEF Entry
    <3>3. markers' \in SUBSET Marker
      BY <2>7, <3>1, <3>2 DEF Mark, Marker
    <3> QED
      BY <2>7, <3>2, <3>3 DEF Mark, TypeOK
  <2>8. ASSUME NEW p \in Procs, Stop(p) PROVE TypeOK'
    <3>1. CASE StopBetweenWrites(p)
      BY <3>1 DEF StopBetweenWrites, CutShort, TypeOK
    <3>2. CASE StopInLine(p)
      BY <3>2, <2>0 DEF StopInLine, CutShort, TypeOK
    <3>3. CASE StopInHead(p)
      BY <3>3 DEF StopInHead, CutShort, TypeOK, CutHead, HeadFile
    <3> QED
      BY <2>8, <3>1, <3>2, <3>3 DEF Stop
  <2>9. ASSUME RemoveLines PROVE TypeOK'
    <3>1. log' \in Seq(Line)
      <4>1. PICK i \in DOMAIN log, j \in DOMAIN log : log' = Without(i, j)
        BY <2>9 DEF RemoveLines
      <4>2. i \in 1 .. Len(log) + 1 /\ j \in 0 .. Len(log)
        BY <4>1, LenProperties DEF TypeOK
      <4> QED
        BY <4>1, <4>2, WithoutType
    <3> QED
      BY <2>9, <3>1 DEF RemoveLines, Tamper, TypeOK
  <2>10. ASSUME RemoveFile PROVE TypeOK'
    <3>1. log' \in Seq(Line)
      BY <2>10, WithoutType DEF RemoveFile
    <3>2. files' \in SUBSET Months
      BY <2>10 DEF RemoveFile, TypeOK
    <3> QED
      BY <2>10, <3>1, <3>2 DEF RemoveFile, Tamper, TypeOK
  <2>11. ASSUME ChangeLine PROVE TypeOK'
    <3>1. PICK i \in DOMAIN log, kind \in {"edited", "damaged"} :
            log' = [log EXCEPT ![i].kind = kind]
      BY <2>11 DEF ChangeLine
    <3>2. i \in 1 .. Len(log) /\ log[i] \in Line
      BY <3>1, LenProperties, ElementOfSeq DEF TypeOK
    <3>3. [log[i] EXCEPT !.kind = kind] \in Line
      BY <3>1, <3>2 DEF Line, Kinds
    <3>4. [log EXCEPT ![i] = [log[i] EXCEPT !.kind = kind]] \in Seq(Line)
      BY <3>2, <3>3, ExceptSeq DEF TypeOK
    <3>5. log' \in Seq(Line)
      BY <3>1, <3>4
    <3> QED
      BY <2>11, <3>5 DEF ChangeLine, Tamper, TypeOK
  <2>12. CASE UNCHANGED vars
    BY <2>12 DEF TypeOK
  <2> QED
    BY <2>1, <2>2, <2>3, <2>4, <2>5, <2>6, <2>7, <2>8, <2>9, <2>10, <2>11,
       <2>12 DEF Next, Step, Outside, Done
<1> QED
  BY <1>1, <1>2, PTL DEF Spec

-----------------------------------------------------------------------------
(* The lock.                                                               *)

\* Only the process that holds .lock is between _locked and the return of append().
THEOREM LockExcludes == Spec => []LockInv
<1>1. Init => LockInv
  BY DEF Init, LockInv, Busy
<1>2. TypeOK /\ LockInv /\ [Next]_vars => LockInv'
  <2> SUFFICES ASSUME TypeOK, LockInv, [Next]_vars PROVE LockInv'
    OBVIOUS
  <2> USE DEF Goto
  <2>0. pc \in [Procs -> {"idle", "lock", "link", "write", "head", "mark"}]
    BY DEF TypeOK
  <2>1. ASSUME NEW p \in Procs, Step(p) PROVE LockInv'
    BY <2>0, <2>1 DEF Step, Call, Lock, LockTimeout, ReadLog, WriteLine,
                      WriteHead, Mark, LockInv, Busy
  <2>2. ASSUME NEW p \in Procs, Stop(p) PROVE LockInv'
    BY <2>0, <2>2 DEF Stop, StopBetweenWrites, StopInLine, StopInHead, CutShort,
                      LockInv, Busy
  <2>3. ASSUME Outside PROVE LockInv'
    BY <2>3 DEF Outside, RemoveLines, RemoveFile, ChangeLine, Tamper, LockInv
  <2>4. CASE UNCHANGED vars
    BY <2>4 DEF vars, LockInv
  <2> QED
    BY <2>1, <2>2, <2>3, <2>4 DEF Next, Done
<1> QED
  BY <1>1, <1>2, TypeCorrect, PTL DEF Spec

-----------------------------------------------------------------------------
(* The disk: one lemma per kind of step.                                   *)

\* What the typed log says of its last line, which _link reads.
LEMMA LastLine ==
    ASSUME TypeOK
    PROVE  /\ Len(log) \in Nat /\ DOMAIN log = 1 .. Len(log)
           /\ log # <<>> => Len(log) \in DOMAIN log /\ Last(log) = log[Len(log)]
           /\ log = <<>> => Len(log) = 0
           /\ \A i \in DOMAIN log : log[i] \in Line
  BY LenProperties, EmptySeq, ElementOfSeq DEF TypeOK, Last

\* The names of the monthly files sort like numbers.
LEMMA MonthsAreNumbers ==
    /\ Months \subseteq Int
    /\ TypeOK => files \subseteq Int
<1>1. Months \subseteq Int
  BY BoundsAssumption DEF Months
<1>2. TypeOK => files \subseteq Months
  BY DEF TypeOK
<1> QED
  BY <1>1, <1>2

\* What a step that leaves the files alone keeps.
LEMMA DiskUnchanged ==
    ASSUME DiskInv, UNCHANGED <<disk, acked>>
    PROVE  LinesInv' /\ ChainInv' /\ AckedInv' /\ HeadInv' /\ MarkersInv'
<1>1. UNCHANGED <<log, files, head, markers, acked>>
  BY DEF disk
<1>2. LinesInv'
  BY <1>1 DEF DiskInv, LinesInv
<1>3. ChainInv'
  BY <1>1 DEF DiskInv, ChainInv, Expected, LinkAfter, Intact
<1>4. AckedInv'
  BY <1>1 DEF DiskInv, AckedInv, Complete
<1>5. HeadInv'
  BY <1>1 DEF DiskInv, HeadInv, Last
<1>6. MarkersInv'
  BY <1>1 DEF DiskInv, MarkersInv, Complete, PrefixSize, PrefixPieces
<1> QED
  BY <1>2, <1>3, <1>4, <1>5, <1>6

\* A process in the middle of an append is alone there.
LEMMA Alone ==
    ASSUME LockInv, NEW p \in Procs, pc[p] \in Busy, NEW q \in Procs, q # p
    PROVE  pc[q] \notin Busy
  BY DEF LockInv

\* Reading the log leaves an append ready to write.
LEMMA ReadLogReady ==
    ASSUME TypeOK, DiskInv, NEW p \in Procs, ReadLog(p)
    PROVE  Ready(p)'
<1> DEFINE n == Len(log)
<1>1. PICK month \in Months, target \in Months :
        /\ IsNewest(target, files \cup {month})
        /\ \E prev \in LinkTo(target) :
             entry' = [entry EXCEPT ![p] =
                         [@ EXCEPT !.month = target, !.prev = prev,
                                   !.unfinished = Untouched(target) = {} /\ Unfinished]]
  BY DEF ReadLog
<1>2. PICK prev \in LinkTo(target) :
        entry' = [entry EXCEPT ![p] =
                    [@ EXCEPT !.month = target, !.prev = prev,
                              !.unfinished = Untouched(target) = {} /\ Unfinished]]
  BY <1>1
<1>3. /\ entry'[p].month = target /\ entry'[p].prev = prev
      /\ entry'[p].unfinished = (Untouched(target) = {} /\ Unfinished)
  BY <1>2 DEF TypeOK, Entry
<1>4. UNCHANGED <<log, files, head, acked>>
  BY DEF ReadLog, disk, history
<1>5. \A m \in files : m <= target
  BY <1>1 DEF IsNewest
<1>6. log # <<>> => Last(log).month \in files
  BY LastLine DEF DiskInv, LinesInv
<1>7. /\ log # <<>> /\ Last(log).month = target /\ "end" \notin Last(log).on
           => Untouched(target) = {} /\ Unfinished
      /\ \/ prev = Expected(log, n + 1)
         \/ log # <<>> /\ Last(log).id \notin acked
  <2>1. CASE Untouched(target) # {}
    <3>1. PICK m \in Untouched(target) : prev = m.hash
      BY <1>2, <2>1 DEF LinkTo
    <3>2. m \in markers /\ IsNewest(target, files) /\ m.month = target
          /\ m.size = SizeOf(log, target)
      BY <3>1 DEF Untouched
    <3>3. PICK k \in DOMAIN log :
            /\ log[k].id = m.hash /\ log[k].month = m.month /\ Complete(log[k])
            /\ m.size = PrefixSize(log, k, m.month)
      BY <3>2 DEF DiskInv, MarkersInv
    <3>4. k \in 1 .. n /\ n \in Nat /\ n \in DOMAIN log
      BY <3>3, LastLine
    <3>5. k = n
      <4> SUFFICES ASSUME k # n PROVE FALSE
        OBVIOUS
      <4>1. k \in 0 .. n - 1
        BY <3>4
      <4>2. log[k].month <= log[n].month /\ log[n].month \in files
            /\ "start" \in log[n].on
        BY <3>4 DEF DiskInv, LinesInv
      <4>3. log[n].month \in Int /\ target \in Int
        BY <1>1, <4>2, MonthsAreNumbers
      <4>4. log[n].month = target
        BY <3>2, <3>3, <4>2, <4>3 DEF IsNewest
      <4>5. PrefixSize(log, k, target) < SizeOf(log, target)
        BY <4>1, <4>2, <4>4, SizeGrows DEF TypeOK
      <4>6. PrefixSize(log, k, target) \in Nat /\ SizeOf(log, target) \in Nat
        BY <3>4, PrefixFinite, SizeIsPrefixSize DEF TypeOK
      <4> QED
        BY <3>2, <3>3, <4>5, <4>6
    <3>6. Last(log) = log[n] /\ log # <<>>
      BY <3>4, LastLine DEF Last
    <3>7. "end" \in Last(log).on /\ Intact(Last(log)) /\ prev = Last(log).id
      BY <3>1, <3>3, <3>5, <3>6 DEF Complete, WholeLine, Intact
    <3>8. Expected(log, n + 1) = LinkAfter(Last(log))
      BY <3>4, <3>6 DEF Expected
    <3> QED
      BY <3>7, <3>8 DEF LinkAfter
  <2>2. CASE Untouched(target) = {}
    <3>1. prev = Link
      BY <1>2, <2>2 DEF LinkTo
    <3>2. log # <<>> /\ Last(log).month = target /\ "end" \notin Last(log).on
            => Unfinished
      BY <1>5, <1>6 DEF Unfinished, IsNewest
    <3>3. CASE log = <<>>
      <4>1. head = NoHead
        BY <3>3 DEF DiskInv, HeadInv
      <4> QED
        BY <3>1, <3>2, <3>3, <2>2, <4>1, LastLine DEF Link, Expected, NoHead
    <3>4. CASE log # <<>>
      <4>1. n \in Nat /\ n # 0 /\ Last(log) = log[n]
        BY <3>4, LastLine
      <4>2. Expected(log, n + 1) = LinkAfter(Last(log))
        BY <4>1 DEF Expected
      <4>3. Last(log).id \in acked => head = HeadOf(Last(log).id)
        BY <3>4 DEF DiskInv, HeadInv
      <4>4. Last(log).id \in acked => prev = LinkAfter(Last(log))
        BY <3>1, <3>4, <4>3 DEF Link, HeadOf, LinkAfter
      <4> QED
        BY <2>2, <3>2, <3>4, <4>2, <4>4
    <3> QED
      BY <3>3, <3>4
  <2> QED
    BY <2>1, <2>2
<1> QED
  BY <1>3, <1>4, <1>5, <1>7 DEF Ready, NewlineIfNeeded, Expected, Last

\* The entries are the same but for where their writes ended.
SameEntries ==
    \A q \in Procs :
        /\ entry'[q].id = entry[q].id /\ entry'[q].month = entry[q].month
        /\ entry'[q].prev = entry[q].prev
        /\ entry'[q].unfinished = entry[q].unfinished

LEMMA WriteLineEntries ==
    ASSUME TypeOK, NEW p \in Procs, WriteLine(p)
    PROVE  /\ SameEntries
           /\ \A q \in Procs : q # p => entry'[q] = entry[q]
           /\ entry'[p].written = SizeOf(log', entry[p].month)
<1> DEFINE size == SizeOf(log', entry[p].month)
<1>1. entry' = [entry EXCEPT ![p] = [entry[p] EXCEPT !.written = size]]
  BY DEF WriteLine
<1>2. entry \in [Procs -> Entry] /\ entry[p] \in Entry
  BY DEF TypeOK
<1> HIDE DEF size
<1>3. entry'[p] = [entry[p] EXCEPT !.written = size]
  BY <1>1, <1>2
<1>4. \A q \in Procs : q # p => entry'[q] = entry[q]
  BY <1>1, <1>2
<1>5. SameEntries
  BY <1>2, <1>3, <1>4 DEF SameEntries, Entry
<1>6. entry'[p].written = size
  BY <1>2, <1>3 DEF Entry
<1> QED
  BY <1>4, <1>5, <1>6 DEF size

LEMMA UnchangedEntries == entry' = entry => SameEntries
  BY DEF SameEntries

\* Writing a line, or the beginning of one.
LEMMA WriteKeeps ==
    ASSUME TypeOK, LockInv, DiskInv,
           NEW p \in Procs, pc[p] = "write",
           NEW pieces \in SUBSET Pieces, "start" \in pieces,
           NEW kind \in {"whole", "damaged"},
           NEW label \in {"idle", "head"},
           label = "head" => kind = "whole" /\ WholeLine \subseteq pieces,
           log' = LinesAfter(entry[p], pieces, kind),
           files' = files \cup {entry[p].month},
           pc' = [pc EXCEPT ![p] = label],
           SameEntries,
           \A q \in Procs : q # p => entry'[q] = entry[q],
           label = "head" => entry'[p].written = SizeOf(log', entry[p].month),
           UNCHANGED <<head, markers, begun, acked>>
    PROVE  DiskInv'
<1> DEFINE n == Len(log)
           e == entry[p]
<1>1. /\ n \in Nat /\ DOMAIN log = 1 .. n
      /\ log # <<>> => n \in DOMAIN log /\ Last(log) = log[n]
      /\ log = <<>> => n = 0
  BY LastLine
<1>2. Ready(p)
  BY DEF DiskInv, StepInv
<1>3. e \in Entry /\ kind \in Kinds
  BY DEF TypeOK, Kinds
<1>4. /\ log' \in Seq(Line)
      /\ Len(log') = n + 1
      /\ \A i \in 1 .. n :
           /\ log'[i].month = log[i].month
           /\ log'[i].id = log[i].id
           /\ log'[i].prev = log[i].prev
           /\ log'[i].kind = log[i].kind
           /\ log[i].on \subseteq log'[i].on
           /\ "end" \in log[i].on \/ i < n => log'[i] = log[i]
      /\ log'[n + 1].month = e.month
      /\ log'[n + 1].id = e.id
      /\ log'[n + 1].prev = e.prev
      /\ log'[n + 1].kind = kind
      /\ pieces \subseteq log'[n + 1].on
  <2>1. NewlineIfNeeded(e)
    BY <1>2 DEF Ready, NewlineIfNeeded
  <2>2. log' \in Seq(Line) /\ Extended(log, log', e, pieces, kind)
    BY <1>3, <2>1, LineAdded
  <2>3. Len(log') = n + 1
    BY <2>2 DEF Extended
  <2> QED
    BY <2>2, <2>3 DEF Extended
<1>5. DOMAIN log' = 1 .. n + 1 /\ log' # <<>> /\ Last(log') = log'[n + 1]
  BY <1>1, <1>4, LenProperties, EmptySeq DEF Last
<1>6. /\ e.id \in 1 .. begun /\ e.id \notin acked
      /\ \A i \in 1 .. n : log[i].id # e.id
  BY <1>1 DEF DiskInv, IdsInv
<1>7. \A q \in Procs : q # p => pc'[q] = pc[q] /\ pc[q] \notin Busy
  BY Alone DEF TypeOK, Busy
<1>8. pc'[p] = label /\ \A q \in Procs : entry'[q].id = entry[q].id
  BY DEF TypeOK, SameEntries
<1>9. IdsInv'
  <2>1. \A q \in Procs : pc'[q] # "idle" => pc[q] # "idle"
    BY <1>7, <1>8
  <2>2. \A q \in Procs : pc'[q] \in {"lock", "link", "write"} => q # p /\ pc[q] = pc'[q]
    BY <1>7, <1>8
  <2>3. \A q \in Procs : pc'[q] \in {"lock", "link", "write"} =>
          \A i \in 1 .. n + 1 : log'[i].id # entry[q].id
    <3> SUFFICES ASSUME NEW q \in Procs, pc'[q] \in {"lock", "link", "write"},
                        NEW i \in 1 .. n + 1
                 PROVE  log'[i].id # entry[q].id
      OBVIOUS
    <3>1. q # p /\ pc[q] = pc'[q]
      BY <2>2
    <3>2. entry[q].id # e.id
      BY <3>1 DEF DiskInv, IdsInv
    <3>3. i \in 1 .. n => log[i].id # entry[q].id
      BY <1>1, <3>1 DEF DiskInv, IdsInv
    <3> QED
      BY <1>1, <1>4, <3>2, <3>3
  <2>4. \A i \in 1 .. n + 1 : log'[i].id \in 1 .. begun
    BY <1>1, <1>4, <1>6 DEF DiskInv, IdsInv
  <2>5. \A i, j \in 1 .. n + 1 : log'[i].id = log'[j].id => i = j
    <3>1. \A i, j \in 1 .. n : log[i].id = log[j].id => i = j
      BY <1>1 DEF DiskInv, IdsInv
    <3> QED
      BY <1>1, <1>4, <1>6, <3>1
  <2>6. /\ \A q \in Procs : pc[q] # "idle" =>
              entry[q].id \in 1 .. begun /\ entry[q].id \notin acked
        /\ \A q, r \in Procs : q # r /\ pc[q] # "idle" /\ pc[r] # "idle"
              => entry[q].id # entry[r].id
    BY DEF DiskInv, IdsInv
  <2> QED
    BY <1>5, <1>8, <2>1, <2>3, <2>4, <2>5, <2>6 DEF IdsInv
<1>10. LinesInv'
  <2>1. \A i \in 1 .. n + 1 : /\ "start" \in log'[i].on
                              /\ log'[i].month \in files'
                              /\ log'[i].kind # "edited"
    BY <1>1, <1>4 DEF DiskInv, LinesInv
  <2>2. \A i, j \in 1 .. n : i <= j => log[i].month <= log[j].month
    BY <1>1 DEF DiskInv, LinesInv
  <2>3. \A i \in 1 .. n : log[i].month <= e.month
    BY <1>1, <1>2 DEF DiskInv, LinesInv, Ready
  <2>4. e.month \in Int
    BY <1>3, MonthsAreNumbers DEF Entry
  <2>5. \A i, j \in 1 .. n + 1 : i <= j => log'[i].month <= log'[j].month
    BY <1>1, <1>4, <2>2, <2>3, <2>4
  <2> QED
    BY <1>5, <2>1, <2>5 DEF LinesInv
<1>11. \A i \in 1 .. n + 1 : Expected(log', i) = Expected(log, i)
  BY <1>1, <1>4 DEF Expected, LinkAfter, Intact
<1>12. ChainInv'
  <2> SUFFICES ASSUME NEW i \in 1 .. n + 1, Intact(log'[i])
               PROVE  \/ log'[i].prev = Expected(log', i)
                      \/ i > 1 /\ log'[i - 1].id \notin acked
    BY <1>5 DEF ChainInv
  <2>1. CASE i = n + 1
    BY <1>1, <1>2, <1>4, <1>11, <2>1 DEF Ready
  <2>2. CASE i \in 1 .. n
    <3>1. Intact(log[i])
      BY <1>4, <2>2 DEF Intact
    <3>2. \/ log[i].prev = Expected(log, i)
          \/ i > 1 /\ log[i - 1].id \notin acked
      BY <1>1, <2>2, <3>1 DEF DiskInv, ChainInv
    <3> QED
      BY <1>1, <1>4, <1>11, <2>2, <3>2
  <2> QED
    BY <1>1, <2>1, <2>2
<1>13. AckedInv'
  <2>1. \A id \in acked : \E i \in 1 .. n + 1 : log'[i].id = id
    BY <1>1, <1>4 DEF DiskInv, AckedInv
  <2>2. \A i \in 1 .. n + 1 : log'[i].id \in acked => Complete(log'[i])
    <3> SUFFICES ASSUME NEW i \in 1 .. n + 1, log'[i].id \in acked
                 PROVE  Complete(log'[i])
      OBVIOUS
    <3>1. i \in 1 .. n
      BY <1>1, <1>4, <1>6
    <3>2. Complete(log[i])
      BY <1>1, <1>4, <3>1 DEF DiskInv, AckedInv
    <3> QED
      BY <1>4, <3>1, <3>2 DEF Complete
  <2> QED
    BY <1>5, <2>1, <2>2 DEF AckedInv
<1>14. HeadInv'
  BY <1>4, <1>5, <1>6 DEF HeadInv
<1>15. MarkersInv'
  <2> SUFFICES ASSUME NEW m \in markers
               PROVE  \E k \in 1 .. n + 1 :
                        /\ log'[k].id = m.hash /\ log'[k].month = m.month
                        /\ Complete(log'[k])
                        /\ m.size = PrefixSize(log', k, m.month)
    BY <1>5 DEF MarkersInv
  <2>1. PICK k \in 1 .. n :
          /\ log[k].id = m.hash /\ log[k].month = m.month /\ Complete(log[k])
          /\ m.size = PrefixSize(log, k, m.month)
    BY <1>1 DEF DiskInv, MarkersInv
  <2>2. \A i \in 1 .. k : log'[i] = log[i]
    BY <1>1, <1>4, <2>1 DEF Complete, WholeLine
  <2>3. PrefixPieces(log', k, m.month) = PrefixPieces(log, k, m.month)
    BY <2>2 DEF PrefixPieces
  <2> QED
    BY <1>1, <2>1, <2>2, <2>3 DEF PrefixSize
<1>16. StepInv'
  <2>1. label = "head" => Written(p)'
    <3>1. entry'[p].month = entry[p].month
      BY DEF SameEntries
    <3> QED
      BY <1>4, <1>5, <1>8, <3>1 DEF Written, Complete
  <2> QED
    BY <1>7, <1>8, <2>1 DEF StepInv, Busy
<1> QED
  BY <1>9, <1>10, <1>12, <1>13, <1>14, <1>15, <1>16 DEF DiskInv

\* Recording the entry in head, or cutting head short.
LEMMA HeadKeeps ==
    ASSUME TypeOK, LockInv, DiskInv,
           NEW p \in Procs, pc[p] = "head",
           NEW label \in {"idle", "mark"},
           label = "mark" => head' = HeadOf(entry[p].id),
           pc' = [pc EXCEPT ![p] = label],
           UNCHANGED <<log, files, markers, entry, begun, acked>>
    PROVE  DiskInv'
<1>1. Written(p) /\ log # <<>> /\ Last(log).id = entry[p].id
  BY DEF DiskInv, StepInv, Written
<1>2. entry[p].id \notin acked
  BY DEF DiskInv, IdsInv
<1>3. \A q \in Procs : q # p => pc'[q] = pc[q] /\ pc[q] \notin Busy
  BY Alone DEF TypeOK, Busy
<1>4. pc'[p] = label
  BY DEF TypeOK
<1>5. IdsInv'
  <2>1. \A q \in Procs : /\ pc'[q] # "idle" => pc[q] # "idle"
                         /\ pc'[q] \in {"lock", "link", "write"} => pc[q] = pc'[q]
    BY <1>3, <1>4
  <2> QED
    BY <2>1 DEF DiskInv, IdsInv
<1>6. LinesInv' /\ AckedInv'
  BY DEF DiskInv, LinesInv, AckedInv, Complete
<1>7. ChainInv'
  BY DEF DiskInv, ChainInv, Expected, LinkAfter, Intact
<1>8. HeadInv'
  BY <1>1, <1>2 DEF HeadInv, Last
<1>9. MarkersInv'
  <2>1. UNCHANGED <<log, markers>>
    OBVIOUS
  <2> QED
    BY <2>1 DEF DiskInv, MarkersInv, Complete
<1>10. StepInv'
  <2>1. label = "mark" => Written(p)'
    <3>1. SizeOf(log, entry[p].month)' = SizeOf(log, entry[p].month)
      BY DEF SizeOf
    <3> QED
      BY <1>1, <3>1 DEF Written, Complete, Last
  <2> QED
    BY <1>3, <1>4, <2>1 DEF StepInv, Busy
<1> QED
  BY <1>5, <1>6, <1>7, <1>8, <1>9, <1>10 DEF DiskInv

\* Leaving the marker and returning.
LEMMA MarkKeeps ==
    ASSUME TypeOK, LockInv, DiskInv, NEW p \in Procs, Mark(p)
    PROVE  DiskInv'
<1> DEFINE n == Len(log)
<1>0. /\ pc[p] = "mark" /\ pc' = [pc EXCEPT ![p] = "idle"]
      /\ acked' = acked \cup {entry[p].id}
      /\ markers' = {[month |-> entry[p].month,
                      size |-> entry[p].written,
                      hash |-> entry[p].id]}
      /\ UNCHANGED <<log, files, head, entry, begun>>
  BY DEF Mark, Goto
<1>1. /\ log # <<>> /\ Last(log).id = entry[p].id
      /\ Last(log).month = entry[p].month
      /\ Complete(Last(log)) /\ head = HeadOf(entry[p].id)
      /\ entry[p].written = SizeOf(log, entry[p].month)
  BY <1>0 DEF DiskInv, StepInv, Written
<1>2. n \in DOMAIN log /\ Last(log) = log[n] /\ DOMAIN log = 1 .. n /\ n \in Nat
  BY <1>1, LastLine
<1>3. \A q \in Procs : q # p => pc'[q] = pc[q] /\ pc[q] \notin Busy
  BY <1>0, Alone DEF TypeOK, Busy
<1>4. pc'[p] = "idle"
  BY <1>0 DEF TypeOK
<1>5. IdsInv'
  <2>1. \A q \in Procs : pc'[q] # "idle" => pc[q] = pc'[q] /\ q # p
    BY <1>3, <1>4
  <2>2. \A q \in Procs : pc'[q] # "idle" => entry[q].id # entry[p].id
    BY <1>0, <2>1 DEF DiskInv, IdsInv
  <2> QED
    BY <1>0, <2>1, <2>2 DEF DiskInv, IdsInv
<1>6. LinesInv'
  BY <1>0 DEF DiskInv, LinesInv
<1>7. \A i \in DOMAIN log : log[i].id = entry[p].id => i = n
  BY <1>1, <1>2 DEF DiskInv, IdsInv
<1>8. AckedInv'
  BY <1>0, <1>1, <1>2, <1>7 DEF DiskInv, AckedInv, Complete
<1>9. ChainInv'
  <2> SUFFICES ASSUME NEW i \in 1 .. n, Intact(log[i])
               PROVE  \/ log[i].prev = Expected(log, i)
                      \/ i > 1 /\ log[i - 1].id \notin acked'
    BY <1>0, <1>2 DEF ChainInv, Expected, LinkAfter, Intact
  <2>1. \/ log[i].prev = Expected(log, i)
        \/ i > 1 /\ log[i - 1].id \notin acked
    BY <1>2 DEF DiskInv, ChainInv
  <2>2. i > 1 => log[i - 1].id # entry[p].id
    BY <1>2, <1>7
  <2> QED
    BY <1>0, <2>1, <2>2
<1>10. HeadInv'
  BY <1>0, <1>1 DEF HeadInv, Last
<1>11. MarkersInv'
  <2>1. SizeOf(log, entry[p].month) = PrefixSize(log, n, entry[p].month)
    BY SizeIsPrefixSize DEF TypeOK
  <2>2. \A m \in markers' :
          /\ log[n].id = m.hash /\ log[n].month = m.month /\ Complete(log[n])
          /\ m.size = PrefixSize(log, n, m.month)
    BY <1>0, <1>1, <1>2, <2>1
  <2> QED
    BY <1>0, <1>2, <2>2 DEF MarkersInv, Complete
<1>12. StepInv'
  BY <1>3, <1>4 DEF StepInv, Busy
<1> QED
  BY <1>5, <1>6, <1>8, <1>9, <1>10, <1>11, <1>12 DEF DiskInv

\* A call, the lock, and an append that ends between two writes.
LEMMA OtherStepsKeep ==
    ASSUME TypeOK, LockInv, DiskInv, UNCHANGED <<disk, acked>>,
           NEW p \in Procs,
           \/ Call(p) \/ Lock(p) \/ LockTimeout(p) \/ StopBetweenWrites(p)
    PROVE  DiskInv'
<1>1. UNCHANGED <<log, files, head, markers>>
  BY DEF disk
<1>2. \A q \in Procs : q # p => pc'[q] = pc[q] /\ entry'[q] = entry[q]
  BY DEF Call, Lock, LockTimeout, StopBetweenWrites, CutShort, Goto, TypeOK
<1>3. pc'[p] \in {"idle", "lock", "link"}
  BY DEF Call, Lock, LockTimeout, StopBetweenWrites, CutShort, Goto, TypeOK
<1>4. StepInv'
  <2>1. \A q \in Procs : pc'[q] \in {"write", "head", "mark"} => q # p
    BY <1>3
  <2>2. \A q \in Procs : q # p /\ Ready(q) => Ready(q)'
    BY <1>1, <1>2 DEF Ready, NewlineIfNeeded, Last, Expected, LinkAfter, Intact
  <2>3. \A q \in Procs : q # p /\ Written(q) => Written(q)'
    BY <1>1, <1>2 DEF Written, Last, Complete, SizeOf
  <2> QED
    BY <1>2, <2>1, <2>2, <2>3 DEF DiskInv, StepInv
<1>5. IdsInv'
  <2>1. CASE Call(p)
    <3>1. /\ pc'[p] = "lock" /\ begun' = begun + 1 /\ begun \in Nat
          /\ entry'[p].id = begun + 1
      BY <2>1 DEF Call, Goto, TypeOK, Entry
    <3>2. \A i \in DOMAIN log : log[i].id \in 1 .. begun
      BY DEF DiskInv, IdsInv
    <3>3. acked \subseteq 1 .. begun
      BY <3>2 DEF DiskInv, AckedInv
    <3>4. \A q \in Procs : q # p /\ pc[q] # "idle" => entry[q].id \in 1 .. begun
      BY DEF DiskInv, IdsInv
    <3>5. \A q \in Procs : pc'[q] # "idle" =>
            entry'[q].id \in 1 .. begun' /\ entry'[q].id \notin acked'
      BY <1>2, <3>1, <3>3 DEF DiskInv, IdsInv
    <3>6. \A q, r \in Procs : q # r /\ pc'[q] # "idle" /\ pc'[r] # "idle"
            => entry'[q].id # entry'[r].id
      BY <1>2, <3>1, <3>4 DEF DiskInv, IdsInv
    <3>7. \A q \in Procs : pc'[q] \in {"lock", "link", "write"} =>
            \A i \in DOMAIN log' : log'[i].id # entry'[q].id
      BY <1>1, <1>2, <3>1, <3>2 DEF DiskInv, IdsInv
    <3>8. /\ \A i \in DOMAIN log' : log'[i].id \in 1 .. begun'
          /\ \A i, j \in DOMAIN log' : log'[i].id = log'[j].id => i = j
      BY <1>1, <3>1, <3>2 DEF DiskInv, IdsInv
    <3> QED
      BY <3>5, <3>6, <3>7, <3>8 DEF IdsInv
  <2>2. CASE Lock(p) \/ LockTimeout(p) \/ StopBetweenWrites(p)
    <3>1. /\ pc'[p] # "idle" => pc[p] = "lock"
          /\ UNCHANGED <<entry, begun>>
      BY <1>3, <2>2 DEF Lock, LockTimeout, StopBetweenWrites, CutShort, Goto, TypeOK
    <3>2. \A q \in Procs :
            /\ pc'[q] # "idle" => pc[q] # "idle"
            /\ pc'[q] \in {"lock", "link", "write"} => pc[q] \in {"lock", "link", "write"}
      BY <1>2, <3>1
    <3> QED
      BY <1>1, <3>1, <3>2 DEF DiskInv, IdsInv
  <2> QED
    BY <2>1, <2>2
<1> QED
  BY <1>4, <1>5, DiskUnchanged DEF DiskInv

-----------------------------------------------------------------------------
(* The theorems.                                                           *)

\* Every step of a process that no edit precedes keeps what the invariant says of
\* the files.
LEMMA DiskInvStep ==
    ASSUME TypeOK, LockInv, DiskInv, tampers' = 0, tampers = 0, [Next]_vars
    PROVE  DiskInv'
<1>1. ASSUME NEW p \in Procs, Call(p) \/ Lock(p) \/ LockTimeout(p) PROVE DiskInv'
  <2>1. UNCHANGED <<disk, acked>>
    BY <1>1 DEF Call, Lock, LockTimeout, history
  <2> QED
    BY <1>1, <2>1, OtherStepsKeep
<1>2. ASSUME NEW p \in Procs, ReadLog(p) PROVE DiskInv'
  <2>1. /\ pc[p] = "link" /\ pc' = [pc EXCEPT ![p] = "write"]
        /\ UNCHANGED <<log, files, head, markers, acked, begun>>
        /\ UNCHANGED <<disk, acked>>
    BY <1>2 DEF ReadLog, Goto, disk, history
  <2>2. \A q \in Procs : q # p => pc'[q] = pc[q] /\ pc[q] \notin Busy
    BY <2>1, Alone DEF TypeOK, Busy
  <2>3. pc'[p] = "write"
    BY <2>1 DEF TypeOK
  <2>4. Ready(p)'
    BY <1>2, ReadLogReady
  <2>5. StepInv'
    BY <2>2, <2>3, <2>4 DEF StepInv, Busy
  <2>6. \A q \in Procs : entry'[q].id = entry[q].id
    BY <1>2 DEF ReadLog, TypeOK, Entry
  <2>7. IdsInv'
    <3>1. \A q \in Procs :
            /\ pc'[q] # "idle" => pc[q] # "idle"
            /\ pc'[q] \in {"lock", "link", "write"} => pc[q] \in {"lock", "link", "write"}
      BY <2>1, <2>2, <2>3
    <3> QED
      BY <2>1, <2>6, <3>1 DEF DiskInv, IdsInv
  <2> QED
    BY <2>1, <2>5, <2>7, DiskUnchanged DEF DiskInv
<1>3. ASSUME NEW p \in Procs, WriteLine(p) PROVE DiskInv'
  <2>1. WholeLine \in SUBSET Pieces /\ "start" \in WholeLine
    BY DEF WholeLine, Pieces
  <2> QED
    BY <1>3, <2>1, WriteLineEntries, WriteKeeps DEF WriteLine, Goto, history
<1>4. ASSUME NEW p \in Procs, WriteHead(p) PROVE DiskInv'
  BY <1>4, HeadKeeps DEF WriteHead, Goto
<1>5. ASSUME NEW p \in Procs, Mark(p) PROVE DiskInv'
  BY <1>5, MarkKeeps
<1>6. ASSUME NEW p \in Procs, StopBetweenWrites(p) PROVE DiskInv'
  <2>1. UNCHANGED <<disk, acked>>
    BY <1>6 DEF StopBetweenWrites, CutShort
  <2> QED
    BY <1>6, <2>1, OtherStepsKeep
<1>7. ASSUME NEW p \in Procs, StopInLine(p) PROVE DiskInv'
  <2>1. /\ pc[p] = "write" /\ pc' = [pc EXCEPT ![p] = "idle"]
        /\ files' = files \cup {entry[p].month}
        /\ UNCHANGED <<head, markers, entry, begun, acked>>
        /\ SameEntries
    BY <1>7, UnchangedEntries DEF StopInLine, CutShort, Goto
  <2>2. /\ {"start"} \in SUBSET Pieces /\ {"start", "rest"} \in SUBSET Pieces
        /\ "idle" # "head"
    BY DEF Pieces
  <2>3. CASE log' = LinesAfter(entry[p], {"start"}, "damaged")
    BY <2>1, <2>2, <2>3, WriteKeeps
  <2>4. CASE log' = LinesAfter(entry[p], {"start", "rest"}, "whole")
    BY <2>1, <2>2, <2>4, WriteKeeps
  <2> QED
    BY <1>7, <2>3, <2>4 DEF StopInLine
<1>8. ASSUME NEW p \in Procs, StopInHead(p) PROVE DiskInv'
  BY <1>8, HeadKeeps DEF StopInHead, CutShort, Goto
<1>9. ~ Outside
  BY DEF Outside, RemoveLines, RemoveFile, ChangeLine, Tamper, TypeOK
<1>10. CASE UNCHANGED vars
  <2>1. UNCHANGED <<disk, acked, log, files, head, pc, entry, begun>>
    BY <1>10 DEF vars, disk, history
  <2>2. IdsInv'
    BY <2>1 DEF DiskInv, IdsInv
  <2>3. StepInv'
    BY <2>1 DEF DiskInv, StepInv, Ready, Written, NewlineIfNeeded, Last, Expected,
                LinkAfter, Intact, Complete, SizeOf
  <2> QED
    BY <2>1, <2>2, <2>3, DiskUnchanged DEF DiskInv
<1> QED
  BY <1>1, <1>2, <1>3, <1>4, <1>5, <1>6, <1>7, <1>8, <1>9, <1>10
     DEF Next, Step, Stop, Done

\* The inductive invariant holds in every reachable state.
THEOREM InvariantHolds == Spec => []IInv
<1>1. Init => (tampers = 0 => DiskInv)
  <2> SUFFICES ASSUME Init PROVE DiskInv
    OBVIOUS
  <2>1. log = <<>> /\ DOMAIN log = {}
    BY DEF Init
  <2> QED
    BY <2>1 DEF Init, DiskInv, IdsInv, LinesInv, ChainInv, AckedInv, HeadInv,
                MarkersInv, StepInv, NoHead
<1>2. TypeOK /\ LockInv /\ (tampers = 0 => DiskInv) /\ [Next]_vars
        => (tampers = 0 => DiskInv)'
  <2> SUFFICES ASSUME TypeOK, LockInv, tampers = 0 => DiskInv, [Next]_vars,
                      tampers' = 0
               PROVE  DiskInv'
    OBVIOUS
  <2>1. tampers = 0
    <3>1. ASSUME NEW p \in Procs, Step(p) \/ Stop(p) PROVE UNCHANGED tampers
      BY <3>1 DEF Step, Stop, Call, Lock, LockTimeout, ReadLog, WriteLine,
                  WriteHead, Mark, StopBetweenWrites, StopInLine, StopInHead,
                  CutShort, history
    <3>2. ~ Outside
      BY DEF Outside, RemoveLines, RemoveFile, ChangeLine, Tamper, TypeOK
    <3> QED
      BY <3>1, <3>2 DEF Next, Done, vars, history
  <2> QED
    BY <2>1, DiskInvStep
<1> QED
  BY <1>1, <1>2, TypeCorrect, LockExcludes, PTL DEF Spec, IInv

\* An entry whose append() returned is never lost to the program itself, for any
\* number of processes and of appends cut short anywhere.
THEOREM AckedEntriesKept == Spec => []AckedKept
<1>1. IInv => AckedKept
  BY DEF IInv, DiskInv, AckedInv, AckedKept, Holds, Complete
<1> QED
  BY <1>1, InvariantHolds, PTL

\* Without edits from outside verify() names only appends that were cut short.
THEOREM VerifyBlamesCutAppends == Spec => []OnlyCutAppendsReported
<1>1. IInv => OnlyCutAppendsReported
  <2> SUFFICES ASSUME IInv, Quiet, tampers = 0, NEW problem \in Problems(log, head)
               PROVE  Culprit(problem) \in DOMAIN log
                      /\ log[Culprit(problem)].id \notin acked
    BY DEF OnlyCutAppendsReported
  <2>1. TypeOK /\ DiskInv
    BY DEF IInv
  <2>2. /\ Len(log) \in Nat /\ DOMAIN log = 1 .. Len(log)
        /\ log # <<>> => Len(log) \in DOMAIN log /\ Last(log) = log[Len(log)]
        /\ log = <<>> => Len(log) = 0
    BY <2>1, LastLine
  <2>3. CASE \E i \in DOMAIN log : problem = [what |-> "not a valid log entry", line |-> i] /\ ~ Intact(log[i])
    <3>1. PICK i \in DOMAIN log :
            problem = [what |-> "not a valid log entry", line |-> i] /\ ~ Intact(log[i])
      BY <2>3
    <3>2. problem.what = "not a valid log entry" /\ problem.line = i
      BY <3>1
    <3>3. Culprit(problem) = i
      BY <3>2 DEF Culprit
    <3>4. log[i].id \notin acked
      BY <2>1, <3>1 DEF DiskInv, AckedInv, Complete, Intact
    <3> QED
      BY <3>3, <3>4
  <2>4. CASE \E i \in DOMAIN log : /\ problem = [what |-> "prev mismatch", line |-> i]
                                  /\ Intact(log[i]) /\ log[i].prev # Expected(log, i)
    <3>1. PICK i \in DOMAIN log : /\ problem = [what |-> "prev mismatch", line |-> i]
                                  /\ Intact(log[i]) /\ log[i].prev # Expected(log, i)
      BY <2>4
    <3>2. i > 1 /\ log[i - 1].id \notin acked
      BY <2>1, <3>1 DEF DiskInv, ChainInv
    <3>3. problem.what = "prev mismatch" /\ problem.line = i
      BY <3>1
    <3>4. Culprit(problem) = i - 1
      BY <3>3 DEF Culprit
    <3>5. i - 1 \in DOMAIN log
      BY <2>2, <3>2
    <3> QED
      BY <3>2, <3>4, <3>5
  <2>5. ~ \E i \in DOMAIN log : problem = [what |-> "hash mismatch", line |-> i] /\ log[i].kind = "edited"
    BY <2>1 DEF DiskInv, LinesInv
  <2>6. CASE /\ problem = [what |-> "head", line |-> Len(log)]
             /\ \/ head.kind = "cut"
                \/ head.kind = "hash" /\ head.hash # Expected(log, Len(log) + 1)
    <3>1. log # <<>>
      BY <2>1, <2>6 DEF DiskInv, HeadInv, NoHead
    <3>2. Last(log).id \notin acked
      <4> SUFFICES ASSUME Last(log).id \in acked PROVE FALSE
        OBVIOUS
      <4>1. head = HeadOf(Last(log).id)
        BY <2>1, <3>1 DEF DiskInv, HeadInv
      <4>2. Complete(Last(log))
        BY <2>1, <2>2, <3>1 DEF DiskInv, AckedInv
      <4>3. Expected(log, Len(log) + 1) = Last(log).id
        BY <2>2, <3>1, <4>2 DEF Expected, LinkAfter, Intact, Complete
      <4> QED
        BY <2>6, <4>1, <4>3 DEF HeadOf
    <3> QED
      BY <2>2, <2>6, <3>1, <3>2 DEF Culprit
  <2> QED
    BY <2>3, <2>4, <2>5, <2>6 DEF Problems, At
<1> QED
  BY <1>1, InvariantHolds, PTL

-----------------------------------------------------------------------------
(* AuditLog implements AppendOnlyLog when nobody edits the files.          *)

\* What the promise sees of the log is a sequence of its lines.
LEMMA EntriesAreASeq ==
    ASSUME NEW lines \in Seq(Line)
    PROVE  /\ Len(Entries(lines)) = Len(lines) /\ Len(lines) \in Nat
           /\ \A i \in 1 .. Len(lines) :
                /\ Entries(lines)[i] \in Promise!Line
                /\ Entries(lines)[i].id = lines[i].id
                /\ Entries(lines)[i].whole = (lines[i].kind = "whole")
           /\ DOMAIN Entries(lines) = 1 .. Len(lines)
<1>1. Len(lines) \in Nat /\ \A i \in 1 .. Len(lines) : lines[i] \in Line
  BY LenProperties, ElementOfSeq
<1>2. \A i \in 1 .. Len(lines) :
        [id |-> lines[i].id, whole |-> lines[i].kind = "whole"] \in Promise!Line
  BY <1>1 DEF Line, Promise!Line
<1>3. Entries(lines) \in [1 .. Len(lines) -> Promise!Line]
  BY <1>2 DEF Entries
<1>4. Entries(lines) \in Seq(Promise!Line)
  BY <1>1, <1>3, SeqDef
<1>5. DOMAIN Entries(lines) = 1 .. Len(lines)
  BY <1>3
<1>6. Len(Entries(lines)) = Len(lines)
  BY <1>1, <1>4, <1>5, LenProperties
<1> QED
  BY <1>1, <1>2, <1>5, <1>6 DEF Entries

\* A write adds one line to the promised ones.
LEMMA WriteAdds ==
    ASSUME TypeOK, TypeOK', DiskInv, NEW p \in Procs, pc[p] = "write",
           NEW pieces \in SUBSET Pieces, NEW kind \in {"whole", "damaged"},
           log' = LinesAfter(entry[p], pieces, kind),
           UNCHANGED acked
    PROVE  Promise!Add
<1> DEFINE n == Len(log)
<1>1. Extended(log, log', entry[p], pieces, kind)
  <2>1. NewlineIfNeeded(entry[p])
    BY DEF DiskInv, StepInv, Ready
  <2>2. entry[p] \in Entry /\ kind \in Kinds
    BY DEF TypeOK, Kinds
  <2> QED
    BY <2>1, <2>2, LineAdded
<1>2. log \in Seq(Line) /\ log' \in Seq(Line)
  BY DEF TypeOK
<1>3. /\ Len(log') = n + 1
      /\ \A i \in 1 .. n : log'[i].id = log[i].id /\ log'[i].kind = log[i].kind
  BY <1>1 DEF Extended
<1>4. /\ Len(Entries(log)) = n /\ n \in Nat /\ Len(Entries(log')) = n + 1
      /\ Entries(log')[n + 1] \in Promise!Line
  BY <1>2, <1>3, EntriesAreASeq
<1>5. ASSUME NEW i \in 1 .. n PROVE Entries(log')[i] = Entries(log)[i]
  <2>1. i \in 1 .. Len(log')
    BY <1>3, <1>4
  <2> QED
    BY <1>3, <2>1 DEF Entries
<1> QED
  BY <1>4, <1>5 DEF Promise!Add

\* For any processes, months and bounds but that on edits: nothing the program
\* does, and no crash, changes or drops a line that was written, and an entry is
\* acknowledged only when it stands there whole.
THEOREM ImplementsAppendOnlyLog ==
    ASSUME MaxTampers = 0 PROVE Spec => AppendOnly
<1>1. Init => Promise!Init
  <2> SUFFICES ASSUME Init PROVE Promise!Init
    OBVIOUS
  <2>1. log = <<>> /\ acked = {}
    BY DEF Init
  <2>2. log \in Seq(Line) /\ Len(log) = 0
    BY <2>1, EmptySeq
  <2>3. Entries(log) = <<>>
    BY <2>2 DEF Entries
  <2> QED
    BY <2>1, <2>3 DEF Promise!Init
<1>2. TypeOK /\ TypeOK' /\ LockInv /\ (tampers = 0 => DiskInv) /\ tampers = 0
        /\ [Next]_vars
        => /\ (tampers = 0)'
           /\ [Promise!Next]_<<Entries(log), acked>>
  <2> SUFFICES ASSUME TypeOK, TypeOK', LockInv, DiskInv, tampers = 0, [Next]_vars
               PROVE  (tampers = 0)' /\ [Promise!Next]_<<Entries(log), acked>>
    OBVIOUS
  <2>1. ASSUME NEW p \in Procs, Step(p) \/ Stop(p) PROVE UNCHANGED tampers
    BY <2>1 DEF Step, Stop, Call, Lock, LockTimeout, ReadLog, WriteLine,
                WriteHead, Mark, StopBetweenWrites, StopInLine, StopInHead,
                CutShort, history
  <2>2. ~ Outside
    BY DEF Outside, RemoveLines, RemoveFile, ChangeLine, Tamper, TypeOK
  <2>3. tampers' = 0
    BY <2>1, <2>2 DEF Next, Done, vars, history
  <2>4. ASSUME NEW p \in Procs, WriteLine(p) PROVE Promise!Add
    <3>1. WholeLine \in SUBSET Pieces
      BY DEF WholeLine, Pieces
    <3> QED
      BY <2>4, <3>1, WriteAdds DEF WriteLine, history
  <2>5. ASSUME NEW p \in Procs, StopInLine(p) PROVE Promise!Add
    <3>1. {"start"} \in SUBSET Pieces /\ {"start", "rest"} \in SUBSET Pieces
      BY DEF Pieces
    <3> QED
      BY <2>5, <3>1, WriteAdds DEF StopInLine, CutShort
  <2>6. ASSUME NEW p \in Procs, Mark(p) PROVE Promise!Acknowledge
    <3>1. /\ log # <<>> /\ Last(log).id = entry[p].id /\ Complete(Last(log))
      BY <2>6 DEF Mark, DiskInv, StepInv, Written
    <3>2. Len(log) \in DOMAIN log /\ Last(log) = log[Len(log)]
          /\ DOMAIN log = 1 .. Len(log)
      BY <3>1, LastLine
    <3>3. /\ Len(log) \in DOMAIN Entries(log)
          /\ Entries(log)[Len(log)].whole
          /\ Entries(log)[Len(log)].id = entry[p].id
      <4>1. log \in Seq(Line)
        BY DEF TypeOK
      <4>2. log[Len(log)].kind = "whole" /\ log[Len(log)].id = entry[p].id
        BY <3>1, <3>2 DEF Complete
      <4> QED
        BY <3>2, <4>1, <4>2, EntriesAreASeq
    <3>4. UNCHANGED Entries(log)
      BY <2>6 DEF Mark, Entries
    <3> QED
      BY <2>6, <3>3, <3>4 DEF Mark, Promise!Acknowledge
  <2>7. ASSUME NEW p \in Procs,
               \/ Call(p) \/ Lock(p) \/ LockTimeout(p) \/ ReadLog(p)
               \/ WriteHead(p) \/ StopBetweenWrites(p) \/ StopInHead(p)
        PROVE  UNCHANGED <<log, acked>>
    BY <2>7 DEF Call, Lock, LockTimeout, ReadLog, WriteHead, StopBetweenWrites,
                StopInHead, CutShort, disk, history
  <2>8. UNCHANGED vars => UNCHANGED <<log, acked>>
    BY DEF vars, disk, history
  <2>9. UNCHANGED <<log, acked>> => UNCHANGED <<Entries(log), acked>>
    BY DEF Entries
  <2> QED
    BY <2>2, <2>3, <2>4, <2>5, <2>6, <2>7, <2>8, <2>9
       DEF Next, Step, Stop, Done, Promise!Next
<1>3. Init => tampers = 0
  BY DEF Init
<1>4. IInv => TypeOK /\ LockInv /\ (tampers = 0 => DiskInv)
  BY DEF IInv
<1>5. Spec => [](tampers = 0)
  BY <1>2, <1>3, <1>4, InvariantHolds, PTL DEF Spec
<1>6. Spec => [][Promise!Next]_<<Entries(log), acked>>
  BY <1>2, <1>4, <1>5, InvariantHolds, PTL DEF Spec
<1> QED
  BY <1>1, <1>6, PTL DEF Spec, AppendOnly, Promise!Spec
-----------------------------------------------------------------------------
(* What an edit from outside cannot hide.  The lines an edit leaves still   *)
(* link as they did, so the invariant speaks of every part of the log that  *)
(* could be left over: one whose entries link to each other, and that ends  *)
(* in a hash the program has kept, has all the entries that were            *)
(* acknowledged.                                                            *)

\* An entry links to another.
Linked(lines, a, b) ==
    \E i \in DOMAIN lines : lines[i].id = a /\ lines[i].prev = b

\* A line of the entry lacks a part of its text or its newline.
Torn(lines, a) ==
    \E i \in DOMAIN lines : lines[i].id = a /\ ~ (WholeLine \subseteq lines[i].on)

Ids(lines) == {lines[i].id : i \in DOMAIN lines}

\* Entries that link to each other, down to a first one.
Chained(lines, S) ==
    /\ S \subseteq Ids(lines)
    /\ \A a \in S : \E b \in S \cup {GENESIS} : Linked(lines, a, b)

\* What is chained and holds the hash (GENESIS: whatever is chained) has all the
\* entries that are acknowledged.
Covers(lines, h, all) ==
    \A S : Chained(lines, S) /\ h \in S \cup {GENESIS} => all \subseteq S

\* The hash is written somewhere.
Mentioned(x) ==
    \/ \E i \in DOMAIN log : log[i].id = x \/ log[i].prev = x
    \/ head.hash = x
    \/ \E m \in markers : m.hash = x
    \/ \E q \in Procs : entry[q].prev = x

BeforeWrite == {"lock", "link", "write"}
AfterWrite  == {"head", "mark"}

\* Hashes are used once, and an append has one that nothing mentions before its
\* line is written.
HashesInv ==
    /\ acked \subseteq 1 .. begun
    /\ \A i \in DOMAIN log : log[i].id # 0
    /\ \A m \in markers : m.hash # 0
    /\ head.kind = "hash" => head.hash # 0
    /\ \A p \in Procs : pc[p] # "idle" =>
         entry[p].id \in 1 .. begun /\ entry[p].id \notin acked
    /\ \A p, q \in Procs :
         p # q /\ pc[p] # "idle" /\ pc[q] # "idle" => entry[p].id # entry[q].id
    /\ \A x \in Nat \ {0} : Mentioned(x) =>
         /\ x <= begun
         /\ \A p \in Procs : pc[p] \in BeforeWrite => entry[p].id # x

\* A line whose append went on after it is there with all its parts, if at all.
WholeInv ==
    /\ \A a \in acked : ~ Torn(log, a)
    /\ \A p \in Procs : pc[p] \in AfterWrite => ~ Torn(log, entry[p].id)

\* Unless head was cut short, every hash the next entry can link to covers what
\* was acknowledged.
CoverInv ==
    /\ \A p \in Procs : pc[p] = "mark" => head = HeadOf(entry[p].id)
    /\ ~ headCut =>
         /\ head.kind # "cut"
         /\ head.kind = "hash" => Covers(log, head.hash, acked)
         /\ \A m \in markers : Covers(log, m.hash, acked)
         /\ acked # {} => head.kind = "hash"
         /\ \A p \in Procs :
              /\ pc[p] = "write" => Covers(log, entry[p].prev, acked)
              /\ pc[p] \in AfterWrite => Covers(log, entry[p].id, acked)

TamperInv == HashesInv /\ WholeInv /\ CoverInv

\* Where verify() finds nothing, all lines are chained and head is the last.
LEMMA TamperInvSuffices ==
    ASSUME TypeOK, TamperInv
    PROVE  TamperShows
<1>1. SUFFICES ASSUME ~ headCut, Problems(log, head) = {}, NEW id \in acked
               PROVE  Holds(id)
  BY DEF TamperShows, Missing
<1>2. /\ Len(log) \in Nat /\ DOMAIN log = 1 .. Len(log)
      /\ log = <<>> => Len(log) = 0
      /\ log # <<>> => Len(log) \in DOMAIN log
      /\ \A i \in DOMAIN log : log[i] \in Line
  BY LastLine
<1>3. \A i \in DOMAIN log : /\ Intact(log[i]) /\ log[i].kind # "edited"
                            /\ log[i].prev = Expected(log, i)
  <2>1. /\ At("not a valid log entry", {i \in DOMAIN log : ~ Intact(log[i])}) = {}
        /\ At("prev mismatch", {i \in DOMAIN log :
              Intact(log[i]) /\ log[i].prev # Expected(log, i)}) = {}
        /\ At("hash mismatch", {i \in DOMAIN log : log[i].kind = "edited"}) = {}
    BY <1>1 DEF Problems
  <2> QED
    BY <2>1 DEF At
<1>4. /\ head.kind # "cut"
      /\ head.kind = "hash" => head.hash = Expected(log, Len(log) + 1)
  <2>1. At("head", {i \in {Len(log)} :
              \/ head.kind = "cut"
              \/ head.kind = "hash" /\ head.hash # Expected(log, i + 1)}) = {}
    BY <1>1 DEF Problems
  <2> QED
    BY <2>1 DEF At
<1>5. Chained(log, Ids(log))
  <2>1. SUFFICES ASSUME NEW i \in DOMAIN log
                 PROVE  \E b \in Ids(log) \cup {GENESIS} : Linked(log, log[i].id, b)
    BY DEF Chained, Ids
  <2>2. Linked(log, log[i].id, Expected(log, i))
    BY <1>3 DEF Linked
  <2>3. Expected(log, i) \in Ids(log) \cup {GENESIS}
    <3>1. CASE i = 1
      BY <3>1 DEF Expected
    <3>2. CASE i # 1
      <4>1. i - 1 \in DOMAIN log
        BY <1>2, <3>2
      <4> QED
        BY <1>3, <3>2, <4>1 DEF Expected, LinkAfter, Ids
    <3> QED
      BY <3>1, <3>2
  <2> QED
    BY <2>2, <2>3
<1>6. head.kind = "hash" /\ Covers(log, head.hash, acked) /\ head.hash # 0
  BY <1>1 DEF TamperInv, CoverInv, HashesInv
<1>7. head.hash \in Ids(log)
  <2>1. log # <<>>
    BY <1>2, <1>4, <1>6 DEF Expected, GENESIS
  <2>2. Expected(log, Len(log) + 1) = LinkAfter(log[Len(log)])
    BY <1>2, <2>1 DEF Expected
  <2> QED
    BY <1>2, <1>3, <1>4, <1>6, <2>1, <2>2 DEF LinkAfter, Ids
<1>8. PICK i \in DOMAIN log : log[i].id = id
  BY <1>5, <1>6, <1>7 DEF Covers, Ids
<1>9. log[i].kind = "whole"
  BY <1>2, <1>3, <1>8 DEF Intact, Line, Kinds
<1>10. WholeLine \subseteq log[i].on
  BY <1>8 DEF TamperInv, WholeInv, Torn
<1> QED
  BY <1>8, <1>9, <1>10 DEF Holds

-----------------------------------------------------------------------------
(* What the steps do to the lines.                                         *)

\* The log only loses links and torn lines, but for those of entry e.
Within(before, after, a, b, pieces) ==
    /\ \A x, y : Linked(after, x, y) => Linked(before, x, y) \/ (x = a /\ y = b)
    /\ \A x : Torn(after, x) => Torn(before, x)
                                \/ (x = a /\ ~ (WholeLine \subseteq pieces))

\* A log whose lines are lines of the other, with at least the same on disk.
LEMMA LinesWithin ==
    ASSUME NEW before, NEW after, NEW a, NEW b, NEW pieces,
           \A i \in DOMAIN after :
              \/ \E k \in DOMAIN before :
                    /\ after[i].id = before[k].id /\ after[i].prev = before[k].prev
                    /\ before[k].on \subseteq after[i].on
              \/ after[i].id = a /\ after[i].prev = b /\ pieces \subseteq after[i].on
    PROVE  Within(before, after, a, b, pieces)
<1>1. ASSUME NEW x, NEW y, Linked(after, x, y)
      PROVE  Linked(before, x, y) \/ (x = a /\ y = b)
  BY <1>1 DEF Linked
<1>2. ASSUME NEW x, Torn(after, x)
      PROVE  Torn(before, x) \/ (x = a /\ ~ (WholeLine \subseteq pieces))
  BY <1>2 DEF Torn
<1> QED
  BY <1>1, <1>2 DEF Within

\* Writing pieces of an entry.
LEMMA WriteWithin ==
    ASSUME TypeOK, NEW e \in Entry, NEW pieces \in SUBSET Pieces, NEW kind \in Kinds
    PROVE  Within(log, LinesAfter(e, pieces, kind), e.id, e.prev, pieces)
<1> DEFINE n == Len(log)
           open == log # <<>> /\ Last(log).month = e.month /\ "end" \notin Last(log).on
           line == [month |-> e.month, id |-> e.id, prev |-> e.prev, kind |-> kind,
                    on |-> pieces \cup IF e.unfinished /\ ~ open THEN {"pad"} ELSE {}]
           merged == [log[n] EXCEPT !.on = @ \cup pieces, !.kind = "damaged"]
           closed == [log[n] EXCEPT !.on = @ \cup {"end"}]
           after == LinesAfter(e, pieces, kind)
<1>1. /\ log \in Seq(Line) /\ n \in Nat /\ DOMAIN log = 1 .. n
      /\ \A i \in 1 .. n : log[i] \in Line
  BY LenProperties, ElementOfSeq DEF TypeOK
<1>2. log # <<>> => n \in 1 .. n /\ log[n] \in Line
  BY <1>1, EmptySeq
<1>3. line \in Line
  BY DEF Line, Entry, Pieces
<1>4. log # <<>> => /\ merged.id = log[n].id /\ merged.prev = log[n].prev
                    /\ log[n].on \subseteq merged.on
                    /\ closed.id = log[n].id /\ closed.prev = log[n].prev
                    /\ log[n].on \subseteq closed.on
                    /\ merged \in Line /\ closed \in Line
  BY <1>2 DEF Line, Kinds, Pieces
<1>5. line.id = e.id /\ line.prev = e.prev /\ pieces \subseteq line.on
  OBVIOUS
<1>6. CASE open /\ ~ e.unfinished
  <2>1. after = [log EXCEPT ![n] = merged]
    BY <1>1, <1>2, <1>6 DEF LinesAfter, Last
  <2>2. DOMAIN after = 1 .. n /\ \A i \in 1 .. n : after[i] = IF i = n THEN merged
                                                             ELSE log[i]
    BY <1>1, <2>1
  <2> HIDE DEF after, merged
  <2>3. \A i \in DOMAIN after : \E k \in DOMAIN log :
          /\ after[i].id = log[k].id /\ after[i].prev = log[k].prev
          /\ log[k].on \subseteq after[i].on
    BY <1>1, <1>4, <1>6, <2>2
  <2>4. Within(log, after, e.id, e.prev, pieces)
    BY <2>3, LinesWithin
  <2> QED
    BY <2>4 DEF after
<1>7. CASE open /\ e.unfinished
  <2> DEFINE ended == [log EXCEPT ![n] = closed]
  <2>1. after = Append(ended, line)
    BY <1>1, <1>2, <1>7 DEF LinesAfter, Last
  <2>2. /\ ended \in Seq(Line) /\ Len(ended) = n
        /\ \A i \in 1 .. n : ended[i] = IF i = n THEN closed ELSE log[i]
    BY <1>1, <1>2, <1>4, <1>7, ExceptSeq
  <2> HIDE DEF closed, line, ended
  <2>3. /\ DOMAIN after = 1 .. n + 1
        /\ \A i \in 1 .. n : after[i] = IF i = n THEN closed ELSE log[i]
        /\ after[n + 1] = line
    BY <2>1, <2>2, <1>3, AppendProperties, LenProperties
  <2> HIDE DEF after
  <2>4. \A i \in DOMAIN after :
          \/ \E k \in DOMAIN log :
                /\ after[i].id = log[k].id /\ after[i].prev = log[k].prev
                /\ log[k].on \subseteq after[i].on
          \/ /\ after[i].id = e.id /\ after[i].prev = e.prev
             /\ pieces \subseteq after[i].on
    BY <1>1, <1>4, <1>5, <1>7, <2>3
  <2>5. Within(log, after, e.id, e.prev, pieces)
    BY <2>4, LinesWithin
  <2> QED
    BY <2>5 DEF after
<1>8. CASE ~ open
  <2>1. after = Append(log, line)
    BY <1>8 DEF LinesAfter, Last
  <2> HIDE DEF line
  <2>2. /\ DOMAIN after = 1 .. n + 1
        /\ \A i \in 1 .. n : after[i] = log[i]
        /\ after[n + 1] = line
    BY <1>1, <1>3, <2>1, AppendProperties, LenProperties
  <2> HIDE DEF after
  <2>3. \A i \in DOMAIN after :
          \/ \E k \in DOMAIN log :
                /\ after[i].id = log[k].id /\ after[i].prev = log[k].prev
                /\ log[k].on \subseteq after[i].on
          \/ /\ after[i].id = e.id /\ after[i].prev = e.prev
             /\ pieces \subseteq after[i].on
    BY <1>1, <1>5, <2>2
  <2>4. Within(log, after, e.id, e.prev, pieces)
    BY <2>3, LinesWithin
  <2> QED
    BY <2>4 DEF after
<1> QED
  BY <1>6, <1>7, <1>8

\* Removing lines.
LEMMA WithoutWithin ==
    ASSUME TypeOK, NEW i \in 1 .. Len(log) + 1, NEW j \in 0 .. Len(log), i <= j + 1
    PROVE  \A k \in DOMAIN Without(i, j) : \E l \in DOMAIN log :
             Without(i, j)[k] = log[l]
<1> DEFINE n == Len(log)
           first == SubSeq(log, 1, i - 1)
           rest == SubSeq(log, j + 1, n)
<1>1. log \in Seq(Line) /\ n \in Nat /\ DOMAIN log = 1 .. n
      /\ \A k \in 1 .. n : log[k] \in Line
  BY LenProperties, ElementOfSeq DEF TypeOK
<1>2. /\ first \in Seq(Line) /\ Len(first) = i - 1
      /\ \A k \in 1 .. i - 1 : first[k] = log[1 + k - 1]
  BY <1>1, SubSeqProperties
<1>3. /\ rest \in Seq(Line) /\ Len(rest) = n - j
      /\ \A k \in 1 .. n - j : rest[k] = log[j + k]
  <2>1. \A k \in j + 1 .. n : log[k] \in Line
    BY <1>1
  <2>2. /\ rest \in Seq(Line)
        /\ Len(rest) = IF j + 1 <= n THEN n - (j + 1) + 1 ELSE 0
        /\ \A k \in 1 .. n - (j + 1) + 1 : rest[k] = log[(j + 1) + k - 1]
    BY <1>1, <2>1, SubSeqProperties
  <2>5. j \in Int /\ n \in Int /\ j <= n
    BY <1>1
  <2> HIDE DEF rest
  <2>3. Len(rest) = n - j
    <3>1. CASE j + 1 <= n
      BY <2>2, <2>5, <3>1
    <3>2. CASE ~ (j + 1 <= n)
      BY <2>2, <2>5, <3>2
    <3> QED
      BY <3>1, <3>2
  <2>4. \A k \in 1 .. n - j : k \in 1 .. n - (j + 1) + 1 /\ (j + 1) + k - 1 = j + k
    BY <1>1
  <2> QED
    BY <2>2, <2>3, <2>4
<1> HIDE DEF first, rest
<1>4. Without(i, j) = first \o rest
  BY DEF Without, first, rest
<1>5. /\ Len(first \o rest) = Len(first) + Len(rest)
      /\ \A k \in 1 .. Len(first) + Len(rest) :
           (first \o rest)[k] = IF k <= Len(first) THEN first[k]
                                ELSE rest[k - Len(first)]
      /\ DOMAIN (first \o rest) = 1 .. Len(first) + Len(rest)
  <2>1. /\ first \o rest \in Seq(Line)
        /\ Len(first \o rest) = Len(first) + Len(rest)
        /\ \A k \in 1 .. Len(first) + Len(rest) :
             (first \o rest)[k] = IF k <= Len(first) THEN first[k]
                                  ELSE rest[k - Len(first)]
    BY <1>2, <1>3, ConcatProperties
  <2>2. DOMAIN (first \o rest) = 1 .. Len(first \o rest)
    BY <2>1, LenProperties
  <2> QED
    BY <2>1, <2>2
<1>6. SUFFICES ASSUME NEW k \in 1 .. Len(first) + Len(rest)
               PROVE  \E l \in 1 .. n : (first \o rest)[k] = log[l]
  BY <1>1, <1>4, <1>5
<1>7. CASE k <= i - 1
  <2>1. k \in 1 .. i - 1 /\ k \in 1 .. n /\ 1 + k - 1 = k
    BY <1>1, <1>2, <1>3, <1>7
  <2> QED
    BY <1>2, <1>5, <1>7, <2>1
<1>8. CASE k > i - 1
  <2>1. /\ k - (i - 1) \in 1 .. n - j
        /\ j + (k - (i - 1)) \in 1 .. n
        /\ ~ (k <= i - 1)
    BY <1>1, <1>2, <1>3, <1>8
  <2>2. (first \o rest)[k] = log[j + (k - (i - 1))]
    BY <1>2, <1>3, <1>5, <2>1
  <2> QED
    BY <2>1, <2>2
<1>9. k \in Int /\ i \in Int
  BY <1>1, <1>2, <1>3
<1> QED
  BY <1>7, <1>8, <1>9

\* An edit from outside.
LEMMA OutsideWithin ==
    ASSUME TypeOK, Outside
    PROVE  /\ \A a, b, pieces : Within(log, log', a, b, pieces)
           /\ \A x : (\E i \in DOMAIN log' : log'[i].id = x)
                => \E i \in DOMAIN log : log[i].id = x
           /\ \A x, y : Linked(log', x, y) => Linked(log, x, y)
<1>1. SUFFICES \A i \in DOMAIN log' : \E k \in DOMAIN log :
                  /\ log'[i].id = log[k].id /\ log'[i].prev = log[k].prev
                  /\ log[k].on \subseteq log'[i].on
  <2>1. ASSUME NEW a, NEW b, NEW pieces PROVE Within(log, log', a, b, pieces)
    BY <1>1, LinesWithin
  <2> QED
    BY <1>1, <2>1 DEF Linked
<1>2. CASE RemoveLines \/ RemoveFile
  <2>1. PICK i \in 1 .. Len(log) + 1, j \in 0 .. Len(log) :
          i <= j + 1 /\ log' = Without(i, j)
    <3>1. CASE RemoveLines
      <4>1. PICK i \in DOMAIN log, j \in DOMAIN log : i <= j /\ log' = Without(i, j)
        BY <3>1 DEF RemoveLines
      <4>2. i \in 1 .. Len(log) + 1 /\ j \in 0 .. Len(log) /\ i <= j + 1
        BY <4>1, LastLine
      <4> QED
        BY <4>1, <4>2
    <3>2. CASE RemoveFile
      BY <3>2 DEF RemoveFile
    <3> QED
      BY <1>2, <3>1, <3>2
  <2>2. \A k \in DOMAIN log' : \E l \in DOMAIN log : log'[k] = log[l]
    BY <2>1, WithoutWithin
  <2> QED
    BY <2>2
<1>3. CASE ChangeLine
  <2>1. PICK i \in DOMAIN log, kind \in Kinds : log' = [log EXCEPT ![i].kind = kind]
    BY <1>3 DEF ChangeLine, Kinds
  <2>2. \A k \in DOMAIN log : log[k] \in Line
    BY LastLine
  <2>3. DOMAIN log' = DOMAIN log
    BY <2>1
  <2>4. \A k \in DOMAIN log :
          /\ log'[k].id = log[k].id /\ log'[k].prev = log[k].prev
          /\ log'[k].on = log[k].on
    BY <2>1, <2>2 DEF Line
  <2> QED
    BY <2>3, <2>4
<1> QED
  BY <1>2, <1>3 DEF Outside

-----------------------------------------------------------------------------
(* What is covered stays covered.                                          *)

\* An entry that is there links to something.
LEMMA IdsAreLinked ==
    ASSUME NEW lines, NEW a
    PROVE  a \in Ids(lines) <=> \E b : Linked(lines, a, b)
  BY DEF Ids, Linked

\* A log that loses links has no chain it did not have.
LEMMA CoversShrinks ==
    ASSUME NEW before, NEW after, NEW h, NEW all,
           \A x, y : Linked(after, x, y) => Linked(before, x, y),
           Covers(before, h, all)
    PROVE  Covers(after, h, all)
<1>1. SUFFICES ASSUME NEW S, Chained(after, S) PROVE Chained(before, S)
  BY DEF Covers
<1>2. Ids(after) \subseteq Ids(before)
  BY IdsAreLinked
<1> QED
  BY <1>1, <1>2 DEF Chained

\* An entry that nothing mentioned and that links to what is covered covers it
\* too, and takes no cover away.
LEMMA CoversAdds ==
    ASSUME NEW before, NEW after, NEW a, NEW b, NEW all, a # GENESIS, a # b,
           \A x, y : Linked(after, x, y) => Linked(before, x, y) \/ (x = a /\ y = b),
           \A x : ~ Linked(before, a, x) /\ ~ Linked(before, x, a),
           Covers(before, b, all)
    PROVE  /\ Covers(after, a, all)
           /\ \A h : Covers(before, h, all) => Covers(after, h, all)
<1>1. ASSUME NEW S, Chained(after, S), a \in S PROVE all \subseteq S
  <2> DEFINE T == S \ {a}
  <2>1. ASSUME NEW x \in T
        PROVE  x \in Ids(before) /\ \E y \in T \cup {GENESIS} : Linked(before, x, y)
    <3>1. PICK y \in S \cup {GENESIS} : Linked(after, x, y)
      BY <1>1 DEF Chained
    <3>2. Linked(before, x, y)
      BY <3>1
    <3>3. y # a
      BY <3>2
    <3> QED
      BY <3>1, <3>2, <3>3, IdsAreLinked
  <2>2. Chained(before, T)
    BY <2>1 DEF Chained
  <2>3. PICK y \in S \cup {GENESIS} : Linked(after, a, y)
    BY <1>1 DEF Chained
  <2>4. b \in T \cup {GENESIS}
    BY <2>3
  <2> QED
    BY <2>2, <2>4 DEF Covers
<1>2. ASSUME NEW S, Chained(after, S), a \notin S PROVE Chained(before, S)
  <2>1. ASSUME NEW x \in S
        PROVE  x \in Ids(before) /\ \E y \in S \cup {GENESIS} : Linked(before, x, y)
    <3>1. PICK y \in S \cup {GENESIS} : Linked(after, x, y)
      BY <1>2 DEF Chained
    <3>2. Linked(before, x, y)
      BY <1>2, <3>1
    <3> QED
      BY <3>1, <3>2, IdsAreLinked
  <2> QED
    BY <2>1 DEF Chained
<1>3. Covers(after, a, all)
  BY <1>1 DEF Covers
<1>4. ASSUME NEW h, Covers(before, h, all) PROVE Covers(after, h, all)
  BY <1>1, <1>2, <1>4 DEF Covers
<1> QED
  BY <1>3, <1>4

\* A hash that is none covers all.
LEMMA NoneCovers ==
    ASSUME NEW lines, NEW h, NEW all, h # GENESIS, h \notin Ids(lines)
    PROVE  Covers(lines, h, all)
  BY DEF Covers, Chained

-----------------------------------------------------------------------------
(* The steps keep the invariant.                                           *)

\* A step of a process that has its hash already.
LEMMA HashesKept ==
    ASSUME TypeOK, HashesInv, NEW p \in Procs, pc[p] # "idle",
           begun' = begun,
           \A q \in Procs : entry'[q].id = entry[q].id,
           \A q \in Procs : q # p => pc'[q] = pc[q],
           pc'[p] \in BeforeWrite => pc[p] \in BeforeWrite,
           acked' = acked \/ (acked' = acked \cup {entry[p].id} /\ pc'[p] = "idle"),
           \A i \in DOMAIN log' : log'[i].id \in Ids(log) \cup {entry[p].id},
           \A m \in markers' : m \in markers \/ m.hash = entry[p].id,
           head' = head \/ head'.kind = "cut" \/ head'.hash = entry[p].id,
           \A x \in Nat \ {0} : Mentioned(x)' =>
               Mentioned(x) \/ (x = entry[p].id /\ pc'[p] \notin BeforeWrite)
    PROVE  HashesInv'
<1>1. /\ entry[p].id \in 1 .. begun /\ entry[p].id # 0
      /\ begun \in Nat
  BY DEF HashesInv, TypeOK
<1>2. acked' \subseteq 1 .. begun'
  BY <1>1 DEF HashesInv
<1>3. /\ \A i \in DOMAIN log' : log'[i].id # 0
      /\ \A m \in markers' : m.hash # 0
      /\ head'.kind = "hash" => head'.hash # 0
  BY <1>1 DEF HashesInv, Ids
<1>4. \A q \in Procs : pc'[q] # "idle" => pc[q] # "idle"
  OBVIOUS
<1>5. \A q, r \in Procs :
         q # r /\ pc'[q] # "idle" /\ pc'[r] # "idle" => entry'[q].id # entry'[r].id
  BY <1>4 DEF HashesInv
<1>6. \A q \in Procs : pc'[q] # "idle" =>
         entry'[q].id \in 1 .. begun' /\ entry'[q].id \notin acked'
  <2>1. SUFFICES ASSUME NEW q \in Procs, pc'[q] # "idle"
                 PROVE  entry[q].id \in 1 .. begun /\ entry[q].id \notin acked'
    OBVIOUS
  <2>2. entry[q].id \in 1 .. begun /\ entry[q].id \notin acked
    BY <1>4, <2>1 DEF HashesInv
  <2>3. CASE acked' = acked
    BY <2>2, <2>3
  <2>4. CASE acked' = acked \cup {entry[p].id} /\ pc'[p] = "idle"
    <3>1. q # p
      BY <2>1, <2>4
    <3>2. entry[q].id # entry[p].id
      BY <1>4, <2>1, <3>1 DEF HashesInv
    <3> QED
      BY <2>2, <2>4, <3>2
  <2> QED
    BY <2>3, <2>4
<1>7. ASSUME NEW x \in Nat \ {0}, Mentioned(x)'
      PROVE  x <= begun' /\ \A q \in Procs : pc'[q] \in BeforeWrite => entry'[q].id # x
  <2>1. CASE Mentioned(x)
    <3>1. \A q \in Procs : pc'[q] \in BeforeWrite => pc[q] \in BeforeWrite
      OBVIOUS
    <3> QED
      BY <2>1, <3>1 DEF HashesInv
  <2>2. CASE x = entry[p].id /\ pc'[p] \notin BeforeWrite
    <3>1. \A q \in Procs : pc'[q] \in BeforeWrite => q # p /\ pc[q] # "idle"
      BY <2>2 DEF BeforeWrite
    <3> QED
      BY <1>1, <2>2, <3>1 DEF HashesInv
  <2> QED
    BY <1>7, <2>1, <2>2
<1> QED
  BY <1>2, <1>3, <1>5, <1>6, <1>7 DEF HashesInv

\* A call gets a hash that nothing mentions.
LEMMA CallTampers ==
    ASSUME TypeOK, TamperInv, NEW p \in Procs, Call(p)
    PROVE  TamperInv'
<1>1. /\ pc[p] = "idle" /\ pc' = [pc EXCEPT ![p] = "lock"] /\ begun' = begun + 1
      /\ UNCHANGED <<log, files, head, markers, acked, headCut>>
      /\ begun \in Nat
  BY DEF Call, Goto, disk, history, TypeOK
<1>2. /\ pc'[p] = "lock" /\ \A q \in Procs : q # p => pc'[q] = pc[q]
      /\ entry'[p].id = begun + 1 /\ entry'[p].prev = entry[p].prev
      /\ \A q \in Procs : q # p => entry'[q] = entry[q]
  BY <1>1 DEF Call, TypeOK, Entry
<1>3. \A x : Mentioned(x)' <=> Mentioned(x)
  <2>1. \A q \in Procs : entry'[q].prev = entry[q].prev
    BY <1>2
  <2> QED
    BY <1>1, <2>1 DEF Mentioned
<1>4. HashesInv'
  <2>1. \A x \in Nat \ {0} : Mentioned(x)' =>
          x <= begun' /\ \A q \in Procs : pc'[q] \in BeforeWrite => entry'[q].id # x
    BY <1>1, <1>2, <1>3 DEF TamperInv, HashesInv
  <2>2. \A q \in Procs : pc'[q] # "idle" =>
          entry'[q].id \in 1 .. begun' /\ entry'[q].id \notin acked'
    BY <1>1, <1>2 DEF TamperInv, HashesInv
  <2>3. \A q, r \in Procs :
          q # r /\ pc'[q] # "idle" /\ pc'[r] # "idle" => entry'[q].id # entry'[r].id
    BY <1>1, <1>2 DEF TamperInv, HashesInv
  <2>4. acked' \subseteq 1 .. begun'
    BY <1>1 DEF TamperInv, HashesInv
  <2> QED
    BY <1>1, <2>1, <2>2, <2>3, <2>4 DEF TamperInv, HashesInv
<1>5. \A q \in Procs : pc'[q] \in AfterWrite \cup {"write"} =>
        pc'[q] = pc[q] /\ entry'[q] = entry[q]
  BY <1>2 DEF AfterWrite
<1>6. WholeInv' /\ CoverInv'
  BY <1>1, <1>5 DEF TamperInv, WholeInv, CoverInv, AfterWrite
<1> QED
  BY <1>4, <1>6 DEF TamperInv

\* Waiting for the lock, taking it, and ends between two writes.
LEMMA WaitTampers ==
    ASSUME TypeOK, TamperInv, NEW p \in Procs,
           Lock(p) \/ LockTimeout(p) \/ StopBetweenWrites(p)
    PROVE  TamperInv'
<1>1. /\ pc[p] # "idle" /\ pc'[p] \in {"link", "idle"}
      /\ pc'[p] = "link" => pc[p] = "lock"
      /\ \A q \in Procs : q # p => pc'[q] = pc[q]
      /\ UNCHANGED <<log, head, markers, entry, begun, acked, headCut>>
  BY DEF Lock, LockTimeout, StopBetweenWrites, CutShort, Goto, disk, history, TypeOK
<1>2. \A x : Mentioned(x)' <=> Mentioned(x)
  BY <1>1 DEF Mentioned
<1>3. HashesInv'
  BY <1>1, <1>2, HashesKept DEF TamperInv, BeforeWrite, Ids
<1>4. \A q \in Procs : pc'[q] \in AfterWrite \cup {"write"} => pc'[q] = pc[q]
  BY <1>1 DEF AfterWrite
<1>5. WholeInv' /\ CoverInv'
  BY <1>1, <1>4 DEF TamperInv, WholeInv, CoverInv, AfterWrite
<1> QED
  BY <1>3, <1>5 DEF TamperInv

\* What an entry is to link to covers what was acknowledged, whether it was
\* read from head, from a marker or from the last line.
LEMMA LinkCovers ==
    ASSUME TypeOK, TamperInv, NEW target, NEW prev \in LinkTo(target)
    PROVE  /\ ~ headCut => Covers(log, prev, acked)
           /\ prev \in Nat \ {0} => Mentioned(prev)
<1>1. CASE \E m \in markers : prev = m.hash
  BY <1>1 DEF TamperInv, CoverInv, Mentioned
<1>2. CASE prev = Link
  <2>1. CASE prev = head.hash /\ head.kind = "hash"
    BY <2>1 DEF TamperInv, CoverInv, Mentioned
  <2>2. CASE prev = GENESIS /\ head.kind # "hash"
    <3>1. ~ headCut => acked = {}
      BY <2>2 DEF TamperInv, CoverInv
    <3>2. acked = {} => Covers(log, prev, acked)
      BY DEF Covers
    <3> QED
      BY <2>2, <3>1, <3>2 DEF GENESIS
  <2>3. CASE log # <<>> /\ prev = LinkAfter(Last(log))
             /\ ~ (Intact(Last(log)) /\ head.kind = "hash")
    <3>1. /\ Len(log) \in DOMAIN log /\ Last(log) = log[Len(log)]
          /\ Last(log) \in Line
      BY <2>3, LastLine
    <3>2. Last(log).id \in Nat \ {0}
      BY <3>1 DEF TamperInv, HashesInv, Line
    <3>3. CASE Intact(Last(log))
      <4>1. prev = Last(log).id /\ head.kind # "hash"
        BY <2>3, <3>3 DEF LinkAfter
      <4>2. ~ headCut => acked = {}
        BY <4>1 DEF TamperInv, CoverInv
      <4>3. acked = {} => Covers(log, prev, acked)
        BY DEF Covers
      <4> QED
        BY <3>1, <4>1, <4>2, <4>3 DEF Mentioned
    <3>4. CASE ~ Intact(Last(log))
      <4>1. prev = - Last(log).id
        BY <2>3, <3>4 DEF LinkAfter
      <4>2. prev \notin Nat
        BY <3>2, <4>1
      <4>3. Ids(log) \subseteq Nat
        BY LastLine DEF Ids, Line
      <4> QED
        BY <4>2, <4>3, NoneCovers DEF GENESIS
    <3> QED
      BY <3>3, <3>4
  <2> QED
    BY <1>2, <2>1, <2>2, <2>3 DEF Link
<1> QED
  BY <1>1, <1>2 DEF LinkTo, Untouched

\* Reading the log.
LEMMA ReadTampers ==
    ASSUME TypeOK, TamperInv, NEW p \in Procs, ReadLog(p)
    PROVE  TamperInv'
<1>0. PICK target \in Months : \E prev \in LinkTo(target) :
        entry' = [entry EXCEPT ![p] =
                    [@ EXCEPT !.month = target, !.prev = prev,
                              !.unfinished = Untouched(target) = {} /\ Unfinished]]
  BY DEF ReadLog
<1>1. PICK prev \in LinkTo(target) :
        entry' = [entry EXCEPT ![p] =
                    [@ EXCEPT !.month = target, !.prev = prev,
                              !.unfinished = Untouched(target) = {} /\ Unfinished]]
  BY <1>0
<1>2. /\ pc[p] = "link" /\ pc'[p] = "write"
      /\ \A q \in Procs : q # p => pc'[q] = pc[q]
      /\ UNCHANGED <<log, head, markers, begun, acked, headCut>>
  BY DEF ReadLog, Goto, disk, history, TypeOK
<1>3. /\ entry'[p].id = entry[p].id /\ entry'[p].prev = prev
      /\ \A q \in Procs : q # p => entry'[q] = entry[q]
  <2>1. entry[p] \in Entry /\ entry \in [Procs -> Entry]
    BY DEF TypeOK
  <2> QED
    BY <1>1, <2>1 DEF Entry
<1>4. /\ ~ headCut => Covers(log, prev, acked)
      /\ prev \in Nat \ {0} => Mentioned(prev)
  BY <1>1, LinkCovers
<1>5. \A x \in Nat \ {0} : Mentioned(x)' => Mentioned(x)
  BY <1>2, <1>3, <1>4 DEF Mentioned
<1>6. HashesInv'
  BY <1>2, <1>3, <1>5, HashesKept DEF TamperInv, BeforeWrite, Ids
<1>7. WholeInv' /\ CoverInv'
  <2>1. \A q \in Procs : pc'[q] \in AfterWrite =>
          pc'[q] = pc[q] /\ entry'[q] = entry[q]
    BY <1>2, <1>3 DEF AfterWrite
  <2>2. WholeInv'
    BY <1>2, <2>1 DEF TamperInv, WholeInv
  <2>3. \A q \in Procs : pc'[q] = "mark" => head' = HeadOf(entry'[q].id)
    BY <1>2, <2>1 DEF TamperInv, CoverInv, AfterWrite
  <2>4. ASSUME ~ headCut, NEW q \in Procs
        PROVE  /\ pc'[q] = "write" => Covers(log, entry'[q].prev, acked)
               /\ pc'[q] \in AfterWrite => Covers(log, entry'[q].id, acked)
    BY <1>2, <1>3, <1>4, <2>1, <2>4 DEF TamperInv, CoverInv
  <2> QED
    BY <1>2, <2>2, <2>3, <2>4 DEF TamperInv, CoverInv
<1> QED
  BY <1>6, <1>7 DEF TamperInv

\* Writing pieces of the line: nothing mentions its entry yet, so what was
\* covered stays covered and the entry covers what it links to does.
LEMMA WriteTampers ==
    ASSUME TypeOK, TamperInv, NEW p \in Procs, NEW pieces \in SUBSET Pieces,
           NEW kind \in Kinds, NEW label \in {"head", "idle"},
           pc[p] = "write", pc' = [pc EXCEPT ![p] = label],
           log' = LinesAfter(entry[p], pieces, kind),
           label = "head" => WholeLine \subseteq pieces,
           SameEntries,
           UNCHANGED <<head, markers, begun, acked, headCut>>
    PROVE  TamperInv'
<1> DEFINE a == entry[p].id
           b == entry[p].prev
<1>1. Within(log, log', a, b, pieces)
  <2>1. entry[p] \in Entry
    BY DEF TypeOK
  <2> QED
    BY <2>1, WriteWithin
<1>2. pc'[p] = label /\ \A q \in Procs : q # p => pc'[q] = pc[q]
  BY DEF TypeOK
<1>3. /\ a \in Nat \ {0}
      /\ \A x \in Nat \ {0} : Mentioned(x) => a # x
      /\ \A i \in DOMAIN log' : log'[i] \in Line
  <2>1. a \in 1 .. begun /\ begun \in Nat
    BY DEF TamperInv, HashesInv, TypeOK
  <2>2. \A x \in Nat \ {0} : Mentioned(x) => a # x
    BY DEF TamperInv, HashesInv, BeforeWrite
  <2>3. log' \in Seq(Line)
    <3>1. entry[p] \in Entry
      BY DEF TypeOK
    <3> QED
      BY <3>1, LineAdded
  <2> QED
    BY <2>1, <2>2, <2>3, ElementOfSeq, LenProperties
<1>4. ~ Mentioned(a)
  BY <1>3
<1>5. a # b /\ \A x : ~ Linked(log, a, x) /\ ~ Linked(log, x, a)
  BY <1>4 DEF Mentioned, Linked
<1>6. \A x : ~ Torn(log, a)
  BY <1>4 DEF Mentioned, Torn
<1>7. \A i \in DOMAIN log' : log'[i].id \in Ids(log) \cup {a}
  <2>1. SUFFICES ASSUME NEW i \in DOMAIN log'
                 PROVE  log'[i].id \in Ids(log) \cup {a}
    OBVIOUS
  <2>2. Linked(log', log'[i].id, log'[i].prev)
    BY DEF Linked
  <2>3. Linked(log, log'[i].id, log'[i].prev) \/ log'[i].id = a
    BY <1>1, <2>2 DEF Within
  <2> QED
    BY <2>3, IdsAreLinked
<1>8. \A x : Mentioned(x)' => Mentioned(x) \/ x = a
  <2>1. SUFFICES ASSUME NEW x, NEW i \in DOMAIN log',
                        log'[i].id = x \/ log'[i].prev = x
                 PROVE  Mentioned(x) \/ x = a
    BY DEF Mentioned, SameEntries
  <2>2. Linked(log', log'[i].id, log'[i].prev)
    BY DEF Linked
  <2>3. \/ Linked(log, log'[i].id, log'[i].prev)
        \/ log'[i].id = a /\ log'[i].prev = b
    BY <1>1, <2>2 DEF Within
  <2> QED
    BY <2>1, <2>3 DEF Linked, Mentioned
<1>9. HashesInv'
  <2>1. label \notin BeforeWrite /\ pc[p] # "idle"
    BY DEF BeforeWrite
  <2>2. HashesInv
    BY DEF TamperInv
  <2> QED
    BY <1>2, <1>7, <1>8, <2>1, <2>2, HashesKept DEF SameEntries
<1>10. \A q \in Procs : q # p /\ pc[q] # "idle" => entry[q].id # a
  BY DEF TamperInv, HashesInv
<1>11. a \notin acked
  BY DEF TamperInv, HashesInv
<1>12. WholeInv'
  <2>1. \A x : x # a => (Torn(log', x) => Torn(log, x))
    BY <1>1 DEF Within
  <2>2. label = "head" => ~ Torn(log', a)
    BY <1>1, <1>6 DEF Within
  <2>3. \A q \in Procs : q # p /\ pc'[q] \in AfterWrite =>
          pc[q] \in AfterWrite /\ entry[q].id # a
    BY <1>2, <1>10 DEF AfterWrite
  <2>4. pc'[p] \in AfterWrite => label = "head"
    BY <1>2 DEF AfterWrite
  <2>5. ASSUME NEW q \in Procs, pc'[q] \in AfterWrite
        PROVE  ~ Torn(log', entry[q].id)
    <3>1. CASE q = p
      BY <2>2, <2>4, <2>5, <3>1
    <3>2. CASE q # p
      BY <2>1, <2>3, <2>5, <3>2 DEF TamperInv, WholeInv
    <3> QED
      BY <3>1, <3>2
  <2>6. \A x \in acked : ~ Torn(log', x)
    BY <1>11, <2>1 DEF TamperInv, WholeInv
  <2> QED
    BY <2>5, <2>6 DEF WholeInv, SameEntries
<1>13. CoverInv'
  <2>1. ASSUME ~ headCut
        PROVE  /\ Covers(log', a, acked)
               /\ \A h : Covers(log, h, acked) => Covers(log', h, acked)
    <3>1. Covers(log, b, acked)
      BY <2>1 DEF TamperInv, CoverInv
    <3>2. \A x, y : Linked(log', x, y) => Linked(log, x, y) \/ (x = a /\ y = b)
      BY <1>1 DEF Within
    <3>3. a # GENESIS
      BY <1>3 DEF GENESIS
    <3> HIDE DEF a, b
    <3> QED
      BY <1>5, <3>1, <3>2, <3>3, CoversAdds
  <2>2. ASSUME NEW q \in Procs, pc'[q] = "mark" PROVE head' = HeadOf(entry'[q].id)
    BY <1>2, <2>2 DEF TamperInv, CoverInv, SameEntries
  <2>3. ASSUME ~ headCut, NEW q \in Procs
        PROVE  /\ pc'[q] = "write" => Covers(log', entry[q].prev, acked)
               /\ pc'[q] \in AfterWrite => Covers(log', entry[q].id, acked)
    <3>1. CASE q = p
      BY <1>2, <2>1, <2>3, <3>1 DEF AfterWrite
    <3>2. CASE q # p
      BY <1>2, <2>1, <2>3, <3>2 DEF TamperInv, CoverInv
    <3> QED
      BY <3>1, <3>2
  <2>4. ASSUME ~ headCut, NEW q \in Procs
        PROVE  /\ pc'[q] = "write" => Covers(log', entry'[q].prev, acked)
               /\ pc'[q] \in AfterWrite => Covers(log', entry'[q].id, acked)
    BY <2>3, <2>4 DEF SameEntries
  <2> QED
    BY <2>1, <2>2, <2>4 DEF TamperInv, CoverInv
<1> QED
  BY <1>9, <1>12, <1>13 DEF TamperInv

\* head gets the hash of the last entry, or is cut short.
LEMMA HeadTampers ==
    ASSUME TypeOK, LockInv, TamperInv, NEW p \in Procs,
           WriteHead(p) \/ StopInHead(p)
    PROVE  TamperInv'
<1>1. /\ pc[p] = "head" /\ pc'[p] \in {"mark", "idle"}
      /\ \A q \in Procs : q # p => pc'[q] = pc[q]
      /\ UNCHANGED <<log, markers, entry, begun, acked>>
      /\ \/ head' = HeadOf(entry[p].id) /\ headCut' = headCut
         \/ head' = CutHead /\ headCut' /\ pc'[p] = "idle"
  BY DEF WriteHead, StopInHead, CutShort, Goto, TypeOK
<1>2. \A q \in Procs : q # p => pc[q] \notin Busy
  BY <1>1, Alone DEF Busy
<1>3. \A x \in Nat \ {0} : Mentioned(x)' => Mentioned(x) \/ x = entry[p].id
  BY <1>1 DEF Mentioned, HeadOf, CutHead
<1>4. HashesInv'
  BY <1>1, <1>3, HashesKept DEF TamperInv, BeforeWrite, Ids, HeadOf, CutHead
<1>5. \A q \in Procs : pc'[q] \in AfterWrite \cup {"write"} => q = p
  BY <1>1, <1>2 DEF AfterWrite, Busy
<1>6. WholeInv'
  BY <1>1, <1>5 DEF TamperInv, WholeInv, AfterWrite
<1>7. CoverInv'
  <2>1. \A q \in Procs : pc'[q] = "mark" => head' = HeadOf(entry'[q].id)
    BY <1>1, <1>5 DEF AfterWrite
  <2>2. ASSUME ~ headCut'
        PROVE  /\ head'.kind = "hash" /\ head'.hash = entry[p].id
               /\ Covers(log, entry[p].id, acked)
               /\ \A m \in markers : Covers(log, m.hash, acked)
    <3>1. head' = HeadOf(entry[p].id) /\ ~ headCut
      BY <1>1, <2>2
    <3>2. head'.kind = "hash" /\ head'.hash = entry[p].id
      BY <3>1 DEF HeadOf
    <3> QED
      BY <1>1, <3>1, <3>2 DEF TamperInv, CoverInv, AfterWrite
  <2>3. \A q \in Procs : /\ pc'[q] # "write"
                         /\ pc'[q] \in AfterWrite => q = p
    BY <1>1, <1>5
  <2> QED
    BY <1>1, <2>1, <2>2, <2>3 DEF CoverInv
<1> QED
  BY <1>4, <1>6, <1>7 DEF TamperInv

\* The entry is acknowledged: it is covered by what head and the marker say, and
\* nobody else is about to write.
LEMMA MarkTampers ==
    ASSUME TypeOK, LockInv, TamperInv, NEW p \in Procs, Mark(p)
    PROVE  TamperInv'
<1> DEFINE a == entry[p].id
           mark == [month |-> entry[p].month, size |-> entry[p].written, hash |-> a]
<1>1. /\ pc[p] = "mark" /\ pc'[p] = "idle"
      /\ \A q \in Procs : q # p => pc'[q] = pc[q]
      /\ markers' = {mark} /\ mark.hash = a
      /\ acked' = acked \cup {a}
      /\ UNCHANGED <<log, head, entry, begun, headCut>>
  BY DEF Mark, Goto, TypeOK
<1> HIDE DEF mark
<1>2. \A q \in Procs : pc'[q] \notin AfterWrite \cup {"write"}
  BY <1>1, Alone DEF AfterWrite, Busy
<1>3. head = HeadOf(a) /\ head.kind = "hash" /\ head.hash = a
  BY <1>1 DEF TamperInv, CoverInv, HeadOf
<1>4. \A x \in Nat \ {0} : Mentioned(x)' => Mentioned(x) \/ x = a
  BY <1>1 DEF Mentioned
<1>5. HashesInv'
  <2>1. \A m \in markers' : m \in markers \/ m.hash = a
    BY <1>1
  <2> QED
    BY <1>1, <1>4, <2>1, HashesKept DEF TamperInv, BeforeWrite, Ids
<1>6. WholeInv'
  BY <1>1, <1>2 DEF TamperInv, WholeInv, AfterWrite
<1>7. CoverInv'
  <2>1. ASSUME ~ headCut PROVE Covers(log, a, acked \cup {a})
    <3>1. Covers(log, a, acked) /\ a # 0
      BY <1>1, <2>1 DEF TamperInv, CoverInv, AfterWrite, HashesInv
    <3> QED
      BY <3>1 DEF Covers, GENESIS
  <2>2. \A q \in Procs : pc'[q] # "mark" /\ pc'[q] # "write" /\ pc'[q] \notin AfterWrite
    BY <1>2 DEF AfterWrite
  <2> QED
    BY <1>1, <1>3, <2>1, <2>2 DEF TamperInv, CoverInv
<1> QED
  BY <1>5, <1>6, <1>7 DEF TamperInv

\* Lines are removed, changed or damaged by somebody outside the program.
LEMMA OutsideTampers ==
    ASSUME TypeOK, TamperInv, Outside
    PROVE  TamperInv'
<1>1. UNCHANGED <<head, markers, pc, entry, begun, acked, headCut>>
  BY DEF Outside, RemoveLines, RemoveFile, ChangeLine, Tamper
<1>2. /\ \A x : (\E i \in DOMAIN log' : log'[i].id = x)
                => \E i \in DOMAIN log : log[i].id = x
      /\ \A x, y : Linked(log', x, y) => Linked(log, x, y)
      /\ \A x : Torn(log', x) => Torn(log, x)
  <2>1. Within(log, log', 0, 0, WholeLine)
    BY OutsideWithin
  <2> QED
    BY <2>1, OutsideWithin DEF Within
<1>3. \A x : Mentioned(x)' => Mentioned(x)
  <2>1. \A x : (\E i \in DOMAIN log' : log'[i].prev = x)
               => \E i \in DOMAIN log : log[i].prev = x
    <3>1. SUFFICES ASSUME NEW i \in DOMAIN log'
                   PROVE  \E k \in DOMAIN log : log[k].prev = log'[i].prev
      OBVIOUS
    <3>2. Linked(log', log'[i].id, log'[i].prev)
      BY DEF Linked
    <3> QED
      BY <1>2, <3>2 DEF Linked
  <2> QED
    BY <1>1, <1>2, <2>1 DEF Mentioned
<1>4. HashesInv'
  <2>1. \A i \in DOMAIN log' : log'[i].id # 0
    BY <1>2 DEF TamperInv, HashesInv
  <2> QED
    BY <1>1, <1>3, <2>1 DEF TamperInv, HashesInv
<1>5. WholeInv'
  BY <1>1, <1>2 DEF TamperInv, WholeInv
<1>6. CoverInv'
  <2>1. \A h : Covers(log, h, acked) => Covers(log', h, acked)
    BY <1>2, CoversShrinks
  <2> QED
    BY <1>1, <2>1 DEF TamperInv, CoverInv
<1> QED
  BY <1>4, <1>5, <1>6 DEF TamperInv

\* Entries whose append() returned cannot be removed or changed without a trace
\* in verify(), for any number of processes, appends and edits, as long as head
\* was never cut short.
THEOREM TamperingShows == Spec => []TamperShows
<1>1. Init => TamperInv
  <2> SUFFICES ASSUME Init PROVE TamperInv
    OBVIOUS
  <2>1. /\ log = <<>> /\ DOMAIN log = {} /\ markers = {} /\ acked = {}
        /\ head.kind = "absent" /\ head.hash = 0
        /\ \A q \in Procs : pc[q] = "idle" /\ entry[q].prev = 0
    BY DEF Init, NoHead, GENESIS
  <2>2. HashesInv
    BY <2>1 DEF HashesInv, Mentioned, BeforeWrite
  <2>3. WholeInv /\ CoverInv
    BY <2>1 DEF WholeInv, CoverInv, AfterWrite
  <2> QED
    BY <2>2, <2>3 DEF TamperInv
<1>2. TypeOK /\ LockInv /\ TamperInv /\ [Next]_vars => TamperInv'
  <2> SUFFICES ASSUME TypeOK, LockInv, TamperInv, [Next]_vars PROVE TamperInv'
    OBVIOUS
  <2>1. ASSUME NEW p \in Procs, WriteLine(p) PROVE TamperInv'
    <3>1. WholeLine \in SUBSET Pieces /\ "whole" \in Kinds
      BY DEF WholeLine, Pieces, Kinds
    <3> QED
      BY <2>1, <3>1, WriteLineEntries, WriteTampers DEF WriteLine, Goto, history
  <2>2. ASSUME NEW p \in Procs, StopInLine(p) PROVE TamperInv'
    <3>1. /\ {"start"} \in SUBSET Pieces /\ {"start", "rest"} \in SUBSET Pieces
          /\ "whole" \in Kinds /\ "damaged" \in Kinds
      BY DEF Pieces, Kinds
    <3>2. /\ pc[p] = "write" /\ pc' = [pc EXCEPT ![p] = "idle"]
          /\ UNCHANGED <<head, markers, entry, begun, acked, headCut>>
          /\ SameEntries
      BY <2>2, UnchangedEntries DEF StopInLine, CutShort, Goto
    <3>3. CASE log' = LinesAfter(entry[p], {"start"}, "damaged")
      BY <3>1, <3>2, <3>3, WriteTampers
    <3>4. CASE log' = LinesAfter(entry[p], {"start", "rest"}, "whole")
      BY <3>1, <3>2, <3>4, WriteTampers
    <3> QED
      BY <2>2, <3>3, <3>4 DEF StopInLine
  <2>3. CASE UNCHANGED vars
    <3>1. /\ UNCHANGED <<log, head, markers, pc, entry, begun, acked, headCut>>
      BY <2>3 DEF vars, disk, history
    <3> QED
      BY <3>1 DEF TamperInv, HashesInv, WholeInv, CoverInv, Mentioned
  <2> QED
    BY <2>1, <2>2, <2>3, CallTampers, WaitTampers, ReadTampers, HeadTampers,
       MarkTampers, OutsideTampers DEF Next, Step, Stop, Done
<1>3. TypeOK /\ TamperInv => TamperShows
  BY TamperInvSuffices
<1> QED
  BY <1>1, <1>2, <1>3, TypeCorrect, LockExcludes, PTL DEF Spec
-----------------------------------------------------------------------------
(* What verify() reads beside the appends.  As long as no append was cut    *)
(* short and nobody edited a file, every line but one that is being         *)
(* acknowledged is acknowledged; so the lines stand whole and each links    *)
(* to the one before it, and what verify() has read is a beginning of them. *)

Undisturbed == crashes = 0 /\ tampers = 0

\* Only the last line may belong to an append that has not returned.
NothingCut ==
    Undisturbed => \A i \in DOMAIN log :
        \/ log[i].id \in acked
        \/ i = Len(log) /\ \E p \in Procs : pc[p] \in AfterWrite

\* The lines that were read are the first n; those that were not are in a file
\* that is still to be read or in a newer one than all that were listed.
ReadSoFar(n) ==
    /\ vlines = SubSeq(log, 1, n)
    /\ \A k \in 1 .. n, m \in vfiles : log[k].month < m
    /\ \A k \in (n + 1) .. Len(log) :
          log[k].month \in vfiles \/ \A m \in vfiles : m < log[k].month

ReadInv ==
    /\ vpc = "idle" => vlines = <<>>
    /\ Undisturbed /\ vpc = "read" =>
          vfiles \subseteq files /\ \E n \in 0 .. Len(log) : ReadSoFar(n)


\* A log of which no append was cut short: whole lines, each linked to the one
\* before it.
Clean ==
    \A i \in DOMAIN log : Complete(log[i]) /\ log[i].prev = Expected(log, i)

LEMMA UndisturbedIsClean ==
    ASSUME IInv, NothingCut, Undisturbed
    PROVE  Clean
<1>1. TypeOK /\ DiskInv
  BY DEF IInv, Undisturbed
<1>2. DOMAIN log = 1 .. Len(log) /\ Len(log) \in Nat
  BY <1>1, LastLine
<1>3. ASSUME NEW i \in DOMAIN log PROVE Complete(log[i])
  <2>1. CASE log[i].id \in acked
    BY <1>1, <2>1 DEF DiskInv, AckedInv
  <2>2. CASE i = Len(log) /\ \E p \in Procs : pc[p] \in AfterWrite
    <3>1. PICK p \in Procs : pc[p] \in {"head", "mark"}
      BY <2>2 DEF AfterWrite
    <3>2. Written(p)
      BY <1>1, <3>1 DEF DiskInv, StepInv
    <3> QED
      BY <2>2, <3>2 DEF Written, Last
  <2> QED
    BY <2>1, <2>2 DEF NothingCut
<1>4. ASSUME NEW i \in DOMAIN log PROVE log[i].prev = Expected(log, i)
  <2>1. Intact(log[i])
    BY <1>3 DEF Complete, Intact
  <2>2. CASE i > 1 /\ log[i - 1].id \notin acked
    <3>1. i - 1 \in DOMAIN log /\ i - 1 # Len(log)
      BY <1>2, <2>2
    <3> QED
      BY <2>2, <3>1 DEF NothingCut
  <2> QED
    BY <1>1, <2>1, <2>2 DEF DiskInv, ChainInv
<1> QED
  BY <1>3, <1>4 DEF Clean

\* What an undisturbed step does to the files: at most one whole line is added,
\* in the newest file or in a newer one.
AddsLine(p) ==
    /\ pc[p] = "write" /\ pc' = [pc EXCEPT ![p] = "head"]
    /\ acked' = acked
    /\ files \subseteq files'
    /\ Len(log') = Len(log) + 1
    /\ \A i \in 1 .. Len(log) : log'[i] = log[i]
    /\ \A m \in files : m <= log'[Len(log) + 1].month

LEMMA UndisturbedSteps ==
    ASSUME IInv, NothingCut, Undisturbed', [Next]_vars
    PROVE  /\ Undisturbed
           /\ \/ UNCHANGED <<log, files>>
              \/ \E p \in Procs : AddsLine(p)
           /\ UNCHANGED vars \/ \E p \in Procs : Step(p)
<1>1. TypeOK /\ LockInv
  BY DEF IInv
<1>2. ~ Outside
  BY <1>1 DEF Outside, RemoveLines, RemoveFile, ChangeLine, Tamper, TypeOK, Undisturbed
<1>3. ASSUME NEW p \in Procs PROVE ~ CutShort(p)
  BY <1>1 DEF CutShort, TypeOK, Undisturbed
<1>4. ASSUME NEW p \in Procs PROVE ~ Stop(p)
  BY <1>3 DEF Stop, StopBetweenWrites, StopInLine, StopInHead
<1>5. UNCHANGED vars \/ \E p \in Procs : Step(p)
  BY <1>2, <1>4 DEF Next, Done
<1>6. CASE \E p \in Procs : WriteLine(p)
  <2>1. PICK p \in Procs : WriteLine(p)
    BY <1>6
  <2>2. /\ pc[p] = "write" /\ pc' = [pc EXCEPT ![p] = "head"]
        /\ files' = files \cup {entry[p].month}
        /\ log' = LinesAfter(entry[p], WholeLine, "whole")
        /\ UNCHANGED <<acked, crashes, tampers>>
    BY <2>1 DEF WriteLine, Goto, history
  <2>3. Undisturbed
    BY <2>2 DEF Undisturbed
  <2>4. Clean /\ DiskInv
    BY <2>3, UndisturbedIsClean DEF IInv, Undisturbed
  <2>5. Ready(p) /\ entry[p] \in Entry
    BY <1>1, <2>2, <2>4 DEF DiskInv, StepInv, TypeOK
  <2>6. WholeLine \in SUBSET Pieces /\ "whole" \in Kinds
    BY DEF WholeLine, Pieces, Kinds
  <2>7. Extended(log, log', entry[p], WholeLine, "whole")
    BY <1>1, <2>2, <2>5, <2>6, LineAdded DEF Ready
  <2>8. Len(log') = Len(log) + 1
    BY <2>7 DEF Extended
  <2>9. \A i \in 1 .. Len(log) : log'[i] = log[i]
    BY <1>1, <2>4, <2>7, LastLine DEF Extended, Clean, Complete, WholeLine
  <2>10. log'[Len(log) + 1].month = entry[p].month
    BY <2>7, <2>8 DEF Extended
  <2>11. AddsLine(p)
    BY <2>2, <2>5, <2>8, <2>9, <2>10 DEF AddsLine, Ready
  <2> QED
    BY <1>5, <2>3, <2>11
<1>7. CASE ~ \E p \in Procs : WriteLine(p)
  <2>1. UNCHANGED <<log, files, crashes, tampers>>
    BY <1>2, <1>4, <1>7 DEF Next, Step, Done, vars, disk, history, Call, Lock,
                            LockTimeout, ReadLog, WriteHead, Mark
  <2> QED
    BY <1>5, <2>1 DEF Undisturbed
<1> QED
  BY <1>6, <1>7

LEMMA NothingIsCut ==
    ASSUME IInv, TypeOK', NothingCut, [Next]_vars
    PROVE  NothingCut'
<1> SUFFICES ASSUME Undisturbed', NEW i \in DOMAIN log'
             PROVE  \/ log'[i].id \in acked'
                    \/ i = Len(log') /\ \E p \in Procs : pc'[p] \in AfterWrite
  BY DEF NothingCut
<1>1. Undisturbed /\ TypeOK /\ LockInv
  BY UndisturbedSteps DEF IInv
<1>2. DOMAIN log = 1 .. Len(log) /\ Len(log) \in Nat
  BY <1>1, LastLine
<1>3. CASE \E p \in Procs : AddsLine(p)
  <2>1. PICK p \in Procs : AddsLine(p)
    BY <1>3
  <2>2. \A q \in Procs : pc[q] \notin AfterWrite
    BY <1>1, <2>1, Alone DEF AddsLine, Busy, AfterWrite
  <2>3. \A k \in DOMAIN log : log[k].id \in acked
    BY <1>1, <2>2 DEF NothingCut
  <2>4. pc'[p] \in AfterWrite
    BY <1>1, <2>1 DEF AddsLine, AfterWrite, TypeOK
  <2>5. DOMAIN log' = 1 .. Len(log')
    BY LenProperties DEF TypeOK
  <2> QED
    BY <1>2, <2>1, <2>3, <2>4, <2>5 DEF AddsLine
<1>4. CASE UNCHANGED <<log, files>>
  <2>1. CASE UNCHANGED vars
    BY <1>1, <2>1 DEF NothingCut, vars, disk, history
  <2>2. ASSUME NEW p \in Procs, Step(p)
        PROVE  \/ log[i].id \in acked'
               \/ i = Len(log) /\ \E q \in Procs : pc'[q] \in AfterWrite
    <3>1. acked \subseteq acked'
      BY <2>2 DEF Step, Call, Lock, LockTimeout, ReadLog, WriteLine, WriteHead,
                  Mark, history
    <3>2. \A q \in Procs : q # p => pc'[q] = pc[q]
      BY <1>1, <2>2 DEF Step, Call, Lock, LockTimeout, ReadLog, WriteLine,
                        WriteHead, Mark, Goto, TypeOK
    <3>3. CASE log[i].id \in acked
      BY <3>1, <3>3
    <3>4. CASE i = Len(log) /\ pc[p] \in AfterWrite
      <4>1. Written(p)
        BY <1>1, <3>4 DEF IInv, Undisturbed, DiskInv, StepInv, AfterWrite
      <4>2. log[i].id = entry[p].id
        BY <1>1, <3>4, <4>1, LastLine DEF Written
      <4>3. CASE WriteHead(p)
        BY <1>1, <3>4, <4>3 DEF WriteHead, Goto, AfterWrite, TypeOK
      <4>4. CASE Mark(p)
        BY <4>2, <4>4 DEF Mark
      <4> QED
        BY <2>2, <3>4, <4>3, <4>4 DEF Step, Call, Lock, LockTimeout, ReadLog,
                                      WriteLine, AfterWrite
    <3> QED
      BY <1>1, <1>4, <3>2, <3>3, <3>4 DEF NothingCut
  <2> QED
    BY <1>4, <2>1, <2>2, UndisturbedSteps
<1> QED
  BY <1>3, <1>4, UndisturbedSteps

-----------------------------------------------------------------------------
\* The steps of the appends keep what was read a beginning of the log.
LEMMA AppendsKeepRead ==
    ASSUME IInv, TypeOK', NothingCut, ReadInv, [Next]_vars, UNCHANGED verifyVars
    PROVE  ReadInv'
<1> SUFFICES ASSUME Undisturbed', vpc = "read"
             PROVE  vfiles \subseteq files' /\ \E n \in 0 .. Len(log') : ReadSoFar(n)'
  BY DEF ReadInv, verifyVars
<1>1. Undisturbed /\ TypeOK /\ DiskInv
  BY UndisturbedSteps DEF IInv, Undisturbed
<1>2. PICK n \in 0 .. Len(log) : ReadSoFar(n)
  BY <1>1 DEF ReadInv
<1>3. vfiles \subseteq files /\ files \subseteq Int /\ UNCHANGED <<vfiles, vlines>>
  BY <1>1, MonthsAreNumbers DEF ReadInv, verifyVars
<1>4. CASE UNCHANGED <<log, files>>
  BY <1>2, <1>3, <1>4 DEF ReadSoFar
<1>5. ASSUME NEW p \in Procs, AddsLine(p)
      PROVE  vfiles \subseteq files' /\ \E k \in 0 .. Len(log') : ReadSoFar(k)'
  <2> DEFINE last == Len(log)
  <2>1. /\ last \in Nat /\ Len(log') = last + 1
        /\ \A i \in 1 .. last : log'[i] = log[i]
        /\ \A i \in 1 .. last : log[i] \in Line
        /\ \A i \in 1 .. last + 1 : log'[i] \in Line
    <3>1. Len(log') = last + 1 /\ log \in Seq(Line) /\ log' \in Seq(Line)
      BY <1>1, <1>5 DEF AddsLine, TypeOK
    <3> QED
      BY <1>5, <3>1, LenProperties, ElementOfSeq DEF AddsLine
  <2> HIDE DEF last
  <2>2. SubSeq(log', 1, n) = SubSeq(log, 1, n)
    <3>1. n \in 0 .. last
      BY DEF last
    <3>2. /\ \A i \in 1 .. n : log[i] \in Line /\ log'[i] \in Line
          /\ n \in Int
      BY <2>1, <3>1
    <3>3. /\ SubSeq(log, 1, n) \in Seq(Line) /\ SubSeq(log', 1, n) \in Seq(Line)
          /\ Len(SubSeq(log, 1, n)) = Len(SubSeq(log', 1, n))
          /\ Len(SubSeq(log, 1, n)) = n
          /\ \A i \in 1 .. n : SubSeq(log, 1, n)[i] = log[i]
          /\ \A i \in 1 .. n : SubSeq(log', 1, n)[i] = log'[i]
      BY <3>1, <3>2, SubSeqProperties
    <3>4. \A i \in 1 .. n : SubSeq(log, 1, n)[i] = SubSeq(log', 1, n)[i]
      BY <2>1, <3>1, <3>3
    <3> QED
      BY <3>3, <3>4, SeqEqual
  <2>3. \A k \in 1 .. n, m \in vfiles : log'[k].month < m
    BY <1>2, <2>1 DEF ReadSoFar, last
  <2>4. ASSUME NEW k \in (n + 1) .. Len(log')
        PROVE  log'[k].month \in vfiles \/ \A m \in vfiles : m < log'[k].month
    <3>1. CASE k = last + 1
      <4>1. \A m \in vfiles : m <= log'[k].month
        BY <1>3, <1>5, <3>1 DEF AddsLine, last
      <4>2. log'[k].month \in Int
        <5>1. log'[k] \in Line
          BY <2>1, <3>1
        <5> QED
          BY <5>1, MonthsAreNumbers DEF Line
      <4> QED
        BY <1>3, <4>1, <4>2
    <3>2. CASE k # last + 1
      <4>1. k \in (n + 1) .. last /\ k \in 1 .. last
        BY <2>1, <3>2
      <4> QED
        BY <1>2, <2>1, <4>1 DEF ReadSoFar, last
    <3> QED
      BY <3>1, <3>2
  <2>5. n \in 0 .. Len(log')
    BY <2>1 DEF last
  <2>6. ReadSoFar(n)'
    BY <1>2, <1>3, <2>2, <2>3, <2>4 DEF ReadSoFar
  <2> QED
    BY <1>3, <1>5, <2>5, <2>6 DEF AddsLine
<1> QED
  BY <1>4, <1>5, UndisturbedSteps

\* The lines of the next file are those that follow what was read.
LEMMA FileFollows ==
    ASSUME IInv, Undisturbed, ReadInv, VerifyFile
    PROVE  ReadInv'
<1>1. TypeOK /\ DiskInv /\ vpc = "read" /\ vpc' = "read" /\ UNCHANGED vars
  BY DEF IInv, Undisturbed, VerifyFile
<1>2. UNCHANGED <<log, files>>
  BY <1>1 DEF vars, disk
<1>3. PICK n \in 0 .. Len(log) : ReadSoFar(n)
  BY <1>1 DEF ReadInv
<1>4. PICK month \in vfiles, i \in 1 .. Len(log) + 1, j \in 0 .. Len(log) :
        /\ \A other \in vfiles : month <= other
        /\ i <= j + 1
        /\ \A k \in DOMAIN log : log[k].month = month <=> k \in i .. j
        /\ vfiles' = vfiles \ {month}
        /\ vlines' = vlines \o SubSeq(log, i, j)
  BY DEF VerifyFile
<1> DEFINE last == Len(log)
<1>5. /\ last \in Nat /\ DOMAIN log = 1 .. last
      /\ \A k \in 1 .. last : log[k].month \in Int
      /\ \A k, l \in 1 .. last : k <= l => log[k].month <= log[l].month
      /\ vfiles \subseteq Int /\ month \in Int /\ vfiles \subseteq files
  <2>1. \A k \in DOMAIN log : log[k].month \in Int
    BY <1>1, LastLine, MonthsAreNumbers DEF Line
  <2>2. vfiles \subseteq files /\ files \subseteq Int
    BY <1>1, MonthsAreNumbers DEF ReadInv
  <2> QED
    BY <1>1, <2>1, <2>2, LastLine DEF DiskInv, LinesInv
<1>6. vfiles' \subseteq files'
  BY <1>2, <1>4, <1>5
<1>7. n \in 0 .. last /\ i \in 1 .. last + 1 /\ j \in 0 .. last
  OBVIOUS
<1> HIDE DEF last
<1>8. ASSUME NEW k \in 1 .. last
      PROVE  /\ k <= n => log[k].month < month
             /\ n < k => log[k].month \in vfiles \/ month < log[k].month
  BY <1>3, <1>4, <1>5, <1>7 DEF ReadSoFar, last
<1>9. vlines \in Seq(Line)
  <2>1. n \in Int /\ \A k \in 1 .. n : log[k] \in Line
    BY <1>1, <1>5, <1>7, LastLine
  <2> QED
    BY <1>3, <2>1, SubSeqProperties DEF ReadSoFar
<1>10. CASE j < i
  <2>1. vlines' = vlines
    <3>1. SubSeq(log, i, j) = <<>>
      BY <1>7, <1>5, <1>10, SubSeqEmpty
    <3>2. vlines \in Seq(Line)
      BY <1>9
    <3> QED
      BY <1>4, <3>1, <3>2, ConcatEmptySeq
  <2>2. \A k \in 1 .. n, m \in vfiles' : log[k].month < m
    BY <1>3, <1>4 DEF ReadSoFar
  <2>3. ASSUME NEW k \in (n + 1) .. last
        PROVE  log[k].month \in vfiles' \/ \A m \in vfiles' : m < log[k].month
    <3>1. k \in 1 .. last /\ log[k].month # month
      <4>1. k \in 1 .. last /\ k \notin i .. j
        BY <1>5, <1>7, <1>10, <2>3
      <4> QED
        BY <1>4, <1>5, <4>1
    <3> QED
      BY <1>3, <1>4, <3>1, <2>3 DEF ReadSoFar, last
  <2>4. ReadSoFar(n)'
    BY <1>2, <1>3, <2>1, <2>2, <2>3 DEF ReadSoFar, last
  <2> QED
    BY <1>1, <1>2, <1>6, <2>4 DEF ReadInv
<1>11. CASE i <= j
  <2>1. i \in 1 .. last /\ log[i].month = month
    <3>1. i \in 1 .. last /\ i \in i .. j
      BY <1>5, <1>7, <1>11
    <3> QED
      BY <1>4, <1>5, <3>1
  <2>2. i = n + 1
    <3>1. n < i
      BY <1>5, <1>7, <1>8, <2>1
    <3>2. CASE n + 1 < i
      <4>1. n + 1 \in 1 .. last /\ n + 1 <= i /\ n + 1 \notin i .. j
        BY <1>5, <1>7, <2>1, <3>2
      <4>2. log[n + 1].month # month /\ log[n + 1].month <= month
        BY <1>4, <1>5, <2>1, <4>1
      <4>3. n < n + 1
        BY <1>5, <1>7
      <4>4. log[n + 1].month \in vfiles \/ month < log[n + 1].month
        BY <1>8, <4>1, <4>3
      <4> QED
        BY <1>4, <1>5, <4>1, <4>2, <4>4
    <3> QED
      BY <1>5, <1>7, <3>1, <3>2
  <2>3. vlines' = SubSeq(log, 1, j)
    <3>1. log \in Seq(Line)
      BY <1>1 DEF TypeOK
    <3>2. 1 \in 1 .. Len(log) + 1 /\ n \in 1 - 1 .. Len(log) /\ j \in n .. Len(log)
      BY <1>5, <1>7, <1>11, <2>2 DEF last
    <3> QED
      BY <1>3, <1>4, <2>2, <3>1, <3>2, ConcatAdjacentSubSeq DEF ReadSoFar
  <2>4. ASSUME NEW k \in 1 .. j, NEW m \in vfiles' PROVE log[k].month < m
    <3>1. k \in 1 .. last /\ m \in Int /\ month < m
      BY <1>4, <1>5, <1>7, <2>4
    <3>2. log[k].month <= month
      <4>1. CASE k <= n
        BY <1>5, <1>8, <3>1, <4>1
      <4>2. CASE n < k
        <5>1. k \in DOMAIN log /\ k \in i .. j
          BY <1>5, <1>7, <2>2, <2>4, <3>1, <4>2
        <5>2. log[k].month = month
          BY <1>4, <5>1
        <5> QED
          BY <1>5, <5>2
      <4> QED
        BY <1>7, <3>1, <4>1, <4>2
    <3> QED
      BY <1>5, <3>1, <3>2
  <2>5. ASSUME NEW k \in (j + 1) .. last
        PROVE  log[k].month \in vfiles' \/ \A m \in vfiles' : m < log[k].month
    <3>1. k \in 1 .. last /\ k \in (n + 1) .. last /\ k \notin i .. j
      <4>1. k \in Int /\ j < k /\ k <= last /\ n < k /\ 1 <= k
        BY <1>5, <1>7, <1>11, <2>2, <2>5
      <4> QED
        BY <1>5, <1>7, <4>1
    <3>2. log[k].month # month
      BY <1>4, <1>5, <3>1
    <3> QED
      BY <1>3, <1>4, <3>1, <3>2 DEF ReadSoFar, last
  <2>6. ReadSoFar(j)'
    BY <1>2, <2>3, <2>4, <2>5 DEF ReadSoFar, last
  <2> QED
    BY <1>1, <1>2, <1>6, <2>6 DEF ReadInv
<1> QED
  BY <1>5, <1>7, <1>10, <1>11

\* What the problems of a beginning of a clean log can be.
LEMMA CleanReadsWell ==
    ASSUME TypeOK, Clean, NEW n \in 0 .. Len(log)
    PROVE  \A problem \in Problems(SubSeq(log, 1, n), head) : problem.what = "head"
<1> DEFINE lines == SubSeq(log, 1, n)
<1>1. log \in Seq(Line) /\ Len(log) \in Nat /\ DOMAIN log = 1 .. Len(log)
  BY LenProperties DEF TypeOK
<1>2. n \in Nat /\ n <= Len(log)
  BY <1>1
<1>3. \A i \in 1 .. n : log[i] \in Line
  BY <1>1, <1>2, LastLine
<1>4. lines \in Seq(Line) /\ Len(lines) = n /\ \A i \in 1 .. n : lines[i] = log[i]
  BY <1>2, <1>3, SubSeqProperties
<1> HIDE DEF lines
<1>5. DOMAIN lines = 1 .. n
  BY <1>4, LenProperties
<1>6. ASSUME NEW i \in DOMAIN lines
      PROVE  Intact(lines[i]) /\ lines[i].prev = Expected(lines, i)
             /\ lines[i].kind # "edited"
  <2>1. i \in DOMAIN log /\ lines[i] = log[i]
    BY <1>1, <1>2, <1>4, <1>5
  <2>2. Complete(log[i]) /\ log[i].prev = Expected(log, i)
    BY <2>1 DEF Clean
  <2>3. i # 1 => lines[i - 1] = log[i - 1]
    BY <1>2, <1>4, <1>5
  <2>4. Expected(lines, i) = Expected(log, i)
    BY <2>3 DEF Expected
  <2> QED
    BY <2>1, <2>2, <2>4 DEF Complete, Intact
<1>7. Problems(lines, head) \subseteq At("head", {Len(lines)})
  BY <1>6 DEF Problems, At
<1> QED
  BY <1>7 DEF At, lines

\* For any processes, months and bounds: a verify() that runs beside appends none
\* of which was cut short, on files nobody edited, finds no entry that does not
\* link to the one before it.
THEOREM ReadsBeginnings == ReadersSpec => []ReadsAChain
<1>1. ReadersSpec => Spec
  <2>1. ReadersInit => Init
    BY DEF ReadersInit
  <2>2. [ReadersNext]_<<vars, verifyVars>> => [Next]_vars
    BY DEF ReadersNext, VerifyList, VerifyFile, VerifyHead
  <2> QED
    BY <2>1, <2>2, PTL DEF ReadersSpec, Spec
<1>2. ReadersInit => NothingCut /\ ReadInv /\ ReadsAChain
  <2> SUFFICES ASSUME ReadersInit PROVE NothingCut /\ ReadInv /\ ReadsAChain
    OBVIOUS
  <2>1. DOMAIN log = {} /\ vpc = "idle" /\ vlines = <<>>
    BY DEF ReadersInit, Init
  <2> QED
    BY <2>1 DEF NothingCut, ReadInv, ReadsAChain
<1>3. IInv /\ IInv' /\ NothingCut /\ ReadInv /\ ReadsAChain
        /\ [ReadersNext]_<<vars, verifyVars>>
        => NothingCut' /\ ReadInv' /\ ReadsAChain'
  <2> SUFFICES ASSUME IInv, IInv', NothingCut, ReadInv, ReadsAChain, [ReadersNext]_<<vars, verifyVars>>
               PROVE  NothingCut' /\ ReadInv' /\ ReadsAChain'
    OBVIOUS
  <2>1. [Next]_vars /\ TypeOK /\ TypeOK'
    BY DEF ReadersNext, VerifyList, VerifyFile, VerifyHead, IInv
  <2>2. NothingCut'
    BY <2>1, NothingIsCut
  <2>3. CASE UNCHANGED verifyVars
    <3>1. ReadInv'
      BY <2>1, <2>3, AppendsKeepRead
    <3>2. Undisturbed' => Undisturbed
      BY <2>1, UndisturbedSteps
    <3>3. ReadsAChain'
      BY <2>3, <3>2 DEF ReadsAChain, Undisturbed, verifyVars
    <3> QED
      BY <2>2, <3>1, <3>3
  <2>4. CASE VerifyList
    <3>1. /\ vpc' = "read" /\ vfiles' = files /\ vlines' = <<>>
          /\ UNCHANGED <<log, files>>
      BY <2>4 DEF VerifyList, ReadInv, vars, disk
    <3>2. ASSUME Undisturbed' PROVE ReadSoFar(0)' /\ 0 \in 0 .. Len(log')
      <4>1. DiskInv' /\ DOMAIN log' = 1 .. Len(log') /\ Len(log') \in Nat
        BY <2>1, <3>2, LenProperties DEF IInv, Undisturbed, TypeOK
      <4>2. SubSeq(log', 1, 0) = <<>>
        BY SubSeqEmpty
      <4>3. \A k \in 0 + 1 .. Len(log') : log'[k].month \in files'
        BY <4>1 DEF DiskInv, LinesInv
      <4> QED
        BY <3>1, <4>1, <4>2, <4>3 DEF ReadSoFar
    <3> QED
      BY <2>2, <3>1, <3>2 DEF ReadInv, ReadsAChain
  <2>5. CASE VerifyFile
    <3>1. UNCHANGED <<crashes, tampers>> /\ vpc' = "read"
      BY <2>5 DEF VerifyFile, vars, history
    <3>2. ReadInv'
      <4>1. CASE Undisturbed
        BY <2>5, <4>1, FileFollows
      <4> QED
        BY <3>1, <4>1 DEF ReadInv, Undisturbed
    <3> QED
      BY <2>2, <3>1, <3>2 DEF ReadsAChain
  <2>6. CASE VerifyHead
    <3>1. /\ UNCHANGED <<crashes, tampers>> /\ vpc = "read" /\ vpc' = "done"
          /\ verdict' = Problems(vlines, head)
      BY <2>6 DEF VerifyHead, vars, history
    <3>2. ASSUME Undisturbed
          PROVE  \A problem \in Problems(vlines, head) : problem.what = "head"
      <4>1. Clean
        BY <3>2, UndisturbedIsClean
      <4>2. PICK n \in 0 .. Len(log) : vlines = SubSeq(log, 1, n)
        BY <3>1, <3>2 DEF ReadInv, ReadSoFar
      <4> QED
        BY <2>1, <4>1, <4>2, CleanReadsWell
    <3> QED
      BY <2>2, <3>1, <3>2 DEF ReadInv, ReadsAChain, Undisturbed
  <2> QED
    BY <2>3, <2>4, <2>5, <2>6 DEF ReadersNext
<1> QED
  BY <1>1, <1>2, <1>3, InvariantHolds, PTL DEF ReadersSpec
=============================================================================
