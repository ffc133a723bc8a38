------------------------------ MODULE AuditLog ------------------------------
(***************************************************************************)
(* The hash-chained audit log of ember_armor/ledger/audit.py: appends of   *)
(* several processes under the file lock, each of which can die or fail    *)
(* between any two of its writes, and a person who edits the files.        *)
(*                                                                         *)
(* One entry is a line.  Appends only ever go to the newest monthly file   *)
(* or to a later one, so the files, oldest first, are kept as one sequence *)
(* `log' whose lines name their file.  SHA-256 is taken to be collision    *)
(* free: the hash of an entry is the number of the append that made it and *)
(* the digest of a damaged line is the negative of that number.  GENESIS   *)
(* is 0.                                                                   *)
(*                                                                         *)
(* What a line has on disk is the set of its pieces, each of one unit:     *)
(*    "pad"    the newline an append writes first, in a newer file than    *)
(*             that of the unfinished line it follows                      *)
(*    "start", "rest"   the two halves of the JSON text                    *)
(*    "end"    its newline                                                 *)
(* so that entries all have the same length, which is the worst case for a *)
(* marker that is compared by file name and size.                          *)
(***************************************************************************)
EXTENDS Integers, Sequences, FiniteSets

CONSTANTS
    Procs,          \* processes (hooks, the resident gate, the CLI) that append
    MaxMonth,       \* months, one log file each: 1 .. MaxMonth
    MaxAppends,     \* bound on the calls of append()
    MaxCrashes,     \* bound on appends cut short after they hold the lock
    MaxTampers      \* bound on edits by somebody outside the program

ASSUME BoundsAssumption ==
    /\ MaxMonth \in Nat \ {0}
    /\ MaxAppends \in Nat
    /\ MaxCrashes \in Nat
    /\ MaxTampers \in Nat

VARIABLES
    log,        \* the lines of all files, oldest first
    files,      \* the months whose file exists
    head,       \* the file "head": absent, cut short (empty), or a hash
    markers,    \* the .last.<file>.<size>.<hash> files
    lock,       \* the set of processes that hold .lock
    pc,         \* where each process is in append()
    entry,      \* what each process is about to write
    \* history
    begun,      \* calls of append() so far: each has a hash of its own
    acked,      \* entries whose append() returned
    recorded,   \* entries whose hash was written to head
    crashes,    \* appends cut short
    headCut,    \* one of them was cut short while it rewrote head
    tampers     \* edits from outside

disk    == <<log, files, head, markers>>
history == <<acked, recorded, crashes, headCut, tampers>>
vars    == <<disk, lock, pc, entry, begun, history>>

-----------------------------------------------------------------------------
Months  == 1 .. MaxMonth
GENESIS == 0
Pieces  == {"pad", "start", "rest", "end"}

\* A line holds an entry unless its JSON is damaged; "edited" is valid JSON
\* that no longer has the hash it stores.
Kinds == {"whole", "edited", "damaged"}

Line == [month : Months, id : Nat, prev : Int, kind : Kinds, on : SUBSET Pieces]
HeadFile == [kind : {"absent", "cut", "hash"}, hash : Nat]
Marker == [month : Months, size : Nat, hash : Nat]
\* `written' is the end of the file that handle.tell() gave.
Entry == [month : Months, id : Nat, prev : Int, unfinished : BOOLEAN, written : Nat]

NoHead == [kind |-> "absent", hash |-> 0]
\* write_text() opens the file with truncation before it writes.
CutHead == [kind |-> "cut", hash |-> 0]
HeadOf(hash) == [kind |-> "hash", hash |-> hash]

\* Mutant: an entry goes to any of the files, not to the newest.
MutAnyFile(month, months) == month \in months

\* The file sorts last among the files of the given months.
IsNewest(month, months) == month \in months /\ \A m \in months : m <= month

Last(seq) == seq[Len(seq)]

\* os.stat(file).st_size
SizeOf(lines, month) ==
    Cardinality({at \in (DOMAIN lines) \X Pieces :
                    lines[at[1]].month = month /\ at[2] \in lines[at[1]].on})

\* _line_hash is not None
Intact(line) == line.kind # "damaged"

\* _link_after: the stored hash, or the digest of a damaged line.
LinkAfter(line) == IF Intact(line) THEN line.id ELSE - line.id

\* What verify() expects the i-th line to link to.
Expected(lines, i) == IF i = 1 THEN GENESIS ELSE LinkAfter(lines[i - 1])

At(what, where) == {[what |-> what, line |-> i] : i \in where}

\* AuditLog.verify of the given lines, with what head holds.
Problems(lines, recordedHead) ==
    At("not a valid log entry", {i \in DOMAIN lines : ~ Intact(lines[i])})
    \cup
    At("prev mismatch",
       {i \in DOMAIN lines :
            Intact(lines[i]) /\ lines[i].prev # Expected(lines, i)})
    \cup
    At("hash mismatch", {i \in DOMAIN lines : lines[i].kind = "edited"})
    \cup
    At("head",
       {i \in {Len(lines)} :
            \/ recordedHead.kind = "cut"
            \/ /\ recordedHead.kind = "hash"
               /\ recordedHead.hash # Expected(lines, i + 1)})

\* Mutant: head is not looked at.
MutLinkIgnoresHead == IF log = <<>> THEN GENESIS ELSE LinkAfter(Last(log))

\* AuditLog._link: what the next entry links to.
Link ==
    IF log = <<>>
    THEN IF head.kind = "hash" THEN head.hash ELSE GENESIS
    ELSE IF Intact(Last(log)) /\ head.kind = "hash"
         THEN head.hash
         ELSE LinkAfter(Last(log))

\* Mutant: no newline goes before an entry.
MutNeverUnfinished == FALSE

\* AuditLog._link: the newest file ends in a line without its newline.
Unfinished ==
    /\ log # <<>>
    /\ IsNewest(Last(log).month, files)
    /\ "end" \notin Last(log).on

\* The marker that says the target is as the last append left it.
Untouched(target) ==
    {m \in markers :
        /\ IsNewest(target, files)
        /\ m.month = target /\ m.size = SizeOf(log, target)}

\* What an entry in the target links to, without reading the file if possible.
LinkTo(target) ==
    IF Untouched(target) # {} THEN {m.hash : m \in Untouched(target)} ELSE {Link}

-----------------------------------------------------------------------------
Init ==
    /\ log = <<>>
    /\ files = {}
    /\ head = NoHead
    /\ markers = {}
    /\ lock = {}
    /\ pc = [p \in Procs |-> "idle"]
    /\ entry = [p \in Procs |->
                  [month |-> 1, id |-> 0, prev |-> GENESIS, unfinished |-> FALSE,
                   written |-> 0]]
    /\ begun = 0
    /\ acked = {}
    /\ recorded = {}
    /\ crashes = 0
    /\ headCut = FALSE
    /\ tampers = 0

Goto(p, label) == pc' = [pc EXCEPT ![p] = label]

\* append() is called with a record and starts to try the lock.
Call(p) ==
    /\ pc[p] = "idle"
    /\ begun < MaxAppends
    /\ begun' = begun + 1
    /\ entry' = [entry EXCEPT ![p].id = begun + 1]
    /\ Goto(p, "lock")
    /\ UNCHANGED <<disk, lock, history>>

\* Mutant: the lock is not exclusive.
MutLockShared(p) ==
    /\ pc[p] = "lock"
    /\ lock' = lock \cup {p}
    /\ Goto(p, "link")
    /\ UNCHANGED <<disk, entry, begun, history>>

\* _locked: the lock is free and is taken.
Lock(p) ==
    /\ pc[p] = "lock"
    /\ lock = {}
    /\ lock' = {p}
    /\ Goto(p, "link")
    /\ UNCHANGED <<disk, entry, begun, history>>

\* _locked: the deadline passes while another process holds the lock; the
\* append raises AuditError and leaves no trace.
LockTimeout(p) ==
    /\ pc[p] = "lock"
    /\ lock # {}
    /\ Goto(p, "idle")
    /\ UNCHANGED <<disk, lock, entry, begun, history>>

\* The directory listing, the target, and what the entry links to.  The time
\* of an entry is read before the lock is taken, and clocks are set back: it
\* may be of any month.
ReadLog(p) ==
    /\ pc[p] = "link"
    /\ \E month, target \in Months :
         /\ IsNewest(target, files \cup {month})
         /\ \E prev \in LinkTo(target) :
              entry' = [entry EXCEPT ![p] =
                          [@ EXCEPT !.month = target, !.prev = prev,
                                    !.unfinished = Untouched(target) = {}
                                                   /\ Unfinished]]
    /\ Goto(p, "write")
    /\ UNCHANGED <<disk, lock, begun, history>>

\* The log after `pieces' of e reached its file.  The newline that goes first
\* ends the unfinished line when that is in the same file.  Without it the text
\* of the entry runs on in the unfinished line, and both are lost.
LinesAfter(e, pieces, kind) ==
    LET open  == /\ log # <<>> /\ Last(log).month = e.month
                 /\ "end" \notin Last(log).on
        ended == IF open /\ e.unfinished
                 THEN [log EXCEPT ![Len(log)].on = @ \cup {"end"}]
                 ELSE log
        line  == [month |-> e.month, id |-> e.id, prev |-> e.prev, kind |-> kind,
                  on |-> pieces \cup IF e.unfinished /\ ~ open THEN {"pad"} ELSE {}]
    IN  IF open /\ ~ e.unfinished
        THEN [log EXCEPT ![Len(log)].on = @ \cup pieces,
                         ![Len(log)].kind = "damaged"]
        ELSE Append(ended, line)

WholeLine == {"start", "rest", "end"}

\* The one write of the line, and how long the file is then.
WriteLine(p) ==
    /\ pc[p] = "write"
    /\ files' = files \cup {entry[p].month}
    /\ log' = LinesAfter(entry[p], WholeLine, "whole")
    /\ entry' = [entry EXCEPT ![p].written = SizeOf(log', entry[p].month)]
    /\ Goto(p, "head")
    /\ UNCHANGED <<head, markers, lock, begun, history>>

\* head.write_text
WriteHead(p) ==
    /\ pc[p] = "head"
    /\ head' = HeadOf(entry[p].id)
    /\ recorded' = recorded \cup {entry[p].id}
    /\ Goto(p, "mark")
    /\ UNCHANGED <<log, files, markers, lock, entry, begun, acked, crashes,
                   headCut, tampers>>

\* _mark: the old marker is renamed (or a new one made), the lock is released
\* and append() returns.  The size is that of the write, whatever became of the
\* file since.
Mark(p) ==
    /\ pc[p] = "mark"
    /\ markers' = {[month |-> entry[p].month,
                    size |-> entry[p].written,
                    hash |-> entry[p].id]}
    /\ acked' = acked \cup {entry[p].id}
    /\ lock' = lock \ {p}
    /\ Goto(p, "idle")
    /\ UNCHANGED <<log, files, head, entry, begun, recorded, crashes, headCut,
                   tampers>>

\* Mutant: the lock is not released when an append fails.
MutCutShortKeepsLock(p) ==
    /\ pc[p] \in {"link", "write", "head", "mark"}
    /\ crashes < MaxCrashes
    /\ crashes' = crashes + 1
    /\ Goto(p, "idle")
    /\ UNCHANGED <<lock, entry, begun, acked, recorded, tampers>>

\* An append ends between two of its steps: the process is killed, or a call
\* raises OSError (a full disk, a file somebody holds open) and append() raises
\* AuditError.  Either way the lock is released, and what was written stays.
CutShort(p) ==
    /\ pc[p] \in {"link", "write", "head", "mark"}
    /\ crashes < MaxCrashes
    /\ crashes' = crashes + 1
    /\ lock' = lock \ {p}
    /\ Goto(p, "idle")
    /\ UNCHANGED <<entry, begun, acked, recorded, tampers>>

StopBetweenWrites(p) ==
    /\ CutShort(p)
    /\ UNCHANGED <<disk, headCut>>

\* The line is cut in its middle, or just before its newline.
StopInLine(p) ==
    /\ pc[p] = "write"
    /\ CutShort(p)
    /\ files' = files \cup {entry[p].month}
    /\ \/ log' = LinesAfter(entry[p], {"start"}, "damaged")
       \/ log' = LinesAfter(entry[p], {"start", "rest"}, "whole")
    /\ UNCHANGED <<head, markers, headCut>>

\* head was truncated and not yet written.
StopInHead(p) ==
    /\ pc[p] = "head"
    /\ CutShort(p)
    /\ head' = CutHead
    /\ headCut' = TRUE
    /\ UNCHANGED <<log, files, markers>>

-----------------------------------------------------------------------------
(* Accidental damage and naive editing: nobody recomputes the chain.       *)

Tamper ==
    /\ tampers < MaxTampers
    /\ tampers' = tampers + 1
    /\ UNCHANGED <<head, markers, lock, pc, entry, begun, acked, recorded,
                   crashes, headCut>>

Without(i, j) == SubSeq(log, 1, i - 1) \o SubSeq(log, j + 1, Len(log))

\* Consecutive lines are removed, across files too; the files stay.
RemoveLines ==
    /\ Tamper
    /\ \E i, j \in DOMAIN log : i <= j /\ log' = Without(i, j)
    /\ UNCHANGED files

\* A whole monthly file is deleted: its lines are the i-th to the j-th.
RemoveFile ==
    /\ Tamper
    /\ \E month \in files, i \in 1 .. Len(log) + 1, j \in 0 .. Len(log) :
         /\ i <= j + 1
         /\ \A k \in DOMAIN log : log[k].month = month <=> k \in i .. j
         /\ files' = files \ {month}
         /\ log' = Without(i, j)

\* A field of an entry is changed, or the line is damaged in place.
ChangeLine ==
    /\ Tamper
    /\ \E i \in DOMAIN log, kind \in {"edited", "damaged"} :
         /\ log[i].kind = "whole"
         /\ log' = [log EXCEPT ![i].kind = kind]
    /\ UNCHANGED files

Step(p) ==
    \/ Call(p)
    \/ Lock(p)
    \/ LockTimeout(p)
    \/ ReadLog(p)
    \/ WriteLine(p)
    \/ WriteHead(p)
    \/ Mark(p)

Stop(p) ==
    \/ StopBetweenWrites(p)
    \/ StopInLine(p)
    \/ StopInHead(p)

Outside == RemoveLines \/ RemoveFile \/ ChangeLine

\* The bound on calls is reached and nobody waits or holds the lock.
Done ==
    /\ begun = MaxAppends
    /\ \A p \in Procs : pc[p] = "idle"
    /\ UNCHANGED vars

Next ==
    \/ \E p \in Procs : Step(p) \/ Stop(p)
    \/ Outside
    \/ Done

Spec == Init /\ [][Next]_vars

\* A process that was scheduled goes on: its calls to the file system return and
\* the wait for the lock ends, one way or the other.
FairSpec == Spec /\ \A p \in Procs : WF_vars(Step(p))

-----------------------------------------------------------------------------
(* Properties.                                                             *)

TypeOK ==
    /\ log \in Seq(Line)
    /\ files \in SUBSET Months
    /\ head \in HeadFile
    /\ markers \in SUBSET Marker
    /\ lock \in SUBSET Procs
    /\ pc \in [Procs -> {"idle", "lock", "link", "write", "head", "mark"}]
    /\ entry \in [Procs -> Entry]
    /\ begun \in Nat
    /\ acked \in SUBSET Nat
    /\ recorded \in SUBSET Nat
    /\ crashes \in Nat
    /\ headCut \in BOOLEAN
    /\ tampers \in Nat

\* The entry stands in the log, unmodified, on a line of its own.
Holds(id) ==
    \E i \in DOMAIN log :
        /\ log[i].id = id /\ log[i].kind = "whole"
        /\ WholeLine \subseteq log[i].on

Quiet == lock = {}

\* An entry whose append() returned is never lost to the program itself:
\* whatever append was cut short before or after it, between any two writes
\* (the newline before an entry that follows an unfinished line, the choice of
\* the newest file).
AckedKept == tampers = 0 => \A id \in acked : Holds(id)

\* The line a problem is to be blamed on: an entry does not link to the line
\* before it because that line is not the one that was read.
Culprit(problem) ==
    IF problem.what = "prev mismatch" THEN problem.line - 1 ELSE problem.line

\* Without edits from outside, verify() at a moment without an append names
\* only places where an append was cut short: the damaged line is its own, the
\* entry that does not link to its predecessor follows it, and head differs
\* from the last line only when that line is its own.
OnlyCutAppendsReported ==
    Quiet /\ tampers = 0 =>
        \A problem \in Problems(log, head) :
            Culprit(problem) \in DOMAIN log /\ log[Culprit(problem)].id \notin acked

\* Somebody removed or changed an entry whose append() returned.
Missing == {id \in acked : ~ Holds(id)}

\* Entries that were removed or changed, at either end or in between, show in
\* verify() (audit.py:6), however many appends follow and wherever they were cut
\* short, as long as head itself was never cut short: an empty head reads as
\* none, and the next append then links to the last line that is left.
TamperShows == Quiet /\ ~ headCut /\ Missing # {} => Problems(log, head) # {}

\* What append() promises (AppendOnlyLog), with every line abstracted to its
\* entry and whether it is whole, when nobody edits the files.
Entries(lines) == [i \in 1 .. Len(lines) |->
                     [id |-> lines[i].id, whole |-> lines[i].kind = "whole"]]

Promise == INSTANCE AppendOnlyLog WITH lines <- Entries(log), returned <- acked

AppendOnly == Promise!Spec

\* The lock never stays taken: an append that is cut short gives it back too.
LockComesFree == []<>(lock = {})
=============================================================================
