--------------------------- MODULE AppendOnlyLog ----------------------------
(***************************************************************************)
(* What AuditLog.append promises its callers: lines are only ever added at *)
(* the end, a line once written stays as it is, and an entry is            *)
(* acknowledged only when the log holds it whole.                          *)
(***************************************************************************)
EXTENDS Naturals, Sequences

VARIABLES
    lines,      \* the lines: which entry each is of, and whether it is whole
    returned    \* the entries that were acknowledged

Line == [id : Nat, whole : BOOLEAN]

Init ==
    /\ lines = <<>>
    /\ returned = {}

\* An append writes its line, or only the beginning of it.
Add ==
    /\ Len(lines') = Len(lines) + 1
    /\ \A i \in 1 .. Len(lines) : lines'[i] = lines[i]
    /\ lines'[Len(lines')] \in Line
    /\ UNCHANGED returned

Acknowledge ==
    /\ \E i \in DOMAIN lines :
         lines[i].whole /\ returned' = returned \cup {lines[i].id}
    /\ UNCHANGED lines

Next == Add \/ Acknowledge

Spec == Init /\ [][Next]_<<lines, returned>>
=============================================================================
