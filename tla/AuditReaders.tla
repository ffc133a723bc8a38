---------------------------- MODULE AuditReaders ----------------------------
(***************************************************************************)
(* AuditLog.verify beside the appends.  It takes no lock: it lists the     *)
(* files once, reads them one after the other, oldest first, and reads     *)
(* head last, while appends go on.  session_entries reads the same way.    *)
(***************************************************************************)
EXTENDS AuditLog

VARIABLES
    vpc,        \* where verify() is
    vfiles,     \* the files listed and not read yet
    vlines,     \* the lines read
    verdict     \* the problems it reports

verifyVars == <<vpc, vfiles, vlines, verdict>>

ReadersInit ==
    /\ Init
    /\ vpc = "idle"
    /\ vfiles = {}
    /\ vlines = <<>>
    /\ verdict = {}

\* self.files()
VerifyList ==
    /\ vpc = "idle"
    /\ vpc' = "read"
    /\ vfiles' = files
    /\ UNCHANGED <<vlines, verdict, vars>>

\* The next file is read to its end: its lines are the i-th to the j-th.
VerifyFile ==
    /\ vpc = "read"
    /\ \E month \in vfiles, i \in 1 .. Len(log) + 1, j \in 0 .. Len(log) :
         /\ \A other \in vfiles : month <= other
         /\ i <= j + 1
         /\ \A k \in DOMAIN log : log[k].month = month <=> k \in i .. j
         /\ vfiles' = vfiles \ {month}
         /\ vlines' = vlines \o SubSeq(log, i, j)
    /\ UNCHANGED <<vpc, verdict, vars>>

\* head is read last, and the problems are reported.
VerifyHead ==
    /\ vpc = "read"
    /\ vfiles = {}
    /\ vpc' = "done"
    /\ verdict' = Problems(vlines, head)
    /\ UNCHANGED <<vfiles, vlines, vars>>

ReadersNext ==
    \/ Next /\ UNCHANGED verifyVars
    \/ VerifyList
    \/ VerifyFile
    \/ VerifyHead

ReadersSpec == ReadersInit /\ [][ReadersNext]_<<vars, verifyVars>>

-----------------------------------------------------------------------------
\* A verify() that runs beside appends of which none was cut short, on a log
\* nobody edited, finds every entry it reads linked to the one before it: what
\* it reads is a beginning of the log although no two files are read at one
\* moment.
ReadsAChain ==
    vpc = "done" /\ crashes = 0 /\ tampers = 0 =>
        \A problem \in verdict : problem.what = "head"
=============================================================================
