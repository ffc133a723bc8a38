----------------------------- MODULE LedgerStore -----------------------------
(***************************************************************************)
(* The files of ember_armor/ledger/store.py that commands edit: the user   *)
(* ledger (ledger.json) and the record of the project rules confirmed on   *)
(* this machine (project-confirmed.json), beside a loader that reads them  *)
(* and the ledger of a project, which the repository changes on its own.   *)
(*                                                                         *)
(* A command reads a file, edits what it read and writes the whole of it   *)
(* to <name>.tmp, which it then renames over the file.  No lock is taken   *)
(* and every command uses the same temporary name, so commands that run at *)
(* once share it.  Files are those of a POSIX system: what a process has   *)
(* open stays the same file when it is renamed, or renamed over.  A file   *)
(* is read in one step and its text reaches the disk in one write, unless  *)
(* the process dies in it.                                                 *)
(***************************************************************************)
EXTENDS Naturals, FiniteSets

CONSTANTS
    Commands,       \* processes of ember-gate rules add|confirm|remove
    Id, Content,    \* ids of rules, and what a rule says
    NoRule,         \* no rule: a project has none with an id
    MaxCommands,    \* bound on the commands that are run
    MaxPulls        \* bound on the changes of the project ledger

ASSUME StoreAssumption ==
    /\ NoRule \notin Content
    /\ MaxCommands \in Nat /\ MaxPulls \in Nat

VARIABLES
    path,           \* the files under their names
    tmp,            \* the files under their names with .tmp
    project,        \* the rules of the project ledger
    cmd,            \* what each command is doing
    seen,           \* rules of the project a load has read; {} when it is idle
    vouched,        \* project rules the last load took for confirmed
    \* environment
    begun, pulls,
    \* history
    approved        \* what a confirm command found in the file it was given

disk    == <<path, tmp>>
loader  == <<seen, vouched>>
world   == <<project, begun, pulls>>
vars    == <<disk, cmd, loader, world, approved>>

-----------------------------------------------------------------------------
File  == {"ledger", "record"}
Entry == [id : Id, content : Content, confirmed : BOOLEAN]
Said  == [file : File, id : Id, content : Content]

\* What is under a name: a whole document, the beginning of one ("torn", two
\* documents on top of each other as well), a file cut to nothing, no file.
Doc == [state : {"absent", "empty", "torn", "whole"}, rules : SUBSET Entry]
Absent == [state |-> "absent", rules |-> {}]
Empty  == [state |-> "empty", rules |-> {}]
Torn   == [state |-> "torn", rules |-> {}]
Whole(rules) == [state |-> "whole", rules |-> rules]

\* A missing file reads as an empty ledger, anything but JSON is an error.
Readable(doc) == doc.state \in {"absent", "whole"}
Ids(rules) == {r.id : r \in rules}

\* confirm_project_rule edits the record, the other commands the ledger.
FileOf(op) == IF op = "record" THEN "record" ELSE "ledger"

-----------------------------------------------------------------------------
\* Mutant: a rule is stored with the confirmation it claims.
MutAdded(rules, c) ==
    rules \cup {[id |-> c.id, content |-> c.content, confirmed |-> c.claim]}

\* add_rule: the rule is stored unconfirmed whatever it says.
Added(rules, c) ==
    rules \cup {[id |-> c.id, content |-> c.content, confirmed |-> FALSE]}

Confirmed(rules, c) ==
    {[r EXCEPT !.confirmed = r.confirmed \/ r.id = c.id] : r \in rules}

Removed(rules, c) == {r \in rules : r.id # c.id}

\* The record maps an id to the digest of the rule as it was read.
Recorded(rules, c) ==
    Removed(rules, c) \cup {[id |-> c.id, content |-> c.content, confirmed |-> TRUE]}

\* What command c makes of the rules it has read.
Edited(rules, c) ==
    CASE c.op = "add"     -> Added(rules, c)
      [] c.op = "confirm" -> Confirmed(rules, c)
      [] c.op = "remove"  -> Removed(rules, c)
      [] OTHER            -> Recorded(rules, c)

\* add_rule refuses an id the ledger has (parse_ledger in write_document),
\* confirm_rule and remove_rule one it has not (_index).
Accepts(rules, c) ==
    /\ c.op = "add" => c.id \notin Ids(rules)
    /\ c.op \in {"confirm", "remove"} => c.id \in Ids(rules)

-----------------------------------------------------------------------------
Idle == "idle"
Busy(c) == cmd[c].pc # Idle
Goto(c, pc) == cmd' = [cmd EXCEPT ![c].pc = pc]

\* A process that runs no command, and what remains of one that has ended.
Rest == [pc |-> Idle, op |-> "remove", id |-> NoRule, content |-> NoRule,
         claim |-> FALSE, rules |-> {}, handle |-> "none", shared |-> FALSE]
Ends(c) == cmd' = [cmd EXCEPT ![c] = Rest]

\* Process d runs a command on the file that op edits.
OnSameFile(d, op) == Busy(d) /\ FileOf(cmd[d].op) = FileOf(op)
Shares(c, op) == \E d \in Commands \ {c} : OnSameFile(d, op)

Init ==
    /\ path = [f \in File |-> Absent]
    /\ tmp = [f \in File |-> Absent]
    /\ project \in [Id -> Content \cup {NoRule}]
    /\ cmd = [c \in Commands |-> Rest]
    /\ seen = {} /\ vouched = {} /\ approved = {}
    /\ begun = 0 /\ pulls = 0

\* add_rule is given a rule, which may claim to be confirmed; the others an id.
Begin(c) ==
    /\ ~ Busy(c)
    /\ begun < MaxCommands
    /\ \E op \in {"add", "confirm", "remove", "record"}, i \in Id,
          x \in Content \cup {NoRule}, claim \in BOOLEAN :
        /\ IF op = "add" THEN x # NoRule ELSE x = NoRule /\ ~ claim
        /\ cmd' = [d \in Commands |->
             IF d = c
             THEN [pc |-> IF op = "record" THEN "project" ELSE "read", op |-> op,
                   id |-> i, content |-> x, claim |-> claim, rules |-> {},
                   handle |-> "none", shared |-> Shares(c, op)]
             ELSE IF OnSameFile(d, op) THEN [cmd[d] EXCEPT !.shared = TRUE]
             ELSE cmd[d]]
    /\ begun' = begun + 1
    /\ UNCHANGED <<disk, loader, project, pulls, approved>>

\* confirm_project_rule: the rule in the project ledger is what is approved.
ReadProject(c) ==
    /\ cmd[c].pc = "project"
    /\ LET x == project[cmd[c].id] IN
        IF x = NoRule
        THEN Ends(c) /\ UNCHANGED approved
        ELSE /\ cmd' = [cmd EXCEPT ![c].pc = "read", ![c].content = x]
             /\ approved' = approved \cup
                  {[file |-> "record", id |-> cmd[c].id, content |-> x]}
    /\ UNCHANGED <<disk, loader, world>>

\* read_document or _read_confirmed, the edit, and its validation.
Read(c) ==
    LET doc == path[FileOf(cmd[c].op)] IN
    /\ cmd[c].pc = "read"
    /\ IF Readable(doc) /\ Accepts(doc.rules, cmd[c])
       THEN cmd' = [cmd EXCEPT ![c].pc = "open",
                               ![c].rules = Edited(doc.rules, cmd[c])]
       ELSE Ends(c)
    /\ approved' = approved \cup
         {[file |-> "ledger", id |-> r.id, content |-> r.content] :
            r \in {r \in doc.rules : cmd[c].op = "confirm" /\ r.id = cmd[c].id}}
    /\ UNCHANGED <<disk, loader, world>>

\* Mutant: the file is opened under its own name.
MutOpenTmp(c) ==
    LET f == FileOf(cmd[c].op) IN
    /\ cmd[c].pc = "open"
    /\ cmd' = [cmd EXCEPT ![c].pc = "write", ![c].handle = "path"]
    /\ path' = [path EXCEPT ![f] = Empty]
    /\ UNCHANGED <<tmp, loader, world, approved>>

\* write_text opens the temporary file; one that is there is cut to nothing,
\* for whoever has it open as well.
OpenTmp(c) ==
    LET f == FileOf(cmd[c].op) IN
    /\ cmd[c].pc = "open"
    /\ cmd' = [cmd EXCEPT ![c].pc = "write", ![c].handle = "tmp"]
    /\ tmp' = [tmp EXCEPT ![f] = Empty]
    /\ UNCHANGED <<path, loader, world, approved>>

\* Text written from its beginning over what is there leaves the rest of that,
\* when it is longer.
Landed(old, new) == IF old = Empty THEN {new} ELSE {new, Torn}

\* What the file a command has open holds.
Held(c) ==
    LET f == FileOf(cmd[c].op) IN IF cmd[c].handle = "tmp" THEN tmp[f] ELSE path[f]

\* That file comes to hold doc, under the name it has now.
Lands(c, doc) ==
    LET f == FileOf(cmd[c].op) IN
    CASE cmd[c].handle = "tmp"  -> tmp' = [tmp EXCEPT ![f] = doc] /\ UNCHANGED path
      [] cmd[c].handle = "path" -> path' = [path EXCEPT ![f] = doc] /\ UNCHANGED tmp
      [] OTHER                  -> UNCHANGED disk

Write(c) ==
    /\ cmd[c].pc = "write"
    /\ \E doc \in Landed(Held(c), Whole(cmd[c].rules)) : Lands(c, doc)
    /\ Goto(c, "replace")
    /\ UNCHANGED <<loader, world, approved>>

\* The process dies in the write, or the disk is full.
CutShort(c) ==
    /\ cmd[c].pc = "write"
    /\ Lands(c, Torn)
    /\ Ends(c)
    /\ UNCHANGED <<loader, world, approved>>

\* Where the open file of another command is after a rename over file f.
Moved(d, f) ==
    IF cmd[d].pc # "write" \/ FileOf(cmd[d].op) # f THEN cmd[d].handle
    ELSE CASE cmd[d].handle = "tmp"  -> "path"
           [] cmd[d].handle = "path" -> "gone"
           [] OTHER                  -> cmd[d].handle

\* os.replace: whatever the temporary file holds now becomes the file; when
\* another command has renamed it the call fails.
Replace(c) ==
    LET f == FileOf(cmd[c].op) IN
    /\ cmd[c].pc = "replace"
    /\ IF tmp[f] = Absent
       THEN Ends(c) /\ UNCHANGED disk
       ELSE /\ path' = [path EXCEPT ![f] = tmp[f]]
            /\ tmp' = [tmp EXCEPT ![f] = Absent]
            /\ cmd' = [d \in Commands |->
                 IF d = c THEN Rest
                          ELSE [cmd[d] EXCEPT !.handle = Moved(d, f)]]
    /\ UNCHANGED <<loader, world, approved>>

\* The process dies between two steps; its temporary file is left.
Die(c) ==
    /\ Busy(c)
    /\ Ends(c)
    /\ UNCHANGED <<disk, loader, world, approved>>

-----------------------------------------------------------------------------
\* load_file of the user ledger, which is one read: the rules marked confirmed.
LedgerVouches(doc) ==
    {[file |-> "ledger", id |-> r.id, content |-> r.content] :
       r \in {r \in doc.rules : r.confirmed}}

\* _load_project: the ledger of the project first ...
LoadProject ==
    /\ seen = {}
    /\ seen' = {[id |-> i, content |-> project[i]] :
                  i \in {i \in Id : project[i] # NoRule}}
    /\ vouched' = {}
    /\ UNCHANGED <<disk, cmd, world, approved>>

\* The record vouches for a rule when it has the digest of its content.
Vouches(record, s) == \E r \in record : r.id = s.id /\ r.content = s.content

\* ... then the record; one that cannot be read fails the source.
LoadRecord ==
    /\ seen # {}
    /\ seen' = {}
    /\ vouched' = {[file |-> "record", id |-> s.id, content |-> s.content] :
                    s \in {s \in seen : Vouches(path["record"].rules, s)}}
    /\ UNCHANGED <<disk, cmd, world, approved>>

\* The repository changes a rule of the project ledger.
Pull ==
    /\ pulls < MaxPulls
    /\ \E i \in Id, x \in Content \cup {NoRule} :
        /\ x # project[i]
        /\ project' = [project EXCEPT ![i] = x]
    /\ pulls' = pulls + 1
    /\ UNCHANGED <<disk, cmd, loader, begun, approved>>

Command(c) ==
    \/ Begin(c) \/ ReadProject(c) \/ Read(c) \/ OpenTmp(c)
    \/ Write(c) \/ CutShort(c) \/ Replace(c) \/ Die(c)

Next ==
    \/ \E c \in Commands : Command(c)
    \/ LoadProject \/ LoadRecord
    \/ Pull

Spec == Init /\ [][Next]_vars

-----------------------------------------------------------------------------
Cmd == [pc : {Idle, "project", "read", "open", "write", "replace"},
        op : {"add", "confirm", "remove", "record"},
        id : Id \cup {NoRule}, content : Content \cup {NoRule},
        claim : BOOLEAN, rules : SUBSET Entry,
        handle : {"none", "tmp", "path", "gone"}, shared : BOOLEAN]

\* Command c has been given, or has read, what a rule says.
SaysWhat(c) ==
    Busy(c) /\ (cmd[c].op = "add" \/ (cmd[c].op = "record" /\ cmd[c].pc # "project"))

OneEach(rules) == \A r, s \in rules : r.id = s.id => r = s

\* The types, and: no file and no command's edit has two rules with one id,
\* which parse_ledger would refuse to load.
TypeOK ==
    /\ path \in [File -> Doc]
    /\ tmp \in [File -> Doc]
    /\ project \in [Id -> Content \cup {NoRule}]
    /\ cmd \in [Commands -> Cmd]
    /\ \A c \in Commands : Busy(c) => cmd[c].id \in Id
    /\ \A c \in Commands : SaysWhat(c) => cmd[c].content \in Content
    /\ seen \in SUBSET [id : Id, content : Content]
    /\ vouched \in SUBSET Said
    /\ approved \in SUBSET Said
    /\ begun \in 0..MaxCommands /\ pulls \in 0..MaxPulls
    /\ \A f \in File : OneEach(path[f].rules) /\ OneEach(tmp[f].rules)
    /\ \A c \in Commands : OneEach(cmd[c].rules)

\* A rule a load takes for confirmed says what it said when a confirm command
\* was run on it, however commands, crashes, loads and changes of the
\* repository are interleaved (_load_project, confirm_rule, add_rule).
ApprovedOnly == LedgerVouches(path["ledger"]) \cup vouched \subseteq approved

\* A file changes only when a command renames its edit over it; a command that
\* had the file to itself from beginning to end replaces what is there with
\* its edit of exactly that, in one step, and one that dies on its way changes
\* nothing, whatever temporary files earlier commands have left (_write_json).
AtomicAlone ==
    [][\A f \in File : path'[f] # path[f] =>
         \E c \in Commands :
            /\ Busy(c) /\ FileOf(cmd[c].op) = f
            /\ \/ cmd[c].shared
               \/ path'[f] = Whole(Edited(path[f].rules, cmd[c]))]_vars
=============================================================================
