-------------------------- MODULE LedgerStoreProofs --------------------------
(***************************************************************************)
(* What is proved of the ledger store, for any commands, ids and contents: *)
(* its types, that only approved content is vouched for, and that a        *)
(* command with a file to itself edits exactly what is there, in one step. *)
(***************************************************************************)
EXTENDS LedgerStore, Sources, TLAPS

-----------------------------------------------------------------------------
(* Types *)

\* A document no reader refuses, and a command with what it has been given.
GoodDoc(doc) == doc \in Doc /\ OneEach(doc.rules)
GoodCmd(r) ==
    /\ r \in Cmd
    /\ OneEach(r.rules)
    /\ r.pc # Idle => r.id \in Id
    /\ r.pc # Idle /\ (r.op = "add" \/ (r.op = "record" /\ r.pc # "project"))
         => r.content \in Content

\* TypeOK, part by part and file by file.
Types ==
    /\ DOMAIN path = File /\ path = [f \in File |-> path[f]]
    /\ DOMAIN tmp = File /\ tmp = [f \in File |-> tmp[f]]
    /\ \A f \in File : GoodDoc(path[f]) /\ GoodDoc(tmp[f])
    /\ cmd = [c \in Commands |-> cmd[c]]
    /\ \A c \in Commands : GoodCmd(cmd[c])
    /\ project \in [Id -> Content \cup {NoRule}]
    /\ seen \in SUBSET [id : Id, content : Content]
    /\ vouched \in SUBSET Said
    /\ approved \in SUBSET Said
    /\ begun \in 0..MaxCommands /\ pulls \in 0..MaxPulls

\* The same formula in two forms.
LEMMA TypesAreTypeOK == Types => TypeOK
  BY DEF Types, TypeOK, GoodDoc, GoodCmd, Busy, SaysWhat

LEMMA FixedDocs ==
    /\ GoodDoc(Absent) /\ GoodDoc(Empty) /\ GoodDoc(Torn)
    /\ \A rules \in SUBSET Entry : OneEach(rules) => GoodDoc(Whole(rules))
  BY DEF GoodDoc, Doc, Absent, Empty, Torn, Whole, OneEach

LEMMA RestIsGood == GoodCmd(Rest)
  BY DEF GoodCmd, Cmd, Rest, Idle, OneEach

\* The fields of a document and of a command.
LEMMA DocFields ==
    ASSUME NEW doc, GoodDoc(doc)
    PROVE  doc.rules \in SUBSET Entry /\ OneEach(doc.rules)
  BY DEF GoodDoc, Doc

LEMMA CmdFields ==
    ASSUME NEW r, GoodCmd(r)
    PROVE  /\ r.op \in {"add", "confirm", "remove", "record"}
           /\ r.rules \in SUBSET Entry /\ OneEach(r.rules)
           /\ FileOf(r.op) \in File
  BY DEF GoodCmd, Cmd, FileOf, File

\* A rule with an id of its own can be added.
LEMMA PlusOne ==
    ASSUME NEW rules \in SUBSET Entry, OneEach(rules),
           NEW e \in Entry, e.id \notin Ids(rules)
    PROVE  rules \cup {e} \in SUBSET Entry /\ OneEach(rules \cup {e})
<1>1. rules \cup {e} \in SUBSET Entry
  OBVIOUS
<1>2. ASSUME NEW a \in rules \cup {e}, NEW b \in rules \cup {e}, a.id = b.id
      PROVE  a = b
  BY <1>2 DEF OneEach, Ids
<1> QED
  BY <1>1, <1>2 DEF OneEach

\* An edit that is accepted leaves one rule for each id.
LEMMA EditedIsGood ==
    ASSUME NEW rules \in SUBSET Entry, OneEach(rules),
           NEW r, GoodCmd(r), r.pc = "read", Accepts(rules, r)
    PROVE  Edited(rules, r) \in SUBSET Entry /\ OneEach(Edited(rules, r))
<1>1. r.op \in {"add", "confirm", "remove", "record"} /\ r.id \in Id
  BY DEF GoodCmd, Cmd, Idle
<1>2. CASE r.op = "add"
  <2>1. r.content \in Content
    BY <1>2 DEF GoodCmd, Idle
  <2>2. r.id \notin Ids(rules)
    BY <1>2 DEF Accepts
  <2>3. Edited(rules, r) = Added(rules, r)
    BY <1>2 DEF Edited
  <2> DEFINE e == [id |-> r.id, content |-> r.content, confirmed |-> FALSE]
  <2>4. e \in Entry /\ e.id = r.id
    BY <1>1, <2>1 DEF Entry
  <2>5. Edited(rules, r) = rules \cup {e}
    BY <2>3 DEF Added
  <2> HIDE DEF e
  <2> QED
    BY <2>2, <2>4, <2>5, PlusOne
<1>3. CASE r.op = "confirm"
  <2>1. Edited(rules, r) = Confirmed(rules, r)
    BY <1>3 DEF Edited
  <2>2. ASSUME NEW s \in rules
        PROVE  /\ [s EXCEPT !.confirmed = s.confirmed \/ s.id = r.id] \in Entry
               /\ [s EXCEPT !.confirmed = s.confirmed \/ s.id = r.id].id = s.id
    BY DEF Entry
  <2> DEFINE mark(s) == [s EXCEPT !.confirmed = s.confirmed \/ s.id = r.id]
  <2>3. Edited(rules, r) = {mark(s) : s \in rules}
    BY <2>1 DEF Confirmed
  <2>4. \A s \in rules : mark(s) \in Entry /\ mark(s).id = s.id
    BY <2>2
  <2> HIDE DEF mark
  <2>5. Edited(rules, r) \in SUBSET Entry
    BY <2>3, <2>4
  <2>6. ASSUME NEW a \in Edited(rules, r), NEW b \in Edited(rules, r), a.id = b.id
        PROVE  a = b
    <3>1. PICK s \in rules : a = mark(s)
      BY <2>3
    <3>2. PICK t \in rules : b = mark(t)
      BY <2>3
    <3>3. s.id = t.id
      BY <2>4, <2>6, <3>1, <3>2
    <3>4. s = t
      BY <3>3 DEF OneEach
    <3> QED
      BY <3>1, <3>2, <3>4
  <2> QED
    BY <2>5, <2>6 DEF OneEach
<1>4. CASE r.op = "remove"
  BY <1>4 DEF Edited, Removed, OneEach
<1>5. CASE r.op = "record"
  <2>1. r.content \in Content
    BY <1>5 DEF GoodCmd, Idle
  <2>2. Edited(rules, r) = Recorded(rules, r)
    BY <1>5 DEF Edited
  <2> DEFINE e == [id |-> r.id, content |-> r.content, confirmed |-> TRUE]
  <2>3. e \in Entry /\ e.id = r.id
    BY <1>1, <2>1 DEF Entry
  <2>4. Edited(rules, r) = Removed(rules, r) \cup {e}
    BY <2>2 DEF Recorded
  <2>5. /\ Removed(rules, r) \in SUBSET Entry /\ OneEach(Removed(rules, r))
        /\ r.id \notin Ids(Removed(rules, r))
    BY DEF Removed, OneEach, Ids
  <2> HIDE DEF e
  <2> QED
    BY <2>3, <2>4, <2>5, PlusOne
<1> QED
  BY <1>1, <1>2, <1>3, <1>4, <1>5

\* A step that changes a command, one file or one temporary file, each to a
\* good one, keeps them all good.
LEMMA OneDoc ==
    ASSUME NEW old, DOMAIN old = File, old = [f \in File |-> old[f]],
           \A f \in File : GoodDoc(old[f]),
           NEW f \in File, NEW doc, GoodDoc(doc),
           NEW new, new = [old EXCEPT ![f] = doc]
    PROVE  /\ DOMAIN new = File /\ new = [g \in File |-> new[g]]
           /\ \A g \in File : GoodDoc(new[g])
  OBVIOUS

LEMMA OneCmd ==
    ASSUME Types, NEW c \in Commands, NEW r, GoodCmd(r), cmd' = [cmd EXCEPT ![c] = r]
    PROVE  /\ cmd' = [d \in Commands |-> cmd'[d]]
           /\ \A d \in Commands : GoodCmd(cmd'[d])
  BY DEF Types

\* What an open file comes to hold.
LEMMA LandsIsGood ==
    ASSUME Types, NEW c \in Commands, NEW doc, GoodDoc(doc), Lands(c, doc)
    PROVE  /\ DOMAIN path' = File /\ path' = [f \in File |-> path'[f]]
           /\ DOMAIN tmp' = File /\ tmp' = [f \in File |-> tmp'[f]]
           /\ \A f \in File : GoodDoc(path'[f]) /\ GoodDoc(tmp'[f])
<1> DEFINE f == FileOf(cmd[c].op)
<1>1. f \in File
  BY CmdFields DEF Types
<1>2. CASE cmd[c].handle = "tmp"
  <2>1. tmp' = [tmp EXCEPT ![f] = doc] /\ path' = path
    BY <1>2 DEF Lands
  <2> HIDE DEF f
  <2>2. /\ DOMAIN tmp' = File /\ tmp' = [g \in File |-> tmp'[g]]
        /\ \A g \in File : GoodDoc(tmp'[g])
    BY <1>1, <2>1, OneDoc DEF Types
  <2> QED
    BY <2>1, <2>2 DEF Types
<1>3. CASE cmd[c].handle = "path"
  <2>1. path' = [path EXCEPT ![f] = doc] /\ tmp' = tmp
    BY <1>3 DEF Lands
  <2> HIDE DEF f
  <2>2. /\ DOMAIN path' = File /\ path' = [g \in File |-> path'[g]]
        /\ \A g \in File : GoodDoc(path'[g])
    BY <1>1, <2>1, OneDoc DEF Types
  <2> QED
    BY <2>1, <2>2 DEF Types
<1>4. CASE cmd[c].handle \notin {"tmp", "path"}
  BY <1>4 DEF Lands, disk, Types
<1> QED
  BY <1>2, <1>3, <1>4

\* The types are inductive, action by action.
LEMMA TypesInit == Init => Types
<1> SUFFICES ASSUME Init PROVE Types
  OBVIOUS
<1>1. \A f \in File : path[f] = Absent /\ tmp[f] = Absent
  BY DEF Init
<1>2. \A c \in Commands : cmd[c] = Rest
  BY DEF Init
<1>3. 0 \in 0..MaxCommands /\ 0 \in 0..MaxPulls
  BY StoreAssumption
<1> QED
  BY <1>1, <1>2, <1>3, FixedDocs, RestIsGood DEF Init, Types

LEMMA BeginTypes ==
    ASSUME Types, NEW c \in Commands, Begin(c) PROVE Types'
<1>1. PICK op \in {"add", "confirm", "remove", "record"}, i \in Id,
           x \in Content \cup {NoRule}, claim \in BOOLEAN :
        /\ IF op = "add" THEN x # NoRule ELSE x = NoRule /\ ~ claim
        /\ cmd' = [d \in Commands |->
             IF d = c
             THEN [pc |-> IF op = "record" THEN "project" ELSE "read", op |-> op,
                   id |-> i, content |-> x, claim |-> claim, rules |-> {},
                   handle |-> "none", shared |-> Shares(c, op)]
             ELSE IF OnSameFile(d, op) THEN [cmd[d] EXCEPT !.shared = TRUE]
             ELSE cmd[d]]
  BY DEF Begin
<1>2. GoodCmd(cmd'[c])
  <2>1. Shares(c, op) \in BOOLEAN
    BY DEF Shares
  <2>2. cmd'[c] =
          [pc |-> IF op = "record" THEN "project" ELSE "read", op |-> op,
           id |-> i, content |-> x, claim |-> claim, rules |-> {},
           handle |-> "none", shared |-> Shares(c, op)]
    BY <1>1
  <2> QED
    BY <1>1, <2>1, <2>2 DEF GoodCmd, Cmd, Idle, OneEach
<1>3. ASSUME NEW d \in Commands \ {c} PROVE GoodCmd(cmd'[d])
  <2>1. cmd'[d] = [cmd[d] EXCEPT !.shared = TRUE] \/ cmd'[d] = cmd[d]
    BY <1>1
  <2>2. GoodCmd(cmd[d])
    BY DEF Types
  <2> QED
    BY <2>1, <2>2 DEF GoodCmd, Cmd
<1>4. begun' \in 0..MaxCommands
  BY StoreAssumption DEF Begin, Types
<1>5. /\ cmd' = [d \in Commands |-> cmd'[d]]
      /\ \A d \in Commands : GoodCmd(cmd'[d])
  BY <1>1, <1>2, <1>3
<1> QED
  BY <1>4, <1>5 DEF Begin, Types, disk, loader

LEMMA ReadProjectTypes ==
    ASSUME Types, NEW c \in Commands, ReadProject(c) PROVE Types'
<1> DEFINE x == project[cmd[c].id]
<1>1. GoodCmd(cmd[c]) /\ cmd[c].pc = "project"
  BY DEF ReadProject, Types
<1>2. cmd[c].id \in Id
  BY <1>1 DEF GoodCmd, Idle
<1>3. UNCHANGED <<path, tmp, project, seen, vouched, begun, pulls>>
  BY DEF ReadProject, disk, loader, world
<1>4. CASE x = NoRule
  <2>1. cmd' = [cmd EXCEPT ![c] = Rest] /\ approved' = approved
    BY <1>4 DEF ReadProject, Ends
  <2>2. /\ cmd' = [d \in Commands |-> cmd'[d]]
        /\ \A d \in Commands : GoodCmd(cmd'[d])
    BY <2>1, RestIsGood, OneCmd
  <2> QED
    BY <1>3, <2>1, <2>2 DEF Types
<1>5. CASE x # NoRule
  <2>1. x \in Content
    BY <1>2, <1>5 DEF Types
  <2>2. /\ cmd' = [cmd EXCEPT ![c].pc = "read", ![c].content = x]
        /\ approved' = approved \cup {[file |-> "record", id |-> cmd[c].id, content |-> x]}
    BY <1>5 DEF ReadProject
  <2>3. cmd' = [cmd EXCEPT ![c] = [cmd[c] EXCEPT !.pc = "read", !.content = x]]
    BY <2>2 DEF Types
  <2> HIDE DEF x
  <2>4. GoodCmd([cmd[c] EXCEPT !.pc = "read", !.content = x])
    BY <1>1, <1>2, <2>1 DEF GoodCmd, Cmd, Idle
  <2>5. /\ cmd' = [d \in Commands |-> cmd'[d]]
        /\ \A d \in Commands : GoodCmd(cmd'[d])
    BY <2>3, <2>4, OneCmd
  <2>6. [file |-> "record", id |-> cmd[c].id, content |-> x] \in Said
    BY <1>2, <2>1 DEF Said, File
  <2>7. approved' \in SUBSET Said
    BY <2>2, <2>6 DEF Types
  <2> QED
    BY <1>3, <2>5, <2>7 DEF Types
<1> QED
  BY <1>4, <1>5

LEMMA ReadTypes ==
    ASSUME Types, NEW c \in Commands, Read(c) PROVE Types'
<1> DEFINE doc == path[FileOf(cmd[c].op)]
<1>1. GoodCmd(cmd[c]) /\ cmd[c].pc = "read"
  BY DEF Read, Types
<1>2. doc.rules \in SUBSET Entry /\ OneEach(doc.rules)
  BY <1>1, CmdFields, DocFields DEF Types
<1>3. UNCHANGED <<path, tmp, project, seen, vouched, begun, pulls>>
  BY DEF Read, disk, loader, world
<1>4. approved' \in SUBSET Said
  <2>1. \A r \in Entry : [file |-> "ledger", id |-> r.id, content |-> r.content] \in Said
    BY DEF Said, Entry, File
  <2>2. approved' = approved \cup
         {[file |-> "ledger", id |-> r.id, content |-> r.content] :
            r \in {r \in doc.rules : cmd[c].op = "confirm" /\ r.id = cmd[c].id}}
    BY DEF Read
  <2> QED
    BY <1>2, <2>1, <2>2 DEF Types
<1>5. /\ cmd' = [d \in Commands |-> cmd'[d]]
      /\ \A d \in Commands : GoodCmd(cmd'[d])
  <2>1. CASE Readable(doc) /\ Accepts(doc.rules, cmd[c])
    <3> DEFINE new == Edited(doc.rules, cmd[c])
    <3>1. new \in SUBSET Entry /\ OneEach(new)
      BY <1>1, <1>2, <2>1, EditedIsGood
    <3>2. cmd' = [cmd EXCEPT ![c].pc = "open", ![c].rules = new]
      BY <2>1 DEF Read
    <3> HIDE DEF new
    <3>3. cmd' = [cmd EXCEPT ![c] = [cmd[c] EXCEPT !.pc = "open", !.rules = new]]
      BY <3>2 DEF Types
    <3>4. GoodCmd([cmd[c] EXCEPT !.pc = "open", !.rules = new])
      BY <1>1, <3>1 DEF GoodCmd, Cmd, Idle
    <3> QED
      BY <3>3, <3>4, OneCmd
  <2>2. CASE ~ (Readable(doc) /\ Accepts(doc.rules, cmd[c]))
    BY <2>2, RestIsGood, OneCmd DEF Read, Ends
  <2> QED
    BY <2>1, <2>2
<1> QED
  BY <1>3, <1>4, <1>5 DEF Types

LEMMA OpenTmpTypes ==
    ASSUME Types, NEW c \in Commands, OpenTmp(c) PROVE Types'
<1> DEFINE f == FileOf(cmd[c].op)
<1>1. GoodCmd(cmd[c]) /\ cmd[c].pc = "open" /\ f \in File
  BY CmdFields DEF OpenTmp, Types
<1>2. cmd' = [cmd EXCEPT ![c] = [cmd[c] EXCEPT !.pc = "write", !.handle = "tmp"]]
  BY DEF OpenTmp, Types
<1>3. GoodCmd([cmd[c] EXCEPT !.pc = "write", !.handle = "tmp"])
  BY <1>1 DEF GoodCmd, Cmd, Idle
<1>4. /\ cmd' = [d \in Commands |-> cmd'[d]]
      /\ \A d \in Commands : GoodCmd(cmd'[d])
  BY <1>2, <1>3, OneCmd
<1>5. tmp' = [tmp EXCEPT ![f] = Empty]
  BY DEF OpenTmp
<1> HIDE DEF f
<1>6. /\ DOMAIN tmp' = File /\ tmp' = [g \in File |-> tmp'[g]]
      /\ \A g \in File : GoodDoc(tmp'[g])
  BY <1>1, <1>5, FixedDocs, OneDoc DEF Types
<1> QED
  BY <1>4, <1>6 DEF OpenTmp, Types, loader, world

LEMMA WriteTypes ==
    ASSUME Types, NEW c \in Commands, Write(c) PROVE Types'
<1>1. GoodCmd(cmd[c]) /\ cmd[c].pc = "write"
  BY DEF Write, Types
<1>2. PICK doc \in Landed(Held(c), Whole(cmd[c].rules)) : Lands(c, doc)
  BY DEF Write
<1>3. GoodDoc(doc)
  BY <1>1, <1>2, CmdFields, FixedDocs DEF Landed
<1>4. /\ cmd' = [cmd EXCEPT ![c] = [cmd[c] EXCEPT !.pc = "replace"]]
      /\ GoodCmd([cmd[c] EXCEPT !.pc = "replace"])
  BY <1>1 DEF Write, Goto, Types, GoodCmd, Cmd, Idle
<1>5. /\ cmd' = [d \in Commands |-> cmd'[d]]
      /\ \A d \in Commands : GoodCmd(cmd'[d])
  BY <1>4, OneCmd
<1> QED
  BY <1>2, <1>3, <1>5, LandsIsGood DEF Write, Types, loader, world

LEMMA CutShortTypes ==
    ASSUME Types, NEW c \in Commands, CutShort(c) PROVE Types'
<1>1. Lands(c, Torn) /\ cmd' = [cmd EXCEPT ![c] = Rest]
  BY DEF CutShort, Ends
<1>2. /\ cmd' = [d \in Commands |-> cmd'[d]]
      /\ \A d \in Commands : GoodCmd(cmd'[d])
  BY <1>1, RestIsGood, OneCmd
<1> QED
  BY <1>1, <1>2, FixedDocs, LandsIsGood DEF CutShort, Types, loader, world

LEMMA ReplaceTypes ==
    ASSUME Types, NEW c \in Commands, Replace(c) PROVE Types'
<1> DEFINE f == FileOf(cmd[c].op)
<1>1. f \in File
  BY CmdFields DEF Types
<1>2. UNCHANGED <<project, seen, vouched, begun, pulls, approved>>
  BY DEF Replace, loader, world
<1>3. CASE tmp[f] = Absent
  <2>1. cmd' = [cmd EXCEPT ![c] = Rest] /\ UNCHANGED <<path, tmp>>
    BY <1>3 DEF Replace, Ends, disk
  <2>2. /\ cmd' = [d \in Commands |-> cmd'[d]]
        /\ \A d \in Commands : GoodCmd(cmd'[d])
    BY <2>1, RestIsGood, OneCmd
  <2> QED
    BY <1>2, <2>1, <2>2 DEF Types
<1>4. CASE tmp[f] # Absent
  <2>1. /\ path' = [path EXCEPT ![f] = tmp[f]]
        /\ tmp' = [tmp EXCEPT ![f] = Absent]
        /\ cmd' = [d \in Commands |->
             IF d = c THEN Rest ELSE [cmd[d] EXCEPT !.handle = Moved(d, f)]]
    BY <1>4 DEF Replace
  <2> HIDE DEF f
  <2>2. /\ DOMAIN path' = File /\ path' = [g \in File |-> path'[g]]
        /\ \A g \in File : GoodDoc(path'[g])
    BY <1>1, <2>1, OneDoc DEF Types
  <2>3. /\ DOMAIN tmp' = File /\ tmp' = [g \in File |-> tmp'[g]]
        /\ \A g \in File : GoodDoc(tmp'[g])
    BY <1>1, <2>1, FixedDocs, OneDoc DEF Types
  <2>4. ASSUME NEW d \in Commands PROVE GoodCmd(cmd'[d])
    <3>1. CASE d = c
      BY <2>1, <3>1, RestIsGood
    <3>2. CASE d # c
      <4>1. cmd'[d] = [cmd[d] EXCEPT !.handle = Moved(d, f)]
        BY <2>1, <3>2
      <4>2. GoodCmd(cmd[d])
        BY DEF Types
      <4>3. Moved(d, f) \in {"none", "tmp", "path", "gone"}
        BY <4>2 DEF Moved, GoodCmd, Cmd
      <4> QED
        BY <4>1, <4>2, <4>3 DEF GoodCmd, Cmd
    <3> QED
      BY <3>1, <3>2
  <2>5. cmd' = [d \in Commands |-> cmd'[d]]
    BY <2>1
  <2> QED
    BY <1>2, <2>2, <2>3, <2>4, <2>5 DEF Types
<1> QED
  BY <1>3, <1>4

LEMMA OtherTypes ==
    ASSUME Types
    PROVE  /\ \A c \in Commands : Die(c) => Types'
           /\ LoadProject \/ LoadRecord \/ Pull => Types'
<1>1. ASSUME NEW c \in Commands, Die(c) PROVE Types'
  <2>1. /\ cmd' = [d \in Commands |-> cmd'[d]]
        /\ \A d \in Commands : GoodCmd(cmd'[d])
    BY <1>1, RestIsGood, OneCmd DEF Die, Ends
  <2> QED
    BY <1>1, <2>1 DEF Die, Types, disk, loader, world
<1>2. ASSUME LoadProject PROVE Types'
  <2>1. seen' \in SUBSET [id : Id, content : Content]
    BY <1>2 DEF LoadProject, Types
  <2> QED
    BY <1>2, <2>1 DEF LoadProject, Types, disk, world
<1>3. ASSUME LoadRecord PROVE Types'
  <2>1. vouched' \in SUBSET Said
    BY <1>3 DEF LoadRecord, Types, Said, File
  <2> QED
    BY <1>3, <2>1 DEF LoadRecord, Types, disk, world
<1>4. ASSUME Pull PROVE Types'
  <2>1. project' \in [Id -> Content \cup {NoRule}]
    BY <1>4 DEF Pull, Types
  <2>2. pulls' \in 0..MaxPulls
    BY <1>4, StoreAssumption DEF Pull, Types
  <2> QED
    BY <1>4, <2>1, <2>2 DEF Pull, Types, disk, loader
<1> QED
  BY <1>1, <1>2, <1>3, <1>4

LEMMA TypesStep == Types /\ [Next]_vars => Types'
<1> SUFFICES ASSUME Types, [Next]_vars PROVE Types'
  OBVIOUS
<1>1. ASSUME NEW c \in Commands, Command(c) PROVE Types'
  BY <1>1, BeginTypes, ReadProjectTypes, ReadTypes, OpenTmpTypes, WriteTypes,
     CutShortTypes, ReplaceTypes, OtherTypes DEF Command
<1>2. CASE LoadProject \/ LoadRecord \/ Pull
  BY <1>2, OtherTypes
<1>3. CASE UNCHANGED vars
  BY <1>3 DEF vars, disk, loader, world, Types
<1> QED
  BY <1>1, <1>2, <1>3 DEF Next

\* Whatever the commands, the ids and the contents, the store's state has its
\* types, and no file comes to hold two rules with one id (parse_ledger).
THEOREM StoreTypeOK == Spec => []TypeOK
<1>1. Spec => []Types
  BY TypesInit, TypesStep, PTL DEF Spec
<1> QED
  BY <1>1, TypesAreTypeOK, PTL

-----------------------------------------------------------------------------
(* Only approved content is vouched for *)

\* Every confirmed rule of a ledger, and every rule of the record, is in the
\* set A of what confirm commands have found.
Backed(f, rules, A) ==
    \A r \in rules : f = "record" \/ r.confirmed
        => [file |-> f, id |-> r.id, content |-> r.content] \in A

\* The strengthening: what temporary files and commands hold is backed too.
Backing ==
    /\ \A f \in File : Backed(f, path[f].rules, approved)
                       /\ Backed(f, tmp[f].rules, approved)
    /\ \A c \in Commands : Backed(FileOf(cmd[c].op), cmd[c].rules, approved)
    /\ \A c \in Commands : cmd[c].op = "record" /\ cmd[c].pc \notin {Idle, "project"}
        => [file |-> "record", id |-> cmd[c].id, content |-> cmd[c].content] \in approved
    /\ vouched \subseteq approved

LEMMA BackedMore ==
    ASSUME NEW f, NEW rules, NEW A, NEW B, Backed(f, rules, A), A \subseteq B
    PROVE  Backed(f, rules, B)
  BY DEF Backed

LEMMA NothingBacked ==
    ASSUME NEW f, NEW A
    PROVE  /\ Backed(f, {}, A) /\ Backed(f, Absent.rules, A)
           /\ Backed(f, Empty.rules, A) /\ Backed(f, Torn.rules, A)
           /\ Backed(f, Rest.rules, A)
  BY DEF Backed, Absent, Empty, Torn, Rest

LEMMA WholeRules == \A rules : Whole(rules).rules = rules
  BY DEF Whole

\* Adding stores unconfirmed, confirming approves, the record is of what was
\* read: an edit of what is backed is backed.
LEMMA EditedIsBacked ==
    ASSUME NEW rules \in SUBSET Entry, NEW r, GoodCmd(r), NEW A,
           Backed(FileOf(r.op), rules, A),
           r.op = "confirm" => \A s \in rules : s.id = r.id
               => [file |-> "ledger", id |-> s.id, content |-> s.content] \in A,
           r.op = "record"
               => [file |-> "record", id |-> r.id, content |-> r.content] \in A
    PROVE  Backed(FileOf(r.op), Edited(rules, r), A)
<1>1. r.op \in {"add", "confirm", "remove", "record"}
  BY CmdFields
<1>2. CASE r.op = "add"
  <2>1. Edited(rules, r) = rules \cup
          {[id |-> r.id, content |-> r.content, confirmed |-> FALSE]}
    BY <1>2 DEF Edited, Added
  <2> QED
    BY <1>2, <2>1 DEF Backed, FileOf
<1>3. CASE r.op = "confirm"
  <2>1. Edited(rules, r) =
          {[s EXCEPT !.confirmed = s.confirmed \/ s.id = r.id] : s \in rules}
    BY <1>3 DEF Edited, Confirmed
  <2>2. FileOf(r.op) = "ledger"
    BY <1>3 DEF FileOf
  <2>3. ASSUME NEW s \in rules,
               [s EXCEPT !.confirmed = s.confirmed \/ s.id = r.id].confirmed
        PROVE  [file |-> "ledger", id |-> s.id, content |-> s.content] \in A
    <3>1. s.confirmed \/ s.id = r.id
      BY <2>3 DEF Entry
    <3> QED
      BY <1>3, <2>2, <3>1 DEF Backed
  <2>4. \A s \in rules :
          /\ [s EXCEPT !.confirmed = s.confirmed \/ s.id = r.id].id = s.id
          /\ [s EXCEPT !.confirmed = s.confirmed \/ s.id = r.id].content = s.content
    BY DEF Entry
  <2> DEFINE mark(s) == [s EXCEPT !.confirmed = s.confirmed \/ s.id = r.id]
  <2>5. \A s \in rules : mark(s).confirmed
          => [file |-> "ledger", id |-> mark(s).id, content |-> mark(s).content] \in A
    BY <2>3, <2>4
  <2>6. Edited(rules, r) = {mark(s) : s \in rules}
    BY <2>1
  <2> HIDE DEF mark
  <2> QED
    BY <2>2, <2>5, <2>6 DEF Backed
<1>4. CASE r.op = "remove"
  BY <1>4 DEF Edited, Removed, Backed
<1>5. CASE r.op = "record"
  <2>1. Edited(rules, r) = Removed(rules, r) \cup
          {[id |-> r.id, content |-> r.content, confirmed |-> TRUE]}
    BY <1>5 DEF Edited, Recorded
  <2>2. FileOf(r.op) = "record"
    BY <1>5 DEF FileOf
  <2> QED
    BY <1>5, <2>1, <2>2 DEF Removed, Backed
<1> QED
  BY <1>1, <1>2, <1>3, <1>4, <1>5

LEMMA BackingRead ==
    ASSUME Types, Backing, NEW c \in Commands, Read(c) PROVE Backing'
<1> DEFINE f == FileOf(cmd[c].op)
           rules == path[f].rules
<1>1. GoodCmd(cmd[c]) /\ cmd[c].pc = "read" /\ f \in File
  BY CmdFields DEF Read, Types
<1>2. rules \in SUBSET Entry
  BY <1>1, DocFields DEF Types
<1>3. approved \subseteq approved' /\ UNCHANGED <<path, tmp, vouched>>
  BY DEF Read, disk, loader
<1>4. Backed(f, rules, approved')
  BY <1>1, <1>3, BackedMore DEF Backing
<1>5. cmd[c].op = "confirm" => \A s \in rules : s.id = cmd[c].id
        => [file |-> "ledger", id |-> s.id, content |-> s.content] \in approved'
  BY DEF Read
<1>6. cmd[c].op = "record"
        => [file |-> "record", id |-> cmd[c].id, content |-> cmd[c].content] \in approved'
  BY <1>1, <1>3 DEF Backing, Idle
<1>7. Backed(f, Edited(rules, cmd[c]), approved')
  BY <1>1, <1>2, <1>4, <1>5, <1>6, EditedIsBacked
<1>8. \/ cmd' = [cmd EXCEPT ![c] = Rest]
      \/ cmd' = [cmd EXCEPT ![c].pc = "open", ![c].rules = Edited(rules, cmd[c])]
  BY DEF Read, Ends
<1>9. ASSUME NEW d \in Commands
      PROVE  /\ Backed(FileOf(cmd'[d].op), cmd'[d].rules, approved')
             /\ cmd'[d].op = "record" /\ cmd'[d].pc \notin {Idle, "project"}
                => [file |-> "record", id |-> cmd'[d].id, content |-> cmd'[d].content]
                     \in approved'
  <2>1. CASE d # c
    <3>1. cmd'[d] = cmd[d]
      BY <1>8, <2>1 DEF Types
    <3> QED
      BY <1>3, <3>1, BackedMore DEF Backing
  <2>2. CASE d = c /\ cmd'[c] = Rest
    BY <2>2, NothingBacked DEF Rest, Idle
  <2>3. CASE d = c /\ cmd' = [cmd EXCEPT ![c].pc = "open",
                                         ![c].rules = Edited(rules, cmd[c])]
    <3> DEFINE new == Edited(rules, cmd[c])
    <3>1. cmd' = [cmd EXCEPT ![c].pc = "open", ![c].rules = new]
      BY <2>3
    <3> HIDE DEF new
    <3>2. cmd'[c] = [cmd[c] EXCEPT !.pc = "open", !.rules = new]
      BY <3>1 DEF Types
    <3>3. /\ cmd'[c].op = cmd[c].op /\ cmd'[c].id = cmd[c].id
          /\ cmd'[c].content = cmd[c].content /\ cmd'[c].rules = new
      BY <1>1, <3>2 DEF GoodCmd, Cmd
    <3>4. Backed(f, new, approved')
      BY <1>7 DEF new
    <3> QED
      BY <1>6, <2>3, <3>3, <3>4
  <2> QED
    BY <1>8, <2>1, <2>2, <2>3 DEF Types
<1>10. \A g \in File : Backed(g, path[g].rules, approved') /\ Backed(g, tmp[g].rules, approved')
  BY <1>3, BackedMore DEF Backing
<1> QED
  BY <1>3, <1>9, <1>10 DEF Backing

\* A step that only gives up a command or moves it on, and puts into a file or
\* a temporary file what is backed, keeps everything backed.
LEMMA BackingFrame ==
    ASSUME Backing,
           \A f \in File : \A doc \in {path'[f], tmp'[f]} :
               Backed(f, doc.rules, approved'),
           \A c \in Commands :
               \/ cmd'[c] = Rest
               \/ /\ cmd'[c].op = cmd[c].op /\ cmd'[c].id = cmd[c].id
                  /\ cmd'[c].content = cmd[c].content /\ cmd'[c].rules = cmd[c].rules
                  /\ cmd'[c].pc \notin {Idle, "project"}
                       => cmd[c].pc \notin {Idle, "project"},
           approved' = approved, vouched' = vouched
    PROVE  Backing'
<1>1. ASSUME NEW c \in Commands
      PROVE  /\ Backed(FileOf(cmd'[c].op), cmd'[c].rules, approved')
             /\ cmd'[c].op = "record" /\ cmd'[c].pc \notin {Idle, "project"}
                => [file |-> "record", id |-> cmd'[c].id, content |-> cmd'[c].content]
                     \in approved'
  <2>1. CASE cmd'[c] = Rest
    BY <2>1, NothingBacked DEF Rest, Idle
  <2>2. CASE cmd'[c] # Rest
    BY <2>2 DEF Backing
  <2> QED
    BY <2>1, <2>2
<1> QED
  BY <1>1 DEF Backing

\* What a command puts into the file it has open is backed.
LEMMA BackedLands ==
    ASSUME Types, Backing, NEW c \in Commands, NEW doc, Lands(c, doc),
           doc \in {Torn, Whole(cmd[c].rules)}
    PROVE  \A f \in File : \A d \in {path'[f], tmp'[f]} : Backed(f, d.rules, approved)
<1> DEFINE f == FileOf(cmd[c].op)
<1>1. f \in File
  BY CmdFields DEF Types
<1>2. Backed(f, doc.rules, approved)
  BY NothingBacked, WholeRules DEF Backing
<1>3. CASE cmd[c].handle = "tmp"
  <2>1. tmp' = [tmp EXCEPT ![f] = doc] /\ path' = path
    BY <1>3 DEF Lands
  <2> HIDE DEF f
  <2> QED
    BY <1>1, <1>2, <2>1 DEF Backing, Types
<1>4. CASE cmd[c].handle = "path"
  <2>1. path' = [path EXCEPT ![f] = doc] /\ tmp' = tmp
    BY <1>4 DEF Lands
  <2> HIDE DEF f
  <2> QED
    BY <1>1, <1>2, <2>1 DEF Backing, Types
<1>5. CASE cmd[c].handle \notin {"tmp", "path"}
  BY <1>5 DEF Lands, disk, Backing
<1> QED
  BY <1>3, <1>4, <1>5

LEMMA BackingCommand ==
    ASSUME Types, Backing, NEW c \in Commands, Command(c) PROVE Backing'
<1>1. ASSUME Begin(c) PROVE Backing'
  <2>1. PICK op \in {"add", "confirm", "remove", "record"}, i \in Id,
             x \in Content \cup {NoRule}, claim \in BOOLEAN :
        /\ IF op = "add" THEN x # NoRule ELSE x = NoRule /\ ~ claim
        /\ cmd' = [d \in Commands |->
             IF d = c
             THEN [pc |-> IF op = "record" THEN "project" ELSE "read", op |-> op,
                   id |-> i, content |-> x, claim |-> claim, rules |-> {},
                   handle |-> "none", shared |-> Shares(c, op)]
             ELSE IF OnSameFile(d, op) THEN [cmd[d] EXCEPT !.shared = TRUE]
             ELSE cmd[d]]
    BY <1>1 DEF Begin
  <2>2. /\ cmd'[c].rules = {}
        /\ cmd'[c].op = "record" => cmd'[c].pc = "project"
    BY <2>1
  <2>3. ASSUME NEW d \in Commands \ {c}
        PROVE  /\ cmd'[d].op = cmd[d].op /\ cmd'[d].id = cmd[d].id
               /\ cmd'[d].content = cmd[d].content /\ cmd'[d].rules = cmd[d].rules
               /\ cmd'[d].pc = cmd[d].pc
    <3>1. cmd'[d] = [cmd[d] EXCEPT !.shared = TRUE] \/ cmd'[d] = cmd[d]
      BY <2>1
    <3> QED
      BY <3>1 DEF Types, GoodCmd, Cmd
  <2>4. ASSUME NEW d \in Commands
        PROVE  /\ Backed(FileOf(cmd'[d].op), cmd'[d].rules, approved)
               /\ cmd'[d].op = "record" /\ cmd'[d].pc \notin {Idle, "project"}
                  => [file |-> "record", id |-> cmd'[d].id, content |-> cmd'[d].content]
                       \in approved
    BY <2>2, <2>3, NothingBacked DEF Backing
  <2> QED
    BY <1>1, <2>4 DEF Begin, Backing, disk, loader
<1>2. ASSUME ReadProject(c) PROVE Backing'
  <2>1. approved \subseteq approved' /\ UNCHANGED <<path, tmp, vouched>>
    BY <1>2 DEF ReadProject, disk, loader
  <2>2. ASSUME NEW d \in Commands
        PROVE  /\ Backed(FileOf(cmd'[d].op), cmd'[d].rules, approved')
               /\ cmd'[d].op = "record" /\ cmd'[d].pc \notin {Idle, "project"}
                  => [file |-> "record", id |-> cmd'[d].id, content |-> cmd'[d].content]
                       \in approved'
    <3>1. CASE d # c
      <4>1. cmd'[d] = cmd[d]
        BY <1>2, <3>1 DEF ReadProject, Ends, Types
      <4> QED
        BY <2>1, <4>1, BackedMore DEF Backing
    <3>2. CASE d = c /\ cmd'[c] = Rest
      BY <3>2, NothingBacked DEF Rest, Idle
    <3>3. CASE d = c /\ cmd'[c] # Rest
      <4> DEFINE x == project[cmd[c].id]
      <4>1. /\ cmd' = [cmd EXCEPT ![c].pc = "read", ![c].content = x]
            /\ approved' = approved \cup
                 {[file |-> "record", id |-> cmd[c].id, content |-> x]}
        BY <1>2, <3>3 DEF ReadProject, Ends, Types
      <4> HIDE DEF x
      <4>2. /\ cmd'[c].op = cmd[c].op /\ cmd'[c].id = cmd[c].id
            /\ cmd'[c].content = x /\ cmd'[c].rules = cmd[c].rules
        BY <4>1 DEF Types, GoodCmd, Cmd
      <4> QED
        BY <2>1, <3>3, <4>1, <4>2, BackedMore DEF Backing
    <3> QED
      BY <3>1, <3>2, <3>3
  <2>3. \A f \in File : Backed(f, path[f].rules, approved')
                        /\ Backed(f, tmp[f].rules, approved')
    BY <2>1, BackedMore DEF Backing
  <2> QED
    BY <2>1, <2>2, <2>3 DEF Backing
<1>3. ASSUME Read(c) PROVE Backing'
  BY <1>3, BackingRead
<1>4. ASSUME OpenTmp(c) PROVE Backing'
  <2> DEFINE f == FileOf(cmd[c].op)
  <2>1. tmp' = [tmp EXCEPT ![f] = Empty] /\ path' = path /\ cmd[c].pc = "open"
    BY <1>4 DEF OpenTmp
  <2>2. \A g \in File : \A doc \in {path'[g], tmp'[g]} : Backed(g, doc.rules, approved)
    BY <2>1, NothingBacked DEF Backing, Types
  <2>3. \A d \in Commands :
          /\ cmd'[d].op = cmd[d].op /\ cmd'[d].id = cmd[d].id
          /\ cmd'[d].content = cmd[d].content /\ cmd'[d].rules = cmd[d].rules
          /\ cmd'[d].pc \notin {Idle, "project"} => cmd[d].pc \notin {Idle, "project"}
    BY <1>4, <2>1 DEF OpenTmp, Types, GoodCmd, Cmd, Idle
  <2> QED
    BY <1>4, <2>2, <2>3, BackingFrame DEF OpenTmp, loader
<1>5. ASSUME Write(c) PROVE Backing'
  <2>1. PICK doc \in Landed(Held(c), Whole(cmd[c].rules)) : Lands(c, doc)
    BY <1>5 DEF Write
  <2>2. doc \in {Torn, Whole(cmd[c].rules)}
    BY <2>1 DEF Landed
  <2>3. \A d \in Commands :
          /\ cmd'[d].op = cmd[d].op /\ cmd'[d].id = cmd[d].id
          /\ cmd'[d].content = cmd[d].content /\ cmd'[d].rules = cmd[d].rules
          /\ cmd'[d].pc \notin {Idle, "project"} => cmd[d].pc \notin {Idle, "project"}
    BY <1>5 DEF Write, Goto, Types, GoodCmd, Cmd, Idle
  <2> QED
    BY <1>5, <2>1, <2>2, <2>3, BackedLands, BackingFrame DEF Write, loader
<1>6. ASSUME CutShort(c) PROVE Backing'
  <2>1. Lands(c, Torn)
    BY <1>6 DEF CutShort
  <2>2. \A d \in Commands : cmd'[d] = Rest \/ cmd'[d] = cmd[d]
    BY <1>6 DEF CutShort, Ends, Types
  <2> QED
    BY <1>6, <2>1, <2>2, BackedLands, BackingFrame DEF CutShort, loader
<1>7. ASSUME Replace(c) PROVE Backing'
  <2> DEFINE f == FileOf(cmd[c].op)
  <2>1. f \in File
    BY CmdFields DEF Types
  <2>2. CASE tmp[f] = Absent
    <3>1. UNCHANGED <<path, tmp>> /\ cmd' = [cmd EXCEPT ![c] = Rest]
      BY <1>7, <2>2 DEF Replace, Ends, disk
    <3>2. \A g \in File : \A doc \in {path'[g], tmp'[g]} : Backed(g, doc.rules, approved)
      BY <3>1 DEF Backing
    <3>3. \A d \in Commands : cmd'[d] = Rest \/ cmd'[d] = cmd[d]
      BY <3>1 DEF Types
    <3> QED
      BY <1>7, <3>2, <3>3, BackingFrame DEF Replace, loader
  <2>3. CASE tmp[f] # Absent
    <3>1. /\ path' = [path EXCEPT ![f] = tmp[f]]
          /\ tmp' = [tmp EXCEPT ![f] = Absent]
          /\ cmd' = [d \in Commands |->
               IF d = c THEN Rest ELSE [cmd[d] EXCEPT !.handle = Moved(d, f)]]
      BY <1>7, <2>3 DEF Replace
    <3> HIDE DEF f
    <3>2. \A g \in File : \A doc \in {path'[g], tmp'[g]} : Backed(g, doc.rules, approved)
      BY <2>1, <3>1, NothingBacked DEF Backing, Types
    <3>3. ASSUME NEW d \in Commands \ {c}
          PROVE  /\ cmd'[d].op = cmd[d].op /\ cmd'[d].id = cmd[d].id
                 /\ cmd'[d].content = cmd[d].content /\ cmd'[d].rules = cmd[d].rules
                 /\ cmd'[d].pc = cmd[d].pc
      <4>1. cmd'[d] = [cmd[d] EXCEPT !.handle = Moved(d, f)]
        BY <3>1
      <4> QED
        BY <4>1 DEF Types, GoodCmd, Cmd
    <3>4. cmd'[c] = Rest
      BY <3>1
    <3> QED
      BY <1>7, <3>2, <3>3, <3>4, BackingFrame DEF Replace, loader
  <2> QED
    BY <2>2, <2>3
<1>8. ASSUME Die(c) PROVE Backing'
  <2>1. \A d \in Commands : cmd'[d] = Rest \/ cmd'[d] = cmd[d]
    BY <1>8 DEF Die, Ends, Types
  <2>2. \A g \in File : \A doc \in {path'[g], tmp'[g]} : Backed(g, doc.rules, approved)
    BY <1>8 DEF Die, Backing, disk
  <2> QED
    BY <1>8, <2>1, <2>2, BackingFrame DEF Die, loader
<1> QED
  BY <1>1, <1>2, <1>3, <1>4, <1>5, <1>6, <1>7, <1>8 DEF Command

LEMMA BackingStep == Types /\ Backing /\ [Next]_vars => Backing'
<1> SUFFICES ASSUME Types, Backing, [Next]_vars PROVE Backing'
  OBVIOUS
<1>1. ASSUME NEW c \in Commands, Command(c) PROVE Backing'
  BY <1>1, BackingCommand
<1>2. CASE LoadProject
  BY <1>2 DEF LoadProject, Backing, disk, world
<1>3. CASE LoadRecord
  <2>1. vouched' \subseteq approved
    <3>1. ASSUME NEW s \in seen, Vouches(path["record"].rules, s)
          PROVE  [file |-> "record", id |-> s.id, content |-> s.content] \in approved
      <4>1. PICK r \in path["record"].rules : r.id = s.id /\ r.content = s.content
        BY <3>1 DEF Vouches
      <4>2. Backed("record", path["record"].rules, approved)
        BY DEF Backing, File
      <4> QED
        BY <4>1, <4>2 DEF Backed
    <3>2. vouched' = {[file |-> "record", id |-> s.id, content |-> s.content] :
                        s \in {s \in seen : Vouches(path["record"].rules, s)}}
      BY <1>3 DEF LoadRecord
    <3> QED
      BY <3>1, <3>2
  <2> QED
    BY <1>3, <2>1 DEF LoadRecord, Backing, disk, world
<1>4. CASE Pull
  BY <1>4 DEF Pull, Backing, disk, loader
<1>5. CASE UNCHANGED vars
  BY <1>5 DEF vars, disk, loader, Backing
<1> QED
  BY <1>1, <1>2, <1>3, <1>4, <1>5 DEF Next

LEMMA BackingInit == Init => Backing
<1> SUFFICES ASSUME Init PROVE Backing
  OBVIOUS
<1>1. \A f \in File : path[f] = Absent /\ tmp[f] = Absent
  BY DEF Init
<1>2. \A c \in Commands : cmd[c] = Rest
  BY DEF Init
<1>3. Rest.op # "record"
  BY DEF Rest
<1>4. vouched = {}
  BY DEF Init
<1> QED
  BY <1>1, <1>2, <1>3, <1>4, NothingBacked DEF Backing

LEMMA BackingIsEnough == Backing => ApprovedOnly
<1> SUFFICES ASSUME Backing PROVE ApprovedOnly
  OBVIOUS
<1>1. Backed("ledger", path["ledger"].rules, approved) /\ vouched \subseteq approved
  BY DEF Backing, File
<1>2. LedgerVouches(path["ledger"]) \subseteq approved
  BY <1>1 DEF LedgerVouches, Backed
<1> QED
  BY <1>1, <1>2 DEF ApprovedOnly

\* For any commands that run at once and die anywhere, a rule the loader takes
\* for confirmed says what it said when a confirm command was run on it.
THEOREM StoreApprovedOnly == Spec => []ApprovedOnly
<1>1. Types /\ Backing /\ [Next]_vars => (Types /\ Backing)'
  BY TypesStep, BackingStep
<1>2. Spec => [](Types /\ Backing)
  BY <1>1, TypesInit, BackingInit, PTL DEF Spec
<1> QED
  BY <1>2, BackingIsEnough, PTL

-----------------------------------------------------------------------------
(* A command with a file to itself *)

\* What a command r that has had its file to itself since it began has done to
\* document p and the temporary document t of that file.
Mine(r, p, t) ==
    /\ r.pc \in {"open", "write", "replace"} => r.rules = Edited(p.rules, r)
    /\ r.pc = "write" => r.handle = "tmp" /\ t = Empty
    /\ r.pc = "replace" => t = Whole(r.rules)

\* The strengthening: two commands on one file both know that they share it,
\* and one that shares with nobody finds the file as it has read it.
Apart ==
    \A c, d \in Commands : c # d /\ Busy(c) /\ OnSameFile(d, cmd[c].op)
        => cmd[c].shared
Owning ==
    \A c \in Commands : Busy(c) /\ ~ cmd[c].shared
        => Mine(cmd[c], path[FileOf(cmd[c].op)], tmp[FileOf(cmd[c].op)])

\* An edit depends on what the command was given.
LEMMA SameEdit ==
    ASSUME NEW r, NEW s, NEW rules,
           r.op = s.op, r.id = s.id, r.content = s.content
    PROVE  Edited(rules, r) = Edited(rules, s)
  BY DEF Edited, Added, Confirmed, Removed, Recorded

\* A step of command c leaves the other files and the commands on them alone.
Frame(c) ==
    /\ Busy(c)
    /\ \A d \in Commands : cmd'[d].pc # Idle
        => Busy(d) /\ cmd'[d].op = cmd[d].op /\ cmd'[d].shared = cmd[d].shared
    /\ \A d \in Commands : FileOf(cmd[d].op) # FileOf(cmd[c].op) => cmd'[d] = cmd[d]
    /\ \A f \in File : f # FileOf(cmd[c].op) => path'[f] = path[f] /\ tmp'[f] = tmp[f]

LEMMA FrameKeeps ==
    ASSUME Types, Apart, Owning, NEW c \in Commands, Frame(c),
           cmd'[c].pc # Idle /\ ~ cmd[c].shared =>
               Mine(cmd'[c], path'[FileOf(cmd[c].op)], tmp'[FileOf(cmd[c].op)])
    PROVE  Apart' /\ Owning'
<1>1. ASSUME NEW a \in Commands, NEW b \in Commands, a # b,
             cmd'[a].pc # Idle, cmd'[b].pc # Idle,
             FileOf(cmd'[b].op) = FileOf(cmd'[a].op)
      PROVE  cmd'[a].shared
  <2>1. /\ Busy(a) /\ Busy(b) /\ FileOf(cmd[b].op) = FileOf(cmd[a].op)
        /\ cmd'[a].shared = cmd[a].shared
    BY <1>1 DEF Frame
  <2> QED
    BY <1>1, <2>1 DEF Apart, OnSameFile
<1>2. ASSUME NEW d \in Commands, cmd'[d].pc # Idle, ~ cmd'[d].shared
      PROVE  Mine(cmd'[d], path'[FileOf(cmd'[d].op)], tmp'[FileOf(cmd'[d].op)])
  <2>1. Busy(d) /\ cmd'[d].op = cmd[d].op /\ ~ cmd[d].shared
    BY <1>2 DEF Frame
  <2>2. CASE d = c
    BY <1>2, <2>1, <2>2
  <2>3. CASE d # c
    <3>1. FileOf(cmd[d].op) # FileOf(cmd[c].op)
      BY <2>1, <2>3 DEF Apart, OnSameFile, Frame
    <3>2. FileOf(cmd[d].op) \in File
      BY CmdFields DEF Types
    <3>3. /\ cmd'[d] = cmd[d]
          /\ path'[FileOf(cmd[d].op)] = path[FileOf(cmd[d].op)]
          /\ tmp'[FileOf(cmd[d].op)] = tmp[FileOf(cmd[d].op)]
      BY <3>1, <3>2 DEF Frame
    <3> QED
      BY <2>1, <3>3 DEF Owning
  <2> QED
    BY <2>2, <2>3
<1> QED
  BY <1>1, <1>2 DEF Apart, Owning, Busy, OnSameFile

\* What a write in an open file leaves alone.
LEMMA LandsFrame ==
    ASSUME Types, NEW c \in Commands, NEW doc, Lands(c, doc)
    PROVE  \A f \in File : f # FileOf(cmd[c].op)
               => path'[f] = path[f] /\ tmp'[f] = tmp[f]
  BY DEF Lands, Types, disk

LEMMA BeginApart ==
    ASSUME Types, Apart, Owning, NEW c \in Commands, Begin(c)
    PROVE  Apart' /\ Owning'
<1>1. PICK op \in {"add", "confirm", "remove", "record"}, i \in Id,
           x \in Content \cup {NoRule}, claim \in BOOLEAN :
        /\ IF op = "add" THEN x # NoRule ELSE x = NoRule /\ ~ claim
        /\ cmd' = [d \in Commands |->
             IF d = c
             THEN [pc |-> IF op = "record" THEN "project" ELSE "read", op |-> op,
                   id |-> i, content |-> x, claim |-> claim, rules |-> {},
                   handle |-> "none", shared |-> Shares(c, op)]
             ELSE IF OnSameFile(d, op) THEN [cmd[d] EXCEPT !.shared = TRUE]
             ELSE cmd[d]]
  BY DEF Begin
<1>2. /\ cmd'[c].op = op /\ cmd'[c].shared = Shares(c, op)
      /\ cmd'[c].pc \in {"project", "read"}
  BY <1>1
<1>3. UNCHANGED <<path, tmp>>
  BY DEF Begin, disk
<1>4. ASSUME NEW d \in Commands \ {c}
      PROVE  /\ cmd'[d].op = cmd[d].op /\ cmd'[d].pc = cmd[d].pc
             /\ cmd[d].shared => cmd'[d].shared
             /\ OnSameFile(d, op) => cmd'[d].shared
             /\ cmd'[d].shared \/ cmd'[d] = cmd[d]
  <2>1. cmd'[d] = IF OnSameFile(d, op) THEN [cmd[d] EXCEPT !.shared = TRUE] ELSE cmd[d]
    BY <1>1
  <2>2. GoodCmd(cmd[d])
    BY DEF Types
  <2> QED
    BY <2>1, <2>2 DEF GoodCmd, Cmd
<1>5. ASSUME NEW a \in Commands, NEW b \in Commands, a # b,
             cmd'[a].pc # Idle, cmd'[b].pc # Idle,
             FileOf(cmd'[b].op) = FileOf(cmd'[a].op)
      PROVE  cmd'[a].shared
  <2>1. CASE a = c
    BY <1>2, <1>4, <1>5, <2>1 DEF Shares, OnSameFile, Busy
  <2>2. CASE b = c
    BY <1>2, <1>4, <1>5, <2>2 DEF OnSameFile, Busy
  <2>3. CASE a # c /\ b # c
    BY <1>4, <1>5, <2>3 DEF Apart, OnSameFile, Busy
  <2> QED
    BY <2>1, <2>2, <2>3
<1>6. ASSUME NEW d \in Commands, cmd'[d].pc # Idle, ~ cmd'[d].shared
      PROVE  Mine(cmd'[d], path'[FileOf(cmd'[d].op)], tmp'[FileOf(cmd'[d].op)])
  <2>1. CASE d = c
    BY <1>2, <2>1 DEF Mine
  <2>2. CASE d # c
    BY <1>3, <1>4, <1>6, <2>2 DEF Owning, Busy
  <2> QED
    BY <2>1, <2>2
<1> QED
  BY <1>5, <1>6 DEF Apart, Owning, Busy, OnSameFile

\* A command that moves on in its own record only.
LEMMA OwnFrame ==
    ASSUME Types, NEW c \in Commands, Busy(c), NEW r, cmd' = [cmd EXCEPT ![c] = r],
           r.pc # Idle => r.op = cmd[c].op /\ r.shared = cmd[c].shared,
           \A f \in File : f # FileOf(cmd[c].op) => path'[f] = path[f] /\ tmp'[f] = tmp[f]
    PROVE  Frame(c) /\ cmd'[c] = r
<1>1. \A d \in Commands : cmd'[d] = IF d = c THEN r ELSE cmd[d]
  BY DEF Types
<1> QED
  BY <1>1 DEF Frame, Busy

LEMMA CommandApart ==
    ASSUME Types, Apart, Owning, NEW c \in Commands, Command(c)
    PROVE  Apart' /\ Owning'
<1> DEFINE f == FileOf(cmd[c].op)
<1>1. f \in File /\ GoodCmd(cmd[c]) /\ Rest.pc = Idle
  BY CmdFields DEF Types, Rest
<1>2. ASSUME Begin(c) PROVE Apart' /\ Owning'
  BY <1>2, BeginApart
<1>3. ASSUME ReadProject(c) PROVE Apart' /\ Owning'
  <2>1. UNCHANGED <<path, tmp>> /\ Busy(c)
    BY <1>3 DEF ReadProject, disk, Busy, Idle
  <2>2. CASE cmd' = [cmd EXCEPT ![c] = Rest]
    BY <1>1, <2>1, <2>2, OwnFrame, FrameKeeps
  <2>3. CASE cmd' = [cmd EXCEPT ![c].pc = "read", ![c].content = project[cmd[c].id]]
    <3> DEFINE x == project[cmd[c].id]
               r == [cmd[c] EXCEPT !.pc = "read", !.content = x]
    <3>1. cmd' = [cmd EXCEPT ![c] = r]
      BY <2>3 DEF Types
    <3>2. r.op = cmd[c].op /\ r.shared = cmd[c].shared /\ r.pc = "read"
      BY <1>1 DEF GoodCmd, Cmd
    <3> HIDE DEF r, x
    <3>3. Mine(r, path'[f], tmp'[f])
      BY <3>2 DEF Mine
    <3>4. Frame(c) /\ cmd'[c] = r
      BY <2>1, <3>1, <3>2, OwnFrame
    <3> QED
      BY <3>3, <3>4, FrameKeeps
  <2> QED
    BY <1>3, <2>2, <2>3 DEF ReadProject, Ends
<1>4. ASSUME Read(c) PROVE Apart' /\ Owning'
  <2>1. UNCHANGED <<path, tmp>> /\ Busy(c)
    BY <1>4 DEF Read, disk, Busy, Idle
  <2>2. CASE cmd' = [cmd EXCEPT ![c] = Rest]
    BY <1>1, <2>1, <2>2, OwnFrame, FrameKeeps
  <2>3. CASE cmd' = [cmd EXCEPT ![c].pc = "open",
                                ![c].rules = Edited(path[f].rules, cmd[c])]
    <3> DEFINE e == Edited(path[f].rules, cmd[c])
               r == [cmd[c] EXCEPT !.pc = "open", !.rules = e]
    <3>1. cmd' = [cmd EXCEPT ![c].pc = "open", ![c].rules = e]
      BY <2>3
    <3> HIDE DEF e
    <3>2. cmd' = [cmd EXCEPT ![c] = r]
      BY <3>1 DEF Types
    <3>3. /\ r.op = cmd[c].op /\ r.shared = cmd[c].shared /\ r.pc = "open"
          /\ r.id = cmd[c].id /\ r.content = cmd[c].content /\ r.rules = e
      BY <1>1 DEF GoodCmd, Cmd
    <3> HIDE DEF r
    <3>4. Edited(path[f].rules, r) = e
      BY <3>3, SameEdit DEF e
    <3>5. Mine(r, path'[f], tmp'[f])
      BY <2>1, <3>3, <3>4 DEF Mine
    <3>6. Frame(c) /\ cmd'[c] = r
      BY <2>1, <3>2, <3>3, OwnFrame
    <3> QED
      BY <3>5, <3>6, FrameKeeps
  <2> QED
    BY <1>4, <2>2, <2>3 DEF Read, Ends
<1>5. ASSUME OpenTmp(c) PROVE Apart' /\ Owning'
  <2> DEFINE r == [cmd[c] EXCEPT !.pc = "write", !.handle = "tmp"]
  <2>1. path' = path /\ tmp' = [tmp EXCEPT ![f] = Empty] /\ cmd[c].pc = "open"
    BY <1>5 DEF OpenTmp
  <2>2. Busy(c)
    BY <2>1 DEF Busy, Idle
  <2>3. cmd' = [cmd EXCEPT ![c] = r]
    BY <1>5 DEF OpenTmp, Types
  <2>4. /\ r.op = cmd[c].op /\ r.shared = cmd[c].shared /\ r.pc = "write"
        /\ r.id = cmd[c].id /\ r.content = cmd[c].content /\ r.rules = cmd[c].rules
        /\ r.handle = "tmp"
    BY <1>1 DEF GoodCmd, Cmd
  <2> HIDE DEF r
  <2>5. tmp'[f] = Empty
    BY <1>1, <2>1 DEF Types
  <2>6. \A g \in File : g # f => path'[g] = path[g] /\ tmp'[g] = tmp[g]
    BY <2>1 DEF Types
  <2>7. Frame(c) /\ cmd'[c] = r
    BY <2>2, <2>3, <2>4, <2>6, OwnFrame
  <2>8. ASSUME ~ cmd[c].shared PROVE Mine(r, path'[f], tmp'[f])
    <3>1. cmd[c].rules = Edited(path[f].rules, cmd[c])
      BY <2>1, <2>2, <2>8 DEF Owning, Mine
    <3>2. Edited(path[f].rules, r) = Edited(path[f].rules, cmd[c])
      BY <2>4, SameEdit
    <3> QED
      BY <2>1, <2>4, <2>5, <3>1, <3>2 DEF Mine
  <2> QED
    BY <2>7, <2>8, FrameKeeps
<1>6. ASSUME Write(c) PROVE Apart' /\ Owning'
  <2> DEFINE r == [cmd[c] EXCEPT !.pc = "replace"]
  <2>1. cmd[c].pc = "write" /\ Busy(c)
    BY <1>6 DEF Write, Busy, Idle
  <2>2. PICK doc \in Landed(Held(c), Whole(cmd[c].rules)) : Lands(c, doc)
    BY <1>6 DEF Write
  <2>3. cmd' = [cmd EXCEPT ![c] = r]
    BY <1>6 DEF Write, Goto, Types
  <2>4. /\ r.op = cmd[c].op /\ r.shared = cmd[c].shared /\ r.pc = "replace"
        /\ r.id = cmd[c].id /\ r.content = cmd[c].content /\ r.rules = cmd[c].rules
    BY <1>1 DEF GoodCmd, Cmd
  <2> HIDE DEF r
  <2>5. Frame(c) /\ cmd'[c] = r
    BY <2>1, <2>2, <2>3, <2>4, LandsFrame, OwnFrame
  <2>6. ASSUME ~ cmd[c].shared PROVE Mine(r, path'[f], tmp'[f])
    <3>1. /\ cmd[c].rules = Edited(path[f].rules, cmd[c])
          /\ cmd[c].handle = "tmp" /\ tmp[f] = Empty
      BY <2>1, <2>6 DEF Owning, Mine
    <3>2. doc = Whole(cmd[c].rules)
      BY <2>2, <3>1 DEF Held, Landed
    <3>3. path' = path /\ tmp' = [tmp EXCEPT ![f] = doc]
      BY <2>2, <3>1 DEF Lands
    <3>4. tmp'[f] = Whole(cmd[c].rules)
      BY <1>1, <3>2, <3>3 DEF Types
    <3>5. Edited(path[f].rules, r) = Edited(path[f].rules, cmd[c])
      BY <2>4, SameEdit
    <3> QED
      BY <2>4, <3>1, <3>3, <3>4, <3>5 DEF Mine
  <2> QED
    BY <2>5, <2>6, FrameKeeps
<1>7. ASSUME CutShort(c) PROVE Apart' /\ Owning'
  <2>1. Lands(c, Torn) /\ cmd' = [cmd EXCEPT ![c] = Rest] /\ Busy(c)
    BY <1>7 DEF CutShort, Ends, Busy, Idle
  <2> QED
    BY <1>1, <2>1, LandsFrame, OwnFrame, FrameKeeps
<1>8. ASSUME Replace(c) PROVE Apart' /\ Owning'
  <2>1. Busy(c)
    BY <1>8 DEF Replace, Busy, Idle
  <2>2. CASE tmp[f] = Absent
    <3>1. UNCHANGED <<path, tmp>> /\ cmd' = [cmd EXCEPT ![c] = Rest]
      BY <1>8, <2>2 DEF Replace, Ends, disk
    <3> QED
      BY <1>1, <2>1, <3>1, OwnFrame, FrameKeeps
  <2>3. CASE tmp[f] # Absent
    <3>1. /\ path' = [path EXCEPT ![f] = tmp[f]]
          /\ tmp' = [tmp EXCEPT ![f] = Absent]
          /\ cmd' = [d \in Commands |->
               IF d = c THEN Rest ELSE [cmd[d] EXCEPT !.handle = Moved(d, f)]]
      BY <1>8, <2>3 DEF Replace
    <3>2. \A g \in File : g # f => path'[g] = path[g] /\ tmp'[g] = tmp[g]
      BY <3>1 DEF Types
    <3>3. cmd'[c].pc = Idle
      BY <1>1, <3>1
    <3>4. ASSUME NEW d \in Commands \ {c}
          PROVE  /\ cmd'[d].pc = cmd[d].pc /\ cmd'[d].op = cmd[d].op
                 /\ cmd'[d].shared = cmd[d].shared
                 /\ FileOf(cmd[d].op) # f => cmd'[d] = cmd[d]
      <4> DEFINE h == Moved(d, f)
      <4>1. cmd'[d] = [cmd[d] EXCEPT !.handle = h]
        BY <3>1
      <4>2. FileOf(cmd[d].op) # f => h = cmd[d].handle
        BY DEF Moved
      <4>3. GoodCmd(cmd[d])
        BY DEF Types
      <4> HIDE DEF h, f
      <4> QED
        BY <4>1, <4>2, <4>3 DEF GoodCmd, Cmd
    <3>5. Frame(c)
      BY <2>1, <3>2, <3>3, <3>4 DEF Frame, Busy
    <3> QED
      BY <3>3, <3>5, FrameKeeps
  <2> QED
    BY <2>2, <2>3
<1>9. ASSUME Die(c) PROVE Apart' /\ Owning'
  <2>1. UNCHANGED <<path, tmp>> /\ cmd' = [cmd EXCEPT ![c] = Rest] /\ Busy(c)
    BY <1>9 DEF Die, Ends, disk
  <2> QED
    BY <1>1, <2>1, OwnFrame, FrameKeeps
<1> QED
  BY <1>2, <1>3, <1>4, <1>5, <1>6, <1>7, <1>8, <1>9 DEF Command

LEMMA ApartStep == Types /\ Apart /\ Owning /\ [Next]_vars => Apart' /\ Owning'
<1> SUFFICES ASSUME Types, Apart, Owning, [Next]_vars PROVE Apart' /\ Owning'
  OBVIOUS
<1>1. ASSUME NEW c \in Commands, Command(c) PROVE Apart' /\ Owning'
  BY <1>1, CommandApart
<1>2. CASE LoadProject \/ LoadRecord \/ Pull \/ UNCHANGED vars
  <2>1. UNCHANGED <<path, tmp, cmd>>
    BY <1>2 DEF LoadProject, LoadRecord, Pull, vars, disk
  <2> QED
    BY <2>1 DEF Apart, Owning, Busy, OnSameFile
<1> QED
  BY <1>1, <1>2 DEF Next

LEMMA ApartInit == Init => Apart /\ Owning
<1> SUFFICES ASSUME Init PROVE Apart /\ Owning
  OBVIOUS
<1>1. \A c \in Commands : ~ Busy(c)
  BY DEF Init, Busy, Rest
<1> QED
  BY <1>1 DEF Apart, Owning

\* What AtomicAlone says of a step.
OneEdit ==
    \A f \in File : path'[f] # path[f] =>
      \E c \in Commands :
         /\ Busy(c) /\ FileOf(cmd[c].op) = f
         /\ \/ cmd[c].shared
            \/ path'[f] = Whole(Edited(path[f].rules, cmd[c]))

LEMMA StepIsOneEdit == Types /\ Owning /\ [Next]_vars => OneEdit
<1> SUFFICES ASSUME Types, Owning, [Next]_vars,
                    NEW f \in File, path'[f] # path[f]
             PROVE  \E c \in Commands :
                      /\ Busy(c) /\ FileOf(cmd[c].op) = f
                      /\ \/ cmd[c].shared
                         \/ path'[f] = Whole(Edited(path[f].rules, cmd[c]))
  BY DEF OneEdit
<1>1. PICK c \in Commands : Write(c) \/ CutShort(c) \/ Replace(c)
  BY DEF Next, Command, Begin, ReadProject, Read, OpenTmp, Die, LoadProject,
         LoadRecord, Pull, vars, disk
<1>2. CASE Write(c) \/ CutShort(c)
  <2>1. cmd[c].pc = "write" /\ Busy(c)
    BY <1>2 DEF Write, CutShort, Busy, Idle
  <2>2. PICK doc : Lands(c, doc)
    BY <1>2 DEF Write, CutShort
  <2>3. FileOf(cmd[c].op) = f
    BY <2>2, LandsFrame
  <2>4. cmd[c].handle # "tmp"
    BY <2>2 DEF Lands
  <2> QED
    BY <2>1, <2>3, <2>4 DEF Owning, Mine
<1>3. CASE Replace(c)
  <2>1. cmd[c].pc = "replace" /\ Busy(c)
    BY <1>3 DEF Replace, Busy, Idle
  <2>2. path' = [path EXCEPT ![FileOf(cmd[c].op)] = tmp[FileOf(cmd[c].op)]]
    BY <1>3 DEF Replace, disk
  <2>3. FileOf(cmd[c].op) = f /\ path'[f] = tmp[f]
    BY <2>2 DEF Types
  <2> QED
    BY <2>1, <2>3 DEF Owning, Mine
<1> QED
  BY <1>1, <1>2, <1>3

\* For any commands and any crashes: a command that has its file to itself
\* replaces it by its edit of exactly what is there, in one step.
THEOREM StoreAtomicAlone == Spec => AtomicAlone
<1>1. Spec => [](Types /\ Apart /\ Owning)
  <2>1. Types /\ Apart /\ Owning /\ [Next]_vars => (Types /\ Apart /\ Owning)'
    BY TypesStep, ApartStep
  <2> QED
    BY <2>1, TypesInit, ApartInit, PTL DEF Spec
<1>2. Types /\ Apart /\ Owning /\ [Next]_vars => [OneEdit]_vars
  BY StepIsOneEdit
<1>3. [][OneEdit]_vars => AtomicAlone
  BY DEF OneEdit, AtomicAlone
<1> QED
  BY <1>1, <1>2, <1>3, PTL DEF Spec

-----------------------------------------------------------------------------
(***************************************************************************)
(* The load of all sources, for any number of levels and any changes of    *)
(* the files: each source that stays as it is counts.  The strengthening:  *)
(* below the level the search has come to, what stays as it is holds no    *)
(* ledger of a project, and once the search is over the project's ledger   *)
(* is at hand, loaded or reported.                                         *)
(***************************************************************************)

Origins == {"builtin", "own", "project"}
Problems == [of : Origins, said : {"reason", "fixed words"}]
Stages == {"builtin", "search", "own", "project", "done"}

LoadTypeOK ==
    /\ given.user \in Ledgers /\ given.home \in Ledgers
    /\ given.override \in {"unset", "relative", "absolute"}
    /\ files \in [Ledgers -> Conditions]
    /\ load \in [pc : Stages, at : 1 .. (Height + 1), found : SUBSET Levels,
                 rules : SUBSET (Origins \X Ledgers),
                 problems : SUBSET Problems,
                 steady : SUBSET Ledgers, changes : Nat]

\* Nothing to stop at, for the search of a project's ledger.
BareLevel(level) == files[level] = "absent" \/ (files[level] = "closed" /\ IsUsers(level))

\* What the search has passed by, and what it finds.
SearchOK ==
    /\ load.pc = "builtin" => load.at = 1
    /\ load.pc \in {"builtin", "search"} => load.found = {}
    /\ load.pc = "search" =>
         Searches /\ \A level \in Levels : level < load.at /\ level \in load.steady => BareLevel(level)
    /\ \A level \in load.found : Searches /\ ~ IsUsers(level)
    /\ \A level, other \in load.found : level = other

\* The project's ledger, once the search is over.
AtHand(level) ==
    \/ load.pc # "done" /\ level \in load.found
    \/ Loaded("project", level)
    \/ Reported("project")

ProjectOK ==
    /\ load.pc \in {"own", "project", "done"} /\ Searches =>
         \A level \in Levels : Nearest(level) /\ 1 .. level \subseteq load.steady => AtHand(level)
    /\ \A level \in Levels : Loaded("project", level) => Searches /\ ~ IsUsers(level)
    /\ load.pc = "project" => load.found # {}

\* The owner's source, once it has been read.
OwnCounts ==
    /\ Own \in load.steady /\ given.override # "relative" =>
         CASE files[Own] = "whole"  -> Loaded("own", Own)
           [] files[Own] = "absent" -> given.override = "unset" \/ Reported("own")
           [] OTHER                 -> Reported("own")
    /\ given.override = "relative" => Reported("own")

OwnOK == load.pc \in {"project", "done"} => OwnCounts

LoadInv == LoadTypeOK /\ SearchOK /\ ProjectOK /\ OwnOK

\* The strengthening is what the property needs when a load ends.
LEMMA LoadInvSuffices == LoadInv => EachSourceCounts
  BY DEF LoadInv, ProjectOK, OwnOK, OwnCounts, AtHand, EachSourceCounts

\* The strengthening holds at the start.
LEMMA LoadStarts == SourcesInit => LoadInv
<1> SUFFICES ASSUME SourcesInit PROVE LoadInv
  OBVIOUS
<1>1. load.pc = "builtin" /\ load.rules = {} /\ load.problems = {} /\ load.found = {}
  BY DEF SourcesInit
<1>2. LoadTypeOK
  BY SourcesAssumption DEF SourcesInit, LoadTypeOK, Stages, Ledgers
<1>3. SearchOK
  BY <1>1 DEF SearchOK, SourcesInit
<1>4. ProjectOK
  BY <1>1 DEF ProjectOK, Loaded
<1>5. OwnOK
  BY <1>1 DEF OwnOK
<1> QED
  BY <1>2, <1>3, <1>4, <1>5 DEF LoadInv

\* Problems and rules, as the load keeps them.
LEMMA ProblemIs ==
    \A of \in Origins, said \in {"reason", "fixed words"} : Problem(of, said) \in Problems
  BY DEF Problem, Problems

LEMMA RuleIs == \A origin \in Origins, ledger \in Ledgers : <<origin, ledger>> \in Origins \X Ledgers
  OBVIOUS

\* A step that leaves the files alone, by what it does to the load.
Quiet ==
    /\ UNCHANGED <<given, files>>
    /\ load'.steady = load.steady

More ==
    /\ load.rules \subseteq load'.rules
    /\ load.problems \subseteq load'.problems

\* What is said of the rules of projects stays so when no project's rule comes.
LEMMA NoProjectRuleComes ==
    ASSUME ProjectOK, Quiet,
           \A level \in Levels : Loaded("project", level)' => Loaded("project", level)
    PROVE  \A level \in Levels : Loaded("project", level)' => Searches' /\ ~ IsUsers(level)'
  BY DEF ProjectOK, Quiet, Searches, IsUsers

\* What is at hand stays so while what was found is still to be read.
LEMMA AtHandStays ==
    ASSUME ProjectOK, Quiet, More,
           load.pc \in {"own", "project", "done"},
           load.found \subseteq load'.found,
           load'.pc # "done" \/ load.found = {} \/ load.pc = "done"
    PROVE  Searches' => \A level \in Levels :
               Nearest(level)' /\ 1 .. level \subseteq load'.steady => AtHand(level)'
<1> SUFFICES ASSUME Searches', NEW level \in Levels, Nearest(level)', 1 .. level \subseteq load'.steady
             PROVE  AtHand(level)'
  OBVIOUS
<1>1. Searches /\ Nearest(level) /\ 1 .. level \subseteq load.steady
  BY DEF Quiet, Searches, Nearest, IsUsers
<1>2. AtHand(level)
  BY <1>1 DEF ProjectOK
<1> QED
  BY <1>2 DEF AtHand, More, Loaded, Reported

\* The owner's source counts as long as it stays as it is.
LEMMA OwnStays ==
    ASSUME OwnCounts, Quiet, More
    PROVE  OwnCounts'
  BY DEF OwnCounts, Quiet, More, Own, Loaded, Reported

\* The pack, and the switch for it.
LEMMA BuiltinKeeps == ASSUME LoadInv, LoadBuiltin PROVE LoadInv'
<1> USE DEF LoadInv
<1>1. /\ load.pc = "builtin" /\ Quiet
      /\ load'.pc = IF Searches THEN "search" ELSE "own"
      /\ load'.at = load.at /\ load'.found = load.found /\ load'.changes = load.changes
      /\ load'.rules \subseteq {<<"builtin", Elsewhere>>}
      /\ load'.problems \subseteq {Problem("builtin", "reason")}
  BY DEF LoadBuiltin, LoadTypeOK, Quiet
<1>2. LoadTypeOK'
  <2>1. load' \in [pc : Stages, at : 1 .. (Height + 1), found : SUBSET Levels,
                 rules : SUBSET (Origins \X Ledgers),
                 problems : SUBSET Problems,
                 steady : SUBSET Ledgers, changes : Nat]
    <3>1. {Problem("builtin", "reason")} \subseteq Problems
      BY ProblemIs DEF Origins
    <3>2. {<<"builtin", Elsewhere>>} \subseteq Origins \X Ledgers
      BY RuleIs DEF Ledgers, Origins
    <3>3. /\ load'.pc \in Stages
          /\ load'.rules \in SUBSET (Origins \X Ledgers)
          /\ load'.problems \in SUBSET Problems
      BY <1>1, <3>1, <3>2 DEF Stages
    <3> QED
      BY <3>3 DEF LoadBuiltin, LoadTypeOK
  <2> QED
    BY <1>1, <2>1 DEF LoadTypeOK, Quiet
<1>3. SearchOK'
  BY <1>1 DEF SearchOK, Searches, Quiet, LoadTypeOK, Levels
<1>4. ProjectOK'
  BY <1>1 DEF ProjectOK, Searches, Quiet, Loaded
<1>5. OwnOK'
  BY <1>1 DEF OwnOK
<1> QED
  BY <1>2, <1>3, <1>4, <1>5

\* A level that is passed by.
LEMMA LookHigherKeeps == ASSUME LoadInv, LookHigher PROVE LoadInv'
<1> USE DEF LoadInv
<1>1. /\ load.pc = "search" /\ load.at \in Levels /\ Quiet /\ More
      /\ load'.pc = load.pc /\ load'.at = load.at + 1
      /\ load'.found = load.found /\ load'.rules = load.rules
      /\ BareLevel(load.at)
  BY DEF LookHigher, Looking, LoadTypeOK, Quiet, More, BareLevel, PassedOver
<1>2. LoadTypeOK'
  BY SourcesAssumption, <1>1 DEF LookHigher, LoadTypeOK, Quiet, Levels
<1>3. SearchOK'
  <2>1. ASSUME NEW level \in Levels, level < load'.at, level \in load'.steady
        PROVE  BareLevel(level)'
    <3>1. level < load.at \/ level = load.at
      BY <1>1, <2>1 DEF Levels, LoadTypeOK
    <3>2. BareLevel(level)
      BY <1>1, <2>1, <3>1 DEF SearchOK, Quiet
    <3> QED
      BY <1>1, <3>2 DEF BareLevel, IsUsers, Quiet
  <2> QED
    BY <1>1, <2>1 DEF SearchOK, Searches, Quiet
<1>4. ProjectOK'
  BY <1>1 DEF ProjectOK, Searches, Quiet, Loaded, IsUsers
<1>5. OwnOK'
  BY <1>1 DEF OwnOK
<1> QED
  BY <1>2, <1>3, <1>4, <1>5

\* The nearest ledger is not below the level the search has come to.
LEMMA NearestAhead ==
    ASSUME LoadInv, load.pc = "search", NEW level \in Levels, Nearest(level),
           1 .. level \subseteq load.steady
    PROVE  level >= load.at
<1>1. level \in load.steady /\ level \in Nat /\ load.at \in Nat
  BY SourcesAssumption DEF Levels, LoadInv, LoadTypeOK
<1>2. CASE level < load.at
  BY <1>1, <1>2 DEF LoadInv, SearchOK, BareLevel, Nearest
<1> QED
  BY <1>1, <1>2

\* The search ends at a ledger.
LEMMA FindKeeps == ASSUME LoadInv, Find PROVE LoadInv'
<1> USE DEF LoadInv
<1>1. /\ load.pc = "search" /\ load.at \in Levels /\ Quiet /\ More
      /\ files[load.at] \in {"whole", "broken"}
      /\ load'.pc = "own" /\ load'.at = load.at /\ load'.rules = load.rules
      /\ load'.found = IF IsUsers(load.at) THEN {} ELSE {load.at}
  BY DEF Find, Looking, Searched, LoadTypeOK, Quiet, More
<1>2. LoadTypeOK'
  BY <1>1 DEF Find, Searched, LoadTypeOK, Quiet, Stages
<1>3. SearchOK'
  BY <1>1 DEF SearchOK, Searches, IsUsers, Quiet
<1>4. ProjectOK'
  <2>1. ASSUME NEW level \in Levels, Nearest(level)', 1 .. level \subseteq load'.steady
        PROVE  AtHand(level)'
    <3>1. Nearest(level) /\ 1 .. level \subseteq load.steady
      BY <1>1, <2>1 DEF Quiet, Nearest, IsUsers
    <3>2. level >= load.at
      BY <1>1, <3>1, NearestAhead
    <3>3. CASE level = load.at
      BY <1>1, <3>1, <3>3 DEF Nearest, AtHand
    <3>4. CASE level > load.at
      <4>1. load.at \in 1 .. (level - 1)
        BY SourcesAssumption, <1>1, <3>4 DEF Levels
      <4> QED
        BY <1>1, <3>1, <4>1 DEF Nearest
    <3> QED
      BY SourcesAssumption, <1>1, <3>2, <3>3, <3>4 DEF Levels
  <2> QED
    BY <1>1, <2>1 DEF ProjectOK, Searches, Quiet, Loaded, IsUsers
<1>5. OwnOK'
  BY <1>1 DEF OwnOK
<1> QED
  BY <1>2, <1>3, <1>4, <1>5

\* A level that cannot be looked at, or above the highest one.
LEMMA EndOfSearchKeeps == ASSUME LoadInv, CannotLook \/ FindNothing PROVE LoadInv'
<1> USE DEF LoadInv
<1>1. /\ load.pc = "search" /\ Quiet /\ More
      /\ load'.pc = "own" /\ load'.at = load.at /\ load'.rules = load.rules
      /\ load'.found = {}
  BY DEF CannotLook, FindNothing, Looking, Searched, LoadTypeOK, Quiet, More, SearchOK
<1>2. LoadTypeOK'
  <2>1. CASE CannotLook
    <3>1. Problem("project", "fixed words") \in Problems
      BY ProblemIs DEF Origins
    <3> QED
      BY <1>1, <2>1, <3>1 DEF CannotLook, LoadTypeOK, Quiet, Stages
  <2>2. CASE FindNothing
    BY <1>1, <2>2 DEF FindNothing, Searched, LoadTypeOK, Quiet, Stages
  <2> QED
    BY <2>1, <2>2
<1>3. SearchOK'
  BY <1>1 DEF SearchOK
<1>4. ProjectOK'
  <2>1. ASSUME NEW level \in Levels, Nearest(level)', 1 .. level \subseteq load'.steady
        PROVE  AtHand(level)'
    <3>1. CASE CannotLook
      <4>1. Problem("project", "fixed words") \in load'.problems
        BY <3>1 DEF CannotLook, LoadTypeOK
      <4> QED
        BY <4>1 DEF AtHand, Reported, Problem
    <3>2. CASE FindNothing
      <4>1. Nearest(level) /\ 1 .. level \subseteq load.steady
        BY <1>1, <2>1 DEF Quiet, Nearest, IsUsers
      <4>2. level >= load.at
        BY <1>1, <4>1, NearestAhead
      <4> QED
        BY SourcesAssumption, <3>2, <4>2 DEF FindNothing, Levels, LoadTypeOK
    <3> QED
      BY <3>1, <3>2
  <2> QED
    BY <1>1, <2>1 DEF ProjectOK, Searches, Quiet, Loaded, IsUsers
<1>5. OwnOK'
  BY <1>1 DEF OwnOK
<1> QED
  BY <1>2, <1>3, <1>4, <1>5

\* A step past the owner's source, which brings no rule of a project.
LEMMA PastOwn ==
    ASSUME LoadInv, Quiet, More, LoadTypeOK', OwnCounts',
           load.pc = "own", load'.pc = AfterOwn, load'.found = load.found,
           \A level \in Levels : Loaded("project", level)' => Loaded("project", level)
    PROVE  LoadInv'
<1> USE DEF LoadInv
<1>1. load'.pc \in {"done", "project"} /\ (load'.pc = "done" <=> load.found = {})
  BY DEF AfterOwn
<1>2. SearchOK'
  BY <1>1 DEF SearchOK, Searches, IsUsers, Quiet
<1>3. Searches' => \A level \in Levels :
        Nearest(level)' /\ 1 .. level \subseteq load'.steady => AtHand(level)'
  BY <1>1, AtHandStays
<1>4. ProjectOK'
  BY <1>1, <1>3, NoProjectRuleComes DEF ProjectOK
<1>5. OwnOK'
  BY DEF OwnOK
<1> QED
  BY <1>2, <1>4, <1>5

\* What a read of a ledger does to the load.
LEMMA ReadsIs ==
    ASSUME LoadTypeOK, NEW ledger \in Ledgers, NEW origin \in Origins, NEW missingIsEmpty \in BOOLEAN,
           NEW said \in {"reason", "fixed words"}, NEW next \in Stages,
           Reads(ledger, origin, missingIsEmpty, said, next), UNCHANGED <<given, files>>
    PROVE  /\ LoadTypeOK' /\ Quiet /\ More
           /\ load'.pc = next /\ load'.found = load.found
           /\ \A o \in Origins, l \in Ledgers :
                Loaded(o, l)' => Loaded(o, l) \/ (o = origin /\ l = ledger)
           /\ files[ledger] = "whole" => Loaded(origin, ledger)'
           /\ files[ledger] = "absent" => missingIsEmpty \/ Reported(origin)'
           /\ files[ledger] \notin {"whole", "absent"} => Reported(origin)'
<1>1. Problem(origin, said) \in Problems /\ Problem(origin, said).of = origin
  BY ProblemIs DEF Problem
<1>2. <<origin, ledger>> \in Origins \X Ledgers
  BY RuleIs
<1>3. /\ load'.pc = next /\ load'.found = load.found /\ Quiet
      /\ load'.rules = IF files[ledger] = "whole" THEN load.rules \cup {<<origin, ledger>>} ELSE load.rules
      /\ load'.problems = IF files[ledger] = "whole" \/ (files[ledger] = "absent" /\ missingIsEmpty)
                          THEN load.problems ELSE load.problems \cup {Problem(origin, said)}
  BY DEF Reads, LoadTypeOK, Quiet
<1>4. More
  BY <1>3 DEF More
<1>5. LoadTypeOK'
  <2>1. /\ load'.rules \in SUBSET (Origins \X Ledgers)
        /\ load'.problems \in SUBSET Problems
    BY <1>1, <1>2, <1>3 DEF LoadTypeOK
  <2> QED
    BY <2>1 DEF Reads, LoadTypeOK
<1>6. ASSUME NEW o \in Origins, NEW l \in Ledgers, Loaded(o, l)', ~ Loaded(o, l)
      PROVE  o = origin /\ l = ledger
  <2>1. <<o, l>> = <<origin, ledger>>
    BY <1>3, <1>6 DEF Loaded
  <2> QED
    BY <2>1
<1>7. CASE files[ledger] = "whole"
  BY <1>3, <1>4, <1>5, <1>6, <1>7 DEF Loaded
<1>8. CASE files[ledger] = "absent" /\ missingIsEmpty
  BY <1>3, <1>4, <1>5, <1>6, <1>8
<1>9. CASE files[ledger] # "whole" /\ ~ (files[ledger] = "absent" /\ missingIsEmpty)
  <2>1. Reported(origin)'
    BY <1>1, <1>3, <1>9 DEF Reported
  <2> QED
    BY <1>3, <1>4, <1>5, <1>6, <1>9, <2>1
<1> QED
  BY <1>7, <1>8, <1>9

\* The override.
LEMMA ReadOverrideKeeps == ASSUME LoadInv, ReadOverride PROVE LoadInv'
<1> USE DEF LoadInv
<1>1. load.pc = "own" /\ given.override # "unset" /\ UNCHANGED <<given, files>>
  BY DEF ReadOverride
<1>2. PICK own \in Ledgers, next \in Stages : own = Own /\ next = AfterOwn
  BY DEF AfterOwn, Stages, Own, Ledgers, LoadTypeOK
<1>3. CASE given.override = "relative"
  <2>1. Problem("own", "reason") \in Problems /\ Problem("own", "reason").of = "own"
    BY ProblemIs DEF Origins, Problem
  <2>2. /\ load'.pc = next /\ load'.found = load.found /\ load'.rules = load.rules
        /\ load'.problems = load.problems \cup {Problem("own", "reason")}
        /\ Quiet /\ More
    BY <1>1, <1>2, <1>3 DEF ReadOverride, LoadTypeOK, Quiet, More
  <2>3. LoadTypeOK'
    <3>1. load'.problems \in SUBSET Problems
      BY <2>1, <2>2 DEF LoadTypeOK
    <3> QED
      BY <1>1, <1>2, <1>3, <3>1 DEF ReadOverride, LoadTypeOK
  <2>4. OwnCounts'
    BY <1>1, <1>3, <2>1, <2>2 DEF OwnCounts, Reported
  <2>5. \A level \in Levels : Loaded("project", level)' => Loaded("project", level)
    BY <2>2 DEF Loaded
  <2> QED
    BY <1>1, <1>2, <2>2, <2>3, <2>4, <2>5, PastOwn
<1>4. CASE given.override # "relative"
  <2>1. Reads(own, "own", FALSE, "reason", next)
    BY <1>2, <1>4 DEF ReadOverride
  <2>2. /\ LoadTypeOK' /\ Quiet /\ More
        /\ load'.pc = next /\ load'.found = load.found
        /\ \A o \in Origins, l \in Ledgers :
             Loaded(o, l)' => Loaded(o, l) \/ (o = "own" /\ l = own)
        /\ files[own] = "whole" => Loaded("own", own)'
        /\ files[own] = "absent" => Reported("own")'
        /\ files[own] \notin {"whole", "absent"} => Reported("own")'
    BY <1>1, <1>2, <2>1, ReadsIs DEF Origins
  <2>3. OwnCounts'
    BY <1>1, <1>2, <1>4, <2>2 DEF OwnCounts, Own, Loaded, Quiet
  <2>4. \A level \in Levels : Loaded("project", level)' => Loaded("project", level)
    BY <2>2 DEF Origins, Ledgers
  <2> QED
    BY <1>1, <1>2, <2>2, <2>3, <2>4, PastOwn
<1> QED
  BY <1>3, <1>4

\* The user ledger.
LEMMA ReadUserKeeps == ASSUME LoadInv, ReadUser PROVE LoadInv'
<1> USE DEF LoadInv
<1>1. load.pc = "own" /\ given.override = "unset" /\ UNCHANGED <<given, files>>
  BY DEF ReadUser
<1>2. PICK own \in Ledgers, next \in Stages : own = Own /\ next = AfterOwn
  BY DEF AfterOwn, Stages, Own, Ledgers, LoadTypeOK
<1>3. Reads(own, "own", TRUE, "reason", next)
  BY <1>2 DEF ReadUser
<1>4. /\ LoadTypeOK' /\ Quiet /\ More
      /\ load'.pc = next /\ load'.found = load.found
      /\ \A o \in Origins, l \in Ledgers :
           Loaded(o, l)' => Loaded(o, l) \/ (o = "own" /\ l = own)
      /\ files[own] = "whole" => Loaded("own", own)'
      /\ files[own] \notin {"whole", "absent"} => Reported("own")'
  BY <1>1, <1>2, <1>3, ReadsIs DEF Origins
<1>5. OwnCounts'
  BY <1>1, <1>2, <1>4 DEF OwnCounts, Own, Loaded, Quiet
<1>6. \A level \in Levels : Loaded("project", level)' => Loaded("project", level)
  BY <1>4 DEF Origins, Ledgers
<1> QED
  BY <1>1, <1>2, <1>4, <1>5, <1>6, PastOwn

\* The project's ledger, when the search has found one.
LEMMA ReadProjectKeeps == ASSUME LoadInv, ReadProjectSource PROVE LoadInv'
<1> USE DEF LoadInv
<1>1. load.pc = "project" /\ UNCHANGED <<given, files>>
  BY DEF ReadProjectSource
<1>2. PICK ledger \in load.found : Reads(ledger, "project", TRUE, "fixed words", "done")
  BY DEF ReadProjectSource
<1>3. ledger \in Levels /\ ledger \in Ledgers /\ (\A l \in load.found : l = ledger)
  BY DEF LoadTypeOK, SearchOK, Ledgers
<1>4. /\ LoadTypeOK' /\ Quiet /\ More
      /\ load'.pc = "done" /\ load'.found = load.found
      /\ \A o \in Origins, l \in Ledgers :
           Loaded(o, l)' => Loaded(o, l) \/ (o = "project" /\ l = ledger)
      /\ files[ledger] = "whole" => Loaded("project", ledger)'
      /\ files[ledger] \notin {"whole", "absent"} => Reported("project")'
  BY <1>1, <1>2, <1>3, ReadsIs DEF Origins, Stages
<1>5. SearchOK'
  BY <1>4 DEF SearchOK, Searches, IsUsers, Quiet
<1>6. ProjectOK'
  <2>1. ASSUME Searches', NEW level \in Levels, Nearest(level)', 1 .. level \subseteq load'.steady
        PROVE  AtHand(level)'
    <3>1. Searches /\ Nearest(level) /\ 1 .. level \subseteq load.steady
      BY <1>4, <2>1 DEF Quiet, Searches, Nearest, IsUsers
    <3>2. AtHand(level)
      BY <1>1, <3>1 DEF ProjectOK
    <3>3. CASE level \in load.found
      BY <1>3, <1>4, <3>1, <3>3 DEF Nearest, AtHand, Loaded, Reported
    <3> QED
      BY <1>4, <3>2, <3>3 DEF AtHand, More, Loaded, Reported
  <2>2. ASSUME NEW level \in Levels, Loaded("project", level)'
        PROVE  Searches' /\ ~ IsUsers(level)'
    <3>1. Loaded("project", level) \/ level = ledger
      BY <1>4, <2>2 DEF Origins, Ledgers
    <3> QED
      BY <1>2, <1>4, <3>1 DEF ProjectOK, SearchOK, Quiet, Searches, IsUsers
  <2> QED
    BY <1>4, <2>1, <2>2 DEF ProjectOK
<1>7. OwnOK'
  BY <1>1, <1>4, OwnStays DEF OwnOK
<1> QED
  BY <1>4, <1>5, <1>6, <1>7

\* The record of confirmations cannot be read.
LEMMA RecordKeeps == ASSUME LoadInv, RecordUnreadable PROVE LoadInv'
<1> USE DEF LoadInv
<1>1. Problem("project", "reason") \in Problems /\ Problem("project", "reason").of = "project"
  BY ProblemIs DEF Origins, Problem
<1>2. /\ load.pc = "project" /\ load'.pc = "done"
      /\ load'.found = load.found /\ load'.rules = load.rules
      /\ load'.problems = load.problems \cup {Problem("project", "reason")}
      /\ Quiet /\ More
  BY DEF RecordUnreadable, LoadTypeOK, Quiet, More
<1>3. LoadTypeOK'
  <2>1. load'.problems \in SUBSET Problems
    BY <1>1, <1>2 DEF LoadTypeOK
  <2> QED
    BY <2>1 DEF RecordUnreadable, LoadTypeOK, Stages
<1>4. SearchOK'
  BY <1>2 DEF SearchOK, Searches, IsUsers, Quiet
<1>5. Reported("project")'
  BY <1>1, <1>2 DEF Reported
<1>6. ProjectOK'
  <2>1. \A level \in Levels : Loaded("project", level)' => Loaded("project", level)
    BY <1>2 DEF Loaded
  <2> QED
    BY <1>2, <1>5, <2>1, NoProjectRuleComes DEF ProjectOK, AtHand
<1>7. OwnOK'
  BY <1>2, OwnStays DEF OwnOK
<1> QED
  BY <1>3, <1>4, <1>6, <1>7

\* A file changes: what is said of the others stays.
LEMMA ChangeKeeps == ASSUME LoadInv, FilesChange PROVE LoadInv'
<1> USE DEF LoadInv
<1>1. PICK ledger \in Ledgers, condition \in Conditions :
        /\ files' = [files EXCEPT ![ledger] = condition]
        /\ load' = [load EXCEPT !.changes = @ + 1, !.steady = @ \ {ledger}]
  BY DEF FilesChange
<1>2. /\ load.pc # "done" /\ UNCHANGED given
      /\ load'.pc = load.pc /\ load'.at = load.at /\ load'.found = load.found
      /\ load'.rules = load.rules /\ load'.problems = load.problems
      /\ load'.steady = load.steady \ {ledger}
  BY <1>1 DEF FilesChange, LoadTypeOK
<1>3. \A l \in load'.steady : l \in load.steady /\ files'[l] = files[l]
  BY <1>1, <1>2 DEF LoadTypeOK
<1>4. LoadTypeOK'
  <2>1. files' \in [Ledgers -> Conditions] /\ load'.steady \in SUBSET Ledgers
    BY <1>1, <1>2 DEF LoadTypeOK
  <2>2. load.changes + 1 \in Nat
    BY DEF LoadTypeOK
  <2> QED
    BY <1>1, <1>2, <2>1, <2>2 DEF LoadTypeOK
<1>5. SearchOK'
  BY <1>2, <1>3 DEF SearchOK, Searches, IsUsers, BareLevel
<1>6. ProjectOK'
  <2>1. ASSUME Searches', NEW level \in Levels, Nearest(level)', 1 .. level \subseteq load'.steady,
               load'.pc \in {"own", "project", "done"}
        PROVE  AtHand(level)'
    <3>1. level \in 1 .. level /\ 1 .. (level - 1) \subseteq 1 .. level
      BY SourcesAssumption DEF Levels
    <3>2. Searches /\ Nearest(level) /\ 1 .. level \subseteq load.steady
      BY <1>2, <1>3, <2>1, <3>1 DEF Searches, Nearest, IsUsers
    <3> QED
      BY <1>2, <2>1, <3>2 DEF ProjectOK, AtHand, Loaded, Reported
  <2> QED
    BY <1>2, <2>1 DEF ProjectOK, Loaded, Searches, IsUsers
<1>7. OwnOK'
  BY <1>2, <1>3 DEF OwnOK, OwnCounts, Own, Loaded, Reported
<1> QED
  BY <1>4, <1>5, <1>6, <1>7

\* The strengthening is inductive.
LEMMA LoadStep == LoadInv /\ [SourcesNext]_sources => LoadInv'
<1> SUFFICES ASSUME LoadInv, [SourcesNext]_sources PROVE LoadInv'
  OBVIOUS
<1>1. CASE LoadBuiltin \/ LookHigher \/ Find \/ CannotLook \/ FindNothing
  BY <1>1, BuiltinKeeps, LookHigherKeeps, FindKeeps, EndOfSearchKeeps
<1>2. CASE ReadOverride \/ ReadUser \/ ReadProjectSource \/ RecordUnreadable
  BY <1>2, ReadOverrideKeeps, ReadUserKeeps, ReadProjectKeeps, RecordKeeps
<1>3. CASE FilesChange
  BY <1>3, ChangeKeeps
<1>4. CASE UNCHANGED sources
  BY <1>4 DEF sources, LoadInv, LoadTypeOK, SearchOK, ProjectOK, OwnOK, OwnCounts, Own, Searches,
              IsUsers, BareLevel, Nearest, AtHand, Loaded, Reported
<1> QED
  BY <1>1, <1>2, <1>3, <1>4 DEF SourcesNext

\* Whatever happens to the files during a load, a source that stays as it is is
\* loaded or reported, and a ledger of the owner is never taken for a project's.
THEOREM SourcesCount == SourcesSpec => []EachSourceCounts
<1>1. LoadInv => EachSourceCounts
  BY LoadInvSuffices
<1> QED
  BY <1>1, LoadStarts, LoadStep, PTL DEF SourcesSpec
=============================================================================
