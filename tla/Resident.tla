------------------------------ MODULE Resident -------------------------------
(***************************************************************************)
(* The resident gate of ember_armor/ledger/resident.py: servers that start *)
(* (by hand, by the SessionStart hook, or as the fresh copy of one that    *)
(* leaves), find their address in resident.json, bind its port, answer     *)
(* calls, and leave when they are idle, asked to stop or out of date.      *)
(* Other programs take and give back ports.                                *)
(*                                                                         *)
(* A process is one of the slots Servers; the slot of one that exited is   *)
(* free again.  A server that serves answers in time, and one that has     *)
(* bound its port and does not serve yet is waited for.                    *)
(***************************************************************************)
EXTENDS Integers, FiniteSets

CONSTANTS
    Servers,        \* slots for server processes
    Ports,          \* ports of the loopback interface
    Calls,          \* tool calls the host posts, again and again
    Sessions,       \* sessions that start, each with its SessionStart hook
    Settings,       \* the port the settings file names
    Idleness,       \* whether a server can be without a request for idle_seconds
    Most,           \* bounds: on starts by hand, stops, changes of the package,
                    \* ports others take, and failures
    Together        \* bound on how much of these but starts happens in all

Bounds == {"by hand", "stops", "installs", "foreign", "failures"}

ASSUME ResidentAssumption ==
    /\ Settings \in Ports
    /\ Idleness \in BOOLEAN
    /\ Most \in [Bounds -> Nat]
    /\ Together \in Nat
    /\ Servers \cap {"free", "http", "mute", "nobody"} = {}

VARIABLES
    file,       \* resident.json
    holder,     \* who listens on each port
    server,     \* each process, from serve() on
    installed,  \* the version of the package on disk
    call,       \* what became of each call
    ensuring,   \* where each SessionStart hook is in ensure()
    tokens,     \* tokens made so far
    \* history
    met,        \* a start met its port with no gate in place there
    used        \* how much of each bound was used

history == <<met, used>>
vars == <<file, holder, server, installed, call, ensuring, tokens, history>>

-----------------------------------------------------------------------------
Address == [port : Ports, token : Nat]
\* What `ember-gate install --resident' wrote and the settings name.
Home == [port |-> Settings, token |-> 0]
\* resident.json when it is not there, and after O_TRUNC before the write.
Absent == [port |-> Settings, token |-> -1]
Empty  == [port |-> Settings, token |-> -2]
Unreadable == {Absent, Empty}

Server == [pc : {"off", "look", "read", "create", "fill", "bind", "bound",
                 "taken", "serving", "stopped", "closed"},
           where   : Address,   \* the address it found
           handle  : BOOLEAN,   \* it has the resident.json open that is there
           moved   : BOOLEAN,   \* it gave up the port it found first
           replace : BOOLEAN,   \* _Gate.replace
           leaving : BOOLEAN,   \* a thread is about to call shutdown()
           quiet   : BOOLEAN,   \* no request for idle_seconds
           asked   : BOOLEAN,   \* history: it was asked to stop
           marker  : Nat,       \* started_marker
           looked  : Nat]       \* the last look at the package

\* A process that begins serve().
Created == [pc |-> "look", where |-> Home, handle |-> FALSE, moved |-> FALSE, replace |-> FALSE,
            leaving |-> FALSE, quiet |-> FALSE, asked |-> FALSE,
            marker |-> 0, looked |-> 0]

Gone == [Created EXCEPT !.pc = "off"]

Off == {s \in Servers : server[s].pc = "off"}
Is(s, label) == server[s].pc = label

\* A request to the address is answered with 200 by a resident gate.
Answers(addr) ==
    \E s \in Servers :
        holder[addr.port] = s /\ Is(s, "serving") /\ server[s].where = addr

\* health() is None: refused, reset, another status, no JSON.
NoAnswer(addr) ==
    /\ holder[addr.port] # "mute"
    /\ ~ Answers(addr)
    /\ \A s \in Servers : holder[addr.port] = s => ~ Is(s, "bound")

\* health() raises: http.client reports an answer that is not HTTP with
\* BadStatusLine, which is no OSError.
Babble(addr) == holder[addr.port] = "mute"

\* A process that could not have the port finds no gate in place there, which
\* serves or is about to, at some time before its health() is answered: a gate
\* on its way out, one that is killed, another program, or the process itself.
Met ==
    \E s \in Servers :
        /\ Is(s, "taken")
        /\ \A t \in Servers :
              holder[server[s].where.port] = t => ~ Is(t, "bound") /\ ~ Is(t, "serving")

\* History only: no step depends on it.
Noted == met' = (met \/ Met')

Use(what) ==
    /\ used[what] < Most[what]
    /\ what = "by hand"
       \/ used["stops"] + used["foreign"] + used["failures"] < Together
    /\ used' = [used EXCEPT ![what] = @ + 1]

Without(s) == [port \in Ports |-> IF holder[port] = s THEN "free" ELSE holder[port]]

\* The host proposes calls one after the other.
Proposed == [is |-> "idle", at |-> "nobody"]

-----------------------------------------------------------------------------
Init ==
    /\ file = Home
    /\ holder = [port \in Ports |-> "free"]
    /\ installed = 0
    /\ server = [s \in Servers |-> Gone]
    /\ call = [c \in Calls |-> Proposed]
    /\ ensuring = [e \in Sessions |-> [is |-> "idle", where |-> Home]]
    /\ tokens = 0
    /\ met = FALSE
    /\ used = [what \in Bounds |-> 0]

\* Process s goes on as `next'.
Goes(s, next) == server' = [server EXCEPT ![s] = next]

\* Process s ends, with status 0 or an exception: its port is given back, and
\* the calls it was working on are lost, as the handler threads are daemons.
Ends(s) ==
    /\ holder' = Without(s)
    /\ call' = [c \in Calls |-> IF call[c].at = s THEN Proposed ELSE call[c]]
    /\ UNCHANGED <<file, installed, ensuring, tokens>>

End(s) == Goes(s, Gone) /\ Ends(s)

Spawn == \E s \in Off : Goes(s, Created)

-----------------------------------------------------------------------------
(* serve()                                                                 *)

StartByHand ==
    /\ Use("by hand")
    /\ Spawn
    /\ UNCHANGED <<file, holder, installed, call, ensuring, tokens, met>>

\* address(): path.exists()
Look(s) ==
    /\ Is(s, "look")
    /\ Goes(s, [server[s] EXCEPT !.pc = IF file = Absent THEN "create" ELSE "read"])
    /\ UNCHANGED <<file, holder, installed, call, ensuring, tokens, history>>

\* A port and a token are read.
Read(s) ==
    /\ Is(s, "read")
    /\ file \notin Unreadable
    /\ Goes(s, [server[s] EXCEPT !.pc = "bind", !.where = file])
    /\ UNCHANGED <<file, holder, installed, call, ensuring, tokens, history>>

\* The file was removed since, or is being written.
ReadFails(s) ==
    /\ Is(s, "read")
    /\ file \in Unreadable
    /\ End(s)
    /\ UNCHANGED history

\* A port that is free now and a new token; the file is truncated.
Create(s) ==
    /\ Is(s, "create")
    /\ \E port \in Ports :
         /\ holder[port] = "free"
         /\ Goes(s, [server[s] EXCEPT !.pc = "fill", !.handle = TRUE,
                                      !.where = [port |-> port, token |-> tokens + 1]])
    /\ tokens' = tokens + 1
    /\ file' = Empty
    /\ UNCHANGED <<holder, installed, call, ensuring, history>>

\* The address is written, to a file that may have been removed meanwhile.
Fill(s) ==
    /\ Is(s, "fill")
    /\ file' = IF server[s].handle THEN server[s].where ELSE file
    /\ Goes(s, [server[s] EXCEPT !.pc = "bind", !.handle = FALSE])
    /\ UNCHANGED <<holder, installed, call, ensuring, tokens, history>>

\* _Gate.__init__ binds the port; one that a first attempt left bound is freed.
Bind(s) ==
    LET port == server[s].where.port IN
    /\ Is(s, "bind")
    /\ holder[port] = "free"
    /\ holder' = [Without(s) EXCEPT ![port] = s]
    /\ Goes(s, [server[s] EXCEPT !.pc = "bound"])
    /\ UNCHANGED <<file, installed, call, ensuring, tokens, history>>

\* The file is removed, and the address is looked for once more.
GiveUp(s) ==
    /\ file' = Absent
    /\ server' = [t \in Servers |->
                    [server[t] EXCEPT !.handle = FALSE,
                        !.pc = IF t = s THEN "look" ELSE @,
                        !.moved = @ \/ t = s]]

\* Mutant: a port in use is given up without a look at who uses it.
MutConstructionFails(s) ==
    IF server[s].moved
    THEN End(s)
    ELSE /\ GiveUp(s)
         /\ UNCHANGED <<holder, installed, call, ensuring, tokens>>

\* Mutant: whoever has the port, the process exits.
MutStepAside(s) == End(s)

\* The constructor raises OSError: the first time another gate may be there.
ConstructionFails(s) ==
    IF server[s].moved
    THEN End(s)
    ELSE /\ Goes(s, [server[s] EXCEPT !.pc = "taken"])
         /\ UNCHANGED <<file, holder, installed, call, ensuring, tokens>>

BindFails(s) ==
    /\ Is(s, "bind")
    /\ holder[server[s].where.port] # "free"
    /\ ConstructionFails(s)
    /\ Noted
    /\ UNCHANGED used

\* The package is looked at, and the server serves.
Serve(s) ==
    /\ Is(s, "bound")
    /\ Goes(s, [server[s] EXCEPT !.pc = "serving", !.marker = installed,
                                 !.looked = installed])
    /\ UNCHANGED <<file, holder, installed, call, ensuring, tokens, history>>

\* A file of the package cannot be looked at: an OSError as well, and the port
\* stays bound to the process itself.
ServeFails(s) ==
    /\ Is(s, "bound")
    /\ Use("failures")
    /\ ConstructionFails(s)
    /\ Noted

\* Another resident gate answers already: the process steps aside.
StepAside(s) ==
    /\ Is(s, "taken")
    /\ Answers(server[s].where)
    /\ End(s)
    /\ UNCHANGED history

\* Nobody answers who is a gate of this home: the port is given up.
GiveUpPort(s) ==
    /\ Is(s, "taken")
    /\ NoAnswer(server[s].where)
    /\ GiveUp(s)
    /\ UNCHANGED <<holder, installed, call, ensuring, tokens, history>>

HealthRaises(s) ==
    /\ Is(s, "taken")
    /\ Babble(server[s].where)
    /\ End(s)
    /\ UNCHANGED history

-----------------------------------------------------------------------------
(* The server.                                                             *)

\* The host posts to the address in its settings, and do_POST begins.  Without an
\* answer the call proceeds, and nothing here changes.
Post(c) ==
    /\ call[c].is = "idle"
    /\ \E s \in Servers :
         /\ holder[Settings] = s /\ Is(s, "serving") /\ server[s].where = Home
         /\ call' = [call EXCEPT ![c] = [is |-> "handled", at |-> s]]
         /\ Goes(s, [server[s] EXCEPT !.quiet = FALSE])
    /\ UNCHANGED <<file, holder, installed, ensuring, tokens, history>>

\* hook.respond, and its output is sent.
Reply(c) ==
    /\ call[c].is = "handled"
    /\ call' = [call EXCEPT ![c].is = "replied"]
    /\ UNCHANGED <<file, holder, server, installed, ensuring, tokens, history>>

\* After the response a stale server calls leave() with replace.
AfterAnswer(c, seen, stale) ==
    LET s == call[c].at IN
    /\ call[c].is = "replied"
    /\ Goes(s, [server[s] EXCEPT !.looked = seen,
                    !.leaving = @ \/ stale, !.replace = @ \/ stale])
    /\ call' = [call EXCEPT ![c] = Proposed]
    /\ UNCHANGED <<file, holder, installed, ensuring, tokens, met>>

\* stale() after a look at the package that found it as `seen'.
Stale(c, seen) == seen # server[call[c].at].marker

\* A look younger than MARKER_SECONDS is reused ...
ReuseLook(c) ==
    LET seen == server[call[c].at].looked IN
    /\ AfterAnswer(c, seen, Stale(c, seen))
    /\ UNCHANGED used

\* Mutant: the package is looked at once and never again.
MutLookAgain(c) == ReuseLook(c)

\* ... and an older one is not.
LookAgain(c) ==
    /\ AfterAnswer(c, installed, Stale(c, installed))
    /\ UNCHANGED used

\* A package that cannot be looked at counts as changed.
LookFails(c) ==
    /\ AfterAnswer(c, server[call[c].at].looked, TRUE)
    /\ Use("failures")

\* POST /stop to the address in resident.json: leave() without replace.
Stop(s) ==
    /\ Use("stops")
    /\ Is(s, "serving") /\ server[s].where = file /\ holder[file.port] = s
    /\ Goes(s, [server[s] EXCEPT !.asked = TRUE, !.replace = FALSE,
                                 !.leaving = TRUE, !.quiet = FALSE])
    /\ UNCHANGED <<file, holder, installed, call, ensuring, tokens, met>>

IdlePasses(s) ==
    /\ Is(s, "serving") /\ ~ server[s].quiet
    /\ Idleness
    /\ Goes(s, [server[s] EXCEPT !.quiet = TRUE])
    /\ UNCHANGED <<file, holder, installed, call, ensuring, tokens, history>>

\* Mutant: the exit is noted and shutdown() is not called.
MutWatchExit(s) ==
    /\ Is(s, "serving") /\ server[s].quiet /\ ~ server[s].leaving
    /\ UNCHANGED vars

\* watch()
WatchExit(s) ==
    /\ Is(s, "serving") /\ server[s].quiet /\ ~ server[s].leaving
    /\ Goes(s, [server[s] EXCEPT !.leaving = TRUE])
    /\ UNCHANGED <<file, holder, installed, call, ensuring, tokens, history>>

\* shutdown(): serve_forever returns.
Shutdown(s) ==
    /\ Is(s, "serving") /\ server[s].leaving
    /\ Goes(s, [server[s] EXCEPT !.pc = "stopped"])
    /\ UNCHANGED <<file, holder, installed, call, ensuring, tokens, used>>
    /\ Noted

\* server_close()
ServerClose(s) ==
    /\ Is(s, "stopped")
    /\ holder' = Without(s)
    /\ Goes(s, [server[s] EXCEPT !.pc = "closed"])
    /\ UNCHANGED <<file, installed, call, ensuring, tokens, history>>

\* Mutant: the copy dies with the process that starts it.
MutReplace(s) ==
    /\ Is(s, "closed") /\ server[s].replace
    /\ End(s)
    /\ UNCHANGED history

\* replace_self(): a fresh copy is started and the process ends, one in the slot
\* of the other.
Replace(s) ==
    /\ Is(s, "closed") /\ server[s].replace
    /\ Goes(s, Created)
    /\ Ends(s)
    /\ UNCHANGED history

ReplaceFails(s) ==
    /\ Is(s, "closed") /\ server[s].replace
    /\ Use("failures")
    /\ End(s)
    /\ UNCHANGED met

Exit(s) ==
    /\ Is(s, "closed") /\ ~ server[s].replace
    /\ End(s)
    /\ UNCHANGED history

\* The process is killed.
Die(s) ==
    /\ ~ Is(s, "off")
    /\ Use("failures")
    /\ End(s)
    /\ Noted

-----------------------------------------------------------------------------
(* ensure() of the SessionStart hook.                                      *)

\* Without a file there is nothing to ensure; the hook reports one that is being
\* written.
EnsureRead(e) ==
    /\ ensuring[e].is = "idle"
    /\ ensuring' = [ensuring EXCEPT ![e] =
                      [is |-> IF file \in Unreadable THEN "begun" ELSE "health",
                       where |-> IF file \in Unreadable THEN Home ELSE file]]
    /\ UNCHANGED <<file, holder, server, installed, call, tokens, history>>

EnsureHealth(e) ==
    LET where == ensuring[e].where IN
    /\ ensuring[e].is = "health"
    /\ \/ /\ Answers(where) \/ Babble(where)
          /\ ensuring' = [ensuring EXCEPT ![e].is = "begun"]
       \/ /\ NoAnswer(where)
          /\ ensuring' = [ensuring EXCEPT ![e].is = "spawn"]
    /\ UNCHANGED <<file, holder, server, installed, call, tokens, history>>

EnsureSpawn(e) ==
    /\ ensuring[e].is = "spawn"
    /\ Spawn
    /\ ensuring' = [ensuring EXCEPT ![e].is = "begun"]
    /\ UNCHANGED <<file, holder, installed, call, tokens, history>>

-----------------------------------------------------------------------------
(* The rest of the machine.                                                *)

Install ==
    /\ Use("installs")
    /\ installed' = installed + 1
    /\ UNCHANGED <<file, holder, server, call, ensuring, tokens, met>>

\* Another program, which speaks HTTP or does not, takes a port or leaves it.
Foreign ==
    /\ \E port \in Ports, kind \in {"http", "mute"} :
         \/ /\ holder[port] = "free"
            /\ Use("foreign")
            /\ holder' = [holder EXCEPT ![port] = kind]
         \/ /\ holder[port] = kind
            /\ holder' = [holder EXCEPT ![port] = "free"]
            /\ UNCHANGED history
    /\ UNCHANGED <<file, server, installed, call, ensuring, tokens, met>>

Starting(s) ==
    \/ Look(s) \/ Read(s) \/ ReadFails(s) \/ Create(s) \/ Fill(s)
    \/ Bind(s) \/ BindFails(s) \/ Serve(s)
    \/ StepAside(s) \/ GiveUpPort(s) \/ HealthRaises(s)

Ending(s) == WatchExit(s) \/ Shutdown(s) \/ ServerClose(s) \/ Replace(s) \/ Exit(s)

Handling(c) == Post(c) \/ Reply(c) \/ ReuseLook(c) \/ LookAgain(c)

Ensure(e) == EnsureRead(e) \/ EnsureHealth(e) \/ EnsureSpawn(e)

Next ==
    \/ StartByHand
    \/ \E s \in Servers :
         \/ Starting(s) \/ Ending(s)
         \/ ServeFails(s) \/ ReplaceFails(s) \/ Die(s)
         \/ Stop(s) \/ IdlePasses(s)
    \/ \E c \in Calls : Handling(c) \/ LookFails(c)
    \/ \E e \in Sessions : Ensure(e)
    \/ Install
    \/ Foreign

Spec == Init /\ [][Next]_vars

\* Processes and their threads run, the host goes on calling, and time passes.
FairSpec ==
    /\ Spec
    /\ \A s \in Servers :
         /\ WF_vars(Starting(s)) /\ WF_vars(Ending(s))
         /\ WF_vars(IdlePasses(s))
    /\ \A c \in Calls : WF_vars(Handling(c)) /\ SF_vars(LookAgain(c))
    /\ \A e \in Sessions : WF_vars(Ensure(e))

-----------------------------------------------------------------------------
(* Properties.                                                             *)

TypeOK ==
    /\ file \in Address \cup Unreadable
    /\ holder \in [Ports -> Servers \cup {"free", "http", "mute"}]
    /\ server \in [Servers -> Server]
    /\ installed \in Nat
    /\ call \in [Calls -> [is : {"idle", "handled", "replied"},
                           at : Servers \cup {"nobody"}]]
    /\ ensuring \in [Sessions -> [is : {"idle", "health", "spawn", "begun"},
                                  where : Address]]
    /\ tokens \in Nat
    /\ met \in BOOLEAN
    /\ used \in [Bounds -> Nat]

Serving == {s \in Servers : Is(s, "serving")}

\* The servers at the address the host posts to.
AtHome == {s \in Serving : holder[Settings] = s /\ server[s].where = Home}

\* "One process per Ember home" (resident.py:7), and the port is "chosen free
\* once and then fixed so the settings file can name it" (resident.py:19).
\* Servers start at once, stop, sit idle, are replaced and killed, and other
\* programs come and go: no two servers serve, and resident.json stays as it was
\* written although every start that finds the port taken may give it up, until
\* one such start does not find a gate in place there.
OneGate == ~ met => Cardinality(Serving) <= 1 /\ file = Home

\* A gate answers at the address the settings name.  Where a start met a gate on
\* its way out, which still has the port and answers no more, the code gives up
\* that address, against "fixed" (resident.py:19): the gate is then at another,
\* which the host does not post to, or another program is in the way.
Restored ==
    \/ AtHome # {}
    \/ met /\ (Serving # {} \/ used["foreign"] > 0)
    \/ used["failures"] > 0

\* A server that leaves for a fresh copy of itself is followed by one that
\* serves where the host posts to: the copy finds the port free, or another gate
\* that answers.
ComesBack == \A s \in Servers :
    (Is(s, "closed") /\ server[s].replace) ~> Restored

\* Calls keep coming to the address in the settings, so a server there whose
\* marker is out of date is replaced, although a look at the package is reused
\* for a while.
UpToDate ==
    <>[](\A s \in Serving :
            server[s].where = Home => server[s].marker = installed)

\* The session after an exit does not go without a gate where the host posts to:
\* what its SessionStart hook started serves there, or found a gate that does.
SessionGetsGate == \A e \in Sessions : (ensuring[e].is = "spawn") ~> Restored

\* A server whose address neither resident.json nor the settings hold gets no
\* calls and cannot be stopped: it leaves when it has been idle for long enough.
NoneLeftBehind == \A s \in Servers :
    (Is(s, "serving") /\ server[s].where \notin {file, Home})
        ~> ~ (Is(s, "serving") /\ server[s].where \notin {file, Home})

\* tests/ledger/test_resident_replace.py:162, "being asked to stop starts no
\* copy".
StoppedStartsNoCopy == [][\A s \in Servers : server[s].asked => ~ Replace(s)]_vars
=============================================================================
