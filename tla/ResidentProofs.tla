--------------------------- MODULE ResidentProofs ----------------------------
(***************************************************************************)
(* What is proved of the resident gate, for any numbers of servers, ports, *)
(* calls and sessions: its type invariant, and that one gate serves, at    *)
(* the address in the settings, while servers are started, stop, sit idle, *)
(* are replaced and are killed in any order, until a start does not find a *)
(* gate in place at its port.  The strengthening says what such a start    *)
(* relies on: whoever holds the port is a server of this home that has     *)
(* bound it and answers, or is about to.                                   *)
(***************************************************************************)
EXTENDS Resident, FiniteSetTheorems, TLAPS

\* The servers that hold the port, those of them that answer or are about to,
\* and the ones that hold none.
Holding == {"bound", "serving", "stopped"}
InPlace == {"bound", "serving"}
Apart == {"off", "look", "read", "bind", "taken", "closed"}

\* One address, and one holder of its port.
Ground ==
    /\ file = Home
    /\ \A s \in Servers :
         /\ server[s].pc \in Holding \cup Apart
         /\ server[s].where = Home
         /\ ~ server[s].handle
         /\ ~ server[s].moved
         /\ server[s].pc \in Holding <=> holder[Settings] = s

\* Who could not have the port has a gate in place before it.
Facing ==
    \A s \in Servers :
        server[s].pc = "taken" =>
            \E t \in Servers : holder[Settings] = t /\ server[t].pc \in InPlace

ResidentInv == TypeOK /\ (~ met => Ground /\ Facing)

-----------------------------------------------------------------------------
(* Types.                                                                  *)

\* The addresses everything starts from.
LEMMA Addresses == Home \in Address /\ Home # Absent /\ Home # Empty
<1>1. Home.token = 0 /\ Absent.token = -1 /\ Empty.token = -2
  BY DEF Home, Absent, Empty
<1> QED
  BY <1>1, ResidentAssumption DEF Home, Address

LEMMA Fresh == Created \in Server /\ Gone \in Server
<1>1. Created \in Server
  BY Addresses DEF Created, Server
<1> QED
  BY <1>1 DEF Gone, Server

\* What becomes of one server keeps the type of all.
LEMMA GoesType ==
    ASSUME TypeOK, NEW s, NEW next \in Server, Goes(s, next)
    PROVE  server' \in [Servers -> Server]
  BY DEF TypeOK, Goes

\* A disturbance that is used up to its bound.
LEMMA UseType ==
    ASSUME TypeOK, NEW what \in Bounds, Use(what)
    PROVE  /\ used' \in [Bounds -> Nat]
           /\ used'[what] > 0
           /\ \A other \in Bounds : used'[other] >= used[other]
<1>1. used \in [Bounds -> Nat] /\ used' = [used EXCEPT ![what] = @ + 1]
  BY DEF TypeOK, Use
<1> QED
  BY <1>1

LEMMA BoundNames ==
    "by hand" \in Bounds /\ "stops" \in Bounds /\ "installs" \in Bounds
    /\ "foreign" \in Bounds /\ "failures" \in Bounds
  BY DEF Bounds

LEMMA EndsType ==
    ASSUME TypeOK, NEW s, Ends(s)
    PROVE  /\ holder' \in [Ports -> Servers \cup {"free", "http", "mute"}]
           /\ call' \in [Calls -> [is : {"idle", "handled", "replied"},
                                   at : Servers \cup {"nobody"}]]
           /\ UNCHANGED <<file, installed, ensuring, tokens>>
  BY DEF TypeOK, Ends, Without, Proposed

LEMMA EndType ==
    ASSUME TypeOK, NEW s, End(s), used' \in [Bounds -> Nat], met' \in BOOLEAN
    PROVE  TypeOK'
  BY GoesType, EndsType, Fresh DEF End, TypeOK

LEMMA NotedType == ASSUME Noted PROVE met' \in BOOLEAN
  BY DEF Noted

\* Each action keeps the types.
LEMMA TypeStep == TypeOK /\ [Next]_vars => TypeOK'
<1> SUFFICES ASSUME TypeOK, [Next]_vars PROVE TypeOK'
  OBVIOUS
<1> USE DEF history
<1>1. CASE StartByHand
  <2>1. used' \in [Bounds -> Nat]
    BY <1>1, UseType, BoundNames DEF StartByHand
  <2>2. server' \in [Servers -> Server]
    BY <1>1, GoesType, Fresh DEF StartByHand, Spawn
  <2> QED
    BY <1>1, <2>1, <2>2 DEF StartByHand, TypeOK
<1>2. ASSUME NEW s \in Servers, Starting(s) PROVE TypeOK'
  <2>0. server[s] \in Server
    BY DEF TypeOK
  <2>1. CASE Look(s)
    BY <2>1 DEF Look, Goes, TypeOK, Server
  <2>2. CASE Read(s)
    <3>1. file \in Address
      BY <2>2 DEF Read, TypeOK
    <3>2. [server[s] EXCEPT !.pc = "bind", !.where = file] \in Server
      BY <2>0, <3>1 DEF Server
    <3> QED
      BY <2>2, <3>2, GoesType DEF Read, TypeOK
  <2>3. CASE ReadFails(s)
    BY <2>3, EndType DEF ReadFails, TypeOK
  <2>4. CASE Create(s)
    <3>1. PICK port \in Ports :
             Goes(s, [server[s] EXCEPT !.pc = "fill", !.handle = TRUE,
                                       !.where = [port |-> port, token |-> tokens + 1]])
      BY <2>4 DEF Create
    <3>2. [port |-> port, token |-> tokens + 1] \in Address
      BY DEF TypeOK, Address
    <3>3. [server[s] EXCEPT !.pc = "fill", !.handle = TRUE,
                            !.where = [port |-> port, token |-> tokens + 1]] \in Server
      BY <2>0, <3>2 DEF Server
    <3>4. server' \in [Servers -> Server]
      BY <3>1, <3>3, GoesType
    <3>5. file' \in Address \cup Unreadable /\ tokens' \in Nat
      BY <2>4 DEF Create, TypeOK, Unreadable
    <3> QED
      BY <2>4, <3>4, <3>5 DEF Create, TypeOK
  <2>5. CASE Fill(s)
    <3>1. server[s].where \in Address
      BY <2>0 DEF Server
    <3>2. [server[s] EXCEPT !.pc = "bind", !.handle = FALSE] \in Server
      BY <2>0 DEF Server
    <3> QED
      BY <2>5, <3>1, <3>2, GoesType DEF Fill, TypeOK
  <2>6. CASE Bind(s)
    <3>1. server' \in [Servers -> Server]
      BY <2>6 DEF Bind, Goes, TypeOK, Server
    <3>2. holder' \in [Ports -> Servers \cup {"free", "http", "mute"}]
      BY <2>6, <3>1 DEF Bind, Without, TypeOK
    <3> QED
      BY <2>6, <3>1, <3>2 DEF Bind, TypeOK
  <2>7. ASSUME ConstructionFails(s), used' \in [Bounds -> Nat], met' \in BOOLEAN PROVE TypeOK'
    <3>1. CASE server[s].moved
      BY <2>7, <3>1, EndType DEF ConstructionFails, TypeOK
    <3>2. CASE ~ server[s].moved
      <4>1. Goes(s, [server[s] EXCEPT !.pc = "taken"])
        BY <2>7, <3>2 DEF ConstructionFails
      <4>2. server' \in [Servers -> Server]
        BY <4>1 DEF Goes, TypeOK, Server
      <4> QED
        BY <2>7, <3>2, <4>2 DEF ConstructionFails, TypeOK
    <3> QED
      BY <3>1, <3>2
  <2>8. CASE BindFails(s)
    BY <2>7, <2>8, NotedType DEF BindFails, TypeOK
  <2>9. CASE Serve(s)
    <3>1. [server[s] EXCEPT !.pc = "serving", !.marker = installed,
                            !.looked = installed] \in Server
      BY <2>0 DEF Server, TypeOK
    <3> QED
      BY <2>9, <3>1, GoesType DEF Serve, TypeOK
  <2>10. CASE StepAside(s) \/ HealthRaises(s)
    BY <2>10, EndType DEF StepAside, HealthRaises, TypeOK
  <2>11. CASE GiveUpPort(s)
    <3>1. ASSUME NEW t \in Servers
          PROVE  [server[t] EXCEPT !.handle = FALSE, !.pc = IF t = s THEN "look" ELSE @,
                                   !.moved = @ \/ t = s] \in Server
      <4>1. server[t] \in Server
        BY DEF TypeOK
      <4> QED
        BY <4>1 DEF Server
    <3>2. server' \in [Servers -> Server]
      BY <2>11, <3>1 DEF GiveUpPort, GiveUp
    <3> QED
      BY <2>11, <3>2 DEF GiveUpPort, GiveUp, TypeOK, Unreadable
  <2> QED
    BY <1>2, <2>1, <2>2, <2>3, <2>4, <2>5, <2>6, <2>8, <2>9, <2>10, <2>11 DEF Starting
<1>3. ASSUME NEW s \in Servers, Ending(s) PROVE TypeOK'
  <2>1. CASE WatchExit(s)
    <3>1. [server[s] EXCEPT !.leaving = TRUE] \in Server
      <4>1. server[s] \in Server
        BY DEF TypeOK
      <4> QED
        BY <4>1 DEF Server
    <3> QED
      BY <2>1, <3>1, GoesType DEF WatchExit, TypeOK
  <2>2. CASE Shutdown(s)
    BY <2>2, NotedType DEF Shutdown, Goes, TypeOK, Server
  <2>3. CASE ServerClose(s)
    <3>1. server' \in [Servers -> Server]
      BY <2>3 DEF ServerClose, Goes, TypeOK, Server
    <3> QED
      BY <2>3, <3>1 DEF ServerClose, Without, TypeOK
  <2>4. CASE Replace(s)
    BY <2>4, GoesType, EndsType, Fresh DEF Replace, TypeOK
  <2>5. CASE Exit(s)
    BY <2>5, EndType DEF Exit, TypeOK
  <2> QED
    BY <1>3, <2>1, <2>2, <2>3, <2>4, <2>5 DEF Ending
<1>4. ASSUME NEW s \in Servers, ServeFails(s) PROVE TypeOK'
  <2>1. used' \in [Bounds -> Nat]
    BY <1>4, UseType, BoundNames DEF ServeFails
  <2>2. CASE server[s].moved
    BY <1>4, <2>1, <2>2, EndType, NotedType DEF ServeFails, ConstructionFails, TypeOK
  <2>3. CASE ~ server[s].moved
    <3>1. Goes(s, [server[s] EXCEPT !.pc = "taken"])
      BY <1>4, <2>3 DEF ServeFails, ConstructionFails
    <3>2. server' \in [Servers -> Server]
      BY <3>1 DEF Goes, TypeOK, Server
    <3> QED
      BY <1>4, <2>1, <2>3, <3>2, NotedType DEF ServeFails, ConstructionFails, TypeOK
  <2> QED
    BY <2>2, <2>3
<1>5. ASSUME NEW s \in Servers, ReplaceFails(s) \/ Die(s) PROVE TypeOK'
  <2>1. used' \in [Bounds -> Nat]
    BY <1>5, UseType, BoundNames DEF ReplaceFails, Die
  <2> QED
    BY <1>5, <2>1, EndType, NotedType DEF ReplaceFails, Die, TypeOK
<1>6. ASSUME NEW s \in Servers, Stop(s) PROVE TypeOK'
  <2>1. used' \in [Bounds -> Nat]
    BY <1>6, UseType, BoundNames DEF Stop
  <2>2. server' \in [Servers -> Server]
    <3>1. server[s] \in Server
      BY DEF TypeOK
    <3>2. [server[s] EXCEPT !.asked = TRUE, !.replace = FALSE,
                            !.leaving = TRUE, !.quiet = FALSE] \in Server
      BY <3>1 DEF Server
    <3> QED
      BY <1>6, <3>2, GoesType DEF Stop
  <2> QED
    BY <1>6, <2>1, <2>2 DEF Stop, TypeOK
<1>7. ASSUME NEW s \in Servers, IdlePasses(s) PROVE TypeOK'
  <2>1. server[s] \in Server
    BY DEF TypeOK
  <2>2. [server[s] EXCEPT !.quiet = TRUE] \in Server
    BY <2>1 DEF Server
  <2> QED
    BY <1>7, <2>2, GoesType DEF IdlePasses, TypeOK
<1>8. ASSUME NEW c \in Calls, Post(c) PROVE TypeOK'
  <2>1. PICK s \in Servers : /\ call' = [call EXCEPT ![c] = [is |-> "handled", at |-> s]]
                             /\ Goes(s, [server[s] EXCEPT !.quiet = FALSE])
    BY <1>8 DEF Post
  <2>2. server' \in [Servers -> Server]
    <3>1. server[s] \in Server
      BY DEF TypeOK
    <3>2. [server[s] EXCEPT !.quiet = FALSE] \in Server
      BY <3>1 DEF Server
    <3> QED
      BY <2>1, <3>2, GoesType
  <2> QED
    BY <1>8, <2>1, <2>2 DEF Post, TypeOK
<1>9. ASSUME NEW c \in Calls, Reply(c) PROVE TypeOK'
  BY <1>9 DEF Reply, TypeOK
<1>10. ASSUME NEW c \in Calls, NEW seen, NEW stale \in BOOLEAN, AfterAnswer(c, seen, stale),
              seen \in Nat \/ call[c].at \notin Servers, used' \in [Bounds -> Nat]
       PROVE TypeOK'
  <2>1. server' \in [Servers -> Server]
    <3> DEFINE s == call[c].at
               next == [server[s] EXCEPT !.looked = seen, !.leaving = @ \/ stale,
                                         !.replace = @ \/ stale]
    <3>1. Goes(s, next)
      BY <1>10 DEF AfterAnswer
    <3>2. CASE s \in Servers
      <4>1. server[s] \in Server /\ seen \in Nat
        BY <1>10, <3>2 DEF TypeOK
      <4>2. next \in Server
        BY <1>10, <4>1 DEF Server
      <4> HIDE DEF next
      <4> QED
        BY <3>1, <4>2, GoesType
    <3>3. CASE s \notin Servers
      <4> HIDE DEF next
      <4> QED
        BY <3>1, <3>3 DEF Goes, TypeOK
    <3> QED
      BY <3>2, <3>3
  <2> QED
    BY <1>10, <2>1 DEF AfterAnswer, Proposed, TypeOK
<1>11. ASSUME NEW c \in Calls, ReuseLook(c) \/ LookAgain(c) \/ LookFails(c) PROVE TypeOK'
  <2>1. used' \in [Bounds -> Nat]
    BY <1>11, UseType, BoundNames DEF ReuseLook, LookAgain, LookFails, TypeOK
  <2>2. server[call[c].at].looked \in Nat \/ call[c].at \notin Servers
    BY DEF TypeOK, Server
  <2>3. installed \in Nat
    BY DEF TypeOK
  <2> QED
    BY <1>10, <1>11, <2>1, <2>2, <2>3 DEF ReuseLook, LookAgain, LookFails, Stale
<1>12. ASSUME NEW e \in Sessions, Ensure(e) PROVE TypeOK'
  <2>1. CASE EnsureRead(e)
    BY <2>1, Addresses DEF EnsureRead, TypeOK
  <2>2. CASE EnsureHealth(e)
    <3>1. UNCHANGED <<file, holder, server, installed, call, tokens, met, used>>
      BY <2>2 DEF EnsureHealth
    <3>2. \/ ensuring' = [ensuring EXCEPT ![e].is = "begun"]
          \/ ensuring' = [ensuring EXCEPT ![e].is = "spawn"]
      BY <2>2 DEF EnsureHealth
    <3>3. ensuring' \in [Sessions -> [is : {"idle", "health", "spawn", "begun"},
                                     where : Address]]
      BY <3>2 DEF TypeOK
    <3> QED
      BY <3>1, <3>3 DEF TypeOK
  <2>3. CASE EnsureSpawn(e)
    <3>1. server' \in [Servers -> Server]
      BY <2>3, GoesType, Fresh DEF EnsureSpawn, Spawn
    <3> QED
      BY <2>3, <3>1 DEF EnsureSpawn, TypeOK
  <2> QED
    BY <1>12, <2>1, <2>2, <2>3 DEF Ensure
<1>13. CASE Install
  <2>1. used' \in [Bounds -> Nat]
    BY <1>13, UseType, BoundNames DEF Install
  <2> QED
    BY <1>13, <2>1 DEF Install, TypeOK
<1>14. CASE Foreign
  <2>1. used' \in [Bounds -> Nat]
    BY <1>14, UseType, BoundNames DEF Foreign, TypeOK
  <2>2. holder' \in [Ports -> Servers \cup {"free", "http", "mute"}]
    BY <1>14 DEF Foreign, TypeOK
  <2> QED
    BY <1>14, <2>1, <2>2 DEF Foreign, TypeOK
<1>15. CASE UNCHANGED vars
  BY <1>15 DEF vars, TypeOK
<1> QED
  BY <1>1, <1>2, <1>3, <1>4, <1>5, <1>6, <1>7, <1>8, <1>9, <1>11, <1>12, <1>13, <1>14,
     <1>15 DEF Next, Handling

-----------------------------------------------------------------------------
(* One gate.                                                               *)

LEMMA MetBefore == ASSUME Next, ~ met' PROVE ~ met
<1>1. (met' <=> met) \/ Noted
  BY DEF Next, StartByHand, Starting, Ending, ServeFails, ReplaceFails, Die, Stop, IdlePasses,
         Handling, LookFails, Ensure, Install, Foreign, Look, Read, ReadFails, Create, Fill, Bind,
         BindFails, Serve, StepAside, GiveUpPort, HealthRaises, WatchExit, Shutdown, ServerClose,
         Replace, Exit, Post, Reply, ReuseLook, LookAgain, AfterAnswer, EnsureRead, EnsureHealth,
         EnsureSpawn, history
<1> QED
  BY <1>1 DEF Noted

\* Where the history was looked at and says nothing, everybody faces a gate.
LEMMA StillFacing == ASSUME Ground', Noted, ~ met' PROVE Facing'
<1>1. ~ Met'
  BY DEF Noted
<1>2. Home.port = Settings
  BY DEF Home
<1>3. \A s \in Servers : server'[s].where = Home
  BY DEF Ground
<1> SUFFICES ASSUME NEW s \in Servers, server'[s].pc = "taken"
             PROVE  \E t \in Servers : holder'[Settings] = t /\ server'[t].pc \in InPlace
  BY DEF Facing
<1>4. server'[s].where.port = Settings
  BY <1>2, <1>3
<1>5. PICK t \in Servers : /\ holder'[server'[s].where.port] = t
                           /\ server'[t].pc = "bound" \/ server'[t].pc = "serving"
  BY <1>1 DEF Met, Is
<1> QED
  BY <1>4, <1>5 DEF InPlace

\* A server moves, and the ports stay.
LEMMA OneMoves ==
    ASSUME TypeOK, Ground, NEW s, NEW next, Goes(s, next),
           next.where = Home, ~ next.handle, ~ next.moved, next.pc \in Holding \cup Apart,
           s \in Servers => (next.pc \in Holding <=> server[s].pc \in Holding),
           UNCHANGED <<file, holder>>
    PROVE  Ground'
<1>1. ASSUME NEW t \in Servers
      PROVE  server'[t] = IF t = s THEN next ELSE server[t]
  BY DEF Goes, TypeOK
<1> QED
  BY <1>1 DEF Ground

\* It neither leaves its place nor finds the port taken: nobody loses sight.
LEMMA OthersFace ==
    ASSUME TypeOK, Facing, NEW s, NEW next, Goes(s, next),
           s \in Servers => (server[s].pc \in InPlace => next.pc \in InPlace),
           next.pc # "taken" \/ (s \in Servers => server[s].pc = "taken"),
           UNCHANGED holder
    PROVE  Facing'
<1>1. ASSUME NEW t \in Servers
      PROVE  server'[t] = IF t = s THEN next ELSE server[t]
  BY DEF Goes, TypeOK
<1> SUFFICES ASSUME NEW u \in Servers, server'[u].pc = "taken"
             PROVE  \E t \in Servers : holder'[Settings] = t /\ server'[t].pc \in InPlace
  BY DEF Facing
<1>2. server[u].pc = "taken"
  BY <1>1
<1>3. PICK t \in Servers : holder[Settings] = t /\ server[t].pc \in InPlace
  BY <1>2 DEF Facing
<1> QED
  BY <1>1, <1>3

\* A process gives back what it holds and goes on, or ends.
LEMMA OneLeaves ==
    ASSUME TypeOK, Ground, NEW s \in Servers, NEW next, Goes(s, next),
           next.where = Home, ~ next.handle, ~ next.moved, next.pc \in Apart \ {"taken"},
           holder' = Without(s), UNCHANGED file
    PROVE  /\ Ground'
           /\ Facing /\ server[s].pc \notin InPlace => Facing'
<1>1. ASSUME NEW t \in Servers
      PROVE  server'[t] = IF t = s THEN next ELSE server[t]
  BY DEF Goes, TypeOK
<1>2. holder'[Settings] = IF holder[Settings] = s THEN "free" ELSE holder[Settings]
  BY ResidentAssumption DEF Without
<1>3. \A t \in Servers : t # "free"
  BY ResidentAssumption
<1>4. next.pc \notin Holding
  BY DEF Holding, Apart
<1>5. \A t \in Servers : t # s => (holder'[Settings] = t <=> holder[Settings] = t)
  BY <1>2, <1>3
<1>6. holder'[Settings] # s
  BY <1>2, <1>3
<1>7. Ground'
  BY <1>1, <1>4, <1>5, <1>6 DEF Ground
<1>8. ASSUME Facing, server[s].pc \notin InPlace, NEW u \in Servers, server'[u].pc = "taken"
      PROVE  \E t \in Servers : holder'[Settings] = t /\ server'[t].pc \in InPlace
  <2>1. server[u].pc = "taken"
    BY <1>1, <1>8
  <2>2. PICK t \in Servers : holder[Settings] = t /\ server[t].pc \in InPlace
    BY <1>8, <2>1 DEF Facing
  <2>3. t # s
    BY <1>8, <2>2
  <2> QED
    BY <1>1, <1>5, <2>2, <2>3
<1> QED
  BY <1>7, <1>8 DEF Facing

LEMMA FreshApart ==
    /\ Gone.pc = "off" /\ Gone.where = Home /\ ~ Gone.handle /\ ~ Gone.moved
    /\ Created.pc = "look" /\ Created.where = Home /\ ~ Created.handle /\ ~ Created.moved
  BY DEF Gone, Created

\* A process ends.
LEMMA OneEnds ==
    ASSUME TypeOK, Ground, NEW s \in Servers, End(s)
    PROVE  /\ Ground'
           /\ Facing /\ server[s].pc \notin InPlace => Facing'
<1>1. Goes(s, Gone) /\ holder' = Without(s) /\ UNCHANGED file
  BY DEF End, Ends
<1>2. Gone.pc \in Apart \ {"taken"}
  BY FreshApart DEF Apart
<1> QED
  BY <1>1, <1>2, FreshApart, OneLeaves

\* A fresh process begins.
LEMMA OneBegins ==
    ASSUME TypeOK, Ground, Facing, Spawn, UNCHANGED <<file, holder>>
    PROVE  Ground' /\ Facing'
<1>1. PICK s \in Off : Goes(s, Created)
  BY DEF Spawn
<1>2. s \in Servers /\ server[s].pc = "off"
  BY DEF Off
<1>3. Created.pc \notin Holding /\ Created.pc \in Holding \cup Apart /\ Created.pc # "taken"
  BY FreshApart DEF Holding, Apart
<1>4. server[s].pc \notin Holding /\ server[s].pc \notin InPlace
  BY <1>2 DEF Holding, InPlace
<1>5. Ground'
  BY <1>1, <1>3, <1>4, FreshApart, OneMoves
<1>6. Facing'
  BY <1>1, <1>3, <1>4, OthersFace
<1> QED
  BY <1>5, <1>6

\* Whoever faces a gate in place gets an answer, or will: it does not give the
\* port up.
LEMMA SomebodyAnswers ==
    ASSUME TypeOK, Ground, Facing, NEW s \in Servers, server[s].pc = "taken"
    PROVE  ~ NoAnswer(Home) /\ ~ Babble(Home)
<1>1. PICK t \in Servers : holder[Settings] = t /\ server[t].pc \in InPlace
  BY DEF Facing
<1>2. Is(t, "bound") \/ (Is(t, "serving") /\ server[t].where = Home)
  BY <1>1 DEF Ground, InPlace, Is
<1>3. Home.port = Settings
  BY DEF Home
<1> QED
  BY <1>1, <1>2, <1>3, ResidentAssumption DEF NoAnswer, Answers, Babble

\* A server goes on with another field of its record, in the same place.
LEMMA OneStays ==
    ASSUME TypeOK, Ground, Facing, NEW s, NEW next, Goes(s, next),
           s \in Servers => /\ next.pc = server[s].pc /\ next.where = server[s].where
                            /\ next.handle = server[s].handle /\ next.moved = server[s].moved,
           UNCHANGED <<file, holder>>
    PROVE  Ground' /\ Facing'
<1>1. ASSUME NEW t \in Servers
      PROVE  server'[t] = IF t = s THEN next ELSE server[t]
  BY DEF Goes, TypeOK
<1>2. Ground'
  BY <1>1 DEF Ground
<1>3. \A t \in Servers : server'[t].pc = server[t].pc
  BY <1>1
<1>4. Facing'
  BY <1>3 DEF Facing
<1> QED
  BY <1>2, <1>4

\* A step of a process towards the port.
LEMMA StartingStep ==
    ASSUME TypeOK, Ground, Facing, NEW s \in Servers, Starting(s), ~ met'
    PROVE  Ground' /\ Facing'
<1>1. server[s].where = Home /\ ~ server[s].handle /\ ~ server[s].moved /\ server[s] \in Server
  BY DEF Ground, TypeOK
<1>2. Home.port = Settings /\ file = Home /\ file \notin Unreadable
  BY Addresses DEF Home, Ground, Unreadable
<1>3. CASE Look(s)
  <2> DEFINE next == [server[s] EXCEPT !.pc = "read"]
  <2>1. Goes(s, next) /\ UNCHANGED <<file, holder>> /\ server[s].pc = "look"
    BY <1>2, <1>3, Addresses DEF Look, Is
  <2>2. next.pc = "read" /\ next.where = Home /\ ~ next.handle /\ ~ next.moved
    BY <1>1 DEF Server
  <2> HIDE DEF next
  <2>3. Ground'
    BY <2>1, <2>2, OneMoves DEF Holding, Apart
  <2>4. Facing'
    BY <2>1, <2>2, OthersFace DEF InPlace
  <2> QED
    BY <2>3, <2>4
<1>4. CASE Read(s)
  <2> DEFINE next == [server[s] EXCEPT !.pc = "bind", !.where = file]
  <2>1. Goes(s, next) /\ UNCHANGED <<file, holder>> /\ server[s].pc = "read"
    BY <1>4 DEF Read, Is
  <2>2. next.pc = "bind" /\ next.where = Home /\ ~ next.handle /\ ~ next.moved
    BY <1>1, <1>2 DEF Server
  <2> HIDE DEF next
  <2>3. Ground'
    BY <2>1, <2>2, OneMoves DEF Holding, Apart
  <2>4. Facing'
    BY <2>1, <2>2, OthersFace DEF InPlace
  <2> QED
    BY <2>3, <2>4
<1>5. CASE ReadFails(s)
  BY <1>2, <1>5 DEF ReadFails
<1>6. CASE Create(s) \/ Fill(s)
  BY <1>6 DEF Create, Fill, Is, Ground, Holding, Apart
<1>7. CASE Bind(s)
  <2> DEFINE next == [server[s] EXCEPT !.pc = "bound"]
  <2>1. Goes(s, next) /\ file' = file /\ server[s].pc = "bind" /\ holder[Settings] = "free"
    BY <1>1, <1>2, <1>7 DEF Bind, Is
  <2>2. holder'[Settings] = s
    BY <1>1, <1>2, <1>7, ResidentAssumption DEF Bind, Without
  <2>3. ASSUME NEW t \in Servers
        PROVE  server'[t] = IF t = s THEN next ELSE server[t]
    BY <2>1 DEF Goes, TypeOK
  <2>4. next.pc = "bound" /\ next.where = Home /\ ~ next.handle /\ ~ next.moved
    BY <1>1 DEF Server
  <2>5. \A t \in Servers : holder[Settings] # t
    BY <2>1, ResidentAssumption
  <2> HIDE DEF next
  <2>6. Ground'
    BY <2>1, <2>2, <2>3, <2>4, <2>5 DEF Ground, Holding, Apart
  <2>7. Facing'
    BY <2>3, <2>4, <2>5 DEF Facing
  <2> QED
    BY <2>6, <2>7
<1>8. CASE BindFails(s)
  <2> DEFINE next == [server[s] EXCEPT !.pc = "taken"]
  <2>1. Goes(s, next) /\ UNCHANGED <<file, holder>> /\ server[s].pc = "bind" /\ Noted
    BY <1>1, <1>8 DEF BindFails, ConstructionFails, Is
  <2>2. next.pc = "taken" /\ next.where = Home /\ ~ next.handle /\ ~ next.moved
    BY <1>1 DEF Server
  <2> HIDE DEF next
  <2>3. Ground'
    BY <2>1, <2>2, OneMoves DEF Holding, Apart
  <2> QED
    BY <2>1, <2>3, StillFacing
<1>9. CASE Serve(s)
  <2> DEFINE next == [server[s] EXCEPT !.pc = "serving", !.marker = installed,
                                       !.looked = installed]
  <2>1. Goes(s, next) /\ UNCHANGED <<file, holder>> /\ server[s].pc = "bound"
    BY <1>9 DEF Serve, Is
  <2>2. next.pc = "serving" /\ next.where = Home /\ ~ next.handle /\ ~ next.moved
    BY <1>1 DEF Server
  <2> HIDE DEF next
  <2>3. Ground'
    BY <2>1, <2>2, OneMoves DEF Holding, Apart
  <2>4. Facing'
    BY <2>1, <2>2, OthersFace DEF InPlace
  <2> QED
    BY <2>3, <2>4
<1>10. CASE StepAside(s)
  <2>1. End(s) /\ server[s].pc = "taken"
    BY <1>10 DEF StepAside, Is
  <2> QED
    BY <2>1, OneEnds DEF InPlace
<1>11. CASE GiveUpPort(s) \/ HealthRaises(s)
  <2>1. server[s].pc = "taken" /\ (NoAnswer(Home) \/ Babble(Home))
    BY <1>1, <1>11 DEF GiveUpPort, HealthRaises, Is
  <2> QED
    BY <2>1, SomebodyAnswers
<1> QED
  BY <1>3, <1>4, <1>5, <1>6, <1>7, <1>8, <1>9, <1>10, <1>11 DEF Starting

\* A step of a server on its way out, or its end.
LEMMA EndingStep ==
    ASSUME TypeOK, Ground, Facing, ~ met', NEW s \in Servers,
           Ending(s) \/ ServeFails(s) \/ ReplaceFails(s) \/ Die(s)
    PROVE  Ground' /\ Facing'
<1>1. server[s].where = Home /\ ~ server[s].handle /\ ~ server[s].moved /\ server[s] \in Server
  BY DEF Ground, TypeOK
<1>2. CASE WatchExit(s)
  <2> DEFINE next == [server[s] EXCEPT !.leaving = TRUE]
  <2>1. Goes(s, next) /\ UNCHANGED <<file, holder>>
    BY <1>2 DEF WatchExit
  <2>2. /\ next.pc = server[s].pc /\ next.where = server[s].where
        /\ next.handle = server[s].handle /\ next.moved = server[s].moved
    BY <1>1 DEF Server
  <2> HIDE DEF next
  <2> QED
    BY <2>1, <2>2, OneStays
<1>3. CASE Shutdown(s)
  <2> DEFINE next == [server[s] EXCEPT !.pc = "stopped"]
  <2>1. Goes(s, next) /\ UNCHANGED <<file, holder>> /\ server[s].pc = "serving" /\ Noted
    BY <1>3 DEF Shutdown, Is
  <2>2. next.pc = "stopped" /\ next.where = Home /\ ~ next.handle /\ ~ next.moved
    BY <1>1 DEF Server
  <2> HIDE DEF next
  <2>3. Ground'
    BY <2>1, <2>2, OneMoves DEF Holding, Apart
  <2> QED
    BY <2>1, <2>3, StillFacing
<1>4. CASE ServerClose(s)
  <2> DEFINE next == [server[s] EXCEPT !.pc = "closed"]
  <2>1. Goes(s, next) /\ holder' = Without(s) /\ UNCHANGED file /\ server[s].pc = "stopped"
    BY <1>4 DEF ServerClose, Is
  <2>2. next.pc = "closed" /\ next.where = Home /\ ~ next.handle /\ ~ next.moved
    BY <1>1 DEF Server
  <2>3. next.pc \in Apart \ {"taken"} /\ server[s].pc \notin InPlace
    BY <2>1, <2>2 DEF Apart, InPlace
  <2> HIDE DEF next
  <2> QED
    BY <2>1, <2>2, <2>3, OneLeaves
<1>5. CASE Replace(s)
  <2>1. Goes(s, Created) /\ holder' = Without(s) /\ UNCHANGED file /\ server[s].pc = "closed"
    BY <1>5 DEF Replace, Ends, Is
  <2>2. Created.pc \in Apart \ {"taken"} /\ server[s].pc \notin InPlace
    BY <2>1, FreshApart DEF Apart, InPlace
  <2> QED
    BY <2>1, <2>2, FreshApart, OneLeaves
<1>6. CASE Exit(s) \/ ReplaceFails(s)
  <2>1. End(s) /\ server[s].pc = "closed"
    BY <1>6 DEF Exit, ReplaceFails, Is
  <2> QED
    BY <2>1, OneEnds DEF InPlace
<1>7. CASE Die(s)
  <2>1. End(s) /\ Noted
    BY <1>7 DEF Die
  <2> QED
    BY <2>1, OneEnds, StillFacing
<1>8. CASE ServeFails(s)
  \* The port is the process's own: it faces nobody.
  <2>1. server' = [server EXCEPT ![s] = [server[s] EXCEPT !.pc = "taken"]]
        /\ holder' = holder /\ server[s].pc = "bound" /\ Noted
    BY <1>1, <1>8 DEF ServeFails, ConstructionFails, Goes, Is
  <2>2. server'[s] = [server[s] EXCEPT !.pc = "taken"]
    BY <2>1 DEF TypeOK
  <2>3. server'[s].pc = "taken" /\ server'[s].where = Home
    BY <1>1, <2>2 DEF Server
  <2>4. holder[Settings] = s /\ Home.port = Settings
    BY <2>1 DEF Ground, Holding, Home
  <2>5. Met'
    BY <2>1, <2>3, <2>4 DEF Met, Is
  <2> QED
    BY <2>1, <2>5 DEF Noted
<1> QED
  BY <1>2, <1>3, <1>4, <1>5, <1>6, <1>7, <1>8 DEF Ending

\* A step of the host, of a handler or of POST /stop moves no server.
LEMMA HandlingStep ==
    ASSUME TypeOK, Ground, Facing,
           \/ \E s \in Servers : Stop(s) \/ IdlePasses(s)
           \/ \E c \in Calls : Handling(c) \/ LookFails(c)
    PROVE  Ground' /\ Facing'
<1>1. ASSUME NEW s \in Servers, Stop(s) PROVE Ground' /\ Facing'
  <2> DEFINE next == [server[s] EXCEPT !.asked = TRUE, !.replace = FALSE,
                                       !.leaving = TRUE, !.quiet = FALSE]
  <2>1. server[s] \in Server
    BY DEF TypeOK
  <2>2. /\ next.pc = server[s].pc /\ next.where = server[s].where
        /\ next.handle = server[s].handle /\ next.moved = server[s].moved
    BY <2>1 DEF Server
  <2>3. Goes(s, next) /\ UNCHANGED <<file, holder>>
    BY <1>1 DEF Stop
  <2> HIDE DEF next
  <2> QED
    BY <2>2, <2>3, OneStays
<1>2. ASSUME NEW s \in Servers, NEW quiet, Goes(s, [server[s] EXCEPT !.quiet = quiet]),
             UNCHANGED <<file, holder>>
      PROVE  Ground' /\ Facing'
  <2> DEFINE next == [server[s] EXCEPT !.quiet = quiet]
  <2>1. server[s] \in Server
    BY DEF TypeOK
  <2>2. /\ next.pc = server[s].pc /\ next.where = server[s].where
        /\ next.handle = server[s].handle /\ next.moved = server[s].moved
    BY <2>1 DEF Server
  <2>3. Goes(s, next)
    BY <1>2
  <2> HIDE DEF next
  <2> QED
    BY <1>2, <2>2, <2>3, OneStays
<1>3. ASSUME NEW s \in Servers, IdlePasses(s) PROVE Ground' /\ Facing'
  BY <1>2, <1>3 DEF IdlePasses
<1>4. ASSUME NEW c \in Calls, Post(c) PROVE Ground' /\ Facing'
  BY <1>2, <1>4 DEF Post
<1>5. ASSUME NEW c \in Calls, Reply(c) PROVE Ground' /\ Facing'
  BY <1>5 DEF Reply, Ground, Facing
<1>6. ASSUME NEW c \in Calls, NEW seen, NEW stale, AfterAnswer(c, seen, stale)
      PROVE  Ground' /\ Facing'
  <2> DEFINE s == call[c].at
             next == [server[s] EXCEPT !.looked = seen, !.leaving = @ \/ stale,
                                       !.replace = @ \/ stale]
  <2>1. Goes(s, next) /\ UNCHANGED <<file, holder>>
    BY <1>6 DEF AfterAnswer
  <2>2. s \in Servers => /\ next.pc = server[s].pc /\ next.where = server[s].where
                         /\ next.handle = server[s].handle /\ next.moved = server[s].moved
    <3>1. s \in Servers => server[s] \in Server
      BY DEF TypeOK
    <3> QED
      BY <3>1 DEF Server
  <2> HIDE DEF s, next
  <2> QED
    BY <2>1, <2>2, OneStays
<1>7. ASSUME NEW c \in Calls, ReuseLook(c) \/ LookAgain(c) \/ LookFails(c)
      PROVE  Ground' /\ Facing'
  BY <1>6, <1>7 DEF ReuseLook, LookAgain, LookFails
<1> QED
  BY <1>1, <1>3, <1>4, <1>5, <1>7 DEF Handling

\* A program that takes a port takes a free one, and leaves its own.
LEMMA ForeignStep ==
    ASSUME TypeOK, Ground, Facing, Foreign
    PROVE  Ground' /\ Facing'
<1>1. server' = server /\ file' = file
  BY DEF Foreign
<1>2. PICK port \in Ports, kind \in {"http", "mute"} :
         \/ holder[port] = "free" /\ holder' = [holder EXCEPT ![port] = kind]
         \/ holder[port] = kind /\ holder' = [holder EXCEPT ![port] = "free"]
  BY DEF Foreign
<1>3. \A t \in Servers : t \notin {"free", "http", "mute"}
  BY ResidentAssumption
<1>4. \A t \in Servers : holder'[Settings] = t <=> holder[Settings] = t
  BY <1>2, <1>3, ResidentAssumption DEF TypeOK
<1>5. Ground'
  BY <1>1, <1>4 DEF Ground
<1>6. Facing'
  BY <1>1, <1>4 DEF Facing
<1> QED
  BY <1>5, <1>6

\* Each step keeps the port, as long as nobody misses a gate.
LEMMA GroundStep ==
    ASSUME TypeOK, Ground, Facing, Next, ~ met'
    PROVE  Ground' /\ Facing'
<1>1. CASE StartByHand
  BY <1>1, OneBegins DEF StartByHand
<1>2. ASSUME NEW e \in Sessions, Ensure(e) PROVE Ground' /\ Facing'
  <2>1. CASE EnsureSpawn(e)
    BY <2>1, OneBegins DEF EnsureSpawn
  <2>2. CASE EnsureRead(e) \/ EnsureHealth(e)
    BY <2>2 DEF EnsureRead, EnsureHealth, Ground, Facing
  <2> QED
    BY <1>2, <2>1, <2>2 DEF Ensure
<1>3. CASE Install
  BY <1>3 DEF Install, Ground, Facing
<1> QED
  BY <1>1, <1>2, <1>3, StartingStep, EndingStep, HandlingStep, ForeignStep DEF Next

-----------------------------------------------------------------------------
LEMMA ResidentStarts == Init => ResidentInv
<1> SUFFICES ASSUME Init PROVE ResidentInv
  OBVIOUS
<1>1. TypeOK
  BY Addresses, Fresh, ResidentAssumption DEF Init, TypeOK, Proposed
<1>2. Ground /\ Facing
  BY FreshApart, ResidentAssumption DEF Init, Ground, Facing, Holding, Apart
<1> QED
  BY <1>1, <1>2 DEF ResidentInv

LEMMA ResidentStep == ResidentInv /\ [Next]_vars => ResidentInv'
<1> SUFFICES ASSUME ResidentInv, [Next]_vars PROVE ResidentInv'
  OBVIOUS
<1>1. TypeOK'
  BY TypeStep DEF ResidentInv
<1>2. CASE Next
  BY <1>1, <1>2, MetBefore, GroundStep DEF ResidentInv
<1>3. CASE UNCHANGED vars
  BY <1>1, <1>3 DEF ResidentInv, vars, history, Ground, Facing
<1> QED
  BY <1>2, <1>3

\* One holder of the port is one gate that serves.
LEMMA GroundIsOne == ASSUME ResidentInv PROVE OneGate
<1> SUFFICES ASSUME ~ met PROVE Cardinality(Serving) <= 1 /\ file = Home
  BY DEF OneGate
<1>1. Serving \subseteq {holder[Settings]}
  BY DEF ResidentInv, Ground, Serving, Is, Holding
<1>2. IsFiniteSet({holder[Settings]}) /\ Cardinality({holder[Settings]}) = 1
  BY FS_Singleton
<1>3. Cardinality(Serving) <= 1
  BY <1>1, <1>2, FS_Subset
<1> QED
  BY <1>3 DEF ResidentInv, Ground

\* The variables of resident.py keep their types, whatever happens.
THEOREM ResidentTypeOK == Spec => []TypeOK
<1>1. ResidentInv => TypeOK
  BY DEF ResidentInv
<1> QED
  BY <1>1, ResidentStarts, ResidentStep, PTL DEF Spec

\* However starts, stops, idle exits, replacements, kills and other programs
\* interleave, one gate serves a home and resident.json keeps the address that
\* the settings name, until a start that could not have the port does not find a
\* gate in place there (serve, address and ensure of resident.py).
THEOREM ResidentIsOne == Spec => []OneGate
  BY ResidentStarts, ResidentStep, GroundIsOne, PTL DEF Spec
=============================================================================
