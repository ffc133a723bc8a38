---------------------------- MODULE ServicesProofs ----------------------------
(***************************************************************************)
(* What is proved of the services around the ledger, for any values of the *)
(* constants: of the circuit breaker, the rate limiter, the ensemble with  *)
(* the Sonar agent and the correlation ids of the log, of each alone and   *)
(* of all together, and of the health reports that look at them.           *)
(***************************************************************************)
EXTENDS Services, FiniteSetTheorems, TLAPS

-----------------------------------------------------------------------------
(* The circuit breaker.  The strengthenings: the last failure is no older   *)
(* than the last trip, and a half-open breaker has cooled down; what of the *)
(* failures is in the window is what a history kept apart from it counts.   *)

Ages == 0 .. Old \cup {Never}

\* The parts of the type invariant the argument needs, and the strengthening.
Cooling ==
    /\ state \in States
    /\ lastFailure \in Ages
    /\ tripped \in Ages
    /\ running \in [Callers -> {"idle", "CLOSED", "HALF_OPEN"}]
    /\ state = "OPEN" => tripped # Never /\ lastFailure # Never
                         /\ lastFailure <= tripped
    /\ state = "HALF_OPEN" => tripped > RecoveryTimeout

\* The bounds of ages.
LEMMA OldIs == Old \in Nat /\ Old > RecoveryTimeout /\ Old > WindowSize
  BY BreakerAssumption DEF Old

\* Time keeps ages in their order, and what has cooled down stays so.
LEMMA OlderKeeps ==
    ASSUME NEW a \in Ages, NEW b \in Ages
    PROVE  /\ Older(a) \in Ages
           /\ a # Never => Older(a) # Never
           /\ a # Never /\ b # Never /\ a <= b => Older(a) <= Older(b)
           /\ a > RecoveryTimeout => Older(a) > RecoveryTimeout
  BY OldIs, BreakerAssumption DEF Ages, Older, Never

\* Looking at the state is the only way from open to half-open, after the
\* recovery timeout.
LEMMA CheckedCools ==
    ASSUME Cooling
    PROVE  /\ Checked \in States
           /\ Checked = "OPEN" => state = "OPEN"
           /\ Checked = "HALF_OPEN" => tripped > RecoveryTimeout
           /\ Checked = "CLOSED" => state = "CLOSED"
  BY BreakerAssumption, OldIs DEF Cooling, Checked, States, Ages, Never

\* The strengthening is inductive.
LEMMA CoolingStep == Cooling /\ [Next]_vars => Cooling'
<1> SUFFICES ASSUME Cooling, [Next]_vars PROVE Cooling'
  OBVIOUS
<1> USE DEF world, history, breaker
<1>1. ASSUME NEW c \in Callers, Admit(c) PROVE Cooling'
  <2>1. running'[c] \in {"CLOSED", "HALF_OPEN"} /\ state' = Checked
    BY <1>1, CheckedCools DEF Admit, Cooling, States
  <2> QED
    BY <1>1, <2>1, CheckedCools DEF Admit, Cooling, States
<1>2. ASSUME NEW c \in Callers, Succeed(c) PROVE Cooling'
  BY <1>2 DEF Succeed, Cooling, States
<1>3. ASSUME NEW c \in Callers, Fail(c) PROVE Cooling'
  <2>1. 0 \in Ages /\ 0 # Never
    BY OldIs DEF Ages, Never
  <2>2. CASE state' = "OPEN" /\ tripped' = 0
    BY <1>3, <2>1, <2>2 DEF Fail, Cooling, States
  <2>3. CASE UNCHANGED <<state, tripped>>
    BY <1>3, <2>1, <2>3, OldIs DEF Fail, Cooling, Ages
  <2> QED
    BY <1>3, <2>2, <2>3 DEF Fail
<1>4. ASSUME NEW c \in Callers, Cancel(c) PROVE Cooling'
  BY <1>4 DEF Cancel, Cooling
<1>5. CASE GetState
  BY <1>5, CheckedCools DEF GetState, Cooling
<1>6. CASE Tick
  BY <1>6, OlderKeeps DEF Tick, Cooling
<1>7. CASE GetFailureCount \/ Outage \/ UNCHANGED vars
  BY <1>7 DEF GetFailureCount, Outage, vars, Cooling
<1>8. ASSUME NEW c \in Callers, Refuse(c) PROVE Cooling'
  BY <1>8 DEF Refuse, vars, Cooling
<1> QED
  BY <1>1, <1>2, <1>3, <1>4, <1>5, <1>6, <1>7, <1>8 DEF Next

\* The strengthening holds at the start.
LEMMA CoolingStarts == Init => Cooling
  BY OldIs DEF Init, Cooling, States, Ages, Never

\* What the property says of a step, the looks of a health report included.
LEMMA CoolingAdmits ==
    ASSUME Cooling, [Next]_vars \/ LooksAtBreaker("deep"),
           NEW c \in Callers, running[c] = "idle", running'[c] # "idle"
    PROVE  state = "CLOSED" \/ tripped > RecoveryTimeout
<1>1. Admit(c)
  BY DEF Next, Admit, Succeed, Fail, Cancel, GetState, GetFailureCount,
         Outage, Tick, Refuse, LooksAtBreaker, vars, Cooling
<1> QED
  BY <1>1, CheckedCools DEF Admit, States

\* However calls overlap, and whatever fails late, the breaker cools down after
\* every trip before it lets a call through.
THEOREM BreakerCoolsDown == Spec => CoolsDown
<1>1. Cooling /\ [Next]_vars =>
        [(\E c \in Callers : running[c] = "idle" /\ running'[c] # "idle")
           => state = "CLOSED" \/ tripped > RecoveryTimeout]_vars
  BY CoolingAdmits
<1> QED
  BY <1>1, CoolingStarts, CoolingStep, PTL DEF Spec, CoolsDown

\* What the count of failures needs: what the window holds of the failures is
\* exactly what the history has, and a closed breaker has seen fewer than trip it.
Failures == [age : 0 .. Old, nr : Nat]

Newest == {e \in failures : e.age = 0}

Counting ==
    \* Of one moment each failure has a number of its own, so each is counted.
    /\ \A e \in Newest : e.nr < Cardinality(Newest)
    /\ state \in States
    /\ failures \subseteq Failures
    /\ IsFiniteSet(failures)
    /\ Pruned(failures) = sinceClose
    /\ state = "CLOSED" => Cardinality(sinceClose) < Threshold

\* The strengthening holds at the start.
LEMMA CountingStarts == Init => Counting
  BY FS_EmptySet, BreakerAssumption DEF Init, Counting, States, Pruned, Newest

\* A failure of this moment is kept by the pruning, and what is pruned once is
\* pruned for good.
LEMMA NewFailureStays ==
    ASSUME Counting
    PROVE  /\ failures \cup {Failure} \subseteq Failures
           /\ IsFiniteSet(failures \cup {Failure})
           /\ Pruned(failures \cup {Failure}) = sinceClose \cup {Failure}
           /\ Pruned(Pruned(failures \cup {Failure})) = Pruned(failures \cup {Failure})
           /\ Failure \notin failures
           /\ \A e \in Newest \cup {Failure} : e.nr < Cardinality(Newest \cup {Failure})
<1>1. IsFiniteSet(Newest) /\ Cardinality(Newest) \in Nat
  BY FS_Subset, FS_CardinalityType DEF Counting, Newest
<1>2. Failure \in Failures /\ Failure.age = 0 /\ Failure.age <= WindowSize
  BY <1>1, OldIs, BreakerAssumption DEF Failure, Failures, Newest
<1>3. IsFiniteSet(failures \cup {Failure})
  BY FS_AddElement DEF Counting
<1>4. Failure.nr = Cardinality(Newest)
  BY DEF Failure, Newest
<1>5. Failure \notin failures /\ Failure \notin Newest
  BY <1>1, <1>2, <1>4 DEF Counting, Newest
<1>6. Cardinality(Newest \cup {Failure}) = Cardinality(Newest) + 1
  BY <1>1, <1>5, FS_AddElement
<1>7. \A e \in Newest : e.nr \in Nat /\ e.nr < Cardinality(Newest)
  BY DEF Counting, Newest, Failures
<1>8. \A e \in Newest \cup {Failure} : e.nr < Cardinality(Newest \cup {Failure})
  BY <1>1, <1>4, <1>6, <1>7
<1> QED
  BY <1>2, <1>3, <1>5, <1>8 DEF Counting, Pruned

\* Time takes failures out of the window, and puts none back in.
LEMMA AgingCounts ==
    ASSUME Counting
    PROVE  /\ Aged(failures) \subseteq Failures
           /\ IsFiniteSet(Aged(failures))
           /\ Pruned(Aged(failures)) = Recent(Aged(sinceClose))
           /\ \A e \in Aged(failures) : e.age # 0
           /\ Cardinality(Recent(Aged(sinceClose))) <= Cardinality(sinceClose)
           /\ Cardinality(Recent(Aged(sinceClose))) \in Nat
           /\ Cardinality(sinceClose) \in Nat
<1> DEFINE older(e) == [e EXCEPT !.age = Older(@)]
<1>1. ASSUME NEW e \in Failures
      PROVE  /\ older(e) \in Failures /\ older(e).age # 0
             /\ older(e).age <= WindowSize => e.age <= WindowSize
  <2>1. e.age \in 0 .. Old /\ e.nr \in Nat /\ older(e) = [age |-> Older(e.age), nr |-> e.nr]
    BY DEF Failures
  <2>2. /\ Older(e.age) \in 1 .. Old
        /\ Older(e.age) <= WindowSize => e.age <= WindowSize
    BY <2>1, OldIs, BreakerAssumption DEF Older, Never
  <2> QED
    BY <2>1, <2>2 DEF Failures
<1>2. ASSUME NEW S, IsFiniteSet(S)
      PROVE  IsFiniteSet(Aged(S)) /\ Cardinality(Aged(S)) <= Cardinality(S)
  <2> DEFINE g == [e \in S |-> older(e)]
  <2>1. Aged(S) = {older(e) : e \in S}
    BY DEF Aged
  <2>2. g \in Surjection(S, Aged(S))
    BY <2>1 DEF Surjection
  <2> HIDE DEF g
  <2> QED
    BY <1>2, <2>2, FS_Surjection
<1>3. failures \subseteq Failures /\ IsFiniteSet(failures) /\ sinceClose = Pruned(failures)
  BY DEF Counting
<1>4. sinceClose \subseteq failures /\ IsFiniteSet(sinceClose)
  BY <1>3, FS_Subset DEF Pruned
<1>5. Aged(failures) \subseteq Failures /\ \A e \in Aged(failures) : e.age # 0
  BY <1>1, <1>3 DEF Aged
<1>6. Pruned(Aged(failures)) = Recent(Aged(sinceClose))
  <2>1. ASSUME NEW e \in failures, older(e).age <= WindowSize PROVE older(e) \in Aged(sinceClose)
    BY <1>1, <1>3, <2>1 DEF Aged, Pruned
  <2>2. \A x \in Aged(failures) : \E e \in failures : x = older(e)
    BY DEF Aged
  <2>3. Aged(sinceClose) \subseteq Aged(failures)
    BY <1>4 DEF Aged
  <2> HIDE DEF older
  <2> QED
    BY <2>1, <2>2, <2>3 DEF Pruned, Recent
<1>7. /\ IsFiniteSet(Aged(sinceClose)) /\ Cardinality(Aged(sinceClose)) <= Cardinality(sinceClose)
      /\ IsFiniteSet(Aged(failures))
  BY <1>2, <1>3, <1>4
<1>8. /\ IsFiniteSet(Recent(Aged(sinceClose)))
      /\ Cardinality(Recent(Aged(sinceClose))) <= Cardinality(Aged(sinceClose))
  BY <1>7, FS_Subset DEF Recent
<1>9. /\ Cardinality(Recent(Aged(sinceClose))) \in Nat /\ Cardinality(sinceClose) \in Nat
      /\ Cardinality(Aged(sinceClose)) \in Nat
  BY <1>4, <1>7, <1>8, FS_CardinalityType
<1> QED
  BY <1>5, <1>6, <1>7, <1>8, <1>9

\* Every step keeps the count, the looks of a health report included.
LEMMA CountingStep ==
    ASSUME Counting, [Next]_vars \/ LooksAtBreaker("deep")
    PROVE  /\ Counting'
           /\ state # "OPEN" /\ state' = "OPEN" => Cardinality(sinceClose') >= Threshold
           /\ state' = "CLOSED" => Cardinality(sinceClose') < Threshold
<1> DEFINE Goal == /\ Counting'
                   /\ state # "OPEN" /\ state' = "OPEN" => Cardinality(sinceClose') >= Threshold
<1>0. Checked \in States /\ (Checked = "CLOSED" <=> state = "CLOSED") /\ (Checked = "OPEN" => state = "OPEN")
  BY DEF Counting, Checked, States
<1> USE DEF world, history, breaker
<1>a. /\ Pruned(failures) \subseteq Failures /\ IsFiniteSet(Pruned(failures))
      /\ Pruned(Pruned(failures)) = sinceClose
      /\ {e \in Pruned(failures) : e.age = 0} = Newest
  BY FS_Subset, BreakerAssumption DEF Counting, Pruned, Newest
<1>1. ASSUME NEW c \in Callers, Admit(c) PROVE Goal
  BY <1>0, <1>1 DEF Admit, Counting, Pruned, Newest
<1>2. ASSUME NEW c \in Callers, Succeed(c) PROVE Goal
  <2>1. IsFiniteSet({}) /\ Cardinality({}) < Threshold
    BY FS_EmptySet, BreakerAssumption
  <2> QED
    BY <1>2, <2>1 DEF Succeed, Counting, States, Pruned, Newest
<1>3. ASSUME NEW c \in Callers, Fail(c) PROVE Goal
  <2>1. /\ failures' = Pruned(failures \cup {Failure})
        /\ sinceClose' = sinceClose \cup {Failure}
        /\ failures' = sinceClose' /\ Pruned(failures') = sinceClose'
    BY <1>3, NewFailureStays DEF Fail, Pruned
  <2>2. failures' \subseteq Failures /\ IsFiniteSet(failures')
    BY <2>1, NewFailureStays, FS_Subset DEF Pruned
  <2>3. Cardinality(failures') \in Nat
    BY <2>2, FS_CardinalityType
  <2>a. Newest' = Newest \cup {Failure}
    BY <2>1, BreakerAssumption DEF Newest, Failure, Pruned
  <2>b. \A e \in Newest' : e.nr < Cardinality(Newest')
    BY <2>a, NewFailureStays
  <2>4. CASE Cardinality(failures') >= Threshold
    BY <1>3, <2>1, <2>2, <2>4, <2>b DEF Fail, Counting, States, Pruned
  <2>5. CASE ~ (Cardinality(failures') >= Threshold)
    <3>1. state' = state /\ Cardinality(sinceClose') < Threshold
      BY <1>3, <2>1, <2>3, <2>5, BreakerAssumption DEF Fail
    <3> QED
      BY <2>1, <2>2, <2>b, <3>1 DEF Counting, Pruned
  <2> QED
    BY <2>4, <2>5
<1>4. ASSUME NEW c \in Callers, Cancel(c) \/ Refuse(c) PROVE Goal
  BY <1>4 DEF Cancel, Refuse, vars, Counting, Pruned, Newest
<1>5. CASE GetState \/ LooksAtBreaker("deep")
  <2>1. state' = Checked /\ sinceClose' = sinceClose
        /\ (failures' = failures \/ failures' = Pruned(failures))
    BY <1>5 DEF GetState, LooksAtBreaker
  <2> QED
    BY <1>0, <1>a, <2>1 DEF Counting, Pruned, Newest
<1>6. CASE GetFailureCount
  BY <1>a, <1>6 DEF GetFailureCount, Counting, Pruned, Newest
<1>7. CASE Outage \/ UNCHANGED vars
  BY <1>7 DEF Outage, vars, Counting, Pruned, Newest
<1>8. CASE Tick
  <2>1. /\ failures' = Aged(failures) /\ sinceClose' = Recent(Aged(sinceClose)) /\ state' = state
    BY <1>8 DEF Tick
  <2>2. Pruned(failures') = sinceClose'
    BY <2>1, AgingCounts
  <2>3. state' = "CLOSED" => Cardinality(sinceClose') < Threshold
    BY <2>1, AgingCounts, BreakerAssumption DEF Counting
  <2>4. Newest' = {}
    BY <2>1, AgingCounts DEF Newest
  <2> QED
    BY <2>1, <2>2, <2>3, <2>4, AgingCounts DEF Counting, Pruned
<1>9. Goal
  BY <1>1, <1>2, <1>3, <1>4, <1>5, <1>6, <1>7, <1>8 DEF Next
<1> QED
  BY <1>9 DEF Counting

\* For any threshold and window, and however calls overlap: the breaker trips on
\* as many failures of one window as the threshold, and not on fewer.
THEOREM BreakerTripsOnThreshold == Spec => TripsOnThreshold
<1>1. Counting /\ [Next]_vars => Counting'
  BY CountingStep
<1>2. Counting /\ [Next]_vars =>
        [/\ state # "OPEN" /\ state' = "OPEN" => Cardinality(sinceClose') >= Threshold
         /\ state' = "CLOSED" => Cardinality(sinceClose') < Threshold]_vars
  BY CountingStep
<1> QED
  BY <1>1, <1>2, CountingStarts, PTL DEF Spec, TripsOnThreshold

-----------------------------------------------------------------------------
(* The limiter.  The strengthening: what is recorded is finite, and of what *)
(* was let through it is exactly the part that still counts.                *)

Entries == [at : Nat, nr : Nat]

\* The strengthening, for one client.
Kept(c) ==
    /\ passed[c] \subseteq Entries
    /\ IsFiniteSet(passed[c])
    /\ requests[c] \subseteq passed[c]
    /\ Fresh(requests[c]) = InWindow(c)
    /\ Cardinality(InWindow(c)) <= MaxRequests

LimiterInv ==
    /\ now \in Nat
    /\ requests \in [Clients -> SUBSET Entries]
    /\ passed \in [Clients -> SUBSET Entries]
    /\ \A c \in Clients : Kept(c)

\* The strengthening holds at the start.
LEMMA LimiterStarts == LimiterInit => LimiterInv
<1> SUFFICES ASSUME LimiterInit PROVE LimiterInv
  OBVIOUS
<1>1. ASSUME NEW c \in Clients PROVE Kept(c)
  <2>1. requests[c] = {} /\ passed[c] = {}
    BY DEF LimiterInit
  <2>2. Fresh(requests[c]) = {} /\ InWindow(c) = {}
    BY <2>1 DEF Fresh, InWindow
  <2>3. IsFiniteSet({}) /\ Cardinality({}) = 0
    BY FS_EmptySet
  <2> QED
    BY <2>1, <2>2, <2>3, LimiterAssumption DEF Kept
<1> QED
  BY <1>1 DEF LimiterInit, LimiterInv

\* Recording one request more than is counted keeps the bound.
LEMMA PassKeeps ==
    ASSUME LimiterInv, NEW c \in Clients, Pass(c)
    PROVE  LimiterInv'
<1> DEFINE e == Entry(c)
<1>1. now \in Nat /\ now' = now /\ IsFiniteSet(passed[c])
  BY DEF LimiterInv, Kept, Pass
<1>2. e \in Entries
  BY <1>1, FS_CardinalityType DEF Entry, Entries
<1>3. /\ requests' = [requests EXCEPT ![c] = Fresh(requests[c]) \cup {e}]
      /\ passed' = [passed EXCEPT ![c] = passed[c] \cup {e}]
  BY DEF Pass
<1>4. Fresh(requests[c]) \subseteq passed[c] /\ passed[c] \subseteq Entries
  BY DEF LimiterInv, Kept, Fresh
<1>5. /\ requests' \in [Clients -> SUBSET Entries]
      /\ passed' \in [Clients -> SUBSET Entries]
  BY <1>2, <1>3, <1>4 DEF LimiterInv
<1>6. ASSUME NEW d \in Clients PROVE Kept(d)'
  <2>1. CASE d # c
    <3>1. requests'[d] = requests[d] /\ passed'[d] = passed[d]
      BY <1>3, <2>1 DEF LimiterInv
    <3> QED
      BY <1>1, <3>1 DEF LimiterInv, Kept, Fresh, InWindow
  <2>2. CASE d = c
    <3>1. /\ requests'[d] = Fresh(requests[c]) \cup {e}
          /\ passed'[d] = passed[c] \cup {e}
      BY <1>3, <2>2 DEF LimiterInv
    <3>2. now - e.at < Window
      BY <1>1, LimiterAssumption DEF Entry
    <3>3. InWindow(d)' = InWindow(c) \cup {e}
      BY <1>1, <3>1, <3>2 DEF InWindow
    <3>4. Fresh(requests[d])' = Fresh(requests[c]) \cup {e}
      BY <1>1, <3>1, <3>2 DEF Fresh
    <3>5. Fresh(requests[c]) = InWindow(c) /\ Cardinality(InWindow(c)) <= MaxRequests
      BY DEF LimiterInv, Kept
    <3>6. IsFiniteSet(InWindow(c))
      BY <1>1, FS_Subset DEF InWindow
    <3>7. /\ Cardinality(InWindow(c) \cup {e}) <= Cardinality(InWindow(c)) + 1
          /\ Cardinality(InWindow(c)) \in Nat
      <4>1. Cardinality(InWindow(c)) \in Nat
        BY <3>6, FS_CardinalityType
      <4>2. \/ Cardinality(InWindow(c) \cup {e}) = Cardinality(InWindow(c))
            \/ Cardinality(InWindow(c) \cup {e}) = Cardinality(InWindow(c)) + 1
        BY <3>6, FS_AddElement
      <4> QED
        BY <4>1, <4>2
    <3>8. Cardinality(InWindow(c)) < MaxRequests
      BY <3>5, <3>7, LimiterAssumption DEF Pass, IsFull
    <3>9. Cardinality(InWindow(d)') <= MaxRequests
      <4>1. Cardinality(InWindow(c) \cup {e}) \in Nat
        BY <3>6, FS_AddElement, FS_CardinalityType
      <4> QED
        BY <3>3, <3>7, <3>8, <4>1, LimiterAssumption
    <3>10. IsFiniteSet(passed'[d]) /\ passed'[d] \subseteq Entries
      BY <1>1, <1>2, <1>4, <3>1, FS_AddElement
    <3>11. requests'[d] \subseteq passed'[d]
      BY <1>4, <3>1
    <3> QED
      BY <3>3, <3>4, <3>5, <3>9, <3>10, <3>11 DEF Kept
  <2> QED
    BY <2>1, <2>2
<1> QED
  BY <1>1, <1>5, <1>6 DEF LimiterInv

\* Purging what is stale takes nothing away that counts.
LEMMA TurnAwayKeeps ==
    ASSUME LimiterInv, NEW c \in Clients, TurnAway(c)
    PROVE  LimiterInv'
<1>1. /\ requests' = [requests EXCEPT ![c] = Fresh(requests[c])]
      /\ now' = now /\ passed' = passed
  BY DEF TurnAway
<1>2. requests' \in [Clients -> SUBSET Entries]
  BY <1>1 DEF LimiterInv, Fresh
<1>3. ASSUME NEW d \in Clients PROVE Kept(d)'
  <2>1. InWindow(d)' = InWindow(d)
    BY <1>1 DEF InWindow
  <2>2. Fresh(requests[d])' = Fresh(requests[d]) /\ requests'[d] \subseteq requests[d]
    BY <1>1 DEF LimiterInv, Fresh
  <2> QED
    BY <1>1, <2>1, <2>2 DEF LimiterInv, Kept
<1> QED
  BY <1>1, <1>2, <1>3 DEF LimiterInv

\* Time only takes requests out of the window.
LEMMA TickKeeps == ASSUME LimiterInv, LimiterTick PROVE LimiterInv'
<1>1. now \in Nat /\ now' = now + 1 /\ requests' = requests /\ passed' = passed
  BY DEF LimiterInv, LimiterTick
<1>2. ASSUME NEW d \in Clients PROVE Kept(d)'
  <2>1. passed[d] \subseteq Entries /\ requests[d] \subseteq passed[d]
        /\ Fresh(requests[d]) = InWindow(d) /\ IsFiniteSet(passed[d])
        /\ Cardinality(InWindow(d)) <= MaxRequests
    BY DEF LimiterInv, Kept
  <2>2. ASSUME NEW e \in Entries, now + 1 - e.at < Window PROVE now - e.at < Window
    BY <1>1, <2>2, LimiterAssumption DEF Entries
  <2>3. InWindow(d)' \subseteq InWindow(d)
    <3> SUFFICES ASSUME NEW e \in InWindow(d)' PROVE e \in InWindow(d)
      OBVIOUS
    <3>1. e \in passed'[d] /\ now' - e.at < Window
      BY DEF InWindow
    <3>2. e \in passed[d] /\ e \in Entries /\ now + 1 - e.at < Window
      BY <1>1, <2>1, <3>1 DEF Entries
    <3> QED
      BY <2>2, <3>2 DEF InWindow
  <2>4. Fresh(requests[d])' = InWindow(d)'
    <3>1. ASSUME NEW e \in InWindow(d)' PROVE e \in Fresh(requests[d])'
      <4>1. e \in requests[d]
        BY <2>1, <2>3, <3>1 DEF Fresh
      <4> QED
        BY <1>1, <3>1, <4>1 DEF Fresh, InWindow
    <3> QED
      BY <1>1, <2>1, <3>1 DEF Fresh, InWindow
  <2>5. IsFiniteSet(InWindow(d))
    BY <2>1, FS_Subset DEF InWindow
  <2>6. /\ Cardinality(InWindow(d)') <= Cardinality(InWindow(d))
        /\ Cardinality(InWindow(d)') \in Nat /\ Cardinality(InWindow(d)) \in Nat
    BY <2>3, <2>5, FS_Subset, FS_CardinalityType
  <2>7. Cardinality(InWindow(d)') <= MaxRequests
    BY <2>1, <2>6, LimiterAssumption
  <2> QED
    BY <1>1, <2>1, <2>4, <2>7 DEF Kept
<1> QED
  BY <1>1, <1>2 DEF LimiterInv

\* The strengthening is inductive.
LEMMA LimiterKeeps == LimiterInv /\ [LimiterNext]_limiter => LimiterInv'
<1> SUFFICES ASSUME LimiterInv, [LimiterNext]_limiter PROVE LimiterInv'
  OBVIOUS
<1>1. CASE UNCHANGED limiter
  BY <1>1 DEF limiter, LimiterInv, Kept, Fresh, InWindow
<1> QED
  BY <1>1, PassKeeps, TurnAwayKeeps, TickKeeps DEF LimiterNext

\* The strengthening says what the property does.
LEMMA KeptIsExact == LimiterInv => LimitExact
<1> SUFFICES ASSUME LimiterInv, NEW c \in Clients
             PROVE  /\ Cardinality(InWindow(c)) <= MaxRequests
                    /\ IsFull(c) => Cardinality(InWindow(c)) = MaxRequests
  BY DEF LimitExact
<1>1. Fresh(requests[c]) = InWindow(c) /\ Cardinality(InWindow(c)) <= MaxRequests
      /\ IsFiniteSet(passed[c])
  BY DEF LimiterInv, Kept
<1>2. Cardinality(InWindow(c)) \in Nat
  BY <1>1, FS_Subset, FS_CardinalityType DEF InWindow
<1> QED
  BY <1>1, <1>2, LimiterAssumption DEF IsFull

\* For any clients, limit and window: the limit holds in every window, and a
\* client is turned away only while its window is full.
THEOREM LimiterIsExact == LimiterSpec => []LimitExact
  BY LimiterStarts, LimiterKeeps, KeptIsExact, PTL DEF LimiterSpec

-----------------------------------------------------------------------------
(* The Sonar agent.  The strengthening: the votes in flight are finitely    *)
(* many, and each step changes their number and the counters together.      *)

Places == {Idle, Rest, Post(0), Post(1)}
Counters == [orchestrations : Nat, violations : Nat, cast : Nat, unsafe : Nat,
             review : Nat, safe : Nat, errors : Nat]

CountersInv ==
    /\ attempt \in [Orders -> Places]
    /\ counters \in Counters
    /\ cancelled \in Nat
    /\ IsFiniteSet(InFlight)
    /\ VotesAddUp

\* Where a vote is.
LEMMA PlacesDiffer == Rest # Idle /\ Post(0) # Idle /\ Post(1) # Idle
<1>1. Idle[1] = "idle" /\ Rest[1] = "rest" /\ Post(0)[1] = "post" /\ Post(1)[1] = "post"
  BY DEF Idle, Rest, Post
<1> QED
  BY <1>1

\* The strengthening holds at the start.
LEMMA CountersStart == EnsembleInit => CountersInv
<1> SUFFICES ASSUME EnsembleInit PROVE CountersInv
  OBVIOUS
<1>1. InFlight = {}
  BY DEF EnsembleInit, InFlight
<1>2. IsFiniteSet(InFlight) /\ Cardinality(InFlight) = 0
  BY <1>1, FS_EmptySet
<1> QED
  BY <1>2 DEF EnsembleInit, CountersInv, Counters, Places, VotesAddUp

\* What changes neither the votes in flight nor the counters of the agent.
LEMMA Untouched ==
    ASSUME CountersInv, attempt' \in [Orders -> Places], InFlight' = InFlight,
           counters' \in Counters, cancelled' \in Nat, cancelled' >= cancelled,
           counters'.cast = counters.cast, counters'.errors = counters.errors,
           counters'.unsafe = counters.unsafe, counters'.review = counters.review,
           counters'.safe = counters.safe
    PROVE  CountersInv'
<1>1. IsFiniteSet(InFlight) /\ Cardinality(InFlight) \in Nat
  BY FS_CardinalityType DEF CountersInv
<1> QED
  BY <1>1 DEF CountersInv, VotesAddUp, Counters

\* A vote begins.
LEMMA OneMore ==
    ASSUME CountersInv, NEW o \in Orders, attempt[o] = Idle,
           attempt' = [attempt EXCEPT ![o] = Post(0)]
    PROVE  /\ attempt' \in [Orders -> Places]
           /\ IsFiniteSet(InFlight') /\ Cardinality(InFlight') = Cardinality(InFlight) + 1
<1>1. attempt' \in [Orders -> Places]
  BY DEF CountersInv, Places
<1>2. InFlight' = InFlight \cup {o} /\ o \notin InFlight
  BY PlacesDiffer DEF InFlight, CountersInv
<1>3. IsFiniteSet(InFlight)
  BY DEF CountersInv
<1> QED
  BY <1>1, <1>2, <1>3, FS_AddElement

\* A vote ends.
LEMMA OneLess ==
    ASSUME CountersInv, NEW o \in Orders,
           attempt' = [attempt EXCEPT ![o] = Idle]
    PROVE  /\ attempt' \in [Orders -> Places]
           /\ IsFiniteSet(InFlight')
           /\ attempt[o] # Idle => Cardinality(InFlight') = Cardinality(InFlight) - 1
           /\ attempt[o] = Idle => InFlight' = InFlight
<1>1. attempt' \in [Orders -> Places]
  BY DEF CountersInv, Places
<1>2. InFlight' = InFlight \ {o} /\ (o \in InFlight <=> attempt[o] # Idle)
  BY DEF InFlight, CountersInv
<1>3. IsFiniteSet(InFlight)
  BY DEF CountersInv
<1> QED
  BY <1>1, <1>2, <1>3, FS_RemoveElement

\* Two counters go up.
LEMMA Counted ==
    ASSUME NEW c \in Counters, NEW n \in Nat
    PROVE  /\ [c EXCEPT !.unsafe = c.unsafe + 1, !.errors = c.errors + n] \in Counters
           /\ [c EXCEPT !.review = c.review + 1, !.errors = c.errors + n] \in Counters
           /\ [c EXCEPT !.safe = c.safe + 1, !.errors = c.errors + n] \in Counters
           /\ [c EXCEPT !.cast = c.cast + 1, !.review = c.review + 1] \in Counters
<1>1. /\ c.unsafe + 1 \in Nat /\ c.review + 1 \in Nat /\ c.safe + 1 \in Nat
      /\ c.cast + 1 \in Nat /\ c.errors + n \in Nat
  BY DEF Counters
<1> QED
  BY <1>1 DEF Counters

\* A vote that ends is counted once.
LEMMA CastsKeeps ==
    ASSUME CountersInv, NEW o \in Orders, attempt[o] # Idle,
           NEW d \in Decisions, NEW errors \in {0, 1}, errors = 1 => d = "REVIEW",
           Casts(o, d, errors), cancelled' = cancelled
    PROVE  CountersInv'
<1>1. /\ attempt' \in [Orders -> Places]
      /\ IsFiniteSet(InFlight')
      /\ Cardinality(InFlight') = Cardinality(InFlight) - 1
  BY OneLess DEF Casts
<1>2. Cardinality(InFlight) \in Nat
  BY FS_CardinalityType DEF CountersInv
<1>3. /\ counters' \in Counters
      /\ counters'.cast = counters.cast
      /\ counters'.errors = counters.errors + errors
      /\ counters'.unsafe = counters.unsafe + (IF d = "UNSAFE" THEN 1 ELSE 0)
      /\ counters'.review = counters.review + (IF d = "REVIEW" THEN 1 ELSE 0)
      /\ counters'.safe = counters.safe + (IF d = "SAFE" THEN 1 ELSE 0)
  <2>0. counters \in Counters /\ errors \in Nat
    BY DEF CountersInv
  <2>1. CASE d = "UNSAFE"
    <3>1. counters' = [counters EXCEPT !.unsafe = counters.unsafe + 1,
                                       !.errors = counters.errors + errors]
      BY <2>1 DEF Casts, Kind
    <3>2. counters' \in Counters
      BY <2>0, <3>1, Counted
    <3>3. /\ counters'.cast = counters.cast
          /\ counters'.errors = counters.errors + errors
          /\ counters'.unsafe = counters.unsafe + 1
          /\ counters'.review = counters.review
          /\ counters'.safe = counters.safe
      BY <2>0, <3>1 DEF Counters
    <3> QED
      BY <2>1, <2>0, <3>2, <3>3 DEF Counters
  <2>2. CASE d = "REVIEW"
    <3>1. counters' = [counters EXCEPT !.review = counters.review + 1,
                                       !.errors = counters.errors + errors]
      BY <2>2 DEF Casts, Kind
    <3>2. counters' \in Counters
      BY <2>0, <3>1, Counted
    <3>3. /\ counters'.cast = counters.cast
          /\ counters'.errors = counters.errors + errors
          /\ counters'.unsafe = counters.unsafe
          /\ counters'.review = counters.review + 1
          /\ counters'.safe = counters.safe
      BY <2>0, <3>1 DEF Counters
    <3> QED
      BY <2>2, <2>0, <3>2, <3>3 DEF Counters
  <2>3. CASE d = "SAFE"
    <3>1. counters' = [counters EXCEPT !.safe = counters.safe + 1,
                                       !.errors = counters.errors + errors]
      BY <2>3 DEF Casts, Kind
    <3>2. counters' \in Counters
      BY <2>0, <3>1, Counted
    <3>3. /\ counters'.cast = counters.cast
          /\ counters'.errors = counters.errors + errors
          /\ counters'.unsafe = counters.unsafe
          /\ counters'.review = counters.review
          /\ counters'.safe = counters.safe + 1
      BY <2>0, <3>1 DEF Counters
    <3> QED
      BY <2>3, <2>0, <3>2, <3>3 DEF Counters
  <2> QED
    BY <2>1, <2>2, <2>3 DEF Decisions
<1> QED
  BY <1>1, <1>2, <1>3 DEF CountersInv, VotesAddUp, Counters, Decisions

\* The steps of a vote.
LEMMA VoteKeeps == ASSUME CountersInv, NEW o \in Orders, VoteStep(o) PROVE CountersInv'
<1>0. Cardinality(InFlight) \in Nat
  BY FS_CardinalityType DEF CountersInv
<1>1. CASE VoteWithoutKey(o)
  <2>1. /\ counters' \in Counters /\ counters'.cast = counters.cast + 1
        /\ counters'.review = counters.review + 1 /\ counters'.errors = counters.errors
        /\ counters'.unsafe = counters.unsafe /\ counters'.safe = counters.safe
    <3>1. counters' = [counters EXCEPT !.cast = counters.cast + 1, !.review = counters.review + 1]
      BY <1>1 DEF VoteWithoutKey
    <3>2. counters \in Counters
      BY DEF CountersInv
    <3>3. counters' \in Counters
      BY <3>1, <3>2, Counted
    <3> QED
      BY <3>1, <3>2, <3>3 DEF Counters
  <2>2. attempt' = attempt /\ cancelled' = cancelled /\ InFlight' = InFlight
    BY <1>1 DEF VoteWithoutKey, InFlight
  <2> QED
    BY <1>0, <2>1, <2>2 DEF CountersInv, VotesAddUp, Counters
<1>2. CASE VoteAsks(o)
  <2>1. /\ counters' \in Counters /\ counters'.cast = counters.cast + 1
        /\ counters'.review = counters.review /\ counters'.errors = counters.errors
        /\ counters'.unsafe = counters.unsafe /\ counters'.safe = counters.safe
    BY <1>2 DEF VoteAsks, CountersInv, Counters
  <2>2. /\ attempt' \in [Orders -> Places] /\ cancelled' = cancelled
        /\ IsFiniteSet(InFlight') /\ Cardinality(InFlight') = Cardinality(InFlight) + 1
    BY <1>2, OneMore DEF VoteAsks
  <2> QED
    BY <1>0, <2>1, <2>2 DEF CountersInv, VotesAddUp, Counters
<1>3. CASE SonarRetries(o) \/ SonarWakes(o)
  <2>1. attempt[o] # Idle /\ \E p \in {Rest, Post(1)} : attempt' = [attempt EXCEPT ![o] = p]
    BY <1>3, PlacesDiffer DEF SonarRetries, SonarWakes, MaxRetries
  <2>2. attempt' \in [Orders -> Places] /\ InFlight' = InFlight
    BY <2>1, PlacesDiffer DEF InFlight, CountersInv, Places
  <2>3. UNCHANGED <<counters, cancelled>>
    BY <1>3 DEF SonarRetries, SonarWakes
  <2> QED
    BY <2>2, <2>3, Untouched DEF CountersInv
<1>4. CASE SonarFails(o)
  <2>1. attempt[o] # Idle /\ Casts(o, "REVIEW", 1) /\ cancelled' = cancelled
    BY <1>4, PlacesDiffer DEF SonarFails, MaxRetries
  <2> QED
    BY <2>1, CastsKeeps DEF Decisions
<1>5. ASSUME NEW reply \in Replies \cup {Malformed}, SonarReplies(o, reply) PROVE CountersInv'
  <2>1. attempt[o] # Idle /\ Casts(o, Verdict(reply), 0) /\ cancelled' = cancelled
    BY <1>5, PlacesDiffer DEF SonarReplies
  <2>2. Verdict(reply) \in Decisions
    BY DEF Verdict, Decisions
  <2> QED
    BY <2>1, <2>2, CastsKeeps
<1>6. ASSUME NEW a \in Agents, NEW outcome \in Outcomes, AgentAnswers(o, a, outcome) PROVE CountersInv'
  <2>1. UNCHANGED <<attempt, counters, cancelled>>
    BY <1>6 DEF AgentAnswers
  <2> QED
    BY <2>1, Untouched DEF CountersInv, InFlight
<1> QED
  BY <1>1, <1>2, <1>3, <1>4, <1>5, <1>6 DEF VoteStep

\* The strengthening is inductive.
LEMMA CountersStep == CountersInv /\ [EnsembleNext]_ensemble => CountersInv'
<1> SUFFICES ASSUME CountersInv, [EnsembleNext]_ensemble PROVE CountersInv'
  OBVIOUS
<1>1. ASSUME NEW o \in Orders, Orchestrate(o) PROVE CountersInv'
  <2>1. /\ counters' \in Counters /\ counters'.cast = counters.cast
        /\ counters'.review = counters.review /\ counters'.errors = counters.errors
        /\ counters'.unsafe = counters.unsafe /\ counters'.safe = counters.safe
    BY <1>1 DEF Orchestrate, CountersInv, Counters
  <2>2. attempt' = attempt /\ cancelled' = cancelled
    BY <1>1 DEF Orchestrate
  <2> QED
    BY <2>1, <2>2, Untouched DEF CountersInv, InFlight
<1>2. ASSUME NEW o \in Orders, Decide(o) PROVE CountersInv'
  <2>1. /\ counters' \in Counters /\ counters'.cast = counters.cast
        /\ counters'.review = counters.review /\ counters'.errors = counters.errors
        /\ counters'.unsafe = counters.unsafe /\ counters'.safe = counters.safe
    BY <1>2 DEF Decide, CountersInv, Counters
  <2>2. attempt' = attempt /\ cancelled' = cancelled
    BY <1>2 DEF Decide
  <2> QED
    BY <2>1, <2>2, Untouched DEF CountersInv, InFlight
<1>3. ASSUME NEW o \in Orders, Abandon(o) PROVE CountersInv'
  <2>1. /\ attempt' = [attempt EXCEPT ![o] = Idle] /\ cancelled' = cancelled + 1
        /\ counters' = counters
    BY <1>3 DEF Abandon
  <2>2. /\ attempt' \in [Orders -> Places] /\ IsFiniteSet(InFlight')
        /\ attempt[o] # Idle => Cardinality(InFlight') = Cardinality(InFlight) - 1
        /\ attempt[o] = Idle => InFlight' = InFlight
    BY <2>1, OneLess
  <2>3. Cardinality(InFlight) \in Nat
    BY FS_CardinalityType DEF CountersInv
  <2> QED
    BY <2>1, <2>2, <2>3 DEF CountersInv, VotesAddUp, Counters
<1>4. ASSUME NEW o \in Orders, NEW a \in Agents, AgentCancelled(o, a) PROVE CountersInv'
  <2>1. UNCHANGED <<attempt, counters>> /\ cancelled' = cancelled + 1
    BY <1>4 DEF AgentCancelled
  <2> QED
    BY <2>1, Untouched DEF CountersInv, InFlight
<1>5. ASSUME NEW a \in Agents, NEW w \in Weights, Register(a, w) PROVE CountersInv'
  <2>1. UNCHANGED <<attempt, counters, cancelled>>
    BY <1>5 DEF Register
  <2> QED
    BY <2>1, Untouched DEF CountersInv, InFlight
<1>6. CASE UNCHANGED ensemble
  <2>1. UNCHANGED <<attempt, counters, cancelled>>
    BY <1>6 DEF ensemble, conductor
  <2> QED
    BY <2>1, Untouched DEF CountersInv, InFlight
<1> QED
  BY <1>1, <1>2, <1>3, <1>4, <1>5, <1>6, VoteKeeps DEF EnsembleNext

\* However votes of the Sonar agent overlap, are retried, fail or are abandoned,
\* its counters agree with each other.
THEOREM CountersAddUp == EnsembleSpec => []VotesAddUp
<1>1. CountersInv => VotesAddUp
  BY DEF CountersInv
<1> QED
  BY <1>1, CountersStart, CountersStep, PTL DEF EnsembleSpec

-----------------------------------------------------------------------------
(* What the conductor answers, against what the agents said.  The          *)
(* strengthening: of the answers that are decisions, what is recorded is    *)
(* what was said.  The weights are summed by a recursive function; that     *)
(* there is one, and that its sum is 0 only of weights that all are, is     *)
(* shown by induction on the number of names, as the least number for       *)
(* which it fails.                                                          *)

\* A set of naturals that is not empty has a least element.
LEMMA LeastNumber ==
    ASSUME NEW T, T \subseteq Nat, T # {}
    PROVE  \E n \in T : \A k \in T : n <= k
<1>1. IsWellFoundedOn(OpToRel(<, Nat), Nat)
  BY NatLessThanWellFounded
<1>2. PICK n \in T : \A k \in T : ~ (<<k, n>> \in OpToRel(<, Nat))
  BY <1>1, WFMin
<1>3. \A k \in T : ~ (k < n)
  BY <1>2 DEF OpToRel
<1> QED
  BY <1>3

\* The sum of weights as its definition computes it, over the sets of at most n
\* of the names.
Pick(s) == CHOOSE x \in s : TRUE
Upto(names, n) == {s \in SUBSET names : Cardinality(s) <= n}
Sums(f, sets) ==
    f = [s \in sets |-> IF s = {} THEN 0 ELSE weights[Pick(s)] + f[s \ {Pick(s)}]]

LEMMA PickTakesOne ==
    ASSUME NEW s, IsFiniteSet(s), s # {}
    PROVE  /\ Pick(s) \in s
           /\ IsFiniteSet(s \ {Pick(s)})
           /\ Cardinality(s) \in Nat /\ Cardinality(s \ {Pick(s)}) \in Nat
           /\ Cardinality(s \ {Pick(s)}) = Cardinality(s) - 1
<1>1. Pick(s) \in s
  BY DEF Pick
<1> QED
  BY <1>1, FS_RemoveElement, FS_CardinalityType

\* The definition is one of a function: there is one that computes the sums.
LEMMA SumsExist ==
    ASSUME NEW names, IsFiniteSet(names)
    PROVE  \E f : Sums(f, SUBSET names)
<1> DEFINE Missing == {n \in Nat : ~ \E f : Sums(f, Upto(names, n))}
<1>0. \A s \in SUBSET names : IsFiniteSet(s) /\ Cardinality(s) \in Nat
  BY FS_Subset, FS_CardinalityType
<1>1. Missing = {}
  <2> SUFFICES ASSUME Missing # {} PROVE FALSE
    OBVIOUS
  <2>1. PICK n \in Missing : \A k \in Missing : n <= k
    BY LeastNumber
  <2>2. n \in Nat /\ ~ \E f : Sums(f, Upto(names, n))
    BY <2>1
  <2>3. n # 0
    <3> SUFFICES ASSUME n = 0 PROVE FALSE
      OBVIOUS
    <3>1. \A s \in Upto(names, n) : s = {}
      BY <1>0, FS_EmptySet DEF Upto
    <3> DEFINE f == [s \in Upto(names, n) |-> 0]
    <3>2. Sums(f, Upto(names, n))
      BY <3>1 DEF Sums
    <3> QED
      BY <2>2, <3>2
  <2>4. PICK f : Sums(f, Upto(names, n - 1))
    <3>1. n - 1 \in Nat /\ ~ (n <= n - 1)
      BY <2>2, <2>3
    <3> QED
      BY <2>1, <3>1
  <2> DEFINE F(h, s) == IF s = {} THEN 0 ELSE weights[Pick(s)] + h[s \ {Pick(s)}]
             g == [s \in Upto(names, n) |-> F(f, s)]
  <2>5. ASSUME NEW s \in Upto(names, n) PROVE F(f, s) = F(g, s)
    <3>1. CASE s = {}
      BY <3>1
    <3>2. CASE s # {}
      <4> DEFINE r == s \ {Pick(s)}
      <4>1. r \in Upto(names, n - 1) /\ r \in Upto(names, n)
        BY <1>0, <2>2, <3>2, PickTakesOne DEF Upto
      <4>2. f[r] = F(f, r)
        BY <2>4, <4>1 DEF Sums
      <4>3. g[r] = F(f, r)
        BY <4>1
      <4> HIDE DEF g, r
      <4>4. f[r] = g[r]
        BY <4>2, <4>3
      <4> QED
        BY <3>2, <4>4 DEF r
    <3> QED
      BY <3>1, <3>2
  <2>6. g = [s \in Upto(names, n) |-> F(g, s)]
    <3>1. g = [s \in Upto(names, n) |-> F(f, s)]
      OBVIOUS
    <3> HIDE DEF g, F
    <3> QED
      BY <2>5, <3>1
  <2>7. Sums(g, Upto(names, n))
    <3> HIDE DEF g
    <3> QED
      BY <2>6 DEF Sums
  <2> QED
    BY <2>2, <2>7
<1>2. PICK f : Sums(f, Upto(names, Cardinality(names)))
  BY <1>0, <1>1
<1>3. Upto(names, Cardinality(names)) = SUBSET names
  BY FS_Subset DEF Upto
<1> QED
  BY <1>2, <1>3

\* The sum of weights is one, and it is nothing only when none of them weighs.
LEMMA WeightIs ==
    ASSUME NEW names, IsFiniteSet(names), \A a \in names : weights[a] \in Nat
    PROVE  /\ WeightOf(names) \in Nat
           /\ WeightOf(names) = 0 <=> \A a \in names : weights[a] = 0
<1> DEFINE f == CHOOSE f : Sums(f, SUBSET names)
<1>1. Sums(f, SUBSET names)
  BY SumsExist
<1>2. WeightOf(names) = f[names]
  BY DEF WeightOf, MapThenSumSet, MapThenFoldSet, Sums, Pick
<1> HIDE DEF f
<1> DEFINE Good(s) == f[s] \in Nat /\ (f[s] = 0 <=> \A a \in s : weights[a] = 0)
           Bad == {n \in Nat : \E s \in SUBSET names : Cardinality(s) = n /\ ~ Good(s)}
<1>0. \A s \in SUBSET names : IsFiniteSet(s) /\ Cardinality(s) \in Nat
  BY FS_Subset, FS_CardinalityType
<1>3. Bad = {}
  <2> SUFFICES ASSUME Bad # {} PROVE FALSE
    OBVIOUS
  <2>1. PICK n \in Bad : \A k \in Bad : n <= k
    BY LeastNumber
  <2>2. PICK s \in SUBSET names : Cardinality(s) = n /\ ~ Good(s)
    BY <2>1
  <2>3. f[s] = IF s = {} THEN 0 ELSE weights[Pick(s)] + f[s \ {Pick(s)}]
    BY <1>1 DEF Sums
  <2>4. s # {}
    BY <2>2, <2>3
  <2>5. /\ Pick(s) \in s /\ Cardinality(s \ {Pick(s)}) = n - 1 /\ n - 1 \in Nat
        /\ s \ {Pick(s)} \in SUBSET names
    BY <1>0, <2>2, <2>4, PickTakesOne
  <2>6. Good(s \ {Pick(s)})
    <3>1. n - 1 \notin Bad
      BY <2>1, <2>5
    <3> QED
      BY <2>5, <3>1
  <2>7. weights[Pick(s)] \in Nat
    BY <2>5
  <2> QED
    BY <2>2, <2>3, <2>4, <2>5, <2>6, <2>7
<1>4. Good(names)
  BY <1>0, <1>3
<1> QED
  BY <1>2, <1>4

\* What was recorded of an answer, against what was said: a SAFE or UNSAFE on
\* one side is the same on the other.
Fits(recorded, spoken) ==
    recorded \in {"SAFE", "UNSAFE"} \/ spoken \in {"SAFE", "UNSAFE"} => recorded = spoken

\* What is kept of an answer, and what a call returns.
Answers == Decisions \cup {Pending, Cancelled, NoAnswer, Raised}
Votes == UNION {[names -> Answers] : names \in SUBSET (Agents \cup {Sonar})}

Heard ==
    /\ DOMAIN weights \subseteq Agents \cup {Sonar}
    /\ IsFiniteSet(DOMAIN weights)
    /\ \A a \in DOMAIN weights : weights[a] \in Nat
    /\ decision \in [Orders -> Answers]
    /\ asking \in [Orders -> Votes]
    /\ said \in [Orders -> Votes]
    /\ \A o \in Orders :
           /\ DOMAIN said[o] = DOMAIN asking[o]
           /\ DOMAIN asking[o] \subseteq DOMAIN weights
           /\ \A a \in DOMAIN asking[o] : Fits(asking[o][a], said[o][a])

\* One answer changes the votes of one call.
LEMMA AnswerFits ==
    ASSUME Heard, NEW o \in Orders, NEW a, NEW x \in Answers, NEW y \in Answers, Fits(x, y),
           asking' = [asking EXCEPT ![o] = [@ EXCEPT ![a] = x]],
           said' = [said EXCEPT ![o] = [@ EXCEPT ![a] = y]],
           weights' = weights, decision' = decision
    PROVE  Heard'
<1>1. asking[o] \in Votes /\ said[o] \in Votes /\ DOMAIN said[o] = DOMAIN asking[o]
  BY DEF Heard
<1>2. ASSUME NEW v \in Votes, NEW z \in Answers
      PROVE  /\ [v EXCEPT ![a] = z] \in Votes /\ DOMAIN [v EXCEPT ![a] = z] = DOMAIN v
             /\ \A b \in DOMAIN v : [v EXCEPT ![a] = z][b] = IF b = a THEN z ELSE v[b]
  BY DEF Votes
<1> DEFINE new == [asking[o] EXCEPT ![a] = x]
           spoken == [said[o] EXCEPT ![a] = y]
<1>3. /\ new \in Votes /\ spoken \in Votes
      /\ DOMAIN new = DOMAIN asking[o] /\ DOMAIN spoken = DOMAIN said[o]
      /\ \A b \in DOMAIN asking[o] : /\ new[b] = IF b = a THEN x ELSE asking[o][b]
                                     /\ spoken[b] = IF b = a THEN y ELSE said[o][b]
  BY <1>1, <1>2
<1>4. asking' = [asking EXCEPT ![o] = new] /\ said' = [said EXCEPT ![o] = spoken]
  OBVIOUS
<1> HIDE DEF new, spoken
<1>5. asking' \in [Orders -> Votes] /\ said' \in [Orders -> Votes]
  BY <1>3, <1>4 DEF Heard
<1>6. ASSUME NEW p \in Orders
      PROVE  /\ DOMAIN said'[p] = DOMAIN asking'[p]
             /\ DOMAIN asking'[p] \subseteq DOMAIN weights'
             /\ \A b \in DOMAIN asking'[p] : Fits(asking'[p][b], said'[p][b])
  <2>1. CASE p = o
    <3>1. asking'[p] = new /\ said'[p] = spoken
      BY <1>4, <2>1 DEF Heard
    <3> QED
      BY <1>1, <1>3, <3>1, <2>1 DEF Heard
  <2>2. CASE p # o
    <3>1. asking'[p] = asking[p] /\ said'[p] = said[p]
      BY <1>4, <2>2 DEF Heard
    <3> QED
      BY <3>1 DEF Heard
  <2> QED
    BY <2>1, <2>2
<1> QED
  BY <1>5, <1>6 DEF Heard

\* The strengthening holds at the start.
LEMMA HeardStarts == EnsembleInit => Heard
<1> SUFFICES ASSUME EnsembleInit PROVE Heard
  OBVIOUS
<1>1. /\ DOMAIN weights \subseteq {Sonar} /\ IsFiniteSet({Sonar})
      /\ \A a \in DOMAIN weights : weights[a] \in Nat
  <2>1. weights = [a \in {} |-> 0] \/ weights = [a \in {Sonar} |-> 40]
    BY DEF EnsembleInit
  <2> QED
    BY <2>1, FS_Singleton
<1>2. IsFiniteSet(DOMAIN weights)
  BY <1>1, FS_Subset
<1>3. NoVotes \in Votes /\ DOMAIN NoVotes = {}
  BY DEF NoVotes, Votes
<1> HIDE DEF NoVotes
<1> QED
  BY <1>1, <1>2, <1>3 DEF EnsembleInit, Heard, Answers

\* The strengthening is inductive.
LEMMA HeardStep == Heard /\ [EnsembleNext]_ensemble => Heard'
<1> SUFFICES ASSUME Heard, [EnsembleNext]_ensemble PROVE Heard'
  OBVIOUS
<1>1. ASSUME NEW o \in Orders, VoteStep(o) PROVE Heard'
  <2>1. CASE VoteWithoutKey(o)
    BY <2>1, AnswerFits DEF VoteWithoutKey, Fits, Answers, Decisions
  <2>2. CASE VoteAsks(o) \/ SonarRetries(o) \/ SonarWakes(o)
    BY <2>2 DEF VoteAsks, SonarRetries, SonarWakes, Heard
  <2>3. CASE SonarFails(o)
    BY <2>3, AnswerFits DEF SonarFails, Casts, Fits, Answers, Decisions
  <2>4. ASSUME NEW reply \in Replies \cup {Malformed}, SonarReplies(o, reply) PROVE Heard'
    <3>1. Verdict(reply) \in Answers /\ Fits(Verdict(reply), Verdict(reply))
      BY DEF Verdict, Fits, Answers, Decisions
    <3> QED
      BY <2>4, <3>1, AnswerFits DEF SonarReplies, Casts
  <2>5. ASSUME NEW a \in Agents, NEW outcome \in Outcomes, AgentAnswers(o, a, outcome) PROVE Heard'
    <3> DEFINE y == IF outcome \in Decisions THEN outcome ELSE "none"
    <3>1. Vote(outcome) \in Answers /\ y \in Answers /\ Fits(Vote(outcome), y)
      BY DEF Vote, Fits, Decisions, Outcomes, Answers, NoAnswer
    <3>2. /\ asking' = [asking EXCEPT ![o] = [@ EXCEPT ![a] = Vote(outcome)]]
          /\ said' = [said EXCEPT ![o] = [@ EXCEPT ![a] = y]]
          /\ weights' = weights /\ decision' = decision
      BY <2>5 DEF AgentAnswers
    <3> HIDE DEF y
    <3> QED
      BY <3>1, <3>2, AnswerFits
  <2> QED
    BY <1>1, <2>1, <2>2, <2>3, <2>4, <2>5 DEF VoteStep
<1>2. ASSUME NEW o \in Orders, Orchestrate(o) PROVE Heard'
  <2>1. CASE DOMAIN weights = {}
    <3>1. /\ UNCHANGED <<weights, asking, said>> /\ "REVIEW" \in Answers
          /\ decision' = [decision EXCEPT ![o] = "REVIEW"]
      BY <1>2, <2>1 DEF Orchestrate, Answers, Decisions
    <3> QED
      BY <3>1 DEF Heard
  <2>2. CASE DOMAIN weights # {}
    <3> DEFINE asked == [a \in DOMAIN weights |-> Pending]
    <3>1. asking' = [asking EXCEPT ![o] = asked] /\ said' = [said EXCEPT ![o] = asked]
          /\ weights' = weights /\ decision' = decision
      BY <1>2, <2>2 DEF Orchestrate
    <3>2. asked \in Votes /\ DOMAIN asked = DOMAIN weights
      BY DEF Heard, Votes, Answers
    <3>3. \A a \in DOMAIN asked : Fits(asked[a], asked[a])
      BY DEF Fits
    <3> HIDE DEF asked
    <3> QED
      BY <3>1, <3>2, <3>3 DEF Heard
  <2> QED
    BY <2>1, <2>2
<1>3. ASSUME NEW o \in Orders, Decide(o) PROVE Heard'
  <2>1. /\ UNCHANGED <<weights, asking, said>>
        /\ \E d \in Answers : decision' = [decision EXCEPT ![o] = d]
    BY <1>3 DEF Decide, Resolve, Answers, Decisions
  <2> QED
    BY <2>1 DEF Heard
<1>4. ASSUME NEW o \in Orders, Abandon(o) PROVE Heard'
  <2> DEFINE new == [a \in DOMAIN asking[o] |-> IF asking[o][a] = Pending THEN Cancelled ELSE asking[o][a]]
  <2>1. asking' = [asking EXCEPT ![o] = new] /\ said' = said /\ weights' = weights
        /\ decision' = [decision EXCEPT ![o] = Raised] /\ Raised \in Answers
    BY <1>4 DEF Abandon, Answers
  <2>2. asking[o] \in Votes
    BY DEF Heard
  <2>3. new \in Votes /\ DOMAIN new = DOMAIN asking[o]
    BY <2>2 DEF Votes, Answers
  <2>4. \A a \in DOMAIN asking[o] : Fits(new[a], said[o][a])
    BY DEF Heard, Fits, Pending, Cancelled
  <2> HIDE DEF new
  <2> QED
    BY <2>1, <2>3, <2>4 DEF Heard
<1>5. ASSUME NEW o \in Orders, NEW a \in Agents, AgentCancelled(o, a) PROVE Heard'
  <2>1. said[o] \in Votes /\ asking[o] \in Votes /\ DOMAIN said[o] = DOMAIN asking[o]
        /\ a \in DOMAIN asking[o] /\ asking[o][a] = Pending /\ Fits(asking[o][a], said[o][a])
    BY <1>5 DEF AgentCancelled, Heard
  <2>2. /\ said[o][a] \in Answers /\ Cancelled \in Answers /\ Fits(Cancelled, said[o][a])
        /\ said = [said EXCEPT ![o] = [@ EXCEPT ![a] = said[o][a]]]
    <3>1. said[o] = [said[o] EXCEPT ![a] = said[o][a]] /\ said[o][a] \in Answers
      BY <2>1 DEF Votes
    <3> QED
      BY <2>1, <3>1 DEF Fits, Pending, Cancelled, Heard, Answers
  <2>3. /\ asking' = [asking EXCEPT ![o] = [@ EXCEPT ![a] = Cancelled]]
        /\ said' = said /\ weights' = weights /\ decision' = decision
    BY <1>5 DEF AgentCancelled
  <2> QED
    BY <2>2, <2>3, AnswerFits
<1>6. ASSUME NEW a \in Agents, NEW w \in Weights, Register(a, w) PROVE Heard'
  <2>1. /\ DOMAIN weights' = DOMAIN weights \cup {a}
        /\ \A b \in DOMAIN weights' : weights'[b] = IF b = a THEN w ELSE weights[b]
        /\ asking' = asking /\ said' = said /\ decision' = decision
    BY <1>6 DEF Register
  <2>2. IsFiniteSet(DOMAIN weights') /\ w \in Nat
    BY <2>1, FS_AddElement, EnsembleAssumption DEF Heard
  <2> QED
    BY <2>1, <2>2 DEF Heard
<1>7. CASE UNCHANGED ensemble
  BY <1>7 DEF ensemble, conductor, Heard
<1> QED
  BY <1>1, <1>2, <1>3, <1>4, <1>5, <1>6, <1>7 DEF EnsembleNext

\* Of the answers that are decisions, what is recorded is what was said.
LEMMA VotesAreSaid ==
    ASSUME Heard, NEW o \in Orders
    PROVE  /\ Voting(asking[o], "UNSAFE") = {a \in DOMAIN said[o] : said[o][a] = "UNSAFE"}
           /\ Voting(asking[o], "SAFE") = {a \in DOMAIN said[o] : said[o][a] = "SAFE"}
           /\ asking[o] = NoVotes <=> DOMAIN asking[o] = {}
           /\ said[o] = NoVotes <=> DOMAIN said[o] = {}
<1>1. asking[o] \in Votes /\ said[o] \in Votes
  BY DEF Heard
<1>2. \A v \in Votes : v = NoVotes <=> DOMAIN v = {}
  BY DEF Votes, NoVotes
<1> QED
  BY <1>1, <1>2 DEF Heard, Voting, Fits

\* A veto needs a weight that says so, and then the agents asked weigh something.
LEMMA VetoIs ==
    ASSUME Heard, NEW o \in Orders
    PROVE  Vetoed(asking[o]) <=>
               /\ SaidWeight(o, "UNSAFE") > 0
               /\ 100 * SaidWeight(o, "UNSAFE") >= VetoThreshold * WeightOf(DOMAIN said[o])
<1> DEFINE some == {a \in DOMAIN said[o] : said[o][a] = "UNSAFE"}
           all_ == DOMAIN said[o]
<1>1. some \subseteq all_ /\ all_ \subseteq DOMAIN weights /\ all_ = DOMAIN asking[o]
  BY DEF Heard
<1>2. IsFiniteSet(some) /\ IsFiniteSet(all_)
  BY <1>1, FS_Subset DEF Heard
<1>3. (\A a \in some : weights[a] \in Nat) /\ (\A a \in all_ : weights[a] \in Nat)
  BY <1>1 DEF Heard
<1>4. /\ WeightOf(some) \in Nat /\ WeightOf(all_) \in Nat
      /\ WeightOf(some) = 0 <=> \A a \in some : weights[a] = 0
      /\ WeightOf(all_) = 0 <=> \A a \in all_ : weights[a] = 0
  BY <1>2, <1>3, WeightIs
<1>5. Vetoed(asking[o]) <=> /\ WeightOf(all_) > 0
                            /\ 100 * WeightOf(some) >= VetoThreshold * WeightOf(all_)
  BY <1>1, VotesAreSaid DEF Vetoed
<1>6. SaidWeight(o, "UNSAFE") = WeightOf(some)
  BY DEF SaidWeight
<1>7. WeightOf(all_) = 0 => WeightOf(some) = 0
  BY <1>1, <1>4
<1> HIDE DEF some, all_
<1>8. ASSUME NEW w \in Nat, NEW v \in Nat, w > 0, 100 * v >= VetoThreshold * w PROVE v > 0
  <2>1. VetoThreshold \in Nat /\ VetoThreshold >= 1
    BY EnsembleAssumption
  <2>2. VetoThreshold * w \in Int /\ VetoThreshold * w >= 1
    BY <1>8, <2>1
  <2> QED
    BY <1>8, <2>2
<1>9. CASE WeightOf(all_) = 0
  BY <1>4, <1>5, <1>6, <1>7, <1>9
<1>10. CASE WeightOf(all_) > 0
  BY <1>4, <1>5, <1>6, <1>8, <1>10 DEF all_
<1> QED
  BY <1>4, <1>9, <1>10

\* What the property says of a call.
Followed(o) ==
    decision[o] = NoAnswer /\ decision'[o] \in Decisions =>
        /\ decision'[o] = "SAFE" =>
               said[o] # NoVotes /\ \A a \in DOMAIN said[o] : said[o][a] = "SAFE"
        /\ decision'[o] = "UNSAFE" <=>
               /\ SaidWeight(o, "UNSAFE") > 0
               /\ 100 * SaidWeight(o, "UNSAFE") >= VetoThreshold * WeightOf(DOMAIN said[o])

LEMMA CallFollows == ASSUME Heard, EnsembleNext, NEW o \in Orders PROVE Followed(o)
<1> SUFFICES ASSUME decision[o] = NoAnswer, decision'[o] \in Decisions
             PROVE  Followed(o)
  BY DEF Followed
<1>0. decision \in [Orders -> Answers] /\ decision'[o] # decision[o]
  BY DEF Heard, Decisions, NoAnswer
<1>1. Orchestrate(o) \/ Decide(o)
  <2>1. PICK p \in Orders : decision' # decision /\ (Orchestrate(p) \/ Decide(p) \/ Abandon(p))
    BY <1>0 DEF EnsembleNext, VoteStep, VoteWithoutKey, VoteAsks, SonarRetries, SonarWakes,
           SonarFails, SonarReplies, AgentAnswers, AgentCancelled, Register
  <2>2. p = o
    BY <1>0, <2>1 DEF Orchestrate, Decide, Abandon
  <2>3. ~ Abandon(o)
    BY <1>0 DEF Abandon, Raised, Decisions
  <2> QED
    BY <2>1, <2>2, <2>3
<1>2. CASE Orchestrate(o)
  <2>1. decision'[o] = "REVIEW" /\ asking[o] = NoVotes
    BY <1>0, <1>2 DEF Orchestrate
  <2>2. SaidWeight(o, "UNSAFE") = WeightOf({})
    BY <2>1, VotesAreSaid DEF Heard, SaidWeight
  <2>3. WeightOf({}) = 0
    BY WeightIs, FS_EmptySet
  <2> QED
    BY <2>1, <2>2, <2>3 DEF Followed
<1>3. CASE Decide(o)
  <2>1. decision'[o] = Resolve(asking[o]) /\ asking[o] # NoVotes
    BY <1>0, <1>3 DEF Decide, Raised, Decisions
  <2>2. decision'[o] = "UNSAFE" <=> Vetoed(asking[o])
    BY <2>1 DEF Resolve
  <2>3. decision'[o] = "SAFE" => Voting(asking[o], "SAFE") = DOMAIN asking[o]
    BY <2>1 DEF Resolve
  <2>4. said[o] # NoVotes /\ DOMAIN said[o] = DOMAIN asking[o]
    BY <2>1, VotesAreSaid DEF Heard
  <2> QED
    BY <2>2, <2>3, <2>4, VetoIs, VotesAreSaid DEF Followed
<1> QED
  BY <1>1, <1>2, <1>3

\* However calls overlap, for any weights and threshold: an answer of SAFE is what
\* every agent said, and a weight of UNSAFE that reaches the threshold is heard.
THEOREM EnsembleFollows == EnsembleSpec => FollowsWhatWasSaid
<1>1. Heard /\ [EnsembleNext]_ensemble => [\A o \in Orders : Followed(o)]_ensemble
  BY CallFollows
<1> QED
  BY <1>1, HeardStarts, HeardStep, PTL DEF EnsembleSpec, FollowsWhatWasSaid, Followed

-----------------------------------------------------------------------------
(* The correlation ids.  The strengthening: the context of a task holds the *)
(* id of its innermost scope, its tokens those of the scopes around it.     *)

Marks == Ids \cup {NoId}

\* A task's context and tokens, against what it meant.
Nested(t) ==
    /\ Len(meant[t]) = Len(tokens[t]) + 1
    /\ \A i \in 1 .. Len(tokens[t]) : tokens[t][i] = meant[t][i]
    /\ context[t] = meant[t][Len(meant[t])]

RecordsInv ==
    /\ context \in [Tasks -> Marks]
    /\ tokens \in [Tasks -> Seq(Marks)]
    /\ meant \in [Tasks -> Seq(Marks)]
    /\ \A t \in Tasks : Nested(t)
    \* A task that was not created has no scope.
    /\ alive \subseteq Tasks
    /\ \A t \in Tasks \ alive : tokens[t] = <<>>

\* The strengthening holds at the start.
LEMMA RecordsStart == MonitoringInit => RecordsInv
<1> SUFFICES ASSUME MonitoringInit PROVE RecordsInv
  OBVIOUS
<1>1. ASSUME NEW t \in Tasks PROVE Nested(t)
  BY <1>1 DEF MonitoringInit, Nested
<1> QED
  BY <1>1, MonitoringAssumption DEF MonitoringInit, RecordsInv, Marks

\* A step that changes what one task has keeps the others as they are.
LEMMA OneTask ==
    ASSUME RecordsInv, NEW t \in Tasks, NEW i \in Marks, NEW to \in Seq(Marks), NEW me \in Seq(Marks),
           context' = [context EXCEPT ![t] = i],
           tokens' = [tokens EXCEPT ![t] = to],
           meant' = [meant EXCEPT ![t] = me],
           Len(me) = Len(to) + 1,
           \A k \in 1 .. Len(to) : to[k] = me[k],
           i = me[Len(me)]
    PROVE  /\ context' \in [Tasks -> Marks]
           /\ tokens' \in [Tasks -> Seq(Marks)]
           /\ meant' \in [Tasks -> Seq(Marks)]
           /\ \A u \in Tasks : Nested(u)'
           /\ \A u \in Tasks : u # t => tokens'[u] = tokens[u]
<1>1. ASSUME NEW u \in Tasks PROVE Nested(u)'
  <2>1. CASE u = t
    BY <2>1 DEF RecordsInv, Nested
  <2>2. CASE u # t
    BY <2>2 DEF RecordsInv, Nested
  <2> QED
    BY <2>1, <2>2
<1> QED
  BY <1>1 DEF RecordsInv

\* The strengthening is inductive.
LEMMA RecordsKeep == RecordsInv /\ [RecordsNext \/ ChecksNext]_monitoring => RecordsInv'
<1> SUFFICES ASSUME RecordsInv, [RecordsNext \/ ChecksNext]_monitoring PROVE RecordsInv'
  OBVIOUS
<1>0. \A t \in Tasks : /\ tokens[t] \in Seq(Marks) /\ meant[t] \in Seq(Marks) /\ context[t] \in Marks
                       /\ Nested(t)
  BY DEF RecordsInv
<1>1. ASSUME NEW t \in Tasks, NEW i \in Ids, SetId(t, i) PROVE RecordsInv'
  <2> DEFINE me == Append(Front(meant[t]), i)
  <2>1. Front(meant[t]) \in Seq(Marks) /\ Len(Front(meant[t])) = Len(tokens[t])
        /\ \A k \in 1 .. Len(tokens[t]) : Front(meant[t])[k] = meant[t][k]
    BY <1>0 DEF Front, Nested
  <2>2. /\ me \in Seq(Marks) /\ Len(me) = Len(tokens[t]) + 1 /\ me[Len(me)] = i
        /\ \A k \in 1 .. Len(tokens[t]) : tokens[t][k] = me[k]
    BY <1>0, <2>1 DEF Nested, Marks
  <2>3. /\ context' = [context EXCEPT ![t] = i]
        /\ tokens' = [tokens EXCEPT ![t] = tokens[t]]
        /\ meant' = [meant EXCEPT ![t] = me]
    BY <1>1 DEF SetId, RecordsInv
  <2> HIDE DEF me
  <2>4. i \in Marks /\ tokens[t] \in Seq(Marks)
    BY <1>0 DEF Marks
  <2>5. /\ context' \in [Tasks -> Marks]
        /\ tokens' \in [Tasks -> Seq(Marks)]
        /\ meant' \in [Tasks -> Seq(Marks)]
        /\ \A v \in Tasks : Nested(v)'
        /\ \A v \in Tasks : v # t => tokens'[v] = tokens[v]
    BY <2>2, <2>3, <2>4, OneTask
  <2> QED
    BY <1>1, <2>5 DEF SetId, RecordsInv
<1>2. ASSUME NEW t \in Tasks, NEW i \in Ids, EnterScope(t, i) PROVE RecordsInv'
  <2> DEFINE me == Append(meant[t], i)
             to == Append(tokens[t], context[t])
  <2>1. /\ me \in Seq(Marks) /\ to \in Seq(Marks) /\ Len(me) = Len(to) + 1 /\ me[Len(me)] = i
        /\ \A k \in 1 .. Len(to) : to[k] = me[k]
    BY <1>0 DEF Nested, Marks
  <2>2. /\ context' = [context EXCEPT ![t] = i]
        /\ tokens' = [tokens EXCEPT ![t] = to]
        /\ meant' = [meant EXCEPT ![t] = me]
    BY <1>2 DEF EnterScope
  <2> HIDE DEF me, to
  <2>3. i \in Marks
    BY DEF Marks
  <2>4. /\ context' \in [Tasks -> Marks]
        /\ tokens' \in [Tasks -> Seq(Marks)]
        /\ meant' \in [Tasks -> Seq(Marks)]
        /\ \A v \in Tasks : Nested(v)'
        /\ \A v \in Tasks : v # t => tokens'[v] = tokens[v]
    BY <2>1, <2>2, <2>3, OneTask
  <2> QED
    BY <1>2, <2>4 DEF EnterScope, RecordsInv
<1>3. ASSUME NEW t \in Tasks, LeaveScope(t) PROVE RecordsInv'
  <2> DEFINE me == Front(meant[t])
             to == Front(tokens[t])
             i  == Last(tokens[t])
  <2>1. /\ me \in Seq(Marks) /\ to \in Seq(Marks) /\ Len(me) = Len(to) + 1 /\ me[Len(me)] = i
        /\ i \in Marks /\ \A k \in 1 .. Len(to) : to[k] = me[k]
    <3>1. /\ tokens[t] \in Seq(Marks) /\ tokens[t] # <<>> /\ meant[t] \in Seq(Marks)
          /\ Len(meant[t]) = Len(tokens[t]) + 1
          /\ \A k \in 1 .. Len(tokens[t]) : tokens[t][k] = meant[t][k]
      BY <1>0, <1>3 DEF LeaveScope, Nested
    <3>2. me = SubSeq(meant[t], 1, Len(tokens[t])) /\ to = SubSeq(tokens[t], 1, Len(tokens[t]) - 1)
      BY <3>1 DEF Front
    <3>3. i = tokens[t][Len(tokens[t])]
      BY DEF Last
    <3> HIDE DEF me, to, i
    <3> QED
      BY <3>1, <3>2, <3>3
  <2>2. /\ context' = [context EXCEPT ![t] = i]
        /\ tokens' = [tokens EXCEPT ![t] = to]
        /\ meant' = [meant EXCEPT ![t] = me]
    BY <1>3 DEF LeaveScope
  <2>3. t \in alive
    BY <1>3 DEF LeaveScope, RecordsInv
  <2> HIDE DEF me, to, i
  <2>4. /\ context' \in [Tasks -> Marks]
        /\ tokens' \in [Tasks -> Seq(Marks)]
        /\ meant' \in [Tasks -> Seq(Marks)]
        /\ \A v \in Tasks : Nested(v)'
        /\ \A v \in Tasks : v # t => tokens'[v] = tokens[v]
    BY <2>1, <2>2, OneTask
  <2> QED
    BY <1>3, <2>3, <2>4 DEF LeaveScope, RecordsInv
<1>4. ASSUME NEW t \in Tasks, NEW u \in Tasks, Spawn(t, u) PROVE RecordsInv'
  <2> DEFINE me == <<Last(meant[t])>>
  <2>1. tokens[u] = <<>> /\ context[t] = Last(meant[t]) /\ context[t] \in Marks
    BY <1>0, <1>4 DEF Spawn, RecordsInv, Nested, Last
  <2>2. /\ context' = [context EXCEPT ![u] = context[t]]
        /\ tokens' = [tokens EXCEPT ![u] = <<>>]
        /\ meant' = [meant EXCEPT ![u] = me]
    BY <1>4, <2>1 DEF Spawn, RecordsInv
  <2>3. /\ me \in Seq(Marks) /\ <<>> \in Seq(Marks) /\ Len(me) = Len(<<>>) + 1 /\ me[Len(me)] = context[t]
        /\ \A k \in 1 .. Len(<<>>) : <<>>[k] = me[k]
    BY <2>1
  <2> HIDE DEF me
  <2> QED
    BY <1>4, <2>1, <2>2, <2>3, OneTask DEF Spawn, RecordsInv
<1>5. ASSUME NEW t \in Tasks, Log(t) PROVE RecordsInv'
  BY <1>5 DEF Log, RecordsInv, Nested
<1>6. CASE ChecksNext
  <2>1. UNCHANGED records
    BY <1>6 DEF ChecksNext, Crash, EndCheck, GiveReport
  <2> QED
    BY <2>1 DEF records, RecordsInv, Nested
<1>7. CASE UNCHANGED monitoring
  BY <1>7 DEF monitoring, records, RecordsInv, Nested
<1> QED
  BY <1>1, <1>2, <1>3, <1>4, <1>5, <1>6, <1>7 DEF RecordsNext

\* Whatever scopes tasks enter and leave, and however they interleave, a record
\* of the log carries the id of the task that wrote it.
THEOREM RecordsOwnId == MonitoringSpec => LogsOwnId
<1>1. RecordsInv => [\A t \in Tasks : Log(t) => entry'.id = Last(meant[t])]_monitoring
  BY DEF RecordsInv, Nested, Log, Last
<1> QED
  BY <1>1, RecordsStart, RecordsKeep, PTL DEF MonitoringSpec, LogsOwnId

-----------------------------------------------------------------------------
(* The services together.                                                   *)

\* A step of the services is, of each part, a step of its own or none; only a
\* deep look at the breaker does two things at once there.
LEMMA StepsOfParts ==
    ASSUME [ServicesNext]_all
    PROVE  /\ [LimiterNext]_limiter
           /\ [Next]_vars \/ LooksAtBreaker("deep")
           /\ [EnsembleNext]_ensemble
           /\ [RecordsNext \/ ChecksNext]_monitoring
<1>1. CASE UNCHANGED all \/ RecordsStep \/ ChecksStep
  BY <1>1 DEF all, services, RecordsStep, ChecksStep
<1>2. CASE BreakerStep \/ LimiterStep \/ EnsembleStep
  BY <1>2 DEF BreakerStep, LimiterStep, EnsembleStep
<1>3. CASE ApiStep
  <2>1. ApiNext /\ UNCHANGED monitoring
    BY <1>3 DEF ApiStep
  <2>2. ASSUME NEW r \in Requests,
               \/ Arrive(r) \/ TurnedAway(r) \/ Unauthorised(r)
               \/ CheckBegins(r) \/ CheckRefused(r) \/ CheckFails(r)
               \/ \E matched \in 0 .. Patterns, long \in BOOLEAN : CheckEnds(r, matched, long)
               \/ \E depth \in Depths : ReportBegins(r, depth)
               \/ ReportEnds(r)
        PROVE  [LimiterNext]_limiter /\ [Next]_vars /\ UNCHANGED ensemble
    <3>1. r \in Callers /\ ClientOf[r] \in Clients
      BY ApiAssumption
    <3>2. CASE Arrive(r) \/ TurnedAway(r)
      BY <3>1, <3>2 DEF Arrive, TurnedAway, LimiterNext
    <3>3. CASE CheckBegins(r) \/ CheckRefused(r) \/ CheckFails(r)
      BY <3>1, <3>3 DEF CheckBegins, CheckRefused, CheckFails, Next
    <3>4. CASE \E matched \in 0 .. Patterns, long \in BOOLEAN : CheckEnds(r, matched, long)
      BY <3>1, <3>4 DEF CheckEnds, Next
    <3>5. CASE Unauthorised(r) \/ ReportEnds(r) \/ \E depth \in Depths : ReportBegins(r, depth)
      BY <3>5 DEF Unauthorised, ReportEnds, ReportBegins
    <3> QED
      BY <2>2, <3>2, <3>3, <3>4, <3>5
  <2>3. ASSUME NEW r \in Requests, NEW component \in Components, ReportLooks(r, component)
        PROVE  /\ UNCHANGED limiter /\ UNCHANGED ensemble
               /\ UNCHANGED vars \/ GetState \/ LooksAtBreaker("deep")
    BY <2>3 DEF ReportLooks, LooksAtBreaker, GetState
  <2>4. CASE ApiTick \/ ApiOutage
    BY <2>1, <2>4 DEF ApiTick, ApiOutage, Next, LimiterNext
  <2> QED
    BY <2>1, <2>2, <2>3, <2>4 DEF ApiNext, Next
<1> QED
  BY <1>1, <1>2, <1>3 DEF ServicesNext

\* Also a deep look leaves the breaker cooled down.
LEMMA CoolingLooks == ASSUME Cooling, LooksAtBreaker("deep") PROVE Cooling'
  BY CheckedCools DEF LooksAtBreaker, Cooling, world, history

\* All strengthenings at once.
ServicesInv == LimiterInv /\ Cooling /\ Counting /\ CountersInv /\ Heard /\ RecordsInv

LEMMA ServicesStart == (\E s \in Scenes : StartOf(s)) => ServicesInv
<1> SUFFICES ASSUME NEW s \in Scenes, StartOf(s) PROVE ServicesInv
  OBVIOUS
<1>1. Init /\ LimiterInit /\ EnsembleInit /\ MonitoringInit
  BY DEF StartOf
<1> QED
  BY <1>1, LimiterStarts, CoolingStarts, CountingStarts, CountersStart, HeardStarts, RecordsStart DEF ServicesInv

LEMMA ServicesStep == ServicesInv /\ [ServicesNext]_all => ServicesInv'
<1> SUFFICES ASSUME ServicesInv, [ServicesNext]_all PROVE ServicesInv'
  OBVIOUS
<1>1. Cooling'
  BY StepsOfParts, CoolingStep, CoolingLooks DEF ServicesInv
<1>2. Counting'
  BY StepsOfParts, CountingStep DEF ServicesInv
<1>3. LimiterInv' /\ CountersInv' /\ Heard' /\ RecordsInv'
  BY StepsOfParts, LimiterKeeps, CountersStep, HeardStep, RecordsKeep DEF ServicesInv
<1> QED
  BY <1>1, <1>2, <1>3 DEF ServicesInv

\* For any values of the constants, what holds of each part alone holds of the
\* services together: the limit in every window, the counters of the Sonar agent,
\* the breaker's trips and recoveries although reports look at it, the answers of
\* the conductor, and the ids of the log.
THEOREM ServicesKeepParts ==
    ServicesSpec => []LimitExact /\ []VotesAddUp /\ CoolsDown /\ TripsOnThreshold
                    /\ FollowsWhatWasSaid /\ LogsOwnId
<1>1. ServicesInv => LimitExact /\ VotesAddUp
  BY KeptIsExact DEF ServicesInv, CountersInv
<1>2. ServicesInv /\ [ServicesNext]_all =>
        [(\E c \in Callers : running[c] = "idle" /\ running'[c] # "idle")
           => state = "CLOSED" \/ tripped > RecoveryTimeout]_vars
  BY StepsOfParts, CoolingAdmits DEF ServicesInv
<1>3. ServicesInv /\ [ServicesNext]_all =>
        [/\ state # "OPEN" /\ state' = "OPEN" => Cardinality(sinceClose') >= Threshold
         /\ state' = "CLOSED" => Cardinality(sinceClose') < Threshold]_vars
  BY StepsOfParts, CountingStep DEF ServicesInv
<1>4. ServicesInv /\ [ServicesNext]_all => [\A o \in Orders : Followed(o)]_ensemble
  BY StepsOfParts, CallFollows DEF ServicesInv
<1>5. ServicesInv => [\A t \in Tasks : Log(t) => entry'.id = Last(meant[t])]_monitoring
  BY DEF ServicesInv, RecordsInv, Nested, Log, Last
<1> QED
  BY <1>1, <1>2, <1>3, <1>4, <1>5, ServicesStart, ServicesStep, PTL
     DEF ServicesSpec, CoolsDown, TripsOnThreshold, FollowsWhatWasSaid, Followed, LogsOwnId

-----------------------------------------------------------------------------
(* The health reports.  The strengthening: what a report was found ill with *)
(* is still ill, and each look at it has said so.                           *)

Statuses == {"healthy", "degraded", "unhealthy"}
Looks == UNION {[names -> Statuses] : names \in SUBSET Components}
RequestRecord == [at : {"away", "inside", "detector", "report"},
                  depth : Depths \cup {"none"}, looks : Looks]

\* Of one request.
Shows(r) ==
    /\ ill[r] \subseteq IllNow
    /\ request[r].depth = "deep" =>
           \A c \in ill[r] \cap DOMAIN request[r].looks : request[r].looks[c] = "unhealthy"

Watching ==
    /\ request \in [Requests -> RequestRecord]
    /\ ill \in [Requests -> SUBSET Components]
    /\ \A r \in Requests : Shows(r)
    \* Nobody watches in the other scenes.
    /\ scene # "api" => \A r \in Requests : ill[r] = {}

LEMMA WatchingStarts == (\E s \in Scenes : StartOf(s)) => Watching
<1> SUFFICES ASSUME NEW s \in Scenes, StartOf(s) PROVE Watching
  OBVIOUS
<1>1. NoLooks \in Looks /\ DOMAIN NoLooks = {}
  BY DEF NoLooks, Looks
<1> HIDE DEF NoLooks
<1>2. Away \in RequestRecord /\ DOMAIN Away.looks = {}
  BY <1>1 DEF Away, RequestRecord
<1> QED
  BY <1>2 DEF StartOf, ApiInit, Watching, Shows

\* A request that has looked at nothing shows nothing that it has not seen.
LEMMA Unseen ==
    ASSUME NEW at \in {"away", "inside", "detector", "report"}, NEW depth \in Depths \cup {"none"}
    PROVE  /\ [Away EXCEPT !.at = at, !.depth = depth] \in RequestRecord
           /\ DOMAIN [Away EXCEPT !.at = at, !.depth = depth].looks = {}
           /\ [Away EXCEPT !.at = at] \in RequestRecord
           /\ DOMAIN [Away EXCEPT !.at = at].looks = {}
           /\ Away \in RequestRecord /\ DOMAIN Away.looks = {}
<1>1. NoLooks \in Looks /\ DOMAIN NoLooks = {}
  BY DEF NoLooks, Looks
<1> HIDE DEF NoLooks
<1> QED
  BY <1>1 DEF Away, RequestRecord

\* A request goes to a place where it has looked at nothing, what is ill stays so.
LEMMA GoesUnseen ==
    ASSUME Watching, NEW r \in Requests, NEW new \in RequestRecord, DOMAIN new.looks = {},
           Goes(r, new), ill' \in [Requests -> SUBSET Components], scene' = scene, scene = "api",
           \A q \in Requests : ill'[q] \subseteq IllNow',
           \A q \in Requests : q # r => ill'[q] \subseteq ill[q]
    PROVE  Watching'
<1>1. request' \in [Requests -> RequestRecord]
  BY DEF Goes, Watching
<1>2. ASSUME NEW q \in Requests PROVE Shows(q)'
  <2>1. CASE q = r
    <3>1. request'[q] = new
      BY <2>1 DEF Goes, Watching
    <3> QED
      BY <3>1 DEF Shows
  <2>2. CASE q # r
    <3>1. request'[q] = request[q]
      BY <2>2 DEF Goes, Watching
    <3> QED
      BY <2>2, <3>1 DEF Shows, Watching
  <2> QED
    BY <2>1, <2>2
<1> QED
  BY <1>1, <1>2 DEF Watching

\* A look that finds something ill says so.
LEMMA LookShows ==
    ASSUME NEW c \in Components
    PROVE  /\ Found("deep", c) \in Statuses /\ Found("shallow", c) \in Statuses
           /\ Found("none", c) \in Statuses
           /\ c \in IllNow => Found("deep", c) = "unhealthy"
  BY DEF Components, Found, DeepLook, ShallowLook, BreakerHealth, ConductorHealth, DetectorHealth,
         IllNow, Statuses

\* Asking the breaker for its state makes nothing better.
LEMMA AskingKeepsIll ==
    ASSUME NEW depth, LooksAtBreaker(depth) \/ UNCHANGED vars, UNCHANGED detector
    PROVE  IllNow' = IllNow
<1>1. DetectorHealth' = DetectorHealth
  BY DEF detector, DetectorHealth
<1>2. Checked' = "OPEN" <=> Checked = "OPEN"
  BY DEF LooksAtBreaker, Checked, vars, breaker
<1> QED
  BY <1>1, <1>2 DEF IllNow

\* A look keeps what was seen, and adds to it.
LEMMA LookKeeps ==
    ASSUME Watching, NEW r \in Requests, NEW c \in Components, ReportLooks(r, c),
           scene' = scene
    PROVE  Watching'
<1> DEFINE old == request[r].looks
           deep == request[r].depth
           looks == [d \in {c} \cup DOMAIN old |-> IF d = c THEN Found(deep, d) ELSE old[d]]
           new == [request[r] EXCEPT !.looks = looks]
<1>1. request[r] \in RequestRecord /\ old \in Looks /\ deep \in Depths \cup {"none"}
  BY DEF Watching, RequestRecord
<1>2. Found(deep, c) \in Statuses
  BY <1>1, LookShows DEF Depths
<1>3. looks \in Looks /\ DOMAIN looks = {c} \cup DOMAIN old /\ looks[c] = Found(deep, c)
      /\ \A d \in DOMAIN old : d # c => looks[d] = old[d]
  BY <1>1, <1>2 DEF Looks
<1>4. request' = [request EXCEPT ![r] = new]
  BY DEF ReportLooks, Goes
<1>5. ill' = ill /\ IllNow' = IllNow
  BY AskingKeepsIll DEF ReportLooks
<1> HIDE DEF looks
<1>6. new \in RequestRecord /\ new.looks = looks /\ new.depth = deep
  BY <1>1, <1>3 DEF RequestRecord
<1> HIDE DEF new
<1>7. request' \in [Requests -> RequestRecord] /\ request'[r] = new
      /\ \A q \in Requests : q # r => request'[q] = request[q]
  BY <1>4, <1>6 DEF Watching
<1>8. Shows(r)'
  <2>1. Shows(r)
    BY DEF Watching
  <2>2. deep = "deep" /\ c \in ill[r] => looks[c] = "unhealthy"
    BY <1>3, <2>1, LookShows DEF Shows
  <2>3. deep = "deep" => \A d \in ill[r] \cap DOMAIN old : old[d] = "unhealthy"
    BY <2>1 DEF Shows
  <2>4. deep = "deep" => \A d \in ill[r] \cap DOMAIN looks : looks[d] = "unhealthy"
    BY <1>3, <2>2, <2>3
  <2> HIDE DEF deep, old
  <2> QED
    BY <1>5, <1>6, <1>7, <2>1, <2>4 DEF Shows
<1>9. \A q \in Requests : q # r => Shows(q)'
  BY <1>5, <1>7 DEF Watching, Shows
<1> QED
  BY <1>5, <1>7, <1>8, <1>9 DEF Watching

\* The strengthening is inductive.
LEMMA WatchingStep == Watching /\ [ServicesNext]_all => Watching'
<1> SUFFICES ASSUME Watching, [ServicesNext]_all PROVE Watching'
  OBVIOUS
<1>0. scene' = scene
  BY DEF ServicesNext, BreakerStep, LimiterStep, ApiStep, EnsembleStep, RecordsStep, ChecksStep,
         Scene, all
<1>1. CASE UNCHANGED all \/ RecordsStep \/ ChecksStep
  <2>1. UNCHANGED <<api, vars, detector>>
    BY <1>1 DEF all, services, RecordsStep, ChecksStep
  <2>2. IllNow' = IllNow
    BY <2>1, AskingKeepsIll
  <2> QED
    BY <1>0, <2>1, <2>2 DEF Watching, Shows, api
<1>2. CASE BreakerStep \/ LimiterStep \/ EnsembleStep
  <2>1. UNCHANGED api /\ scene # "api"
    BY <1>2 DEF BreakerStep, LimiterStep, EnsembleStep, Scene
  <2> QED
    BY <1>0, <2>1 DEF Watching, Shows, api
<1>3. CASE ApiStep
  <2>1. ApiNext /\ scene = "api"
    BY <1>3 DEF ApiStep, Scene
  <2>2. /\ \A q \in Requests : ill[q] \subseteq IllNow
        /\ ill \in [Requests -> SUBSET Components]
    BY DEF Watching, Shows
  <2>3. ASSUME ill' = Watched
        PROVE  /\ ill' \in [Requests -> SUBSET Components]
               /\ \A q \in Requests : ill'[q] \subseteq IllNow' /\ ill'[q] \subseteq ill[q]
    BY <2>2, <2>3 DEF Watched
  <2>4. ASSUME NEW r \in Requests, Arrive(r) \/ Unauthorised(r) \/ CheckRefused(r) PROVE Watching'
    <3>1. UNCHANGED <<vars, detector, ill>>
      BY <2>4 DEF Arrive, Unauthorised, CheckRefused, Refuse
    <3>2. IllNow' = IllNow
      BY <3>1, AskingKeepsIll
    <3>3. \E new \in RequestRecord : DOMAIN new.looks = {} /\ Goes(r, new)
      BY <2>4, Unseen DEF Arrive, Unauthorised, CheckRefused
    <3> QED
      BY <1>0, <2>1, <2>2, <3>1, <3>2, <3>3, GoesUnseen
  <2>5. ASSUME NEW r \in Requests, TurnedAway(r) PROVE Watching'
    <3>1. UNCHANGED <<vars, detector, ill, request>>
      BY <2>5 DEF TurnedAway
    <3>2. IllNow' = IllNow
      BY <3>1, AskingKeepsIll
    <3> QED
      BY <1>0, <3>1, <3>2 DEF Watching, Shows
  <2>6. ASSUME NEW r \in Requests, CheckBegins(r) PROVE Watching'
    <3>1. UNCHANGED <<detector, ill>> /\ Checked # "OPEN" /\ state' = Checked
      BY <2>6 DEF CheckBegins, Admit
    <3>2. Checked' # "OPEN" /\ DetectorHealth' = DetectorHealth
      BY <3>1 DEF Checked, DetectorHealth, detector
    <3>3. IllNow' = IllNow
      BY <3>1, <3>2 DEF IllNow
    <3>4. \E new \in RequestRecord : DOMAIN new.looks = {} /\ Goes(r, new)
      BY <2>6, Unseen DEF CheckBegins
    <3> QED
      BY <1>0, <2>1, <2>2, <3>1, <3>3, <3>4, GoesUnseen
  <2>7. ASSUME NEW r \in Requests,
               CheckFails(r) \/ \E matched \in 0 .. Patterns, long \in BOOLEAN : CheckEnds(r, matched, long)
        PROVE  Watching'
    <3>1. ill' = Watched /\ Goes(r, Away)
      BY <2>7 DEF CheckFails, CheckEnds
    <3> QED
      BY <1>0, <2>1, <2>3, <3>1, GoesUnseen, Unseen
  <2>8. ASSUME NEW r \in Requests, NEW depth \in Depths, ReportBegins(r, depth) PROVE Watching'
    <3>1. UNCHANGED <<vars, detector>> /\ ill' = [ill EXCEPT ![r] = IllNow]
      BY <2>8 DEF ReportBegins
    <3>2. IllNow' = IllNow /\ IllNow \subseteq Components
      <4>1. IllNow' = IllNow
        BY <3>1, AskingKeepsIll
      <4> QED
        BY <4>1 DEF IllNow
    <3>3. \E new \in RequestRecord : DOMAIN new.looks = {} /\ Goes(r, new)
      BY <2>8, Unseen DEF ReportBegins
    <3> QED
      BY <1>0, <2>1, <2>2, <3>1, <3>2, <3>3, GoesUnseen
  <2>9. ASSUME NEW r \in Requests, ReportEnds(r) PROVE Watching'
    <3>1. UNCHANGED <<vars, detector>> /\ ill' = [ill EXCEPT ![r] = {}] /\ Goes(r, Away)
      BY <2>9 DEF ReportEnds
    <3>2. IllNow' = IllNow
      BY <3>1, AskingKeepsIll
    <3> QED
      BY <1>0, <2>1, <2>2, <3>1, <3>2, GoesUnseen, Unseen
  <2>10. ASSUME NEW r \in Requests, NEW component \in Components, ReportLooks(r, component)
         PROVE  Watching'
    BY <1>0, <2>10, LookKeeps
  <2>11. CASE ApiTick
    <3>1. ill' = Watched /\ request' = request
      BY <2>11 DEF ApiTick
    <3> QED
      BY <1>0, <2>1, <2>3, <3>1 DEF Watching, Shows
  <2>12. CASE ApiOutage
    <3>1. UNCHANGED <<breaker, detector, api>>
      BY <2>12 DEF ApiOutage, Outage
    <3>2. IllNow' = IllNow
      BY <3>1 DEF IllNow, Checked, DetectorHealth, breaker, detector
    <3> QED
      BY <1>0, <3>1, <3>2 DEF Watching, Shows, api
  <2> QED
    BY <2>1, <2>4, <2>5, <2>6, <2>7, <2>8, <2>9, <2>10, <2>11, <2>12 DEF ApiNext
<1> QED
  BY <1>1, <1>2, <1>3 DEF ServicesNext

\* Of the answer of a deep report.
LEMMA ReportSays ==
    ASSUME Watching, NEW r \in Requests, ReportEnds(r), request[r].depth = "deep", ill[r] # {}
    PROVE  Reported(r) = "unhealthy"
<1>1. PICK c \in ill[r] : c \in Components
  BY DEF Watching
<1>2. c \in DOMAIN request[r].looks /\ request[r].looks[c] = "unhealthy"
  BY <1>1 DEF ReportEnds, Watching, Shows
<1>3. "unhealthy" \in {request[r].looks[d] : d \in DOMAIN request[r].looks}
  BY <1>2
<1> QED
  BY <1>3 DEF Reported, Aggregate

\* Of the report of the monitoring.
LEMMA MonitoringSays ==
    ASSUME GiveReport, NEW c \in Checks, found[c] \in {"unhealthy", "crashed"}
    PROVE  Overall = "unhealthy"
<1>1. found[c] \in {found[d] : d \in DOMAIN found} \cap {"unhealthy", "crashed"}
  BY DEF GiveReport
<1> QED
  BY <1>1 DEF Overall

\* For any requests and callers: what is unhealthy all the time a deep report
\* looks, or crashed in a report of the monitoring, is not answered for healthy or
\* degraded, whatever other requests do in between.
THEOREM ServicesShowIllness == ServicesSpec => IllnessShows
<1>1. Watching =>
        [\A r \in Requests :
            ReportEnds(r) /\ request[r].depth = "deep" /\ ill[r] # {}
              => Reported(r) = "unhealthy"]_services
  BY ReportSays
<1>2. [GiveReport /\ (\E c \in Checks : found[c] \in {"unhealthy", "crashed"})
         => Overall = "unhealthy"]_monitoring
  BY MonitoringSays
<1> QED
  BY <1>1, <1>2, WatchingStarts, WatchingStep, PTL
     DEF ServicesSpec, IllnessShows, DeepReportShows, CrashShows
=============================================================================
