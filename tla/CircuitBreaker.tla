--------------------------- MODULE CircuitBreaker ---------------------------
(***************************************************************************)
(* The circuit breaker of ember_armor/core/circuit_breaker.py, around the  *)
(* detector of the HTTP API.  Each block under the lock runs to its end    *)
(* without suspending (nothing in it awaits anything), so it is one step;  *)
(* the protected function runs between two of them, without the lock, and  *)
(* any number of calls run at once.                                        *)
(*                                                                         *)
(* Moments are kept as ages: what time.time() minus the moment gives, up   *)
(* to the first age at which it no longer matters.  The clock is taken     *)
(* never to be set back.  An entry of a failure is a record: its age, and  *)
(* a number that keeps two of one moment apart; what order the list has    *)
(* them in matters to nothing that reads it.                               *)
(***************************************************************************)
EXTENDS Integers, FiniteSets

CONSTANTS
    Callers,            \* requests of the API that call the detector
    Threshold,          \* failure_threshold
    RecoveryTimeout,    \* recovery_timeout, in units of the clock
    WindowSize,         \* window_size
    MaxOutages,         \* bound on the outages of what is protected
    MaxCancels          \* bound on the calls that are cancelled

ASSUME BreakerAssumption ==
    /\ Threshold \in Nat \ {0}
    /\ RecoveryTimeout \in Nat
    /\ WindowSize \in Nat

VARIABLES
    state,          \* _state
    failures,       \* _failures
    lastFailure,    \* the age of _last_failure_time, Never when it is None
    running,        \* what each caller's protected function is doing
    \* environment
    outage,         \* what is protected can fail now
    outages, cancels,
    \* history
    sinceClose,     \* the failures of the last WindowSize since the breaker
                    \* was last closed
    tripped         \* the age of the last trip

breaker == <<state, failures, lastFailure>>
world   == <<outage, outages, cancels>>
history == <<sinceClose, tripped>>
vars    == <<breaker, running, world, history>>

-----------------------------------------------------------------------------
States == {"CLOSED", "OPEN", "HALF_OPEN"}
\* An age at which a moment no longer matters.
Old == (IF RecoveryTimeout > WindowSize THEN RecoveryTimeout ELSE WindowSize) + 1
Never == -1

Older(age) == IF age = Never \/ age = Old THEN age ELSE age + 1
Recent(entries) == {e \in entries : e.age <= WindowSize}

\* Mutant: a failure exactly at the boundary of the window is dropped.
MutPruned(entries) == {e \in entries : e.age < WindowSize}

\* _prune_window: what is exactly at the boundary is kept.
Pruned(entries) == {e \in entries : e.age <= WindowSize}

\* Mutant: the state does not depend on the time.
MutChecked == IF state = "OPEN" THEN "HALF_OPEN" ELSE state

\* _check_state: an open breaker becomes half-open after the recovery timeout.
Checked ==
    IF state = "OPEN" /\ lastFailure > RecoveryTimeout THEN "HALF_OPEN" ELSE state

-----------------------------------------------------------------------------
Init ==
    /\ state = "CLOSED"
    /\ failures = {}
    /\ lastFailure = Never
    /\ running = [c \in Callers |-> "idle"]
    /\ outage = FALSE
    /\ outages = 0
    /\ cancels = 0
    /\ sinceClose = {}
    /\ tripped = Never

\* call() up to the protected function.
Admit(c) ==
    /\ running[c] = "idle"
    /\ state' = Checked
    /\ state' # "OPEN"
    /\ running' = [running EXCEPT ![c] = state']
    /\ UNCHANGED <<failures, lastFailure, world, history>>

\* Mutant: a call that is refused counts as a failure.
MutRefuse(c) ==
    /\ running[c] = "idle"
    /\ Checked = "OPEN"
    /\ lastFailure' = 0
    /\ UNCHANGED <<state, failures, running, world, history>>

\* call() raises CircuitBreakerOpen.
Refuse(c) ==
    /\ running[c] = "idle"
    /\ Checked = "OPEN"
    /\ UNCHANGED vars

\* The protected function returns, and _record_success: a half-open breaker is
\* closed, whenever the call was let in.
Succeed(c) ==
    /\ running[c] # "idle"
    /\ running' = [running EXCEPT ![c] = "idle"]
    /\ IF state = "HALF_OPEN"
       THEN /\ state' = "CLOSED"
            /\ failures' = {}
            /\ sinceClose' = {}
       ELSE UNCHANGED <<state, failures, sinceClose>>
    /\ UNCHANGED <<lastFailure, world, tripped>>

\* The entry of a failure of this moment.
Failure == [age |-> 0, nr |-> Cardinality({e \in failures : e.age = 0})]

\* The protected function raises, and _record_failure: the failure is recorded,
\* the window is pruned, and the threshold is checked, in every state.
Fail(c) ==
    /\ running[c] # "idle"
    /\ outage
    /\ running' = [running EXCEPT ![c] = "idle"]
    /\ failures' = Pruned(failures \cup {Failure})
    /\ lastFailure' = 0
    /\ sinceClose' = sinceClose \cup {Failure}
    /\ IF Cardinality(failures') >= Threshold
       THEN state' = "OPEN" /\ tripped' = 0
       ELSE UNCHANGED <<state, tripped>>
    /\ UNCHANGED world

\* The request is cancelled while the protected function runs: CancelledError
\* is no Exception, and nothing is recorded.
Cancel(c) ==
    /\ running[c] # "idle"
    /\ cancels < MaxCancels
    /\ cancels' = cancels + 1
    /\ running' = [running EXCEPT ![c] = "idle"]
    /\ UNCHANGED <<breaker, outage, outages, history>>

\* get_state, of health_check: looking at the state can change it.
GetState ==
    /\ state' = Checked
    /\ UNCHANGED <<failures, lastFailure, running, world, history>>

\* get_failure_count
GetFailureCount ==
    /\ failures' = Pruned(failures)
    /\ UNCHANGED <<state, lastFailure, running, world, history>>

Outage ==
    /\ \/ outage /\ UNCHANGED outages
       \/ ~ outage /\ outages < MaxOutages /\ outages' = outages + 1
    /\ outage' = ~ outage
    /\ UNCHANGED <<breaker, running, cancels, history>>

Aged(entries) == {[e EXCEPT !.age = Older(@)] : e \in entries}

Tick ==
    /\ failures' = Aged(failures)
    /\ lastFailure' = Older(lastFailure)
    /\ sinceClose' = Recent(Aged(sinceClose))
    /\ tripped' = Older(tripped)
    /\ UNCHANGED <<state, running, world>>

Next ==
    \/ \E c \in Callers : Admit(c) \/ Refuse(c) \/ Succeed(c) \/ Fail(c) \/ Cancel(c)
    \/ GetState
    \/ GetFailureCount
    \/ Outage
    \/ Tick

Spec == Init /\ [][Next]_vars

\* Time passes, requests keep coming, and every protected function ends.
FairSpec ==
    /\ Spec
    /\ WF_vars(Tick)
    /\ \A c \in Callers : WF_vars(Admit(c)) /\ WF_vars(Succeed(c) \/ Fail(c))

-----------------------------------------------------------------------------
(* Properties.                                                             *)

\* The breaker trips only on as many failures as the threshold, all of them in
\* one window and since it was last closed; and while it stays closed it has seen
\* fewer, the boundary of the window included: none of them was pruned early.
TripsOnThreshold ==
    [][/\ state # "OPEN" /\ state' = "OPEN" => Cardinality(sinceClose') >= Threshold
       /\ state' = "CLOSED" => Cardinality(sinceClose') < Threshold]_vars

\* After a trip nothing is let through before the recovery timeout has passed,
\* whatever the calls that were running then, and the health checks, do.
CoolsDown ==
    [][(\E c \in Callers : running[c] = "idle" /\ running'[c] # "idle")
         => state = "CLOSED" \/ tripped > RecoveryTimeout]_vars

\* An open breaker is not open for ever: the failures of calls let in before the
\* trip put the recovery off, but they come to an end.
LeavesOpen == (state = "OPEN") ~> (state # "OPEN")

\* Once what is protected works again the breaker closes and stays closed.
Heals == <>[]~ outage => <>[](state = "CLOSED")

=============================================================================
