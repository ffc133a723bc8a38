----------------------------- MODULE Monitoring -----------------------------
(***************************************************************************)
(* ember_armor/monitoring: the correlation ids of the log, and the health  *)
(* checker with its six checks.  Tasks of the event loop interleave        *)
(* between the steps.                                                      *)
(***************************************************************************)
EXTENDS Integers, Sequences, SequencesExt, FiniteSets

CONSTANTS
    Tasks,          \* tasks of the event loop
    FirstTask,      \* the task that is there from the start
    Ids,            \* correlation ids
    MaxScopes       \* bound on the scopes of a task

ASSUME MonitoringAssumption == FirstTask \in Tasks

VARIABLES
    alive,          \* the tasks that were created
    context,        \* _cid_var in the context of each task
    tokens,         \* what each task's open scopes put back when they end
    entry,          \* the last record of the log: who wrote it, and its id
    found,          \* the checks of a report that have ended
    meant           \* history: the ids each task has set, innermost last

records == <<alive, context, tokens, entry, meant>>
monitoring == <<records, found>>

-----------------------------------------------------------------------------
NoId == "none"
NoEntry == [task |-> NoId, id |-> NoId]
NoChecks == [c \in {} |-> ""]

MonitoringInit ==
    /\ alive = {FirstTask}
    /\ context = [t \in Tasks |-> NoId]
    /\ tokens = [t \in Tasks |-> <<>>]
    /\ entry = NoEntry
    /\ found = NoChecks
    /\ meant = [t \in Tasks |-> <<NoId>>]

-----------------------------------------------------------------------------
(* Correlation ids.                                                        *)

\* set_correlation_id
SetId(t, i) ==
    /\ t \in alive
    /\ context' = [context EXCEPT ![t] = i]
    /\ meant' = [meant EXCEPT ![t] = Append(Front(@), i)]
    /\ UNCHANGED <<alive, tokens, entry, found>>

\* correlation_scope is entered: the token holds what was set before.
EnterScope(t, i) ==
    /\ t \in alive
    /\ Len(tokens[t]) < MaxScopes
    /\ context' = [context EXCEPT ![t] = i]
    /\ tokens' = [tokens EXCEPT ![t] = Append(@, context[t])]
    /\ meant' = [meant EXCEPT ![t] = Append(@, i)]
    /\ UNCHANGED <<alive, entry, found>>

\* Mutant: the id is cleared where the scope ends.
MutLeaveScope(t) ==
    /\ tokens[t] # <<>>
    /\ context' = [context EXCEPT ![t] = NoId]
    /\ tokens' = [tokens EXCEPT ![t] = Front(tokens[t])]
    /\ meant' = [meant EXCEPT ![t] = Front(meant[t])]
    /\ UNCHANGED <<alive, entry, found>>

\* The scope ends, also with an exception: what the token holds is put back.
LeaveScope(t) ==
    /\ tokens[t] # <<>>
    /\ context' = [context EXCEPT ![t] = Last(tokens[t])]
    /\ tokens' = [tokens EXCEPT ![t] = Front(@)]
    /\ meant' = [meant EXCEPT ![t] = Front(@)]
    /\ UNCHANGED <<alive, entry, found>>

\* A task is created: it begins with a copy of the context, and shares no scope.
Spawn(t, u) ==
    /\ t \in alive
    /\ u \notin alive
    /\ alive' = alive \cup {u}
    /\ context' = [context EXCEPT ![u] = context[t]]
    /\ meant' = [meant EXCEPT ![u] = <<Last(meant[t])>>]
    /\ UNCHANGED <<tokens, entry, found>>

\* StructuredLogger._log
Log(t) ==
    /\ t \in alive
    /\ entry' = [task |-> t, id |-> context[t]]
    /\ UNCHANGED <<alive, context, tokens, found, meant>>

-----------------------------------------------------------------------------
(* The health checker.                                                     *)

Checks == {"auth", "circuit_breaker", "consensus", "detector", "disk", "memory"}

\* Percentages that lie between the thresholds, and on them.
DiskStatus(free) ==
    IF free < 10 THEN "unhealthy" ELSE IF free < 20 THEN "degraded" ELSE "healthy"
MemoryStatus(used) ==
    IF used > 95 THEN "unhealthy" ELSE IF used > 85 THEN "degraded" ELSE "healthy"
Free == {9, 10, 19, 20}
Used == {85, 86, 95, 96}

\* What a check can find.  The first four build an instance of their own and
\* report healthy whenever that works, whatever its health_check says; without
\* psutil the memory counts as healthy.
CheckOutcomes(check) ==
    CASE check = "disk"   -> {DiskStatus(free) : free \in Free} \cup {"unhealthy"}
      [] check = "memory" -> {MemoryStatus(used) : used \in Used} \cup {"healthy", "unhealthy"}
      [] OTHER            -> {"healthy", "unhealthy"}

\* A check ends.
EndCheck(check, status) ==
    /\ check \notin DOMAIN found
    /\ status \in CheckOutcomes(check)
    /\ found' = [c \in {check} \cup DOMAIN found |-> IF c = check THEN status ELSE found[c]]
    /\ UNCHANGED records

\* A check raises what it does not catch itself.
Crash(check) ==
    /\ check \notin DOMAIN found
    /\ found' = [c \in {check} \cup DOMAIN found |-> IF c = check THEN "crashed" ELSE found[c]]
    /\ UNCHANGED records

\* _run_checks takes what crashed for unhealthy, and _aggregate.
Overall ==
    LET statuses == {found[c] : c \in DOMAIN found}
    IN  IF statuses \cap {"unhealthy", "crashed"} # {} THEN "unhealthy"
        ELSE IF "degraded" \in statuses THEN "degraded" ELSE "healthy"

\* The report is given, and another one can begin.
GiveReport ==
    /\ DOMAIN found = Checks
    /\ found' = NoChecks
    /\ UNCHANGED records

RecordsNext ==
    \E t \in Tasks :
        \/ \E i \in Ids : SetId(t, i) \/ EnterScope(t, i)
        \/ LeaveScope(t) \/ Log(t)
        \/ \E u \in Tasks : Spawn(t, u)

ChecksNext ==
    \/ \E check \in Checks :
           Crash(check) \/ \E status \in CheckOutcomes(check) : EndCheck(check, status)
    \/ GiveReport

MonitoringSpec == MonitoringInit /\ [][RecordsNext \/ ChecksNext]_monitoring

-----------------------------------------------------------------------------
(* Properties.                                                             *)

\* Every record of the log carries the id its own task has set in its innermost
\* scope, or that of the task that created it, whatever other tasks set while
\* it was suspended.
LogsOwnId == [][\A t \in Tasks : Log(t) => entry'.id = Last(meant[t])]_monitoring

\* A report in which a check was unhealthy, or crashed, is never given for
\* healthy or degraded, whatever the other five found and in whatever order.
CrashShows ==
    [][GiveReport /\ (\E c \in Checks : found[c] \in {"unhealthy", "crashed"})
         => Overall = "unhealthy"]_monitoring
=============================================================================
