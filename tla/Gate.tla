-------------------------------- MODULE Gate --------------------------------
(***************************************************************************)
(* The gate of ember_armor/ledger: gate.check, the reminders of remind.py, *)
(* the session starts of announce.py and what hook.respond prints.  Calls  *)
(* of one session are judged concurrently (by hook processes or by threads *)
(* of the resident gate) while the owner edits the mode and confirms rules *)
(* and the clock is set.  Any stage of a call can fail.                    *)
(*                                                                         *)
(* The audit log is what AppendOnlyLog promises of it: an append adds one  *)
(* entry, which others can read before the append returns, and it can      *)
(* raise with or without its entry in the log.  Which rules fire is the    *)
(* input of a call (the engine decides it).                                *)
(***************************************************************************)
EXTENDS Integers, Sequences, FiniteSets

CONSTANTS
    Calls,          \* the tool calls proposed in the session
    Rules,          \* rules of all ledgers
    Declared,       \* the effect each rule declares, by its severity
    Window,         \* seconds before a rule is reminded again
    MaxRules,       \* most rules quoted in a reminder
    MaxTime,        \* bound on the clock
    MaxEdits,       \* bound on the owner's edits
    MaxStarts       \* bound on the session starts

\* SEVERITY of ember_armor/ledger/model.py
None == 0
Warn == 1
Ask  == 2
Deny == 3
Effects == None .. Deny

ASSUME GateAssumption ==
    /\ "start" \notin Calls
    /\ Declared \in [Rules -> {Warn, Ask, Deny}]
    /\ Window \in Nat
    /\ MaxRules \in Nat \ {0}
    /\ MaxTime \in Nat

VARIABLES
    mode,       \* the mode in the owner's configuration
    confirmed,  \* the rules the owner vouches for
    now,        \* the clock
    log,        \* the entries of the session, oldest first
    pc,         \* where each call is
    call,       \* what the gate knows of each call
    starter,    \* where the SessionStart hook is
    \* history
    context,    \* how often the agent lost what it was told
    unseen,     \* such losses the log does not hold
    edits       \* edits of the owner

owner   == <<mode, confirmed, edits>>
session == <<starter, context, unseen>>
vars    == <<owner, now, log, pc, call, session>>

-----------------------------------------------------------------------------
Modes   == {"observe", "remind", "enforce"}
Passive == {"observe", "remind"}
Answers == {"pending", "ask", "deny", "reminder", "nothing"}

\* _SessionLog.entries is None
NotRead == -1

Entry == [of : Calls \cup {"start"}, effect : Effects, quoted : SUBSET Rules,
          when : Nat]

Call == [mode   : Modes,            \* the mode it is judged in
         reads  : SUBSET (Modes \cup {"unreadable"}),   \* modes it ever read
         when   : Nat,              \* the moment of the call
         failed : BOOLEAN,          \* a stage of the gate failed
         effect : Effects,          \* the decision
         known  : SUBSET Rules,     \* the rules that were confirmed when loaded
         fired  : SUBSET Rules,
         seen   : Int,              \* entries of the log it read, to be used in
                                    \* the reminder; NotRead when it is used
         reminder : BOOLEAN,        \* there is a reminder,
         quoted : SUBSET Rules,     \* which quotes these,
         recent : SUBSET Rules,     \* and holds these back
         wrote  : BOOLEAN,          \* history: its entry is in the log,
         answer : Answers,          \* what was printed,
         by     : {"nobody", "hook", "last resort"},    \* by whom,
         toldIn : Nat,              \* in this context of the agent,
         context : Nat,             \* and the context when it began,
         after  : SUBSET Calls]     \* with these calls answered

NewCall == [mode |-> "observe", reads |-> {}, when |-> 0, failed |-> FALSE,
            effect |-> None, known |-> {}, fired |-> {}, seen |-> NotRead,
            reminder |-> FALSE, quoted |-> {}, recent |-> {}, wrote |-> FALSE,
            answer |-> "pending", by |-> "nobody", toldIn |-> 0, context |-> 0,
            after |-> {}]

Larger(a, b) == IF a > b THEN a ELSE b

\* Mutant: a rule nobody confirmed keeps the effect it declares.
MutEffective(rule, vouched) == Declared[rule]

\* active_rules: a rule no human confirmed can do no more than warn.
Effective(rule, vouched) == IF rule \in vouched THEN Declared[rule] ELSE Warn

\* The most severe effect of the rules that fired.
Decided(fired, vouched) ==
    CHOOSE effect \in Effects :
        /\ effect = None \/ \E r \in fired : Effective(r, vouched) = effect
        /\ \A r \in fired : Effective(r, vouched) <= effect

\* Mutant: a failure replaces what the rules decided.
MutFailure(given, effect) == IF given = "enforce" THEN Ask ELSE effect

\* _failure and _and: in enforce mode a failure adds an ask, elsewhere nothing.
Failure(given, effect) == IF given = "enforce" THEN Larger(effect, Ask) ELSE effect

\* _reminds
Reminds(given, effect) == given = "remind" \/ (given = "enforce" /\ effect < Ask)

\* Mutant: the mode is forgotten.
MutBlocking(c) == c.effect >= Ask

\* GateResult.blocking
Blocking(c) == c.mode = "enforce" /\ c.effect >= Ask

\* Mutant: what the agent was told before a compaction counts.
MutHeldBack(entries, moment) ==
    {r \in Rules : \E i \in DOMAIN entries :
        /\ r \in entries[i].quoted
        /\ moment >= entries[i].when /\ moment - entries[i].when < Window}

\* Mutant: what was told at the same moment is not held back.
MutHeldBackLater(entries, moment) ==
    {r \in Rules : \E i \in DOMAIN entries :
        /\ r \in entries[i].quoted
        /\ moment > entries[i].when /\ moment - entries[i].when < Window
        /\ \A j \in DOMAIN entries : entries[j].of = "start" => j < i}

\* reminded_within: an entry dated after the moment holds nothing back, and
\* neither does one before the last start that made the agent forget.
HeldBack(entries, moment) ==
    {r \in Rules : \E i \in DOMAIN entries :
        /\ r \in entries[i].quoted
        /\ moment >= entries[i].when /\ moment - entries[i].when < Window
        /\ \A j \in DOMAIN entries : entries[j].of = "start" => j < i}

\* compose: some of the rules that are due, by severity; the first one always
\* fits, a later one may be too long.
Composed(due, vouched) ==
    {quoted \in SUBSET due :
        /\ Cardinality(quoted) <= MaxRules
        /\ due # {} =>
             \E r \in quoted : \A s \in due :
                Effective(s, vouched) <= Effective(r, vouched)}

-----------------------------------------------------------------------------
Init ==
    /\ mode \in Modes
    /\ confirmed \in SUBSET Rules
    /\ now = 0
    /\ log = <<>>
    /\ pc = [p \in Calls |-> "idle"]
    /\ call = [p \in Calls |-> NewCall]
    /\ starter = "idle"
    /\ context = 0
    /\ unseen = 0
    /\ edits = 0

\* What the gate knows of the call becomes c, and the call goes on at `label'.
Goes(p, label, c) ==
    /\ call' = [call EXCEPT ![p] = c]
    /\ pc' = [pc EXCEPT ![p] = label]
    /\ UNCHANGED <<owner, now, session>>

\* The moment of the call and the mode.  A configuration nobody can read counts
\* as enforce, and as a failure.  The host has waited for its SessionStart hook.
Begin(p) ==
    /\ pc[p] = "idle" /\ starter = "idle"
    /\ Goes(p, "evaluate",
            [call[p] EXCEPT
                !.mode = IF mode = "unreadable" THEN "enforce" ELSE mode,
                !.reads = {mode}, !.failed = mode = "unreadable", !.when = now,
                !.context = context, !.after = {q \in Calls : pc[q] = "done"}])
    /\ UNCHANGED log

\* The rules are loaded and judged.  A ledger that does not load, a lookup that
\* fails or a rule that cannot be judged is a failure next to what did fire.
\* History predicates may read the log here, and the reminder then uses what
\* they read.
Evaluate(p) ==
    /\ pc[p] = "evaluate"
    /\ \E fired \in SUBSET Rules, partly \in BOOLEAN :
         LET failed  == call[p].failed \/ partly
             decided == Decided(fired, confirmed)
             effect  == IF failed THEN Failure(call[p].mode, decided) ELSE decided
             reminds == fired # {} /\ Reminds(call[p].mode, effect)
         IN  \E seen \in {NotRead} \cup IF reminds THEN {Len(log)} ELSE {} :
               Goes(p, IF reminds THEN "remind" ELSE "append",
                    [call[p] EXCEPT !.known = confirmed, !.fired = fired,
                                    !.failed = failed, !.effect = effect,
                                    !.seen = seen])
    /\ UNCHANGED log

\* Whatever else is raised before there is a decision, the hook's own problems
\* (its input, its arguments) included: no rule fired.
EvaluateRaises(p) ==
    /\ pc[p] = "evaluate"
    /\ Goes(p, "append",
            [call[p] EXCEPT !.failed = TRUE,
                            !.effect = Failure(call[p].mode, None)])
    /\ UNCHANGED log

\* remind(): what of the rules that fired the agent is told.
Remind(p) ==
    /\ pc[p] = "remind"
    /\ LET c       == call[p]
           vouched == c.fired \cap c.known
           seen    == IF c.seen = NotRead THEN Len(log) ELSE c.seen
           recent  == vouched \cap HeldBack(SubSeq(log, 1, seen), c.when)
       IN  \E quoted \in Composed(vouched \ recent, c.known) :
             Goes(p, "append", [c EXCEPT !.reminder = TRUE, !.quoted = quoted,
                                         !.recent = recent, !.seen = NotRead])
    /\ UNCHANGED log

\* The interval is no number, or the log cannot be read.
RemindRaises(p) ==
    /\ pc[p] = "remind"
    /\ Goes(p, "append",
            [call[p] EXCEPT !.failed = TRUE, !.seen = NotRead,
                            !.effect = Failure(call[p].mode, @)])
    /\ UNCHANGED log

\* log.append: the entry is in the log, and append() goes on.
AppendLine(p) ==
    /\ pc[p] = "append"
    /\ log' = Append(log, [of |-> p, effect |-> call[p].effect,
                           quoted |-> call[p].quoted, when |-> call[p].when])
    /\ Goes(p, "appended",
            [call[p] EXCEPT !.wrote = TRUE])

AppendReturns(p) ==
    /\ pc[p] = "appended"
    /\ Goes(p, "answer",
            [call[p] EXCEPT !.reminder = @ /\ Reminds(call[p].mode, call[p].effect)])
    /\ UNCHANGED log

\* Mutant: what the log does not hold is sent.
MutAppendRaises(p) ==
    /\ pc[p] \in {"append", "appended"}
    /\ Goes(p, "answer",
            [call[p] EXCEPT !.failed = TRUE,
                            !.effect = Failure(call[p].mode, @)])
    /\ UNCHANGED log

\* append() raises, before its entry is in the log or after: what the log does
\* not hold is not sent.
AppendRaises(p) ==
    /\ pc[p] \in {"append", "appended"}
    /\ Goes(p, "answer",
            [call[p] EXCEPT !.failed = TRUE,
                            !.effect = Failure(call[p].mode, @),
                            !.reminder = FALSE])
    /\ UNCHANGED log

\* hook_output: a decision, a reminder, or nothing.
Printed(c) ==
    IF Blocking(c) THEN IF c.effect = Deny THEN "deny" ELSE "ask"
    ELSE IF c.reminder /\ c.quoted # {} /\ c.mode # "observe" THEN "reminder"
    ELSE "nothing"

Answer(p) ==
    /\ pc[p] = "answer"
    /\ Goes(p, "done",
            [call[p] EXCEPT !.answer = Printed(call[p]), !.by = "hook",
                            !.toldIn = context])
    /\ UNCHANGED log

\* Mutant: after a failure of its own the hook prints nothing.
MutLastResort(p) ==
    /\ pc[p] = "answer" \/ (pc[p] = "idle" /\ starter = "idle")
    /\ Goes(p, "done",
            [call[p] EXCEPT !.failed = TRUE, !.reads = @ \cup {mode},
                            !.answer = "nothing", !.by = "last resort"])
    /\ UNCHANGED log

\* respond: the hook itself fails, on its input (before the gate sees the call)
\* or on the result.  It asks, unless the mode, read now, is known to let a
\* failure pass.
LastResort(p) ==
    /\ pc[p] = "answer" \/ (pc[p] = "idle" /\ starter = "idle")
    /\ Goes(p, "done",
            [call[p] EXCEPT !.failed = TRUE, !.reads = @ \cup {mode},
                            !.answer = IF mode \in Passive THEN "nothing" ELSE "ask",
                            !.by = "last resort"])
    /\ UNCHANGED log

\* The process is killed, by the host's timeout or otherwise: nothing is printed.
Die(p) ==
    /\ pc[p] \notin {"idle", "done"}
    /\ Goes(p, "done",
            [call[p] EXCEPT !.answer = "nothing", !.seen = NotRead])
    /\ UNCHANGED log

\* The context is compacted or cleared, and the host runs the SessionStart hook.
Forget ==
    /\ starter = "idle"
    /\ context < MaxStarts
    /\ context' = context + 1
    /\ starter' = "start"
    /\ UNCHANGED <<owner, now, log, pc, call, unseen>>

\* announce() in observe mode, with an unreadable configuration, or with an
\* append that raises: the log knows nothing of the start.
StartUnseen ==
    /\ \/ starter = "start" /\ mode \in {"observe", "unreadable"}
       \/ starter = "record"
    /\ starter' = "idle"
    /\ unseen' = unseen + 1
    /\ UNCHANGED <<owner, now, log, pc, call, context>>

StartMode ==
    /\ starter = "start"
    /\ mode \in {"remind", "enforce"}
    /\ starter' = "record"
    /\ UNCHANGED <<owner, now, log, pc, call, context, unseen>>

\* The start is logged, whether or not a summary is printed.
StartRecord ==
    /\ starter = "record"
    /\ log' = Append(log, [of |-> "start", effect |-> None, quoted |-> {},
                           when |-> now])
    /\ starter' = "idle"
    /\ UNCHANGED <<owner, now, pc, call, context, unseen>>

\* The owner writes another mode, or something nobody can read; rules are
\* confirmed, and confirmations are withdrawn by editing a rule.
Edit ==
    /\ edits < MaxEdits
    /\ edits' = edits + 1
    /\ \/ mode' \in Modes \cup {"unreadable"} /\ UNCHANGED confirmed
       \/ confirmed' \in SUBSET Rules /\ UNCHANGED mode
    /\ UNCHANGED <<now, log, pc, call, session>>

\* Time passes, or the clock is set back.
Clock ==
    /\ now' \in 0 .. MaxTime
    /\ UNCHANGED <<owner, log, pc, call, session>>

CallStep(p) ==
    \/ Begin(p)
    \/ Evaluate(p)
    \/ EvaluateRaises(p)
    \/ Remind(p)
    \/ RemindRaises(p)
    \/ AppendLine(p)
    \/ AppendReturns(p)
    \/ AppendRaises(p)
    \/ Answer(p)
    \/ LastResort(p)
    \/ Die(p)

Next ==
    \/ \E p \in Calls : CallStep(p)
    \/ Forget
    \/ StartUnseen
    \/ StartMode
    \/ StartRecord
    \/ Edit
    \/ Clock

Spec == Init /\ [][Next]_vars

-----------------------------------------------------------------------------
(* Properties.                                                             *)

TypeOK ==
    /\ mode \in Modes \cup {"unreadable"}
    /\ confirmed \in SUBSET Rules
    /\ now \in Nat
    /\ log \in Seq(Entry)
    /\ pc \in [Calls -> {"idle", "evaluate", "remind", "append", "appended",
                         "answer", "done"}]
    /\ call \in [Calls -> Call]
    /\ starter \in {"idle", "start", "record"}
    /\ context \in Nat
    /\ unseen \in Nat
    /\ edits \in Nat

\* The gate never turns its own failure into silent approval: a call whose
\* evaluation, reminder, audit entry or answer failed is answered with a
\* decision, unless a mode it read lets failures pass (or nobody was left to
\* answer: the process was killed).
FailClosed ==
    \A p \in Calls :
        call[p].by # "nobody" /\ call[p].failed /\ call[p].reads \cap Passive = {}
            => call[p].answer \in {"ask", "deny"}

\* ... and in a mode that only observes or reminds nothing is ever decided.
PassiveDecidesNothing ==
    \A p \in Calls :
        call[p].reads \subseteq Passive => call[p].answer \notin {"ask", "deny"}

\* Failures only add an ask: a deny of a confirmed rule that fired is printed
\* whatever failed before the answer itself.
DenyStands ==
    \A p \in Calls :
        /\ call[p].mode = "enforce" /\ call[p].by = "hook"
        /\ \E r \in call[p].fired \cap call[p].known : Declared[r] = Deny
        => call[p].answer = "deny"

\* A rule nobody confirmed never blocks and is never quoted: a decision is
\* owed to a confirmed rule that asks or denies, or to a failure, which is never
\* a hard block.
UnconfirmedUnheard ==
    \A p \in Calls :
        /\ call[p].quoted \subseteq call[p].known
        /\ call[p].answer \in {"ask", "deny"} =>
             \/ call[p].failed /\ call[p].answer = "ask"
             \/ \E r \in call[p].fired \cap call[p].known : Declared[r] >= Ask

Told(p) == IF call[p].answer = "reminder" THEN call[p].quoted ELSE {}

\* What the agent was reminded of is in the log, and the log's entry of a call
\* answered without a failure holds the decision it was answered with.
ToldIsLogged ==
    \A p \in Calls :
        /\ Told(p) # {} => \E i \in DOMAIN log :
             log[i].of = p /\ log[i].quoted = Told(p)
        /\ call[p].by = "hook" /\ ~ call[p].failed => \E i \in DOMAIN log :
             log[i].of = p /\ log[i].effect = call[p].effect

\* Of two calls one of which began after the other was answered, both in one
\* context of the agent, only one reminds of a rule inside the interval
\* (unless the clock was set back between them).
OncePerInterval ==
    \A p \in Calls : \A q \in call[p].after :
        /\ Told(p) \cap Told(q) # {}
        /\ call[q].context = call[p].context /\ call[p].toldIn = call[p].context
        /\ call[p].when >= call[q].when
        => call[p].when - call[q].when >= Window

\* A rule is held back only because the agent was told it in the context it has
\* now, or is about to be, or the call that was to tell it was cut off or failed
\* after its entry was written.  (As long as the log holds every start.)
HeldBackWasSaid ==
    unseen = 0 =>
        \A p \in Calls : \A r \in call[p].recent : \E q \in Calls :
            /\ call[q].wrote /\ r \in call[q].quoted
            /\ \/ call[q].answer = "pending"
               \/ call[q].failed \/ call[q].by = "nobody"
               \/ r \in Told(q) /\ call[q].toldIn >= call[p].context
=============================================================================
