----------------------------- MODULE GateProofs -----------------------------
(***************************************************************************)
(* Proofs about Gate: for any calls, rules, effects, interval and bounds.  *)
(* First what a call decides and answers, then what the agent is reminded  *)
(* of.                                                                     *)
(***************************************************************************)
EXTENDS Gate, TLAPS, SequenceTheorems

\* That the log was not read is told from how many entries were.
LEMMA NotReadTyped == NotRead \in Int
  BY DEF NotRead

\* The decision is one of the four effects: the most severe of what fired, none
\* when nothing did.
LEMMA DecidedIs ==
    ASSUME NEW fired \in SUBSET Rules, NEW vouched \in SUBSET Rules
    PROVE  /\ Decided(fired, vouched) \in Effects
           /\ \/ Decided(fired, vouched) = None
              \/ \E r \in fired : Effective(r, vouched) = Decided(fired, vouched)
           /\ \A r \in fired : Effective(r, vouched) <= Decided(fired, vouched)
<1> DEFINE Most(effect) ==
        /\ effect = None \/ \E r \in fired : Effective(r, vouched) = effect
        /\ \A r \in fired : Effective(r, vouched) <= effect
<1>1. \A r \in fired : Effective(r, vouched) \in {1, 2, 3}
  BY GateAssumption DEF Effective, Warn, Ask, Deny
<1>2. \E effect \in Effects : Most(effect)
  <2>1. CASE \E r \in fired : Effective(r, vouched) = 3
    <3>1. Most(3)
      BY <2>1, <1>1
    <3> QED
      BY <3>1 DEF Effects, None, Deny
  <2>2. CASE /\ ~ \E r \in fired : Effective(r, vouched) = 3
             /\ \E r \in fired : Effective(r, vouched) = 2
    <3>1. Most(2)
      BY <2>2, <1>1
    <3> QED
      BY <3>1 DEF Effects, None, Deny
  <2>3. CASE /\ ~ \E r \in fired : Effective(r, vouched) \in {2, 3}
             /\ \E r \in fired : Effective(r, vouched) = 1
    <3>1. Most(1)
      BY <2>3, <1>1
    <3> QED
      BY <3>1 DEF Effects, None, Deny
  <2>4. CASE fired = {}
    <3>1. Most(0)
      BY <2>4 DEF None
    <3> QED
      BY <3>1 DEF Effects, None, Deny
  <2> QED
    BY <1>1, <2>1, <2>2, <2>3, <2>4
<1>3. Decided(fired, vouched) = CHOOSE effect \in Effects : Most(effect)
  BY DEF Decided
<1>4. Decided(fired, vouched) \in Effects /\ Most(Decided(fired, vouched))
  BY <1>2, <1>3
<1> QED
  BY <1>4

\* A failure keeps an effect and adds an ask in enforce mode.
LEMMA FailureIs ==
    ASSUME NEW given \in Modes, NEW effect \in Effects
    PROVE  /\ Failure(given, effect) \in Effects
           /\ given = "enforce" => Failure(given, effect) >= Ask
           /\ effect = Deny => Failure(given, effect) = Deny
           /\ Failure(given, effect) \in {effect, Ask}
  BY DEF Failure, Larger, Effects, None, Ask, Deny

-----------------------------------------------------------------------------
(* Type correctness.                                                       *)

\* A step of a call keeps the types when what it makes of the call is a call.
LEMMA CallTyped ==
    ASSUME TypeOK, NEW p \in Calls, NEW c \in Call,
           NEW label \in {"evaluate", "remind", "append", "appended", "answer",
                          "done"},
           Goes(p, label, c), log' \in Seq(Entry)
    PROVE  TypeOK'
  BY DEF TypeOK, Goes, owner, session

\* The first record of a call.
LEMMA NewCallTyped == NewCall \in Call
  BY NotReadTyped DEF NewCall, Call, Modes, Effects, None, Deny, Answers

\* A call that read the mode and the clock is a call.
LEMMA BegunTyped ==
    ASSUME NEW c \in Call, NEW given \in Modes,
           NEW reads \in SUBSET (Modes \cup {"unreadable"}),
           NEW failed \in BOOLEAN, NEW when \in Nat, NEW where \in Nat,
           NEW after \in SUBSET Calls
    PROVE  [c EXCEPT !.mode = given, !.reads = reads, !.failed = failed,
                     !.when = when, !.context = where, !.after = after] \in Call
  BY DEF Call

\* Begin makes a call of what it reads.
LEMMA BeginTyped ==
    ASSUME TypeOK, NEW p \in Calls, Begin(p)
    PROVE  \E c \in Call : Goes(p, "evaluate", c)
<1> DEFINE c == [call[p] EXCEPT
                  !.mode = IF mode = "unreadable" THEN "enforce" ELSE mode,
                  !.reads = {mode}, !.failed = mode = "unreadable", !.when = now,
                  !.context = context, !.after = {q \in Calls : pc[q] = "done"}]
<1>1. call[p] \in Call /\ now \in Nat /\ context \in Nat
      /\ mode \in Modes \cup {"unreadable"}
  BY DEF TypeOK
<1>3. /\ (IF mode = "unreadable" THEN "enforce" ELSE mode) \in Modes
      /\ (mode = "unreadable") \in BOOLEAN
      /\ {mode} \in SUBSET (Modes \cup {"unreadable"})
      /\ {q \in Calls : pc[q] = "done"} \in SUBSET Calls
  BY <1>1 DEF Modes
<1>4. call[p] \in Call
  BY <1>1
<1>5. c \in Call
  BY <1>1, <1>3, <1>4, BegunTyped
<1>2. Goes(p, "evaluate", c)
  BY DEF Begin
<1> QED
  BY <1>5, <1>2

\* What Evaluate makes of a call, by what fired and whether a part failed.
Judged(c, vouched, fired, partly, seen) ==
    [c EXCEPT !.known = vouched, !.fired = fired, !.failed = c.failed \/ partly,
              !.effect = IF c.failed \/ partly
                         THEN Failure(c.mode, Decided(fired, vouched))
                         ELSE Decided(fired, vouched),
              !.seen = seen]

\* Evaluate judges a call by some rules that fired.
LEMMA EvaluateJudges ==
    ASSUME TypeOK, NEW p \in Calls, Evaluate(p)
    PROVE  \E fired \in SUBSET Rules, partly \in BOOLEAN, seen \in Int,
              label \in {"remind", "append"} :
             Goes(p, label, Judged(call[p], confirmed, fired, partly, seen))
<1> DEFINE Effect(fired, failed) ==
             IF failed THEN Failure(call[p].mode, Decided(fired, confirmed))
                       ELSE Decided(fired, confirmed)
           Now(fired, failed) ==
             fired # {} /\ Reminds(call[p].mode, Effect(fired, failed))
<1>1. PICK fired \in SUBSET Rules, partly \in BOOLEAN :
        \E seen \in {NotRead} \cup IF Now(fired, call[p].failed \/ partly)
                              THEN {Len(log)} ELSE {} :
           Goes(p, IF Now(fired, call[p].failed \/ partly)
                   THEN "remind" ELSE "append",
                Judged(call[p], confirmed, fired, partly, seen))
  BY DEF Evaluate, Judged
<1> HIDE DEF Now
<1>2. PICK seen \in {NotRead} \cup IF Now(fired, call[p].failed \/ partly)
                              THEN {Len(log)} ELSE {} :
           Goes(p, IF Now(fired, call[p].failed \/ partly)
                   THEN "remind" ELSE "append",
                Judged(call[p], confirmed, fired, partly, seen))
  BY <1>1
<1>3. seen \in Int
  BY LenProperties, NotReadTyped DEF TypeOK
<1> QED
  BY <1>2, <1>3

\* ... and makes a call of it.
LEMMA JudgedTyped ==
    ASSUME NEW c \in Call, NEW vouched \in SUBSET Rules,
           NEW fired \in SUBSET Rules, NEW partly \in BOOLEAN, NEW seen \in Int
    PROVE  Judged(c, vouched, fired, partly, seen) \in Call
<1>1. c.mode \in Modes /\ c.failed \in BOOLEAN
  BY DEF Call
<1> DEFINE effect == IF c.failed \/ partly
                     THEN Failure(c.mode, Decided(fired, vouched))
                     ELSE Decided(fired, vouched)
<1>2. effect \in Effects
  BY <1>1, DecidedIs, FailureIs
<1>3. Judged(c, vouched, fired, partly, seen) =
        [c EXCEPT !.known = vouched, !.fired = fired,
                  !.failed = c.failed \/ partly, !.effect = effect, !.seen = seen]
  BY DEF Judged
<1> HIDE DEF effect
<1> QED
  BY <1>1, <1>2, <1>3 DEF Call

\* The later stages of a call make a call of it.
LEMMA StagesTyped ==
    ASSUME NEW c \in Call
    PROVE  /\ \A effect \in Effects :
              [c EXCEPT !.failed = TRUE, !.effect = effect] \in Call
           /\ \A effect \in Effects :
              [c EXCEPT !.failed = TRUE, !.seen = NotRead,
                        !.effect = effect] \in Call
           /\ \A effect \in Effects :
              [c EXCEPT !.failed = TRUE, !.effect = effect,
                        !.reminder = FALSE] \in Call
           /\ \A quoted, recent \in SUBSET Rules :
              [c EXCEPT !.reminder = TRUE, !.quoted = quoted,
                        !.recent = recent, !.seen = NotRead] \in Call
           /\ [c EXCEPT !.wrote = TRUE] \in Call
           /\ \A flag \in BOOLEAN :
              [c EXCEPT !.reminder = flag] \in Call
           /\ \A answer \in Answers, where \in Nat :
              [c EXCEPT !.answer = answer, !.by = "hook",
                        !.toldIn = where] \in Call
           /\ \A reads \in SUBSET (Modes \cup {"unreadable"}), answer \in Answers :
              [c EXCEPT !.failed = TRUE, !.reads = reads,
                        !.answer = answer, !.by = "last resort"] \in Call
           /\ [c EXCEPT !.answer = "nothing", !.seen = NotRead] \in Call
<1>1. \A effect \in Effects :
       [c EXCEPT !.failed = TRUE, !.effect = effect] \in Call
  BY DEF Call
<1>2. \A effect \in Effects :
       [c EXCEPT !.failed = TRUE, !.seen = NotRead, !.effect = effect] \in Call
  BY NotReadTyped DEF Call
<1>3. \A effect \in Effects :
       [c EXCEPT !.failed = TRUE, !.effect = effect,
                 !.reminder = FALSE] \in Call
  BY DEF Call
<1>4. \A quoted, recent \in SUBSET Rules :
       [c EXCEPT !.reminder = TRUE, !.quoted = quoted,
                 !.recent = recent, !.seen = NotRead] \in Call
  BY NotReadTyped DEF Call
<1>5. [c EXCEPT !.wrote = TRUE] \in Call
  BY DEF Call
<1>6. \A flag \in BOOLEAN :
       [c EXCEPT !.reminder = flag] \in Call
  BY DEF Call
<1>7. \A answer \in Answers, where \in Nat :
       [c EXCEPT !.answer = answer, !.by = "hook", !.toldIn = where] \in Call
  BY DEF Call
<1>8. \A reads \in SUBSET (Modes \cup {"unreadable"}), answer \in Answers :
       [c EXCEPT !.failed = TRUE, !.reads = reads,
                 !.answer = answer, !.by = "last resort"] \in Call
  BY DEF Call
<1>9. [c EXCEPT !.answer = "nothing", !.seen = NotRead] \in Call
  BY NotReadTyped DEF Call, Answers
<1> QED
  BY <1>1, <1>2, <1>3, <1>4, <1>5, <1>6, <1>7, <1>8, <1>9

\* Every reachable state of the calls, of their failures, of the session starts
\* and of the owner's edits is typed.
THEOREM GateTypeCorrect == Spec => []TypeOK
<1>1. Init => TypeOK
  <2> SUFFICES ASSUME Init PROVE TypeOK
    OBVIOUS
  <2>1. call \in [Calls -> Call]
    BY NewCallTyped DEF Init
  <2>2. log \in Seq(Entry)
    BY EmptySeq DEF Init
  <2> QED
    BY <2>1, <2>2 DEF Init, TypeOK
<1>2. TypeOK /\ [Next]_vars => TypeOK'
  <2> SUFFICES ASSUME TypeOK, [Next]_vars PROVE TypeOK'
    OBVIOUS
  <2>1. ASSUME NEW p \in Calls, Begin(p) PROVE TypeOK'
    <3>1. PICK c \in Call : Goes(p, "evaluate", c)
      BY <2>1, BeginTyped
    <3>2. log' \in Seq(Entry)
      BY <2>1 DEF Begin, TypeOK
    <3> QED
      BY <3>1, <3>2, CallTyped
  <2>2. ASSUME NEW p \in Calls, Evaluate(p) PROVE TypeOK'
    <3>1. PICK fired \in SUBSET Rules, partly \in BOOLEAN, seen \in Int,
               label \in {"remind", "append"} :
             Goes(p, label, Judged(call[p], confirmed, fired, partly, seen))
      BY <2>2, EvaluateJudges
    <3>2. Judged(call[p], confirmed, fired, partly, seen) \in Call
      BY JudgedTyped DEF TypeOK
    <3>3. log' \in Seq(Entry)
      BY <2>2 DEF Evaluate, TypeOK
    <3> QED
      BY <3>1, <3>2, <3>3, CallTyped
  <2>3. ASSUME NEW p \in Calls, EvaluateRaises(p) \/ RemindRaises(p)
                                \/ AppendRaises(p)
        PROVE TypeOK'
    <3>1. call[p] \in Call /\ call[p].mode \in Modes /\ call[p].effect \in Effects
      BY DEF TypeOK, Call
    <3>2. /\ Failure(call[p].mode, None) \in Effects
          /\ Failure(call[p].mode, call[p].effect) \in Effects
      BY <3>1, FailureIs DEF Effects, None, Deny
    <3>3. call[p] \in Call
      BY <3>1
    <3>4. log' \in Seq(Entry)
      BY <2>3 DEF EvaluateRaises, RemindRaises, AppendRaises, TypeOK
    <3> QED
      BY <2>3, <3>2, <3>3, <3>4, CallTyped, StagesTyped
         DEF EvaluateRaises, RemindRaises, AppendRaises
  <2>4. ASSUME NEW p \in Calls, Remind(p) PROVE TypeOK'
    <3> DEFINE vouched == call[p].fired \cap call[p].known
               seen == IF call[p].seen = NotRead THEN Len(log) ELSE call[p].seen
               recent == vouched \cap HeldBack(SubSeq(log, 1, seen), call[p].when)
    <3>1. PICK quoted \in Composed(vouched \ recent, call[p].known) :
             Goes(p, "append", [call[p] EXCEPT !.reminder = TRUE, !.quoted = quoted,
                                               !.recent = recent, !.seen = NotRead])
      BY <2>4 DEF Remind
    <3>2. call[p] \in Call
      BY DEF TypeOK
    <3>5. quoted \in SUBSET Rules /\ recent \in SUBSET Rules
      BY <3>2 DEF Composed, Call
    <3> HIDE DEF recent
    <3>3. [call[p] EXCEPT !.reminder = TRUE, !.quoted = quoted, !.recent = recent,
                          !.seen = NotRead] \in Call
      BY <3>2, <3>5, StagesTyped
    <3>4. log' \in Seq(Entry)
      BY <2>4 DEF Remind, TypeOK
    <3> QED
      BY <3>1, <3>3, <3>4, CallTyped
  <2>5. ASSUME NEW p \in Calls, AppendLine(p) PROVE TypeOK'
    <3>1. call[p] \in Call
      BY DEF TypeOK
    <3>2. [of |-> p, effect |-> call[p].effect, quoted |-> call[p].quoted,
           when |-> call[p].when] \in Entry
      BY <3>1 DEF Entry, Call
    <3>3. log' \in Seq(Entry)
      BY <2>5, <3>2, AppendProperties DEF AppendLine, TypeOK
    <3>4. [call[p] EXCEPT !.wrote = TRUE] \in Call
      BY <3>1, StagesTyped
    <3> QED
      BY <2>5, <3>3, <3>4, CallTyped DEF AppendLine
  <2>6. ASSUME NEW p \in Calls, AppendReturns(p) PROVE TypeOK'
    <3> DEFINE flag == call[p].reminder /\ Reminds(call[p].mode, call[p].effect)
    <3>3. call[p] \in Call /\ flag \in BOOLEAN
      BY DEF TypeOK, Reminds
    <3>1. [call[p] EXCEPT !.reminder = flag] \in Call
      BY <3>3, StagesTyped
    <3>2. log' \in Seq(Entry)
      BY <2>6 DEF AppendReturns, TypeOK
    <3> QED
      BY <2>6, <3>1, <3>2, CallTyped DEF AppendReturns
  <2>7. ASSUME NEW p \in Calls, Answer(p) \/ LastResort(p) \/ Die(p) PROVE TypeOK'
    <3>1. Printed(call[p]) \in Answers /\ call[p] \in Call /\ context \in Nat
          /\ mode \in Modes \cup {"unreadable"}
      BY DEF Printed, Answers, TypeOK
    <3> DEFINE fallback == IF mode \in Passive THEN "nothing" ELSE "ask"
    <3>2. fallback \in Answers /\ "nothing" \in Answers
      BY DEF Answers
    <3>3. call[p].reads \cup {mode} \in SUBSET (Modes \cup {"unreadable"})
      BY <3>1 DEF Call
    <3> HIDE DEF fallback
    <3>4. /\ [call[p] EXCEPT !.answer = Printed(call[p]), !.by = "hook",
                             !.toldIn = context] \in Call
          /\ [call[p] EXCEPT !.failed = TRUE, !.reads = call[p].reads \cup {mode},
                             !.answer = fallback, !.by = "last resort"] \in Call
          /\ [call[p] EXCEPT !.answer = "nothing", !.seen = NotRead] \in Call
      BY <3>1, <3>2, <3>3, StagesTyped
    <3>5. log' \in Seq(Entry)
      BY <2>7 DEF Answer, LastResort, Die, TypeOK
    <3> QED
      BY <2>7, <3>4, <3>5, CallTyped DEF Answer, LastResort, Die, fallback
  <2>8. CASE Forget \/ StartUnseen \/ StartMode
    BY <2>8 DEF Forget, StartUnseen, StartMode, TypeOK, owner
  <2>9. CASE StartRecord
    <3>1. [of |-> "start", effect |-> None, quoted |-> {}, when |-> now] \in Entry
      BY DEF Entry, TypeOK, Effects, None, Deny
    <3>2. log' \in Seq(Entry)
      BY <2>9, <3>1, AppendProperties DEF StartRecord, TypeOK
    <3> QED
      BY <2>9, <3>2 DEF StartRecord, TypeOK, owner
  <2>10. CASE Edit \/ Clock
    BY <2>10, GateAssumption DEF Edit, Clock, TypeOK, owner, session
  <2>11. CASE UNCHANGED vars
    BY <2>11 DEF TypeOK, vars, owner, session
  <2> QED
    BY <2>1, <2>2, <2>3, <2>4, <2>5, <2>6, <2>7, <2>8, <2>9, <2>10, <2>11
       DEF Next, CallStep
<1> QED
  BY <1>1, <1>2, PTL DEF Spec

-----------------------------------------------------------------------------
(* The inductive invariant of a call: its record, where it is, and the log. *)

\* The log has the entry of the call, with what its reminder quotes ...
Quoted(lines, p, c) ==
    \E i \in DOMAIN lines : lines[i].of = p /\ lines[i].quoted = c.quoted

\* ... and with its decision.
Recorded(lines, p, c) ==
    \E i \in DOMAIN lines : /\ lines[i].of = p
                            /\ lines[i].quoted = c.quoted
                            /\ lines[i].effect = c.effect

Vouched(c, effects) == \E r \in c.fired \cap c.known : Declared[r] \in effects

\* The mode a call is judged in and the modes it read.
ModeOK(c) ==
    /\ c.reads \cap Passive = {} => c.mode = "enforce"
    /\ c.reads \subseteq Passive => c.mode \in Passive

\* The decision is owed to a confirmed rule, or to a failure.
DecisionOK(c) ==
    /\ c.failed /\ c.mode = "enforce" => c.effect >= Ask
    /\ Vouched(c, {Deny}) <=> c.effect = Deny
    /\ c.effect = Ask => c.failed \/ Vouched(c, {Ask, Deny})
    /\ c.quoted \subseteq c.known

\* What was printed is what the properties ask for.
AnswerOK(lines, p, c) ==
    /\ c.quoted \subseteq c.known
    /\ c.by # "nobody" /\ c.failed /\ c.reads \cap Passive = {}
         => c.answer \in {"ask", "deny"}
    /\ c.reads \subseteq Passive => c.answer \notin {"ask", "deny"}
    /\ c.mode = "enforce" /\ c.by = "hook" /\ Vouched(c, {Deny})
         => c.answer = "deny"
    /\ c.answer = "ask" => c.failed \/ Vouched(c, {Ask, Deny})
    /\ c.answer = "deny" => Vouched(c, {Deny})
    /\ c.answer = "reminder" => Quoted(lines, p, c)
    /\ c.by = "hook" /\ ~ c.failed => Recorded(lines, p, c)

CallOK(lines, p, at, c) ==
    /\ at = "idle" => c = NewCall
    /\ at = "evaluate" =>
         /\ ModeOK(c)
         /\ c.fired = {} /\ c.quoted = {} /\ ~ c.reminder
    /\ at = "remind" => ModeOK(c) /\ DecisionOK(c) /\ c.quoted = {} /\ ~ c.reminder
    /\ at = "append" => ModeOK(c) /\ DecisionOK(c)
    /\ at = "appended" => ModeOK(c) /\ DecisionOK(c) /\ Recorded(lines, p, c)
    /\ at = "answer" =>
         /\ ModeOK(c) /\ DecisionOK(c)
         /\ c.reminder => Quoted(lines, p, c)
         /\ ~ c.failed => Recorded(lines, p, c)
    /\ at \notin {"idle", "done"} => c.answer = "pending" /\ c.by = "nobody"
    /\ at = "done" => AnswerOK(lines, p, c)

CallsOK == \A p \in Calls : CallOK(log, p, pc[p], call[p])

\* The invariant asks of the calls what the properties ask.
LEMMA CallsOKSuffices ==
    ASSUME TypeOK, CallsOK
    PROVE  /\ FailClosed /\ PassiveDecidesNothing /\ DenyStands
           /\ UnconfirmedUnheard /\ ToldIsLogged
<1> SUFFICES ASSUME NEW p \in Calls
             PROVE  LET c == call[p] IN
                    /\ c.by # "nobody" /\ c.failed /\ c.reads \cap Passive = {}
                         => c.answer \in {"ask", "deny"}
                    /\ c.reads \subseteq Passive => c.answer \notin {"ask", "deny"}
                    /\ c.mode = "enforce" /\ c.by = "hook"
                       /\ (\E r \in c.fired \cap c.known : Declared[r] = Deny)
                         => c.answer = "deny"
                    /\ c.quoted \subseteq c.known
                    /\ c.answer = "ask" => c.failed \/ Vouched(c, {Ask, Deny})
                    /\ c.answer = "deny" => Vouched(c, {Deny})
                    /\ c.answer = "reminder" => Quoted(log, p, c)
                    /\ c.by = "hook" /\ ~ c.failed => Recorded(log, p, c)
  <2>1. \A c \in Call : Vouched(c, {Ask, Deny}) \/ Vouched(c, {Deny}) =>
          \E r \in c.fired \cap c.known : Declared[r] >= Ask
    BY GateAssumption DEF Vouched, Ask, Deny
  <2>2. call \in [Calls -> Call]
    BY DEF TypeOK
  <2> QED
    BY <2>1, <2>2 DEF FailClosed, PassiveDecidesNothing, DenyStands,
       UnconfirmedUnheard, ToldIsLogged, Told, Quoted, Recorded
<1>1. CallOK(log, p, pc[p], call[p])
  BY DEF CallsOK
<1>2. CASE pc[p] = "idle"
  BY <1>1, <1>2 DEF CallOK, NewCall
<1>3. CASE pc[p] = "done"
  BY <1>1, <1>3 DEF CallOK, AnswerOK, Vouched
<1>4. CASE pc[p] \in {"evaluate", "remind", "append", "appended", "answer"}
  <2>1. call[p].answer = "pending" /\ call[p].by = "nobody"
    BY <1>1, <1>4 DEF CallOK
  <2>2. call[p].quoted \subseteq call[p].known
    BY <1>1, <1>4 DEF CallOK, DecisionOK
  <2> QED
    BY <2>1, <2>2
<1> QED
  BY <1>2, <1>3, <1>4 DEF TypeOK

\* What the log says of a call it goes on saying.
LEMMA LogGrows ==
    ASSUME TypeOK, NEW e \in Entry, NEW p \in Calls, NEW at, NEW c,
           CallOK(log, p, at, c)
    PROVE  CallOK(Append(log, e), p, at, c)
<1>1. \A i \in DOMAIN log : i \in DOMAIN Append(log, e) /\ Append(log, e)[i] = log[i]
  BY AppendProperties, LenProperties DEF TypeOK
<1>2. Quoted(log, p, c) => Quoted(Append(log, e), p, c)
  BY <1>1 DEF Quoted
<1>3. Recorded(log, p, c) => Recorded(Append(log, e), p, c)
  BY <1>1 DEF Recorded
<1> QED
  BY <1>2, <1>3 DEF CallOK, AnswerOK

\* A step of one call keeps the invariant when it keeps it for that call.
LEMMA OthersKeep ==
    ASSUME TypeOK, CallsOK, NEW p \in Calls, NEW label, NEW c,
           Goes(p, label, c),
           log' = log \/ \E e \in Entry : log' = Append(log, e),
           CallOK(log', p, label, c)
    PROVE  CallsOK'
<1>1. /\ pc' = [pc EXCEPT ![p] = label] /\ call' = [call EXCEPT ![p] = c]
      /\ pc \in [Calls -> {"idle", "evaluate", "remind", "append", "appended",
                           "answer", "done"}]
      /\ call \in [Calls -> Call]
  BY DEF Goes, TypeOK
<1>2. SUFFICES ASSUME NEW q \in Calls, q # p PROVE CallOK(log', q, pc[q], call[q])
  BY <1>1 DEF CallsOK
<1>3. CallOK(log, q, pc[q], call[q])
  BY DEF CallsOK
<1> QED
  BY <1>3, LogGrows

\* What is known of a call that is on its way.
LEMMA OnItsWay ==
    ASSUME TypeOK, CallsOK, NEW p \in Calls
    PROVE  /\ call[p] \in Call /\ CallOK(log, p, pc[p], call[p])
           /\ call[p].mode \in Modes /\ call[p].effect \in Effects
           /\ call[p].failed \in BOOLEAN /\ call[p].reminder \in BOOLEAN
           /\ mode \in Modes \cup {"unreadable"}
<1>1. call[p] \in Call /\ mode \in Modes \cup {"unreadable"}
  BY DEF TypeOK
<1> QED
  BY <1>1 DEF CallsOK, Call

\* Reading the mode keeps the invariant.
LEMMA BeginKeeps ==
    ASSUME TypeOK, CallsOK, NEW p \in Calls, Begin(p)
    PROVE  CallsOK'
<1> DEFINE c == [call[p] EXCEPT
                  !.mode = IF mode = "unreadable" THEN "enforce" ELSE mode,
                  !.reads = {mode}, !.failed = mode = "unreadable", !.when = now,
                  !.context = context, !.after = {q \in Calls : pc[q] = "done"}]
<1>1. Goes(p, "evaluate", c) /\ log' = log /\ pc[p] = "idle"
  BY DEF Begin
<1>2. call[p] = NewCall /\ call[p] \in Call /\ mode \in Modes \cup {"unreadable"}
  BY <1>1, OnItsWay DEF CallOK
<1>3. /\ c.mode = (IF mode = "unreadable" THEN "enforce" ELSE mode)
      /\ c.reads = {mode} /\ c.fired = {} /\ c.quoted = {} /\ c.reminder = FALSE
      /\ c.answer = "pending" /\ c.by = "nobody"
  BY <1>2 DEF NewCall
<1> HIDE DEF c
<1>4. CallOK(log', p, "evaluate", c)
  BY <1>2, <1>3 DEF CallOK, ModeOK, Modes, Passive
<1> QED
  BY <1>1, <1>4, OthersKeep

\* The decision about what fired is owed to it, or to a failure.
LEMMA JudgedDecides ==
    ASSUME NEW c \in Call, NEW vouched \in SUBSET Rules,
           NEW fired \in SUBSET Rules, NEW partly \in BOOLEAN, NEW seen \in Int,
           c.quoted = {}
    PROVE  DecisionOK(Judged(c, vouched, fired, partly, seen))
<1> DEFINE decided == Decided(fired, vouched)
           failed  == c.failed \/ partly
           d       == Judged(c, vouched, fired, partly, seen)
<1>1. /\ d.known = vouched /\ d.fired = fired /\ d.quoted = {}
      /\ d.failed = failed /\ d.mode = c.mode
      /\ d.effect = IF failed THEN Failure(c.mode, decided) ELSE decided
  BY DEF Judged, Call
<1>2. c.mode \in Modes /\ failed \in BOOLEAN
  BY DEF Call
<1>3. /\ decided \in Effects
      /\ decided = None \/ \E r \in fired : Effective(r, vouched) = decided
      /\ \A r \in fired : Effective(r, vouched) <= decided
  BY DecidedIs
<1> HIDE DEF decided
<1>4. /\ \A r \in fired \cap vouched : Effective(r, vouched) = Declared[r]
      /\ \A r \in fired \ vouched : Effective(r, vouched) = Warn
      /\ \A r \in fired : Declared[r] \in {Warn, Ask, Deny}
  BY GateAssumption DEF Effective
<1>5. decided = Deny <=> \E r \in fired \cap vouched : Declared[r] \in {Deny}
  BY <1>3, <1>4 DEF Effects, None, Warn, Ask, Deny
<1>6. decided = Ask => \E r \in fired \cap vouched : Declared[r] \in {Ask, Deny}
  BY <1>3, <1>4 DEF Effects, None, Warn, Ask, Deny
<1>7. /\ Failure(c.mode, decided) = Deny <=> decided = Deny
      /\ Failure(c.mode, decided) \in Effects
      /\ c.mode = "enforce" => Failure(c.mode, decided) >= Ask
      /\ Failure(c.mode, decided) \in {decided, Ask}
  BY <1>2, <1>3, FailureIs DEF Ask, Deny
<1> HIDE DEF d, failed
<1>8. d.failed /\ d.mode = "enforce" => d.effect >= Ask
  BY <1>1, <1>7
<1>9. Vouched(d, {Deny}) <=> d.effect = Deny
  BY <1>1, <1>5, <1>7 DEF Vouched
<1>10. d.effect = Ask => d.failed \/ Vouched(d, {Ask, Deny})
  BY <1>1, <1>2, <1>6 DEF Vouched
<1>11. d.quoted \subseteq d.known
  BY <1>1
<1>12. DecisionOK(d)
  BY <1>8, <1>9, <1>10, <1>11 DEF DecisionOK
<1> QED
  BY <1>12 DEF d

\* Judging a call keeps the invariant.
LEMMA EvaluateKeeps ==
    ASSUME TypeOK, CallsOK, NEW p \in Calls, Evaluate(p)
    PROVE  CallsOK'
<1>1. PICK fired \in SUBSET Rules, partly \in BOOLEAN, seen \in Int,
           label \in {"remind", "append"} :
         Goes(p, label, Judged(call[p], confirmed, fired, partly, seen))
  BY EvaluateJudges
<1>2. log' = log /\ pc[p] = "evaluate" /\ confirmed \in SUBSET Rules
  BY DEF Evaluate, TypeOK
<1>3. /\ call[p] \in Call /\ ModeOK(call[p])
      /\ call[p].quoted = {} /\ ~ call[p].reminder
      /\ call[p].answer = "pending" /\ call[p].by = "nobody"
  BY <1>2, OnItsWay DEF CallOK
<1> DEFINE d == Judged(call[p], confirmed, fired, partly, seen)
<1>4. DecisionOK(d)
  BY <1>2, <1>3, JudgedDecides
<1>5. /\ d.mode = call[p].mode /\ d.reads = call[p].reads
      /\ d.quoted = {} /\ ~ d.reminder
      /\ d.answer = "pending" /\ d.by = "nobody"
  BY <1>3 DEF Judged, Call
<1> HIDE DEF d
<1>6. ModeOK(d)
  BY <1>3, <1>5 DEF ModeOK
<1>7. CallOK(log', p, label, d)
  BY <1>4, <1>5, <1>6 DEF CallOK
<1> QED
  BY <1>1, <1>2, <1>7, OthersKeep DEF d

\* A failure keeps what the decision is owed to.
LEMMA FailureDecides ==
    ASSUME NEW c \in Call, NEW d \in Call, DecisionOK(c),
           d.failed, d.mode = c.mode, d.effect = Failure(c.mode, c.effect),
           d.fired = c.fired, d.known = c.known, d.quoted = c.quoted
    PROVE  DecisionOK(d)
<1>1. c.mode \in Modes /\ c.effect \in Effects
  BY DEF Call
<1>2. /\ d.effect = Deny <=> c.effect = Deny
      /\ d.mode = "enforce" => d.effect >= Ask
  BY <1>1, FailureIs DEF Ask, Deny
<1>3. Vouched(d, {Deny}) <=> Vouched(c, {Deny})
  BY DEF Vouched
<1> QED
  BY <1>2, <1>3 DEF DecisionOK

\* A failure of the evaluation keeps the invariant: no rule fired.
LEMMA EvaluateRaisesKeeps ==
    ASSUME TypeOK, CallsOK, NEW p \in Calls, EvaluateRaises(p)
    PROVE  CallsOK'
<1> DEFINE effect == Failure(call[p].mode, None)
           d == [call[p] EXCEPT !.failed = TRUE, !.effect = effect]
<1>1. Goes(p, "append", d) /\ log' = log /\ pc[p] = "evaluate"
  BY DEF EvaluateRaises
<1>2. /\ call[p] \in Call /\ ModeOK(call[p]) /\ call[p].mode \in Modes
      /\ call[p].fired = {} /\ call[p].quoted = {}
      /\ call[p].answer = "pending" /\ call[p].by = "nobody"
  BY <1>1, OnItsWay DEF CallOK
<1>3. effect \in {None, Ask} /\ (call[p].mode = "enforce" => effect >= Ask)
  BY <1>2, FailureIs DEF Effects, None, Deny
<1> HIDE DEF effect
<1>4. /\ d.mode = call[p].mode /\ d.reads = call[p].reads
      /\ d.failed = TRUE /\ d.effect = effect /\ d.fired = {} /\ d.quoted = {}
      /\ d.answer = "pending" /\ d.by = "nobody"
  BY <1>2 DEF Call
<1> HIDE DEF d
<1>5. DecisionOK(d)
  BY <1>3, <1>4 DEF DecisionOK, Vouched, None, Ask, Deny
<1>6. CallOK(log', p, "append", d)
  BY <1>2, <1>4, <1>5 DEF CallOK, ModeOK
<1> QED
  BY <1>1, <1>6, OthersKeep

\* A failure of the reminder keeps the invariant.
LEMMA RemindRaisesKeeps ==
    ASSUME TypeOK, CallsOK, NEW p \in Calls, RemindRaises(p)
    PROVE  CallsOK'
<1> DEFINE c == call[p]
           d == [c EXCEPT !.failed = TRUE, !.seen = NotRead,
                          !.effect = Failure(c.mode, c.effect)]
<1>1. Goes(p, "append", d) /\ log' = log /\ pc[p] = "remind"
  BY DEF RemindRaises
<1>2. /\ c \in Call /\ ModeOK(c) /\ DecisionOK(c)
      /\ c.answer = "pending" /\ c.by = "nobody"
  BY <1>1, OnItsWay DEF CallOK
<1>7. c.mode \in Modes /\ c.effect \in Effects
  BY <1>2 DEF Call
<1>8. Failure(c.mode, c.effect) \in Effects
  BY <1>7, FailureIs
<1>3. d \in Call
  BY <1>2, <1>8, StagesTyped
<1> HIDE DEF c
<1>4. /\ d.failed /\ d.mode = c.mode /\ d.effect = Failure(c.mode, c.effect)
      /\ d.fired = c.fired /\ d.known = c.known /\ d.quoted = c.quoted
      /\ d.reads = c.reads /\ d.answer = c.answer /\ d.by = c.by
  BY <1>2 DEF Call
<1> HIDE DEF d
<1>5. DecisionOK(d)
  BY <1>2, <1>3, <1>4, FailureDecides
<1>6. CallOK(log', p, "append", d)
  BY <1>2, <1>4, <1>5 DEF CallOK, ModeOK
<1> QED
  BY <1>1, <1>6, OthersKeep DEF d, c

\* A failure of the append keeps the invariant: there is no reminder any more.
LEMMA AppendRaisesKeeps ==
    ASSUME TypeOK, CallsOK, NEW p \in Calls, AppendRaises(p)
    PROVE  CallsOK'
<1> DEFINE c == call[p]
           d == [c EXCEPT !.failed = TRUE, !.effect = Failure(c.mode, c.effect),
                          !.reminder = FALSE]
<1>1. Goes(p, "answer", d) /\ log' = log /\ pc[p] \in {"append", "appended"}
  BY DEF AppendRaises
<1>2. /\ c \in Call /\ ModeOK(c) /\ DecisionOK(c)
      /\ c.answer = "pending" /\ c.by = "nobody"
  BY <1>1, OnItsWay DEF CallOK
<1>7. c.mode \in Modes /\ c.effect \in Effects
  BY <1>2 DEF Call
<1>8. Failure(c.mode, c.effect) \in Effects
  BY <1>7, FailureIs
<1>3. d \in Call
  BY <1>2, <1>8, StagesTyped
<1> HIDE DEF c
<1>4. /\ d.failed /\ d.mode = c.mode /\ d.effect = Failure(c.mode, c.effect)
      /\ d.fired = c.fired /\ d.known = c.known /\ d.quoted = c.quoted
      /\ d.reads = c.reads /\ d.answer = c.answer /\ d.by = c.by
      /\ d.reminder = FALSE
  BY <1>2 DEF Call
<1> HIDE DEF d
<1>5. DecisionOK(d)
  BY <1>2, <1>3, <1>4, FailureDecides
<1>6. CallOK(log', p, "answer", d)
  BY <1>2, <1>4, <1>5 DEF CallOK, ModeOK
<1> QED
  BY <1>1, <1>6, OthersKeep DEF d, c

\* What a reminder quotes is vouched for.
LEMMA RemindKeeps ==
    ASSUME TypeOK, CallsOK, NEW p \in Calls, Remind(p)
    PROVE  CallsOK'
<1> DEFINE c == call[p]
           vouched == c.fired \cap c.known
           seen == IF c.seen = NotRead THEN Len(log) ELSE c.seen
           recent == vouched \cap HeldBack(SubSeq(log, 1, seen), c.when)
<1>1. PICK quoted \in Composed(vouched \ recent, c.known) :
        Goes(p, "append", [c EXCEPT !.reminder = TRUE, !.quoted = quoted,
                                    !.recent = recent, !.seen = NotRead])
  BY DEF Remind
<1>2. quoted \subseteq c.known
  BY DEF Composed
<1>3. log' = log /\ pc[p] = "remind"
  BY DEF Remind
<1>4. /\ c \in Call /\ ModeOK(c) /\ DecisionOK(c)
      /\ c.answer = "pending" /\ c.by = "nobody"
  BY <1>3, OnItsWay DEF CallOK
<1> HIDE DEF c, recent
<1> DEFINE d == [c EXCEPT !.reminder = TRUE, !.quoted = quoted,
                          !.recent = recent, !.seen = NotRead]
<1>5. /\ d.failed = c.failed /\ d.mode = c.mode /\ d.effect = c.effect
      /\ d.fired = c.fired /\ d.known = c.known /\ d.quoted = quoted
      /\ d.reads = c.reads /\ d.answer = c.answer /\ d.by = c.by
  BY <1>4 DEF Call
<1>6. Goes(p, "append", d)
  BY <1>1
<1> HIDE DEF d
<1>7. CallOK(log', p, "append", d)
  BY <1>2, <1>4, <1>5 DEF CallOK, ModeOK, DecisionOK, Vouched
<1> QED
  BY <1>3, <1>6, <1>7, OthersKeep

\* The entry of a call is in the log once it was appended.
LEMMA AppendLineKeeps ==
    ASSUME TypeOK, CallsOK, NEW p \in Calls, AppendLine(p)
    PROVE  CallsOK'
<1> DEFINE c == call[p]
           e == [of |-> p, effect |-> c.effect, quoted |-> c.quoted,
                 when |-> c.when]
           d == [c EXCEPT !.wrote = TRUE]
<1>1. Goes(p, "appended", d) /\ log' = Append(log, e) /\ pc[p] = "append"
  BY DEF AppendLine
<1>2. /\ c \in Call /\ ModeOK(c) /\ DecisionOK(c)
      /\ c.answer = "pending" /\ c.by = "nobody"
  BY <1>1, OnItsWay DEF CallOK
<1>3. e \in Entry
  BY <1>2 DEF Entry, Call
<1> HIDE DEF c
<1>4. /\ d.failed = c.failed /\ d.mode = c.mode /\ d.effect = c.effect
      /\ d.fired = c.fired /\ d.known = c.known /\ d.quoted = c.quoted
      /\ d.reads = c.reads /\ d.answer = c.answer /\ d.by = c.by
  BY <1>2 DEF Call
<1>5. e.of = p /\ e.quoted = c.quoted /\ e.effect = c.effect
  OBVIOUS
<1> HIDE DEF d, e
<1>6. Len(log') \in DOMAIN log' /\ log'[Len(log')] = e
  BY <1>1, <1>3, AppendProperties, LenProperties DEF TypeOK
<1>7. Recorded(log', p, d)
  BY <1>4, <1>5, <1>6 DEF Recorded
<1>8. CallOK(log', p, "appended", d)
  BY <1>2, <1>4, <1>7 DEF CallOK, ModeOK, DecisionOK, Vouched
<1> QED
  BY <1>1, <1>3, <1>8, OthersKeep DEF d

\* An append that returns leaves the call ready to be answered.
LEMMA AppendReturnsKeeps ==
    ASSUME TypeOK, CallsOK, NEW p \in Calls, AppendReturns(p)
    PROVE  CallsOK'
<1> DEFINE c == call[p]
           flag == c.reminder /\ Reminds(c.mode, c.effect)
           d == [c EXCEPT !.reminder = flag]
<1>1. Goes(p, "answer", d) /\ log' = log /\ pc[p] = "appended"
  BY DEF AppendReturns
<1>2. /\ c \in Call /\ ModeOK(c) /\ DecisionOK(c) /\ Recorded(log, p, c)
      /\ c.answer = "pending" /\ c.by = "nobody"
  BY <1>1, OnItsWay DEF CallOK
<1> HIDE DEF c, flag
<1>4. /\ d.failed = c.failed /\ d.mode = c.mode /\ d.effect = c.effect
      /\ d.fired = c.fired /\ d.known = c.known /\ d.quoted = c.quoted
      /\ d.reads = c.reads /\ d.answer = c.answer /\ d.by = c.by
  BY <1>2 DEF Call
<1> HIDE DEF d
<1>5. Recorded(log', p, d) /\ Quoted(log', p, d)
  BY <1>1, <1>2, <1>4 DEF Recorded, Quoted
<1>6. CallOK(log', p, "answer", d)
  BY <1>2, <1>4, <1>5 DEF CallOK, ModeOK, DecisionOK, Vouched
<1> QED
  BY <1>1, <1>6, OthersKeep DEF d, c, flag

\* What the hook prints is what the decision and the log allow.
LEMMA AnswerKeeps ==
    ASSUME TypeOK, CallsOK, NEW p \in Calls, Answer(p)
    PROVE  CallsOK'
<1> DEFINE c == call[p]
           d == [c EXCEPT !.answer = Printed(c), !.by = "hook", !.toldIn = context]
<1>1. Goes(p, "done", d) /\ log' = log /\ pc[p] = "answer"
  BY DEF Answer
<1>2. /\ c \in Call /\ ModeOK(c) /\ DecisionOK(c)
      /\ c.reminder => Quoted(log, p, c)
      /\ ~ c.failed => Recorded(log, p, c)
      /\ c.mode \in Modes /\ c.effect \in Effects
  BY <1>1, OnItsWay DEF CallOK
<1> HIDE DEF c
<1>3. /\ d.failed = c.failed /\ d.mode = c.mode /\ d.effect = c.effect
      /\ d.fired = c.fired /\ d.known = c.known /\ d.quoted = c.quoted
      /\ d.reads = c.reads /\ d.answer = Printed(c) /\ d.by = "hook"
  BY <1>2 DEF Call
<1> HIDE DEF d
<1>4. /\ Printed(c) = "deny" <=> c.mode = "enforce" /\ c.effect = Deny
      /\ Printed(c) = "ask" <=> c.mode = "enforce" /\ c.effect = Ask
      /\ Printed(c) = "reminder" => c.reminder
  BY <1>2 DEF Printed, Blocking, Effects, None, Ask, Deny
<1>5. c.mode = "enforce" /\ c.effect >= Ask => Printed(c) \in {"ask", "deny"}
  BY <1>2, <1>4 DEF Effects, None, Ask, Deny
<1>6. /\ Vouched(d, {Deny}) <=> Vouched(c, {Deny})
      /\ Vouched(d, {Ask, Deny}) <=> Vouched(c, {Ask, Deny})
      /\ Quoted(log', p, d) <=> Quoted(log, p, c)
      /\ Recorded(log', p, d) <=> Recorded(log, p, c)
  BY <1>1, <1>3 DEF Vouched, Quoted, Recorded
<1>7. /\ d.failed /\ d.reads \cap Passive = {} => d.answer \in {"ask", "deny"}
      /\ d.reads \subseteq Passive => d.answer \notin {"ask", "deny"}
  BY <1>2, <1>3, <1>4, <1>5 DEF ModeOK, DecisionOK, Passive
<1>8. /\ d.mode = "enforce" /\ Vouched(d, {Deny}) => d.answer = "deny"
      /\ d.answer = "ask" => d.failed \/ Vouched(d, {Ask, Deny})
      /\ d.answer = "deny" => Vouched(d, {Deny})
      /\ d.quoted \subseteq d.known
  BY <1>2, <1>3, <1>4, <1>6 DEF DecisionOK
<1>9. AnswerOK(log', p, d)
  BY <1>2, <1>3, <1>4, <1>6, <1>7, <1>8 DEF AnswerOK
<1>10. CallOK(log', p, "done", d)
  BY <1>9 DEF CallOK
<1> QED
  BY <1>1, <1>10, OthersKeep DEF d, c

\* A hook that failed on its result asks, unless the mode lets failures pass.
LEMMA LastResortKeeps ==
    ASSUME TypeOK, CallsOK, NEW p \in Calls, LastResort(p)
    PROVE  CallsOK'
<1> DEFINE c == call[p]
           fallback == IF mode \in Passive THEN "nothing" ELSE "ask"
           d == [c EXCEPT !.failed = TRUE, !.reads = c.reads \cup {mode},
                          !.answer = fallback, !.by = "last resort"]
<1>1. /\ Goes(p, "done", d) /\ log' = log
      /\ pc[p] = "answer" \/ pc[p] = "idle"
  BY DEF LastResort
<1>2. c \in Call /\ (DecisionOK(c) \/ c = NewCall)
  BY <1>1, OnItsWay DEF CallOK
<1> HIDE DEF c
<1>3. /\ d.failed = TRUE /\ d.fired = c.fired /\ d.known = c.known
      /\ d.quoted = c.quoted /\ d.reads = c.reads \cup {mode}
      /\ d.answer = fallback /\ d.by = "last resort"
  BY <1>2 DEF Call
<1> HIDE DEF d
<1>4. c.quoted \subseteq c.known
  BY <1>2 DEF DecisionOK, NewCall
<1>5. AnswerOK(log', p, d)
  BY <1>3, <1>4 DEF AnswerOK
<1>6. CallOK(log', p, "done", d)
  BY <1>5 DEF CallOK
<1> QED
  BY <1>1, <1>6, OthersKeep DEF d, c

\* A process that is killed prints nothing.
LEMMA DieKeeps ==
    ASSUME TypeOK, CallsOK, NEW p \in Calls, Die(p)
    PROVE  CallsOK'
<1> DEFINE c == call[p]
           d == [c EXCEPT !.answer = "nothing", !.seen = NotRead]
<1>1. Goes(p, "done", d) /\ log' = log /\ pc[p] \notin {"idle", "done"}
  BY DEF Die
<1>2. /\ c \in Call /\ c.by = "nobody" /\ pc[p] \in {"evaluate", "remind",
                                                     "append", "appended", "answer"}
      /\ c.quoted \subseteq c.known
  BY <1>1, OnItsWay DEF CallOK, DecisionOK, TypeOK
<1> HIDE DEF c
<1>3. /\ d.known = c.known /\ d.quoted = c.quoted
      /\ d.answer = "nothing" /\ d.by = "nobody"
  BY <1>2 DEF Call
<1> HIDE DEF d
<1>4. CallOK(log', p, "done", d)
  BY <1>2, <1>3 DEF CallOK, AnswerOK
<1> QED
  BY <1>1, <1>4, OthersKeep DEF d, c

\* The log only grows, whatever the owner, the clock and the session starts do.
LEMMA OutsideKeeps ==
    ASSUME TypeOK, CallsOK,
           Forget \/ StartUnseen \/ StartMode \/ StartRecord \/ Edit \/ Clock
             \/ UNCHANGED vars
    PROVE  CallsOK'
<1>1. UNCHANGED <<pc, call>>
  BY DEF Forget, StartUnseen, StartMode, StartRecord, Edit, Clock, vars
<1>2. log' = log \/ \E e \in Entry : log' = Append(log, e)
  <2>1. [of |-> "start", effect |-> None, quoted |-> {}, when |-> now] \in Entry
    BY DEF Entry, TypeOK, Effects, None, Deny
  <2> QED
    BY <2>1 DEF Forget, StartUnseen, StartMode, StartRecord, Edit, Clock, vars
<1>3. SUFFICES ASSUME NEW q \in Calls PROVE CallOK(log', q, pc[q], call[q])
  BY <1>1 DEF CallsOK
<1>4. CallOK(log, q, pc[q], call[q])
  BY DEF CallsOK
<1> QED
  BY <1>2, <1>4, LogGrows

-----------------------------------------------------------------------------
(* The theorems.                                                           *)

\* The invariant holds in every reachable state.
THEOREM CallsStayOK == Spec => [](TypeOK /\ CallsOK)
<1>1. Init => CallsOK
  BY DEF Init, CallsOK, CallOK
<1>2. TypeOK /\ CallsOK /\ [Next]_vars => CallsOK'
  BY BeginKeeps, EvaluateKeeps, EvaluateRaisesKeeps, RemindKeeps,
     RemindRaisesKeeps, AppendLineKeeps, AppendReturnsKeeps, AppendRaisesKeeps,
     AnswerKeeps, LastResortKeeps, DieKeeps, OutsideKeeps DEF Next, CallStep
<1> QED
  BY <1>1, <1>2, GateTypeCorrect, PTL DEF Spec

\* However calls, failures and edits of the mode interleave, a failure of the
\* gate is answered with a decision unless a mode it read lets failures pass.
THEOREM FailuresNeverApprove == Spec => []FailClosed
  BY CallsStayOK, CallsOKSuffices, PTL

\* A mode that only observes or reminds decides nothing.
THEOREM PassiveModesDecideNothing == Spec => []PassiveDecidesNothing
  BY CallsStayOK, CallsOKSuffices, PTL

\* No failure before the answer itself takes a deny of a confirmed rule away.
THEOREM DeniesStand == Spec => []DenyStands
  BY CallsStayOK, CallsOKSuffices, PTL

\* A rule nobody confirmed neither blocks nor is quoted.
THEOREM UnconfirmedNeverHeard == Spec => []UnconfirmedUnheard
  BY CallsStayOK, CallsOKSuffices, PTL

\* What the agent was told is in the audit log.
THEOREM LogHoldsWhatWasTold == Spec => []ToldIsLogged
  BY CallsStayOK, CallsOKSuffices, PTL

-----------------------------------------------------------------------------
(* What the agent is reminded of: within the interval once, and held back  *)
(* only when it was said.  The log is all that one call knows of another,  *)
(* so the invariant says what the entries and the starts between them tell *)
(* of the contexts the calls began and were answered in.                   *)

Early == {"idle", "evaluate", "remind"}

\* A call on its way: it quotes nothing before it is reminded of something and
\* has no entry before the append; what it quotes without a failure it will say,
\* and what was said is in the log.
StageOK(lines, at, c) ==
    /\ at \in Early => c.quoted = {} /\ c.recent = {}
    /\ at \in Early \cup {"append"} => ~ c.wrote
    /\ at = "remind" => Reminds(c.mode, c.effect)
    /\ at \in {"append", "appended", "answer"} /\ ~ c.failed /\ c.quoted # {}
         => c.reminder /\ Reminds(c.mode, c.effect)
    /\ at = "appended" \/ (at = "answer" /\ c.reminder) => c.wrote
    /\ at \in Early \cup {"append", "appended", "answer"}
         => c.by = "nobody" /\ c.answer = "pending"
    /\ c.by = "hook" /\ ~ c.failed /\ c.quoted # {} => c.answer = "reminder"
    /\ c.by = "last resort" => c.failed
    /\ c.answer = "reminder" => c.wrote /\ c.by = "hook"
    /\ c.seen = NotRead \/ c.seen \in 0 .. Len(lines)

StagesOK == \A p \in Calls : StageOK(log, pc[p], call[p])

\* The entries are those of the calls that wrote one, with what they quote.
EntryOK(e, q, c) ==
    e.of = q => c.wrote /\ e.quoted = c.quoted /\ e.when = c.when

LogOK ==
    /\ \A i \in DOMAIN log :
         /\ log[i].of = "start" => log[i].quoted = {}
         /\ \A q \in Calls : EntryOK(log[i], q, call[q])
    /\ \A q \in Calls : call[q].wrote => \E i \in DOMAIN log : log[i].of = q

\* No call is ahead of the context, and while a start is under way each is
\* behind it: the host has waited.
ContextOK ==
    \A q \in Calls :
        /\ call[q].context <= context
        /\ starter # "idle" => call[q].context < context

\* A start that was logged after the entry of a call began after that call.
StartsOK ==
    \A i, j \in DOMAIN log : \A q \in Calls :
        i < j /\ log[i].of = q /\ log[j].of = "start"
          => call[q].context < context

\* Line i is among those the call reads.
Reads(c, i) == c.seen # NotRead => i <= c.seen

\* What was said before a call began is among the lines it reads.
AfterOK ==
    \A p \in Calls : \A q \in call[p].after :
        /\ pc[q] = "done"
        /\ Told(q) # {} =>
             \E i \in DOMAIN log : log[i].of = q /\ Reads(call[p], i)

\* The context in which a call says what it says: the one now, if it is to.
Horizon(c, here) == IF c.answer = "reminder" THEN c.toldIn ELSE here

\* Two calls that quote one rule inside the interval.
Twice(c, d) ==
    /\ c.quoted \cap (IF d.answer = "reminder" THEN d.quoted ELSE {}) # {}
    /\ d.context = c.context
    /\ c.when >= d.when /\ c.when - d.when < Window

\* They do so across a start.
IntervalOK ==
    \A p \in Calls : \A q \in call[p].after :
        Twice(call[p], call[q])
          => call[p].context < Horizon(call[p], context)

\* The line of a call is followed by a start.
Followed(i) == \E j \in DOMAIN log : i < j /\ log[j].of = "start"

\* As long as every start is logged, what was said in an earlier context is
\* followed by a start that was logged ...
Logged == IF starter = "idle" THEN context ELSE context - 1

ForgottenOK ==
    unseen = 0 =>
        \A q \in Calls : \A i \in DOMAIN log :
            log[i].of = q /\ call[q].by = "hook" /\ call[q].toldIn < Logged
              => Followed(i)

\* ... and a call that began in a later one reads that start.
SeenOK ==
    unseen = 0 =>
        \A p, q \in Calls : \A i \in DOMAIN log :
            /\ log[i].of = q /\ call[q].by = "hook"
            /\ call[q].toldIn < call[p].context
            => \E j \in DOMAIN log :
                 i < j /\ log[j].of = "start" /\ Reads(call[p], j)

\* A call quotes the rule and either says it to the agent of this context, or
\* did not get to say it (yet).
Says(c, r, since) ==
    /\ c.wrote /\ r \in c.quoted
    /\ \/ c.by = "nobody" \/ c.failed
       \/ c.answer = "reminder" /\ c.toldIn >= since

HeldOK ==
    unseen = 0 =>
        \A p \in Calls : \A r \in call[p].recent : \E q \in Calls :
            Says(call[q], r, call[p].context)

RemindersOK ==
    /\ StagesOK /\ LogOK /\ ContextOK /\ StartsOK /\ AfterOK /\ IntervalOK
    /\ ForgottenOK /\ SeenOK /\ HeldOK

-----------------------------------------------------------------------------
(* What the steps of a call do to what the reminders depend on.            *)

\* The fields that say what is reminded of, and when.
Kept(c, d) ==
    /\ d.when = c.when /\ d.context = c.context /\ d.after = c.after
    /\ d.quoted = c.quoted /\ d.recent = c.recent /\ d.wrote = c.wrote

\* It is on its way as before.
Underway(c, d) == d.by = c.by /\ d.answer = c.answer /\ d.toldIn = c.toldIn

ToBegin(p, c, d) ==
    /\ pc[p] = "idle" /\ pc'[p] = "evaluate" /\ starter = "idle" /\ log' = log
    /\ d.context = context /\ d.after = {q \in Calls : pc[q] = "done"}
    /\ d.quoted = c.quoted /\ d.recent = c.recent /\ d.wrote = c.wrote
    /\ d.seen = NotRead
    /\ Underway(c, d)

ToJudge(p, c, d) ==
    /\ pc[p] = "evaluate" /\ pc'[p] \in {"remind", "append"} /\ log' = log
    /\ pc'[p] = "remind" => Reminds(d.mode, d.effect)
    /\ d.seen \in {c.seen, NotRead, Len(log)}
    /\ Kept(c, d) /\ Underway(c, d)

ToRemind(p, c, d) ==
    /\ pc[p] = "remind" /\ pc'[p] = "append" /\ log' = log
    /\ \E seen \in 0 .. Len(log) :
         /\ \A i \in DOMAIN log : Reads(c, i) => i <= seen
         /\ d.recent \subseteq HeldBack(SubSeq(log, 1, seen), c.when)
         /\ \A r \in d.quoted : r \notin HeldBack(SubSeq(log, 1, seen), c.when)
    /\ d.when = c.when /\ d.context = c.context /\ d.after = c.after
    /\ d.wrote = c.wrote
    /\ d.reminder = TRUE /\ d.mode = c.mode /\ d.effect = c.effect
    /\ d.seen = NotRead
    /\ Underway(c, d)

ToFail(p, c, d) ==
    /\ \/ pc[p] = "remind" /\ pc'[p] = "append"
       \/ pc[p] \in {"append", "appended"} /\ pc'[p] = "answer" /\ ~ d.reminder
    /\ log' = log /\ d.failed /\ d.seen \in {c.seen, NotRead}
    /\ Kept(c, d) /\ Underway(c, d)

ToLog(p, c, d) ==
    /\ pc[p] = "append" /\ pc'[p] = "appended"
    /\ \E e \in Entry :
         /\ log' = Append(log, e)
         /\ e.of = p /\ e.quoted = c.quoted /\ e.when = c.when
    /\ d.when = c.when /\ d.context = c.context /\ d.after = c.after
    /\ d.quoted = c.quoted /\ d.recent = c.recent /\ d.wrote = TRUE
    /\ d.reminder = c.reminder /\ d.mode = c.mode /\ d.effect = c.effect
    /\ d.failed = c.failed /\ d.seen = c.seen
    /\ Underway(c, d)

ToReturn(p, c, d) ==
    /\ pc[p] = "appended" /\ pc'[p] = "answer" /\ log' = log
    /\ d.reminder = (c.reminder /\ Reminds(c.mode, c.effect))
    /\ d.mode = c.mode /\ d.effect = c.effect /\ d.failed = c.failed
    /\ d.seen = c.seen
    /\ Kept(c, d) /\ Underway(c, d)

ToAnswer(p, c, d) ==
    /\ pc[p] = "answer" /\ pc'[p] = "done" /\ log' = log
    /\ d.answer = Printed(c) /\ d.by = "hook" /\ d.toldIn = context
    /\ d.failed = c.failed /\ d.seen = c.seen
    /\ Kept(c, d)

ToEnd(p, c, d) ==
    /\ pc[p] # "done" /\ pc'[p] = "done" /\ log' = log
    /\ \/ d.by = "nobody"
       \/ d.by = "last resort" /\ d.failed
    /\ d.answer \in {"nothing", "ask"} /\ d.seen \in {c.seen, NotRead}
    /\ Kept(c, d)

\* The kinds of steps of a call.
Moves(p, c, d) ==
    \/ ToBegin(p, c, d)
    \/ ToJudge(p, c, d)
    \/ ToRemind(p, c, d)
    \/ ToFail(p, c, d)
    \/ ToLog(p, c, d)
    \/ ToReturn(p, c, d)
    \/ ToAnswer(p, c, d)
    \/ ToEnd(p, c, d)

\* The rest stays.
OthersStay(p) ==
    /\ \A q \in Calls : q # p => call'[q] = call[q] /\ pc'[q] = pc[q]
    /\ UNCHANGED <<starter, context, unseen>>

\* A step of a call changes that call only.
LEMMA StepsApart ==
    ASSUME TypeOK, NEW p \in Calls, NEW label, NEW d, Goes(p, label, d)
    PROVE  /\ call'[p] = d /\ pc'[p] = label
           /\ OthersStay(p)
  BY DEF TypeOK, Goes, session, OthersStay

\* Begin.
LEMMA BeginMoves ==
    ASSUME TypeOK, CallsOK, NEW p \in Calls, Begin(p)
    PROVE  ToBegin(p, call[p], call'[p]) /\ OthersStay(p)
<1> DEFINE c == [call[p] EXCEPT
                  !.mode = IF mode = "unreadable" THEN "enforce" ELSE mode,
                  !.reads = {mode}, !.failed = mode = "unreadable", !.when = now,
                  !.context = context, !.after = {q \in Calls : pc[q] = "done"}]
<1>1. /\ Goes(p, "evaluate", c) /\ log' = log /\ pc[p] = "idle"
      /\ starter = "idle"
  BY DEF Begin
<1>2. call[p] = NewCall
  BY <1>1, OnItsWay DEF CallOK
<1>3. /\ c.context = context /\ c.after = {q \in Calls : pc[q] = "done"}
      /\ c.quoted = {} /\ c.recent = {} /\ c.wrote = FALSE /\ c.seen = NotRead
      /\ c.by = "nobody" /\ c.answer = "pending" /\ c.toldIn = 0
  BY <1>2 DEF NewCall
<1> HIDE DEF c
<1>4. call'[p] = c /\ pc'[p] = "evaluate" /\ OthersStay(p)
  BY <1>1, StepsApart
<1>5. /\ call[p].quoted = {} /\ call[p].recent = {} /\ call[p].wrote = FALSE
      /\ call[p].by = "nobody" /\ call[p].answer = "pending"
      /\ call[p].toldIn = 0
  BY <1>2 DEF NewCall
<1> QED
  BY <1>1, <1>3, <1>4, <1>5 DEF ToBegin, Underway

\* Evaluate, whether it judges or raises.
LEMMA JudgeMoves ==
    ASSUME TypeOK, CallsOK, NEW p \in Calls, Evaluate(p) \/ EvaluateRaises(p)
    PROVE  ToJudge(p, call[p], call'[p]) /\ OthersStay(p)
<1> DEFINE c == call[p]
<1>1. c \in Call
  BY OnItsWay
<1>2. CASE Evaluate(p)
  <2> DEFINE Effect(fired, failed) ==
               IF failed THEN Failure(c.mode, Decided(fired, confirmed))
                         ELSE Decided(fired, confirmed)
             Now(fired, failed) ==
               fired # {} /\ Reminds(c.mode, Effect(fired, failed))
             D(fired, partly, seen) ==
               [c EXCEPT !.known = confirmed, !.fired = fired,
                         !.failed = c.failed \/ partly,
                         !.effect = Effect(fired, c.failed \/ partly),
                         !.seen = seen]
  <2>1. PICK fired \in SUBSET Rules, partly \in BOOLEAN :
          \E seen \in {NotRead} \cup IF Now(fired, c.failed \/ partly)
                                     THEN {Len(log)} ELSE {} :
             Goes(p, IF Now(fired, c.failed \/ partly)
                     THEN "remind" ELSE "append", D(fired, partly, seen))
    BY <1>2 DEF Evaluate
  <2> DEFINE now_ == Now(fired, c.failed \/ partly)
             effect == Effect(fired, c.failed \/ partly)
             label == IF now_ THEN "remind" ELSE "append"
  <2>2. PICK seen \in {NotRead, Len(log)} : Goes(p, label, D(fired, partly, seen))
    BY <2>1
  <2>3. now_ => Reminds(c.mode, effect)
    OBVIOUS
  <2> DEFINE d == D(fired, partly, seen)
  <2>8. label \in {"remind", "append"} /\ (label = "remind" => now_)
    OBVIOUS
  <2> HIDE DEF c, effect, now_, label
  <2>4. /\ d.effect = effect /\ d.mode = c.mode /\ d.seen = seen
        /\ Kept(c, d) /\ Underway(c, d)
    BY <1>1 DEF Call, Kept, Underway, effect
  <2> HIDE DEF d
  <2>5. call'[p] = d /\ pc'[p] = label /\ OthersStay(p)
    BY <2>2, StepsApart DEF d
  <2>6. log' = log /\ pc[p] = "evaluate"
    BY <1>2 DEF Evaluate
  <2> QED
    BY <2>2, <2>3, <2>8, <2>4, <2>5, <2>6 DEF ToJudge, c
<1>3. CASE EvaluateRaises(p)
  <2> DEFINE effect == Failure(c.mode, None)
             d == [c EXCEPT !.failed = TRUE, !.effect = effect]
  <2>1. /\ Goes(p, "append", d) /\ log' = log /\ pc[p] = "evaluate"
    BY <1>3 DEF EvaluateRaises
  <2> HIDE DEF c, effect
  <2>2. d.seen = c.seen /\ Kept(c, d) /\ Underway(c, d)
    BY <1>1 DEF Call, Kept, Underway
  <2> HIDE DEF d
  <2>3. call'[p] = d /\ pc'[p] = "append" /\ OthersStay(p)
    BY <2>1, StepsApart
  <2> QED
    BY <2>1, <2>2, <2>3 DEF ToJudge, c
<1> QED
  BY <1>2, <1>3

\* Remind: what is quoted is not held back by the lines that were read.
LEMMA RemindMoves ==
    ASSUME TypeOK, CallsOK, StagesOK, NEW p \in Calls, Remind(p)
    PROVE  ToRemind(p, call[p], call'[p]) /\ OthersStay(p)
<1> DEFINE c == call[p]
           vouched == c.fired \cap c.known
           seen == IF c.seen = NotRead THEN Len(log) ELSE c.seen
           held == HeldBack(SubSeq(log, 1, seen), c.when)
           recent == vouched \cap held
<1>1. PICK quoted \in Composed(vouched \ recent, c.known) :
        Goes(p, "append", [c EXCEPT !.reminder = TRUE, !.quoted = quoted,
                                    !.recent = recent, !.seen = NotRead])
  BY DEF Remind
<1>2. c \in Call /\ log' = log /\ pc[p] = "remind"
  BY OnItsWay DEF Remind
<1>3. quoted \subseteq vouched \ recent
  BY DEF Composed
<1>4. recent \subseteq held /\ \A r \in quoted : r \notin held
  BY <1>3
<1>5. Len(log) \in Nat /\ DOMAIN log = 1 .. Len(log)
  BY LenProperties DEF TypeOK
<1>6. c.seen = NotRead \/ c.seen \in 0 .. Len(log)
  BY DEF StagesOK, StageOK
<1>7. seen \in 0 .. Len(log) /\ \A i \in DOMAIN log : Reads(c, i) => i <= seen
  BY <1>5, <1>6 DEF Reads
<1> DEFINE d == [c EXCEPT !.reminder = TRUE, !.quoted = quoted,
                          !.recent = recent, !.seen = NotRead]
<1> HIDE DEF c, recent, held, seen
<1>8. /\ d.when = c.when /\ d.context = c.context /\ d.after = c.after
      /\ d.wrote = c.wrote /\ d.reminder = TRUE /\ d.mode = c.mode
      /\ d.effect = c.effect /\ d.seen = NotRead /\ Underway(c, d)
      /\ d.quoted = quoted /\ d.recent = recent
  BY <1>2 DEF Call, Underway
<1>9. Goes(p, "append", d)
  BY <1>1
<1> HIDE DEF d
<1>10. call'[p] = d /\ pc'[p] = "append" /\ OthersStay(p)
  BY <1>9, StepsApart
<1>11. \E n \in 0 .. Len(log) :
         /\ \A i \in DOMAIN log : Reads(c, i) => i <= n
         /\ d.recent \subseteq HeldBack(SubSeq(log, 1, n), c.when)
         /\ \A r \in d.quoted : r \notin HeldBack(SubSeq(log, 1, n), c.when)
  BY <1>4, <1>7, <1>8 DEF held
<1> QED
  BY <1>2, <1>8, <1>10, <1>11 DEF ToRemind, c

\* A reminder or an append that raises.
LEMMA FailMoves ==
    ASSUME TypeOK, CallsOK, NEW p \in Calls, RemindRaises(p) \/ AppendRaises(p)
    PROVE  ToFail(p, call[p], call'[p]) /\ OthersStay(p)
<1> DEFINE c == call[p]
           effect == Failure(c.mode, c.effect)
<1>1. c \in Call
  BY OnItsWay
<1>2. CASE RemindRaises(p)
  <2> DEFINE d == [c EXCEPT !.failed = TRUE, !.seen = NotRead, !.effect = effect]
  <2>1. Goes(p, "append", d) /\ log' = log /\ pc[p] = "remind"
    BY <1>2 DEF RemindRaises
  <2> HIDE DEF c, effect
  <2>2. d.failed /\ d.seen = NotRead /\ Kept(c, d) /\ Underway(c, d)
    BY <1>1 DEF Call, Kept, Underway
  <2> HIDE DEF d
  <2>3. call'[p] = d /\ pc'[p] = "append" /\ OthersStay(p)
    BY <2>1, StepsApart
  <2> QED
    BY <2>1, <2>2, <2>3 DEF ToFail, c
<1>3. CASE AppendRaises(p)
  <2> DEFINE d == [c EXCEPT !.failed = TRUE, !.effect = effect, !.reminder = FALSE]
  <2>1. Goes(p, "answer", d) /\ log' = log /\ pc[p] \in {"append", "appended"}
    BY <1>3 DEF AppendRaises
  <2> HIDE DEF c, effect
  <2>2. /\ d.failed /\ d.seen = c.seen /\ ~ d.reminder
        /\ Kept(c, d) /\ Underway(c, d)
    BY <1>1 DEF Call, Kept, Underway
  <2> HIDE DEF d
  <2>3. call'[p] = d /\ pc'[p] = "answer" /\ OthersStay(p)
    BY <2>1, StepsApart
  <2> QED
    BY <2>1, <2>2, <2>3 DEF ToFail, c
<1> QED
  BY <1>2, <1>3

\* An append whose entry is in the log, and one that returns.
LEMMA AppendMoves ==
    ASSUME TypeOK, CallsOK, NEW p \in Calls, AppendLine(p) \/ AppendReturns(p)
    PROVE  /\ ToLog(p, call[p], call'[p]) \/ ToReturn(p, call[p], call'[p])
           /\ OthersStay(p)
<1> DEFINE c == call[p]
<1>1. c \in Call
  BY OnItsWay
<1>2. CASE AppendLine(p)
  <2> DEFINE d == [c EXCEPT !.wrote = TRUE]
             e == [of |-> p, effect |-> c.effect, quoted |-> c.quoted,
                   when |-> c.when]
  <2>1. Goes(p, "appended", d) /\ log' = Append(log, e) /\ pc[p] = "append"
    BY <1>2 DEF AppendLine
  <2> HIDE DEF c
  <2>2. e \in Entry /\ e.of = p /\ e.quoted = c.quoted /\ e.when = c.when
    BY <1>1 DEF Entry, Call
  <2>3. /\ d.when = c.when /\ d.context = c.context /\ d.after = c.after
        /\ d.quoted = c.quoted /\ d.recent = c.recent /\ d.wrote = TRUE
        /\ d.reminder = c.reminder /\ d.mode = c.mode /\ d.effect = c.effect
        /\ d.failed = c.failed /\ d.seen = c.seen /\ Underway(c, d)
    BY <1>1 DEF Call, Underway
  <2> HIDE DEF d, e
  <2>4. call'[p] = d /\ pc'[p] = "appended" /\ OthersStay(p)
    BY <2>1, StepsApart
  <2> QED
    BY <2>1, <2>2, <2>3, <2>4 DEF ToLog, c
<1>3. CASE AppendReturns(p)
  <2> DEFINE flag == c.reminder /\ Reminds(c.mode, c.effect)
             d == [c EXCEPT !.reminder = flag]
  <2>1. Goes(p, "answer", d) /\ log' = log /\ pc[p] = "appended"
    BY <1>3 DEF AppendReturns
  <2> HIDE DEF c, flag
  <2>2. /\ d.reminder = flag /\ d.mode = c.mode /\ d.effect = c.effect
        /\ d.failed = c.failed /\ d.seen = c.seen
        /\ Kept(c, d) /\ Underway(c, d)
    BY <1>1 DEF Call, Kept, Underway
  <2> HIDE DEF d
  <2>3. call'[p] = d /\ pc'[p] = "answer" /\ OthersStay(p)
    BY <2>1, StepsApart
  <2> QED
    BY <2>1, <2>2, <2>3 DEF ToReturn, c, flag
<1> QED
  BY <1>2, <1>3

\* The answer.
LEMMA AnswerMoves ==
    ASSUME TypeOK, CallsOK, NEW p \in Calls, Answer(p)
    PROVE  ToAnswer(p, call[p], call'[p]) /\ OthersStay(p)
<1> DEFINE c == call[p]
           printed == Printed(c)
           d == [c EXCEPT !.answer = printed, !.by = "hook", !.toldIn = context]
<1>1. Goes(p, "done", d) /\ log' = log /\ pc[p] = "answer" /\ c \in Call
  BY OnItsWay DEF Answer
<1> HIDE DEF c, printed
<1>2. /\ d.answer = printed /\ d.by = "hook" /\ d.toldIn = context
      /\ d.failed = c.failed /\ d.seen = c.seen /\ Kept(c, d)
  BY <1>1 DEF Call, Kept
<1> HIDE DEF d
<1>3. call'[p] = d /\ pc'[p] = "done" /\ OthersStay(p)
  BY <1>1, StepsApart
<1> QED
  BY <1>1, <1>2, <1>3 DEF ToAnswer, c, printed

\* The last resort, and the end of a process that is killed.
LEMMA EndMoves ==
    ASSUME TypeOK, CallsOK, NEW p \in Calls, LastResort(p) \/ Die(p)
    PROVE  ToEnd(p, call[p], call'[p]) /\ OthersStay(p)
<1> DEFINE c == call[p]
<1>1. c \in Call
  BY OnItsWay
<1>2. CASE LastResort(p)
  <2> DEFINE fallback == IF mode \in Passive THEN "nothing" ELSE "ask"
             reads == c.reads \cup {mode}
             d == [c EXCEPT !.failed = TRUE, !.reads = reads,
                            !.answer = fallback, !.by = "last resort"]
  <2>1. Goes(p, "done", d) /\ log' = log /\ pc[p] # "done"
    BY <1>2 DEF LastResort
  <2>4. fallback \in {"nothing", "ask"}
    OBVIOUS
  <2> HIDE DEF c, fallback, reads
  <2>2. /\ d.failed /\ d.by = "last resort" /\ d.answer = fallback
        /\ d.seen = c.seen /\ Kept(c, d)
    BY <1>1 DEF Call, Kept
  <2> HIDE DEF d
  <2>3. call'[p] = d /\ pc'[p] = "done" /\ OthersStay(p)
    BY <2>1, StepsApart
  <2> QED
    BY <2>1, <2>2, <2>3, <2>4 DEF ToEnd, c
<1>3. CASE Die(p)
  <2> DEFINE d == [c EXCEPT !.answer = "nothing", !.seen = NotRead]
  <2>1. Goes(p, "done", d) /\ log' = log /\ pc[p] \notin {"idle", "done"}
    BY <1>3 DEF Die
  <2>4. c.by = "nobody"
    BY <2>1, OnItsWay DEF CallOK
  <2> HIDE DEF c
  <2>2. d.by = c.by /\ d.answer = "nothing" /\ d.seen = NotRead /\ Kept(c, d)
    BY <1>1 DEF Call, Kept
  <2> HIDE DEF d
  <2>3. call'[p] = d /\ pc'[p] = "done" /\ OthersStay(p)
    BY <2>1, StepsApart
  <2> QED
    BY <2>1, <2>2, <2>3, <2>4 DEF ToEnd, c
<1> QED
  BY <1>2, <1>3

\* Every step of a call is of one of those kinds.
LEMMA CallMoves ==
    ASSUME TypeOK, CallsOK, StagesOK, NEW p \in Calls, CallStep(p)
    PROVE  Moves(p, call[p], call'[p]) /\ OthersStay(p)
  BY BeginMoves, JudgeMoves, RemindMoves, FailMoves, AppendMoves, AnswerMoves,
     EndMoves DEF CallStep, Moves

-----------------------------------------------------------------------------
(* The lines of the log.                                                   *)

\* The lines are numbered.
LEMMA LinesNumbered ==
    ASSUME TypeOK
    PROVE  Len(log) \in Nat /\ DOMAIN log = 1 .. Len(log)
  BY LenProperties DEF TypeOK

\* A log that is appended to keeps its lines and gets one at its end.
LEMMA LinesAppended ==
    ASSUME TypeOK, NEW e \in Entry, log' = Append(log, e)
    PROVE  /\ Len(log) \in Nat /\ DOMAIN log = 1 .. Len(log)
           /\ DOMAIN log' = 1 .. Len(log) + 1 /\ Len(log') = Len(log) + 1
           /\ \A i \in DOMAIN log : log'[i] = log[i]
           /\ log'[Len(log) + 1] = e
  BY LinesNumbered, AppendProperties, LenProperties DEF TypeOK

\* Line i of the first lines is line i.
LEMMA FirstLines ==
    ASSUME TypeOK, NEW n \in 0 .. Len(log)
    PROVE  /\ DOMAIN SubSeq(log, 1, n) = 1 .. n
           /\ \A i \in 1 .. n : i \in DOMAIN log /\ SubSeq(log, 1, n)[i] = log[i]
<1>1. Len(log) \in Nat /\ DOMAIN log = 1 .. Len(log)
  BY LinesNumbered
<1>2. \A i \in 1 .. n : 1 + i - 1 = i
  OBVIOUS
<1>3. /\ Len(SubSeq(log, 1, n)) = n
      /\ \A i \in 1 .. n : SubSeq(log, 1, n)[i] = log[i]
      /\ SubSeq(log, 1, n) \in Seq(Entry)
  BY <1>1, <1>2, SubSeqProperties DEF TypeOK
<1>4. DOMAIN SubSeq(log, 1, n) = 1 .. n
  BY <1>3, LenProperties
<1> QED
  BY <1>1, <1>3, <1>4

\* The fields of a call.
LEMMA CallFields ==
    ASSUME TypeOK, NEW p \in Calls
    PROVE  /\ call[p].quoted \in SUBSET Rules /\ call[p].recent \in SUBSET Rules
           /\ call[p].when \in Nat /\ call[p].context \in Nat
           /\ call[p].toldIn \in Nat /\ call[p].seen \in Int
           /\ call[p].effect \in Effects /\ call[p].mode \in Modes
           /\ call[p].reminder \in BOOLEAN /\ call[p].failed \in BOOLEAN
           /\ call[p].wrote \in BOOLEAN /\ call[p].after \in SUBSET Calls
           /\ context \in Nat
<1>1. call[p] \in Call /\ context \in Nat
  BY DEF TypeOK
<1> QED
  BY <1>1 DEF Call

\* The log of a step of a call.
LEMMA LinesOfStep ==
    ASSUME TypeOK, NEW p \in Calls, NEW c, NEW d, Moves(p, c, d)
    PROVE  /\ DOMAIN log \subseteq DOMAIN log'
           /\ \A i \in DOMAIN log : log'[i] = log[i]
           /\ Len(log') \in Nat /\ Len(log) \in Nat /\ Len(log) <= Len(log')
           /\ DOMAIN log \subseteq Nat
<1>1. CASE log' = log
  BY <1>1, LinesNumbered
<1>2. CASE ToLog(p, c, d)
  BY <1>2, LinesAppended DEF ToLog
<1> QED
  BY <1>1, <1>2 DEF Moves, ToBegin, ToJudge, ToRemind, ToFail, ToLog, ToReturn,
     ToAnswer, ToEnd

-----------------------------------------------------------------------------
(* The steps of a call keep the invariant.                                 *)

\* The stage of the call that steps.
LEMMA StageKept ==
    ASSUME TypeOK, StagesOK, NEW p \in Calls,
           Moves(p, call[p], call'[p])
    PROVE  StageOK(log', pc'[p], call'[p])
<1> DEFINE c == call[p]
           d == call'[p]
<1>1. /\ StageOK(log, pc[p], c)
      /\ Len(log') \in Nat /\ Len(log) \in Nat /\ Len(log) <= Len(log')
  BY LinesOfStep DEF StagesOK
<1>2. c.reminder \in BOOLEAN /\ c.mode \in Modes /\ c.effect \in Effects
  BY CallFields
<1>3. \A n \in 0 .. Len(log) : n \in 0 .. Len(log')
  BY <1>1
<1>4. c.seen = NotRead \/ c.seen \in 0 .. Len(log')
  BY <1>1, <1>3 DEF StageOK
<1>5. CASE ToBegin(p, c, d)
  BY <1>1, <1>5 DEF ToBegin, StageOK, Underway, Early
<1>6. CASE ToJudge(p, c, d)
  <2>1. d.seen = NotRead \/ d.seen \in 0 .. Len(log')
    BY <1>1, <1>4, <1>6 DEF ToJudge
  <2> QED
    BY <1>1, <1>6, <2>1 DEF ToJudge, StageOK, Underway, Kept, Early
<1>7. CASE ToRemind(p, c, d)
  BY <1>1, <1>7 DEF ToRemind, StageOK, Underway, Early
<1>8. CASE ToFail(p, c, d)
  BY <1>1, <1>4, <1>8 DEF ToFail, StageOK, Underway, Kept, Early
<1>9. CASE ToLog(p, c, d)
  BY <1>1, <1>4, <1>9 DEF ToLog, StageOK, Underway, Early
<1>10. CASE ToReturn(p, c, d)
  BY <1>1, <1>2, <1>4, <1>10 DEF ToReturn, StageOK, Underway, Kept, Early, Reminds
<1>11. CASE ToAnswer(p, c, d)
  <2>1. Printed(c) = "reminder" => c.reminder
    BY DEF Printed
  <2>2. c.reminder /\ c.quoted # {} /\ Reminds(c.mode, c.effect)
          => Printed(c) = "reminder"
    BY <1>2 DEF Printed, Blocking, Reminds, Effects, None, Ask, Deny
  <2> QED
    BY <1>1, <1>4, <1>11, <2>1, <2>2 DEF ToAnswer, StageOK, Kept, Early
<1>12. CASE ToEnd(p, c, d)
  BY <1>1, <1>4, <1>12 DEF ToEnd, StageOK, Kept, Early
<1> QED
  BY <1>5, <1>6, <1>7, <1>8, <1>9, <1>10, <1>11, <1>12 DEF Moves

\* The stages of all calls.
LEMMA StagesKept ==
    ASSUME TypeOK, StagesOK, NEW p \in Calls,
           Moves(p, call[p], call'[p]), OthersStay(p)
    PROVE  StagesOK'
<1>1. SUFFICES ASSUME NEW q \in Calls PROVE StageOK(log', pc'[q], call'[q])
  BY DEF StagesOK
<1>2. CASE q = p
  BY <1>2, StageKept
<1>3. CASE q # p
  <2>1. /\ Len(log') \in Nat /\ Len(log) \in Nat /\ Len(log) <= Len(log')
        /\ StageOK(log, pc[q], call[q])
        /\ pc'[q] = pc[q] /\ call'[q] = call[q]
    BY <1>3, LinesOfStep DEF StagesOK, OthersStay
  <2>2. \A n \in 0 .. Len(log) : n \in 0 .. Len(log')
    BY <2>1
  <2> QED
    BY <2>1, <2>2 DEF StageOK
<1> QED
  BY <1>2, <1>3

\* The entries: until the append a call has none, and after it what it quotes
\* stays as it is.
LEMMA LogKept ==
    ASSUME TypeOK, StagesOK, LogOK, NEW p \in Calls,
           Moves(p, call[p], call'[p]), OthersStay(p)
    PROVE  LogOK'
<1> DEFINE c == call[p]
           d == call'[p]
<1>1. /\ \A i \in DOMAIN log : log[i].of = "start" => log[i].quoted = {}
      /\ \A i \in DOMAIN log : \A q \in Calls : EntryOK(log[i], q, call[q])
      /\ \A q \in Calls : call[q].wrote => \E i \in DOMAIN log : log[i].of = q
      /\ StageOK(log, pc[p], c)
  BY DEF LogOK, StagesOK
<1>2. \A q \in Calls : q # p => call'[q] = call[q]
  BY DEF OthersStay
<1>3. CASE log' = log /\ d.wrote = c.wrote
           /\ (c.wrote => d.quoted = c.quoted /\ d.when = c.when)
  <2>1. \A i \in DOMAIN log : \A q \in Calls : EntryOK(log[i], q, call'[q])
    <3>1. SUFFICES ASSUME NEW i \in DOMAIN log, NEW q \in Calls
                   PROVE  EntryOK(log[i], q, call'[q])
      OBVIOUS
    <3>2. EntryOK(log[i], q, call[q])
      BY <1>1
    <3> QED
      BY <3>2, <1>2, <1>3 DEF EntryOK
  <2>2. \A q \in Calls : call'[q].wrote => \E i \in DOMAIN log : log[i].of = q
    BY <1>1, <1>2, <1>3
  <2> QED
    BY <2>1, <2>2, <1>1, <1>3 DEF LogOK
<1>4. CASE ToLog(p, c, d)
  <2>1. PICK e \in Entry : /\ log' = Append(log, e)
                           /\ e.of = p /\ e.quoted = c.quoted /\ e.when = c.when
    BY <1>4 DEF ToLog
  <2>2. /\ Len(log) \in Nat /\ DOMAIN log = 1 .. Len(log)
        /\ DOMAIN log' = 1 .. Len(log) + 1
        /\ \A i \in DOMAIN log : log'[i] = log[i]
        /\ log'[Len(log) + 1] = e
    BY <2>1, LinesAppended
  <2>3. d.wrote = TRUE /\ d.quoted = c.quoted /\ d.when = c.when
    BY <1>4 DEF ToLog
  <2>4. p # "start"
    BY GateAssumption
  <2>5. ASSUME NEW i \in DOMAIN log'
        PROVE  /\ log'[i].of = "start" => log'[i].quoted = {}
               /\ \A q \in Calls : EntryOK(log'[i], q, call'[q])
    <3>1. CASE i \in DOMAIN log
      <4>1. ASSUME NEW q \in Calls PROVE EntryOK(log'[i], q, call'[q])
        <5>1. EntryOK(log[i], q, call[q]) /\ log'[i] = log[i]
          BY <3>1, <1>1, <2>2
        <5> QED
          BY <5>1, <1>2, <2>3 DEF EntryOK
      <4> QED
        BY <4>1, <3>1, <1>1, <2>2
    <3>2. CASE i = Len(log) + 1
      BY <3>2, <1>2, <2>1, <2>2, <2>3, <2>4 DEF EntryOK
    <3> QED
      BY <3>1, <3>2, <2>2
  <2>6. \A q \in Calls : call'[q].wrote => \E i \in DOMAIN log' : log'[i].of = q
    <3>1. SUFFICES ASSUME NEW q \in Calls, call'[q].wrote
                   PROVE  \E i \in DOMAIN log' : log'[i].of = q
      OBVIOUS
    <3>2. CASE q = p
      <4>1. Len(log) + 1 \in DOMAIN log' /\ log'[Len(log) + 1].of = q
        BY <3>2, <2>1, <2>2
      <4> QED
        BY <4>1
    <3>3. CASE q # p
      <4>1. PICK i \in DOMAIN log : log[i].of = q
        BY <3>1, <3>3, <1>1, <1>2
      <4>2. i \in DOMAIN log' /\ log'[i].of = q
        BY <4>1, <2>2
      <4> QED
        BY <4>2
    <3> QED
      BY <3>2, <3>3
  <2> QED
    BY <2>5, <2>6 DEF LogOK
<1>5. CASE ToBegin(p, c, d) \/ ToRemind(p, c, d)
  BY <1>1, <1>3, <1>5 DEF ToBegin, ToRemind, StageOK, Early
<1> QED
  BY <1>3, <1>4, <1>5 DEF Moves, ToJudge, ToFail, ToReturn, ToAnswer, ToEnd, Kept

\* A step of a call that is not its first keeps when it began; one that is done
\* takes no step.
LEMMA StepKeeps ==
    ASSUME TypeOK, NEW p \in Calls, NEW c, NEW d, Moves(p, c, d)
    PROVE  /\ pc[p] # "done"
           /\ \/ ToBegin(p, c, d)
              \/ d.context = c.context /\ d.after = c.after /\ d.when = c.when
           /\ \A i \in DOMAIN log : Reads(c, i) \/ d.seen = NotRead => Reads(d, i)
           /\ \A i \in DOMAIN log' : i \in DOMAIN log \/ log'[i].of = p
<1>1. pc[p] # "done"
  BY DEF Moves, ToBegin, ToJudge, ToRemind, ToFail, ToLog, ToReturn, ToAnswer, ToEnd
<1>2. \/ ToBegin(p, c, d)
      \/ d.context = c.context /\ d.after = c.after /\ d.when = c.when
  BY DEF Moves, ToJudge, ToRemind, ToFail, ToLog, ToReturn, ToAnswer, ToEnd, Kept
<1>3. d.seen \in {c.seen, NotRead, Len(log)}
  BY DEF Moves, ToBegin, ToJudge, ToRemind, ToFail, ToLog, ToReturn, ToAnswer, ToEnd
<1>4. \A i \in DOMAIN log : i <= Len(log)
  BY LinesNumbered
<1>5. \A i \in DOMAIN log : Reads(c, i) \/ d.seen = NotRead => Reads(d, i)
  BY <1>3, <1>4 DEF Reads
<1>6. \A i \in DOMAIN log' : i \in DOMAIN log \/ log'[i].of = p
  <2>1. CASE ToLog(p, c, d)
    <3>1. PICK e \in Entry : log' = Append(log, e) /\ e.of = p
      BY <2>1 DEF ToLog
    <3>2. /\ Len(log) \in Nat /\ DOMAIN log = 1 .. Len(log)
          /\ DOMAIN log' = 1 .. Len(log) + 1 /\ log'[Len(log) + 1] = e
      BY <3>1, LinesAppended
    <3>3. \A i \in DOMAIN log' : i \in DOMAIN log \/ i = Len(log) + 1
      BY <3>2
    <3> QED
      BY <3>1, <3>2, <3>3
  <2>2. CASE log' = log
    BY <2>2
  <2> QED
    BY <2>1, <2>2 DEF Moves, ToBegin, ToJudge, ToRemind, ToFail, ToReturn,
       ToAnswer, ToEnd
<1> QED
  BY <1>1, <1>2, <1>5, <1>6

\* No call gets ahead of the context.
LEMMA ContextKept ==
    ASSUME TypeOK, ContextOK, NEW p \in Calls,
           Moves(p, call[p], call'[p]), OthersStay(p)
    PROVE  ContextOK'
<1>1. context \in Nat
  BY DEF TypeOK
<1>2. \/ call'[p].context = call[p].context
      \/ call'[p].context = context /\ starter = "idle"
  BY StepKeeps DEF ToBegin
<1> QED
  BY <1>1, <1>2 DEF ContextOK, OthersStay

\* An entry and a start after it are both from before the step.
LEMMA StartsKept ==
    ASSUME TypeOK, StagesOK, LogOK, StartsOK, NEW p \in Calls,
           Moves(p, call[p], call'[p]), OthersStay(p)
    PROVE  StartsOK'
<1>1. SUFFICES ASSUME NEW i \in DOMAIN log', NEW j \in DOMAIN log', NEW q \in Calls,
                      i < j, log'[i].of = q, log'[j].of = "start"
               PROVE  call'[q].context < context
  BY DEF StartsOK, OthersStay
<1>2. j \in DOMAIN log /\ log[j].of = "start"
  BY <1>1, StepKeeps, LinesOfStep, GateAssumption
<1>3. i \in DOMAIN log /\ log[i].of = q
  <2>1. \A n \in DOMAIN log' : n < j => n \in DOMAIN log
    <3>1. /\ Len(log) \in Nat /\ DOMAIN log = 1 .. Len(log)
          /\ DOMAIN log' = DOMAIN log \/ DOMAIN log' = 1 .. Len(log) + 1
      <4>1. CASE log' = log
        BY <4>1, LinesNumbered
      <4>2. CASE ToLog(p, call[p], call'[p])
        BY <4>2, LinesAppended DEF ToLog
      <4> QED
        BY <4>1, <4>2 DEF Moves, ToBegin, ToJudge, ToRemind, ToFail, ToReturn,
           ToAnswer, ToEnd
    <3> QED
      BY <3>1, <1>2
  <2> QED
    BY <2>1, <1>1, LinesOfStep
<1>4. call[q].wrote /\ call[q].context < context
  BY <1>1, <1>2, <1>3 DEF LogOK, EntryOK, StartsOK
<1>5. ~ ToBegin(q, call[q], call'[q])
  BY <1>4 DEF StagesOK, StageOK, ToBegin, Early
<1> QED
  BY <1>4, <1>5, StepKeeps DEF OthersStay

\* What was said before a call began stays among the lines it reads.
LEMMA AfterKept ==
    ASSUME TypeOK, StagesOK, LogOK, AfterOK, NEW p \in Calls,
           Moves(p, call[p], call'[p]), OthersStay(p)
    PROVE  AfterOK'
<1> USE DEF Told
<1>1. SUFFICES ASSUME NEW s \in Calls, NEW q \in call'[s].after
               PROVE  /\ pc'[q] = "done"
                      /\ Told(q)' # {} =>
                           \E i \in DOMAIN log' :
                              log'[i].of = q /\ Reads(call'[s], i)
  BY DEF AfterOK
<1>2. /\ DOMAIN log \subseteq DOMAIN log'
      /\ \A i \in DOMAIN log : log'[i] = log[i]
  BY LinesOfStep
<1>3. SUFFICES /\ q \in Calls /\ pc[q] = "done"
               /\ Told(q) # {} =>
                    \E i \in DOMAIN log : log[i].of = q /\ Reads(call'[s], i)
  <2>1. ASSUME pc[q] = "done", q \in Calls PROVE q # p
    BY <2>1, StepKeeps
  <2> QED
    BY <1>2, <2>1 DEF OthersStay
<1>4. CASE s # p \/ ~ ToBegin(p, call[p], call'[p])
  <2>1. q \in call[s].after /\ \A i \in DOMAIN log : Reads(call[s], i)
                                 => Reads(call'[s], i)
    BY <1>4, StepKeeps DEF OthersStay
  <2>2. call[s].after \subseteq Calls
    BY CallFields
  <2> QED
    BY <2>1, <2>2 DEF AfterOK
<1>5. CASE s = p /\ ToBegin(p, call[p], call'[p])
  <2>1. q \in Calls /\ pc[q] = "done" /\ call'[s].seen = NotRead
    BY <1>5 DEF ToBegin
  <2>2. Told(q) # {} => call[q].wrote
    BY <2>1 DEF StagesOK, StageOK
  <2> QED
    BY <2>1, <2>2 DEF LogOK, Reads
<1> QED
  BY <1>4, <1>5

\* What was told before and is not among the lines that hold it back was told
\* before a start, or longer ago than the interval.
LEMMA RemindedAgain ==
    ASSUME TypeOK, LogOK, StartsOK, AfterOK, NEW p \in Calls, NEW d,
           ToRemind(p, call[p], d), NEW q \in call[p].after, Twice(d, call[q])
    PROVE  call[p].context < context
<1> DEFINE c == call[p]
<1>1. PICK n \in 0 .. Len(log) :
        /\ \A i \in DOMAIN log : Reads(c, i) => i <= n
        /\ \A r \in d.quoted : r \notin HeldBack(SubSeq(log, 1, n), c.when)
  BY DEF ToRemind
<1>2. PICK r \in d.quoted \cap call[q].quoted : call[q].answer = "reminder"
  BY DEF Twice
<1>3. q \in Calls /\ r \in Rules /\ call[q].when \in Nat /\ c.when \in Nat
  BY <1>2, CallFields
<1>4. PICK i \in DOMAIN log : log[i].of = q /\ Reads(c, i)
  BY <1>2 DEF AfterOK, Told
<1>5. log[i].quoted = call[q].quoted /\ log[i].when = call[q].when
  BY <1>3, <1>4 DEF LogOK, EntryOK
<1>6. /\ DOMAIN SubSeq(log, 1, n) = 1 .. n
      /\ \A k \in 1 .. n : k \in DOMAIN log /\ SubSeq(log, 1, n)[k] = log[k]
  BY FirstLines
<1>7. i \in 1 .. n
  BY <1>1, <1>4, LinesNumbered
<1>8. d.when = c.when /\ d.context = c.context
  BY DEF ToRemind
<1>9. c.when >= call[q].when /\ c.when - call[q].when < Window
      /\ call[q].context = c.context
  BY <1>8 DEF Twice
<1>10. ~ \A j \in 1 .. n : log[j].of = "start" => j < i
  <2>1. r \notin HeldBack(SubSeq(log, 1, n), c.when)
    BY <1>1, <1>2
  <2> HIDE DEF c
  <2>2. ~ (/\ r \in log[i].quoted
           /\ c.when >= log[i].when /\ c.when - log[i].when < Window
           /\ \A j \in 1 .. n : log[j].of = "start" => j < i)
    BY <2>1, <1>3, <1>6, <1>7 DEF HeldBack
  <2> QED
    BY <2>2, <1>2, <1>5, <1>9
<1>11. PICK j \in 1 .. n : log[j].of = "start" /\ ~ (j < i)
  BY <1>10
<1>12. i # j
  BY <1>3, <1>4, <1>11, GateAssumption
<1>13. i < j /\ j \in DOMAIN log
  BY <1>6, <1>7, <1>11, <1>12
<1> QED
  BY <1>3, <1>4, <1>9, <1>11, <1>13 DEF StartsOK

\* Of two calls, the one that began after the other was answered reminds of the
\* same rule across a start only.
LEMMA IntervalKept ==
    ASSUME TypeOK, StagesOK, LogOK, StartsOK, AfterOK, IntervalOK,
           NEW p \in Calls, Moves(p, call[p], call'[p]), OthersStay(p)
    PROVE  IntervalOK'
<1> DEFINE c == call[p]
           d == call'[p]
<1>1. SUFFICES ASSUME NEW s \in Calls, NEW q \in call'[s].after,
                      Twice(call'[s], call'[q])
               PROVE  call'[s].context < Horizon(call'[s], context)
  BY DEF IntervalOK, OthersStay
<1>2. StageOK(log, pc[p], c) /\ pc[p] # "done"
  BY StepKeeps DEF StagesOK
<1>3. CASE s # p
  <2>1. q \in call[s].after /\ call'[s] = call[s]
    BY <1>3 DEF OthersStay
  <2>2. q \in Calls /\ q # p
    BY <2>1, <1>2, CallFields DEF AfterOK
  <2> QED
    BY <1>1, <2>1, <2>2 DEF OthersStay, IntervalOK
<1>4. CASE s = p /\ ToBegin(p, c, d)
  BY <1>1, <1>2, <1>4 DEF ToBegin, StageOK, Early, Twice
<1>5. CASE s = p /\ ~ ToBegin(p, c, d)
  <2>1. q \in c.after /\ d.context = c.context /\ d.when = c.when
    BY <1>5, StepKeeps
  <2>2. q \in Calls /\ q # p /\ call'[q] = call[q]
    BY <2>1, <1>2, CallFields DEF AfterOK, OthersStay
  <2>3. c.answer = "pending"
    BY <1>2 DEF StageOK, Early, TypeOK
  <2>4. Horizon(d, context) = context
    BY <2>3 DEF Moves, ToBegin, ToJudge, ToRemind, ToFail, ToLog, ToReturn,
       ToAnswer, ToEnd, Underway, Horizon
  <2>5. CASE ToRemind(p, c, d)
    BY <1>1, <1>5, <2>1, <2>2, <2>4, <2>5, RemindedAgain
  <2>6. CASE d.quoted = c.quoted
    <3>1. Twice(c, call[q])
      BY <1>1, <1>5, <2>1, <2>2, <2>6 DEF Twice
    <3> QED
      BY <1>5, <2>1, <2>3, <2>4, <3>1 DEF IntervalOK, Horizon
  <2> QED
    BY <1>5, <2>5, <2>6 DEF Moves, ToJudge, ToFail, ToLog, ToReturn,
       ToAnswer, ToEnd, Kept
<1> QED
  BY <1>3, <1>4, <1>5

\* A call that is answered by a step is answered in the context of now.
LEMMA AnsweredNow ==
    ASSUME TypeOK, StagesOK, NEW p \in Calls, Moves(p, call[p], call'[p]),
           call'[p].by = "hook"
    PROVE  ToAnswer(p, call[p], call'[p]) /\ call'[p].toldIn = context
<1>1. StageOK(log, pc[p], call[p]) /\ pc[p] # "done"
  BY StepKeeps DEF StagesOK
<1>2. call[p].by = "nobody"
  BY <1>1 DEF StageOK, Early, TypeOK
<1> QED
  BY <1>2 DEF Moves, ToBegin, ToJudge, ToRemind, ToFail, ToLog, ToReturn,
     ToAnswer, ToEnd, Underway

\* What was said before the last start that is logged is followed by a start.
LEMMA ForgottenKept ==
    ASSUME TypeOK, StagesOK, ForgottenOK, NEW p \in Calls,
           Moves(p, call[p], call'[p]), OthersStay(p)
    PROVE  ForgottenOK'
<1>1. SUFFICES ASSUME unseen = 0, NEW q \in Calls, NEW i \in DOMAIN log',
                      log'[i].of = q, call'[q].by = "hook",
                      call'[q].toldIn < Logged
               PROVE  \E j \in DOMAIN log' : i < j /\ log'[j].of = "start"
  BY DEF ForgottenOK, Followed, Logged, OthersStay
<1>2. q # p
  <2>1. SUFFICES ASSUME q = p PROVE FALSE
    OBVIOUS
  <2>2. call'[q].toldIn = context /\ context \in Nat
    BY <1>1, <2>1, AnsweredNow DEF TypeOK
  <2> QED
    BY <1>1, <2>2 DEF Logged
<1>3. i \in DOMAIN log /\ log[i].of = q /\ call'[q] = call[q]
  BY <1>1, <1>2, StepKeeps, LinesOfStep DEF OthersStay
<1>4. PICK j \in DOMAIN log : i < j /\ log[j].of = "start"
  BY <1>1, <1>3 DEF ForgottenOK, Followed
<1>5. j \in DOMAIN log' /\ log'[j].of = "start"
  BY <1>4, LinesOfStep
<1> QED
  BY <1>4, <1>5

\* ... which a call that begins after it reads.
LEMMA SeenKept ==
    ASSUME TypeOK, StagesOK, ContextOK, ForgottenOK, SeenOK, NEW p \in Calls,
           Moves(p, call[p], call'[p]), OthersStay(p)
    PROVE  SeenOK'
<1>1. SUFFICES ASSUME unseen = 0, NEW s \in Calls, NEW q \in Calls,
                      NEW i \in DOMAIN log',
                      log'[i].of = q, call'[q].by = "hook",
                      call'[q].toldIn < call'[s].context
               PROVE  \E j \in DOMAIN log' :
                        i < j /\ log'[j].of = "start" /\ Reads(call'[s], j)
  BY DEF SeenOK, OthersStay
<1>6. \A k \in Calls : call[k].context \in Nat /\ call[k].toldIn \in Nat
      /\ context \in Nat
  BY CallFields
<1>2. q # p
  <2>1. SUFFICES ASSUME q = p PROVE FALSE
    OBVIOUS
  <2>2. call'[q].toldIn = context
    BY <1>1, <2>1, AnsweredNow
  <2>3. call'[s].context \in {call[s].context, context}
    BY StepKeeps DEF OthersStay, ToBegin
  <2>4. call[s].context <= context
    BY DEF ContextOK
  <2> QED
    BY <1>1, <1>6, <2>2, <2>3, <2>4
<1>3. i \in DOMAIN log /\ log[i].of = q /\ call'[q] = call[q]
  BY <1>1, <1>2, StepKeeps, LinesOfStep DEF OthersStay
<1>4. PICK j \in DOMAIN log : i < j /\ log[j].of = "start" /\ Reads(call'[s], j)
  <2>1. CASE s # p \/ ~ ToBegin(p, call[p], call'[p])
    <3>1. /\ call'[s].context = call[s].context
          /\ \A j \in DOMAIN log : Reads(call[s], j) => Reads(call'[s], j)
      BY <2>1, StepKeeps DEF OthersStay
    <3> QED
      BY <1>1, <1>3, <3>1 DEF SeenOK
  <2>2. CASE s = p /\ ToBegin(p, call[p], call'[p])
    <3>1. call'[s].context = Logged /\ call'[s].seen = NotRead
      BY <2>2 DEF ToBegin, Logged
    <3> QED
      BY <1>1, <1>3, <3>1 DEF ForgottenOK, Followed, Reads
  <2> QED
    BY <2>1, <2>2
<1>5. j \in DOMAIN log' /\ log'[j].of = "start"
  BY <1>4, LinesOfStep
<1> QED
  BY <1>4, <1>5

\* A call that says a rule goes on to say it, or fails.
LEMMA SaysKept ==
    ASSUME TypeOK, StagesOK, NEW p \in Calls,
           Moves(p, call[p], call'[p]), OthersStay(p),
           NEW q \in Calls, NEW r, NEW since \in Nat, since <= context,
           Says(call[q], r, since)
    PROVE  Says(call'[q], r, since)
<1> DEFINE c == call[p]
           d == call'[p]
<1>1. CASE q # p
  BY <1>1 DEF OthersStay
<1>2. CASE q = p
  <2>1. StageOK(log, pc[p], c) /\ pc[p] # "done" /\ context \in Nat
    BY StepKeeps, CallFields DEF StagesOK
  <2>2. c.wrote /\ r \in c.quoted
    BY <1>2 DEF Says
  <2>3. c.by = "nobody" /\ pc[p] \in {"appended", "answer"}
    BY <2>1, <2>2 DEF StageOK, Early, TypeOK
  <2>4. d.wrote /\ r \in d.quoted
    BY <2>2, <2>3 DEF Moves, ToBegin, ToJudge, ToRemind, ToFail, ToLog, ToReturn,
       ToAnswer, ToEnd, Kept
  <2>5. CASE ToAnswer(p, c, d)
    <3>1. d.failed \/ d.answer = "reminder"
      BY <2>4, <2>5, StageKept DEF StageOK, ToAnswer
    <3> QED
      BY <1>2, <2>1, <2>4, <2>5, <3>1 DEF Says, ToAnswer
  <2>6. CASE d.by = "nobody" \/ d.failed
    BY <1>2, <2>4, <2>6 DEF Says
  <2> QED
    BY <2>3, <2>5, <2>6 DEF Moves, ToBegin, ToJudge, ToRemind, ToFail, ToLog,
       ToReturn, ToEnd, Underway
<1> QED
  BY <1>1, <1>2

\* What a call holds back another one says, or was to say.
LEMMA HeldBackSaid ==
    ASSUME TypeOK, StagesOK, LogOK, SeenOK, unseen = 0, NEW p \in Calls, NEW d,
           ToRemind(p, call[p], d), NEW r \in d.recent
    PROVE  \E q \in Calls : q # p /\ Says(call[q], r, call[p].context)
<1> DEFINE c == call[p]
<1>1. PICK n \in 0 .. Len(log) :
        /\ \A i \in DOMAIN log : Reads(c, i) => i <= n
        /\ d.recent \subseteq HeldBack(SubSeq(log, 1, n), c.when)
  BY DEF ToRemind
<1>2. /\ DOMAIN SubSeq(log, 1, n) = 1 .. n
      /\ \A k \in 1 .. n : k \in DOMAIN log /\ SubSeq(log, 1, n)[k] = log[k]
  BY FirstLines
<1> HIDE DEF c
<1>3. PICK i \in 1 .. n : /\ r \in log[i].quoted
                          /\ \A j \in 1 .. n : log[j].of = "start" => j < i
  BY <1>1, <1>2 DEF HeldBack
<1>4. i \in DOMAIN log /\ log[i] \in Entry /\ log[i].of # "start"
  BY <1>2, <1>3, ElementOfSeq, LinesNumbered DEF LogOK, TypeOK
<1>5. PICK q \in Calls : log[i].of = q
  BY <1>4 DEF Entry
<1>6. call[q].wrote /\ r \in call[q].quoted
  BY <1>3, <1>4, <1>5 DEF LogOK, EntryOK
<1>7. StageOK(log, pc[q], call[q]) /\ StageOK(log, pc[p], call[p])
  BY DEF StagesOK
<1>8. q # p
  BY <1>6, <1>7 DEF ToRemind, StageOK, Early
<1>9. CASE call[q].by = "nobody" \/ call[q].failed
  BY <1>6, <1>8, <1>9 DEF Says
<1>10. CASE call[q].by # "nobody" /\ ~ call[q].failed
  <2>1. call[q].by = "hook" /\ call[q].answer = "reminder"
    <3>1. call[q].by \in {"nobody", "hook", "last resort"}
      <4>1. call[q] \in Call
        BY DEF TypeOK
      <4> QED
        BY <4>1 DEF Call
    <3> QED
      BY <1>6, <1>7, <1>10, <3>1 DEF StageOK
  <2>2. ~ (call[q].toldIn < c.context)
    <3>1. SUFFICES ASSUME call[q].toldIn < c.context PROVE FALSE
      OBVIOUS
    <3>2. PICK j \in DOMAIN log : i < j /\ log[j].of = "start" /\ Reads(c, j)
      BY <1>4, <1>5, <2>1, <3>1 DEF SeenOK, c
    <3>3. j \in 1 .. n
      BY <1>1, <3>2, LinesNumbered
    <3> QED
      BY <1>3, <3>2, <3>3
  <2>3. call[q].toldIn >= c.context
    BY <2>2, CallFields DEF c
  <2> QED
    BY <1>6, <1>8, <2>1, <2>3 DEF Says, c
<1> QED
  BY <1>9, <1>10

\* What is held back goes on to be said, or is newly held back.
LEMMA HeldKept ==
    ASSUME TypeOK, StagesOK, LogOK, ContextOK, SeenOK, HeldOK,
           NEW p \in Calls, Moves(p, call[p], call'[p]), OthersStay(p)
    PROVE  HeldOK'
<1> DEFINE c == call[p]
           d == call'[p]
<1>1. SUFFICES ASSUME unseen = 0, NEW s \in Calls, NEW r \in call'[s].recent
               PROVE  \E q \in Calls : Says(call'[q], r, call'[s].context)
  BY DEF HeldOK, OthersStay
<1>2. call[s].context \in Nat /\ call[s].context <= context
  BY CallFields DEF ContextOK
<1>3. CASE r \in call[s].recent /\ call'[s].context = call[s].context
  BY <1>1, <1>2, <1>3, SaysKept DEF HeldOK
<1>4. CASE s = p /\ ToRemind(p, c, d)
  <2>1. PICK q \in Calls : q # p /\ Says(call[q], r, call[p].context)
    BY <1>1, <1>4, HeldBackSaid
  <2> QED
    BY <1>4, <2>1 DEF OthersStay, ToRemind
<1>5. CASE s = p /\ ToBegin(p, c, d)
  BY <1>1, <1>5 DEF StagesOK, StageOK, ToBegin, Early
<1>6. CASE s # p
  BY <1>3, <1>6 DEF OthersStay
<1> QED
  BY <1>1, <1>3, <1>4, <1>5, <1>6 DEF Moves, ToJudge, ToFail, ToLog, ToReturn,
     ToAnswer, ToEnd, Kept

-----------------------------------------------------------------------------
(* The session starts, the owner and the clock.                            *)

\* Only a start that is logged adds to what the calls can read; the context
\* changes when one begins, and while it is under way no call begins.
LEMMA OutsideMoves ==
    ASSUME TypeOK, RemindersOK,
           Forget \/ StartUnseen \/ StartMode \/ StartRecord \/ Edit \/ Clock
             \/ UNCHANGED vars
    PROVE  RemindersOK'
<1>1. UNCHANGED <<pc, call>>
  BY DEF Forget, StartUnseen, StartMode, StartRecord, Edit, Clock, vars
<1>2. context \in Nat /\ unseen \in Nat
      /\ \A q \in Calls : call[q].context \in Nat /\ call[q].toldIn \in Nat
  BY CallFields DEF TypeOK
<1> USE DEF RemindersOK
<1>3. CASE log' = log /\ UNCHANGED <<starter, context, unseen>>
  BY <1>1, <1>3 DEF StagesOK, LogOK, ContextOK, StartsOK, AfterOK,
     IntervalOK, ForgottenOK, SeenOK, HeldOK, Told, Followed, Logged
<1>4. CASE Forget
  <2>1. /\ log' = log /\ unseen' = unseen /\ starter = "idle"
        /\ starter' = "start" /\ context' = context + 1
    BY <1>4 DEF Forget
  <2>2. StagesOK' /\ LogOK' /\ AfterOK' /\ SeenOK' /\ HeldOK'
    BY <1>1, <2>1 DEF StagesOK, LogOK, AfterOK, SeenOK, HeldOK, Told
  <2>3. ContextOK' /\ StartsOK'
    BY <1>1, <1>2, <2>1 DEF ContextOK, StartsOK
  <2>4. Logged' = Logged
    BY <1>2, <2>1 DEF Logged
  <2>5. ForgottenOK'
    BY <1>1, <2>1, <2>4 DEF ForgottenOK, Followed
  <2>6. IntervalOK'
    <3>1. SUFFICES ASSUME NEW s \in Calls, NEW q \in call[s].after,
                          Twice(call[s], call[q])
                   PROVE  call[s].context < Horizon(call[s], context + 1)
      BY <1>1, <2>1 DEF IntervalOK
    <3>2. call[s].context < Horizon(call[s], context)
      BY <3>1 DEF IntervalOK
    <3> QED
      BY <1>2, <3>2 DEF Horizon
  <2> QED
    BY <2>2, <2>3, <2>5, <2>6
<1>5. CASE StartUnseen \/ StartMode
  <2>1. /\ log' = log /\ context' = context /\ starter # "idle"
        /\ unseen' # 0 \/ (unseen' = unseen /\ starter' # "idle")
    BY <1>2, <1>5 DEF StartUnseen, StartMode
  <2>2. StagesOK' /\ LogOK' /\ AfterOK' /\ StartsOK' /\ ContextOK' /\ IntervalOK'
    BY <1>1, <2>1 DEF StagesOK, LogOK, AfterOK, StartsOK, ContextOK,
       IntervalOK, Told
  <2>3. SeenOK' /\ HeldOK' /\ ForgottenOK'
    BY <1>1, <2>1 DEF SeenOK, HeldOK, ForgottenOK, Followed, Logged
  <2> QED
    BY <2>2, <2>3
<1>6. CASE StartRecord
  <2> DEFINE e == [of |-> "start", effect |-> None, quoted |-> {}, when |-> now]
  <2>1. /\ log' = Append(log, e) /\ context' = context /\ unseen' = unseen
        /\ starter # "idle" /\ starter' = "idle"
    BY <1>6 DEF StartRecord
  <2>2. e \in Entry /\ e.of = "start" /\ e.quoted = {}
    BY DEF Entry, TypeOK, Effects, None, Deny
  <2> HIDE DEF e
  <2>3. /\ Len(log) \in Nat /\ DOMAIN log = 1 .. Len(log)
        /\ DOMAIN log' = 1 .. Len(log) + 1 /\ Len(log') = Len(log) + 1
        /\ \A i \in DOMAIN log : i \in DOMAIN log' /\ log'[i] = log[i]
        /\ Len(log) + 1 \in DOMAIN log' /\ log'[Len(log) + 1] = e
        /\ \A i \in DOMAIN log' : i \in DOMAIN log \/ i = Len(log) + 1
        /\ \A i \in DOMAIN log : i < Len(log) + 1
    BY <2>1, <2>2, LinesAppended
  <2>4. StagesOK'
    <3>1. \A n \in 0 .. Len(log) : n \in 0 .. Len(log')
      BY <2>3
    <3> QED
      BY <1>1, <3>1 DEF StagesOK, StageOK
  <2>5. "start" \notin Calls
    BY GateAssumption
  <2>6. LogOK'
    <3>1. \A i \in DOMAIN log' :
            /\ log'[i].of = "start" => log'[i].quoted = {}
            /\ \A q \in Calls : EntryOK(log'[i], q, call[q])
      BY <2>2, <2>3, <2>5 DEF LogOK, EntryOK
    <3>2. \A q \in Calls : call[q].wrote => \E i \in DOMAIN log' : log'[i].of = q
      BY <2>3 DEF LogOK
    <3> QED
      BY <1>1, <3>1, <3>2 DEF LogOK
  <2>7. ContextOK' /\ IntervalOK'
    BY <1>1, <2>1 DEF ContextOK, IntervalOK
  <2>8. StartsOK'
    BY <1>1, <2>1 DEF StartsOK, ContextOK
  <2>9. AfterOK'
    BY <1>1, <2>3 DEF AfterOK, Told
  <2>10. ForgottenOK'
    <3>1. SUFFICES ASSUME NEW q \in Calls, NEW i \in DOMAIN log', log'[i].of = q
                   PROVE  \E j \in DOMAIN log' : i < j /\ log'[j].of = "start"
      BY <1>1 DEF ForgottenOK, Followed
    <3>2. i \in DOMAIN log
      BY <2>2, <2>3, <2>5, <3>1
    <3> QED
      BY <2>2, <2>3, <3>2
  <2>11. SeenOK'
    <3>1. SUFFICES ASSUME unseen = 0, NEW s \in Calls, NEW q \in Calls,
                          NEW i \in DOMAIN log', log'[i].of = q,
                          call[q].by = "hook", call[q].toldIn < call[s].context
                   PROVE  \E j \in DOMAIN log' :
                            i < j /\ log'[j].of = "start" /\ Reads(call[s], j)
      BY <1>1, <2>1 DEF SeenOK
    <3>2. i \in DOMAIN log
      BY <2>2, <2>3, <2>5, <3>1
    <3>3. PICK j \in DOMAIN log : i < j /\ log[j].of = "start" /\ Reads(call[s], j)
      BY <2>3, <3>1, <3>2 DEF SeenOK
    <3> QED
      BY <2>3, <3>3
  <2>12. HeldOK'
    BY <1>1, <2>1 DEF HeldOK
  <2> QED
    BY <2>4, <2>6, <2>7, <2>8, <2>9, <2>10, <2>11, <2>12
<1>7. CASE Edit \/ Clock \/ UNCHANGED vars
  BY <1>3, <1>7 DEF Edit, Clock, vars, session
<1> QED
  BY <1>4, <1>5, <1>6, <1>7

-----------------------------------------------------------------------------
(* The theorems.                                                           *)

\* The invariant holds in every reachable state.
THEOREM RemindersStayOK == Spec => [](TypeOK /\ CallsOK /\ RemindersOK)
<1>1. Init => RemindersOK
  <2> SUFFICES ASSUME Init PROVE RemindersOK
    OBVIOUS
  <2>1. /\ log = <<>> /\ DOMAIN log = {} /\ context = 0 /\ starter = "idle"
        /\ pc = [p \in Calls |-> "idle"]
    BY EmptySeq, LenProperties DEF Init
  <2>2. \A p \in Calls :
          /\ pc[p] = "idle"
          /\ call[p].quoted = {} /\ call[p].recent = {} /\ call[p].wrote = FALSE
          /\ call[p].by = "nobody" /\ call[p].answer = "pending"
          /\ call[p].context = 0 /\ call[p].after = {} /\ call[p].seen = NotRead
    BY <2>1 DEF Init, NewCall
  <2>3. StagesOK
    BY <2>2 DEF StagesOK, StageOK, Early
  <2>4. LogOK /\ ContextOK /\ StartsOK /\ AfterOK /\ IntervalOK
    BY <2>1, <2>2 DEF LogOK, ContextOK, StartsOK, AfterOK, IntervalOK
  <2>5. ForgottenOK /\ SeenOK /\ HeldOK
    BY <2>1, <2>2 DEF ForgottenOK, SeenOK, HeldOK
  <2> QED
    BY <2>3, <2>4, <2>5 DEF RemindersOK
<1>2. TypeOK /\ CallsOK /\ RemindersOK /\ [Next]_vars => RemindersOK'
  <2> SUFFICES ASSUME TypeOK, CallsOK, RemindersOK, [Next]_vars
               PROVE  RemindersOK'
    OBVIOUS
  <2>1. ASSUME NEW p \in Calls, CallStep(p) PROVE RemindersOK'
    <3>1. Moves(p, call[p], call'[p]) /\ OthersStay(p)
      BY <2>1, CallMoves DEF RemindersOK
    <3> QED
      BY <3>1, StagesKept, LogKept, ContextKept, StartsKept, AfterKept,
         IntervalKept, ForgottenKept, SeenKept, HeldKept DEF RemindersOK
  <2> QED
    BY <2>1, OutsideMoves DEF Next
<1> QED
  BY <1>1, <1>2, CallsStayOK, PTL DEF Spec

\* However calls overlap with each other, with session starts and with changes
\* of the clock: of two calls one of which began after the other was answered,
\* only one reminds of a rule inside the interval and in one context.
THEOREM RemindedOncePerInterval == Spec => []OncePerInterval
<1>1. TypeOK /\ RemindersOK => OncePerInterval
  <2> SUFFICES ASSUME TypeOK, RemindersOK, NEW p \in Calls,
                      NEW q \in call[p].after, Told(p) \cap Told(q) # {},
                      call[q].context = call[p].context,
                      call[p].toldIn = call[p].context,
                      call[p].when >= call[q].when
               PROVE  call[p].when - call[q].when >= Window
    BY DEF OncePerInterval
  <2>1. q \in Calls
    BY CallFields
  <2>2. /\ call[p].when \in Nat /\ call[q].when \in Nat /\ Window \in Nat
        /\ call[p].toldIn \in Nat
    BY <2>1, CallFields, GateAssumption
  <2>3. call[p].answer = "reminder"
    BY DEF Told
  <2>4. ~ (call[p].context < Horizon(call[p], context))
    BY <2>2, <2>3 DEF Horizon
  <2>5. ~ Twice(call[p], call[q])
    BY <2>4 DEF RemindersOK, IntervalOK
  <2> QED
    BY <2>2, <2>5 DEF Twice, Told
<1> QED
  BY <1>1, RemindersStayOK, PTL

\* As long as every start is logged, a rule is held back only because the agent
\* of this context was told it, or the call that was to tell it was cut off,
\* failed or is still on its way.
THEOREM HeldBackOnlyWhatWasSaid == Spec => []HeldBackWasSaid
<1>1. TypeOK /\ RemindersOK => HeldBackWasSaid
  <2> SUFFICES ASSUME TypeOK, RemindersOK, unseen = 0, NEW p \in Calls,
                      NEW r \in call[p].recent
               PROVE  \E q \in Calls :
                        /\ call[q].wrote /\ r \in call[q].quoted
                        /\ \/ call[q].answer = "pending"
                           \/ call[q].failed \/ call[q].by = "nobody"
                           \/ r \in Told(q) /\ call[q].toldIn >= call[p].context
    BY DEF HeldBackWasSaid
  <2>1. PICK q \in Calls : Says(call[q], r, call[p].context)
    BY DEF RemindersOK, HeldOK
  <2> QED
    BY <2>1 DEF Says, Told
<1> QED
  BY <1>1, RemindersStayOK, PTL
=============================================================================
