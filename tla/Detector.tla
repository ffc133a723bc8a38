------------------------------ MODULE Detector ------------------------------
(***************************************************************************)
(* The detector of ember_armor/core/detector.py: what check() leaves in    *)
(* its counters and what health_check() makes of them.  Nothing in check() *)
(* suspends, so a check is one step.  Which of the four patterns a text    *)
(* matches is given.                                                       *)
(***************************************************************************)
EXTENDS Integers

CONSTANT MaxChecks      \* bound on the checks

VARIABLES
    checks,     \* _checks_total
    blocked,    \* _checks_blocked
    streak      \* _consecutive_failures: of checks that raised or blocked

detector == <<checks, blocked, streak>>

Patterns == 4           \* CONTRADICTION_PATTERNS
\* Scores and thresholds, in percent.
Increment == 25
LongPenalty == 10
Unsafe == 50
Caution == 20

Capped(score) == IF score > 100 THEN 100 ELSE score

Score(matched, long) == Capped(Increment * matched + IF long THEN LongPenalty ELSE 0)

Level(score) ==
    IF score >= Unsafe THEN "UNSAFE" ELSE IF score >= Caution THEN "CAUTION" ELSE "SAFE"

DetectorInit ==
    \* A new detector, and one that has blocked nine checks of ten.
    \E counts \in {<<0, 0, 0>>, <<10, 9, 4>>} :
        checks = counts[1] /\ blocked = counts[2] /\ streak = counts[3]

\* check() of a text.
Check(matched, long) ==
    /\ checks < MaxChecks
    /\ checks' = checks + 1
    /\ IF Level(Score(matched, long)) = "UNSAFE"
       THEN blocked' = blocked + 1 /\ streak' = streak + 1
       ELSE streak' = 0 /\ UNCHANGED blocked

\* check() raises: before it has a level, or after it has counted one.
CheckRaises ==
    /\ checks < MaxChecks
    /\ checks' = checks + 1
    /\ \/ streak' = streak + 1 /\ UNCHANGED blocked
       \/ streak' = streak + 2 /\ blocked' = blocked + 1
       \/ streak' = 1 /\ UNCHANGED blocked

\* health_check: five blocked checks in a row are failures to it.
DetectorHealth ==
    IF streak >= 5 THEN "unhealthy"
    ELSE IF 10 * blocked > 8 * checks /\ checks > 10 THEN "degraded"
    ELSE IF checks = 0 THEN "degraded" ELSE "healthy"
=============================================================================
