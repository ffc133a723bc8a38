------------------------------- MODULE MCGate -------------------------------
(***************************************************************************)
(* Gate for TLC, in three scenes: one call, all of whose stages can fail   *)
(* while the owner edits, with a rule that denies and one that warns; two  *)
(* calls that overlap where reminders are given; and the replay of what    *)
(* sessions recorded.  Calls are interchangeable, and so are sessions: the *)
(* first one that is recorded is s1.                                       *)
(***************************************************************************)
EXTENDS Replay, TLC

CONSTANTS deny, warn, s1

VARIABLE scene

DenyAndWarn == [r \in Rules |-> IF r = deny THEN Deny ELSE Warn]
WarnOrBoth == {{warn}, Rules}
Symmetry == Permutations(Calls)

InScene ==
    \/ /\ scene = "failures"
       /\ context = 0 /\ now = 0
       /\ \A p, q \in Calls : pc[p] # "idle" /\ pc[q] # "idle" => p = q
    \/ /\ scene = "reminders"
       /\ edits = 0 /\ mode # "observe"
       /\ deny \notin confirmed \cup UNION {call[p].fired : p \in Calls}
    \/ /\ scene = "replay"
       /\ mode = "remind" /\ confirmed \in {Rules, {warn}}
       /\ lacks # "nothing" => confirmed = Rules
       /\ Len(named) \in {0, MaxNamed}
       /\ lived # <<>> => lived[1].session = s1

MCInit ==
    /\ Init /\ ReplayInit
    /\ scene \in {"failures", "reminders", "replay"} /\ InScene
    /\ scene # "replay" => lacks = "nothing"

MCNext ==
    /\ UNCHANGED scene
    /\ \/ scene # "replay" /\ Next /\ UNCHANGED replaying
       \/ scene = "replay" /\ ReplayStep
    /\ InScene'

MCSpec == MCInit /\ [][MCNext]_<<vars, replaying, scene>>
=============================================================================
