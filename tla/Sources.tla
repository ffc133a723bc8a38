------------------------------- MODULE Sources -------------------------------
(***************************************************************************)
(* load_sources of ember_armor/ledger/store.py: the sources of rules for a *)
(* call made in some directory.  The search for the ledger of a project    *)
(* goes up from there level by level, and each source is then read on its  *)
(* own, while files come, go, break and are closed to the process.         *)
(***************************************************************************)
EXTENDS Naturals

CONSTANTS
    Height,         \* directories at and above the directory of the call
    MaxFileChanges  \* bound on what happens to the files meanwhile

ASSUME SourcesAssumption == Height \in Nat \ {0} /\ MaxFileChanges \in Nat

VARIABLES
    given,      \* which files are the owner's, and what the environment says
    files,      \* the ledger at each level, and the one that lies elsewhere
    load        \* where the load is, and what it has found

sources == <<given, files, load>>

-----------------------------------------------------------------------------
Levels == 1 .. Height
Elsewhere == 0
Ledgers == Levels \cup {Elsewhere}

\* A ledger is missing, valid, not valid, or in a directory that is closed to
\* the process.
Conditions == {"absent", "whole", "broken", "closed"}

\* _user_ledgers: the one in force, and the one of the home directory.
IsUsers(ledger) == ledger \in {given.user, given.home}

\* Nothing is searched for when EMBER_LEDGER is set, for the HTTP server, and
\* above no directory or one on the network.
Searches == given.override = "unset" /\ given.searchable

Problem(of, said) == [of |-> of, said |-> said]

SourcesInit ==
    /\ given \in [user : Ledgers, home : Ledgers, override : {"unset", "relative", "absolute"},
                  searchable : BOOLEAN]
    /\ files \in [Ledgers -> Conditions]
    /\ load = [pc |-> "builtin", at |-> 1, found |-> {}, rules |-> {}, problems |-> {},
               steady |-> Ledgers, changes |-> 0]

-----------------------------------------------------------------------------
\* The pack stays on when the configuration cannot say otherwise.
LoadBuiltin ==
    /\ load.pc = "builtin"
    /\ \E switch \in {"on", "off", "unreadable"} :
         load' = [load EXCEPT
             !.pc = IF Searches THEN "search" ELSE "own",
             !.rules = IF switch = "off" THEN {} ELSE {<<"builtin", Elsewhere>>},
             !.problems = IF switch = "unreadable" THEN {Problem("builtin", "reason")} ELSE {}]
    /\ UNCHANGED <<given, files>>

\* Mutant: a level that cannot be looked at is passed over.
MutPassedOver(level) == files[level] = "closed"

\* _a_user_ledger, asked where is_file() raises.
PassedOver(level) == files[level] = "closed" /\ IsUsers(level)

Looking == load.pc = "search" /\ load.at \in Levels
Searched(found) == load' = [load EXCEPT !.pc = "own", !.found = found]

LookHigher ==
    /\ Looking
    /\ files[load.at] = "absent" \/ PassedOver(load.at)
    /\ load' = [load EXCEPT !.at = @ + 1]
    /\ UNCHANGED <<given, files>>

\* The nearest ledger ends the search, and is no project's when it is the user's.
Find ==
    /\ Looking
    /\ files[load.at] \in {"whole", "broken"}
    /\ Searched(IF IsUsers(load.at) THEN {} ELSE {load.at})
    /\ UNCHANGED <<given, files>>

\* Neither can be said of a path that cannot be resolved.
CannotLook ==
    /\ Looking
    /\ files[load.at] # "absent"
    /\ load' = [load EXCEPT !.pc = "own", !.problems = @ \cup {Problem("project", "fixed words")}]
    /\ UNCHANGED <<given, files>>

FindNothing ==
    /\ load.pc = "search" /\ load.at \notin Levels
    /\ Searched({})
    /\ UNCHANGED <<given, files>>

-----------------------------------------------------------------------------
Own == IF given.override = "absolute" THEN Elsewhere ELSE given.user

\* What a source adds: its rules when it is valid, and else why not.
Reads(ledger, origin, missingIsEmpty, said, next) ==
    load' = [load EXCEPT
        !.pc = next,
        !.rules = IF files[ledger] = "whole" THEN @ \cup {<<origin, ledger>>} ELSE @,
        !.problems = IF files[ledger] = "whole" \/ (files[ledger] = "absent" /\ missingIsEmpty)
                     THEN @ ELSE @ \cup {Problem(origin, said)}]

AfterOwn == IF load.found = {} THEN "done" ELSE "project"

\* The override must be there and have an absolute path; a user ledger need not.
ReadOverride ==
    /\ load.pc = "own" /\ given.override # "unset"
    /\ IF given.override = "relative"
       THEN load' = [load EXCEPT !.pc = AfterOwn, !.problems = @ \cup {Problem("own", "reason")}]
       ELSE Reads(Own, "own", FALSE, "reason", AfterOwn)
    /\ UNCHANGED <<given, files>>

ReadUser ==
    /\ load.pc = "own" /\ given.override = "unset"
    /\ Reads(Own, "own", TRUE, "reason", AfterOwn)
    /\ UNCHANGED <<given, files>>

ReadProjectSource ==
    /\ load.pc = "project"
    /\ \E ledger \in load.found : Reads(ledger, "project", TRUE, "fixed words", "done")
    /\ UNCHANGED <<given, files>>

\* The record of confirmations is the owner's: why it cannot be read is said.
RecordUnreadable ==
    /\ load.pc = "project"
    /\ \E ledger \in load.found : files[ledger] \in {"absent", "whole"}
    /\ load' = [load EXCEPT !.pc = "done", !.problems = @ \cup {Problem("project", "reason")}]
    /\ UNCHANGED <<given, files>>

FilesChange ==
    /\ load.pc # "done" /\ load.changes < MaxFileChanges
    /\ \E ledger \in Ledgers, condition \in Conditions :
         /\ condition # files[ledger]
         /\ files' = [files EXCEPT ![ledger] = condition]
         /\ load' = [load EXCEPT !.changes = @ + 1, !.steady = @ \ {ledger}]
    /\ UNCHANGED given

SourcesNext ==
    \/ LoadBuiltin
    \/ LookHigher \/ Find \/ CannotLook \/ FindNothing
    \/ ReadOverride \/ ReadUser \/ ReadProjectSource \/ RecordUnreadable
    \/ FilesChange

SourcesSpec == SourcesInit /\ [][SourcesNext]_sources

-----------------------------------------------------------------------------
Loaded(origin, ledger) == <<origin, ledger>> \in load.rules
Reported(origin) == \E problem \in load.problems : problem.of = origin

\* The ledger at a level is the one a search meets first, whatever it meets it in.
Nearest(level) ==
    /\ files[level] # "absent" /\ ~ IsUsers(level)
    /\ \A nearer \in 1 .. (level - 1) :
           files[nearer] = "absent" \/ (files[nearer] = "closed" /\ IsUsers(nearer))

\* "a broken project ledger (or user ledger, or configuration) never takes the
\* rules of the others with it" (store.py:284): a source that stays as it is
\* during the load is loaded or reported, whatever happens to the others and
\* wherever the search for the project's ledger ends; a ledger of the owner is
\* never taken for a project's.
EachSourceCounts ==
    load.pc = "done" =>
        /\ Own \in load.steady /\ given.override # "relative" =>
             CASE files[Own] = "whole"  -> Loaded("own", Own)
               [] files[Own] = "absent" -> given.override = "unset" \/ Reported("own")
               [] OTHER                 -> Reported("own")
        /\ given.override = "relative" => Reported("own")
        /\ Searches => \A level \in Levels :
             Nearest(level) /\ 1 .. level \subseteq load.steady =>
                 Loaded("project", level) \/ Reported("project")
        /\ \A level \in Levels : Loaded("project", level) => Searches /\ ~ IsUsers(level)
=============================================================================
