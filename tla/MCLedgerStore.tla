--------------------------- MODULE MCLedgerStore ---------------------------
(***************************************************************************)
(* The ledger files on a small instance, in two scenes: commands that edit *)
(* them, and a load of all sources.  The processes that run commands are   *)
(* interchangeable, and so are ids and contents: nothing in the code or in *)
(* a property names one.                                                   *)
(***************************************************************************)
EXTENDS LedgerStore, Sources, TLC

VARIABLE scene

Symmetry == Permutations(Commands) \cup Permutations(Id) \cup Permutations(Content)

\* Nobody looks for rules, or runs a command, in the scene of the other.
NoSearch == given = <<>> /\ files = <<>> /\ load = [pc |-> "idle"]
NoProject == project = [i \in Id |-> NoRule]

MCInit ==
    /\ Init
    /\ \/ scene = "commands" /\ NoSearch
       \/ scene = "sources" /\ SourcesInit /\ NoProject

MCNext ==
    /\ UNCHANGED scene
    /\ \/ scene = "commands" /\ Next /\ UNCHANGED sources
       \/ scene = "sources" /\ SourcesNext /\ UNCHANGED vars

MCSpec == MCInit /\ [][MCNext]_<<vars, sources, scene>>
=============================================================================
