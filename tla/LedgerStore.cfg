\* Two commands at a time over one ledger, one record and one project ledger;
\* and a load from a directory with two above it.
CONSTANTS
    Commands = {c1, c2}
    Id = {r1, r2}
    Content = {x1, x2}
    NoRule = NoRule
    MaxCommands = 3
    MaxPulls = 1
    Height = 3
    MaxFileChanges = 1
SYMMETRY Symmetry
SPECIFICATION MCSpec
INVARIANTS
    ApprovedOnly
    EachSourceCounts
PROPERTIES
    AtomicAlone
CHECK_DEADLOCK FALSE
