SPECIFICATION ReadersSpec
CONSTANTS
    Procs = {p1, p2}
    p1 = p1
    p2 = p2
    MaxMonth = 3
    MaxAppends = 4
    MaxCrashes = 1
    MaxTampers = 0
INVARIANTS
    ReadsAChain
PROPERTIES
    AppendOnly
