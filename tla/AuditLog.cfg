SPECIFICATION FairSpec
CONSTANTS
    Procs = {p1, p2}
    p1 = p1
    p2 = p2
    MaxMonth = 2
    MaxAppends = 3
    MaxCrashes = 2
    MaxTampers = 1
INVARIANTS
    AckedKept
    TamperShows
    OnlyCutAppendsReported
PROPERTIES
    LockComesFree
