SPECIFICATION FairSpec
CONSTANTS
    Servers = {s1, s2}
    s1 = s1
    s2 = s2
    Ports = {o1, o2}
    o1 = o1
    o2 = o2
    Calls = {c1}
    c1 = c1
    Sessions = {e1}
    e1 = e1
    Settings = o1
    Most <- Bounded
    byHand = 1
    stops = 1
    Idleness = TRUE
    installs = 1
    foreign = 1
    failures = 1
    Together = 1
INVARIANTS
    OneGate
PROPERTIES
    ComesBack
    UpToDate
    SessionGetsGate
    NoneLeftBehind
CHECK_DEADLOCK FALSE
