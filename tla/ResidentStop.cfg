SPECIFICATION Spec
CONSTANTS
    Servers = {s1, s2}
    s1 = s1
    s2 = s2
    Ports = {o1}
    o1 = o1
    Calls = {c1}
    c1 = c1
    Sessions = {}
    Settings = o1
    Most <- Bounded
    byHand = 1
    stops = 1
    Idleness = FALSE
    installs = 1
    foreign = 0
    failures = 0
    Together = 2
PROPERTIES
    StoppedStartsNoCopy
CHECK_DEADLOCK FALSE
