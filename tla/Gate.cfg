SPECIFICATION MCSpec
CONSTANTS
    Calls = {c1, c2}
    c1 = c1
    c2 = c2
    warn = warn
    deny = deny
    Rules = {deny, warn}
    Declared <- DenyAndWarn
    Window = 1
    MaxRules = 1
    MaxTime = 1
    MaxEdits = 2
    MaxStarts = 1
    Sessions = {s1, s2}
    s1 = s1
    s2 = s2
    Matched <- WarnOrBoth
    Recalling = {deny}
    MaxMade = 3
    MaxNamed = 2
SYMMETRY Symmetry
INVARIANTS
    FailClosed
    PassiveDecidesNothing
    DenyStands
    UnconfirmedUnheard
    ToldIsLogged
    OncePerInterval
    HeldBackWasSaid
    ReplayAgrees
