SPECIFICATION ServicesSpec
CONSTANTS
    Scenes = {"breaker", "limiter", "api", "ensemble", "records", "checks"}
    Callers = {c1, c2, c3}
    c1 = c1
    c2 = c2
    c3 = c3
    Threshold = 2
    RecoveryTimeout = 1
    WindowSize = 2
    MaxOutages = 1
    MaxCancels = 1
    Clients = {p1}
    p1 = p1
    Requests = {c1, c2}
    ClientOf <- MCClientOf
    MaxRequests = 3
    Window = 3
    MaxTime = 5
    MaxChecks = 11
    MaxReports = 1
    ApiTime = 2
    Agents = {"x"}
    Sonar = "sonar"
    Orders = {o1, o2}
    o1 = o1
    o2 = o2
    Weights = {20, 60}
    VetoThreshold = 34
    MaxRegistrations = 2
    MaxCancelled = 1
    Tasks = {t1, t2}
    t1 = t1
    t2 = t2
    FirstTask = t1
    Ids = {"i", "j"}
    MaxScopes = 2
PROPERTIES
    BreakerRecovers
    TripsOnThreshold
    CoolsDown
    FollowsWhatWasSaid
    OrdersEnd
    IllnessShows
    LogsOwnId
INVARIANTS
    LimitExact
    VotesAddUp
CHECK_DEADLOCK FALSE
