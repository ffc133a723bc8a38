SPECIFICATION RunSpec
CONSTANTS
    Profiles <- Parts
    NoWord = none
    Absolute = {"A", "B", "~"}
    Home = "~"
    Start = "R"
    Vague = "*"
    MaxPlaces = 1
    TrialSteps = 6
    MaxDepth = 3
    MaxCalls = 2
CHECK_DEADLOCK FALSE
INVARIANTS
    DirectorySound
    PathsBothWays
