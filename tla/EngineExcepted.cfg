SPECIFICATION Spec
CONSTANTS
    RootOf <- MCRootOf
    Lower <- MCLower
    Variables <- MCVariables
    Unset <- MCUnset
    Home <- MCHome
    Wild <- MCWild
    Abbreviates <- MCAbbreviates
    Carries <- MCCarries
    ValueFlags <- MCValueFlags
    RepoName <- MCRepoName
    Unexceptable <- MCUnexceptable
    Scenarios <- OnlyMoving
    Now = 10
    MaxChanges = 0
INVARIANTS
    UnknownIsSaid
