SPECIFICATION Spec
CONSTANTS
    RootOf <- MCRootOf
    Lower <- MCLower
    Variables <- MCVariables
    Unset <- MCUnset
    Home <- MCHome
    Wild <- MCWild
    Abbreviates <- MCAbbreviates
    Carries <- MCCarries
    ValueFlags <- MCValueFlags
    RepoName <- MCRepoName
    Unexceptable <- MCUnexceptable
    Scenarios <- MCScenarios
    Now = 10
    MaxChanges = 2
INVARIANTS
    LiftsOnlyCovered
    UnknownIsSaidUnlessExcepted
    RulesAgree
    FailuresStayLocal
    ReachesInScope
    UnresolvedSafe
    LintIsCertain
