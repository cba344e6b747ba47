SPECIFICATION Spec
CONSTANTS
    Null = Null
    Zero = Zero
    Stale = Stale
    all = all
    mine = mine
    other = other
    v1 = v1
    v2 = v2
    p1 = p1
    p2 = p2
    a1 = a1
    a2 = a2
    MatchingApps <- MCMatchingApps
    MatchingVersions <- MCMatchingVersions
    Argument = {a1, a2}
    Long = {a2}
    MaxArgs = 3
    Scenarios <- MCScenarios
INVARIANTS
    LoadedAsConfigured
    TriedIsConfigured
    ArgumentsIntact
CHECK_DEADLOCK FALSE
