SPECIFICATION Spec
CONSTANTS
    h1 = h1
    h2 = h2
    p1 = p1
    p2 = p2
    Handler <- MCHandler
    Path <- MCPath
    SessionCount = 3
    sessionTimeout = 1
    FlagSets <- MCFlagSets
    Claims <- MCAnyClaims
INVARIANT
    FailsOnlyWhenFull
