SPECIFICATION ComposedSpec
CONSTANTS
    example = example
    h1 = h1
    p1 = p1
    p2 = p2
    b1 = b1
    Handler <- MCHandler
    Path <- MCPath
    SessionCount = 3
    sessionTimeout = 1
    FlagSets <- MCFlagSets
    Claims <- MCClaims
    supportedPath = p1
    kBufferSize = 1
    WordModulus = 4
    Byte <- MCByte
    Offset <- MCOffset
    Size <- MCSize
INVARIANT
    SameSessions
PROPERTY
    ExampleNeverRefuses
