SPECIFICATION ClientsFairSpec
CONSTANTS
    h1 = h1
    p1 = p1
    c1 = c1
    c2 = c2
    Handler <- MCHandler
    Path <- MCPath
    Client <- OneClient
    SessionCount = 3
    sessionTimeout = 1
    FlagSets <- MCFlagSets
    Claims <- MCClaims
    Loaded <- MCLoaded
    Request <- MCRequest
    MaxSizes <- MCMaxSizes
    ReadSizes <- MCReadSizes
    MetaSizes <- MCMetaSizes
    BlobLists <- MCBlobLists
    IdLength <- MCIdLength
INVARIANTS
    ClientsTypeOK
    ForeignIdsAreOld
PROPERTY
    LostSessionsReclaimed
