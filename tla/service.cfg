SPECIFICATION ServiceSpec
CONSTANTS
    h1 = h1
    h2 = h2
    p1 = p1
    p2 = p2
    Handler <- OneHandler
    Path <- OnePath
    SessionCount = 3
    sessionTimeout = 1
    FlagSets <- MCFlagSets
    Claims <- AllClaim
    Loaded <- MCLoaded
    Request <- SessionsRequest
    MaxSizes <- MCMaxSizes
    ReadSizes <- MCReadSizes
    MetaSizes <- MCMetaSizes
    BlobLists <- NoLists
    IdLength <- MCIdLength
INVARIANTS
    ServiceTypeOK
    ReadsWithinPayload
    SessionsAreKnown
    MetadataLenIsExact
PROPERTIES
    DamagedRequestsAreHarmless
    SessionsEndKnowingly
    SessionsBeginKnowingly
