SPECIFICATION ServiceSpec
CONSTANTS
    h1 = h1
    h2 = h2
    p1 = p1
    p2 = p2
    Handler <- TwoHandlers
    Path <- TwoPaths
    SessionCount = 2
    sessionTimeout = 0
    FlagSets <- ReadFlagSets
    Claims <- AllClaim
    Loaded <- MCLoaded
    Request <- ListingRequest
    MaxSizes <- MCMaxSizes
    ReadSizes <- MCReadSizes
    MetaSizes <- MCMetaSizes
    BlobLists <- MCLists
    IdLength <- MCIdLength
PROPERTY
    CountedBlobsAreListed
