SPECIFICATION ExampleSpec
CONSTANTS
    p1 = p1
    p2 = p2
    b1 = b1
    Session <- MCSession
    BlobId <- MCBlobId
    supportedPath = p1
    kBufferSize = 3
    WordModulus = 8
    Byte <- MCByte
    Offset <- MCOffset
    Size <- MCSize
INVARIANTS
    ExampleTypeOK
    StaysInBuffer
    LengthIsHighWater
