SPECIFICATION MCSpec
CONSTANTS
    d1 = d1
    d2 = d2
    OtherKey = OtherKey
    PinnedKey = PinnedKey
    AuthKeys = {PinnedKey, OtherKey}
    OwnDigest = "own"
    WrappedKeys = {"k1", "k2"}
    Services = {d1, d2}
    NoId = NoId
    NoService = NoService
    NoAccount = NoAccount
    Unrestricted = Unrestricted
    Requester = "u1"
    MaxDepth = 2
    MaxElements = 3
    MaxText = 2
    MaxTotalText = 3
    MaxAttributes = 2
    MaxAttributeBytes = 3
    MaxNamespaces = 2
    MaxNamespaceBytes = 2
    MaxTotalNamespaceBytes = 3
    MaxTotal = 2
    MaxCompressed = 8
    MaxDecompressed = 7
    MaxRatio = 2
    MaxMembers = 3
    MaxMemberBytes = 4
    MaxXmlInput = 6
    MaxSegment = 16
    Base64Chunk = 8
    InflateChunk = 3
    AesBlock = 4
    ZipChunk = 2
CHECK_DEADLOCK FALSE
INVARIANTS
    OutcomeIsSigned
    BuffersBounded
    DocumentsAreTheFiles
    ExtractionBounded
    CustomerRightsKept
    ReturnedExactly
PROPERTIES
    Decided
