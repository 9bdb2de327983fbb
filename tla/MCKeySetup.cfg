SPECIFICATION Spec
CONSTANTS
    MaxResponse = 1
    ChunkSize = 2
    MaxLength = 2
    NoLength = NoLength
    KeyPairs = {k1, k2}
    NoKeys = NoKeys
SYMMETRY Symmetry
INVARIANTS
    TypeOK
    BodyBounded
    KeySubmittedAtMostOnce
    RegisteredKeyHasLetter
    ReturnedLetterIsRegistered
    OnlyAcceptedKeysUsed
