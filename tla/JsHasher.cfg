CONSTANTS
    h1 = h1
    h2 = h2
    NoHasher = NoHasher
    Hashers <- MCHashers
    LeafSpan = 3
    MAX_LEVEL = 5
    Pow <- MCPow
    PAYLOAD_LEVEL = 3
    WriteSizes = {0, 2, 10}
    MaxBase = 4
SPECIFICATION Spec
SYMMETRY MCSymmetry
INVARIANTS
    TypeOK
    FilledTilePayload
PROPERTIES
    DigestKeepsHasher
    CallsReturn
    PieceSpec
