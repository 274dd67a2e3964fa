CONSTANTS
    LeafSpan = 3
    MAX_LEVEL = 7
    Pow <- MCPow
    BATCH_QUADS = 4
    BATCH_LEVEL = 3
    PAYLOAD_LEVEL = 5
    PARALLEL = TRUE
    PARALLEL_MIN_BATCHES = 2
    PARALLEL_GROUP = 3
    WriteSizes <- MCWriteSizes
    MaxBase = 12
SPECIFICATION Spec
INVARIANTS
    TypeOK
    PayloadPlaced
    DigestIsCommitment
    AssertionsHold
PROPERTIES
    CallsReturn
    PieceSpec
    StackUsedAsAllowed
