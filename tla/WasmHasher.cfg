CONSTANTS
    w1 = w1
    w2 = w2
    Local = Local
    Wrappers <- MCTwo
    Pointers <- MCTwoPointers
    LeafSpan = 3
    MAX_LEVEL = 3
    Pow <- MCPow
    PAYLOAD_LEVEL = 1
    CHUNK_SIZE = 3
    WriteSizes <- MCWriteSizes
    MaxBase = 0
    MaxGrowth = 1
    MaxLost = 1
SPECIFICATION Spec
INVARIANTS
    TypeOK
    CallsCleanUp
    PayloadInOrder
    ReplyIsCommitment
    PointersOwned
PROPERTIES
    PieceSteps
SYMMETRY MCSymmetry
