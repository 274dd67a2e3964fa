CONSTANTS
    LeafSpan = 2
    MAX_LEVEL = 4
    Pow <- MCPow
    MaxLeaves = 11
    MaxOrigin = 1
    MaxSkip = 1
SPECIFICATION Spec
INVARIANTS
    TypeOK
    PendingSubtrees
    FoldedRoot
    NoIndexPanic
PROPERTY
    Returns
