SPECIFICATION BytesSpec
CONSTANTS
    BASE = 8
    MULTIHASH_CODE = 17
    Root <- MCRoot
    Paddings <- MCPaddings
    Heights <- MCHeights
INVARIANTS
    Multihash
    FieldsRoundTrip
CHECK_DEADLOCK FALSE
