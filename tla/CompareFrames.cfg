SPECIFICATION FramesSpec
CONSTANTS
    FrameLists <- MCFrameLists
    READ_SIZES <- MCReadSizes
    HEADER = 2
    Benches <- MCBenches
    WARM_UP = 6
    MIN_PAYLOAD = 3
INVARIANTS
    FramesTypeOK
    PayloadsExact
    CutInputFails
PROPERTY Exits
CHECK_DEADLOCK FALSE
