SPECIFICATION Spec
CONSTANTS
    Options <- MCOptions
    Codes <- MCCodes
    Large = {}
    Formats = {1, 2}
    MaxRuns = 3
    Lacking = {"rust-avx2"}
INVARIANTS
    TypeOK
    NeverMixesCode
PROPERTY KeepsOtherSections
