SPECIFICATION Spec
CONSTANTS
    Options <- MCFewOptions
    Codes <- MCTwoChanges
    Large = {1, 2}
    Formats = {1}
    MaxRuns = 2
    Lacking = {}
INVARIANT NeverMixesCode
