SPECIFICATION Spec
CHECK_DEADLOCK FALSE
CONSTANTS
    Options <- MCFewOptions
    Codes <- MCOneCode
    Large = {}
    Formats = {1}
    MaxRuns = 2
    Lacking = {}
PROPERTY UpdatesOnlyItsSection
