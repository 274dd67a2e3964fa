SPECIFICATION Spec
CONSTANTS
    b1 = b1
    b2 = b2
    throw = throw
    None = None
    Builds <- MCBuilds
    Imports <- MCImports
    Interfaces <- MCInterfaces
SYMMETRY MCSymmetry
INVARIANTS
    PassedRunsItsCrate
    FailsOnFirstUse
