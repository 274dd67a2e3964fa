SPECIFICATION Spec
CONSTANT Counts <- MCCounts
INVARIANTS
    TypeOK
    HashedInPlace
    RunsOnThisCPU
    ReportsWhatRuns
