SPECIFICATION Spec
INVARIANTS
    QuadPadded
    LeavesRight
CHECK_DEADLOCK FALSE
