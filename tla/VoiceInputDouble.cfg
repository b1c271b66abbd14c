SPECIFICATION Spec
CONSTANTS
    MaxStarts = 2
    MaxLate = 1
CHECK_DEADLOCK FALSE
INVARIANTS
    SettledStopReleasesMic
