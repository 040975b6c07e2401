CONSTANTS
    MaxLines = 2
    PipeCap = 2
    Faults = {"status"}
SPECIFICATION Spec
CHECK_DEADLOCK FALSE
INVARIANT RefusalFails
