CONSTANTS
    Given <- MCGiven
    Disk <- MCDisk
    Faults = {}
SPECIFICATION Spec
CHECK_DEADLOCK FALSE
INVARIANT ImageStaysWithItsMessage
