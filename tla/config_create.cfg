CONSTANTS
    Absent = Absent
    Ports = {0, 8090, 65536}
    Numbers = {0, 3}
    Install = TRUE
SPECIFICATION Spec
CHECK_DEADLOCK FALSE
INVARIANT ServiceIsSound
INVARIANT RevalidationIsStable
INVARIANT SameServiceBothWays
