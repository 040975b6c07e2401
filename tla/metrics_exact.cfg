CONSTANTS
    Threads = {t1, t2}
    Latencies = {1, 3}
    MaxCalls = 3
SPECIFICATION Spec
CHECK_DEADLOCK FALSE
INVARIANT UndisturbedIsExact
INVARIANT TimedExactlyWhenStreamed
SYMMETRY ThreadSymmetry
