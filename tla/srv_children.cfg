CONSTANTS
    Threads = {t1, t2, t3}
    Pids = {p1, p2}
    Ports = {a}
    Gens = {g1}
    NoConfig = NoConfig
    NoPid = NoPid
    NoThread = NoThread
    Foreign = Foreign
    MaxPolls = 2
    MaxWaits = 2
    MaxCalls = 2
    Faults = {"fork", "probe", "listener"}
SPECIFICATION Spec
CHECK_DEADLOCK FALSE
SYMMETRY Interchangeable
INVARIANT TypeOK
INVARIANT NoOrphan
INVARIANT SignalsOwnChild
PROPERTY ShutdownStopsServer
PROPERTY OwnedSpec
