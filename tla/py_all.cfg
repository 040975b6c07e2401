CONSTANTS
    Services = {s1, s2}
    Pids = {p1, p2}
    NoPid = NoPid
    NoService = NoService
    Foreign = Foreign
    MaxPolls = 2
    MaxCalls = 4
    Faults = {"popen", "probe", "listener", "crash"}
SPECIFICATION FairSpec
CHECK_DEADLOCK FALSE
INVARIANT NoOrphan
PROPERTY SignalsOwnChild
PROPERTY CloseIsFinal
PROPERTY OwnedSpec
PROPERTY CallsReturn
