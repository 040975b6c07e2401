CONSTANTS
    Threads = {t1, t2}
    Pids = {p1, p2}
    Ports = {a, b}
    Gens = {g1}
    NoConfig = NoConfig
    NoPid = NoPid
    NoThread = NoThread
    Foreign = Foreign
    MaxPolls = 2
    MaxWaits = 1
    MaxCalls = 2
    Faults = {"hostreap"}
SPECIFICATION FairSpec
CHECK_DEADLOCK FALSE
INVARIANT ReadyHasServer
INVARIANT StartSparesHealthyServer
PROPERTY CallsReturn
