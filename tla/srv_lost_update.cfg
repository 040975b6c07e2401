CONSTANTS
    Threads = {t1, t2}
    Pids = {p1, p2}
    Ports = {a}
    Gens = {g1, g2}
    NoConfig = NoConfig
    NoPid = NoPid
    NoThread = NoThread
    Foreign = Foreign
    MaxPolls = 1
    MaxWaits = 1
    MaxCalls = 1
    Faults = {}
SPECIFICATION HistorySpec
CHECK_DEADLOCK FALSE
INVARIANT SettingsAreKept
