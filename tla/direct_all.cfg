CONSTANTS
    Threads = {t1, t2}
    Loads = {m1, m2}
    Gens = {1, 2}
    Rejected = Rejected
    Null = Null
    NoThread = NoThread
    NoArg = NoArg
    Context = 4
    MaxCalls = 2
SPECIFICATION Spec
CHECK_DEADLOCK FALSE
INVARIANT TypeOK
INVARIANT NoDangling
INVARIANT NothingLost
INVARIANT RequestKeepsItsModel
INVARIANT ReadyIsLoaded
INVARIANT SamplerFollowsConfig
INVARIANT NothingLeft
PROPERTY ClosedIffTrue
PROPERTY ContractSpec
