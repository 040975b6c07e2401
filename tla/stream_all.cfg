CONSTANTS
    MaxLines = 3
    PipeCap = 2
    Faults = {"local", "cut", "status", "longline", "quote", "stop"}
SPECIFICATION FairSpec
CHECK_DEADLOCK FALSE
INVARIANT NothingLeft
INVARIANT TrueMeansWhole
PROPERTY ContractSpec
PROPERTY StreamReturns
