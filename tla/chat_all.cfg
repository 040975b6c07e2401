CONSTANTS
    Given <- MCGiven
    Disk <- MCDisk
    Faults = {"start", "mkstemp", "write", "popen", "refused", "cut"}
SPECIFICATION Spec
CHECK_DEADLOCK FALSE
INVARIANT ServerSeesTheChat
INVARIANT ServerIsToldTheSettings
INVARIANT AnswerIsUnderstood
INVARIANT TrueMeansAnswered
INVARIANT CallIsClean
