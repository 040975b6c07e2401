CONSTANT MaxRuns = 3
SPECIFICATION Spec
CHECK_DEADLOCK FALSE
INVARIANT ManifestMeansComplete
INVARIANT SuccessMeansComplete
