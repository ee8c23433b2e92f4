SPECIFICATION Spec
CONSTANTS
    MaxChunks = 2
    MaxReads = 2
    Budget = 1
CHECK_DEADLOCK FALSE
INVARIANT WholeFramesOnly
