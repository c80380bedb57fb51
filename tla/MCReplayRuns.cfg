SPECIFICATION Spec
CONSTANTS
    Programs = {"demo", "replay"}
    Steps = 3
    Decimation = 2
    Dt = 1
    MaxKeys = 2
INVARIANT ReplayRuns
CHECK_DEADLOCK FALSE
