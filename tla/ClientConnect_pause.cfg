SPECIFICATION Spec
CONSTANTS
    MaxGeneration = 3
    MaxCalls = 2
    MaxReady = 3
INVARIANT PauseHolds
CHECK_DEADLOCK FALSE
