SPECIFICATION Spec
CONSTANTS
    MaxGeneration = 3
    MaxCalls = 2
    MaxReady = 3
INVARIANTS
    TypeOK
    AlwaysTrying
    StopIsFinal
PROPERTIES
    HeardSessionKept
    Retried
CHECK_DEADLOCK FALSE
