SPECIFICATION Spec
CONSTANTS
    Window = 4
    MaxId = 6
    MaxClock = 2
INVARIANTS
    TypeOK
    FreshIds
    NeverTwice
    WindowFaithful
    OnlyOldRefused
PROPERTIES
    RefusedForGood
CHECK_DEADLOCK FALSE
