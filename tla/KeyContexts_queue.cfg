SPECIFICATION Spec
CONSTANTS
    Client = Client
    Server = Server
    KeyIdMask = 3
    HandshakeWindow = 2
    BecomePrimary = 1
    RenegotiateSec = 6
    LimitDelay = 1
    DataLimited = TRUE
    Limited = {Client}
    MaxOutage = 0
    MaxLimits = 2
    MaxTime = 16
INVARIANTS
    LimitHonoured
CHECK_DEADLOCK FALSE
