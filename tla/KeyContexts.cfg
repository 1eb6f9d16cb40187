SPECIFICATION Spec
CONSTANTS
    Client = Client
    Server = Server
    KeyIdMask = 5
    HandshakeWindow = 2
    BecomePrimary = 1
    RenegotiateSec = 6
    LimitDelay = 1
    DataLimited = TRUE
    Limited = {Client}
    MaxOutage = 3
    MaxLimits = 3
    MaxTime = 20
INVARIANTS
    TypeOK
    SessionSurvives
    TransmitKeyKnown
    NegotiatedInTime
PROPERTY
    FlushEnds
CHECK_DEADLOCK FALSE
