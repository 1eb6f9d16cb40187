SPECIFICATION FairSpec
CONSTANTS
    Client = Client
    Server = Server
    Payload = {1}
    Span = 2
    MaxAckList = 1
    PacketIds = FALSE
    Lossy = TRUE
    Fallible = {Server}
    ServerSilence = 0
    ToServer = 3
    ToClient = 0
    MaxPending = 1
    MaxPid = 0
    MaxQueued <- MCQueued
    MaxSilence <- MCSilence
INVARIANTS
    TypeOK
    Numbering
PROPERTIES
    EventuallyDelivered
    EventuallyAcked
CHECK_DEADLOCK FALSE
