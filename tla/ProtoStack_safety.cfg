SPECIFICATION Spec
CONSTANTS
    Client = Client
    Server = Server
    Payload = {1}
    Span = 2
    MaxAckList = 1
    PacketIds = TRUE
    Lossy = FALSE
    Fallible = {}
    ServerSilence = 1
    ToServer = 2
    ToClient = 1
    MaxPending = 2
    MaxPid = 3
    MaxQueued <- MCQueued
    MaxSilence <- MCSilence
INVARIANTS
    InOrderExactlyOnce
    QuietEvidence
    QuietAcked
    QuietRejected
PROPERTIES
    LinkSpec
CHECK_DEADLOCK FALSE
