SPECIFICATION Spec
CONSTANTS
    Client = Client
    Server = Server
    Base = 2
    MaxSize = 3
    QueueLimit = 0
    ClientPackets = 2
    ServerPackets = 1
    Packet <- MCPacket
    MaxPackets <- MCMaxPackets
INVARIANTS
    Framing
    DataBounded
PROPERTIES
    PipeSpec
    Drained
CHECK_DEADLOCK FALSE
