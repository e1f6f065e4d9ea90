SPECIFICATION FairSpec
CONSTANTS
    Word = 4
    Header = 2
    BufferSize = 4
    Factor = 2
    Payloads = {0, 1}
    ForeignSizes = {1}
    MaxPackets = 3
INVARIANTS
    RoomToReceive
PROPERTIES
    ChannelSpec
    EverySentHandled
