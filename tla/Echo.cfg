SPECIFICATION EchoSpec
VIEW EchoView
CONSTANTS
    HeaderSize = 2
    MaxBodySize = 2
    BufferSize = 8
    BodySizes = {1, 2, 3, 4}
    MaxPackets = 3
    BaseSize = 1
    MaxQueue = 3
    MaxClientSendBufferSize = 9
    OutBytes <- EchoBytes
    Headers <- EchoHeaders
    Bodies <- EchoBodies
INVARIANTS TypeOK BufferFits FramesExact StreamKept NothingHeldBack StreamWhole DataHeld
PROPERTY LostOnlyBehind
