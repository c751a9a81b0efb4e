\* An XX handshake (messages 1 and 3 from the writer) followed by two channel
\* messages.
CONSTANTS
    VarintBits = 3
    Frames <- HandshakeThenTwo
    WriteBufSize = 3
    ReadBufSize = 3
    MaxMessageSize = 3
    Keepalive = TRUE
    Noise = TRUE
    None = None
SPECIFICATION Spec
INVARIANT HandshakeOnlyHandshakeFrames
CHECK_DEADLOCK FALSE
