\* An XX handshake, then channel messages of 3, 4 and 2 bytes (header
\* included): the writer re-parks and grows its buffer, writes and reads
\* split anywhere, the reader cycles its buffer.  The connection ends once
\* everything is read or the reader stops, so it may stop.
CONSTANTS
    VarintBits = 5
    Frames <- HandshakeThenThree
    WriteBufSize = 3
    ReadBufSize = 5
    MaxMessageSize = 3
    Keepalive = TRUE
    Noise = TRUE
    None = None
SPECIFICATION Spec
INVARIANTS
    TypeOK
    ReaderYieldsSentFrames
    StreamConserved
CHECK_DEADLOCK FALSE
