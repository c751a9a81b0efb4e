\* One frame of 4 bytes, whose length takes two varint bytes: a read may
\* end between them.
CONSTANTS
    VarintBits = 2
    Frames <- LongFrame
    WriteBufSize = 3
    ReadBufSize = 3
    MaxMessageSize = 4
    Keepalive = TRUE
    Noise = FALSE
    None = None
SPECIFICATION Spec
INVARIANT ReaderYieldsSentFrames
CHECK_DEADLOCK FALSE
