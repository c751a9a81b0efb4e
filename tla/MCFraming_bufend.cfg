\* A frame that ends exactly at the end of the read buffer, then another.
CONSTANTS
    VarintBits = 3
    Frames <- FillThenMore
    WriteBufSize = 3
    ReadBufSize = 3
    MaxMessageSize = 3
    Keepalive = TRUE
    Noise = FALSE
    None = None
SPECIFICATION Spec
PROPERTY TimeoutOnlyWhenSilent
CHECK_DEADLOCK FALSE
