\* No closes; the writer's parked frame goes before the queue's Open.
CONSTANTS
    a = a
    b = b
    k1 = k1
    k2 = k2
    Peers <- MCPeers
    Keys <- MCKeys
    None = None
    NoChannel = NoChannel
    MaxCalls <- Calls3
    Closes = FALSE
    Noise = TRUE
SPECIFICATION Spec
INVARIANT ChannelFifo
CHECK_DEADLOCK FALSE
