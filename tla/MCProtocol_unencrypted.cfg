\* Noise disabled (Options.noise = false): each endpoint opens both
\* channels; the channel that connects fails capability verification.
CONSTANTS
    a = a
    b = b
    k1 = k1
    k2 = k2
    Peers <- MCPeers
    Keys <- MCKeys
    None = None
    NoChannel = NoChannel
    MaxCalls <- Calls2
    Closes = FALSE
    Noise = FALSE
SPECIFICATION Spec
PROPERTIES
    BothOpenEventuallyConnected
CHECK_DEADLOCK FALSE
