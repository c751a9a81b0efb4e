\* Channels closed and reopened: alloc_local hands out an id in use.
CONSTANTS
    a = a
    b = b
    k1 = k1
    k2 = k2
    Peers <- MCPeers
    Keys <- MCKeys
    None = None
    NoChannel = NoChannel
    MaxCalls <- CallsReopen
    Closes = TRUE
    Noise = TRUE
SPECIFICATION Spec
CONSTRAINT BOpensFirst
INVARIANT MessageOnItsChannel
SYMMETRY KeySymmetry
CHECK_DEADLOCK FALSE
