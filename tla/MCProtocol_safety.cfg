\* Both endpoints open, send on and close channels in every interleaving
\* with the writer and reader; the protocol is quiescent once every call is
\* made.  Three calls for a and two for b; no symmetry, since the run checks
\* a liveness property.
CONSTANTS
    a = a
    b = b
    k1 = k1
    k2 = k2
    Peers <- MCPeers
    Keys <- MCKeys
    None = None
    NoChannel = NoChannel
    MaxCalls <- Calls32
    Closes = TRUE
    Noise = TRUE
SPECIFICATION Spec
INVARIANTS
    TypeOK
    WriterKeepsEachStream
    MessageOnItsChannel
PROPERTIES
    EveryFrameDelivered
CHECK_DEADLOCK FALSE
