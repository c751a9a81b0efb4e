\* Replication from a one-block writer that appends live up to three
\* blocks.  Both runs end by the keepalive timeout, so the system stops.
CONSTANTS
    w = w
    r = r
    c1 = c1
    c2 = c2
    Writer = w
    Reader = r
    Content <- MCContent
    InitLog <- MCInitLog
    MaxLen = 3
    MaxCoreLength = 4
    IterStart = 0
    None = None
SPECIFICATION Spec
INVARIANTS
    TypeOK
    RunEndsOk
    RemoteIndexNotAhead
PROPERTIES
    EventuallySynced
CHECK_DEADLOCK FALSE
