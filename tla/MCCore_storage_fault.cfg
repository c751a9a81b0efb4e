\* A failed content, record or state write: the next signed block binds a
\* tree that includes the failed append's leaf.
CONSTANTS
    c1 = c1
    c2 = c2
    Content <- MCContent
    DataLen <- MCDataLen
    Key = Key
    OtherKey = OtherKey
    HasSecret = TRUE
    MaxAppends = 3
    LengthBits = 3
    StorageFaults = TRUE
    Crashes = FALSE
    NoRecord = NoRecord
    NoAppend = NoAppend
SPECIFICATION Spec
INVARIANT TreeSignatureBinding
CHECK_DEADLOCK FALSE
