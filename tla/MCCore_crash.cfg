\* Appends through both branches, with crashes and reopen at every step;
\* storage writes do not fail.
CONSTANTS
    c1 = c1
    c2 = c2
    Content <- MCContent
    DataLen <- MCDataLen
    Key = Key
    OtherKey = OtherKey
    HasSecret = TRUE
    MaxAppends = 5
    LengthBits = 3
    StorageFaults = FALSE
    Crashes = TRUE
    NoRecord = NoRecord
    NoAppend = NoAppend
SPECIFICATION Spec
INVARIANTS
    TypeOK
    GetReturnsAppended
    TreeSignatureBinding
    RecoveryConsistent
PROPERTIES
    AppendOnlyRefinement
