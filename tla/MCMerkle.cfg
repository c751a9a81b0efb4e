\* Eight leaves make the merge loop cascade three levels (7 -> 8 leaves).
CONSTANTS
    Data = {d1, d2}
    Lengths = {1, 2}
    MaxLeaves = 8

SPECIFICATION Spec

INVARIANTS
    TypeOK
    StreamMatchesReference
    StateStoreRecovers
    RootsPartitionLeaves

\* The stream stops when MaxLeaves leaves have been appended.
CHECK_DEADLOCK FALSE
