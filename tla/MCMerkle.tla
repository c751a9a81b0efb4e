------------------------------ MODULE MCMerkle ------------------------------
(***************************************************************************)
(* Checks the streaming Merkle tree of Merkle.tla against a reference      *)
(* definition of the canonical cover of n leaves by perfect subtrees.      *)
(* The state machine appends one leaf per step, as Core::append does       *)
(* through Merkle::next, and then writes the roots to a state store over   *)
(* a RandomAccessMemory (StoreState::write).                               *)
(***************************************************************************)
EXTENDS StoreState, Naturals, Sequences

CONSTANTS
    Data,       \* contents a leaf may hash
    Lengths,    \* byte lengths a leaf may have
    MaxLeaves   \* bound on the number of appended leaves

ASSUME MaxLeaves \in Nat /\ Lengths \subseteq Nat \ {0}

VARIABLES
    leaves,     \* the leaves <<data, len>> appended so far
    stream,     \* the MerkleTreeStream after those leaves
    state       \* the bytes of the state store

vars == <<leaves, stream, state>>

Init ==
    /\ leaves = <<>>
    /\ stream = EmptyStream
    /\ state = EmptyMemory

\* Merkle::next(Hash::from_leaf(data), len), then StoreState::write.
NextLeaf(d, l) ==
    /\ Len(leaves) < MaxLeaves
    /\ leaves' = Append(leaves, <<d, l>>)
    /\ stream' = StreamNext(stream, LeafHash(d, l), l)
    /\ state' = StoreStateWrite(state, stream'.roots)

Next == \E d \in Data, l \in Lengths : NextLeaf(d, l)

Spec == Init /\ [][Next]_vars

-----------------------------------------------------------------------------
(* Reference definition: the roots after n leaves are the perfect subtrees *)
(* of the binary decomposition of n, largest first.  The subtree of 2^d    *)
(* leaves starting at leaf lo sits at the in-order position 2*lo + 2^d - 1 *)
(* and, as the stream test recomputes it, its hash is the parent hash of   *)
(* the subtrees at left_child and right_child over the leaves it spans.    *)

\* The byte length of the count(i) nodes below i: the sum of the lengths of
\* the leaves from left_span(i) to right_span(i).
TreeLength(i) ==
    LET sp == Spans(i) IN
    FoldLeft(LAMBDA acc, k : acc + leaves[k][2], 0,
             [k \in 1..((Count(i) + 1) \div 2) |-> sp[1] \div 2 + k])

RECURSIVE TreeHash(_)
TreeHash(i) ==
    IF LeftChild(i) = <<>> THEN LeafHash(leaves[i \div 2 + 1][1], leaves[i \div 2 + 1][2])
    ELSE ParentHash(TreeHash(LeftChild(i)[1]), TreeHash(RightChild(i)[1]),
                    TreeLength(i))

RECURSIVE RefCover(_, _)
RefCover(lo, n) ==
    IF n = 0 THEN <<>>
    ELSE LET d == CHOOSE e \in 0..n : 2^e <= n /\ n < 2^(e + 1)
             i == 2 * lo + 2^d - 1
         IN  <<[index |-> i, hash |-> TreeHash(i), length |-> TreeLength(i)]>>
             \o RefCover(lo + 2^d, n - 2^d)

TypeOK ==
    /\ leaves \in Seq(Data \X Lengths)
    /\ stream.blocks = Len(leaves)
    /\ \A k \in DOMAIN stream.roots :
          stream.roots[k].index \in Nat /\ stream.roots[k].length \in Nat

\* The roots next() leaves behind after any sequence of appends are exactly
\* the canonical cover of the leaves, hashes and lengths included (the
\* merge loop of MerkleTreeStream::next).
StreamMatchesReference ==
    stream.roots = RefCover(0, Len(leaves))

\* Reopening a core rebuilds the stream from the state store alone
\* (StoreState::read, then MerkleTreeStream::new): after any sequence of
\* writes, which shrink the root list as often as they grow it and leave
\* stale root bytes behind the current ones, the read succeeds, parses
\* exactly the current roots, and the block count recomputed from
\* right_span of the last root is the number of leaves appended.
StateStoreRecovers ==
    LET r == StoreStateRead(state) IN r.ok /\ r.merkle = stream

\* The spans of the roots partition the leaf positions [0, 2n - 2]: each
\* root starts right after the previous one ends (left_span/right_span).
RootsPartitionLeaves ==
    LET r == stream.roots IN
    /\ r /= <<>> => LeftSpan(r[1].index) = 0
    /\ r /= <<>> => RightSpan(Last(r).index) = 2 * Len(leaves) - 2
    /\ \A k \in 1..(Len(r) - 1) :
          LeftSpan(r[k + 1].index) = RightSpan(r[k].index) + 2

=============================================================================
