------------------------------- MODULE Merkle -------------------------------
(***************************************************************************)
(* The flat-tree numbering and the streaming Merkle tree of datacore       *)
(* (datacore/src/merkle_tree_stream/{flat_tree.rs,mod.rs}, merkle.rs and   *)
(* the hash constructors of hash.rs).                                      *)
(*                                                                         *)
(* Hashes are modelled as injective, domain-separated tuples: two hashes   *)
(* are equal iff they were built by the same constructor from the same     *)
(* inputs, which is the collision resistance the code relies on.           *)
(***************************************************************************)
EXTENDS Naturals, Sequences, SequencesExt

-----------------------------------------------------------------------------
(* Flat-tree numbering (flat_tree.rs).                                     *)

\* depth(i): number of trailing 1-bits of i.
RECURSIVE Depth(_)
Depth(i) == IF i % 2 = 0 THEN 0 ELSE 1 + Depth(i \div 2)

\* index(depth, offset) = (offset << (depth + 1)) | ((1 << depth) - 1)
Index(d, o) == o * 2^(d + 1) + (2^d - 1)

\* offset(i): i / 2 for a leaf, i >> (depth + 1) otherwise.
Offset(i) == IF i % 2 = 0 THEN i \div 2 ELSE i \div 2^(Depth(i) + 1)

\* Fault model for Parent: the offset is not halved (a node is its own
\* parent's sibling at the same offset).
ParentSameOffset(i) == Index(Depth(i) + 1, Offset(i))

\* parent(i) = index(depth + 1, offset >> 1)
Parent(i) == Index(Depth(i) + 1, Offset(i) \div 2)

\* Fault model for RightSpan: 2 << depth read as 1 << depth.
RightSpanShort(i) ==
    IF Depth(i) = 0 THEN i ELSE (Offset(i) + 1) * 2^Depth(i) - 2

\* right_span(i): the right-most leaf index covered by node i.
RightSpan(i) ==
    IF Depth(i) = 0 THEN i ELSE (Offset(i) + 1) * 2^(Depth(i) + 1) - 2

\* Fault model for LeftSpan: the leaf case taken for every depth.
LeftSpanAsIndex(i) == i

\* left_span(i): the left-most leaf index covered by node i.
LeftSpan(i) ==
    IF Depth(i) = 0 THEN i ELSE Offset(i) * 2^(Depth(i) + 1)

\* spans(i) = (left_span(i), right_span(i))
Spans(i) == <<LeftSpan(i), RightSpan(i)>>

\* count(i) = (2 << depth) - 1: the nodes of the subtree rooted at i.
Count(i) == 2^(Depth(i) + 1) - 1

\* left_child(i) / right_child(i), with Option as a sequence of at most one
\* element: None for a leaf (even index); a depth-0 odd index is
\* unreachable, kept as the code's Some(i).
LeftChild(i) ==
    IF i % 2 = 0 THEN <<>>
    ELSE IF Depth(i) = 0 THEN <<i>>
    ELSE <<Index(Depth(i) - 1, Offset(i) * 2)>>

RightChild(i) ==
    IF i % 2 = 0 THEN <<>>
    ELSE IF Depth(i) = 0 THEN <<i>>
    ELSE <<Index(Depth(i) - 1, Offset(i) * 2 + 1)>>

-----------------------------------------------------------------------------
(* Typed hashes (hash.rs).                                                 *)

\* Hash::from_leaf: LEAF_TYPE ++ u64(len) ++ data
LeafHash(data, len) == <<"leaf", len, data>>

\* Hash::from_hashes: PARENT_TYPE ++ u64(len) ++ left ++ right
ParentHash(left, right, len) == <<"parent", len, left, right>>

\* Hash::from_roots: ROOT_TYPE ++ for each root (u64(len) ++ hash)
RootsHash(roots) ==
    <<"roots", [k \in DOMAIN roots |-> <<roots[k].length, roots[k].hash>>]>>

-----------------------------------------------------------------------------
(* MerkleTreeStream (merkle_tree_stream/mod.rs) with the Node and hasher   *)
(* of merkle.rs.  A stream is a record [roots, blocks].                    *)

Node(index, hash, length) == [index |-> index, hash |-> hash, length |-> length]

\* H::parent: the parent node of two sibling roots.
ParentNode(left, right) ==
    Node(Parent(left.index),
         ParentHash(left.hash, right.hash, left.length + right.length),
         left.length + right.length)

\* Fault model for Merge: siblings are merged only once, not repeatedly.
MergeOnce(roots) ==
    IF /\ Len(roots) > 1
       /\ Parent(roots[Len(roots) - 1].index) = Parent(Last(roots).index)
    THEN Append(SubSeq(roots, 1, Len(roots) - 2),
                ParentNode(roots[Len(roots) - 1], Last(roots)))
    ELSE roots

\* The `while self.roots.len() > 1` loop of next(): while the last two
\* roots share a parent, pop both and push the parent.
RECURSIVE Merge(_)
Merge(roots) ==
    IF /\ Len(roots) > 1
       /\ Parent(roots[Len(roots) - 1].index) = Parent(Last(roots).index)
    THEN Merge(Append(SubSeq(roots, 1, Len(roots) - 2),
                      ParentNode(roots[Len(roots) - 1], Last(roots))))
    ELSE roots

\* MerkleTreeStream::new(handler, roots): blocks from the last root.
FromRoots(roots) ==
    [roots  |-> roots,
     blocks |-> IF roots = <<>> THEN 0 ELSE 1 + RightSpan(Last(roots).index) \div 2]

EmptyStream == FromRoots(<<>>)

\* Fault model for StreamNext: the block counter is not advanced.
StreamNextNoCount(s, hash, length) ==
    [roots  |-> Merge(Append(s.roots, Node(2 * s.blocks, hash, length))),
     blocks |-> s.blocks]

\* MerkleTreeStream::next(hash, length)
StreamNext(s, hash, length) ==
    [roots  |-> Merge(Append(s.roots, Node(2 * s.blocks, hash, length))),
     blocks |-> s.blocks + 1]

\* hash_merkle (core.rs): the roots hash the tree signature signs.
HashMerkle(s) == RootsHash(s.roots)

\* The stream after folding a sequence of leaves <<data, len>> into s.
StreamOf(s, leaves) ==
    FoldLeft(LAMBDA acc, l : StreamNext(acc, LeafHash(l[1], l[2]), l[2]),
             s, leaves)

=============================================================================
