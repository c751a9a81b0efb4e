----------------------------- MODULE StoreState -----------------------------
(***************************************************************************)
(* The byte image of the Merkle roots in the state store                   *)
(* (datacore/src/store_state.rs, Node::to_bytes/from_bytes in merkle.rs)   *)
(* over a RandomAccessMemory.  Integers are byteorder's little-endian      *)
(* encodings at their real widths; a 32-byte hash is one opaque element    *)
(* of the image, since the store only copies it.                           *)
(***************************************************************************)
EXTENDS Merkle, Memory, Naturals, Sequences, SequencesExt

U32 == 4
U64 == 8

\* NODE_SIZE = 2 * size_of::<u64>() + HASH_SIZE (the hash is one element).
NodeSize == 2 * U64 + 1

\* write_u32/write_u64::<LittleEndian>: w bytes, least significant first.
RECURSIVE WriteLE(_, _)
WriteLE(n, w) == IF w = 0 THEN <<>> ELSE <<n % 256>> \o WriteLE(n \div 256, w - 1)

\* read_u32/read_u64::<LittleEndian>
RECURSIVE ReadLE(_)
ReadLE(bytes) == IF bytes = <<>> THEN 0 ELSE Head(bytes) + 256 * ReadLE(Tail(bytes))

\* Node::to_bytes: index, length, then the hash bytes.
NodeToBytes(n) == WriteLE(n.index, U64) \o WriteLE(n.length, U64) \o <<n.hash>>

\* Node::from_bytes on a NODE_SIZE slice.
NodeFromBytes(b) ==
    [index  |-> ReadLE(SubSeq(b, 1, U64)),
     hash   |-> b[2 * U64 + 1],
     length |-> ReadLE(SubSeq(b, U64 + 1, 2 * U64))]

\* StoreState::write: the u32 root count and the roots' bytes, written at
\* offset 0 over whatever the store held.
StoreStateWrite(m, roots) ==
    RamWrite(m, 0, WriteLE(Len(roots), U32)
                   \o FlattenSeq([k \in DOMAIN roots |-> NodeToBytes(roots[k])]))

\* The `while start < data.len()` loop: one node per NODE_SIZE slice.
ParseRoots(data) ==
    [k \in 1..(Len(data) \div NodeSize) |->
        NodeFromBytes(SubSeq(data, (k - 1) * NodeSize + 1, k * NodeSize))]

\* Fault model for StoreStateRead: the roots are parsed up to the end of
\* the store instead of up to the count in the header.
StoreStateReadToEnd(m) ==
    LET header == RamRead(m, 0, U32) IN
    IF ~header.ok THEN [ok |-> TRUE, merkle |-> FromRoots(<<>>)]
    ELSE [ok |-> TRUE,
          merkle |-> FromRoots(ParseRoots(SubSeq(m, U32 + 1, Len(m))))]

\* StoreState::read: no header means no roots; otherwise read count nodes
\* after the header (a short store is an error) and rebuild the tree with
\* Merkle::from_roots.
StoreStateRead(m) ==
    LET header == RamRead(m, 0, U32)
        data   == RamRead(m, U32, ReadLE(header.bytes) * NodeSize)
    IN  IF ~header.ok THEN [ok |-> TRUE, merkle |-> FromRoots(<<>>)]
        ELSE IF ~data.ok THEN [ok |-> FALSE, merkle |-> FromRoots(<<>>)]
        ELSE [ok |-> TRUE, merkle |-> FromRoots(ParseRoots(data.bytes))]

=============================================================================
