-------------------------------- MODULE Core --------------------------------
(***************************************************************************)
(* The log engine of datacore (datacore/src/core.rs) over its three        *)
(* stores (store_data.rs, store_blocks.rs, store_state.rs) and a           *)
(* random-access backend whose writes are durable once they return         *)
(* (random-access-disk syncs every write).                                 *)
(*                                                                         *)
(* One task holds the core at a time (it sits behind an Arc<Mutex<_>>), so *)
(* an append runs to completion unless the process crashes or a storage    *)
(* write fails.  The append is split at its awaits: the signature and the  *)
(* in-memory Merkle update, the content and block-record writes that       *)
(* `zip` runs concurrently, and the state write.  A crash loses everything *)
(* in memory; Open is Core::new on the surviving stores.                   *)
(*                                                                         *)
(* Content is abstract: a content c of DataLen[c] bytes is stored as the   *)
(* bytes <<c, 1>>, ..., <<c, DataLen[c]>>.  Signatures are injective       *)
(* tuples <<"sig", key, message>>: only the holder of a key produces one.  *)
(***************************************************************************)
EXTENDS StoreState, Naturals, Sequences, FiniteSets

CONSTANTS
    Content,        \* contents a caller may append
    DataLen,        \* DataLen[c]: the byte length of content c
    Key,            \* the core's public key (its secret is held iff HasSecret)
    OtherKey,       \* a key some other writer signs with
    HasSecret,      \* Core::new was given the secret key
    MaxAppends,     \* bound on the leaves folded into the Merkle stream
    LengthBits,     \* width of `length` (u32 in the code)
    StorageFaults,  \* whether a backend write may fail
    Crashes,        \* whether the process may crash
    NoRecord,       \* a block-record slot never written
    NoAppend        \* no append in progress

ASSUME /\ DataLen \in [Content -> Nat \ {0}]
       /\ HasSecret \in BOOLEAN /\ StorageFaults \in BOOLEAN /\ Crashes \in BOOLEAN
       /\ MaxAppends \in Nat \ {0} /\ LengthBits \in Nat \ {0}
       /\ MaxAppends <= 2^LengthBits

Keys == {Key, OtherKey}

MaxDataLen == CHOOSE n \in {DataLen[c] : c \in Content} :
                  \A c \in Content : DataLen[c] <= n

\* Byte positions and block indices the bounded model can reach.
Offsets == 0..(MaxAppends * MaxDataLen - 1)
Indices == 0..(MaxAppends - 1)

ContentBytes(c) == [k \in 1..DataLen[c] |-> <<c, k>>]

Leaf(c) == LeafHash(c, DataLen[c])

\* The Merkle stream of a log of contents.
LogStream(cs) == StreamOf(EmptyStream, [k \in DOMAIN cs |-> <<cs[k], DataLen[cs[k]]>>])

\* keys.rs sign(): only the key holder produces Sign(key, msg).
Sign(k, msg) == <<"sig", k, msg>>

\* keys.rs verify()
Verify(pub, msg, sig) == sig = Sign(pub, msg)

\* Every block signature some writer (this one or another) can produce:
\* a data signature of some content and a tree signature of some log.
Logs == UNION {[1..n -> Content] : n \in 1..MaxAppends}
Signatures ==
    [data : {Sign(k, Leaf(c)) : k \in Keys, c \in Content},
     tree : {Sign(k, HashMerkle(LogStream(s))) : k \in Keys, s \in Logs}]

BlockRecords ==
    [offset : Offsets, length : {DataLen[c] : c \in Content}, sig : Signatures]

VARIABLES
    pc,           \* "idle", "write" (awaiting the zip), "state", or "down"
    merkle,       \* Core.merkle, in memory
    length,       \* Core.length, in memory
    byteLength,   \* Core.byte_length, in memory
    dataStore,    \* content store: its bytes (Memory.tla)
    blockStore,   \* block-record store: its bytes, BlockLength per record
    stateStore,   \* state store: its bytes (StoreState.tla)
    pending,      \* the append in progress: [index, data, block]
    wres,         \* outcome of the two concurrent writes of `zip`
    appended      \* history: contents whose append returned Ok

memory == <<pc, merkle, length, byteLength, pending, wres>>
stores == <<dataStore, blockStore, stateStore>>
vars == <<memory, stores, appended>>

NoWrites == [data |-> "none", block |-> "none"]

Init ==
    /\ pc = "idle"
    /\ merkle = EmptyStream
    /\ length = 0
    /\ byteLength = 0
    /\ dataStore = EmptyMemory
    /\ blockStore = EmptyMemory
    /\ stateStore = EmptyMemory
    /\ pending = NoAppend
    /\ wres = NoWrites
    /\ appended = <<>>

-----------------------------------------------------------------------------
(* Reads (Core::get through StoreBlocks::read and StoreData::read).        *)

\* BLOCK_LENGTH: u64 offset, u32 length, data and tree signatures (each
\* signature is one element of the image, as a hash is in StoreState).
BlockLength == U64 + U32 + 2

\* Block::to_bytes
BlockToBytes(b) ==
    WriteLE(b.offset, U64) \o WriteLE(b.length, U32) \o <<b.sig.data, b.sig.tree>>

\* Block::from_bytes
BlockFromBytes(d) ==
    [offset |-> ReadLE(SubSeq(d, 1, U64)),
     length |-> ReadLE(SubSeq(d, U64 + 1, U64 + U32)),
     sig    |-> [data |-> d[U64 + U32 + 1], tree |-> d[U64 + U32 + 2]]]

\* StoreBlocks::read(index): the record at index * BLOCK_LENGTH, or an
\* error (NoRecord) when that range lies past the store's end.
StoreBlocksRead(bs, i) ==
    LET r == RamRead(bs, i * BlockLength, BlockLength) IN
    IF r.ok THEN BlockFromBytes(r.bytes) ELSE NoRecord

\* StoreData::read(block): the bytes of the block's span, or an error when
\* the span reaches past the content store's end.
StoreDataRead(ds, b) ==
    LET r == RamRead(ds, b.offset, b.length) IN
    IF r.ok THEN r.bytes ELSE "error"

\* Core::get(index) below the length: read the record, then its content;
\* either read failing is an error ("error").  The stores are parameters so
\* that a property can read them in the next state as well.
ReadBlock(ds, bs, i) ==
    LET b == StoreBlocksRead(bs, i) IN
    IF b = NoRecord THEN "error" ELSE StoreDataRead(ds, b)

-----------------------------------------------------------------------------
(* Append (Core::append).                                                  *)

\* Fault model for NewBlock: the content offset taken from the block index.
NewBlockAtIndex(c, sig) == [offset |-> length, length |-> DataLen[c], sig |-> sig]

\* Block::new(self.byte_length, data_length, signature)
NewBlock(c, sig) == [offset |-> byteLength, length |-> DataLen[c], sig |-> sig]

\* Both branches of append end here: build the block and start the zip.
StartWrites(c, sig) ==
    /\ pending' = [index |-> length, data |-> c, block |-> NewBlock(c, sig)]
    /\ wres' = [data |-> "pending", block |-> "pending"]
    /\ pc' = "write"
    /\ UNCHANGED <<length, byteLength, stores, appended>>

\* Fault model for the signing branch: the tree is signed before the new
\* leaf is folded into it.
AppendSignBeforeNext(c) ==
    /\ pc = "idle"
    /\ merkle.blocks < MaxAppends
    /\ HasSecret
    /\ merkle' = StreamNext(merkle, Leaf(c), DataLen[c])
    /\ StartWrites(c, [data |-> Sign(Key, Leaf(c)),
                       tree |-> Sign(Key, HashMerkle(merkle))])

\* append(data, None): sign the leaf, advance the Merkle stream in place,
\* sign its roots.  Without a secret key append bails before any change.
AppendSign(c) ==
    /\ pc = "idle"
    /\ merkle.blocks < MaxAppends
    /\ HasSecret
    /\ LET m == StreamNext(merkle, Leaf(c), DataLen[c]) IN
       /\ merkle' = m
       /\ StartWrites(c, [data |-> Sign(Key, Leaf(c)),
                          tree |-> Sign(Key, HashMerkle(m))])

\* Fault model for TreeSigOk: the tree signature is not checked.
TreeSigAccepted(m, sig) == TRUE

\* verify(public_key, hash_merkle(&merkle), signature.tree())
TreeSigOk(m, sig) == Verify(Key, HashMerkle(m), sig.tree)

\* append(data, Some(signature)): verify the data signature, advance a clone
\* of the stream, verify the tree signature against the clone, commit the
\* clone.  A failed verification returns an error and changes nothing.
AppendVerify(c, sig) ==
    /\ pc = "idle"
    /\ merkle.blocks < MaxAppends
    /\ Verify(Key, Leaf(c), sig.data)
    /\ LET m == StreamNext(merkle, Leaf(c), DataLen[c]) IN
       /\ TreeSigOk(m, sig)
       /\ merkle' = m
       /\ StartWrites(c, sig)

\* self.data.write(&block, &data): the content bytes at block.offset.
WriteData ==
    /\ pc = "write"
    /\ wres.data = "pending"
    /\ LET b == pending.block IN
       \/ /\ dataStore' = RamWrite(dataStore, b.offset, ContentBytes(pending.data))
          /\ wres' = [wres EXCEPT !.data = "ok"]
       \/ /\ StorageFaults
          /\ wres' = [wres EXCEPT !.data = "fail"]
          /\ UNCHANGED dataStore
    /\ UNCHANGED <<pc, merkle, length, byteLength, pending, blockStore,
                   stateStore, appended>>

\* self.blocks.write(index, &block): the record at index * BLOCK_LENGTH.
WriteBlock ==
    /\ pc = "write"
    /\ wres.block = "pending"
    /\ \/ /\ blockStore' = RamWrite(blockStore, pending.index * BlockLength,
                                     BlockToBytes(pending.block))
          /\ wres' = [wres EXCEPT !.block = "ok"]
       \/ /\ StorageFaults
          /\ wres' = [wres EXCEPT !.block = "fail"]
          /\ UNCHANGED blockStore
    /\ UNCHANGED <<pc, merkle, length, byteLength, pending, dataStore,
                   stateStore, appended>>

\* Fault model for WritesDone: the join waits for the content write only.
WritesDoneDataOnly(w) == w.data \in {"ok", "fail"}

\* zip(...).await: both writes have completed.
WritesDone(w) == w.data \in {"ok", "fail"} /\ w.block \in {"ok", "fail"}

\* `d?; b?`: continue to the state write only if both writes succeeded;
\* otherwise return the error.  The Merkle stream is NOT rolled back.
JoinWrites ==
    /\ pc = "write"
    /\ WritesDone(wres)
    /\ IF wres.data = "ok" /\ wres.block = "ok"
       THEN /\ pc' = "state"
            /\ UNCHANGED <<pending, wres>>
       ELSE /\ pc' = "idle"
            /\ pending' = NoAppend
            /\ wres' = NoWrites
    /\ UNCHANGED <<merkle, length, byteLength, stores, appended>>

\* self.state.write(&self.merkle)?; then byte_length and length advance.
WriteState ==
    /\ pc = "state"
    /\ \/ /\ stateStore' = StoreStateWrite(stateStore, merkle.roots)
          /\ byteLength' = byteLength + pending.block.length
          /\ length' = (length + 1) % 2^LengthBits
          /\ appended' = Append(appended, pending.data)
       \/ /\ StorageFaults
          /\ UNCHANGED <<stateStore, byteLength, length, appended>>
    /\ pc' = "idle"
    /\ pending' = NoAppend
    /\ wres' = NoWrites
    /\ UNCHANGED <<merkle, dataStore, blockStore>>

-----------------------------------------------------------------------------
(* Crash and reopen (Core::new).                                           *)

\* The process dies: everything in memory is lost.
LoseMemory ==
    /\ pc' = "down"
    /\ merkle' = EmptyStream
    /\ length' = 0
    /\ byteLength' = 0
    /\ pending' = NoAppend
    /\ wres' = NoWrites

\* A crash between two awaits: the stores survive as they are.
Crash ==
    /\ Crashes
    /\ pc /= "down"
    /\ LoseMemory
    /\ UNCHANGED <<stores, appended>>

\* How much of a write of n bytes a crash may leave: part of it while the
\* write is under way (the whole of it is WriteData/WriteBlock then Crash).
TornLengths(w, n) == IF w = "pending" THEN 0..(n - 1) ELSE {0}

\* A crash inside the zip, while write_all of the content and/or of the
\* block record is under way on random-access-disk: each file keeps a
\* prefix of its bytes (DiskWritePrefix).  The state store is not written
\* yet.
CrashInWrites ==
    /\ Crashes
    /\ pc = "write"
    /\ \E kd \in TornLengths(wres.data, DataLen[pending.data]),
          kb \in TornLengths(wres.block, BlockLength) :
          /\ kd + kb > 0
          /\ dataStore' = DiskWritePrefix(dataStore, pending.block.offset,
                                           ContentBytes(pending.data), kd)
          /\ blockStore' = DiskWritePrefix(blockStore, pending.index * BlockLength,
                                            BlockToBytes(pending.block), kb)
    /\ LoseMemory
    /\ UNCHANGED <<stateStore, appended>>

\* Fault model for RecoveredByteLength: the last block's length is dropped.
RecoveredByteLengthOffsetOnly(n) ==
    IF n = 0 THEN 0 ELSE StoreBlocksRead(blockStore, n - 1).offset

\* byte_length = last block's offset + length, or 0 for an empty core.
RecoveredByteLength(n) ==
    IF n = 0 THEN 0
    ELSE LET last == StoreBlocksRead(blockStore, n - 1) IN last.offset + last.length

\* Core::new: read the roots (an empty state store reads as no roots),
\* length = merkle.blocks() as u32, then read block n - 1.  If either read
\* fails, Core::new fails and the core stays closed.
Open ==
    /\ pc = "down"
    /\ LET r == StoreStateRead(stateStore)
           m == r.merkle
           n == m.blocks % 2^LengthBits
       IN  /\ r.ok
           /\ n /= 0 => StoreBlocksRead(blockStore, n - 1) /= NoRecord
           /\ merkle' = m
           /\ length' = n
           /\ byteLength' = RecoveredByteLength(n)
    /\ pc' = "idle"
    /\ UNCHANGED <<pending, wres, stores, appended>>

-----------------------------------------------------------------------------

Next ==
    \/ \E c \in Content : AppendSign(c)
    \/ \E c \in Content, sig \in Signatures : AppendVerify(c, sig)
    \/ WriteData
    \/ WriteBlock
    \/ JoinWrites
    \/ WriteState
    \/ Crash
    \/ CrashInWrites
    \/ Open

Spec == Init /\ [][Next]_vars

-----------------------------------------------------------------------------
(* Properties.                                                             *)

TypeOK ==
    /\ pc \in {"idle", "write", "state", "down"}
    /\ merkle.blocks \in 0..MaxAppends
    /\ length \in 0..(2^LengthBits - 1)
    /\ byteLength \in 0..(MaxAppends * MaxDataLen)
    /\ Len(dataStore) \in 0..(MaxAppends * MaxDataLen)
    /\ Len(blockStore) \in 0..(MaxAppends * BlockLength)
    /\ \A i \in 0..(Len(blockStore) \div BlockLength - 1) :
          StoreBlocksRead(blockStore, i) \in BlockRecords
    /\ pending \in {NoAppend} \cup
                   [index : Indices, data : Content, block : BlockRecords]
    /\ wres \in [data : {"none", "pending", "ok", "fail"},
                 block : {"none", "pending", "ok", "fail"}]
    /\ appended \in Seq(Content)

\* Whenever no append is in flight, get(i) returns the bytes of the i-th
\* successful append for every i < length, and length counts exactly the
\* successful appends (Core::get after Core::append, across reopen).
GetReturnsAppended ==
    pc = "idle" =>
        /\ length = Len(appended)
        /\ \A i \in 0..(length - 1) :
              ReadBlock(dataStore, blockStore, i) = ContentBytes(appended[i + 1])

\* Spec section 8: the tree signature stored with block i verifies, under
\* the core's key, against the roots of the tree of blocks 0..i, the
\* successful appends (block.rs signature, checked by append's verify path).
TreeSignatureBinding ==
    \A i \in 0..(Len(appended) - 1) :
        /\ StoreBlocksRead(blockStore, i) /= NoRecord
        /\ Verify(Key, HashMerkle(LogStream(SubSeq(appended, 1, i + 1))),
                  StoreBlocksRead(blockStore, i).sig.tree)

\* At every instant, a crash followed by Core::new would recover exactly the
\* successful appends: the persisted roots are the tree of those appends
\* and every block they cover reads back its content (the write order of
\* append: content and record first, state last).
RecoveryConsistent ==
    LET r == StoreStateRead(stateStore) IN
    /\ r.ok /\ r.merkle = LogStream(appended)
    /\ \A i \in 0..(r.merkle.blocks - 1) :
          ReadBlock(dataStore, blockStore, i) = ContentBytes(appended[i + 1])

\* The content a stored block decodes to.
Decode(bytes) ==
    IF \E c \in Content : ContentBytes(c) = bytes
    THEN CHOOSE c \in Content : ContentBytes(c) = bytes
    ELSE "corrupt"

\* The log a set of stores holds: the blocks the persisted roots cover.
DurableLogOf(ds, bs, ss) ==
    LET n == StoreStateRead(ss).merkle.blocks IN
    [k \in 1..n |-> Decode(ReadBlock(ds, bs, k - 1))]

DurableLog == DurableLogOf(dataStore, blockStore, stateStore)

AbsLog == INSTANCE AppendOnlyLog WITH log <- DurableLog

\* The durable contents of a core behave as an append-only log (spec
\* section 1): every step of append, crash, torn write and reopen either
\* leaves them unchanged or adds one entry at the end.  This is AbsLog!Spec
\* with DurableLog' written as the mapping of the next stores, which TLC
\* evaluates far faster than the primed mapping.
AppendOnlyRefinement ==
    /\ AbsLog!Init
    /\ [][LET next == DurableLogOf(dataStore', blockStore', stateStore') IN
          next = DurableLog \/ AbsLog!AppendStep(DurableLog, next)]_stores

=============================================================================
