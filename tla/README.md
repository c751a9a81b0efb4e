# TLA+ models of libdata

These modules model the parts of libdata that make it hard to get right:

- the Merkle tree stream that signs an append-only log;
- the core that writes each block to three stores and recovers from them;
- the channel table and frame writer of the multiplexed protocol;
- the byte-level frame writer and reader, with varint length prefixes, buffer growth and the keepalive;
- the replication loop that pulls a log from one peer to the other.

Each module is translated from the Rust source under `src/`. `PROJECT.json` maps every definition that models code to the lines it stands for. It also lists the runs, the mutants that show each property can fail, the findings, and the hazards.

## The system and how its parts interact

```
 application ──ReplicationHandle (commands)──► Replication::run (libdata/src/replication)
                                                  │ CoreReplica per key: on_open / on_request / on_data / on_close
                                                  │        │
                                                  │        ▼
                                                  │      Core (datacore/src/core.rs)
                                                  │        ├─ Merkle / MerkleTreeStream / flat_tree
                                                  │        └─ StoreData, StoreBlocks, StoreState ─► RandomAccess
                                                  ▼
                                           Protocol (protocol/src/protocol/main.rs)
                                                  ├─ ChannelMap (channels.rs)
                                                  ├─ WriteState (io/writer.rs): queue + parked frame
                                                  └─ ReadState  (io/reader.rs): framing, keepalive
```

**Core.**
- `Core::append` signs (or verifies) the leaf hash and the hash of the Merkle roots.
- It then writes the content and the block record concurrently (`zip`), and writes the roots last.
- `Core::new` rebuilds `length` and `byte_length` from the stored roots and the last block record.

**Protocol.**
- Each endpoint keys channels by the log's public key.
- Each channel gets a local id (`alloc_local`), which is announced in an Open frame.
- The remote's id is learnt from its Open frame (`attach_remote`).
- A channel is connected once both ids exist.
- Open frames go through the writer's queue. Requests, data and closes go through `outbound_tx`, and `poll_outbound_write` parks them as the writer's current frame.

**Replication.**
- Each endpoint runs the `run()` loop.
- `Command::Open` inserts the replica and calls `Protocol::open`; `Event::Open` is queued at whichever end connects last (`open` or `on_open`). A message that arrives before its sender's Open frame is dropped (`get_remote` finds no channel).
- `Event::Open` makes the replica request the block at its length.
- A request is answered with Data, or, when the remote is ahead, with a request for our length.
- Data at our length is appended through `Core::append` with the received signature, and the next block is requested.
- After a live append, the writer's application sends `Command::ReOpen` to request again.
- The keepalive timeout ends the run, and `on_close` reports an error if the remote advertised more blocks than we hold.

## Modules

| Module | Models | State / actions |
|---|---|---|
| `Merkle` | `flat_tree.rs`, `merkle_tree_stream/mod.rs`, `hash.rs`, `merkle.rs` | Pure operators. The flat-tree index arithmetic (`Depth`, `Offset`, `Parent`, `LeftSpan`, `RightSpan`, `Spans`, `Count`, `LeftChild`, `RightChild`). Hashes as injective tuples (`LeafHash`, `ParentHash`, `RootsHash`). `StreamNext` with its RECURSIVE root merge, `FromRoots`, and `HashMerkle`. |
| `Memory` | `random-access-memory/src/lib.rs` | Pure operators on a byte sequence: `RamWrite` (zero-fills a gap, overwrites in place, grows the length) and `RamRead` (fails past the end). The paging is left out: it does not change what a read returns. `DiskWritePrefix` is `RandomAccessDisk::write` cut short by a crash inside `write_all`: the file keeps a prefix of the bytes. |
| `StoreState` | `store_state.rs`, `merkle.rs` | Little-endian integers at their real widths (`WriteLE`, `ReadLE`), `Node::to_bytes`/`from_bytes` (17 bytes: u64 index, u64 length, hash), `StoreStateWrite` (u32 count, then the nodes, written at offset 0) and `StoreStateRead` (a missing header is an empty tree; a short body is an error). A hash is one opaque element of the byte image. |
| `AppendOnlyLog` | spec section 1 | Abstract spec: a log that only grows at its end. |
| `Core` | `core.rs`, `keys.rs`, `block.rs`, `store_*.rs` | Variables: `pc` (idle / write / state / down), `merkle`, `length`, `byteLength`, and the three stores (`dataStore`, `blockStore`, `stateStore`), each the byte image of a `RandomAccessMemory`. Block records are 14 bytes (u64 offset, u32 length, the two signatures as opaque elements), read back by `StoreBlocksRead` and `ReadBlock`. Actions: `AppendSign`, `AppendVerify`, `WriteData`, `WriteBlock`, `JoinWrites` (`d?; b?`), `WriteState`, `Crash` (between two awaits), `CrashInWrites` (a crash inside the zip, leaving a torn prefix of the content and/or block record on a disk store), and `Open` (`Core::new`). The ghost `appended` records the appends that returned Ok. |
| `ChannelMap` | `channels.rs` | The table as a record value: `AttachLocal`, `AttachRemote`, `AllocLocal`, `AllocRemote`, `GetLocal`, `GetRemote`, `RemoveChannel`, `IsConnected`. |
| `Protocol` | `protocol/main.rs`, `io/writer.rs`, `io/mod.rs` | Two endpoints. Application calls: `Open` and `Send` (data or close). Writer: `Park` (`poll_outbound_write` + `on_outbound_message`), `Encode` (Step::Processing), `Write` (Writing + Flushing). Reader: `Receive`, dispatching to `OnOpen`, `OnClose` and `OnMessage`. The ghosts `wire`, `issued` and `events` are histories. |
| `Framing` | `io/writer.rs`, `io/reader.rs`, `message.rs` | One direction of a connection at byte level. Writer variables mirror `WriteState`: `queue`, `current`, the live range `wbuf` with `wstart`/`wend`, the buffer length `wsize`, and `wstep`. Reader variables mirror `ReadState`: `rbuf`, `rstart`/`rend`, `rsize`, and `rstep` (Header or Body). The stream `net` holds bytes written and not yet read. Actions: `QueueFrame`, `Processing` (with `try_queue_direct`), `Writing(n)`, `Flushing`, `Process` (`process()`, header and body steps), `Read(n)`, and `ReadTimeout` (poll_read Pending or `Ok(0)` with the keepalive expired). With `Noise`, the writer is the handshake initiator: `QueueFrameDirect` encodes messages 1 and 3 straight into its buffer (`init`, `on_handshake_message`). Until `Establish` (`check_handshake_complete` and `Protocol::new`), the reader is in the handshake stage (`rstage`), and frames it cuts out go to the handshake (`FrameAccepted`). Varint encode and decode are RECURSIVE operators. The frames are `Frames`: raw handshake frames and channel messages, encoded by `FrameEncode` (header `channel << 4 \| type`, payload bytes, the size check of `encode`) and decoded by `FrameDecode`/`ChannelMessageDecode` (empty body, unknown type). |
| `Replication` | `replication.rs`, `core_replica.rs`, `handle.rs` | Two run() loops for one key, composed with the channel set-up of `protocol/main.rs`. Variables `replica` (the replicas map), `chan` (local/remote ids of the handle), `openSent` (an Open frame on its way) and `openEvent` (Event::Open queued). The Open frame is delivered independently of the message queue, since a parked message may overtake it (the `protocol_fifo` finding) or trail it. Actions: `HandleCommandOpen` (`Command::Open` + `Protocol::open`), `ReceiveOpen` (`on_open`), `HandleOpen`, `HandleRequest`, `HandleData`, `HandleReOpen`, `WriterAppend` (append + `reopen`), and `Timeout` (`poll_next` Err → `on_close`). `IterPoll` is `CoreIterator::poll_next` over the replica core, polled while the replica appends; it reaches the skip after `None` (a hazard), and no property constrains its items. A core is abstracted to its log. A Data message's tree signature is modelled as the prefix it binds, which is what `Core` checks. |

Each `MC*` module fixes the model values and small constant functions for a configuration.

## Runs

| Run | Expect | What it shows |
|---|---|---|
| `merkle` | pass | For every sequence of up to 8 leaves, of 2 contents and 2 lengths: incremental merging equals the reference tree, whose hashes are recomputed by descending through `left_child`/`right_child` and whose lengths are summed over `spans` (`StreamMatchesReference`); the state store written after each append reads back to exactly the stream, though shorter root lists leave stale bytes behind (`StateStoreRecovers`); the roots partition the leaves (`RootsPartitionLeaves`). |
| `core_crash` | pass | A crash at any point of append, including inside the concurrent content and block writes (a torn prefix of either on disk), followed by `Core::new`: a reopened core returns exactly the successful appends (`GetReturnsAppended`); the stored tree signatures bind the prefixes (`TreeSignatureBinding`); the stores always recover to the appended log (`RecoveryConsistent`); the durable log refines `AppendOnlyLog` (`AppendOnlyRefinement`: `AbsLog!Init` and the step `AbsLog!AppendStep` under the mapping `log <- DurableLog`, with the next state's log computed from the primed stores, which TLC evaluates much faster than a primed mapping). |
| `core_storage_fault` | violation | A failed block write leaves the Merkle stream advanced. The next append signs a tree with a ghost leaf, so `TreeSignatureBinding` fails. |
| `protocol_safety` | pass | Opens, sends and closes of both endpoints, 3 calls for `a` and 2 for `b`: the writer keeps the open stream and the message stream each lossless and in order (`WriterKeepsEachStream`); messages are delivered on their channel (`MessageOnItsChannel`). Every frame an application call produces is eventually written and read by the other endpoint (`EveryFrameDelivered`, a liveness property): `poll_outbound_write` parks the next outbound message whenever `poll_send` has returned. |
| `protocol_unencrypted` | violation | With noise disabled, both endpoints open a key; the end that connects runs `verify_remote_capability`, which fails without a handshake result, so `Event::Open` never comes (`BothOpenEventuallyConnected`), although spec 4.5 says verification is skipped without noise. |
| `protocol_fifo` | violation | A parked Request/Data is written before the queued Open of its channel (`ChannelFifo`). |
| `protocol_realloc` | violation | Close and reopen: `alloc_local` reuses a live id, and the remote delivers one channel's data as another's (`MessageOnItsChannel`). |
| `framing` | pass | An XX handshake (two 1-byte messages, 2-byte frames), then three channel messages of 3, 4 and 2 bytes on two channels, through a 3-byte write buffer and a 5-byte read buffer, with writes and reads split anywhere. `poll_reader` returns exactly the queued frames, decoded, in order (`ReaderYieldsSentFrames`). No byte is lost, duplicated or reordered between the writer's buffer, the stream and the reader's buffer (`StreamConserved`). |
| `framing_bufend` | violation | A frame ending exactly at the end of the read buffer leaves `end = buf.len()` uncycled. The next `poll_read` gets an empty slice, and its `Ok(0)` is treated as Pending, so the keepalive fails the read while bytes are waiting (`TimeoutOnlyWhenSilent`). |
| `framing_splithdr` | violation | A read that ends between the two bytes of a varint header makes `varinteger::decode` index past the unread range and panic (`ReaderYieldsSentFrames`). |
| `framing_handshake` | violation | The writer's first channel message arrives in the same reads as handshake message 3. The reader's handshake stage reads until Pending and gives that message to the already complete handshake (`HandshakeOnlyHandshakeFrames`). |
| `replication` | pass | With the writer appending twice while replicating, both ends sending `Command::Open` in any order and each Open frame arriving before or after the messages that follow it, no run ends in error (`RunEndsOk`) and the replica eventually holds the writer's log (`EventuallySynced`). The `remote_index` each end keeps never exceeds the other end's length, so `on_close`'s "Not synced" error is never spurious (`RemoteIndexNotAhead`). |

Every property of a passing run has a mutant in `PROJECT.json`: a plausible bug in the mapped code under which TLC finds the property violated.

## Bounds and why they are enough

- **Merkle.** 8 leaves reach trees of depth 3 with up to 4 roots, and the leaf sequences cover every merge shape up to that size.
- **Core.**
  - Contents of 1 and 2 bytes reach unequal block offsets, so an offset or length mix-up shows. The crash run allows 5 appends (23,039 states, under a minute): the tree then passes through one, two and three roots and back to one (4 leaves) and to two roots of different depths (5 leaves), so `Core::new` rebuilds the length from a last root that is a leaf and from one that spans 4 blocks. The storage-fault run keeps 3 appends, enough for the divergence it shows.
  - A crash is possible at each of the four steps of an append.
  - A crash inside the zip may leave any proper prefix (0 to n-1 bytes) of each pending write, both at once, so every torn length of a 1- or 2-byte content and of a 14-byte record is reached.
  - `LengthBits` (the width of `length`) is 3 in the pass runs: `length` reaches at most 5 of its 8 values, so it never wraps (the wrap is a hazard without a run).
  - Store write failures (`StorageFaults`) are enabled only in the `core_storage_fault` run; with them the stores and the in-memory tree diverge, which that run shows.
- **Protocol.**
  - 2 keys give two channels, so ids can collide.
  - 3 calls for peer `a` are enough to open, send and close.
  - The realloc run gives peer `a` 5 calls (open k1, open k2, close k2, reopen k2, send on k1), the shortest sequence that reuses a live id. Its constraint `BOpensFirst` lets peer `b` only open channels, and before `a` starts, as a passive replica does.
  - Key symmetry is used in the violation runs, whose properties are invariants that treat keys alike. `protocol_safety` checks a liveness property, which symmetry would make unsound, so it runs without symmetry and with 3 calls for `a` and 2 for `b` (98,179 states): enough for an open, a send or close, and a reopen on one side against two opens on the other.
- **Framing.**
  - Varint bytes carry fewer payload bits than 7 (`VarintBits`: 5 in the pass run, 3 or 2 in the violation runs), so small bodies already take a two-byte header, as bodies of 128 bytes or more do in the code.
  - A 3-byte write buffer and a 5-byte read buffer (instead of 64 KiB and 128 KiB), with encoded frames of 2 to 4 bytes, reach a frame larger than the write buffer, a frame straddling the read buffer's end, and a frame ending exactly at it. In the pass run every frame is delivered; a read buffer of 3 would stall every run at the buffer end (the `framing_bufend` finding) before the last frames.
  - Channel ids 1 and 2 and message types 0 to 3 are enough for the header arithmetic to tell frames apart.
  - Writes and reads take any number of the available bytes.
- **Replication.** An initial log of 1 block and `MaxLen` 3 give two live appends, so requests, data and ReOpen race. The iterator starts at 0 on the empty replica and may be polled up to index `MaxLen`, so it reads both before and after blocks arrive. `MaxCoreLength` (MAX_CORE_LENGTH, `u32::MAX` in the code) is 4, above `MaxLen`: with it equal to `MaxLen` a full core's request fails `Core::get` at the other end and ends its run (listed as a hazard). With `MaxLen` 4 and `MaxCoreLength` 5 the same properties also hold (1.4 million states, about 3 minutes), too slow for the regular run.

## Fairness

- **Protocol.** Weak fairness on `Park`, `Encode`, `Write` and `Receive` of each endpoint. The task owning a `Protocol` polls it in every iteration of the replication loop (`poll_next` polls both the inbound read and the outbound write), and the stream delivers what was flushed. `EveryFrameDelivered` rests on this fairness and on nothing else.
- **Replication.** Weak fairness on `HandleCommandOpen`, `ReceiveOpen`, `HandleOpen`, `HandleRequest`, `HandleData` and `HandleReOpen`. The `run()` loop awaits `next()` forever and handles every command and event it returns.
- **Framing.** No fairness is assumed. The properties are safety properties and the violations are finite traces.
- **Not fair.** The application's calls, the writer's appends, the iterator's polls, crashes and the timeout are not fair: they may never happen.

## Not modelled

- **Noise handshake and cipher.** These are cryptography, and `noise/handshake.rs` and `noise/cipher.rs` are not in the repository. In `Protocol`, the handshake is reduced to whether a handshake result exists (`Noise`, for `Options.noise`). In `Framing`, it is reduced to the count of XX messages (`HandshakeRead`, modelled from spec section 4.5), and the reverse direction (message 2) is a guard on the writer. Bytes are plaintext, so a header decoded before the cipher upgrade is not distinguished (listed as a hazard). The configuration without noise is checked by `protocol_unencrypted`. No pass run checks `BothOpenEventuallyConnected` with noise on: under the `protocol_safety` bounds TLC finds it violated by a close and reopen, because `alloc_local` then hands out id 0 and the remote drops the Open frame on that channel as stream-level (part of the `protocol_realloc` finding). `replication` checks that both ends connect for one key, as part of `EventuallySynced`.
- **Byte level in `Protocol`.** `Protocol` delivers frames as whole records; the byte level is checked separately in `Framing`, for one direction and without the cipher (which is applied in place and does not change lengths). The Protobuf payloads are taken as exact.
- **Hashes and signatures.** Serialized blocks and roots keep their layout and integer widths, but a hash or a signature is one opaque element of the byte image, not 32 or 64 bytes.
- **Storage backends.** `random-access-disk` has the same read contract as `RandomAccessMemory`. Its write can be torn by a crash; `CrashInWrites` tears the content and block writes. The state store's write is taken as atomic: at these bounds the roots fit one disk sector. A torn state write is listed as a hazard without a property.
- **Replication commands and other components.** `Command::Close` and `Command::Quit` are not modelled: neither the library's tests nor the wasm bindings send them, and both end replication by design with an error when the replica is behind, which is `on_close` (modelled) again. Several keys in one replication, the `Cores` registry and the wasm bindings are not modelled. `CoreIterator` returns `None` at the core's end and then moves its read task to the next index; a consumer polling again after `None` over a live core skips a block (listed as a hazard: the `Stream` contract leaves that case unspecified).
