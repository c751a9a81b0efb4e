----------------------------- MODULE ChannelMap -----------------------------
(***************************************************************************)
(* The channel table of one protocol endpoint (protocol/src/channels.rs)   *)
(* as operators on a value, so that a protocol model can hold one per      *)
(* peer.  A map is a record                                                *)
(*   [channels : [Keys -> ChannelHandle or NoChannel],                     *)
(*    local    : the local_id Vec, as a sequence,                          *)
(*    remote   : the remote_id Vec, as a sequence]                         *)
(* Vec index i is sequence position i + 1.  Channels are keyed by the      *)
(* public key; the discovery key is a function of it (discovery_key), so   *)
(* keying by either is the same map.                                       *)
(***************************************************************************)
EXTENDS Naturals, Sequences, FiniteSets

CONSTANTS
    None,        \* an empty Vec slot / an absent id (Option::None)
    NoChannel    \* no entry in the HashMap

\* Vec indexing with zero-based ids.
VecGet(v, i) == v[i + 1]
VecSet(v, i, x) == [v EXCEPT ![i + 1] = x]

\* ChannelMap::new(): local_id starts as vec![None] so ids start at 1.
NewChannelMap(Keys) ==
    [channels |-> [k \in Keys |-> NoChannel],
     local    |-> <<None>>,
     remote   |-> <<>>]

\* Fault model for AllocLocal: the skipped slot 0 is not skipped.
AllocLocalNoSkip(v) ==
    IF \E i \in 0..(Len(v) - 1) : VecGet(v, i) = None
    THEN CHOOSE i \in 0..(Len(v) - 1) :
             VecGet(v, i) = None /\ \A j \in 0..(i - 1) : VecGet(v, j) /= None
    ELSE Len(v)

\* alloc_local: `iter().skip(1).position(is_none)` -- the position within
\* the skipped iterator, i.e. one less than the free slot's index -- or,
\* with no free slot, push None and return the new last index.
AllocLocal(v) ==
    LET free == {i \in 1..(Len(v) - 1) : VecGet(v, i) = None} IN
    IF free /= {}
    THEN (CHOOSE i \in free : \A j \in free : i <= j) - 1
    ELSE Len(v)

\* Fault model for LocalAfterAlloc: the new slot is never pushed.
LocalAfterAllocNoPush(v) == v

\* The Vec after alloc_local (a push happens only when no slot was free).
LocalAfterAlloc(v) ==
    IF \E i \in 1..(Len(v) - 1) : VecGet(v, i) = None THEN v ELSE Append(v, None)

\* attach_local(key): allocate an id, attach it to the (new or existing)
\* handle, record key at local_id[id].
AttachLocal(m, k) ==
    LET id == AllocLocal(m.local)
        ch == IF m.channels[k] = NoChannel
              THEN [local |-> id, remote |-> None]
              ELSE [m.channels[k] EXCEPT !.local = id]
    IN  [m EXCEPT !.channels[k] = ch,
                  !.local = VecSet(LocalAfterAlloc(m.local), id, k)]

\* alloc_remote(id): clear slot id, or grow the Vec with None up to id.
AllocRemote(v, id) ==
    IF Len(v) > id THEN VecSet(v, id, None)
    ELSE v \o [i \in 1..(id + 1 - Len(v)) |-> None]

\* attach_remote(discovery_key, remote_id, capability)
AttachRemote(m, k, id) ==
    LET ch == IF m.channels[k] = NoChannel
              THEN [local |-> None, remote |-> id]
              ELSE [m.channels[k] EXCEPT !.remote = id]
    IN  [m EXCEPT !.channels[k] = ch,
                  !.remote = VecSet(AllocRemote(m.remote, id), id, k)]

\* get_local / get_remote: the key whose handle the id slot names, or None
\* when the slot is out of range, empty, or names a removed channel.
GetById(m, v, id) ==
    IF id < Len(v) /\ VecGet(v, id) /= None /\ m.channels[VecGet(v, id)] /= NoChannel
    THEN VecGet(v, id) ELSE None
GetLocal(m, id) == GetById(m, m.local, id)

\* Fault model for GetRemote: the lookup reads the local_id table.
GetRemoteByLocal(m, id) == GetById(m, m.local, id)

GetRemote(m, id) == GetById(m, m.remote, id)

\* ChannelHandle::is_connected
IsConnected(m, k) ==
    /\ m.channels[k] /= NoChannel
    /\ m.channels[k].local /= None
    /\ m.channels[k].remote /= None

\* remove(discovery_key): free the handle's id slots, drop the handle.
RemoveChannel(m, k) ==
    IF m.channels[k] = NoChannel THEN m
    ELSE LET ch == m.channels[k] IN
         [m EXCEPT
            !.local = IF ch.local = None THEN m.local ELSE VecSet(m.local, ch.local, None),
            !.remote = IF ch.remote = None THEN m.remote ELSE VecSet(m.remote, ch.remote, None),
            !.channels[k] = NoChannel]

=============================================================================
