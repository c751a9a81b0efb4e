------------------------------ MODULE Protocol ------------------------------
(***************************************************************************)
(* Two endpoints of the multiplexed protocol (protocol/src/protocol/       *)
(* main.rs) after the handshake, each with its channel table              *)
(* (ChannelMap.tla) and its frame writer (protocol/src/io/writer.rs),      *)
(* joined by a reliable in-order byte stream (TCP).                        *)
(*                                                                         *)
(* The application of each endpoint calls open, data/request and close in  *)
(* any order; those calls and the steps of poll_next interleave as the     *)
(* single task owning the protocol runs them.  Request and Data are both   *)
(* a "data" frame here: the protocol treats them alike.  A data frame      *)
(* records the key it was sent for and a sequence number; the receiver     *)
(* dispatches on the channel id only, and the two fields are there for     *)
(* the properties.  Frames are written whole; the write buffer is the      *)
(* sequence of frames encoded but not yet written to the stream.           *)
(***************************************************************************)
EXTENDS ChannelMap, Naturals, Sequences, SequencesExt

CONSTANTS
    Peers,       \* the two endpoints
    Keys,        \* public keys of the logs the endpoints may open
    MaxCalls,    \* MaxCalls[p]: bound on the application calls of endpoint p
    Closes,      \* whether the application may close channels
    Noise        \* Options.noise: the handshake runs, so a handshake result is present

ASSUME Cardinality(Peers) = 2 /\ Closes \in BOOLEAN /\ Noise \in BOOLEAN

Other(p) == CHOOSE q \in Peers : q /= p

VARIABLES
    cmap,        \* cmap[p]: the ChannelMap of p
    wq,          \* wq[p]: write_state.queue (frames queued by open)
    parked,      \* parked[p]: write_state.current_frame, or None
    buf,         \* buf[p]: frames encoded into the write buffer, unwritten
    step,        \* step[p]: the writer's Step ("processing" or "writing")
    outbound,    \* outbound[p]: the outbound_tx channel (data and close)
    wire,        \* wire[p]: every frame p has written to the stream
    rcvd,        \* rcvd[p]: how many frames of the other's wire p has read
    events,      \* events[p]: the events p's poll_next has queued
    issued,      \* issued[p]: frames p's application calls produced, in order
    failed       \* failed[p]: an open or on_open returned an error

vars == <<cmap, wq, parked, buf, step, outbound, wire, rcvd, events, issued, failed>>

Frame(ch, type, k, n) == [ch |-> ch, type |-> type, key |-> k, n |-> n]

Init ==
    /\ cmap = [p \in Peers |-> NewChannelMap(Keys)]
    /\ wq = [p \in Peers |-> <<>>]
    /\ parked = [p \in Peers |-> None]
    /\ buf = [p \in Peers |-> <<>>]
    /\ step = [p \in Peers |-> "processing"]
    /\ outbound = [p \in Peers |-> <<>>]
    /\ wire = [p \in Peers |-> <<>>]
    /\ rcvd = [p \in Peers |-> 0]
    /\ events = [p \in Peers |-> <<>>]
    /\ issued = [p \in Peers |-> <<>>]
    /\ failed = [p \in Peers |-> FALSE]

\* verify_remote_capability: with a handshake result the honest peer's
\* capability verifies; without one the call returns PermissionDenied.
CapabilityOk == Noise

Event(type, k) == [type |-> type, key |-> k, frame |-> None]

-----------------------------------------------------------------------------
(* Application calls.                                                      *)

\* Protocol::open(key): attach_local; if the remote already opened the
\* channel, verify its capability (returning the error) and queue
\* Event::Open; queue the Open frame with the local id.
Open(p, k) ==
    /\ ~failed[p]
    /\ Len(issued[p]) < MaxCalls[p]
    /\ LET m == AttachLocal(cmap[p], k)
           f == Frame(m.channels[k].local, "open", k, Len(issued[p]) + 1)
       IN  /\ cmap' = [cmap EXCEPT ![p] = m]
           /\ IF IsConnected(m, k) /\ ~CapabilityOk
              THEN /\ failed' = [failed EXCEPT ![p] = TRUE]
                   /\ UNCHANGED <<wq, events, issued>>
              ELSE /\ events' = IF IsConnected(m, k)
                                THEN [events EXCEPT ![p] = Append(@, Event("open", k))]
                                ELSE events
                   /\ wq' = [wq EXCEPT ![p] = Append(@, f)]
                   /\ issued' = [issued EXCEPT ![p] = Append(@, f)]
                   /\ UNCHANGED failed
    /\ UNCHANGED <<parked, buf, step, outbound, wire, rcvd>>

\* Protocol::send (request, data, close): on a connected channel, put the
\* message with the local id on outbound_tx; otherwise do nothing.
Send(p, k, type) ==
    /\ ~failed[p]
    /\ Len(issued[p]) < MaxCalls[p]
    /\ IsConnected(cmap[p], k)
    /\ LET f == Frame(cmap[p].channels[k].local, type, k, Len(issued[p]) + 1) IN
       /\ outbound' = [outbound EXCEPT ![p] = Append(@, f)]
       /\ issued' = [issued EXCEPT ![p] = Append(@, f)]
    /\ UNCHANGED <<cmap, wq, parked, buf, step, wire, rcvd, events, failed>>

-----------------------------------------------------------------------------
(* The writer (poll_outbound_write and WriteState::poll_send).             *)

\* Fault model for WriterReturned: a frame is parked only while poll_send
\* waits on the stream.
WriterReturnedWhenWriting(p) == step[p] = "writing"

\* poll_send returns (so poll_outbound_write may park a frame) only when
\* it waits on the stream (Writing) or has nothing left to write.
WriterReturned(p) ==
    step[p] = "writing" \/ (wq[p] = <<>> /\ buf[p] = <<>> /\ parked[p] = None)

\* poll_outbound_write: with no current frame, take the next message of
\* outbound_rx, run on_outbound_message (a Close closes the local channel
\* and queues Event::Close), and park it.
Park(p) ==
    /\ ~failed[p]
    /\ parked[p] = None
    /\ WriterReturned(p)
    /\ outbound[p] /= <<>>
    /\ LET f == Head(outbound[p])
           k == GetLocal(cmap[p], f.ch)
       IN  /\ parked' = [parked EXCEPT ![p] = f]
           /\ outbound' = [outbound EXCEPT ![p] = Tail(@)]
           /\ IF f.type = "close" /\ k /= None
              THEN /\ cmap' = [cmap EXCEPT ![p] = RemoveChannel(@, k)]
                   /\ events' = [events EXCEPT ![p] = Append(@, Event("close", k))]
              ELSE UNCHANGED <<cmap, events>>
    /\ UNCHANGED <<wq, buf, step, wire, rcvd, issued, failed>>

\* Fault model for TakeCurrent: the queue is popped into current_frame
\* without checking that a frame is already parked there.
TakeCurrentQueueFirst(pk, q) ==
    IF q /= <<>> THEN [frame |-> Head(q), queue |-> Tail(q)]
    ELSE [frame |-> pk, queue |-> q]

\* Step::Processing: the current frame is the parked one, or else the head
\* of the queue.
TakeCurrent(pk, q) ==
    IF pk = None THEN [frame |-> Head(q), queue |-> Tail(q)]
    ELSE [frame |-> pk, queue |-> q]

\* Step::Processing: encode the current frame into the buffer, then write.
Encode(p) ==
    /\ ~failed[p]
    /\ step[p] = "processing"
    /\ parked[p] /= None \/ wq[p] /= <<>>
    /\ LET cur == TakeCurrent(parked[p], wq[p]) IN
       /\ buf' = [buf EXCEPT ![p] = Append(@, cur.frame)]
       /\ wq' = [wq EXCEPT ![p] = cur.queue]
    /\ parked' = [parked EXCEPT ![p] = None]
    /\ step' = [step EXCEPT ![p] = "writing"]
    /\ UNCHANGED <<cmap, outbound, wire, rcvd, events, issued, failed>>

\* Step::Writing then Step::Flushing: the buffer reaches the stream.
Write(p) ==
    /\ ~failed[p]
    /\ step[p] = "writing"
    /\ wire' = [wire EXCEPT ![p] = @ \o buf[p]]
    /\ buf' = [buf EXCEPT ![p] = <<>>]
    /\ step' = [step EXCEPT ![p] = "processing"]
    /\ UNCHANGED <<cmap, wq, parked, outbound, rcvd, events, issued, failed>>

-----------------------------------------------------------------------------
(* The reader (poll_inbound_read and on_inbound_message).                  *)

\* on_open: attach_remote; on a connected channel verify the capability
\* (an error ends poll_next with Err) and queue Event::Open, otherwise
\* queue Event::DiscoveryKey.
OnOpen(p, f) ==
    LET m == AttachRemote(cmap[p], f.key, f.ch) IN
    /\ cmap' = [cmap EXCEPT ![p] = m]
    /\ IF IsConnected(m, f.key) /\ ~CapabilityOk
       THEN /\ failed' = [failed EXCEPT ![p] = TRUE]
            /\ UNCHANGED events
       ELSE /\ events' = [events EXCEPT ![p] =
                  Append(@, Event(IF IsConnected(m, f.key) THEN "open" ELSE "discovery",
                                  f.key))]
            /\ UNCHANGED failed

\* on_close: if the remote id names a channel with that discovery key,
\* remove it and queue Event::Close.
OnClose(p, f) ==
    LET k == GetRemote(cmap[p], f.ch) IN
    /\ IF k /= None /\ k = f.key
       THEN /\ cmap' = [cmap EXCEPT ![p] = RemoveChannel(@, k)]
            /\ events' = [events EXCEPT ![p] = Append(@, Event("close", k))]
       ELSE UNCHANGED <<cmap, events>>
    /\ UNCHANGED failed

\* Request and Data: Event::Message on the channel the remote id names,
\* or nothing when it names none.
OnMessage(p, f) ==
    LET k == GetRemote(cmap[p], f.ch) IN
    /\ events' = IF k /= None
                 THEN [events EXCEPT ![p] =
                          Append(@, [type |-> "message", key |-> k, frame |-> f])]
                 ELSE events
    /\ UNCHANGED <<cmap, failed>>

\* Read the next frame of the stream and dispatch it; channel 0 is
\* stream-level and dropped.
Receive(p) ==
    /\ ~failed[p]
    /\ rcvd[p] < Len(wire[Other(p)])
    /\ LET f == wire[Other(p)][rcvd[p] + 1] IN
       IF f.ch = 0 THEN UNCHANGED <<cmap, events, failed>>
       ELSE CASE f.type = "open"  -> OnOpen(p, f)
              [] f.type = "close" -> OnClose(p, f)
              [] f.type = "data"  -> OnMessage(p, f)
    /\ rcvd' = [rcvd EXCEPT ![p] = @ + 1]
    /\ UNCHANGED <<wq, parked, buf, step, outbound, wire, issued>>

-----------------------------------------------------------------------------

Next ==
    \E p \in Peers :
        \/ \E k \in Keys : Open(p, k)
        \/ \E k \in Keys : Send(p, k, "data")
        \/ Closes /\ \E k \in Keys : Send(p, k, "close")
        \/ Park(p)
        \/ Encode(p)
        \/ Write(p)
        \/ Receive(p)

\* The task owning each protocol keeps polling it (the replication loop
\* awaits it in every iteration) and the stream delivers what is written.
Fairness ==
    \A p \in Peers : WF_vars(Park(p)) /\ WF_vars(Encode(p))
                     /\ WF_vars(Write(p)) /\ WF_vars(Receive(p))

Spec == Init /\ [][Next]_vars /\ Fairness

-----------------------------------------------------------------------------
(* Properties.                                                             *)

Frames == [ch : Nat, type : {"open", "close", "data"}, key : Keys, n : Nat]

TypeOK ==
    /\ \A p \in Peers :
          /\ cmap[p].channels \in [Keys -> {NoChannel} \cup
                                    [local : Nat \cup {None}, remote : Nat \cup {None}]]
          /\ cmap[p].local \in Seq(Keys \cup {None})
          /\ cmap[p].remote \in Seq(Keys \cup {None})
          /\ \A k \in Keys : cmap[p].channels[k] /= NoChannel =>
                /\ cmap[p].channels[k].local \in 0..(Len(cmap[p].local) - 1) \cup {None}
                /\ cmap[p].channels[k].remote \in 0..(Len(cmap[p].remote) - 1) \cup {None}
          /\ parked[p] \in Frames \cup {None}
          /\ step[p] \in {"processing", "writing"}
          /\ rcvd[p] \in 0..Len(wire[Other(p)])
    /\ wq \in [Peers -> Seq(Frames)] /\ buf \in [Peers -> Seq(Frames)]
    /\ outbound \in [Peers -> Seq(Frames)] /\ wire \in [Peers -> Seq(Frames)]
    /\ failed \in [Peers -> BOOLEAN]

IsOpenFrame(f) == f.type = "open"
NotOpenFrame(f) == f.type /= "open"

\* The writer loses, duplicates and reorders nothing within each of its two
\* inputs: every frame an application call produced is in exactly one of
\* queue, outbound channel, current frame, buffer or stream, and the Open
\* frames (queue_frame) and the other frames (outbound_tx, park_frame)
\* each reach the stream in the order they were produced.
WriterKeepsEachStream ==
    \A p \in Peers :
        LET inFlight == wq[p] \o outbound[p] \o buf[p] \o
                        (IF parked[p] = None THEN <<>> ELSE <<parked[p]>>)
        IN  /\ Len(wire[p]) + Len(inFlight) = Len(issued[p])
            /\ IsPrefix(SelectSeq(wire[p], IsOpenFrame), SelectSeq(issued[p], IsOpenFrame))
            /\ IsPrefix(SelectSeq(wire[p], NotOpenFrame), SelectSeq(issued[p], NotOpenFrame))

\* Spec 4.9: within one channel, message order is preserved: the frames p
\* writes for key k (its Open, then its requests, data and close) reach the
\* stream in the order p's application produced them.
ChannelFifo ==
    \A p \in Peers, k \in Keys :
        LET OnK(f) == f.key = k IN
        IsPrefix(SelectSeq(wire[p], OnK), SelectSeq(issued[p], OnK))

\* Spec 4.6 dispatch: a message event for key k carries a message the
\* other endpoint sent on its channel for k, never one sent for another
\* key (lookup by remote id after alloc_local and alloc_remote).
MessageOnItsChannel ==
    \A p \in Peers : \A i \in 1..Len(events[p]) :
        events[p][i].type = "message" => events[p][i].frame.key = events[p][i].key

\* Every frame an application call of p produces (an Open through
\* queue_frame, a Request, Data or Close through outbound_tx) is
\* eventually written to the stream and read by the other endpoint:
\* poll_outbound_write parks the next outbound message whenever poll_send
\* has returned, and poll_send takes a parked frame before the queue, so
\* neither input of the writer can be left behind for good.
EveryFrameDelivered ==
    \A p \in Peers : \A n \in 1..MaxCalls[p] :
        Len(issued[p]) >= n ~> (failed[p] \/ failed[Other(p)] \/ rcvd[Other(p)] >= n)

OpenedBy(p, k) == \E i \in 1..Len(issued[p]) : issued[p][i].type = "open" /\ issued[p][i].key = k
OpenEvent(p, k) == \E i \in 1..Len(events[p]) : events[p][i] = Event("open", k)

\* When both endpoints open the channel of k, both eventually emit
\* Event::Open for it (open on one side, on_open on the other), so the
\* replicas on each side start (spec 4.6: connected once both ids exist).
BothOpenEventuallyConnected ==
    \A k \in Keys : (\A p \in Peers : OpenedBy(p, k)) ~> (\A p \in Peers : OpenEvent(p, k))

=============================================================================
