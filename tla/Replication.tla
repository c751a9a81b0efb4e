----------------------------- MODULE Replication -----------------------------
(***************************************************************************)
(* Replication of one log between two endpoints (libdata/src/replication): *)
(* each runs the Replication loop with a CoreReplica for the log; one      *)
(* holds the writer's core, the other a replica core, initially empty.     *)
(*                                                                         *)
(* The channel for the log is set up as the protocol does it: each         *)
(* application sends Command::Open, whose handler inserts the replica and  *)
(* calls Protocol::open; the channel is connected at an endpoint once it   *)
(* has opened it and received the other's Open frame, and Event::Open is   *)
(* queued at whichever of the two happens last (open / on_open).           *)
(* Messages in each direction arrive in order; an Open frame is queued on  *)
(* the writer's frame queue and a Request or Data is parked ahead of it    *)
(* (Protocol.tla, the protocol_fifo run), so the Open may arrive before or *)
(* after any of the messages sent after it.  A message arriving before the *)
(* Open that gives its remote id is dropped (on_inbound_message).          *)
(*                                                                         *)
(* A core is abstracted to its log; Core.tla checks that the tree          *)
(* signature of block i binds blocks 0..i, so a Data message carries that  *)
(* prefix as its signature, and the receiver's append verifies it against  *)
(* its own log plus the new block.  The writer's application appends and   *)
(* then sends Command::ReOpen, as the library's live-replication test does.*)
(***************************************************************************)
EXTENDS Naturals, Sequences, SequencesExt

CONSTANTS
    Writer,         \* the endpoint holding the writer's core
    Reader,         \* the endpoint holding the replica core
    Content,        \* block contents
    InitLog,        \* the writer's log when replication starts
    MaxLen,         \* bound on the writer's log length (live appends)
    MaxCoreLength,  \* MAX_CORE_LENGTH (u32::MAX), scaled down
    IterStart,      \* the index a CoreIterator over the replica core starts at
    None            \* Option::None

Peers == {Writer, Reader}
Other(p) == IF p = Writer THEN Reader ELSE Writer

ASSUME InitLog \in Seq(Content) /\ Len(InitLog) <= MaxLen

VARIABLES
    log,          \* log[p]: the blocks of p's core
    remoteIndex,  \* remoteIndex[p]: CoreReplica.remote_index of p
    replica,      \* replica[p]: p's replicas map holds the log's replica
    chan,         \* chan[p]: p's channel handle has a local id / a remote id
    openSent,     \* openSent[p]: p's Open frame is on its way to the other
    openEvent,    \* openEvent[p]: Event::Open is in p's queued_events
    net,          \* net[p]: messages p sent that the other has not handled
    cmds,         \* cmds[p]: commands sent to p's ReplicationHandle
    run,          \* run[p]: "running", or how p's run() ended: "ok"/"error"
    iterIndex,    \* the index of the CoreIterator's pending read task
    yielded       \* the items <<index, content>> the CoreIterator returned

vars == <<log, remoteIndex, replica, chan, openSent, openEvent, net, cmds, run,
          iterIndex, yielded>>

Request(i) == [type |-> "request", index |-> i]
Data(i, c, tree) == [type |-> "data", index |-> i, content |-> c, tree |-> tree]

\* Each application sends Command::Open(key, replica) before anything else.
Init ==
    /\ log = [p \in Peers |-> IF p = Writer THEN InitLog ELSE <<>>]
    /\ remoteIndex = [p \in Peers |-> None]
    /\ replica = [p \in Peers |-> FALSE]
    /\ chan = [p \in Peers |-> [local |-> FALSE, remote |-> FALSE]]
    /\ openSent = [p \in Peers |-> FALSE]
    /\ openEvent = [p \in Peers |-> FALSE]
    /\ net = [p \in Peers |-> <<>>]
    /\ cmds = [p \in Peers |-> <<"open">>]
    /\ run = [p \in Peers |-> "running"]
    /\ iterIndex = IterStart
    /\ yielded = <<>>

\* ChannelHandle::is_connected
Connected(p) == chan[p].local /\ chan[p].remote

\* Protocol::request / data (send): only on a connected channel, and
\* nothing arrives once the other's run has ended and its stream is closed.
SendTo(p, msgs) ==
    net' = [net EXCEPT ![p] =
               IF Connected(p) /\ run[Other(p)] = "running" THEN @ \o msgs ELSE @]

\* Fault model for UpdateRemoteIndex: the first index is kept for good.
UpdateRemoteIndexKeepsFirst(old, i) == IF old /= None THEN old ELSE i

\* update_remote_index: keep the largest index the remote asked for.
UpdateRemoteIndex(old, i) == IF old /= None /\ i <= old THEN old ELSE i

\* Fault model for OnOpenRequest: asks for the block after our length.
OnOpenRequestPastEnd(p) == <<Request(Len(log[p]) + 1)>>

\* on_open, also run for Command::ReOpen: request the block at our length.
OnOpenRequest(p) == <<Request(Len(log[p]))>>

\* Core::get: ensure!(index < MAX_CORE_LENGTH) fails, and the error ends
\* the run through on_request's `?`.
GetFails(i) == i >= MaxCoreLength

\* Fault model for OnRequestReply: the "remote is ahead" test reversed.
OnRequestReplyReversed(p, r, ri) ==
    IF r.index < Len(log[p])
    THEN <<Data(r.index, log[p][r.index + 1], SubSeq(log[p], 1, r.index + 1))>>
    ELSE IF Len(log[p]) >= MaxCoreLength \/ ri >= Len(log[p]) THEN <<>>
    ELSE <<Request(Len(log[p]))>>

\* on_request: serve the block if we have it; otherwise, if the remote has
\* more than we do and we are below MAX_CORE_LENGTH, ask for the block at
\* our length.
OnRequestReply(p, r, ri) ==
    IF r.index < Len(log[p])
    THEN <<Data(r.index, log[p][r.index + 1], SubSeq(log[p], 1, r.index + 1))>>
    ELSE IF Len(log[p]) >= MaxCoreLength \/ ri <= Len(log[p]) THEN <<>>
    ELSE <<Request(Len(log[p]))>>

\* Core::append(data, Some(signature)) through verify: the tree signature
\* must bind our log with the new block appended.
VerifyAppend(l, d) == Append(l, d.content) = d.tree

\* Fault model for OnDataReply: no request for the next block.
OnDataReplyStops(p, d) == <<>>

\* on_data after a successful append: ask for the next block, unless the
\* core has reached MAX_CORE_LENGTH.
OnDataReply(p, d) ==
    IF d.index + 1 >= MaxCoreLength THEN <<>> ELSE <<Request(d.index + 1)>>

\* Event::Message reaches replica_on_request / replica_on_data only when
\* the channel has the sender's remote id (get_remote) and the replica is
\* in the map; otherwise the message is dropped.
Delivered(p) == chan[p].remote /\ replica[p]

\* Protocol events are drained from queued_events before any frame is read.
CanRead(p) ==
    /\ run[p] = "running"
    /\ ~openEvent[p]

\* Command::Open: replicas.insert, then Protocol::open: attach_local, queue
\* Event::Open if the remote's Open already arrived, queue the Open frame.
HandleCommandOpen(p) ==
    /\ run[p] = "running"
    /\ cmds[p] /= <<>> /\ Head(cmds[p]) = "open"
    /\ cmds' = [cmds EXCEPT ![p] = Tail(@)]
    /\ replica' = [replica EXCEPT ![p] = TRUE]
    /\ chan' = [chan EXCEPT ![p].local = TRUE]
    /\ openEvent' = [openEvent EXCEPT ![p] = chan[p].remote]
    /\ openSent' = [openSent EXCEPT ![p] = TRUE]
    /\ UNCHANGED <<log, remoteIndex, net, run, iterIndex, yielded>>

\* on_open for the other's Open frame: attach_remote; queue Event::Open if
\* the channel is now connected, Event::DiscoveryKey otherwise (whose hook
\* in run() does nothing).
ReceiveOpen(p) ==
    /\ CanRead(p)
    /\ openSent[Other(p)]
    /\ openSent' = [openSent EXCEPT ![Other(p)] = FALSE]
    /\ chan' = [chan EXCEPT ![p].remote = TRUE]
    /\ openEvent' = [openEvent EXCEPT ![p] = chan[p].local]
    /\ UNCHANGED <<log, remoteIndex, replica, net, cmds, run, iterIndex, yielded>>

\* Event::Open: replica_on_open sends on_open's request.
HandleOpen(p) ==
    /\ run[p] = "running"
    /\ openEvent[p]
    /\ openEvent' = [openEvent EXCEPT ![p] = FALSE]
    /\ SendTo(p, IF replica[p] THEN OnOpenRequest(p) ELSE <<>>)
    /\ UNCHANGED <<log, remoteIndex, replica, chan, openSent, cmds, run,
                   iterIndex, yielded>>

\* Event::Message(Request): replica_on_request.
HandleRequest(p) ==
    LET r == Head(net[Other(p)])
        ri == UpdateRemoteIndex(remoteIndex[p], r.index)
    IN  /\ CanRead(p)
        /\ net[Other(p)] /= <<>>
        /\ r.type = "request"
        /\ IF ~Delivered(p)
           THEN /\ net' = [net EXCEPT ![Other(p)] = Tail(@)]
                /\ UNCHANGED <<remoteIndex, run>>
           ELSE /\ remoteIndex' = [remoteIndex EXCEPT ![p] = ri]
                /\ IF GetFails(r.index)
                   THEN /\ run' = [run EXCEPT ![p] = "error"]
                        /\ net' = [net EXCEPT ![Other(p)] = Tail(@)]
                   ELSE /\ net' = [net EXCEPT ![Other(p)] = Tail(@),
                                          ![p] = IF Connected(p) /\ run[Other(p)] = "running"
                                                 THEN @ \o OnRequestReply(p, r, ri) ELSE @]
                        /\ UNCHANGED run
        /\ UNCHANGED <<log, replica, chan, openSent, openEvent, cmds, iterIndex, yielded>>

\* Event::Message(Data): replica_on_data.  At our length, append (a failed
\* verification is an error that ends run()) and ask for the next block;
\* otherwise ask for the block at our length.
HandleData(p) ==
    LET d == Head(net[Other(p)]) IN
    /\ CanRead(p)
    /\ net[Other(p)] /= <<>>
    /\ d.type = "data"
    /\ IF ~Delivered(p)
       THEN /\ net' = [net EXCEPT ![Other(p)] = Tail(@)]
            /\ UNCHANGED <<log, run>>
       ELSE IF d.index = Len(log[p])
       THEN IF VerifyAppend(log[p], d)
            THEN /\ log' = [log EXCEPT ![p] = Append(@, d.content)]
                 /\ net' = [net EXCEPT ![Other(p)] = Tail(@),
                                       ![p] = IF Connected(p) /\ run[Other(p)] = "running"
                                              THEN @ \o OnDataReply(p, d) ELSE @]
                 /\ UNCHANGED run
            ELSE /\ run' = [run EXCEPT ![p] = "error"]
                 /\ net' = [net EXCEPT ![Other(p)] = Tail(@)]
                 /\ UNCHANGED log
       ELSE /\ net' = [net EXCEPT ![Other(p)] = Tail(@),
                                  ![p] = IF Connected(p) /\ run[Other(p)] = "running"
                                         THEN @ \o <<Request(Len(log[p]))>> ELSE @]
            /\ UNCHANGED <<log, run>>
    /\ UNCHANGED <<remoteIndex, replica, chan, openSent, openEvent, cmds,
                   iterIndex, yielded>>

\* The writer's application: Core::append(data, None) under the core's
\* lock, then handle.reopen(key).
WriterAppend(c) ==
    /\ Len(log[Writer]) < MaxLen
    /\ log' = [log EXCEPT ![Writer] = Append(@, c)]
    /\ cmds' = [cmds EXCEPT ![Writer] = Append(@, "reopen")]
    /\ UNCHANGED <<remoteIndex, replica, chan, openSent, openEvent, net, run,
                   iterIndex, yielded>>

\* Command::ReOpen: replica_on_open again (the request is dropped by send
\* while the channel is not connected).
HandleReOpen(p) ==
    /\ run[p] = "running"
    /\ cmds[p] /= <<>> /\ Head(cmds[p]) = "reopen"
    /\ cmds' = [cmds EXCEPT ![p] = Tail(@)]
    /\ SendTo(p, IF replica[p] THEN OnOpenRequest(p) ELSE <<>>)
    /\ UNCHANGED <<log, remoteIndex, replica, chan, openSent, openEvent, run,
                   iterIndex, yielded>>

\* on_close: an error iff the remote advertised more than we hold.
OnCloseFails(p) == remoteIndex[p] /= None /\ Len(log[p]) < remoteIndex[p]

\* The read timer expires (keepalive): poll_next yields Err, every replica
\* runs on_close, and run() returns Err if one failed, Ok otherwise.  The
\* timer is reset by every read, so it fires only once the connection has
\* been silent both ways, the handles idle, and the writer's appends done.
Timeout(p) ==
    /\ run[p] = "running"
    /\ net[Writer] = <<>> /\ net[Reader] = <<>>
    /\ ~openSent[Writer] /\ ~openSent[Reader]
    /\ ~openEvent[Writer] /\ ~openEvent[Reader]
    /\ cmds[Writer] = <<>> /\ cmds[Reader] = <<>>
    /\ Len(log[Writer]) = MaxLen
    /\ run' = [run EXCEPT ![p] = IF replica[p] /\ OnCloseFails(p) THEN "error" ELSE "ok"]
    /\ UNCHANGED <<log, remoteIndex, replica, chan, openSent, openEvent, net, cmds,
                   iterIndex, yielded>>

\* poll_next: the next read task starts after the finished one's index.
NextTaskIndex(i) == i + 1

\* create_read_task: core.get(index) under the core's lock; Ok(Some) gives
\* the content, and Ok(None) past the length (or an error) gives None.
ReadTask(p, i) == IF i < Len(log[p]) THEN <<log[p][i + 1]>> ELSE <<>>

\* CoreIterator::poll_next over the replica core, as the wasm bindings
\* iterate replicas while they replicate: the pending read task resolves,
\* a task for the next index replaces it whether or not it found a block,
\* and the item (or None, ending this round of iteration) is returned.  A
\* consumer may poll again after None.  The read is atomic with respect to
\* appends, which hold the same lock.
IterPoll ==
    LET item == ReadTask(Reader, iterIndex) IN
    /\ iterIndex <= MaxLen
    /\ iterIndex' = NextTaskIndex(iterIndex)
    /\ yielded' = IF item = <<>> THEN yielded
                  ELSE Append(yielded, <<iterIndex, item[1]>>)
    /\ UNCHANGED <<log, remoteIndex, replica, chan, openSent, openEvent, net, cmds, run>>

Next ==
    \/ \E p \in Peers :
          \/ HandleCommandOpen(p) \/ ReceiveOpen(p) \/ HandleOpen(p)
          \/ HandleRequest(p) \/ HandleData(p) \/ HandleReOpen(p) \/ Timeout(p)
    \/ \E c \in Content : WriterAppend(c)
    \/ IterPoll

\* Each run() loop keeps taking commands and protocol events, and each
\* protocol keeps reading its stream and writing its frames.
Fairness ==
    \A p \in Peers : /\ WF_vars(HandleCommandOpen(p)) /\ WF_vars(ReceiveOpen(p))
                     /\ WF_vars(HandleOpen(p)) /\ WF_vars(HandleRequest(p))
                     /\ WF_vars(HandleData(p)) /\ WF_vars(HandleReOpen(p))

Spec == Init /\ [][Next]_vars /\ Fairness

-----------------------------------------------------------------------------
(* Properties.                                                             *)

\* A Data message carries the sender's block, and its signature the blocks
\* up to and including it.
MessageOK(m) ==
    \/ m \in [type : {"request"}, index : 0..MaxLen]
    \/ /\ m \in [type : {"data"}, index : Nat, content : Content, tree : Seq(Content)]
       /\ m.index < MaxLen /\ Len(m.tree) = m.index + 1

TypeOK ==
    /\ log \in [Peers -> Seq(Content)]
    /\ remoteIndex \in [Peers -> (0..MaxLen) \cup {None}]
    /\ replica \in [Peers -> BOOLEAN]
    /\ chan \in [Peers -> [local : BOOLEAN, remote : BOOLEAN]]
    /\ openSent \in [Peers -> BOOLEAN] /\ openEvent \in [Peers -> BOOLEAN]
    /\ \A p \in Peers : \A i \in 1..Len(net[p]) : MessageOK(net[p][i])
    /\ cmds \in [Peers -> Seq({"open", "reopen"})]
    /\ run \in [Peers -> {"running", "ok", "error"}]
    /\ iterIndex \in Nat
    /\ yielded \in Seq(Nat \X Content)

\* Neither run() ever returns an error: no append of received data fails
\* verification, and when the keepalive timeout ends a run, on_close finds
\* every replica holding at least the length its remote advertised (the
\* tests unwrap run()).
RunEndsOk ==
    \A p \in Peers : run[p] /= "error"

\* on_close's "Not synced; remote has more data" is never spurious: the
\* remote_index each CoreReplica keeps (the largest index the other end
\* requested, from on_open, ReOpen, on_request or on_data) never exceeds
\* the length the other end's core has, although requests are delayed,
\* duplicated and dropped, and the writer appends meanwhile.
RemoteIndexNotAhead ==
    \A p \in Peers : remoteIndex[p] /= None => remoteIndex[p] <= Len(log[Other(p)])

\* The replica eventually holds exactly the writer's log, and keeps it:
\* the channel opens at both ends whichever Open arrives first, and
\* on_open, on_request, on_data and ReOpen pull every block, including
\* those appended while replicating, though requests sent before the
\* other end learnt the channel's id are dropped.
EventuallySynced ==
    <>[](log[Reader] = log[Writer])

=============================================================================
