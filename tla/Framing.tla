------------------------------ MODULE Framing ------------------------------
(***************************************************************************)
(* One direction of a protocol connection at byte level: the WriteState   *)
(* of one endpoint (protocol/src/io/writer.rs) encodes frames as           *)
(* varint(body_len) ++ body (Frame::encode, message.rs) into its buffer    *)
(* and writes them to the stream in pieces of any size; the ReadState of   *)
(* the other endpoint (protocol/src/io/reader.rs) reads whatever the       *)
(* stream holds into its buffer and cuts frames out of it.  A body is a    *)
(* raw handshake buffer, or a ChannelMessage: varint(channel << 4 | type)  *)
(* followed by the message.                                                *)
(*                                                                         *)
(* A buffer is represented by its live range [start, end) as a sequence   *)
(* of bytes, together with the two cursors and its allocated length: the  *)
(* bytes outside the live range are never read before being overwritten.  *)
(* Bytes are numbers; a varint byte carries VarintBits payload bits (7 in  *)
(* varinteger) and a continuation bit above them.  The message of frame i  *)
(* (its Protobuf encoding, taken as exact) is Frames[i].len bytes of the   *)
(* value i, so that any misframing shows in what is read.                  *)
(***************************************************************************)
EXTENDS Naturals, Sequences, SequencesExt

CONSTANTS
    VarintBits,      \* payload bits per varint byte (7 in varinteger)
    Frames,          \* Frames[i]: the i-th frame queued (type, channel, typ, len)
    WriteBufSize,    \* BUF_SIZE, the initial length of WriteState.buf
    ReadBufSize,     \* READ_BUF_INITIAL_SIZE, the initial length of ReadState.buf
    MaxMessageSize,  \* MAX_MESSAGE_SIZE
    Keepalive,       \* Options.keepalive_ms is Some: the reader has a timer
    Noise,           \* Options.noise: the connection starts with a handshake
    None             \* Option::None

ASSUME /\ VarintBits \in Nat \ {0}
       /\ Frames \in Seq([type : {"raw", "message"}, channel : Nat \cup {None},
                           typ : Nat \cup {None}, len : Nat])
       /\ Len(Frames) < 2 * 2^VarintBits   \* frame numbers fit in a byte
       /\ WriteBufSize \in Nat \ {0} /\ ReadBufSize \in Nat \ {0}
       /\ Keepalive \in BOOLEAN /\ Noise \in BOOLEAN

\* The continuation bit of a varint byte.
Cont == 2^VarintBits

\* varinteger::encode: seven-bit groups, lowest first, the continuation bit
\* set on every byte but the last.
RECURSIVE VarintEncode(_)
VarintEncode(n) ==
    IF n < Cont THEN <<n>> ELSE <<(n % Cont) + Cont>> \o VarintEncode(n \div Cont)

\* varinteger::decode: add up groups until a byte without the continuation
\* bit; indexing past the end of the slice panics.
RECURSIVE VarintDecodeFrom(_, _, _, _)
VarintDecodeFrom(buf, off, val, fac) ==
    IF off > Len(buf) THEN [panic |-> TRUE]
    ELSE LET v == val + fac * (buf[off] % Cont) IN
         IF buf[off] < Cont THEN [panic |-> FALSE, len |-> off, value |-> v]
         ELSE VarintDecodeFrom(buf, off + 1, v, fac * Cont)

VarintDecode(buf) == VarintDecodeFrom(buf, 1, 0, 1)

N == Len(Frames)

\* With noise, the writer is the initiator of an XX handshake: its first two
\* frames are the handshake messages 1 and 3 (raw frames), the others are
\* channel messages sent once its Protocol is established.
HsFrames == IF Noise THEN 2 ELSE 0

\* The width of the message type in a ChannelMessage header.
TypeBits == 4

\* A frame value: Frame::Raw(payload) or Frame::Message(ChannelMessage).
RawFrame(b) == [type |-> "raw", channel |-> None, typ |-> None, payload |-> b]

\* The frame the writer queues i-th, its message being Frames[i].len bytes.
SentFrame(i) ==
    [type |-> Frames[i].type, channel |-> Frames[i].channel, typ |-> Frames[i].typ,
     payload |-> [j \in 1..Frames[i].len |-> i]]

\* ChannelMessage::header: channel << 4 | typ.
ChannelHeader(f) == f.channel * 2^TypeBits + f.typ

\* The body of a frame: the raw buffer (Encoder for &[u8]), or a channel
\* message's varint header followed by its message (ChannelMessage::encode,
\* Message::encode).
FrameBody(f) ==
    IF f.type = "raw" THEN f.payload ELSE VarintEncode(ChannelHeader(f)) \o f.payload

\* ChannelMessage::encode returns Err for a message above MAX_MESSAGE_SIZE;
\* a raw buffer has no limit.
EncodeFails(f) == f.type = "message" /\ Len(FrameBody(f)) > MaxMessageSize

\* Frame::encode: varint(body_len) followed by the body.
FrameEncode(f) == VarintEncode(Len(FrameBody(f))) \o FrameBody(f)

EncodeFrame(i) == FrameEncode(SentFrame(i))

\* Frame::encoded_len: the body's length plus its varint's.
EncodedLen(i) == LET b == Len(FrameBody(SentFrame(i))) IN Len(VarintEncode(b)) + b

\* Message::decode: types 0 to 3 are Open, Close, Request and Data (their
\* Protobuf decoding is taken as exact); any other type is InvalidData.
MessageDecodeOk(typ) == typ \in 0..3

\* ChannelMessage::decode: an empty buffer is an error; the varint header
\* (varinteger::decode, which panics on a header cut short) splits into
\* channel (header >> 4) and type (header & 0b1111); the rest is the message.
ChannelMessageDecode(body) ==
    LET h == VarintDecode(body) IN
    IF body = <<>> THEN [res |-> "error", frame |-> None]
    ELSE IF h.panic THEN [res |-> "panic", frame |-> None]
    ELSE IF ~MessageDecodeOk(h.value % 2^TypeBits) THEN [res |-> "error", frame |-> None]
    ELSE [res |-> "ok",
          frame |-> [type |-> "message", channel |-> h.value \div 2^TypeBits,
                     typ |-> h.value % 2^TypeBits,
                     payload |-> SubSeq(body, h.len + 1, Len(body))]]

\* Frame::decode: a raw frame is the buffer itself, a message frame a
\* decoded ChannelMessage.
FrameDecode(body, frameType) ==
    IF frameType = "raw" THEN [res |-> "ok", frame |-> RawFrame(body)]
    ELSE ChannelMessageDecode(body)

VARIABLES
    queued,     \* how many frames queue_frame has been called with
    queue,      \* WriteState.queue: frame numbers
    current,    \* WriteState.current_frame
    wbuf,       \* WriteState.buf[start..end]
    wstart,     \* WriteState.start
    wend,       \* WriteState.end
    wsize,      \* WriteState.buf.len()
    wstep,      \* WriteState.step
    wres,       \* "ok", or "error" once poll_send returned Err
    net,        \* bytes written to the stream and not yet read
    rbuf,       \* ReadState.buf[start..end]
    rstart,     \* ReadState.start
    rend,       \* ReadState.end
    rsize,      \* ReadState.buf.len()
    rstep,      \* ReadState.step: Header, or [header_len, body_len]
    rpc,        \* poll_reader is about to "process" or to "read"
    rstage,     \* the reader's Protocol stage: "handshake" or "main"
    got,        \* bodies of the frames process() has cut out of the buffer
    rres        \* "running", or how the reader ended

writerVars == <<queued, queue, current, wbuf, wstart, wend, wsize, wstep, wres>>
readerVars == <<rbuf, rstart, rend, rsize, rstep, rpc, rstage, got, rres>>
vars == <<writerVars, net, readerVars>>

Header == [kind |-> "header"]
BodyOf(hl, bl) == [kind |-> "body", header_len |-> hl, body_len |-> bl]

\* WriteState::new
WriterInit ==
    /\ queued = 0 /\ queue = <<>> /\ current = None
    /\ wbuf = <<>> /\ wstart = 0 /\ wend = 0 /\ wsize = WriteBufSize
    /\ wstep = "processing" /\ wres = "ok"

\* ReadState::new
ReaderInit ==
    /\ rbuf = <<>> /\ rstart = 0 /\ rend = 0 /\ rsize = ReadBufSize
    /\ rstep = Header /\ rpc = "process" /\ got = <<>> /\ rres = "running"
    /\ rstage = IF Noise THEN "handshake" ELSE "main"

Init == WriterInit /\ net = <<>> /\ ReaderInit

-----------------------------------------------------------------------------
(* The writer.                                                             *)

\* queue_frame: the application queues the next channel message, once the
\* writer's Protocol is established (its handshake messages are sent).
QueueFrame ==
    /\ queued >= HsFrames
    /\ queued < N
    /\ queued' = queued + 1
    /\ queue' = Append(queue, queued + 1)
    /\ UNCHANGED <<current, wbuf, wstart, wend, wsize, wstep, wres, net, readerVars>>

\* Fault model for WriteBufAfter: buf is resized to the frame's length
\* even when it is already longer.
WriteBufAfterAlways(len) == len

\* try_queue_direct grows buf to the frame's length, then encodes only if
\* the frame fits after end (remaining()).
WriteBufAfter(len) == IF wsize < len THEN len ELSE wsize

\* Step::Processing: take the queue's head unless a frame is parked, try
\* to encode it (re-parking it if it does not fit; an encode error, a body
\* above MAX_MESSAGE_SIZE, drops it and fails poll_send), then return if
\* nothing is pending, else go on to Writing.
Processing ==
    /\ wres = "ok"
    /\ wstep = "processing"
    /\ current /= None \/ queue /= <<>> \/ wend > wstart
    /\ LET take == current = None /\ queue /= <<>>
           cur  == IF take THEN Head(queue) ELSE current
           len  == IF cur = None THEN 0 ELSE EncodedLen(cur)
           size == WriteBufAfter(len)
           fits == cur /= None /\ len <= size - wend
       IN  /\ queue' = IF take THEN Tail(queue) ELSE queue
           /\ wsize' = size
           /\ IF fits /\ EncodeFails(SentFrame(cur))
              THEN /\ wres' = "error"
                   /\ current' = None
                   /\ UNCHANGED <<wbuf, wend, wstep>>
              ELSE /\ current' = IF fits THEN None ELSE cur
                   /\ wbuf' = IF fits THEN wbuf \o EncodeFrame(cur) ELSE wbuf
                   /\ wend' = IF fits THEN wend + len ELSE wend
                   /\ wstep' = IF wend' - wstart = 0 THEN "processing" ELSE "writing"
                   /\ UNCHANGED wres
    /\ UNCHANGED <<queued, wstart, net, readerVars>>

\* Handshake::start (initiator) and Handshake::read of message 2: the
\* initiator's next handshake message is encoded straight into the buffer
\* by queue_frame_direct (try_queue_direct), whose Ok(false) the callers
\* drop.  Message 3 answers message 2, which the reader's side sends once
\* it has read message 1.
QueueFrameDirect ==
    /\ queued < HsFrames
    /\ queued = 1 => Len(got) >= 1
    /\ LET k    == queued + 1
           len  == EncodedLen(k)
           size == WriteBufAfter(len)
       IN  /\ queued' = k
           /\ wsize' = size
           /\ IF len <= size - wend
              THEN wbuf' = wbuf \o EncodeFrame(k) /\ wend' = wend + len
              ELSE UNCHANGED <<wbuf, wend>>
    /\ UNCHANGED <<queue, current, wstart, wstep, wres, net, readerVars>>

\* Fault model for Writing: both cursors return to 0 after any write.
WritingResetsEarly(n) ==
    /\ wres = "ok"
    /\ wstep = "writing"
    /\ net' = net \o SubSeq(wbuf, 1, n)
    /\ wbuf' = <<>> /\ wstart' = 0 /\ wend' = 0
    /\ wstep' = "flushing"
    /\ UNCHANGED <<queued, queue, current, wsize, wres, readerVars>>

\* Step::Writing: poll_write takes n of the pending bytes; once all are
\* written both cursors return to 0.
Writing(n) ==
    /\ wres = "ok"
    /\ wstep = "writing"
    /\ net' = net \o SubSeq(wbuf, 1, n)
    /\ wbuf' = SubSeq(wbuf, n + 1, Len(wbuf))
    /\ IF wstart + n = wend
       THEN wstart' = 0 /\ wend' = 0
       ELSE wstart' = wstart + n /\ UNCHANGED wend
    /\ wstep' = "flushing"
    /\ UNCHANGED <<queued, queue, current, wsize, wres, readerVars>>

\* Step::Flushing: poll_flush, then back to Processing.
Flushing ==
    /\ wres = "ok"
    /\ wstep = "flushing"
    /\ wstep' = "processing"
    /\ UNCHANGED <<queued, queue, current, wbuf, wstart, wend, wsize, wres, net, readerVars>>

-----------------------------------------------------------------------------
(* The reader (poll_reader and process).                                   *)

\* cycle_buf_if_needed: when end has reached the buffer's length, move the
\* live range to the front.
Cycle(size) ==
    IF rend = size THEN rstart' = 0 /\ rend' = Len(rbuf)
    ELSE UNCHANGED <<rstart, rend>>

\* Handshake::read (noise/handshake.rs, which is not in the repository; spec
\* section 4.5): the XX pattern takes HsFrames messages, and a read once
\* the handshake is complete fails.
HandshakeRead(n) == n < HsFrames

\* The reader's frame type: Raw during the handshake, Message once
\* Protocol::new has called set_frame_type(Message).
FrameType == IF rstage = "handshake" THEN "raw" ELSE "message"

\* What the stage does with a frame poll_reader returned: an Err ends the
\* read; in the handshake stage a raw frame goes to on_handshake_message
\* (handshake.rs 131-141, 90-105); in the main stage the ChannelMessage is
\* returned.
FrameAccepted(d) ==
    d.res = "ok" /\ (rstage = "handshake" => HandshakeRead(Len(got)))

\* The reader after a frame of poll_reader: kept if it decoded, the read
\* ended if it was an Err or the stage rejected it.
TakeFrame(d) ==
    /\ got' = IF d.res = "ok" THEN Append(got, d.frame) ELSE got
    /\ rres' = IF d.res = "panic" THEN "panic"
              ELSE IF FrameAccepted(d) THEN rres ELSE "error"

\* Fault model for BodyStep: the frame is cut from start, header included.
BodyStepNoHeaderSkip(hl, bl) ==
    LET ml   == hl + bl
        size == IF ml > rsize THEN ml ELSE rsize
    IN  /\ rsize' = size
        /\ IF Len(rbuf) < ml
           THEN /\ rstep' = BodyOf(hl, bl)
                /\ Cycle(size)
                /\ rpc' = "read"
                /\ UNCHANGED <<rbuf, got, rres>>
           ELSE /\ TakeFrame(FrameDecode(SubSeq(rbuf, 1, bl), FrameType))
                /\ rbuf' = SubSeq(rbuf, ml + 1, Len(rbuf))
                /\ rstart' = rstart + ml
                /\ rstep' = Header
                /\ UNCHANGED <<rend, rpc>>

\* Step::Body: grow the buffer to the message length; if the message is not
\* all there, cycle and return None; otherwise cut the frame out, advance
\* start past it and return it (an Err for a body that does not decode).
BodyStep(hl, bl) ==
    LET ml   == hl + bl
        size == IF ml > rsize THEN ml ELSE rsize
    IN  /\ rsize' = size
        /\ IF Len(rbuf) < ml
           THEN /\ rstep' = BodyOf(hl, bl)
                /\ Cycle(size)
                /\ rpc' = "read"
                /\ UNCHANGED <<rbuf, got, rres>>
           ELSE /\ TakeFrame(FrameDecode(SubSeq(rbuf, hl + 1, ml), FrameType))
                /\ rbuf' = SubSeq(rbuf, ml + 1, Len(rbuf))
                /\ rstart' = rstart + ml
                /\ rstep' = Header
                /\ UNCHANGED <<rend, rpc>>

\* process(): nothing to do on an empty range; in the Header step decode
\* the varint body length (an Err above MAX_MESSAGE_SIZE) and go on to the
\* Body step in the same call.
Process ==
    /\ rres = "running"
    /\ rpc = "process"
    /\ IF rbuf = <<>>
       THEN /\ rpc' = "read"
            /\ UNCHANGED <<rbuf, rstart, rend, rsize, rstep, got, rres>>
       ELSE IF rstep.kind = "header"
            THEN LET d == VarintDecode(rbuf) IN
                 IF d.panic
                 THEN rres' = "panic" /\ UNCHANGED <<rbuf, rstart, rend, rsize, rstep, rpc, got>>
                 ELSE IF d.value > MaxMessageSize
                 THEN rres' = "error" /\ UNCHANGED <<rbuf, rstart, rend, rsize, rstep, rpc, got>>
                 ELSE BodyStep(d.len, d.value)
            ELSE BodyStep(rstep.header_len, rstep.body_len)
    /\ UNCHANGED <<writerVars, net, rstage>>

\* poll_read into buf[end..] returns n > 0 bytes: they extend the live
\* range (the keepalive timer is reset) and poll_reader processes again.
Read(n) ==
    /\ rres = "running"
    /\ rpc = "read"
    /\ rbuf' = rbuf \o SubSeq(net, 1, n)
    /\ net' = SubSeq(net, n + 1, Len(net))
    /\ rend' = rend + n
    /\ rpc' = "process"
    /\ UNCHANGED <<writerVars, rstart, rsize, rstep, rstage, got, rres>>

\* poll_read is Pending, or Ready(Ok(0)): nothing waiting in the stream, or
\* no room left after end (a read into an empty slice).  poll_reader then
\* polls the keepalive timer, which fails the read once it expires.
ReadTimeout ==
    /\ rres = "running"
    /\ rpc = "read"
    /\ Keepalive
    /\ net = <<>> \/ rend = rsize
    /\ rres' = "timeout"
    /\ UNCHANGED <<writerVars, net, rbuf, rstart, rend, rsize, rstep, rpc, rstage, got>>

\* poll_inbound_read returned (the read was Pending) and
\* check_handshake_complete finds the handshake complete: handshake()
\* returns and Protocol::new upgrades the reader (the cipher is applied to
\* the unread range, set_frame_type(Message)).
Establish ==
    /\ rres = "running"
    /\ rpc = "read"
    /\ rstage = "handshake"
    /\ Len(got) = HsFrames
    /\ rstage' = "main"
    /\ UNCHANGED <<writerVars, net, rbuf, rstart, rend, rsize, rstep, rpc, got, rres>>

-----------------------------------------------------------------------------

Next ==
    \/ QueueFrameDirect
    \/ QueueFrame
    \/ Processing
    \/ \E n \in 1..(wend - wstart) : Writing(n)
    \/ Flushing
    \/ Process
    \/ \E n \in 1..Min({Len(net), rsize - rend}) : Read(n)
    \/ ReadTimeout
    \/ Establish

Spec == Init /\ [][Next]_vars

-----------------------------------------------------------------------------
(* Properties.                                                             *)

TypeOK ==
    /\ queued \in 0..N /\ queue \in Seq(1..N) /\ current \in 1..N \cup {None}
    /\ wstep \in {"processing", "writing", "flushing"} /\ wres \in {"ok", "error"}
    /\ 0 <= wstart /\ wstart <= wend /\ wend <= wsize
    /\ 0 <= rstart /\ rstart <= rend /\ rend <= rsize
    /\ rpc \in {"process", "read"} /\ rstage \in {"handshake", "main"}
    /\ rres \in {"running", "timeout", "error", "panic"}

\* Until a read ends in an error, the frames poll_reader returns are the
\* frames the writer sent, in order and intact -- raw during the handshake,
\* decoded ChannelMessages after it -- and reading never panics: framing
\* by varint length (Frame::encode, process) and the channel-message codec
\* survive every split of the byte stream into writes and reads, buffer
\* growth and cycling.  (A frame the handshake stage takes by mistake ends
\* the read with an error; HandshakeOnlyHandshakeFrames is about that.)
ReaderYieldsSentFrames ==
    /\ rres /= "panic"
    /\ rres /= "error" => \A k \in 1..Len(got) : got[k] = SentFrame(k)

\* How many frames the writer has encoded into its buffer.
Encoded == queued - Len(queue) - (IF current = None THEN 0 ELSE 1)

\* No byte is lost, duplicated or reordered between the two buffers: the
\* frames the reader returned, re-encoded, then the reader's unread range,
\* the stream and the writer's unwritten range are exactly the encodings of
\* the frames the writer encoded (poll_send's cursors, process's cursors).
StreamConserved ==
    wres = "ok" =>
        FlattenSeq([k \in 1..Len(got) |-> FrameEncode(got[k])])
            \o rbuf \o net \o wbuf
        = FlattenSeq([k \in 1..Encoded |-> EncodeFrame(k)])

\* Spec 4.3/6: the keepalive fails a read only when no inbound bytes are
\* waiting; a reader with bytes in the stream reads them (poll_reader's
\* Pending path, reader.rs line 86).
TimeoutOnlyWhenSilent ==
    [][rres = "running" /\ rres' = "timeout" => net = <<>>]_vars


\* Spec 4.4: raw frames are read during the handshake, channel messages
\* after it.  The handshake stage hands every frame it reads to the
\* handshake, and poll_inbound_read keeps reading until the read is
\* Pending (handshake.rs 131-141), so it must never take a frame beyond the
\* handshake messages: those belong to the main stage.
HandshakeOnlyHandshakeFrames ==
    rstage = "handshake" => Len(got) <= HsFrames

=============================================================================
