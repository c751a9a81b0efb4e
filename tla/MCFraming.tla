----------------------------- MODULE MCFraming -----------------------------
(* Frame sequences for Framing.tla.                                        *)
EXTENDS Framing

\* A raw handshake frame of n bytes, and a channel message whose message
\* encodes to n bytes.
Raw(n) == [type |-> "raw", channel |-> None, typ |-> None, len |-> n]
Msg(ch, t, n) == [type |-> "message", channel |-> ch, typ |-> t, len |-> n]

\* The two handshake messages, then a Data on channel 1, a Request on
\* channel 2 (whose header takes two varint bytes) and a Close.  The
\* Request's 4-byte frame does not fit the 3-byte write buffer, which grows;
\* frames straddle the end of the 5-byte read buffer, which cycles.
HandshakeThenThree == <<Raw(1), Raw(1), Msg(1, 3, 1), Msg(2, 2, 1), Msg(1, 1, 0)>>

\* The two handshake messages, then an Open and a Request.
HandshakeThenTwo == <<Raw(1), Raw(1), Msg(1, 0, 0), Msg(1, 2, 0)>>

\* A frame that exactly fills the 3-byte read buffer, then another.
FillThenMore == <<Msg(1, 0, 0), Msg(1, 2, 0)>>

\* With two payload bits per varint byte, a Data whose frame length needs
\* a two-byte varint.
LongFrame == <<Msg(1, 3, 1)>>

=============================================================================
