----------------------------- MODULE NetConnect -----------------------------
(***************************************************************************)
(* The incoming half of a connection: NetConnect::on_msgbuffer cuts the    *)
(* byte stream that echo_read receives in arbitrary pieces back into the   *)
(* messages that the peer's NetConnect::sendMsg framed                     *)
(* (src/src/network/NetConnect.cpp, NetPacket.cpp, MessageBuffer.h).       *)
(*                                                                         *)
(* The unit of the stream is a cell.  Each uint32 of the packet head is    *)
(* one cell (a piece may end between them) and so is each byte of a body.  *)
(* Body cells range over the same numbers as head cells, so that a frame   *)
(* cut at the wrong place reads as a wrong message.                        *)
(*                                                                         *)
(* The peer runs the same code, so the stream is a concatenation of well   *)
(* formed packets; the connection may end in the middle of one.            *)
(***************************************************************************)
EXTENDS Integers, Sequences

CONSTANTS
  MsgType,             \* message types
  Body,                \* message bodies, sequences of cells
  MESSAGE_BUFFER_SIZE, \* capacity of mBuffer, the longest piece of one read
  MaxSent              \* bound: number of messages the peer sends

ASSUME NetConnectAssumption ==
  /\ MsgType \subseteq Nat
  /\ Body \subseteq Seq(Nat)
  /\ MESSAGE_BUFFER_SIZE \in Nat \ {0}
  /\ MaxSent \in Nat

VARIABLES
  bytes,        \* every cell the peer has put on the wire, in order
  sent,         \* history: the messages the peer has sent
  off,          \* history: off[k] is the position before message k in bytes
  rd,           \* cells received so far: _wpos of mBuffer, counted from the
                \* start of the stream
  used,         \* cells read so far: _rpos of mBuffer, counted likewise
  mReadPacket,  \* cells of the packet being read; <<>> when NULL
  delivered,    \* the messages passed to onMsg
  handle        \* "open", "closing" or "closed"

vars == <<bytes, sent, off, rd, used, mReadPacket, delivered, handle>>

MSG_HEAD_SIZE == 2

Message == [type : MsgType, body : Body]

\* The smaller of two numbers.
Least(a, b) == IF a <= b THEN a ELSE b

-----------------------------------------------------------------------------
(***************************************************************************)
(* The frame: packet head (msglen, msgtype) and body                       *)
(***************************************************************************)

\* Fault: the length field counts the head as well.
Frame_LengthOfAll(m) == <<Len(m.body) + MSG_HEAD_SIZE, m.type>> \o m.body

\* sendMsg + writeHead: the cells of a message on the wire.
Frame(m) == <<Len(m.body), m.type>> \o m.body

\* getMarkLen and getMsgType of a packet whose head is full.
getMarkLen(p) == p[1]
getMsgType(p) == p[2]

isHeadFull(p) == Len(p) >= MSG_HEAD_SIZE

\* The message that onMsg sees: the type and what follows the head.
Content(p) == [type |-> getMsgType(p),
               body |-> SubSeq(p, MSG_HEAD_SIZE + 1, Len(p))]

\* MessageBuffer::GetActiveSize.
ActiveSize == rd - used

\* n cells at GetReadPointer().
NextCells(n) == SubSeq(bytes, used + 1, used + n)

\* Fault: readHead copies all that is there, not only the rest of the head.
HeadTake_All(p) == ActiveSize

\* readHead: what it takes of the active cells.
HeadTake(p) == Least(MSG_HEAD_SIZE - Len(p), ActiveSize)

\* The body branch: what it takes of the active cells.
BodyTake(p) == Least(getMarkLen(p) + MSG_HEAD_SIZE - Len(p), ActiveSize)

-----------------------------------------------------------------------------
Init ==
  /\ bytes = <<>>
  /\ sent = <<>>
  /\ off = <<>>
  /\ rd = 0
  /\ used = 0
  /\ mReadPacket = <<>>
  /\ delivered = <<>>
  /\ handle = "open"

\* The peer sends a message.  Whatever its TcpSocket makes of batches, its
\* packets enter the stream whole and in order (module TcpSocket).
sendMsg(m) ==
  /\ Len(sent) < MaxSent
  /\ sent' = Append(sent, m)
  /\ off' = Append(off, Len(bytes))
  /\ bytes' = bytes \o Frame(m)
  /\ UNCHANGED <<rd, used, mReadPacket, delivered, handle>>

\* echo_read with nread = n > 0.  The previous piece has been read to its end
\* and mBuffer is reset.
echo_read(n) ==
  /\ handle = "open"
  /\ ActiveSize = 0
  /\ n <= Len(bytes) - rd
  /\ rd' = rd + n
  /\ UNCHANGED <<bytes, sent, off, used, mReadPacket, delivered, handle>>

\* One turn of the loop of on_msgbuffer while the head is incomplete.
readHead ==
  /\ ActiveSize > 0
  /\ ~isHeadFull(mReadPacket)
  /\ mReadPacket' = mReadPacket \o NextCells(HeadTake(mReadPacket))
  /\ used' = used + HeadTake(mReadPacket)
  /\ UNCHANGED <<bytes, sent, off, rd, delivered, handle>>

\* Fault: the packet object is kept after onMsg.
readBody_NoRecycle ==
  /\ ActiveSize > 0
  /\ isHeadFull(mReadPacket)
  /\ used' = used + BodyTake(mReadPacket)
  /\ LET p == mReadPacket \o NextCells(BodyTake(mReadPacket)) IN
       IF Len(p) = getMarkLen(p) + MSG_HEAD_SIZE
       THEN /\ delivered' = Append(delivered, Content(p))
            /\ UNCHANGED mReadPacket
            /\ handle' \in {handle, "closing"}
       ELSE /\ mReadPacket' = p
            /\ UNCHANGED <<delivered, handle>>
  /\ UNCHANGED <<bytes, sent, off, rd>>

\* One turn of the loop with a full head: read the body and, if the packet is
\* complete, call onMsg and recycle the packet.  The application may call
\* close() in onMsg; the loop goes on.
readBody ==
  /\ ActiveSize > 0
  /\ isHeadFull(mReadPacket)
  /\ used' = used + BodyTake(mReadPacket)
  /\ LET p == mReadPacket \o NextCells(BodyTake(mReadPacket)) IN
       IF Len(p) = getMarkLen(p) + MSG_HEAD_SIZE
       THEN /\ delivered' = Append(delivered, Content(p))
            /\ mReadPacket' = <<>>
            /\ handle' \in {handle, "closing"}
       ELSE /\ mReadPacket' = p
            /\ UNCHANGED <<delivered, handle>>
  /\ UNCHANGED <<bytes, sent, off, rd>>

\* Fault: the connection is torn down although cells are left to be read.
on_clsesocket_InLoop ==
  /\ handle = "closing"
  /\ handle' = "closed"
  /\ UNCHANGED <<bytes, sent, off, rd, used, mReadPacket, delivered>>

\* close() called from elsewhere, or echo_read with nread < 0.
close ==
  /\ handle = "open"
  /\ ActiveSize = 0
  /\ handle' = "closing"
  /\ UNCHANGED <<bytes, sent, off, rd, used, mReadPacket, delivered>>

\* on_clsesocket: onClose, then ~NetConnect recycles a half-read packet.
on_clsesocket ==
  /\ handle = "closing"
  /\ ActiveSize = 0
  /\ handle' = "closed"
  /\ mReadPacket' = <<>>
  /\ UNCHANGED <<bytes, sent, off, rd, used, delivered>>

Next ==
  \/ \E m \in Message : sendMsg(m)
  \/ \E n \in 1 .. MESSAGE_BUFFER_SIZE : echo_read(n)
  \/ readHead
  \/ readBody
  \/ close
  \/ on_clsesocket

Spec == Init /\ [][Next]_vars

\* The loop of on_msgbuffer runs on, and libuv reads what has arrived.
Fairness ==
  /\ WF_vars(readHead \/ readBody)
  /\ WF_vars(\E n \in 1 .. MESSAGE_BUFFER_SIZE : echo_read(n))

FairSpec == Spec /\ Fairness

-----------------------------------------------------------------------------
(***************************************************************************)
(* Properties                                                              *)
(***************************************************************************)

Handle == {"open", "closing", "closed"}

TypeOK ==
  /\ bytes \in Seq(Nat)
  /\ sent \in Seq(Message)
  /\ off \in Seq(Nat)
  /\ rd \in Nat
  /\ used \in Nat
  /\ mReadPacket \in Seq(Nat)
  /\ delivered \in Seq(Message)
  /\ handle \in Handle

\* However the stream is cut into pieces, onMsg sees exactly the messages of
\* the peer, each once, in order and with its own type and body.
DeliveredInOrder ==
  /\ Len(delivered) <= Len(sent)
  /\ \A k \in 1 .. Len(delivered) : delivered[k] = sent[k]

\* The position after message k in the stream.
EndOf(k) == off[k] + MSG_HEAD_SIZE + Len(sent[k].body)

\* Reading never runs past a message boundary and never loses its place: what
\* has been read is the delivered messages plus the cells of mReadPacket, and
\* mReadPacket reaches at most to the end of the next message.
FramesAligned ==
  handle # "closed" =>
    LET d == Len(delivered) IN
    /\ used = (IF d = 0 THEN 0 ELSE EndOf(d)) + Len(mReadPacket)
    /\ mReadPacket # <<>> => d < Len(sent) /\ used <= EndOf(d + 1)

\* When on_msgbuffer returns, at most one message that has arrived completely
\* is still undelivered: one without a body whose head was the end of the
\* piece, because the loop stops before it looks at the full head.
LagIsOneEmptyMessage ==
  handle # "closed" /\ ActiveSize = 0 =>
    \A k \in Len(delivered) + 1 .. Len(sent) :
      EndOf(k) <= used =>
        /\ k = Len(delivered) + 1
        /\ sent[k].body = <<>>
        /\ EndOf(k) = used

\* on_msgbuffer keeps its place in the stream and keeps up with it.
FramingSound == TypeOK /\ FramesAligned /\ LagIsOneEmptyMessage

\* Every message with a body that has been sent is delivered, with no help of
\* later messages, unless the connection is closed.
EventuallyDelivered ==
  \A k \in 1 .. MaxSent :
    Len(sent) >= k /\ sent[k].body # <<>> ~> Len(delivered) >= k \/ handle # "open"

\* What the application relies on, module MsgChannel: onMsg gets the next
\* message, each once and in order, and nothing after onClose.
Channel == INSTANCE MsgChannel WITH ended <- handle = "closed"

ImplementsChannel == Channel!Spec

=============================================================================
