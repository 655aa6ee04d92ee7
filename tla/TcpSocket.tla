------------------------------ MODULE TcpSocket ------------------------------
(***************************************************************************)
(* The outgoing half and the life cycle of one TCP connection:             *)
(* TcpSocketBase / TcpSocket (src/src/network/TcpSocket.{h,cpp}) closed by *)
(* NetConnect::on_clsesocket (src/src/network/NetConnect.cpp).             *)
(*                                                                         *)
(* Everything here runs on the event-loop thread.  What interleaves are    *)
(* libuv's callbacks (write finished, read failed, handle closed), the     *)
(* network, and the application, which may call write() and close() from   *)
(* any callback, of this connection or of another one.                     *)
(*                                                                         *)
(* A packet is an opaque value; sendSize gives the number of bytes of it   *)
(* that go on the wire.  A packet object is written at most once, because  *)
(* sendMsg creates a fresh one for every call.                             *)
(***************************************************************************)
EXTENDS Integers, Sequences, FiniteSets

CONSTANTS
  Packet,           \* the packet objects the application may send
  sendSize,         \* bytes of a packet, BasePacket::sendSize()
  MAX_SEND_BYTE,    \* a batch stops growing once it holds this many bytes
  MAX_SEND_PACKET   \* a batch never holds more packets than this

ASSUME TcpSocketAssumption ==
  /\ sendSize \in [Packet -> Nat]
  /\ MAX_SEND_BYTE \in Nat \ {0}
  /\ MAX_SEND_PACKET \in Nat \ {0}

VARIABLES
  mSendPackets,  \* packets owned by the socket, oldest first
  mSending,      \* buffers handed to the last uv_write, as their packets
  handle,        \* m_uv_tcp: "open", "closing", "closed", or "aborted"
  writeq,        \* requests libuv holds for m_write_t, as their buffers
  xmit,          \* buffers of the head request the kernel has accepted
  wire,          \* packets the kernel has accepted, in order
  broken,        \* the peer has reset the connection: every write fails
  eof,           \* echo_read has seen nread < 0
  appClosed,     \* the application has called close()
  posted,        \* history: the argument of every write(), in order
  recycled       \* history: the argument of every recyclePacket(), in order

queueVars == <<mSendPackets, mSending, posted, recycled>>
netVars   == <<xmit, wire, broken>>
ctlVars   == <<handle, eof, appClosed>>
vars      == <<mSendPackets, mSending, handle, writeq, xmit, wire, broken,
               eof, appClosed, posted, recycled>>

HandleState == {"open", "closing", "closed", "aborted"}

\* The elements of a sequence.
Elems(s) == {s[i] : i \in DOMAIN s}

-----------------------------------------------------------------------------
(***************************************************************************)
(* The batching rule of send_top_msg                                       *)
(***************************************************************************)

\* sumsize after the first k packets of q: the number of their bytes.
ByteCount(q, k) ==
  Cardinality(UNION {{i} \X (1 .. sendSize[q[i]]) : i \in 1 .. k})

\* Iteration j (from 0) of the loop over mSendPackets pushes a buffer iff
\* neither limit made this or an earlier iteration break.
PushedIterations(q) ==
  {j \in 0 .. (Len(q) - 1) :
      \A i \in 0 .. j : ByteCount(q, i) < MAX_SEND_BYTE /\ i < MAX_SEND_PACKET}

\* The buffers that one run of send_top_msg collects from the queue q.
TopBatch(q) == SubSeq(q, 1, Cardinality(PushedIterations(q)))

\* libuv's request queue after uv_write(m_write_t, bufs): the buffer array is
\* copied and the request queued; on a closing handle uv_write returns
\* UV_EBADF, a result that TcpSocket ignores.
uv_write(wq, bufs) == IF handle = "open" THEN Append(wq, bufs) ELSE wq

\* send_top_msg over the queue q, with mSending empty and wq held by libuv.
\* Nothing is written when the collected buffers are all empty.
send_top_msg(q, wq) ==
  /\ mSending' = TopBatch(q)
  /\ writeq' = IF ByteCount(q, Len(TopBatch(q))) > 0
               THEN uv_write(wq, TopBatch(q))
               ELSE wq

\* Fault: the next batch is not started when a request finishes.
on_writecomplete_NoRestart ==
  /\ recycled' = recycled \o SubSeq(mSendPackets, 1, Len(mSending))
  /\ mSendPackets' = SubSeq(mSendPackets, Len(mSending) + 1, Len(mSendPackets))
  /\ mSending' = <<>>
  /\ writeq' = Tail(writeq)

\* on_writecomplete: the packets of the finished request are deleted, whatever
\* its status was, and the next batch is started.
on_writecomplete ==
  /\ recycled' = recycled \o SubSeq(mSendPackets, 1, Len(mSending))
  /\ mSendPackets' = SubSeq(mSendPackets, Len(mSending) + 1, Len(mSendPackets))
  /\ send_top_msg(mSendPackets', Tail(writeq))

-----------------------------------------------------------------------------
Init ==
  /\ mSendPackets = <<>>
  /\ mSending = <<>>
  /\ handle = "open"
  /\ writeq = <<>>
  /\ xmit = 0
  /\ wire = <<>>
  /\ broken = FALSE
  /\ eof = FALSE
  /\ appClosed = FALSE
  /\ posted = <<>>
  /\ recycled = <<>>

\* The application sends a packet.  It may do so until onClose returns, and
\* has no way to know that the handle is already closing.
write(p) ==
  /\ handle \in {"open", "closing"}
  /\ p \notin Elems(posted)
  /\ posted' = Append(posted, p)
  /\ mSendPackets' = Append(mSendPackets, p)
  /\ IF mSending = <<>>
     THEN send_top_msg(mSendPackets', writeq)
     ELSE UNCHANGED <<mSending, writeq>>
  /\ UNCHANGED <<recycled, xmit, wire, broken, ctlVars>>

\* Fault: close() releases the queue at once, not in the close callback.
close_ReleasesQueue ==
  /\ handle = "open"
  /\ ~appClosed
  /\ appClosed' = TRUE
  /\ handle' = "closing"
  /\ recycled' = recycled \o mSendPackets
  /\ mSendPackets' = <<>>
  /\ mSending' = <<>>
  /\ UNCHANGED <<posted, writeq, netVars, eof>>

\* close(), called by the application, which calls it at most once.  It does
\* not know that a read error may already have closed the handle, and libuv's
\* uv_close asserts that the handle is not closing: the process aborts.
close ==
  /\ handle \in {"open", "closing"}
  /\ ~appClosed
  /\ appClosed' = TRUE
  /\ handle' = IF handle = "open" THEN "closing" ELSE "aborted"
  /\ UNCHANGED <<queueVars, writeq, netVars, eof>>

\* echo_read with nread < 0 (end of file or a read error).  uv_close stops
\* reading, so it never runs on a closing handle.
echo_read_error ==
  /\ handle = "open"
  /\ handle' = "closing"
  /\ eof' = TRUE
  /\ UNCHANGED <<queueVars, writeq, netVars, appClosed>>

\* The kernel accepts the next buffer of the request that libuv is writing.
\* Only whole packets are counted: a partly written one is not on the wire.
transmit ==
  /\ handle = "open"
  /\ ~broken
  /\ writeq # <<>>
  /\ xmit < Len(Head(writeq))
  /\ xmit' = xmit + 1
  /\ wire' = Append(wire, Head(writeq)[xmit + 1])
  /\ UNCHANGED <<queueVars, writeq, broken, ctlVars>>

\* The peer resets the connection.
reset ==
  /\ handle = "open"
  /\ ~broken
  /\ broken' = TRUE
  /\ UNCHANGED <<queueVars, writeq, xmit, wire, ctlVars>>

\* Fault: a partly written request is taken for a finished one.
echo_write_ok_Partial ==
  /\ handle = "open"
  /\ writeq # <<>>
  /\ xmit' = 0
  /\ on_writecomplete
  /\ UNCHANGED <<posted, wire, broken, ctlVars>>

\* echo_write with status 0: the whole request is in the kernel.
echo_write_ok ==
  /\ handle = "open"
  /\ writeq # <<>>
  /\ xmit = Len(Head(writeq))
  /\ xmit' = 0
  /\ on_writecomplete
  /\ UNCHANGED <<posted, wire, broken, ctlVars>>

\* echo_write with an error status: logged, then treated like a success.
echo_write_error ==
  /\ handle = "open"
  /\ writeq # <<>>
  /\ broken
  /\ xmit' = 0
  /\ on_writecomplete
  /\ UNCHANGED <<posted, wire, broken, ctlVars>>

\* echo_write while the handle closes: libuv finishes every request it still
\* holds (UV_ECANCELED unless already written) before the close callback.
echo_write_cancel ==
  /\ handle = "closing"
  /\ writeq # <<>>
  /\ xmit' = 0
  /\ on_writecomplete
  /\ UNCHANGED <<posted, wire, broken, ctlVars>>

\* Fault: the destructor forgets the packets that are still queued.
on_uv_close_NoRelease ==
  /\ handle = "closing"
  /\ writeq = <<>>
  /\ handle' = "closed"
  /\ mSendPackets' = <<>>
  /\ mSending' = <<>>
  /\ UNCHANGED <<recycled, writeq, posted, netVars, eof, appClosed>>

\* on_uv_close -> on_clsesocket: onClose, then the connection is destroyed and
\* ~TcpSocket releases every packet that is still queued.
on_uv_close ==
  /\ handle = "closing"
  /\ writeq = <<>>
  /\ handle' = "closed"
  /\ recycled' = recycled \o mSendPackets
  /\ mSendPackets' = <<>>
  /\ mSending' = <<>>
  /\ UNCHANGED <<writeq, posted, netVars, eof, appClosed>>

Next ==
  \/ \E p \in Packet : write(p)
  \/ close
  \/ echo_read_error
  \/ transmit
  \/ reset
  \/ echo_write_ok
  \/ echo_write_error
  \/ echo_write_cancel
  \/ on_uv_close

\* The event loop runs every callback that is due, and the peer keeps reading,
\* so the kernel keeps accepting bytes.  The application, the peer's reset and
\* the end of the stream are not fair: they may never happen.
Fairness ==
  /\ WF_vars(transmit)
  /\ WF_vars(echo_write_ok)
  /\ WF_vars(echo_write_error)
  /\ WF_vars(echo_write_cancel)
  /\ WF_vars(on_uv_close)

Spec == Init /\ [][Next]_vars

FairSpec == Spec /\ Fairness

-----------------------------------------------------------------------------
(***************************************************************************)
(* Properties                                                              *)
(***************************************************************************)

TypeOK ==
  /\ mSendPackets \in Seq(Packet)
  /\ mSending \in Seq(Packet)
  /\ handle \in HandleState
  /\ writeq \in Seq(Seq(Packet))
  /\ xmit \in Nat
  /\ wire \in Seq(Packet)
  /\ broken \in BOOLEAN
  /\ eof \in BOOLEAN
  /\ appClosed \in BOOLEAN
  /\ posted \in Seq(Packet)
  /\ recycled \in Seq(Packet)

\* The socket has one uv_write_t, m_write_t.  It is never handed to libuv
\* again while libuv still holds it: at most one request is outstanding, and
\* its buffers are exactly mSending, however write(), failed writes and close()
\* interleave.
SingleWriteRequest ==
  /\ Len(writeq) <= 1
  /\ writeq # <<>> => Head(writeq) = mSending

\* Packets are neither leaked, nor deleted twice, nor reordered: every packet
\* given to write() is either deleted or still queued, in the order of the
\* calls.  In particular a destroyed connection has deleted all of them.
PacketsConserved ==
  /\ posted = recycled \o mSendPackets
  /\ handle = "closed" => recycled = posted

\* libuv never reads freed memory: the packets behind the buffers of an
\* outstanding request are at the head of mSendPackets, so none is deleted.
InFlightAlive ==
  \A r \in DOMAIN writeq :
    /\ Len(writeq[r]) <= Len(mSendPackets)
    /\ \A i \in 1 .. Len(writeq[r]) : writeq[r][i] = mSendPackets[i]

\* The pending request owns its memory, m_write_t and the packets' buffers alike,
\* and the send path's variables have their types.
BatchSafe == TypeOK /\ SingleWriteRequest /\ InFlightAlive

\* What reaches the kernel is a prefix of what the application wrote, in its
\* order: batching, failed writes and closing never reorder, repeat or skip a
\* packet in the byte stream.
WireInOrder ==
  /\ Len(wire) <= Len(posted)
  /\ \A i \in 1 .. Len(wire) : wire[i] = posted[i]

\* While the connection is healthy a packet is deleted only after the kernel
\* has taken it: on_writecomplete never drops a packet that was not sent.
HealthyDelivery ==
  handle = "open" /\ ~broken => Len(recycled) <= Len(wire)

\* The peer gets the packets in order, and none is deleted before it is sent.
SentInOrder == WireInOrder /\ HealthyDelivery

\* mSending is filled with packets without any bytes: nothing is written, no
\* callback will come.
WedgedByEmpty ==
  mSending # <<>> /\ \A i \in 1 .. Len(mSending) : sendSize[mSending[i]] = 0

\* The send queue of an open connection is never wedged: while packets wait, a
\* request is outstanding whose callback will continue the queue.  The one
\* exception is a batch with no bytes at all, for which send_top_msg leaves
\* mSending filled without writing anything.
NoWedge ==
  handle = "open" /\ mSendPackets # <<>> =>
    \/ writeq # <<>>
    \/ WedgedByEmpty

\* Every packet is eventually deleted, sent or not, unless the process aborts
\* or it is stuck behind packets without bytes (NetPacket and WebSocketPacket
\* carry a head, so theirs never are).
EventuallyRecycled ==
  \A p \in Packet :
    p \in Elems(posted) ~>
      p \in Elems(recycled) \/ handle = "aborted" \/ WedgedByEmpty

==============================================================================
