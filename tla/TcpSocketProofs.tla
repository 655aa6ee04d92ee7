--------------------------- MODULE TcpSocketProofs ---------------------------
(***************************************************************************)
(* Proofs about TcpSocket, for every set of packets, every size function   *)
(* and every value of the two batching limits.                             *)
(***************************************************************************)
EXTENDS TcpSocket, TLAPS, FiniteSetTheorems, SequenceTheorems

-----------------------------------------------------------------------------
(***************************************************************************)
(* Facts about sequences and batches                                       *)
(***************************************************************************)

\* The two halves of a queue.
LEMMA FrontAndBack ==
  ASSUME NEW S, NEW q \in Seq(S), NEW k \in 0 .. Len(q)
  PROVE  /\ SubSeq(q, 1, k) \in Seq(S)
         /\ Len(SubSeq(q, 1, k)) = k
         /\ SubSeq(q, k + 1, Len(q)) \in Seq(S)
  OBVIOUS

\* Taking the first k elements off a queue and appending them to a log loses
\* and reorders nothing (on_writecomplete).
LEMMA MoveFront ==
  ASSUME NEW S, NEW r \in Seq(S), NEW q \in Seq(S), NEW k \in 0 .. Len(q)
  PROVE  (r \o SubSeq(q, 1, k)) \o SubSeq(q, k + 1, Len(q)) = r \o q
<1>1. SubSeq(q, 1, k) \in Seq(S) /\ SubSeq(q, k + 1, Len(q)) \in Seq(S)
  OBVIOUS
<1>2. SubSeq(q, 1, k) \o SubSeq(q, k + 1, Len(q)) = q
  <2>1. /\ 1 \in 1 .. Len(q) + 1
        /\ k \in 1 - 1 .. Len(q)
        /\ Len(q) \in k .. Len(q)
    OBVIOUS
  <2>2. SubSeq(q, 1, k) \o SubSeq(q, k + 1, Len(q)) = SubSeq(q, 1, Len(q))
    BY <2>1, ConcatAdjacentSubSeq, Zenon
  <2> QED
    BY <2>2, SubSeqFull
<1>3. \A a, b \in Seq(S) : (r \o a) \o b = r \o (a \o b)
  BY ConcatAssociative
<1>4. (r \o SubSeq(q, 1, k)) \o SubSeq(q, k + 1, Len(q))
        = r \o (SubSeq(q, 1, k) \o SubSeq(q, k + 1, Len(q)))
  BY <1>1, <1>3, Zenon
<1> QED
  BY <1>2, <1>4

\* Appending to the queue is appending to the log of everything posted (write).
LEMMA AppendBack ==
  ASSUME NEW S, NEW r \in Seq(S), NEW q \in Seq(S), NEW e \in S
  PROVE  Append(r \o q, e) = r \o Append(q, e)
  OBVIOUS

\* The interval 0 .. (m - 1) has m elements.
LEMMA IntervalSize ==
  ASSUME NEW m \in Nat
  PROVE  IsFiniteSet(0 .. (m - 1)) /\ Cardinality(0 .. (m - 1)) = m
  BY FS_Interval

\* No bytes come before the first packet.
LEMMA NoBytesAtFirst ==
  ASSUME NEW q PROVE ByteCount(q, 0) = 0
  BY FS_EmptySet DEF ByteCount

\* A run of send_top_msg collects a prefix of the queue of at most
\* MAX_SEND_PACKET packets, and collects something unless the queue is empty.
LEMMA BatchIsPrefix ==
  ASSUME NEW q \in Seq(Packet)
  PROVE  /\ TopBatch(q) \in Seq(Packet)
         /\ Len(TopBatch(q)) <= Len(q)
         /\ Len(TopBatch(q)) <= MAX_SEND_PACKET
         /\ \A i \in 1 .. Len(TopBatch(q)) : TopBatch(q)[i] = q[i]
         /\ q # <<>> => TopBatch(q) # <<>>
<1> DEFINE P == PushedIterations(q)
           n == Cardinality(P)
<1>1. P \in SUBSET (0 .. (Len(q) - 1))
  BY DEF PushedIterations
<1>2. P \in SUBSET (0 .. (MAX_SEND_PACKET - 1))
  BY TcpSocketAssumption DEF PushedIterations
<1>3. IsFiniteSet(P) /\ n \in Nat /\ n <= Len(q)
  <2>1. IsFiniteSet(0 .. (Len(q) - 1)) /\ Cardinality(0 .. (Len(q) - 1)) = Len(q)
    <3>1. Len(q) \in Nat
      OBVIOUS
    <3> QED
      BY <3>1, IntervalSize
  <2> QED
    BY <1>1, <2>1, FS_Subset, FS_CardinalityType
<1>4. n <= MAX_SEND_PACKET
  <2>1. /\ IsFiniteSet(0 .. (MAX_SEND_PACKET - 1))
        /\ Cardinality(0 .. (MAX_SEND_PACKET - 1)) = MAX_SEND_PACKET
    BY IntervalSize, TcpSocketAssumption
  <2> QED
    BY <1>2, <2>1, FS_Subset
<1>5. q # <<>> => n # 0
  <2> SUFFICES ASSUME q # <<>> PROVE n # 0
    OBVIOUS
  <2>1. 0 \in P
    <3>1. ByteCount(q, 0) < MAX_SEND_BYTE /\ 0 < MAX_SEND_PACKET
      BY NoBytesAtFirst, TcpSocketAssumption
    <3>2. \A i \in 0 .. 0 : i = 0
      OBVIOUS
    <3> QED
      BY <3>1, <3>2 DEF PushedIterations
  <2> QED
    BY <2>1, <1>3, FS_EmptySet
<1>6. /\ TopBatch(q) \in Seq(Packet)
      /\ Len(TopBatch(q)) = n
      /\ \A i \in 1 .. n : TopBatch(q)[i] = q[i]
  BY <1>3 DEF TopBatch
<1> HIDE DEF P, n
<1> QED
  BY <1>3, <1>4, <1>5, <1>6

\* Counting no bytes means that every packet is empty.
LEMMA NoBytesMeansEmpty ==
  ASSUME NEW q \in Seq(Packet), NEW k \in 0 .. Len(q), ~(ByteCount(q, k) > 0)
  PROVE  \A i \in 1 .. k : sendSize[q[i]] = 0
<1> DEFINE Bytes == UNION {{i} \X (1 .. sendSize[q[i]]) : i \in 1 .. k}
<1>1. \A i \in 1 .. k : sendSize[q[i]] \in Nat
  BY TcpSocketAssumption
<1>2. IsFiniteSet(Bytes)
  <2>1. IsFiniteSet(1 .. k)
    BY FS_Interval
  <2>2. IsFiniteSet({{i} \X (1 .. sendSize[q[i]]) : i \in 1 .. k})
    <3> DEFINE T == {{i} \X (1 .. sendSize[q[i]]) : i \in 1 .. k}
               f == [i \in 1 .. k |-> {i} \X (1 .. sendSize[q[i]])]
    <3>1. f \in Surjection(1 .. k, T)
      BY DEF Surjection
    <3> HIDE DEF f, T
    <3>2. IsFiniteSet(T)
      BY <3>1, <2>1, FS_Surjection
    <3> QED
      BY <3>2 DEF T
  <2>3. ASSUME NEW i \in 1 .. k
        PROVE  IsFiniteSet({i} \X (1 .. sendSize[q[i]]))
    <3>1. IsFiniteSet({i}) /\ IsFiniteSet(1 .. sendSize[q[i]])
      <4>1. 1 \in Int /\ sendSize[q[i]] \in Int
        BY <1>1
      <4> QED
        BY <4>1, FS_Singleton, FS_Interval, Zenon
    <3> QED
      BY <3>1, FS_Product
  <2> QED
    BY <2>2, <2>3, FS_UNION
<1>3. Bytes = {}
  <2>1. Cardinality(Bytes) \in Nat /\ ~(Cardinality(Bytes) > 0)
    BY <1>2, FS_CardinalityType DEF ByteCount
  <2>2. Cardinality(Bytes) = 0
    BY <2>1
  <2> QED
    BY <2>2, <1>2, FS_EmptySet, Zenon
<1>4. ASSUME NEW i \in 1 .. k, sendSize[q[i]] # 0 PROVE FALSE
  <2>1. 1 \in 1 .. sendSize[q[i]]
    BY <1>1, <1>4
  <2>2. <<i, 1>> \in Bytes
    BY <2>1
  <2> QED
    BY <2>2, <1>3
<1> QED
  BY <1>4

-----------------------------------------------------------------------------
(***************************************************************************)
(* The inductive invariant                                                 *)
(*                                                                         *)
(* SingleWriteRequest is not inductive alone: that write() submits nothing *)
(* while a request is outstanding follows from mSending being non-empty,   *)
(* and that the deleted packets are those of the finished request follows  *)
(* from mSending being a prefix of mSendPackets.                           *)
(***************************************************************************)

\* mSending describes the packets at the head of the queue.
SendingIsPrefix ==
  /\ Len(mSending) <= Len(mSendPackets)
  /\ \A i \in 1 .. Len(mSending) : mSending[i] = mSendPackets[i]

\* A request that libuv holds is never empty.
RequestNonEmpty == writeq # <<>> => mSending # <<>>

\* Packets never wait on an open connection without a batch being set.
BatchSet == handle = "open" /\ mSendPackets # <<>> => mSending # <<>>

\* A batch without a request, on an open connection, has no bytes.
IdleBatchEmpty ==
  handle = "open" /\ writeq = <<>> =>
    \A i \in 1 .. Len(mSending) : sendSize[mSending[i]] = 0

\* The kernel is ahead of the deletions by what it took of this request.
WireCount ==
  /\ xmit <= Len(mSending)
  /\ writeq = <<>> => xmit = 0
  /\ handle = "open" /\ ~broken => Len(wire) = Len(recycled) + xmit

IInv ==
  /\ TypeOK
  /\ posted = recycled \o mSendPackets
  /\ handle = "closed" => mSendPackets = <<>>
  /\ SingleWriteRequest
  /\ SendingIsPrefix
  /\ RequestNonEmpty
  /\ BatchSet
  /\ IdleBatchEmpty
  /\ WireCount
  /\ WireInOrder

\* What send_top_msg establishes, from any queue and an idle request.
LEMMA SendTopFacts ==
  ASSUME NEW q \in Seq(Packet), TypeOK, send_top_msg(q, <<>>)
  PROVE  /\ mSending' \in Seq(Packet)
         /\ writeq' \in Seq(Seq(Packet))
         /\ Len(mSending') <= Len(q)
         /\ Len(mSending') <= MAX_SEND_PACKET
         /\ \A i \in 1 .. Len(mSending') : mSending'[i] = q[i]
         /\ q # <<>> => mSending' # <<>>
         /\ Len(writeq') <= 1
         /\ writeq' # <<>> => Head(writeq') = mSending' /\ mSending' # <<>>
         /\ handle = "open" /\ writeq' = <<>> =>
              \A i \in 1 .. Len(mSending') : sendSize[mSending'[i]] = 0
         /\ handle # "open" => writeq' = <<>>
<1> DEFINE b == TopBatch(q)
<1>1. /\ b \in Seq(Packet)
      /\ Len(b) <= Len(q)
      /\ Len(b) <= MAX_SEND_PACKET
      /\ \A i \in 1 .. Len(b) : b[i] = q[i]
      /\ q # <<>> => b # <<>>
  BY BatchIsPrefix
<1>2. Len(b) \in 0 .. Len(q)
  BY <1>1
<1>3. ByteCount(q, Len(b)) > 0 => b # <<>>
  BY NoBytesAtFirst
<1>4. ~(ByteCount(q, Len(b)) > 0) => \A i \in 1 .. Len(b) : sendSize[b[i]] = 0
  <2>1. SUFFICES ASSUME ~(ByteCount(q, Len(b)) > 0)
                 PROVE  \A i \in 1 .. Len(b) : sendSize[b[i]] = 0
    OBVIOUS
  <2>2. \A i \in 1 .. Len(b) : sendSize[q[i]] = 0
    BY <1>2, <2>1, NoBytesMeansEmpty
  <2> QED
    BY <2>2, <1>1
<1>5. mSending' = b
  BY DEF send_top_msg
<1>6. writeq' = IF ByteCount(q, Len(b)) > 0 /\ handle = "open" THEN <<b>> ELSE <<>>
  BY DEF send_top_msg, uv_write
<1> HIDE DEF b
<1>7. CASE ByteCount(q, Len(b)) > 0 /\ handle = "open"
  <2>1. writeq' = <<b>>
    BY <1>6, <1>7
  <2> QED
    BY <1>1, <1>3, <1>5, <1>7, <2>1
<1>8. CASE ~(ByteCount(q, Len(b)) > 0 /\ handle = "open")
  <2>1. writeq' = <<>>
    BY <1>6, <1>8
  <2> QED
    BY <1>1, <1>4, <1>5, <1>8, <2>1
<1> QED
  BY <1>7, <1>8

\* The invariant holds of a new socket.
LEMMA InitIInv == Init => IInv
<1> SUFFICES ASSUME Init PROVE IInv
  OBVIOUS
<1> USE DEF Init
<1>1. TypeOK
  <2>1. \A S : <<>> \in Seq(S)
    OBVIOUS
  <2> QED
    BY <2>1 DEF TypeOK, HandleState
<1>2. posted = recycled \o mSendPackets
  BY ConcatEmptySeq
<1> QED
  BY <1>1, <1>2 DEF IInv, SingleWriteRequest, SendingIsPrefix, RequestNonEmpty,
     BatchSet, IdleBatchEmpty, WireCount, WireInOrder

\* write(): the packet goes to the back; a batch is started only if the socket
\* is idle, and then no request is outstanding.
LEMMA WriteIInv ==
  ASSUME IInv, NEW p \in Packet, write(p)
  PROVE  IInv'
<1> USE DEF IInv
<1>1. /\ mSendPackets' = Append(mSendPackets, p)
      /\ mSendPackets' \in Seq(Packet)
      /\ posted' = Append(posted, p)
      /\ posted' \in Seq(Packet)
      /\ Len(mSendPackets') = Len(mSendPackets) + 1
      /\ \A i \in 1 .. Len(mSendPackets) : mSendPackets'[i] = mSendPackets[i]
      /\ Len(posted') = Len(posted) + 1
      /\ \A i \in 1 .. Len(posted) : posted'[i] = posted[i]
      /\ mSendPackets' # <<>>
  <2>1. mSendPackets' = Append(mSendPackets, p) /\ posted' = Append(posted, p)
    BY DEF write
  <2>2. mSendPackets \in Seq(Packet) /\ posted \in Seq(Packet)
    BY DEF TypeOK
  <2> QED
    BY <2>1, <2>2, AppendProperties
<1>2. /\ handle \in {"open", "closing"}
      /\ UNCHANGED <<recycled, xmit, wire, broken, handle, eof, appClosed>>
  BY DEF write, ctlVars
<1>3. posted' = recycled' \o mSendPackets'
  <2>1. recycled \in Seq(Packet) /\ mSendPackets \in Seq(Packet)
    BY DEF TypeOK
  <2>2. Append(recycled \o mSendPackets, p) = recycled \o Append(mSendPackets, p)
    BY <2>1, AppendBack
  <2> QED
    BY <1>1, <1>2, <2>2
<1>4. WireInOrder'
  BY <1>1, <1>2 DEF WireInOrder, TypeOK
<1>5. CASE mSending = <<>>
  <2>1. writeq = <<>>
    BY <1>5 DEF RequestNonEmpty
  <2>2. send_top_msg(mSendPackets', <<>>)
    BY <1>5, <2>1 DEF write
  <2>3. /\ mSending' \in Seq(Packet)
        /\ writeq' \in Seq(Seq(Packet))
        /\ Len(mSending') <= Len(mSendPackets')
        /\ \A i \in 1 .. Len(mSending') : mSending'[i] = mSendPackets'[i]
        /\ mSending' # <<>>
        /\ Len(writeq') <= 1
        /\ writeq' # <<>> => Head(writeq') = mSending'
        /\ handle = "open" /\ writeq' = <<>> =>
             \A i \in 1 .. Len(mSending') : sendSize[mSending'[i]] = 0
    BY <1>1, <2>2, SendTopFacts
  <2>4. TypeOK'
    BY <1>1, <1>2, <2>3 DEF TypeOK
  <2>5. WireCount'
    BY <1>2, <1>5, <2>1, <2>3 DEF WireCount, TypeOK
  <2> QED
    BY <1>1, <1>2, <1>3, <1>4, <2>3, <2>4, <2>5 DEF SingleWriteRequest,
       SendingIsPrefix, RequestNonEmpty, BatchSet, IdleBatchEmpty
<1>6. CASE mSending # <<>>
  <2>1. UNCHANGED <<mSending, writeq>>
    BY <1>6 DEF write
  <2>2. TypeOK'
    BY <1>1, <1>2, <2>1 DEF TypeOK
  <2>3. SendingIsPrefix'
    BY <1>1, <2>1 DEF SendingIsPrefix, TypeOK
  <2> QED
    BY <1>1, <1>2, <1>3, <1>4, <1>6, <2>1, <2>2, <2>3 DEF SingleWriteRequest,
       RequestNonEmpty, BatchSet, IdleBatchEmpty, WireCount
<1> QED
  BY <1>5, <1>6

\* on_writecomplete, whatever the status of the finished request.
LEMMA CompleteIInv ==
  ASSUME IInv, writeq # <<>>, xmit' = 0, on_writecomplete,
         handle \in {"open", "closing"},
         handle = "open" /\ ~broken => xmit = Len(mSending),
         UNCHANGED <<posted, wire, broken, handle, eof, appClosed>>
  PROVE  IInv'
<1> USE DEF IInv
<1> DEFINE k == Len(mSending)
           q == SubSeq(mSendPackets, k + 1, Len(mSendPackets))
<1>1. k \in 0 .. Len(mSendPackets)
  BY DEF TypeOK, SendingIsPrefix
<1>2. /\ recycled' = recycled \o SubSeq(mSendPackets, 1, k)
      /\ mSendPackets' = q
  BY DEF on_writecomplete
<1>0. mSendPackets \in Seq(Packet) /\ recycled \in Seq(Packet)
  BY DEF TypeOK
<1>3. /\ q \in Seq(Packet)
      /\ recycled' \in Seq(Packet)
      /\ Len(recycled') = Len(recycled) + k
  <2>1. /\ SubSeq(mSendPackets, 1, k) \in Seq(Packet)
        /\ Len(SubSeq(mSendPackets, 1, k)) = k
        /\ q \in Seq(Packet)
    BY <1>0, <1>1, FrontAndBack
  <2> QED
    BY <1>0, <1>2, <2>1, ConcatProperties
<1>5. posted' = recycled' \o mSendPackets'
  BY <1>0, <1>1, <1>2, MoveFront
<1>6. Tail(writeq) = <<>>
  BY DEF SingleWriteRequest, TypeOK
<1>7. send_top_msg(q, <<>>)
  BY <1>2, <1>6 DEF on_writecomplete
<1> HIDE DEF q
<1>8. /\ mSending' \in Seq(Packet)
      /\ writeq' \in Seq(Seq(Packet))
      /\ Len(mSending') <= Len(q)
      /\ \A i \in 1 .. Len(mSending') : mSending'[i] = q[i]
      /\ q # <<>> => mSending' # <<>>
      /\ Len(writeq') <= 1
      /\ writeq' # <<>> => Head(writeq') = mSending' /\ mSending' # <<>>
      /\ handle = "open" /\ writeq' = <<>> =>
           \A i \in 1 .. Len(mSending') : sendSize[mSending'[i]] = 0
  BY <1>3, <1>7, SendTopFacts
<1>9. TypeOK'
  BY <1>2, <1>3, <1>8 DEF TypeOK
<1>10. WireCount'
  BY <1>3, <1>8 DEF WireCount, TypeOK
<1>11. WireInOrder'
  BY DEF WireInOrder
<1> QED
  BY <1>2, <1>5, <1>8, <1>9, <1>10, <1>11 DEF SingleWriteRequest,
     SendingIsPrefix, RequestNonEmpty, BatchSet, IdleBatchEmpty

\* The steps that leave the queue and libuv's request alone and do not reopen
\* the handle: close(), echo_read with an error, and a reset by the peer.
LEMMA ControlIInv ==
  ASSUME IInv, close \/ echo_read_error \/ reset
  PROVE  IInv'
<1> USE DEF IInv
<1>1. /\ UNCHANGED <<mSendPackets, mSending, posted, recycled, writeq, xmit, wire>>
      /\ handle' = handle \/ handle' \in {"closing", "aborted"}
      /\ broken' = broken \/ broken' = TRUE
      /\ handle' \in HandleState /\ broken' \in BOOLEAN
      /\ eof' \in BOOLEAN /\ appClosed' \in BOOLEAN
  BY DEF close, echo_read_error, reset, queueVars, netVars, ctlVars, TypeOK,
     HandleState
<1>2. TypeOK'
  BY <1>1 DEF TypeOK
<1>3. WireCount'
  BY <1>1 DEF WireCount
<1> QED
  BY <1>1, <1>2, <1>3 DEF SingleWriteRequest, SendingIsPrefix, RequestNonEmpty,
     BatchSet, IdleBatchEmpty, WireInOrder

\* transmit: the next packet the kernel takes is the next one posted.
LEMMA TransmitIInv ==
  ASSUME IInv, transmit
  PROVE  IInv'
<1> USE DEF IInv
<1>1. /\ handle = "open" /\ ~broken /\ writeq # <<>>
      /\ Head(writeq) = mSending
      /\ xmit < Len(mSending)
      /\ xmit' = xmit + 1
      /\ wire' = Append(wire, mSending[xmit + 1])
      /\ UNCHANGED <<mSendPackets, mSending, posted, recycled, writeq, broken,
                     handle, eof, appClosed>>
  BY DEF transmit, queueVars, ctlVars, SingleWriteRequest
<1>2. xmit + 1 \in 1 .. Len(mSending)
  BY <1>1 DEF TypeOK
<1>3. mSending[xmit + 1] = mSendPackets[xmit + 1] /\ mSending[xmit + 1] \in Packet
  BY <1>2 DEF SendingIsPrefix, TypeOK
<1>4. TypeOK'
  BY <1>1, <1>3 DEF TypeOK
<1>5. /\ Len(wire) = Len(recycled) + xmit
      /\ Len(wire') = Len(wire) + 1
      /\ \A i \in 1 .. Len(wire) : wire'[i] = wire[i]
      /\ wire'[Len(wire) + 1] = mSending[xmit + 1]
  BY <1>1, <1>3 DEF WireCount, TypeOK
<1>6. WireCount'
  BY <1>1, <1>2, <1>5 DEF WireCount, TypeOK
<1>7. WireInOrder'
  <2>1. /\ xmit + 1 <= Len(mSendPackets)
        /\ Len(posted) = Len(recycled) + Len(mSendPackets)
        /\ posted[Len(recycled) + (xmit + 1)] = mSendPackets[xmit + 1]
    BY <1>2 DEF SendingIsPrefix, TypeOK
  <2>2. Len(wire') <= Len(posted') /\ wire'[Len(wire) + 1] = posted[Len(wire) + 1]
    BY <1>1, <1>3, <1>5, <2>1 DEF TypeOK
  <2>3. \A i \in 1 .. Len(wire) : wire'[i] = posted[i]
    BY <1>5 DEF WireInOrder
  <2>4. \A i \in 1 .. Len(wire) + 1 : wire'[i] = posted[i]
    <3>1. Len(wire) \in Nat
      BY DEF TypeOK
    <3>2. \A i \in 1 .. Len(wire) + 1 : i \in 1 .. Len(wire) \/ i = Len(wire) + 1
      BY <3>1
    <3> QED
      BY <2>2, <2>3, <3>2
  <2> QED
    BY <1>1, <1>5, <2>2, <2>4 DEF WireInOrder
<1> QED
  BY <1>1, <1>4, <1>6, <1>7 DEF SingleWriteRequest, SendingIsPrefix,
     RequestNonEmpty, BatchSet, IdleBatchEmpty

\* on_uv_close: everything still queued is deleted with the connection.
LEMMA ClosedIInv ==
  ASSUME IInv, on_uv_close
  PROVE  IInv'
<1> USE DEF IInv
<1>1. /\ writeq = <<>> /\ xmit = 0
      /\ handle' = "closed"
      /\ recycled' = recycled \o mSendPackets
      /\ mSendPackets' = <<>> /\ mSending' = <<>>
      /\ UNCHANGED <<writeq, posted, xmit, wire, broken, eof, appClosed>>
  BY DEF on_uv_close, netVars, WireCount
<1>2. /\ recycled' \in Seq(Packet)
      /\ <<>> \in Seq(Packet)
      /\ posted' = recycled' \o <<>>
  BY <1>1, ConcatEmptySeq DEF TypeOK
<1>3. TypeOK'
  BY <1>1, <1>2 DEF TypeOK, HandleState
<1> QED
  BY <1>1, <1>2, <1>3 DEF SingleWriteRequest, SendingIsPrefix, RequestNonEmpty,
     BatchSet, IdleBatchEmpty, WireCount, WireInOrder, TypeOK

\* Every step keeps the invariant.
LEMMA NextIInv == IInv /\ [Next]_vars => IInv'
<1> SUFFICES ASSUME IInv, [Next]_vars PROVE IInv'
  OBVIOUS
<1>1. ASSUME NEW p \in Packet, write(p) PROVE IInv'
  BY <1>1, WriteIInv
<1>2. CASE close \/ echo_read_error \/ reset
  BY <1>2, ControlIInv
<1>3. CASE transmit
  BY <1>3, TransmitIInv
<1>4. CASE echo_write_ok \/ echo_write_error \/ echo_write_cancel
  <2>1. /\ writeq # <<>> /\ xmit' = 0 /\ on_writecomplete
        /\ handle \in {"open", "closing"}
        /\ UNCHANGED <<posted, wire, broken, handle, eof, appClosed>>
    BY <1>4 DEF echo_write_ok, echo_write_error, echo_write_cancel, ctlVars
  <2>2. handle = "open" /\ ~broken => xmit = Len(mSending)
    BY <1>4 DEF echo_write_ok, echo_write_error, echo_write_cancel, IInv,
       SingleWriteRequest
  <2> QED
    BY <2>1, <2>2, CompleteIInv
<1>5. CASE on_uv_close
  BY <1>5, ClosedIInv
<1>6. CASE UNCHANGED vars
  BY <1>6 DEF vars, IInv, TypeOK, SingleWriteRequest, SendingIsPrefix,
     RequestNonEmpty, BatchSet, IdleBatchEmpty, WireCount, WireInOrder
<1> QED
  BY <1>1, <1>2, <1>3, <1>4, <1>5, <1>6 DEF Next

-----------------------------------------------------------------------------
(***************************************************************************)
(* Theorems                                                                *)
(***************************************************************************)

\* The inductive invariant holds in every reachable state.
THEOREM Invariance == Spec => []IInv
  BY InitIInv, NextIInv, PTL DEF Spec

\* Every variable of the socket keeps its type.
THEOREM TypeCorrect == Spec => []TypeOK
<1>1. IInv => TypeOK
  BY DEF IInv
<1> QED
  BY <1>1, Invariance, PTL

\* m_write_t is never reused while libuv holds it (TcpSocket::write,
\* TcpSocket::on_writecomplete and send_top_msg together).
THEOREM OneRequestAtATime == Spec => []SingleWriteRequest
<1>1. IInv => SingleWriteRequest
  BY DEF IInv
<1> QED
  BY <1>1, Invariance, PTL

\* No packet is leaked, deleted twice or reordered, and a closed connection
\* has deleted all of them (on_writecomplete, release).
THEOREM Conservation == Spec => []PacketsConserved
<1>1. IInv => PacketsConserved
  <2> SUFFICES ASSUME IInv PROVE PacketsConserved
    OBVIOUS
  <2>1. recycled \o <<>> = recycled
    BY ConcatEmptySeq DEF IInv, TypeOK
  <2> QED
    BY <2>1 DEF IInv, PacketsConserved
<1> QED
  BY <1>1, Invariance, PTL

\* libuv never reads a deleted packet.
THEOREM NoUseAfterFree == Spec => []InFlightAlive
<1>1. IInv => InFlightAlive
  <2> SUFFICES ASSUME IInv PROVE InFlightAlive
    OBVIOUS
  <2>1. ASSUME NEW r \in DOMAIN writeq PROVE writeq[r] = mSending
    BY <2>1 DEF IInv, TypeOK, SingleWriteRequest
  <2> QED
    BY <2>1 DEF IInv, TypeOK, SendingIsPrefix, InFlightAlive
<1> QED
  BY <1>1, Invariance, PTL

\* All at once: types, and a pending request owns m_write_t and the buffers it points to.
THEOREM BatchesSafe == Spec => []BatchSafe
<1>1. TypeOK /\ SingleWriteRequest /\ InFlightAlive => BatchSafe
  BY DEF BatchSafe
<1> QED
  BY <1>1, TypeCorrect, OneRequestAtATime, NoUseAfterFree, PTL

\* The byte stream is a prefix of what the application sent.
THEOREM StreamInOrder == Spec => []WireInOrder
<1>1. IInv => WireInOrder
  BY DEF IInv
<1> QED
  BY <1>1, Invariance, PTL

\* On a healthy connection only packets that were sent are deleted.
THEOREM DeletedAfterSent == Spec => []HealthyDelivery
<1>1. IInv => HealthyDelivery
  BY DEF IInv, TypeOK, WireCount, HealthyDelivery
<1> QED
  BY <1>1, Invariance, PTL

\* The packets go out in the order of write(), each before it is deleted.
THEOREM Delivery == Spec => []SentInOrder
<1>1. WireInOrder /\ HealthyDelivery => SentInOrder
  BY DEF SentInOrder
<1> QED
  BY <1>1, StreamInOrder, DeletedAfterSent, PTL

\* The send queue of an open connection never waits for a callback that will
\* not come, unless the batch has no bytes.
THEOREM NeverWedged == Spec => []NoWedge
<1>1. IInv => NoWedge
  BY DEF IInv, TypeOK, BatchSet, IdleBatchEmpty, NoWedge, WedgedByEmpty
<1> QED
  BY <1>1, Invariance, PTL

=============================================================================
