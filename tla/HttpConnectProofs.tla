------------------------- MODULE HttpConnectProofs -------------------------
(***************************************************************************)
(* Proofs about HttpConnect, for any requests, sizes, number of            *)
(* connections that one object serves and calls of the script.             *)
(*                                                                         *)
(* ReuseIsSafe is about the queue of responses: while the object is in the *)
(* pool, it holds late ones only, whatever the parser returns.             *)
(* RequestsAreInOrder is about the reader.                                 *)
(***************************************************************************)
EXTENDS HttpConnect, TLAPS, SequenceTheorems

----------------------------------------------------------------------------
(***************************************************************************)
(* The inductive invariant                                                 *)
(***************************************************************************)

\* The responses are late, or for the client of the connection.
Late(s) == \A i \in 1 .. Len(s) : s[i].late
Home(s) == \A i \in 1 .. Len(s) : s[i].late \/ s[i].to = conn

QueueTypes ==
  /\ conn \in 0 .. MaxConn
  /\ handle \in {"pooled", "open", "closing", "aborted"}
  /\ mSendPackets \in Seq(Response)
  /\ mSending \in 0 .. Len(mSendPackets)
  /\ inflight \in BOOLEAN
  /\ wire \in Seq(Response)
  /\ kept \in SUBSET (1 .. conn)
  /\ since \in 1 .. conn + 1
  /\ later \in 0 .. MaxLater

\* No callback of libuv is running and none is to come for a pooled object.
QueueInv ==
  /\ QueueTypes
  /\ Home(wire)
  /\ QueueMoves
  /\ handle = "pooled" => pc = "idle" /\ ~inflight /\ Late(mSendPackets)
  /\ handle # "pooled" => conn \in 1 .. MaxConn /\ Home(mSendPackets)

----------------------------------------------------------------------------
(***************************************************************************)
(* The steps                                                               *)
(***************************************************************************)

\* close() never puts an object into the pool, or opens it.
LEMMA ClosedHandles ==
  ASSUME NEW h
  PROVE  Closed(h) \in {"closing", "aborted"}
BY DEF Closed

\* Steps that touch neither the queue nor what was written, and leave the
\* object out of the pool.
LEMMA QueueKept ==
  ASSUME QueueInv, UNCHANGED <<sendVars, conn>>, kept' \in SUBSET (1 .. conn),
         since' = since, later' \in 0 .. MaxLater,
         handle \in {"open", "closing", "aborted"}, handle' \in {handle, "closing", "aborted"}
  PROVE  QueueInv'
<1>1. QueueTypes'
  BY DEF QueueInv, QueueTypes, sendVars
<1>2. QueueMoves'
  BY DEF QueueInv, QueueMoves, sendVars
<1> QED
  BY <1>1, <1>2 DEF QueueInv, Home, sendVars

\* The loop of on_msgbuffer up to the call of the server.
LEMMA ReadStep ==
  ASSUME QueueInv, headFound \/ headNotFound \/ readContent \/ readContentOverrun
  PROVE  QueueInv'
<1>1. pc # "idle"
  BY DEF headFound, headNotFound, readContent, readContentOverrun, AtContent
<1>2. handle \in {"open", "closing", "aborted"}
  BY <1>1 DEF QueueInv, QueueTypes
<1>3. UNCHANGED <<sendVars, conn, kept, since, later>>
  BY DEF headFound, headNotFound, readContent, readContentOverrun, peerVars, scriptVars
<1>4. handle' \in {handle, "closing", "aborted"}
  <2>1. CASE headFound
    BY <1>2, <2>1, ClosedHandles DEF headFound
  <2>2. CASE headNotFound
    BY <1>2, <2>2, ClosedHandles DEF headNotFound
  <2>3. CASE readContent \/ readContentOverrun
    BY <1>2, <2>3 DEF readContent, readContentOverrun
  <2> QED
    BY <2>1, <2>2, <2>3
<1>5. kept' \in SUBSET (1 .. conn) /\ later' \in 0 .. MaxLater
  BY <1>3 DEF QueueInv, QueueTypes
<1> QED
  BY <1>2, <1>3, <1>4, <1>5, QueueKept

\* A response is put behind the others.
LEMMA Written ==
  ASSUME QueueTypes, NEW c \in 1 .. MaxConn, NEW open \in BOOLEAN, write(c, open)
  PROVE  /\ mSendPackets' \in Seq(Response) /\ mSending' \in 0 .. Len(mSendPackets')
         /\ inflight' \in BOOLEAN
         /\ mSending = 0 => inflight' = open
         /\ mSending # 0 => inflight' = inflight /\ mSendPackets # << >>
         /\ Len(mSendPackets) \in Nat /\ Len(mSendPackets') = Len(mSendPackets) + 1
         /\ \A i \in 1 .. Len(mSendPackets) : mSendPackets'[i] = mSendPackets[i]
         /\ mSendPackets'[Len(mSendPackets) + 1].to = c
         /\ mSendPackets'[Len(mSendPackets) + 1].late <=> handle = "pooled" \/ c # conn
<1> DEFINE x == [to |-> c, late |-> handle = "pooled" \/ c # conn]
<1>1. x \in Response
  BY DEF Response
<1>2. PICK y \in Response, s \in Seq(Response) : y = x /\ s = mSendPackets
  BY <1>1 DEF QueueTypes
<1>3. /\ Append(s, y) \in Seq(Response) /\ Len(s) \in Nat /\ Len(Append(s, y)) = Len(s) + 1
      /\ Append(s, y)[Len(s) + 1] = y /\ \A i \in 1 .. Len(s) : Append(s, y)[i] = s[i]
  BY AppendProperties, LenProperties
<1>4. mSendPackets' = Append(s, y)
  BY <1>2 DEF write
<1>5. /\ mSending' = IF mSending = 0 THEN Len(mSendPackets') ELSE mSending
      /\ inflight' = IF mSending = 0 THEN open ELSE inflight
      /\ mSending \in 0 .. Len(s) /\ inflight \in BOOLEAN
  BY <1>2 DEF write, QueueTypes
<1>6. mSending # 0 => s # << >>
  BY <1>5
<1>7. y.to = c /\ (y.late <=> handle = "pooled" \/ c # conn)
  BY <1>2
<1>8. /\ mSendPackets' \in Seq(Response) /\ Len(mSendPackets') = Len(s) + 1
      /\ mSendPackets'[Len(s) + 1] = y /\ \A i \in 1 .. Len(s) : mSendPackets'[i] = s[i]
  BY <1>3, <1>4
<1>9. mSending' \in 0 .. Len(mSendPackets')
  BY <1>3, <1>5, <1>8
<1> HIDE DEF x
<1> QED
  BY <1>2, <1>3, <1>5, <1>6, <1>7, <1>8, <1>9

\* Late or not, a response leaves the queue in order.
LEMMA WrittenQueue ==
  ASSUME QueueInv, NEW c \in kept \cup (IF pc = "idle" THEN {} ELSE {conn}),
         NEW open \in BOOLEAN, write(c, open), UNCHANGED <<conn, wire, since>>,
         kept' \in SUBSET (1 .. conn), later' \in 0 .. MaxLater,
         handle' \in {handle, "closing"}, handle = "pooled" => handle' = "pooled" /\ pc' = "idle" /\ ~open,
         handle' = "open" => open
  PROVE  QueueInv'
<1>1. c \in 1 .. MaxConn
  <2>1. conn \in 0 .. MaxConn /\ kept \in SUBSET (1 .. conn)
    BY DEF QueueInv, QueueTypes
  <2>2. CASE c \in kept
    BY <2>1, <2>2, HttpConnectAssumption
  <2>3. CASE c \notin kept
    BY <2>3 DEF QueueInv
  <2> QED
    BY <2>2, <2>3
<1>2. QueueTypes
  BY DEF QueueInv
<1>3. PICK n \in Nat :
         /\ n = Len(mSendPackets)
         /\ mSendPackets' \in Seq(Response) /\ mSending' \in 0 .. Len(mSendPackets')
         /\ inflight' \in BOOLEAN
         /\ mSending = 0 => inflight' = open
         /\ mSending # 0 => inflight' = inflight /\ mSendPackets # << >>
         /\ Len(mSendPackets') = n + 1
         /\ \A i \in 1 .. n : mSendPackets'[i] = mSendPackets[i]
         /\ mSendPackets'[n + 1].to = c
         /\ mSendPackets'[n + 1].late <=> handle = "pooled" \/ c # conn
  BY <1>1, <1>2, Written
<1>4. QueueTypes'
  BY <1>2, <1>3 DEF QueueTypes
<1>5. Home(wire)'
  BY DEF QueueInv, Home
<1>6. QueueMoves'
  <2> SUFFICES ASSUME handle' = "open", ~inflight' PROVE \E i \in 1 .. n + 1 : mSendPackets'[i].late
    BY <1>3 DEF QueueMoves
  <2>0. handle = "open" /\ open
    OBVIOUS
  <2>3. mSending # 0
    BY <1>3, <2>0
  <2>1. handle = "open" /\ ~inflight /\ mSendPackets # << >>
    BY <1>3, <2>0, <2>3
  <2>2. PICK i \in 1 .. n : mSendPackets[i].late
    BY <1>3, <2>1 DEF QueueInv, QueueMoves
  <2> QED
    BY <1>3, <2>2
<1>7. CASE handle = "pooled"
  <2>1. ~inflight'
    BY <1>3, <1>7 DEF QueueInv
  <2>2. Late(mSendPackets)'
    <3>1. \A i \in 1 .. n : mSendPackets'[i].late
      BY <1>3, <1>7 DEF QueueInv, Late
    <3>2. \A i \in 1 .. n + 1 : i \in 1 .. n \/ i = n + 1
      OBVIOUS
    <3> QED
      BY <1>3, <1>7, <3>1, <3>2 DEF Late
  <2> QED
    BY <1>4, <1>5, <1>6, <1>7, <2>1, <2>2 DEF QueueInv
<1>8. CASE handle # "pooled"
  <2>1. handle' # "pooled" /\ conn' \in 1 .. MaxConn
    BY <1>8 DEF QueueInv
  <2>2. Home(mSendPackets)'
    <3>1. \A i \in 1 .. n : mSendPackets'[i].late \/ mSendPackets'[i].to = conn'
      BY <1>3, <1>8 DEF QueueInv, Home
    <3>2. \A i \in 1 .. n + 1 : i \in 1 .. n \/ i = n + 1
      OBVIOUS
    <3>3. mSendPackets'[n + 1].late \/ mSendPackets'[n + 1].to = conn'
      BY <1>3
    <3> QED
      BY <1>3, <3>1, <3>2, <3>3 DEF Home
  <2> QED
    BY <1>4, <1>5, <1>6, <2>1, <2>2 DEF QueueInv
<1> QED
  BY <1>7, <1>8

\* The server is called and may answer and close.
LEMMA CompleteStep ==
  ASSUME QueueInv, complete
  PROVE  QueueInv'
<1>1. /\ pc # "idle" /\ callback /\ UNCHANGED <<conn, wire, since, later>>
      /\ kept' = kept \cup {conn}
  BY DEF complete, AtContent, peerVars
<1>2. handle \in {"open", "closing", "aborted"} /\ conn \in 1 .. MaxConn
  BY <1>1 DEF QueueInv, QueueTypes
<1>3. kept' \in SUBSET (1 .. conn) /\ later' \in 0 .. MaxLater
  BY <1>1, <1>2 DEF QueueInv, QueueTypes
<1>4. PICK answer \in BOOLEAN, leave \in BOOLEAN :
        /\ handle' = IF leave THEN "closing" ELSE handle
        /\ leave => handle = "open"
        /\ IF answer
           THEN \E open \in {handle = "open", handle' = "open"} : write(conn, open)
           ELSE UNCHANGED <<mSendPackets, mSending, inflight>>
  BY <1>1 DEF callback
<1>5. CASE ~answer
  BY <1>1, <1>2, <1>3, <1>4, <1>5, QueueKept DEF sendVars
<1>6. CASE answer
  <2>1. PICK open \in {handle = "open", handle' = "open"} : write(conn, open)
    BY <1>4, <1>6
  <2>2. handle' = "open" => handle = "open"
    BY <1>4
  <2>3. open \in BOOLEAN /\ (handle' = "open" => open)
    BY <2>1, <2>2
  <2>4. handle' \in {handle, "closing"}
    BY <1>4
  <2> QED
    BY <1>1, <1>2, <1>3, <2>1, <2>3, <2>4, WrittenQueue
<1> QED
  BY <1>5, <1>6

\* A call of the script outside the callbacks.
LEMMA LaterStep ==
  ASSUME QueueInv, NEW c \in 1 .. MaxConn, answerLater(c) \/ closeLater(c) \/ useFreed(c)
  PROVE  QueueInv'
<1>1. /\ c \in kept /\ pc = "idle" /\ handle # "aborted" /\ later < MaxLater /\ later' = later + 1
      /\ UNCHANGED <<conn, wire, kept, since, pc>>
  BY DEF answerLater, closeLater, useFreed, Later, peerVars, readVars
<1>2. kept' \in SUBSET (1 .. conn) /\ later' \in 0 .. MaxLater /\ conn \in 1 .. MaxConn
  BY <1>1, HttpConnectAssumption DEF QueueInv, QueueTypes
<1>3. CASE answerLater(c)
  <2>1. write(c, handle = "open") /\ handle' = handle
    BY <1>3 DEF answerLater
  <2>2. PICK open \in BOOLEAN : open = (handle = "open")
    OBVIOUS
  <2> QED
    BY <1>1, <1>2, <2>1, <2>2, WrittenQueue
<1>4. CASE closeLater(c) \/ useFreed(c)
  <2>1. handle' \in {"closing", "aborted"} /\ UNCHANGED <<mSendPackets, mSending, inflight>>
    BY <1>4, ClosedHandles DEF closeLater, useFreed
  <2>2. QueueTypes' /\ QueueMoves'
    BY <1>1, <1>2, <2>1 DEF QueueInv, QueueTypes, QueueMoves
  <2>3. Home(mSendPackets)' /\ Home(wire)'
    <3>1. Late(mSendPackets) \/ Home(mSendPackets)
      BY DEF QueueInv
    <3> QED
      BY <1>1, <2>1, <3>1 DEF QueueInv, Home, Late
  <2> QED
    BY <1>1, <1>2, <2>1, <2>2, <2>3 DEF QueueInv
<1> QED
  BY <1>3, <1>4

\* The end of a write: the batch is taken off and the next one is written.
LEMMA WriteStep ==
  ASSUME QueueInv, on_writecomplete, handle \in {"open", "closing"},
         UNCHANGED <<conn, kept, since, later>>,
         wire' = wire \/ wire' = wire \o SubSeq(mSendPackets, 1, mSending)
  PROVE  QueueInv'
<1>0. PICK n \in Nat : n = Len(mSendPackets)
  BY LenProperties DEF QueueInv, QueueTypes
<1>1. mSending \in 0 .. n /\ mSendPackets \in Seq(Response) /\ wire \in Seq(Response)
      /\ Home(mSendPackets) /\ Home(wire) /\ conn \in 1 .. MaxConn
  BY <1>0 DEF QueueInv, QueueTypes
<1>2. PICK rest : rest = SubSeq(mSendPackets, mSending + 1, n)
  OBVIOUS
<1>3. /\ handle' = handle \/ handle' = Closed(handle)
      /\ mSendPackets' = rest /\ mSending' = Len(rest)
      /\ inflight' = (rest # << >> /\ handle' = "open")
  BY <1>0, <1>2 DEF on_writecomplete
<1>4. handle' \in {"open", "closing", "aborted"}
  BY <1>3, ClosedHandles
<1>5. /\ rest \in Seq(Response) /\ Len(rest) = n - mSending
      /\ \A i \in 1 .. Len(rest) : rest[i] = mSendPackets[mSending + i]
  BY <1>0, <1>1, <1>2, SubSeqProperties
<1>6. \A i \in 1 .. Len(rest) : rest[i].late \/ rest[i].to = conn
  <2>1. ASSUME NEW i \in 1 .. Len(rest) PROVE rest[i].late \/ rest[i].to = conn
    <3>1. mSending + i \in 1 .. Len(mSendPackets)
      BY <1>0, <1>1, <1>5
    <3> QED
      BY <1>1, <1>5, <3>1 DEF Home
  <2> QED
    BY <2>1
<1>7. wire' \in Seq(Response) /\ \A i \in 1 .. Len(wire') : wire'[i].late \/ wire'[i].to = conn
  <2>1. CASE wire' = wire
    BY <1>1, <2>1 DEF Home
  <2>2. CASE wire' = wire \o SubSeq(mSendPackets, 1, mSending)
    <3>1. PICK s : s = SubSeq(mSendPackets, 1, mSending)
      OBVIOUS
    <3>2. s \in Seq(Response) /\ \A i \in 1 .. Len(s) : s[i].late \/ s[i].to = conn
      <4>1. /\ s \in Seq(Response) /\ Len(s) = mSending
            /\ \A i \in 1 .. Len(s) : s[i] = mSendPackets[i] /\ i \in 1 .. Len(mSendPackets)
        BY <1>0, <1>1, <3>1, SubSeqProperties
      <4> QED
        BY <1>1, <4>1 DEF Home
    <3>3. PICK w \in Seq(Response) : w = wire /\ \A i \in 1 .. Len(w) : w[i].late \/ w[i].to = conn
      BY <1>1 DEF Home
    <3>4. /\ w \o s \in Seq(Response) /\ Len(w \o s) = Len(w) + Len(s)
          /\ \A i \in 1 .. Len(w) + Len(s) : (w \o s)[i] = IF i <= Len(w) THEN w[i] ELSE s[i - Len(w)]
      BY <3>2, <3>3, ConcatProperties
    <3>5. Len(w) \in Nat /\ Len(s) \in Nat
      BY <3>2, <3>3, LenProperties
    <3>6. ASSUME NEW i \in 1 .. Len(w) + Len(s)
          PROVE  (w \o s)[i].late \/ (w \o s)[i].to = conn
      <4>1. CASE i <= Len(w)
        BY <3>3, <3>4, <3>5, <4>1
      <4>2. CASE ~(i <= Len(w))
        <5>1. i - Len(w) \in 1 .. Len(s) /\ (w \o s)[i] = s[i - Len(w)]
          BY <3>4, <3>5, <4>2
        <5> QED
          BY <3>2, <5>1
      <4> QED
        BY <4>1, <4>2
    <3> QED
      BY <2>2, <3>1, <3>3, <3>4, <3>6
  <2> QED
    BY <2>1, <2>2
<1>8. QueueTypes'
  <2>1. Len(rest) \in 0 .. Len(rest) /\ inflight' \in BOOLEAN
    BY <1>3, <1>5, LenProperties
  <2> QED
    BY <1>3, <1>4, <1>5, <1>7, <2>1 DEF QueueInv, QueueTypes
<1>9. QueueMoves'
  BY <1>3 DEF QueueMoves
<1>10. Home(mSendPackets)' /\ Home(wire)' /\ handle' # "pooled" /\ conn' \in 1 .. MaxConn
  BY <1>1, <1>3, <1>4, <1>6, <1>7 DEF Home
<1> QED
  BY <1>8, <1>9, <1>10 DEF QueueInv

\* The queue is empty at first.
LEMMA QueueInit ==
  ASSUME Init
  PROVE  QueueInv
<1>1. mSendPackets = << >> /\ wire = << >> /\ << >> \in Seq(Response) /\ Len(<< >>) = 0
  BY DEF Init
<1>2. QueueTypes
  <2>1. /\ conn = 0 /\ handle = "pooled" /\ mSending = 0 /\ inflight \in BOOLEAN
        /\ kept = {} /\ since = 1 /\ later = 0
    BY DEF Init
  <2>2. mSendPackets \in Seq(Response) /\ wire \in Seq(Response) /\ Len(mSendPackets) = 0
    BY <1>1
  <2> QED
    BY <2>1, <2>2, HttpConnectAssumption DEF QueueTypes
<1> QED
  BY <1>1, <1>2 DEF Init, QueueInv, QueueMoves, Home, Late

\* The object is taken out of the pool with the queue that it has.
LEMMA AcceptStep ==
  ASSUME QueueInv, accept
  PROVE  QueueInv'
<1>1. /\ handle = "pooled" /\ conn < MaxConn /\ conn' = conn + 1 /\ handle' = "open" /\ wire' = << >>
      /\ UNCHANGED <<mSendPackets, mSending, inflight, kept, since, later>>
  BY DEF accept, scriptVars
<1>2. Late(mSendPackets) /\ ~inflight
  BY <1>1 DEF QueueInv
<1>3. conn' \in 1 .. MaxConn /\ kept' \in SUBSET (1 .. conn') /\ since' \in 1 .. conn' + 1
  BY <1>1, HttpConnectAssumption DEF QueueInv, QueueTypes
<1>4. wire' \in Seq(Response) /\ Home(wire)'
  BY <1>1 DEF Home
<1>5. QueueTypes'
  BY <1>1, <1>3, <1>4 DEF QueueInv, QueueTypes
<1>6. QueueMoves'
  <2>1. mSendPackets # << >> => 1 \in 1 .. Len(mSendPackets)
    BY EmptySeq, LenProperties DEF QueueInv, QueueTypes
  <2> QED
    BY <1>1, <1>2, <2>1 DEF QueueMoves, Late
<1>7. Home(mSendPackets)'
  BY <1>1, <1>2 DEF Home, Late
<1> QED
  BY <1>1, <1>3, <1>4, <1>5, <1>6, <1>7 DEF QueueInv

\* Every step keeps the queue in order.
LEMMA QueueStep ==
  ASSUME QueueInv, [Next]_vars
  PROVE  QueueInv'
<1>0. kept \in SUBSET (1 .. conn) /\ later \in 0 .. MaxLater
  BY DEF QueueInv, QueueTypes
<1>1. CASE accept
  BY <1>1, AcceptStep
<1>2. ASSUME NEW r \in Request, sendRequest(r) PROVE QueueInv'
  <2>1. handle \in {"open", "closing"} /\ UNCHANGED <<handle, sendVars, conn, scriptVars>>
    BY <1>2 DEF sendRequest
  <2> QED
    BY <1>0, <2>1, QueueKept DEF scriptVars
<1>3. ASSUME NEW n \in 1 .. MESSAGE_BUFFER_SIZE, echo_read(n) PROVE QueueInv'
  <2>1. handle = "open" /\ UNCHANGED <<handle, sendVars, conn, scriptVars>>
    BY <1>3 DEF echo_read, peerVars
  <2> QED
    BY <1>0, <2>1, QueueKept DEF scriptVars
<1>4. CASE on_msgbuffer
  BY <1>4, ReadStep, CompleteStep DEF on_msgbuffer
<1>5. CASE echo_read_error
  <2>1. handle = "open" /\ handle' = "closing" /\ UNCHANGED <<sendVars, conn, scriptVars>>
    BY <1>5 DEF echo_read_error, peerVars
  <2> QED
    BY <1>0, <2>1, QueueKept DEF scriptVars
<1>6. CASE echo_write \/ echo_write_error
  BY <1>6, WriteStep DEF echo_write, echo_write_error, peerVars, scriptVars
<1>7. CASE on_uv_close
  <2>1. /\ handle' = "pooled" /\ pc = "idle" /\ pc' = "idle" /\ ~inflight /\ mSendPackets' = << >>
        /\ mSending' = 0 /\ UNCHANGED <<conn, wire, inflight, kept, later>>
        /\ since' = since \/ since' = conn + 1
    BY <1>7 DEF on_uv_close, peerVars
  <2>2. << >> \in Seq(Response) /\ Len(<< >>) = 0
    OBVIOUS
  <2>3. QueueTypes'
    BY <2>1, <2>2, HttpConnectAssumption DEF QueueInv, QueueTypes
  <2> QED
    BY <2>1, <2>2, <2>3 DEF QueueInv, QueueMoves, Home, Late
<1>8. ASSUME NEW c \in 1 .. MaxConn, answerLater(c) \/ closeLater(c) \/ useFreed(c) PROVE QueueInv'
  BY <1>8, LaterStep
<1>9. CASE UNCHANGED vars
  BY <1>9 DEF vars, QueueInv, QueueTypes, QueueMoves, Home, Late
<1> QED
  BY <1>1, <1>2, <1>3, <1>4, <1>5, <1>6, <1>7, <1>8, <1>9 DEF Next

\* While the object is in the pool, its queue holds nothing but what the script
\* sent after the connection was gone, and libuv holds nothing; what it held for
\* one client never reaches the next, who can write at once unless there is such
\* a late response (HttpServer::onClose, TcpSocket::release, TcpSocket::zero).
THEOREM ReuseIsSafe == Spec => []ReuseSafe
<1>1. Init => QueueInv
  BY QueueInit
<1>2. QueueInv /\ [Next]_vars => QueueInv'
  BY QueueStep
<1>3. QueueInv => ReuseSafe
  BY DEF QueueInv, QueueTypes, Home, Late, ReuseSafe, ResponsesGoHome, PooledIsQuiet
<1> QED
  BY <1>1, <1>2, <1>3, PTL DEF Spec

----------------------------------------------------------------------------
(***************************************************************************)
(* The reader: the inductive invariant                                     *)
(***************************************************************************)

\* Where the unread cells start in the stream.
Pos == rd - (wpos - rpos)

\* Request i starts at o[i], and the next one, or the end of the stream, follows
\* its last cell.
Layout(o) ==
  /\ o \in [1 .. Len(reqs) + 1 -> Nat]
  /\ o[1] = 0 /\ o[Len(reqs) + 1] = Len(bytes)
  /\ \A i \in 1 .. Len(reqs) :
       /\ o[i + 1] = o[i] + 3 + Len(reqs[i].body) /\ o[i + 1] <= Len(bytes)
       /\ bytes[o[i] + 1] = Cell("head", reqs[i].head)
       /\ bytes[o[i] + 2] = Cell("end1", NoHead)
       /\ bytes[o[i] + 3] = Cell("end2", NoHead)
       /\ \A j \in 1 .. Len(reqs[i].body) : bytes[o[i] + 3 + j] = reqs[i].body[j]
       /\ o[i] + 1 \in inHead /\ o[i] + 2 \in inHead

\* What holds of on_msgbuffer's positions, whatever is read.
CallsOK ==
  /\ pc = "idle" => rpos = 0 /\ wpos = 0
  /\ pc # "idle" => handle # "pooled"
  /\ pc = "content" => m_content # "null"
  /\ capacity >= DEFAULT_SIZE

\* Nothing is read any more.
Stopped == pc = "idle" /\ handle # "open"

\* The content of the packet's request is in the packet, but for m_residue cells.
ParserOK ==
  \/ m_content = "null" \/ Stopped
  \/ m_parser.head.method = "POST" => m_parser.left <= Len(m_readPacket) + m_residue

\* mBuffer holds the end of what was read, which is not inside a head.
BufferOK ==
  /\ wpos <= rd /\ rpos <= wpos
  /\ pc = "loop" => rpos < wpos
  /\ \A i \in 1 .. wpos : mem[i] = bytes[rd - wpos + i]
  /\ rd \notin inHead

\* The server was called with the first requests of the client, up to one whose
\* body is not read and passes for a request.
HandledOK ==
  \A i \in 1 .. Len(handled) :
    \/ \E k \in 1 .. Len(reqs) : k < i /\ Misleading(reqs[k])
    \/ /\ i <= Len(reqs)
       /\ handled[i].head = reqs[i].head /\ handled[i].param \in Params(reqs[i])
       /\ \A k \in 1 .. i - 1 : ~Unread(reqs[k])

\* The server was called with such a request, and nothing is known of the rest.
Lost == \E k \in 1 .. Len(reqs) : k <= Len(handled) /\ Misleading(reqs[k])

\* All bodies so far were read.
AllRead ==
  /\ Len(handled) <= Len(reqs)
  /\ \A k \in 1 .. Len(handled) : ~Unread(reqs[k])

\* All is read up to the next request.
Between(o) ==
  /\ m_content = "null" /\ m_readPacket = <<>> /\ pc # "content"
  /\ Pos = o[Len(handled) + 1]

\* The head of the next request is read, and a part of its content if it has any
\* for the server.
InContent(o) ==
  LET k == Len(handled)
      r == reqs[k + 1]
  IN  /\ k < Len(reqs)
      /\ m_content # "null"
      /\ m_content = "dangling" => Taken(r) /\ 3 + Len(r.body) > DEFAULT_SIZE
      /\ m_parser = [state |-> "parsed", head |-> r.head, left |-> r.head.len]
      /\ Len(m_readPacket) = Pos - o[k + 1]
      /\ \A i \in 1 .. Len(m_readPacket) : m_readPacket[i] = bytes[o[k + 1] + i]
      /\ Len(m_readPacket) >= 3
      /\ IF Taken(r) THEN m_residue = o[k + 2] - Pos
                     ELSE m_residue = 0 /\ Len(m_readPacket) = 3
      /\ pc = "idle" => m_residue > 0

\* The text of a body that the server does not take is read as a head, which the
\* parser will refuse.
IsText(c) == c.kind \in {"text", "chunk"}
Astray ==
  /\ m_content = "null" /\ pc # "content"
  /\ IF m_readPacket = <<>> THEN Pos < Len(bytes) /\ IsText(bytes[Pos + 1])
                            ELSE IsText(m_readPacket[1])

\* How far the reader is, as long as it follows the client.
Follows ==
  \/ Astray
  \/ AllRead /\ \E o \in [1 .. Len(reqs) + 1 -> Nat] : Layout(o) /\ (Between(o) \/ InContent(o))

ReadOK == HandledOK /\ (Lost \/ Stopped \/ (BufferOK /\ Follows))

\* The part of TypeOK that is about reading.
ReadTypes ==
  /\ uncut \in BOOLEAN
  /\ reqs \in Seq(Request)
  /\ bytes \in Seq(CellType)
  /\ inHead \in SUBSET (1 .. Len(bytes))
  /\ sent \in 0 .. MaxRequest
  /\ rd \in 0 .. Len(bytes)
  /\ mem \in [1 .. MESSAGE_BUFFER_SIZE -> CellType]
  /\ rpos \in 0 .. MESSAGE_BUFFER_SIZE
  /\ wpos \in 0 .. MESSAGE_BUFFER_SIZE
  /\ pc \in {"idle", "loop", "content"}
  /\ m_readPacket \in Seq(CellType)
  /\ capacity \in Nat
  /\ m_content \in {"null", "set", "dangling"}
  /\ m_residue \in Nat
  /\ m_parser \in [state : {"fresh", "parsed", "failed"},
                   head : HeadType \cup {NoHead}, left : Nat]
  /\ handled \in Seq([head : HeadType \cup {NoHead}, param : Seq(CellType)])

ReadInv ==
  /\ ReadTypes /\ CallsOK /\ ParserOK
  /\ uncut => ReadOK

----------------------------------------------------------------------------
(***************************************************************************)
(* The reader: cells and parsing                                           *)
(***************************************************************************)

\* Requests and their cells have their types.
LEMMA CellsTyped ==
  ASSUME NEW r \in Request
  PROVE  /\ r.head \in HeadType /\ r.head.len \in Nat /\ Cell("head", r.head) \in CellType
         /\ Cell("end1", NoHead) \in CellType /\ Cell("end2", NoHead) \in CellType
         /\ r.body \in Seq(CellType) /\ Len(r.body) \in Nat
         /\ IF r.head.chunked THEN r.head.len = 0 /\ ~Taken(r) ELSE r.head.len = Len(r.body)
<1>1. r \in RequestType /\ IF r.head.chunked THEN Chunks(r) ELSE r.head.len = Len(r.body)
  BY HttpConnectAssumption
<1>2. r.head \in HeadType /\ r.body \in Seq(CellType)
  BY <1>1 DEF RequestType
<1>3. r.head.len \in Nat
  BY <1>2 DEF HeadType
<1>4. /\ Cell("head", r.head) \in CellType
      /\ Cell("end1", NoHead) \in CellType /\ Cell("end2", NoHead) \in CellType
  BY <1>2 DEF Cell, CellType
<1>5. IF r.head.chunked THEN r.head.len = 0 /\ ~Taken(r) ELSE r.head.len = Len(r.body)
  BY <1>1 DEF Chunks, Taken
<1> QED
  BY <1>2, <1>3, <1>4, <1>5, LenProperties

\* The cells of a request, one by one.
LEMMA EncodeCells ==
  ASSUME NEW r \in Request
  PROVE  /\ Encode(r) \in Seq(CellType) /\ Len(Encode(r)) = 3 + Len(r.body)
         /\ Encode(r)[1] = Cell("head", r.head) /\ Encode(r)[2] = Cell("end1", NoHead)
         /\ Encode(r)[3] = Cell("end2", NoHead)
         /\ \A j \in 1 .. Len(r.body) : Encode(r)[3 + j] = r.body[j]
<1> DEFINE h == <<Cell("head", r.head), Cell("end1", NoHead), Cell("end2", NoHead)>>
<1>1. h \in Seq(CellType) /\ Len(h) = 3
  BY CellsTyped
<1>2. Encode(r) = h \o r.body
  BY DEF Encode, HeadCells
<1>3. PICK b \in Seq(CellType), n \in Nat : b = r.body /\ n = Len(b)
  BY CellsTyped
<1>4. /\ h \o b \in Seq(CellType) /\ Len(h \o b) = 3 + n
      /\ \A i \in 1 .. 3 + n : (h \o b)[i] = IF i <= 3 THEN h[i] ELSE b[i - 3]
  BY <1>1, <1>3, ConcatProperties
<1>5. \A j \in 1 .. n : (h \o b)[3 + j] = b[j]
  BY <1>3, <1>4
<1> HIDE DEF h
<1>6. (h \o b)[1] = h[1] /\ (h \o b)[2] = h[2] /\ (h \o b)[3] = h[3]
  BY <1>3, <1>4
<1>7. h[1] = Cell("head", r.head) /\ h[2] = Cell("end1", NoHead) /\ h[3] = Cell("end2", NoHead)
  BY DEF h
<1> QED
  BY <1>2, <1>3, <1>4, <1>5, <1>6, <1>7

\* A message ends at its head or behind it.
LEMMA EndType ==
  ASSUME NEW p \in Seq(CellType), NEW i \in Heads(p)
  PROVE  MessageEnd(p, i) \in Nat /\ p[i].head \in HeadType
<1>1. i \in 1 .. Len(p) - 2 /\ p[i].kind = "head"
      /\ (p[i].head.chunked => i + 2 = Len(p) \/ ChunksEnd(p, i + 3) # {})
  BY DEF Heads
<1>2. p[i] \in CellType /\ Len(p) \in Nat
  BY <1>1, ElementOfSeq, LenProperties
<1>3. p[i].head \in HeadType /\ p[i].head.len \in Nat
  BY <1>1, <1>2 DEF CellType, HeadType
<1>4. CASE p[i].head.chunked /\ i + 2 # Len(p)
  <2>1. PICK e \in ChunksEnd(p, i + 3) : e = CHOOSE x \in ChunksEnd(p, i + 3) : TRUE
    BY <1>1, <1>4
  <2>2. e \in Nat
    BY <1>1, <1>2 DEF ChunksEnd
  <2> QED
    BY <1>3, <1>4, <2>1, <2>2 DEF MessageEnd
<1>5. CASE ~(p[i].head.chunked /\ i + 2 # Len(p))
  <2>1. MessageEnd(p, i) = i + 2 + p[i].head.len
    BY <1>5 DEF MessageEnd
  <2> QED
    BY <1>1, <1>2, <1>3, <2>1
<1> QED
  BY <1>4, <1>5

\* A parser that has not failed has parsed a request, or blank lines only.
LEMMA ParserType ==
  ASSUME NEW p \in Seq(CellType)
  PROVE  parser(p) \in {Failed, Fresh} \cup [state : {"parsed"}, head : HeadType, left : Nat]
<1> DEFINE last == {i \in Parsed(p) : \A k \in Parsed(p) : k <= i}
           i == CHOOSE k \in last : TRUE
           e == IF last = {} THEN 0 ELSE MessageEnd(p, i)
<1>1. CASE last = {}
  BY <1>1 DEF parser
<1>2. CASE last # {}
  <2>1. i \in last /\ i \in Heads(p)
    BY <1>2 DEF Parsed
  <2>2. e = MessageEnd(p, i) /\ e \in Nat /\ p[i].head \in HeadType
    BY <1>2, <2>1, EndType
  <2>3. (IF e > Len(p) THEN e - Len(p) ELSE 0) \in Nat
    BY <2>2, LenProperties
  <2>4. \/ parser(p) = Failed
        \/ parser(p) = [state |-> "parsed", head |-> p[i].head,
                        left |-> IF e > Len(p) THEN e - Len(p) ELSE 0]
    BY <1>2 DEF parser
  <2> HIDE DEF i, e, last
  <2> QED
    BY <2>2, <2>3, <2>4
<1> QED
  BY <1>1, <1>2

\* The parser takes the head of one request, and knows the length of its content.
LEMMA ParserOneHead ==
  ASSUME NEW p \in Seq(CellType), NEW r \in Request, Len(p) = 3, p[1] = Cell("head", r.head),
         p[2] = Cell("end1", NoHead), p[3] = Cell("end2", NoHead)
  PROVE  parser(p) = IF r.head.method = "BAD" THEN Failed
                     ELSE [state |-> "parsed", head |-> r.head, left |-> r.head.len]
<1> DEFINE last == {i \in Parsed(p) : \A k \in Parsed(p) : k <= i}
           i == CHOOSE k \in last : TRUE
           e == IF last = {} THEN 0 ELSE MessageEnd(p, i)
<1>1. p[1].kind = "head" /\ p[1].head = r.head /\ p[2].kind = "end1" /\ p[3].kind = "end2"
  BY DEF Cell
<1>2. Heads(p) = IF r.head.method = "BAD" THEN {} ELSE {1}
  BY <1>1 DEF Heads
<1>3. MessageEnd(p, 1) = 3 + r.head.len /\ r.head.len \in Nat
  BY <1>1, CellsTyped DEF MessageEnd
<1>4. parser(p) = IF \E j \in e + 1 .. Len(p) : ~Blank(p[j]) THEN Failed
                  ELSE IF last = {} THEN Fresh
                  ELSE [state |-> "parsed", head |-> p[i].head,
                        left |-> IF e > Len(p) THEN e - Len(p) ELSE 0]
  BY DEF parser
<1>5. CASE r.head.method = "BAD"
  <2>1. last = {} /\ e = 0
    BY <1>2, <1>5 DEF Parsed
  <2>2. 1 \in 0 + 1 .. Len(p) /\ ~Blank(p[1])
    BY <1>1 DEF Blank
  <2> HIDE DEF e, i, last
  <2> QED
    BY <1>4, <1>5, <2>1, <2>2
<1>6. CASE r.head.method # "BAD"
  <2>1. Parsed(p) = {1}
    BY <1>2, <1>6 DEF Parsed
  <2>2. last = {1}
    BY <2>1
  <2> HIDE DEF last
  <2>3. i = 1 /\ last # {}
    BY <2>2
  <2> HIDE DEF i
  <2>4. e = 3 + r.head.len
    BY <1>3, <2>3
  <2> HIDE DEF e
  <2>5. ~\E j \in e + 1 .. Len(p) : ~Blank(p[j])
    BY <1>3, <2>4
  <2>6. (IF e > Len(p) THEN e - Len(p) ELSE 0) = r.head.len
    BY <1>3, <2>4
  <2> QED
    BY <1>1, <1>4, <1>6, <2>3, <2>5, <2>6
<1> QED
  BY <1>5, <1>6

\* The parser refuses what starts with text.
LEMMA ParserAstray ==
  ASSUME NEW p \in Seq(CellType), p # <<>>, IsText(p[1])
  PROVE  parser(p) = Failed
<1>1. 1 \notin Heads(p) /\ ~Blank(p[1])
  BY DEF Heads, IsText, Blank
<1>2. Len(p) \in Nat /\ 1 \in 0 + 1 .. Len(p)
  BY EmptySeq, LenProperties
<1>3. Parsed(p) = {}
  <2> DEFINE Ends(C) == {0} \cup {MessageEnd(p, h) : h \in {k \in C : ~p[k].head.close}}
             Next1(i, C) == \E e \in Ends(C) : e < i /\ \A j \in e + 1 .. i - 1 : Blank(p[j])
  <2>1. ASSUME NEW k \in Heads(p), Next1(k, {}) PROVE FALSE
    <3>1. k \in 1 .. Len(p) - 2 /\ k # 1
      BY <1>1 DEF Heads
    <3>2. \A j \in 0 + 1 .. k - 1 : Blank(p[j])
      BY <2>1
    <3>3. 1 \in 0 + 1 .. k - 1
      BY <1>2, <3>1
    <3> QED
      BY <1>1, <3>2, <3>3
  <2>2. ASSUME NEW i \in Parsed(p) PROVE FALSE
    <3>1. (\A k \in Heads(p) : Next1(k, {}) => k \in {}) => i \in {}
      BY <2>2 DEF Parsed
    <3> HIDE DEF Next1
    <3> QED
      BY <2>1, <3>1
  <2> QED
    BY <2>2
<1> QED
  BY <1>1, <1>2, <1>3 DEF parser

----------------------------------------------------------------------------
(***************************************************************************)
(* The reader: the steps                                                   *)
(***************************************************************************)

\* Storage only grows.
LEMMA GrownType ==
  ASSUME capacity \in Nat, NEW n \in Nat, NEW k \in Nat
  PROVE  Grown(n, k) \in Nat /\ Grown(n, k) >= capacity
BY DEF Grown

\* Two sequences of cells, one behind the other.
LEMMA Joined ==
  ASSUME NEW s \in Seq(CellType), NEW t \in Seq(CellType)
  PROVE  /\ s \o t \in Seq(CellType) /\ Len(s \o t) = Len(s) + Len(t)
         /\ \A i \in 1 .. Len(s) : (s \o t)[i] = s[i]
         /\ \A i \in 1 .. Len(t) : (s \o t)[Len(s) + i] = t[i]
<1>1. PICK n \in Nat, m \in Nat : n = Len(s) /\ m = Len(t)
  BY LenProperties
<1>2. /\ s \o t \in Seq(CellType) /\ Len(s \o t) = n + m
      /\ \A i \in 1 .. n + m : (s \o t)[i] = IF i <= n THEN s[i] ELSE t[i - n]
  BY <1>1, ConcatProperties
<1>3. ASSUME NEW i \in 1 .. n PROVE (s \o t)[i] = s[i]
  <2>1. i \in 1 .. n + m /\ i <= n
    OBVIOUS
  <2> QED
    BY <1>2, <2>1
<1>4. ASSUME NEW i \in 1 .. m PROVE (s \o t)[n + i] = t[i]
  <2>1. PICK x : x = n + i
    OBVIOUS
  <2>2. x \in 1 .. n + m /\ ~(x <= n) /\ x - n = i
    BY <2>1
  <2>3. (s \o t)[x] = t[x - n]
    BY <1>2, <2>2
  <2> QED
    BY <2>1, <2>2, <2>3
<1> QED
  BY <1>1, <1>2, <1>3, <1>4

\* n elements of a sequence, or of mBuffer, behind the first a.
Part(s, a, n) == SubSeq(s, a + 1, a + n)

\* Cells from a sequence of cells, or from mBuffer.
LEMMA PartCells ==
  ASSUME NEW s, NEW a \in Nat, NEW n \in Nat, \A i \in 1 .. n : s[a + i] \in CellType
  PROVE  /\ Part(s, a, n) \in Seq(CellType) /\ Len(Part(s, a, n)) = n
         /\ \A i \in 1 .. n : Part(s, a, n)[i] = s[a + i]
<1>1. PICK m \in Int, e \in Int : m = a + 1 /\ e = a + n /\ e - m + 1 = n
                                  /\ (IF m <= e THEN e - m + 1 ELSE 0) = n
  OBVIOUS
<1>2. ASSUME NEW i \in m .. e PROVE s[i] \in CellType
  <2>1. PICK x \in 1 .. n : i = a + x
    BY <1>1
  <2> QED
    BY <2>1
<1>3. /\ SubSeq(s, m, e) \in Seq(CellType)
      /\ Len(SubSeq(s, m, e)) = IF m <= e THEN e - m + 1 ELSE 0
      /\ \A i \in 1 .. e - m + 1 : SubSeq(s, m, e)[i] = s[m + i - 1]
  BY <1>2, SubSeqProperties
<1>4. \A i \in 1 .. n : i \in 1 .. e - m + 1 /\ m + i - 1 = a + i
  BY <1>1
<1>5. \A i \in 1 .. n : SubSeq(s, m, e)[i] = s[a + i]
  BY <1>3, <1>4
<1> QED
  BY <1>1, <1>3, <1>5 DEF Part

\* The packet with k cells of mBuffer behind it.
LEMMA PacketCells ==
  ASSUME ReadTypes, NEW k \in Nat, rpos + k <= MESSAGE_BUFFER_SIZE
  PROVE  /\ Filled(k) \in Seq(CellType) /\ Len(Filled(k)) = Len(m_readPacket) + k
         /\ \A i \in 1 .. Len(m_readPacket) : Filled(k)[i] = m_readPacket[i]
         /\ \A i \in 1 .. k : Filled(k)[Len(m_readPacket) + i] = mem[rpos + i]
<1>1. PICK a \in Nat : a = rpos /\ a + k <= MESSAGE_BUFFER_SIZE
  BY DEF ReadTypes
<1>2. ASSUME NEW i \in 1 .. k PROVE mem[a + i] \in CellType
  <2>1. a + i \in 1 .. MESSAGE_BUFFER_SIZE
    BY <1>1, HttpConnectAssumption
  <2> QED
    BY <2>1 DEF ReadTypes
<1>3. PICK c : c = Part(mem, a, k)
  OBVIOUS
<1>4. c \in Seq(CellType) /\ Len(c) = k /\ \A i \in 1 .. k : c[i] = mem[a + i]
  BY <1>2, <1>3, PartCells
<1>5. PICK p : p = m_readPacket /\ p \in Seq(CellType)
  BY DEF ReadTypes
<1>6. /\ p \o c \in Seq(CellType) /\ Len(p \o c) = Len(p) + Len(c)
      /\ \A i \in 1 .. Len(p) : (p \o c)[i] = p[i]
      /\ \A i \in 1 .. Len(c) : (p \o c)[Len(p) + i] = c[i]
  BY <1>4, <1>5, Joined
<1>7. Filled(k) = p \o c
  BY <1>1, <1>3, <1>5 DEF Filled, Part
<1> QED
  BY <1>1, <1>4, <1>5, <1>6, <1>7

\* The cells of mBuffer up to b are the first b - rpos unread ones.
LEMMA FilledUpTo ==
  ASSUME ReadTypes, NEW b \in Nat, rpos <= b
  PROVE  /\ m_readPacket \o SubSeq(mem, rpos + 1, b) = Filled(b - rpos)
         /\ b - rpos \in Nat /\ rpos + (b - rpos) = b
<1>1. b - rpos \in Nat /\ rpos + (b - rpos) = b
  BY DEF ReadTypes
<1> QED
  BY <1>1 DEF Filled

\* A step that leaves the reader alone does not start it again.
LEMMA QuietRead ==
  ASSUME ReadInv, UNCHANGED <<uncut, reqs, bytes, inHead, sent, readVars>>,
         handle' = "open" => handle = "open", pc # "idle" => handle' # "pooled"
  PROVE  ReadInv'
<1>1. ReadTypes' /\ CallsOK' /\ ParserOK'
  BY DEF ReadInv, readVars, ReadTypes, CallsOK, ParserOK, Stopped
<1>2. ASSUME uncut PROVE ReadOK'
  <2>1. ReadOK
    BY <1>2 DEF ReadInv
  <2>2. HandledOK'
    BY <2>1 DEF ReadOK, readVars, HandledOK
  <2>3. CASE Lost
    BY <2>2, <2>3 DEF ReadOK, Lost, readVars
  <2>4. CASE Stopped
    BY <2>2, <2>4 DEF ReadOK, Stopped, readVars
  <2>5. CASE BufferOK /\ Astray
    <3>1. BufferOK' /\ Astray'
      BY <2>5 DEF BufferOK, Astray, Pos, readVars
    <3> QED
      BY <2>2, <3>1 DEF ReadOK, Follows
  <2>6. ASSUME BufferOK, AllRead, NEW o \in [1 .. Len(reqs) + 1 -> Nat], Layout(o),
               Between(o) \/ InContent(o)
        PROVE  ReadOK'
    <3>1. BufferOK' /\ AllRead' /\ Layout(o)' /\ o \in [1 .. Len(reqs') + 1 -> Nat]
      BY <2>6 DEF BufferOK, AllRead, Layout, readVars
    <3>2. (Between(o) \/ InContent(o))'
      BY <2>6 DEF Between, InContent, Pos, readVars
    <3> QED
      BY <2>2, <3>1, <3>2 DEF ReadOK, Follows
  <2> QED
    BY <2>1, <2>3, <2>4, <2>5, <2>6 DEF ReadOK, Follows
<1> QED
  BY <1>1, <1>2 DEF ReadInv

\* An object from the pool starts anew.
LEMMA AcceptRead ==
  ASSUME ReadInv, accept
  PROVE  ReadInv'
<1>1. pc = "idle" /\ capacity >= DEFAULT_SIZE
  BY DEF ReadInv, CallsOK, accept
<1>2. /\ handle' = "open" /\ rpos' = 0 /\ wpos' = 0 /\ reqs' = <<>> /\ bytes' = <<>> /\ rd' = 0
      /\ inHead' = {} /\ sent' = sent
      /\ handled' = <<>> /\ m_readPacket' = <<>> /\ m_content' = "null" /\ m_residue' = 0
      /\ m_parser' = Fresh /\ mem' = mem /\ pc' = "idle" /\ capacity' = capacity
      /\ uncut' \in BOOLEAN
  BY <1>1 DEF accept, zero
<1>3. ReadTypes'
  <2>1. /\ <<>> \in Seq(Request) /\ <<>> \in Seq(CellType)
        /\ <<>> \in Seq([head : HeadType \cup {NoHead}, param : Seq(CellType)])
    BY EmptySeq
  <2>2. 0 \in 0 .. Len(bytes') /\ 0 \in 0 .. MESSAGE_BUFFER_SIZE /\ 0 \in Nat
    BY <1>2, HttpConnectAssumption
  <2>3. Fresh \in [state : {"fresh", "parsed", "failed"}, head : HeadType \cup {NoHead}, left : Nat]
    BY DEF Fresh
  <2>4. mem \in [1 .. MESSAGE_BUFFER_SIZE -> CellType] /\ capacity \in Nat /\ sent \in 0 .. MaxRequest
    BY DEF ReadInv, ReadTypes
  <2> QED
    BY <1>2, <2>1, <2>2, <2>3, <2>4 DEF ReadTypes
<1>4. CallsOK' /\ ParserOK'
  BY <1>1, <1>2 DEF CallsOK, ParserOK
<1>5. BufferOK' /\ HandledOK' /\ AllRead'
  BY <1>2 DEF BufferOK, HandledOK, AllRead
<1>6. PICK o : o = [i \in 1 .. 1 |-> 0]
  OBVIOUS
<1>7. o \in [1 .. Len(reqs') + 1 -> Nat] /\ o[1] = 0 /\ Len(reqs') = 0 /\ Len(handled') = 0
  BY <1>2, <1>6
<1>8. Layout(o)'
  BY <1>2, <1>7 DEF Layout
<1>9. Between(o)'
  BY <1>2, <1>7 DEF Between, Pos
<1> QED
  BY <1>3, <1>4, <1>5, <1>7, <1>8, <1>9 DEF ReadInv, ReadOK, Follows

\* The storage goes back to the pool, or is replaced.
LEMMA CloseRead ==
  ASSUME ReadInv, on_uv_close
  PROVE  ReadInv'
<1>1. /\ pc = "idle" /\ pc' = "idle" /\ handle' = "pooled" /\ rpos = 0 /\ wpos = 0
      /\ UNCHANGED <<rd, rpos, wpos, m_readPacket, m_content, m_residue, m_parser, handled,
                     uncut, reqs, bytes, inHead, sent>>
  BY DEF on_uv_close, peerVars, ReadInv, CallsOK
<1>2. /\ mem' \in [1 .. MESSAGE_BUFFER_SIZE -> CellType]
      /\ capacity' \in Nat /\ capacity' >= DEFAULT_SIZE
  <2>1. Nul \in CellType
    BY DEF Nul, Cell, CellType
  <2> QED
    BY <2>1, HttpConnectAssumption DEF on_uv_close, Zeros, ReadInv, ReadTypes, CallsOK
<1>3. ReadTypes'
  BY <1>1, <1>2 DEF ReadInv, ReadTypes
<1>4. CallsOK' /\ ParserOK' /\ Stopped'
  BY <1>1, <1>2 DEF CallsOK, ParserOK, Stopped
<1>5. ASSUME uncut PROVE HandledOK'
  BY <1>1, <1>5 DEF ReadInv, ReadOK, HandledOK
<1> QED
  BY <1>1, <1>3, <1>4, <1>5 DEF ReadInv, ReadOK

\* A request of the client makes the stream longer.
LEMMA SendRead ==
  ASSUME ReadInv, NEW r \in Request, sendRequest(r)
  PROVE  ReadInv'
<1>0. PICK n \in Nat, l \in Nat, m \in Nat : n = Len(reqs) /\ l = Len(bytes) /\ m = Len(r.body)
  <2>1. Len(reqs) \in Nat /\ Len(bytes) \in Nat
    BY LenProperties DEF ReadInv, ReadTypes
  <2>2. Len(r.body) \in Nat
    BY CellsTyped
  <2> QED
    BY <2>1, <2>2
<1>1. /\ reqs' = Append(reqs, r) /\ bytes' = bytes \o Encode(r) /\ UNCHANGED readVars
      /\ inHead' = inHead \cup {l + 1, l + 2} /\ sent' = sent + 1 /\ sent < MaxRequest
      /\ uncut' = uncut /\ handle' = handle
  BY <1>0 DEF sendRequest
<1>2. /\ reqs \in Seq(Request) /\ reqs' \in Seq(Request) /\ Len(reqs') = n + 1 /\ reqs'[n + 1] = r
      /\ \A i \in 1 .. n : reqs'[i] = reqs[i]
  BY <1>0, <1>1, AppendProperties DEF ReadInv, ReadTypes
<1>3. /\ bytes' \in Seq(CellType) /\ Len(bytes') = l + 3 + m
      /\ \A i \in 1 .. l : bytes'[i] = bytes[i]
      /\ \A i \in 1 .. 3 + m : bytes'[l + i] = Encode(r)[i]
  <2>1. PICK e \in Seq(CellType) : e = Encode(r) /\ Len(e) = 3 + m
    BY <1>0, EncodeCells
  <2>2. bytes \in Seq(CellType)
    BY DEF ReadInv, ReadTypes
  <2>3. PICK y : y = bytes /\ y \in Seq(CellType) /\ Len(y) = l
    BY <1>0, <2>2
  <2>4. /\ y \o e \in Seq(CellType) /\ Len(y \o e) = Len(y) + Len(e)
        /\ \A i \in 1 .. Len(y) : (y \o e)[i] = y[i]
        /\ \A i \in 1 .. Len(e) : (y \o e)[Len(y) + i] = e[i]
    BY <2>1, <2>3, Joined
  <2>5. bytes' = y \o e /\ l + (3 + m) = l + 3 + m
    BY <1>1, <2>1, <2>3
  <2> QED
    BY <2>1, <2>3, <2>4, <2>5
<1>4. ReadTypes'
  <2>1. inHead' \in SUBSET (1 .. Len(bytes'))
    <3>1. \A x \in inHead : x \in 1 .. l
      BY <1>0 DEF ReadInv, ReadTypes
    <3>2. \A x \in inHead' : x \in 1 .. l + 3 + m
      BY <1>1, <3>1
    <3> QED
      BY <1>3, <3>2
  <2>2. sent' \in 0 .. MaxRequest
    BY <1>1, HttpConnectAssumption DEF ReadInv, ReadTypes
  <2>3. rd \in 0 .. Len(bytes')
    <3>1. rd \in Nat /\ rd <= l
      BY <1>0 DEF ReadInv, ReadTypes
    <3> QED
      BY <1>3, <3>1
  <2> QED
    BY <1>1, <1>2, <1>3, <2>1, <2>2, <2>3 DEF ReadInv, ReadTypes, readVars
<1>5. CallsOK' /\ ParserOK'
  BY <1>1 DEF ReadInv, CallsOK, ParserOK, Stopped, readVars
<1>6. ASSUME uncut PROVE ReadOK'
  <2>1. ReadOK /\ rd \in 0 .. l /\ wpos \in Nat /\ rpos \in Nat
    BY <1>0, <1>6 DEF ReadInv, ReadTypes
  <2>3. HandledOK /\ Len(handled) \in Nat /\ handled' = handled
    BY <1>1, <2>1, LenProperties DEF ReadOK, readVars, ReadInv, ReadTypes
  <2>4. HandledOK'
    <3>1. ASSUME NEW i \in 1 .. Len(handled), NEW k \in 1 .. Len(reqs), k < i, Misleading(reqs[k])
          PROVE  \E x \in 1 .. Len(reqs') : x < i /\ Misleading(reqs'[x])
      <4>1. k \in 1 .. n /\ k \in 1 .. n + 1
        BY <1>0, <3>1
      <4>2. k \in 1 .. Len(reqs') /\ reqs'[k] = reqs[k]
        BY <1>2, <4>1
      <4> QED
        BY <3>1, <4>2
    <3>2. ASSUME NEW i \in 1 .. Len(handled), i <= Len(reqs),
                 handled[i].head = reqs[i].head, handled[i].param \in Params(reqs[i]),
                 \A k \in 1 .. i - 1 : ~Unread(reqs[k])
          PROVE  /\ i <= Len(reqs')
                 /\ handled[i].head = reqs'[i].head /\ handled[i].param \in Params(reqs'[i])
                 /\ \A k \in 1 .. i - 1 : ~Unread(reqs'[k])
      <4>1. \A k \in 1 .. i : k \in 1 .. n
        BY <1>0, <2>3, <3>2
      <4>2. \A k \in 1 .. i : reqs'[k] = reqs[k]
        BY <1>2, <4>1
      <4>3. i \in 1 .. i /\ \A k \in 1 .. i - 1 : k \in 1 .. i
        BY <2>3
      <4>4. reqs'[i] = reqs[i] /\ \A k \in 1 .. i - 1 : reqs'[k] = reqs[k]
        BY <4>2, <4>3
      <4>5. i <= n + 1
        BY <1>0, <3>2
      <4> QED
        BY <1>2, <3>2, <4>4, <4>5
    <3> QED
      BY <2>3, <3>1, <3>2 DEF HandledOK
  <2>8. CASE Lost
    <3>1. PICK k \in 1 .. n : k <= Len(handled) /\ Misleading(reqs[k])
      BY <1>0, <2>8 DEF Lost
    <3>2. k \in 1 .. n + 1 /\ reqs'[k] = reqs[k]
      BY <1>2, <3>1
    <3>3. Lost'
      BY <1>2, <2>3, <3>1, <3>2 DEF Lost
    <3> QED
      BY <2>4, <3>3 DEF ReadOK
  <2>5. CASE Stopped
    BY <1>1, <2>4, <2>5 DEF ReadOK, Stopped, readVars
  <2>2. ASSUME BufferOK PROVE BufferOK'
    <3>1. wpos <= rd /\ \A i \in 1 .. wpos : mem[i] = bytes[rd - wpos + i] /\ rd - wpos + i \in 1 .. l
      BY <2>1, <2>2 DEF BufferOK
    <3>2. \A i \in 1 .. wpos : mem[i] = bytes'[rd - wpos + i]
      BY <1>3, <3>1
    <3>3. rd \notin inHead'
      BY <1>1, <2>1, <2>2 DEF BufferOK
    <3> QED
      BY <1>1, <2>1, <2>2, <3>2, <3>3 DEF BufferOK, readVars
  <2>6. CASE BufferOK /\ Astray
    <3>1. Pos' = Pos /\ Pos \in Int
      BY <1>1, <2>1 DEF Pos, readVars
    <3>2. m_readPacket = <<>> => Pos < l /\ Pos + 1 \in 1 .. l
      BY <1>0, <2>1, <2>6 DEF Astray, Pos, BufferOK
    <3>3. m_readPacket = <<>> => Pos < l + 3 + m /\ bytes'[Pos + 1] = bytes[Pos + 1]
      <4>1. Pos < l => Pos < l + 3 + m
        BY <3>1
      <4>2. Pos + 1 \in 1 .. l => bytes'[Pos + 1] = bytes[Pos + 1]
        BY <1>3
      <4> QED
        BY <3>2, <4>1, <4>2
    <3>4. Astray'
      BY <1>1, <1>3, <2>6, <3>1, <3>3 DEF Astray, readVars
    <3> QED
      BY <2>2, <2>4, <2>6, <3>4 DEF ReadOK, Follows
  <2>7. ASSUME BufferOK, AllRead, NEW o \in [1 .. Len(reqs) + 1 -> Nat], Layout(o),
               Between(o) \/ InContent(o)
        PROVE  ReadOK'
    <3>1. PICK w : w = [i \in 1 .. n + 2 |-> IF i <= n + 1 THEN o[i] ELSE l + 3 + m]
      OBVIOUS
    <3>2. o \in [1 .. n + 1 -> Nat] /\ w \in [1 .. n + 2 -> Nat] /\ w[n + 2] = l + 3 + m
          /\ \A i \in 1 .. n + 1 : w[i] = o[i]
      <4>1. o \in [1 .. n + 1 -> Nat]
        BY <1>0, <2>7
      <4>2. \A i \in 1 .. n + 2 : (IF i <= n + 1 THEN o[i] ELSE l + 3 + m) \in Nat
        BY <4>1
      <4>3. n + 2 \in 1 .. n + 2 /\ ~(n + 2 <= n + 1)
        OBVIOUS
      <4>4. \A i \in 1 .. n + 1 : i \in 1 .. n + 2 /\ i <= n + 1
        OBVIOUS
      <4> QED
        BY <3>1, <4>1, <4>2, <4>3, <4>4
    <3>8. AllRead'
      <4>1. Len(handled) <= n /\ \A k \in 1 .. Len(handled) : ~Unread(reqs[k])
        BY <1>0, <2>7 DEF AllRead
      <4>2. \A k \in 1 .. Len(handled) : reqs'[k] = reqs[k]
        BY <1>2, <2>3, <4>1
      <4>3. Len(handled) <= n + 1
        BY <2>3, <4>1
      <4> QED
        BY <1>2, <2>3, <4>1, <4>2, <4>3 DEF AllRead
    <3>3. ASSUME NEW i \in 1 .. n + 1
          PROVE  /\ w[i + 1] = w[i] + 3 + Len(reqs'[i].body) /\ w[i + 1] <= Len(bytes')
                 /\ bytes'[w[i] + 1] = Cell("head", reqs'[i].head)
                 /\ bytes'[w[i] + 2] = Cell("end1", NoHead)
                 /\ bytes'[w[i] + 3] = Cell("end2", NoHead)
                 /\ \A j \in 1 .. Len(reqs'[i].body) : bytes'[w[i] + 3 + j] = reqs'[i].body[j]
                 /\ w[i] + 1 \in inHead' /\ w[i] + 2 \in inHead'
      <4>1. CASE i = n + 1
        <5>1. w[i] = l /\ w[i + 1] = l + 3 + m /\ reqs'[i] = r
          <6>1. i \in 1 .. n + 1 /\ i + 1 = n + 2
            BY <4>1
          <6>2. o[n + 1] = l
            BY <1>0, <2>7 DEF Layout
          <6>3. w[i] = o[n + 1] /\ w[i + 1] = l + 3 + m
            BY <3>2, <4>1, <6>1
          <6> QED
            BY <1>2, <4>1, <6>2, <6>3
        <5>2. /\ bytes'[l + 1] = Encode(r)[1] /\ bytes'[l + 2] = Encode(r)[2]
              /\ bytes'[l + 3] = Encode(r)[3]
          <6>1. 1 \in 1 .. 3 + m /\ 2 \in 1 .. 3 + m /\ 3 \in 1 .. 3 + m
            OBVIOUS
          <6> QED
            BY <1>3, <6>1
        <5>3. \A j \in 1 .. m : 3 + j \in 1 .. 3 + m /\ l + (3 + j) = l + 3 + j
          BY <1>0
        <5>4. \A j \in 1 .. m : bytes'[l + 3 + j] = Encode(r)[3 + j]
          BY <1>3, <5>3
        <5>5. l + 3 + m = Len(bytes') /\ l + 3 + m <= Len(bytes')
          BY <1>0, <1>3
        <5>6. /\ Encode(r)[1] = Cell("head", r.head) /\ Encode(r)[2] = Cell("end1", NoHead)
              /\ Encode(r)[3] = Cell("end2", NoHead)
              /\ \A j \in 1 .. m : Encode(r)[3 + j] = r.body[j]
          BY <1>0, EncodeCells
        <5>7. l + 1 \in inHead' /\ l + 2 \in inHead'
          BY <1>1
        <5>8. \A j \in 1 .. m : bytes'[l + 3 + j] = r.body[j]
          BY <5>4, <5>6
        <5> QED
          BY <1>0, <5>1, <5>2, <5>5, <5>6, <5>7, <5>8
      <4>2. CASE i \in 1 .. n
        <5>1. PICK a \in Nat, c \in Nat : a = o[i] /\ c = Len(reqs[i].body) /\ w[i] = a
                 /\ w[i + 1] = o[i + 1] /\ reqs'[i] = reqs[i]
          <6>1. reqs[i] \in Request
            BY <1>0, <1>2, <4>2, ElementOfSeq
          <6>2. i \in 1 .. n + 1 /\ i + 1 \in 1 .. n + 1
            BY <4>2
          <6> QED
            BY <1>2, <3>2, <4>2, <6>1, <6>2, CellsTyped
        <5>7. o[i + 1] = a + 3 + c /\ a + 3 + c <= l
          BY <1>0, <2>7, <4>2, <5>1 DEF Layout
        <5>2. /\ bytes[a + 1] = Cell("head", reqs[i].head)
              /\ bytes[a + 2] = Cell("end1", NoHead)
              /\ bytes[a + 3] = Cell("end2", NoHead)
              /\ \A j \in 1 .. c : bytes[a + 3 + j] = reqs[i].body[j]
              /\ a + 1 \in inHead /\ a + 2 \in inHead
          BY <1>0, <2>7, <4>2, <5>1 DEF Layout
        <5>3. \A j \in 1 .. 3 + c : bytes'[a + j] = bytes[a + j]
          <6>1. \A j \in 1 .. 3 + c : a + j \in 1 .. l
            BY <5>7
          <6> QED
            BY <1>3, <6>1
        <5>4. /\ bytes'[a + 1] = bytes[a + 1] /\ bytes'[a + 2] = bytes[a + 2]
              /\ bytes'[a + 3] = bytes[a + 3]
          BY <5>1, <5>3
        <5>5. \A j \in 1 .. c : bytes'[a + 3 + j] = bytes[a + 3 + j]
          <6>1. \A j \in 1 .. c : 3 + j \in 1 .. 3 + c /\ a + (3 + j) = a + 3 + j
            OBVIOUS
          <6> QED
            BY <5>3, <6>1
        <5>6. a + 3 + c <= l + 3 + m
          BY <5>7
        <5>8. w[i] = a /\ w[i + 1] = a + 3 + c /\ reqs'[i] = reqs[i] /\ Len(reqs[i].body) = c
          BY <5>1, <5>7
        <5>9. /\ bytes'[a + 1] = Cell("head", reqs[i].head)
              /\ bytes'[a + 2] = Cell("end1", NoHead) /\ bytes'[a + 3] = Cell("end2", NoHead)
              /\ \A j \in 1 .. c : bytes'[a + 3 + j] = reqs[i].body[j]
              /\ a + 1 \in inHead' /\ a + 2 \in inHead'
          BY <1>1, <5>2, <5>4, <5>5
        <5>10. a + 3 + c <= Len(bytes')
          BY <1>3, <5>6
        <5> QED
          BY <5>8, <5>9, <5>10
      <4>3. i = n + 1 \/ i \in 1 .. n
        OBVIOUS
      <4> QED
        BY <4>1, <4>2, <4>3
    <3>4. Layout(w)'
      <4>1. w[1] = 0 /\ w[n + 2] = Len(bytes')
        BY <1>0, <1>3, <2>7, <3>2 DEF Layout
      <4>2. w \in [1 .. Len(reqs') + 1 -> Nat] /\ Len(reqs') + 1 = n + 2
        BY <1>0, <1>2, <3>2
      <4> QED
        BY <1>2, <3>3, <4>1, <4>2 DEF Layout
    <3>5. Len(handled) + 1 \in 1 .. n + 1
      BY <1>0, <2>3, <2>7 DEF AllRead
    <3>6. CASE Between(o)
      <4>1. Between(w)'
        <5>1. w[Len(handled) + 1] = o[Len(handled) + 1]
          BY <3>2, <3>5
        <5>2. UNCHANGED <<handled, m_content, m_readPacket, pc, Pos>>
          BY <1>1 DEF readVars, Pos
        <5> QED
          BY <3>6, <5>1, <5>2 DEF Between
      <4>2. w \in [1 .. Len(reqs') + 1 -> Nat]
        BY <1>2, <3>2
      <4> QED
        BY <2>2, <2>4, <2>7, <3>4, <3>8, <4>1, <4>2 DEF ReadOK, Follows
    <3>7. CASE InContent(o)
      <4>0. PICK k \in Nat : k = Len(handled) /\ k < n /\ k + 1 \in 1 .. n
        BY <1>0, <2>3, <3>7 DEF InContent
      <4>1. w[k + 1] = o[k + 1] /\ w[k + 2] = o[k + 2] /\ reqs'[k + 1] = reqs[k + 1]
        BY <1>2, <3>2, <4>0
      <4>2. PICK a \in Nat, h \in Nat :
              a = o[k + 1] /\ h = Len(m_readPacket) /\ h = Pos - a /\ Pos <= rd
        <5>1. o[k + 1] \in Nat /\ Len(m_readPacket) \in Nat
          <6>1. k + 1 \in 1 .. n + 1
            BY <4>0
          <6> QED
            BY <3>2, <6>1, LenProperties DEF ReadInv, ReadTypes
        <5>2. Len(m_readPacket) = Pos - o[k + 1]
          BY <3>7, <4>0 DEF InContent
        <5>3. Pos <= rd
          BY <2>1, <2>7 DEF Pos, BufferOK
        <5>4. \A x, y : x \in Nat /\ y \in Nat /\ y = Pos - x /\ Pos <= rd =>
                 \E a \in Nat, h \in Nat : a = x /\ h = y /\ h = Pos - a /\ Pos <= rd
          OBVIOUS
        <5> QED
          BY <5>1, <5>2, <5>3, <5>4
      <4>3. \A i \in 1 .. h : a + i \in 1 .. l
        <5>1. PICK d \in Nat : d = rd /\ d <= l
          BY <2>1
        <5>2. PICK x \in Int : x = Pos
          BY <2>1 DEF Pos
        <5>4. h = x - a /\ x <= d
          BY <4>2, <5>1, <5>2
        <5>3. a + h <= l
          BY <5>1, <5>4
        <5> QED
          BY <5>3
      <4>4. \A i \in 1 .. h : m_readPacket[i] = bytes'[a + i]
        BY <1>3, <3>7, <4>0, <4>2, <4>3 DEF InContent
      <4>5. k < n + 1
        BY <4>0
      <4>6. UNCHANGED <<handled, m_content, m_parser, m_readPacket, m_residue, pc, Pos>>
        BY <1>1 DEF readVars, Pos
      <4>7. InContent(w)'
        BY <1>2, <3>7, <4>0, <4>1, <4>2, <4>4, <4>5, <4>6 DEF InContent
      <4> QED
        BY <1>2, <2>2, <2>4, <2>7, <3>2, <3>4, <3>8, <4>7 DEF ReadOK, Follows
    <3> QED
      BY <2>7, <3>6, <3>7
  <2> QED
    BY <2>1, <2>8, <2>5, <2>6, <2>7 DEF ReadOK, Follows
<1> QED
  BY <1>1, <1>4, <1>5, <1>6 DEF ReadInv

\* The buffer is filled; the read does not end inside a head.
LEMMA EchoRead ==
  ASSUME ReadInv, NEW n \in 1 .. MESSAGE_BUFFER_SIZE, echo_read(n)
  PROVE  ReadInv'
<1>0. PICK l \in Nat, d \in Nat : l = Len(bytes) /\ d = rd /\ d + n <= l
  BY DEF ReadInv, ReadTypes, echo_read
<1>1. /\ handle = "open" /\ handle' = "open" /\ pc = "idle" /\ rpos = 0 /\ wpos = 0
      /\ rd' = d + n /\ rpos' = 0 /\ wpos' = n /\ pc' = "loop"
      /\ mem' = [i \in 1 .. MESSAGE_BUFFER_SIZE |-> IF i <= n THEN bytes[d + i] ELSE mem[i]]
      /\ UNCHANGED <<m_readPacket, capacity, m_content, m_residue, m_parser, handled, uncut, reqs,
                     bytes, inHead, sent>>
      /\ uncut => d + n \notin inHead
  BY <1>0 DEF echo_read, peerVars, ReadInv, CallsOK
<1>2. ReadTypes'
  <2>1. \A i \in 1 .. n : d + i \in 1 .. l
    BY <1>0
  <2>2. \A i \in 1 .. n : bytes[d + i] \in CellType
    BY <1>0, <2>1, ElementOfSeq DEF ReadInv, ReadTypes
  <2>3. mem' \in [1 .. MESSAGE_BUFFER_SIZE -> CellType]
    <3>1. \A i \in 1 .. MESSAGE_BUFFER_SIZE : mem[i] \in CellType
      BY DEF ReadInv, ReadTypes
    <3>2. \A i \in 1 .. MESSAGE_BUFFER_SIZE : i <= n => i \in 1 .. n
      BY HttpConnectAssumption
    <3>3. \A i \in 1 .. MESSAGE_BUFFER_SIZE :
            (IF i <= n THEN bytes[d + i] ELSE mem[i]) \in CellType
      BY <2>2, <3>1, <3>2
    <3> QED
      BY <1>1, <3>3
  <2>4. n \in 0 .. MESSAGE_BUFFER_SIZE /\ 0 \in 0 .. MESSAGE_BUFFER_SIZE
    BY HttpConnectAssumption
  <2>5. d + n \in 0 .. Len(bytes)
    BY <1>0
  <2> QED
    BY <1>1, <2>3, <2>4, <2>5 DEF ReadInv, ReadTypes
<1>3. CallsOK' /\ ParserOK'
  BY <1>1 DEF ReadInv, CallsOK, ParserOK, Stopped
<1>4. ASSUME uncut PROVE ReadOK'
  <2>1. ReadOK /\ ~Stopped
    BY <1>1, <1>4 DEF ReadInv, Stopped
  <2>2. BufferOK'
    <3>3. \A i \in 1 .. n : i \in 1 .. MESSAGE_BUFFER_SIZE /\ i <= n /\ d + n - n + i = d + i
      BY <1>0, HttpConnectAssumption
    <3>1. \A i \in 1 .. n : mem'[i] = bytes[d + i] /\ d + n - n + i = d + i
      BY <1>1, <3>3
    <3>2. n <= d + n /\ 0 <= n /\ 0 < n
      BY <1>0
    <3> QED
      BY <1>1, <1>4, <3>1, <3>2 DEF BufferOK
  <2>3. HandledOK'
    BY <1>1, <2>1 DEF ReadOK, HandledOK
  <2>4. Pos' = Pos
    BY <1>0, <1>1 DEF Pos
  <2>7. CASE Lost
    BY <1>1, <2>3, <2>7 DEF ReadOK, Lost
  <2>5. CASE Astray
    <3>1. Astray'
      BY <1>1, <2>4, <2>5 DEF Astray
    <3> QED
      BY <2>2, <2>3, <3>1 DEF ReadOK, Follows
  <2>6. ASSUME AllRead, NEW o \in [1 .. Len(reqs) + 1 -> Nat], Layout(o), Between(o) \/ InContent(o)
        PROVE  ReadOK'
    <3>1. Layout(o)' /\ o \in [1 .. Len(reqs') + 1 -> Nat] /\ AllRead'
      BY <1>1, <2>6 DEF Layout, AllRead
    <3>2. (Between(o) \/ InContent(o))'
      BY <1>1, <2>4, <2>6 DEF Between, InContent
    <3> QED
      BY <2>2, <2>3, <3>1, <3>2 DEF ReadOK, Follows
  <2> QED
    BY <2>1, <2>5, <2>6, <2>7 DEF ReadOK, Follows
<1> QED
  BY <1>1, <1>2, <1>3, <1>4 DEF ReadInv

\* Between two requests the buffer holds the whole head of the next one, and its
\* end is the first that on_msgbuffer finds.
LEMMA HeadHere ==
  ASSUME ReadTypes, BufferOK, AllRead, pc = "loop",
         NEW o \in [1 .. Len(reqs) + 1 -> Nat], Layout(o), Between(o)
  PROVE  /\ Len(handled) < Len(reqs) /\ rpos + 3 <= wpos
         /\ mem[rpos + 1] = Cell("head", reqs[Len(handled) + 1].head)
         /\ mem[rpos + 2] = Cell("end1", NoHead) /\ mem[rpos + 3] = Cell("end2", NoHead)
         /\ rpos + 3 \in HeadEnds /\ \A j \in HeadEnds : j >= rpos + 3
<1>0. PICK n \in Nat, l \in Nat, k \in Nat : n = Len(reqs) /\ l = Len(bytes) /\ k = Len(handled)
  BY LenProperties DEF ReadTypes
<1>1. /\ n = Len(reqs) /\ l = Len(bytes) /\ k = Len(handled) /\ k <= n
      /\ \E d \in Nat, a \in Nat, b \in Nat :
           d = rd /\ a = rpos /\ b = wpos /\ d <= l /\ a < b /\ b <= d /\ b <= MESSAGE_BUFFER_SIZE
  <2>1. rd \in Nat /\ rpos \in Nat /\ wpos \in Nat /\ rd <= l /\ wpos <= MESSAGE_BUFFER_SIZE
    BY <1>0, HttpConnectAssumption DEF ReadTypes
  <2>2. rpos < wpos /\ wpos <= rd
    BY DEF BufferOK
  <2> QED
    BY <1>0, <2>1, <2>2 DEF AllRead
<1>9. PICK d \in Nat, a \in Nat, b \in Nat :
        d = rd /\ a = rpos /\ b = wpos /\ d <= l /\ a < b /\ b <= d /\ b <= MESSAGE_BUFFER_SIZE
  BY <1>1
<1>2. PICK p \in Nat : p = o[k + 1] /\ p = d - (b - a) /\ p < l
  BY <1>1, <1>9 DEF Between, Pos
<1>3. k < n /\ k + 1 \in 1 .. n
  <2>1. o[n + 1] = l
    BY <1>1 DEF Layout
  <2>2. ASSUME k = n PROVE FALSE
    <3>1. p = o[n + 1] /\ p < l
      BY <1>2, <2>2
    <3> QED
      BY <2>1, <3>1
  <2> QED
    BY <1>1, <2>2
<1>4. /\ bytes[p + 1] = Cell("head", reqs[k + 1].head) /\ bytes[p + 2] = Cell("end1", NoHead)
      /\ bytes[p + 3] = Cell("end2", NoHead)
      /\ p + 1 \in inHead /\ p + 2 \in inHead
  BY <1>1, <1>9, <1>2, <1>3 DEF Layout
<1>5. a + 3 <= b
  <2>1. d \notin inHead
    BY <1>9 DEF BufferOK
  <2>2. d # p + 1 /\ d # p + 2
    BY <1>4, <2>1
  <2> QED
    BY <1>1, <1>9, <1>2, <2>2
<1>6. /\ mem[a + 1] = bytes[p + 1] /\ mem[a + 2] = bytes[p + 2] /\ mem[a + 3] = bytes[p + 3]
  <2>1. a + 1 \in 1 .. b /\ a + 2 \in 1 .. b /\ a + 3 \in 1 .. b
    BY <1>1, <1>9, <1>5
  <2>2. d - b + (a + 1) = p + 1 /\ d - b + (a + 2) = p + 2 /\ d - b + (a + 3) = p + 3
    BY <1>1, <1>9, <1>2
  <2>3. \A i \in 1 .. b : mem[i] = bytes[d - b + i]
    BY <1>9 DEF BufferOK
  <2>4. /\ mem[a + 1] = bytes[d - b + (a + 1)] /\ mem[a + 2] = bytes[d - b + (a + 2)]
        /\ mem[a + 3] = bytes[d - b + (a + 3)]
    BY <2>1, <2>3
  <2> QED
    BY <2>2, <2>4
<1>7. a + 3 \in HeadEnds
  <2>1. a + 3 \in a + 2 .. MESSAGE_BUFFER_SIZE
    <3>1. a + 3 <= MESSAGE_BUFFER_SIZE /\ MESSAGE_BUFFER_SIZE \in Nat
      BY <1>5, <1>9, HttpConnectAssumption
    <3> QED
      BY <3>1
  <2>2. \A i \in a + 1 .. a + 3 : i = a + 1 \/ i = a + 2 \/ i = a + 3
    BY <1>1, <1>9
  <2>3. \A i \in a + 1 .. a + 3 : mem[i].kind # "nul"
    <3>1. mem[a + 1].kind # "nul" /\ mem[a + 2].kind # "nul" /\ mem[a + 3].kind # "nul"
      BY <1>4, <1>6 DEF Cell
    <3> QED
      BY <2>2, <3>1
  <2>4. mem[a + 3 - 1].kind = "end1" /\ mem[a + 3].kind = "end2"
    BY <1>1, <1>9, <1>4, <1>6 DEF Cell
  <2> QED
    BY <1>1, <1>9, <2>1, <2>3, <2>4 DEF HeadEnds
<1>8. ASSUME NEW j \in HeadEnds PROVE j >= a + 3
  <2>1. j \in a + 2 .. MESSAGE_BUFFER_SIZE /\ mem[j - 1].kind = "end1"
    BY <1>1, <1>9, <1>8 DEF HeadEnds
  <2>2. j # a + 2
    <3>1. mem[a + 1].kind = "head"
      BY <1>4, <1>6 DEF Cell
    <3>2. ASSUME j = a + 2 PROVE FALSE
      <4>1. j - 1 = a + 1
        BY <1>1, <1>9, <3>2
      <4> QED
        BY <2>1, <3>1, <4>1
    <3> QED
      BY <3>2
  <2> QED
    BY <1>1, <1>9, <2>1, <2>2, HttpConnectAssumption
<1> QED
  BY <1>1, <1>9, <1>3, <1>4, <1>5, <1>6, <1>7, <1>8

\* A head is found: it is the next request's, or starts with cells of a body and
\* is refused.
LEMMA HeadFoundRead ==
  ASSUME ReadInv, headFound
  PROVE  ReadInv'
<1>1. PICK j \in HeadEnds :
        /\ \A i \in HeadEnds : j <= i
        /\ m_readPacket' = m_readPacket \o SubSeq(mem, rpos + 1, j)
        /\ capacity' = Grown(Len(m_readPacket), j - rpos)
        /\ m_content' = "set"
        /\ m_parser' = parser(m_readPacket')
        /\ IF m_parser' = Failed
           THEN /\ handle' = Closed(handle)
                /\ return
                /\ UNCHANGED m_residue
           ELSE /\ m_residue' = IF m_parser'.head.method = "POST" THEN m_parser'.left ELSE 0
                /\ pc' = "content"
                /\ rpos' = j
                /\ UNCHANGED <<handle, wpos>>
  BY DEF headFound
<1>2. /\ pc = "loop" /\ m_content = "null"
      /\ UNCHANGED <<rd, mem, handled, uncut, reqs, bytes, inHead, sent>>
  BY DEF headFound, peerVars
<1>0. PICK q : q = m_readPacket'
  OBVIOUS
<1>3. PICK a \in Nat, g \in Nat :
        /\ a = rpos /\ q = m_readPacket' /\ g = Len(m_readPacket)
        /\ j \in a + 2 .. MESSAGE_BUFFER_SIZE
  <2>1. rpos \in Nat /\ Len(m_readPacket) \in Nat
    BY HttpConnectAssumption, LenProperties DEF ReadInv, ReadTypes
  <2>2. j \in rpos + 2 .. MESSAGE_BUFFER_SIZE
    BY DEF HeadEnds
  <2> QED
    BY <1>0, <2>1, <2>2
<1>4. /\ q \in Seq(CellType) /\ Len(q) = g + (j - a)
      /\ \A i \in 1 .. g : q[i] = m_readPacket[i]
      /\ \A i \in 1 .. j - a : q[g + i] = mem[a + i]
  <2>1. PICK x \in Nat : x = j - a /\ j = a + x /\ a + x <= MESSAGE_BUFFER_SIZE
                          /\ j \in Nat /\ a <= j
    BY <1>3, HttpConnectAssumption
  <2>2. q = Filled(x)
    BY <1>1, <1>3, <2>1, FilledUpTo DEF ReadInv
  <2>3. /\ q \in Seq(CellType) /\ Len(q) = g + x
        /\ \A i \in 1 .. g : q[i] = m_readPacket[i]
        /\ \A i \in 1 .. x : q[g + i] = mem[a + i]
    <3>1. rpos + x <= MESSAGE_BUFFER_SIZE /\ ReadTypes
      BY <1>3, <2>1 DEF ReadInv
    <3> QED
      BY <1>3, <2>2, <3>1, PacketCells
  <2> QED
    BY <2>1, <2>3
<1>5. m_parser' \in {Failed, Fresh} \cup [state : {"parsed"}, head : HeadType, left : Nat]
  BY <1>1, <1>3, <1>4, ParserType
<1>8. m_parser' \in [state : {"fresh", "parsed", "failed"}, head : HeadType \cup {NoHead}, left : Nat]
  <2>1. \A x \in [state : {"parsed"}, head : HeadType, left : Nat] :
          x \in [state : {"fresh", "parsed", "failed"}, head : HeadType \cup {NoHead}, left : Nat]
    OBVIOUS
  <2> QED
    BY <1>5, <2>1 DEF Failed, Fresh
<1>6. capacity' \in Nat /\ capacity' >= capacity
  <2>1. j - a \in Nat /\ capacity \in Nat
    BY <1>3, HttpConnectAssumption DEF ReadInv, ReadTypes
  <2> QED
    BY <1>1, <1>3, <2>1, GrownType
<1>7. pc' \in {"idle", "content"} /\ rpos' \in 0 .. MESSAGE_BUFFER_SIZE
      /\ wpos' \in 0 .. MESSAGE_BUFFER_SIZE /\ m_residue' \in Nat
  <2>1. j \in 0 .. MESSAGE_BUFFER_SIZE /\ 0 \in 0 .. MESSAGE_BUFFER_SIZE
    BY <1>3, HttpConnectAssumption
  <2>2. wpos \in 0 .. MESSAGE_BUFFER_SIZE /\ m_residue \in Nat
    BY DEF ReadInv, ReadTypes
  <2>3. CASE m_parser' = Failed
    BY <1>1, <2>1, <2>2, <2>3 DEF return
  <2>4. CASE m_parser' # Failed
    BY <1>1, <1>8, <2>1, <2>2, <2>4
  <2> QED
    BY <2>3, <2>4
<1>9. ReadTypes'
  BY <1>1, <1>2, <1>3, <1>4, <1>6, <1>7, <1>8 DEF ReadInv, ReadTypes
<1>10. handle # "pooled" /\ capacity >= DEFAULT_SIZE /\ capacity \in Nat
  BY <1>2 DEF ReadInv, CallsOK, ReadTypes
<1>11. m_parser' = Failed => Stopped' /\ rpos' = 0 /\ wpos' = 0 /\ pc' = "idle"
  BY <1>1 DEF Stopped, return, Closed
<1>12. CallsOK'
  BY <1>1, <1>6, <1>10, <1>11, HttpConnectAssumption DEF CallsOK
<1>13. ParserOK'
  <2>1. CASE m_parser' = Failed
    BY <1>11, <2>1 DEF ParserOK
  <2>2. CASE m_parser' # Failed
    <3>1. m_parser'.head.method = "POST" => m_residue' = m_parser'.left
      BY <1>1, <2>2
    <3>2. Len(m_readPacket') \in Nat /\ m_parser'.left \in Nat
      BY <1>3, <1>4, <1>8, LenProperties
    <3> QED
      BY <3>1, <3>2 DEF ParserOK
  <2> QED
    BY <2>1, <2>2
<1>14. ASSUME uncut PROVE ReadOK'
  <2>1. ReadOK /\ ~Stopped
    BY <1>2, <1>14 DEF ReadInv, Stopped
  <2>2. HandledOK'
    BY <1>2, <2>1 DEF ReadOK, HandledOK
  <2>3. CASE m_parser' = Failed
    BY <1>11, <2>2, <2>3 DEF ReadOK
  <2>7. CASE Lost
    BY <1>2, <2>2, <2>7 DEF ReadOK, Lost
  <2>4. CASE BufferOK /\ Astray
    <3>1. IsText(q[1]) /\ q # <<>>
      <4>1. CASE m_readPacket = <<>>
        <5>1. g = 0 /\ 1 \in 1 .. j - a
          BY <1>3, <4>1, HttpConnectAssumption
        <5>2. q[0 + 1] = mem[a + 1]
          BY <1>4, <5>1
        <5>3. mem[a + 1] = bytes[Pos + 1]
          <6>2. rpos < wpos /\ rd \in Nat /\ wpos \in Nat
            BY <1>2, <2>4, HttpConnectAssumption DEF BufferOK, ReadInv, ReadTypes
          <6>1. a + 1 \in 1 .. wpos /\ rd - wpos + (a + 1) = Pos + 1
            BY <1>3, <6>2 DEF Pos
          <6> QED
            BY <2>4, <6>1 DEF BufferOK
        <5>4. q # <<>>
          BY <1>3, <1>4, HttpConnectAssumption
        <5> QED
          BY <2>4, <4>1, <5>2, <5>3, <5>4 DEF Astray
      <4>2. CASE m_readPacket # <<>>
        <5>1. 1 \in 1 .. g
          BY <1>3, <4>2, EmptySeq DEF ReadInv, ReadTypes
        <5>2. q # <<>>
          BY <1>3, <1>4, HttpConnectAssumption
        <5> QED
          BY <1>4, <2>4, <4>2, <5>1, <5>2 DEF Astray
      <4> QED
        BY <4>1, <4>2
    <3>2. m_parser' = Failed
      BY <1>1, <1>3, <1>4, <3>1, ParserAstray
    <3> QED
      BY <2>3, <3>2
  <2>5. ASSUME BufferOK, AllRead, NEW o \in [1 .. Len(reqs) + 1 -> Nat], Layout(o), Between(o)
        PROVE  ReadOK'
    <3>1. PICK k \in Nat, n \in Nat, d \in Nat, b \in Nat :
            k = Len(handled) /\ n = Len(reqs) /\ d = rd /\ b = wpos /\ b <= d
      BY <2>5, LenProperties DEF ReadInv, ReadTypes, BufferOK
    <3>2. /\ k < n /\ a + 3 <= b /\ mem[a + 1] = Cell("head", reqs[k + 1].head)
          /\ mem[a + 2] = Cell("end1", NoHead) /\ mem[a + 3] = Cell("end2", NoHead)
          /\ a + 3 \in HeadEnds /\ j >= a + 3
      BY <1>2, <1>3, <2>5, <3>1, HeadHere DEF ReadInv
    <3>3. j = a + 3
      BY <1>1, <1>3, <3>2, HttpConnectAssumption
    <3>4. g = 0 /\ j - a = 3
      BY <1>3, <2>5, <3>3 DEF Between
    <3>5. Len(q) = 3 /\ q[1] = mem[a + 1] /\ q[2] = mem[a + 2] /\ q[3] = mem[a + 3]
      <4>1. \A i \in 1 .. 3 : q[i] = mem[a + i] /\ Len(q) = 3
        BY <1>4, <3>4
      <4> QED
        BY <4>1
    <3>6. PICK r \in Request : r = reqs[k + 1]
      <4>1. k + 1 \in 1 .. n /\ reqs \in Seq(Request)
        BY <3>1, <3>2 DEF ReadInv, ReadTypes
      <4> QED
        BY <3>1, <4>1, ElementOfSeq
    <3>7. parser(q) = IF r.head.method = "BAD" THEN Failed
                      ELSE [state |-> "parsed", head |-> r.head, left |-> r.head.len]
      BY <1>4, <3>2, <3>5, <3>6, ParserOneHead
    <3>8. CASE m_parser' # Failed
      <4>1. /\ m_parser' = [state |-> "parsed", head |-> r.head, left |-> r.head.len]
            /\ m_residue' = (IF r.head.method = "POST" THEN r.head.len ELSE 0)
            /\ pc' = "content" /\ rpos' = a + 3 /\ wpos' = b
        BY <1>1, <1>3, <3>1, <3>3, <3>7, <3>8
      <4>2. BufferOK'
        BY <1>2, <2>5, <3>1, <3>2, <4>1 DEF BufferOK
      <4>3. PICK p \in Nat, c \in Nat :
              /\ p = o[k + 1] /\ c = Len(r.body) /\ o[k + 2] = p + 3 + c /\ p = d - (b - a)
              /\ bytes[p + 1] = Cell("head", r.head) /\ bytes[p + 2] = Cell("end1", NoHead)
              /\ bytes[p + 3] = Cell("end2", NoHead)
        <5>1. k + 1 \in 1 .. n /\ k + 1 \in 1 .. n + 1 /\ k + 1 + 1 = k + 2
          BY <3>1, <3>2
        <5>2. o[k + 1] \in Nat /\ Len(r.body) \in Nat
          BY <3>1, <3>6, <5>1, CellsTyped
        <5>3. o[k + 1] = d - (b - a)
          BY <1>3, <2>5, <3>1 DEF Between, Pos
        <5>4. /\ o[k + 1 + 1] = o[k + 1] + 3 + Len(reqs[k + 1].body)
              /\ bytes[o[k + 1] + 1] = Cell("head", reqs[k + 1].head)
              /\ bytes[o[k + 1] + 2] = Cell("end1", NoHead)
              /\ bytes[o[k + 1] + 3] = Cell("end2", NoHead)
          BY <2>5, <3>1, <5>1 DEF Layout
        <5> QED
          BY <3>6, <5>1, <5>2, <5>3, <5>4
      <4>4. Pos' = p + 3
        BY <1>2, <1>3, <3>1, <4>1, <4>3 DEF Pos
      <4>5. \A i \in 1 .. 3 : q[i] = bytes[p + i]
        <5>1. \A i \in 1 .. 3 : i = 1 \/ i = 2 \/ i = 3
          OBVIOUS
        <5> QED
          BY <3>2, <3>5, <3>6, <4>3, <5>1
      <4>6. IF Taken(r) THEN m_residue' = o[k + 2] - Pos'
                        ELSE m_residue' = 0 /\ Len(q) = 3
        <5>1. IF r.head.chunked THEN r.head.len = 0 ELSE r.head.len = Len(r.body)
          BY CellsTyped
        <5>2. m_residue' = IF Taken(r) THEN c ELSE 0
          BY <4>1, <4>3, <5>1 DEF Taken
        <5> QED
          BY <3>5, <4>3, <4>4, <5>2
      <4>7. Len(q) = Pos' - p
        BY <3>5, <4>3, <4>4
      <4>8. InContent(o)'
        <5>1. /\ handled' = handled /\ reqs' = reqs /\ bytes' = bytes /\ m_content' = "set"
              /\ m_readPacket' = q /\ Len(handled) = k /\ k < Len(reqs) /\ reqs[k + 1] = r
              /\ o[k + 1] = p /\ pc' = "content" /\ Len(q) = 3
          BY <1>1, <1>2, <1>3, <3>1, <3>2, <3>5, <3>6, <4>1, <4>3
        <5>2. m_parser' = [state |-> "parsed", head |-> r.head, left |-> r.head.len]
          BY <4>1
        <5>3. /\ Len(handled') = k /\ k < Len(reqs') /\ reqs'[k + 1] = r /\ o[k + 1] = p
              /\ m_content' = "set" /\ Len(m_readPacket') = 3 /\ 3 >= 3 /\ pc' # "idle"
          BY <5>1
        <5>4. \A i \in 1 .. Len(m_readPacket') : m_readPacket'[i] = bytes'[p + i]
          BY <4>5, <5>1
        <5>5. Len(m_readPacket') = Pos' - p
          BY <4>7, <5>1
        <5>6. IF Taken(r) THEN m_residue' = o[k + 2] - Pos'
                          ELSE m_residue' = 0 /\ Len(m_readPacket') = 3
          BY <4>6, <5>1
        <5> QED
          BY <5>2, <5>3, <5>4, <5>5, <5>6 DEF InContent
      <4>9. Layout(o)' /\ o \in [1 .. Len(reqs') + 1 -> Nat] /\ AllRead'
        BY <1>2, <2>5 DEF Layout, AllRead
      <4> QED
        BY <2>2, <4>2, <4>8, <4>9 DEF ReadOK, Follows
    <3> QED
      BY <2>3, <3>8
  <2>6. ASSUME NEW o, InContent(o) PROVE FALSE
    BY <1>2, <2>6 DEF InContent
  <2> QED
    BY <2>1, <2>4, <2>5, <2>6, <2>7 DEF ReadOK, Follows
<1> QED
  BY <1>2, <1>9, <1>12, <1>13, <1>14 DEF ReadInv

\* No end of a head is found: between two requests that does not happen.
LEMMA HeadNotFoundRead ==
  ASSUME ReadInv, headNotFound
  PROVE  ReadInv'
<1>1. /\ pc = "loop" /\ m_content = "null" /\ HeadEnds = {} /\ pc' = "idle" /\ rpos' = 0 /\ wpos' = 0
      /\ UNCHANGED <<rd, mem, m_content, m_residue, m_parser, handled, uncut, reqs, bytes,
                     inHead, sent>>
  BY DEF headNotFound, return, peerVars
<1>2. PICK a \in Nat, b \in Nat, g \in Nat :
        /\ a = rpos /\ b = wpos /\ b <= MESSAGE_BUFFER_SIZE /\ g = Len(m_readPacket)
        /\ capacity \in Nat /\ capacity >= DEFAULT_SIZE
  <2>1. rpos \in Nat /\ wpos \in Nat /\ wpos <= MESSAGE_BUFFER_SIZE /\ Len(m_readPacket) \in Nat
    BY HttpConnectAssumption, LenProperties DEF ReadInv, ReadTypes
  <2>2. capacity \in Nat /\ capacity >= DEFAULT_SIZE
    BY DEF ReadInv, ReadTypes, CallsOK
  <2> QED
    BY <2>1, <2>2
<1>3. CASE b < a
  <2>1. handle' = "aborted" /\ UNCHANGED <<m_readPacket, capacity>>
    BY <1>2, <1>3 DEF headNotFound, ActiveSize
  <2>2. ReadTypes' /\ CallsOK' /\ ParserOK'
    BY <1>1, <1>2, <2>1, HttpConnectAssumption DEF ReadInv, ReadTypes, CallsOK, ParserOK
  <2>3. uncut => ReadOK'
    BY <1>1, <2>1 DEF ReadInv, ReadOK, HandledOK, Stopped
  <2> QED
    BY <1>1, <2>2, <2>3 DEF ReadInv
<1>4. CASE a <= b
  <2>1. PICK q : q = m_readPacket' /\ q = m_readPacket \o SubSeq(mem, a + 1, b)
          /\ capacity' = Grown(g, b - a)
    <3>1. ~(ActiveSize < 0) /\ ActiveSize = b - a
      BY <1>2, <1>4 DEF ActiveSize
    <3>2. m_readPacket' = m_readPacket \o SubSeq(mem, rpos + 1, wpos)
          /\ capacity' = Grown(Len(m_readPacket), ActiveSize)
      BY <3>1 DEF headNotFound
    <3> QED
      BY <1>2, <3>1, <3>2
  <2>2. /\ q \in Seq(CellType) /\ Len(q) = g + (b - a)
        /\ \A i \in 1 .. g : q[i] = m_readPacket[i]
        /\ \A i \in 1 .. b - a : q[g + i] = mem[a + i]
    <3>1. PICK x \in Nat : x = b - a /\ b = a + x /\ a + x <= MESSAGE_BUFFER_SIZE
      BY <1>2, <1>4
    <3>2. q = Filled(x)
      BY <1>2, <1>4, <2>1, <3>1, FilledUpTo DEF ReadInv
    <3>3. /\ q \in Seq(CellType) /\ Len(q) = g + x
          /\ \A i \in 1 .. g : q[i] = m_readPacket[i]
          /\ \A i \in 1 .. x : q[g + i] = mem[a + i]
      BY <1>2, <3>1, <3>2, PacketCells DEF ReadInv
    <3> QED
      BY <3>1, <3>3
  <2>3. capacity' \in Nat /\ capacity' >= DEFAULT_SIZE
    <3>1. b - a \in Nat
      BY <1>2, <1>4
    <3>2. capacity' \in Nat /\ capacity' >= capacity
      BY <1>2, <2>1, <3>1, GrownType
    <3> QED
      BY <1>2, <3>2, HttpConnectAssumption
  <2>4. ReadTypes' /\ CallsOK' /\ ParserOK'
    BY <1>1, <2>1, <2>2, <2>3, HttpConnectAssumption DEF ReadInv, ReadTypes, CallsOK, ParserOK
  <2>5. ASSUME uncut PROVE ReadOK'
    <3>1. ReadOK /\ ~Stopped
      BY <1>1, <2>5 DEF ReadInv, Stopped
    <3>2. HandledOK'
      BY <1>1, <3>1 DEF ReadOK, HandledOK
    <3>6. ASSUME BufferOK PROVE BufferOK'
      <4>1. 0 <= rd /\ \A i \in 1 .. 0 : FALSE
        BY DEF ReadInv, ReadTypes
      <4> QED
        BY <1>1, <3>6, <4>1 DEF BufferOK
    <3>7. CASE Lost
      BY <1>1, <3>2, <3>7 DEF ReadOK, Lost
    <3>3. CASE BufferOK /\ Astray
      <4>1. a < b
        BY <1>1, <1>2, <3>3 DEF BufferOK
      <4>2. IsText(q[1])
        <5>1. CASE m_readPacket = <<>>
          <6>1. g = 0 /\ 1 \in 1 .. b - a
            BY <1>2, <4>1, <5>1
          <6>2. q[0 + 1] = mem[a + 1]
            BY <2>2, <6>1
          <6>3. a + 1 \in 1 .. b /\ rd - b + (a + 1) = Pos + 1
            BY <1>2, <4>1 DEF Pos, ReadInv, ReadTypes
          <6>4. mem[a + 1] = bytes[Pos + 1]
            BY <1>2, <3>3, <6>3 DEF BufferOK
          <6> QED
            BY <3>3, <5>1, <6>2, <6>4 DEF Astray
        <5>2. CASE m_readPacket # <<>>
          <6>1. 1 \in 1 .. g
            BY <1>2, <5>2, EmptySeq DEF ReadInv, ReadTypes
          <6> QED
            BY <2>2, <3>3, <5>2, <6>1 DEF Astray
        <5> QED
          BY <5>1, <5>2
      <4>3. q # <<>>
        BY <1>2, <2>2, <4>1
      <4>4. Astray'
        BY <1>1, <2>1, <4>2, <4>3 DEF Astray
      <4> QED
        BY <3>2, <3>3, <3>6, <4>4 DEF ReadOK, Follows
    <3>4. ASSUME BufferOK, AllRead, NEW o \in [1 .. Len(reqs) + 1 -> Nat], Layout(o), Between(o)
          PROVE  FALSE
      BY <1>1, <3>4, HeadHere DEF ReadInv
    <3>5. ASSUME NEW o, InContent(o) PROVE FALSE
      BY <1>1, <3>5 DEF InContent
    <3> QED
      BY <3>1, <3>3, <3>4, <3>5, <3>7 DEF ReadOK, Follows
  <2> QED
    BY <1>1, <2>4, <2>5 DEF ReadInv
<1> QED
  BY <1>2, <1>3, <1>4

\* The k requests before request r are handled, which starts at p and has c cells
\* of content; the packet holds g of its cells.
ContentAt(o, k, p, r, c, g) ==
  /\ k = Len(handled) /\ k < Len(reqs) /\ r = reqs[k + 1] /\ c = Len(r.body)
  /\ p = o[k + 1] /\ o[k + 2] = p + 3 + c /\ p + 3 + c <= Len(bytes)
  /\ g = Len(m_readPacket) /\ g >= 3 /\ Pos = p + g
  /\ \A i \in 1 .. g : m_readPacket[i] = bytes[p + i]
  /\ \A i \in 1 .. c : bytes[p + 3 + i] = r.body[i]
  /\ m_parser.head = r.head /\ m_parser.left = r.head.len
  /\ m_content = "dangling" => Taken(r) /\ 3 + c > DEFAULT_SIZE
  /\ IF Taken(r) THEN m_residue + g = 3 + c ELSE m_residue = 0 /\ g = 3

\* What is known of the packet while it waits for content.
LEMMA ContentHere ==
  ASSUME ReadTypes, NEW o \in [1 .. Len(reqs) + 1 -> Nat], Layout(o), InContent(o)
  PROVE  \E k \in Nat, p \in Nat, r \in Request, c \in Nat, g \in Nat : ContentAt(o, k, p, r, c, g)
<1>1. PICK k \in Nat, n \in Nat, g \in Nat :
        k = Len(handled) /\ n = Len(reqs) /\ g = Len(m_readPacket) /\ k < n /\ k + 1 \in 1 .. n
  BY DEF ReadTypes, InContent
<1>2. PICK r \in Request : r = reqs[k + 1]
  BY <1>1, ElementOfSeq DEF ReadTypes
<1>3. PICK c \in Nat : c = Len(r.body)
  BY <1>2, CellsTyped
<1>4. PICK p \in Nat : p = o[k + 1]
  BY <1>1
<1>5. /\ o[k + 2] = p + 3 + c /\ p + 3 + c <= Len(bytes)
      /\ \A i \in 1 .. c : bytes[p + 3 + i] = r.body[i]
  <2>1. k + 1 + 1 = k + 2
    BY <1>1
  <2> QED
    BY <1>1, <1>2, <1>3, <1>4, <2>1 DEF Layout
<1>6. Pos \in Int /\ m_residue \in Nat
  BY DEF Pos, ReadTypes
<1>7. /\ m_parser = [state |-> "parsed", head |-> reqs[k + 1].head,
                     left |-> reqs[k + 1].head.len]
      /\ m_content = "dangling" => Taken(reqs[k + 1]) /\ 3 + Len(reqs[k + 1].body) > DEFAULT_SIZE
      /\ g = Pos - o[k + 1] /\ g >= 3
      /\ \A i \in 1 .. g : m_readPacket[i] = bytes[o[k + 1] + i]
      /\ IF Taken(reqs[k + 1]) THEN m_residue = o[k + 2] - Pos
                               ELSE m_residue = 0 /\ g = 3
  BY <1>1 DEF InContent
<1>8. /\ \A i \in 1 .. g : m_readPacket[i] = bytes[p + i]
      /\ m_parser.head = r.head /\ m_parser.left = r.head.len
      /\ m_content = "dangling" => Taken(r) /\ 3 + c > DEFAULT_SIZE
  BY <1>2, <1>3, <1>4, <1>7
<1>9. Pos = p + g
  BY <1>4, <1>6, <1>7
<1>10. IF Taken(r) THEN m_residue + g = 3 + c ELSE m_residue = 0 /\ g = 3
  <2>1. CASE Taken(r)
    <3>1. m_residue = (p + 3 + c) - Pos
      BY <1>2, <1>5, <1>7, <2>1
    <3> QED
      BY <1>6, <1>9, <2>1, <3>1
  <2>2. CASE ~Taken(r)
    BY <1>2, <1>7, <2>2
  <2> QED
    BY <2>1, <2>2
<1>11. ContentAt(o, k, p, r, c, g)
  BY <1>1, <1>2, <1>3, <1>4, <1>5, <1>7, <1>8, <1>9, <1>10 DEF ContentAt
<1> QED
  BY <1>11

\* The packet with k more cells of the buffer holds the next cells of the stream.
LEMMA FilledHere ==
  ASSUME ReadTypes, BufferOK, NEW k \in Nat, rpos + k <= wpos, NEW p \in Nat,
         Pos = p + Len(m_readPacket),
         \A i \in 1 .. Len(m_readPacket) : m_readPacket[i] = bytes[p + i]
  PROVE  /\ Filled(k) \in Seq(CellType) /\ Len(Filled(k)) = Len(m_readPacket) + k
         /\ \A i \in 1 .. Len(m_readPacket) + k : Filled(k)[i] = bytes[p + i]
<1>1. PICK a \in Nat, b \in Nat, d \in Nat, g \in Nat :
        /\ a = rpos /\ b = wpos /\ d = rd /\ g = Len(m_readPacket)
        /\ a + k <= b /\ b <= d /\ b <= MESSAGE_BUFFER_SIZE /\ d - (b - a) = p + g
  BY HttpConnectAssumption DEF ReadTypes, BufferOK, Pos
<1>2. PICK q : q = Filled(k)
  OBVIOUS
<1>3. rpos + k <= MESSAGE_BUFFER_SIZE
  BY <1>1, HttpConnectAssumption
<1>4. /\ q \in Seq(CellType) /\ Len(q) = g + k
      /\ \A i \in 1 .. g : q[i] = m_readPacket[i]
      /\ \A i \in 1 .. k : q[g + i] = mem[a + i]
  <2>1. /\ Filled(k) \in Seq(CellType) /\ Len(Filled(k)) = Len(m_readPacket) + k
        /\ \A i \in 1 .. Len(m_readPacket) : Filled(k)[i] = m_readPacket[i]
        /\ \A i \in 1 .. k : Filled(k)[Len(m_readPacket) + i] = mem[rpos + i]
    BY <1>3, PacketCells
  <2> QED
    BY <1>1, <1>2, <2>1
<1>5. ASSUME NEW i \in 1 .. g + k PROVE q[i] = bytes[p + i]
  <2>1. CASE i <= g
    <3>1. i \in 1 .. g
      BY <2>1
    <3>2. m_readPacket[i] = bytes[p + i]
      BY <1>1, <3>1
    <3> QED
      BY <1>4, <3>1, <3>2
  <2>2. CASE i > g
    <3>1. PICK x \in 1 .. k : i = g + x
      BY <2>2
    <3>2. a + x \in 1 .. b /\ d - b + (a + x) = p + i
      BY <1>1, <3>1
    <3>3. mem[a + x] = bytes[d - b + (a + x)]
      BY <1>1, <3>2 DEF BufferOK
    <3> QED
      BY <1>4, <3>1, <3>2, <3>3
  <2> QED
    BY <2>1, <2>2
<1> QED
  BY <1>1, <1>2, <1>4, <1>5

\* The read ends inside the content.
LEMMA ReadContentRead ==
  ASSUME ReadInv, readContent
  PROVE  ReadInv'
<1>1. PICK a \in Nat, b \in Nat, g \in Nat, k \in Nat, e \in Nat :
        /\ a = rpos /\ b = wpos /\ b <= MESSAGE_BUFFER_SIZE /\ g = Len(m_readPacket)
        /\ k = ActiveSize /\ k = b - a /\ a <= b /\ e = m_residue /\ e > k
        /\ capacity \in Nat /\ capacity >= DEFAULT_SIZE /\ a + k = b
  <2>1. /\ rpos \in Nat /\ wpos \in Nat /\ wpos <= MESSAGE_BUFFER_SIZE
        /\ Len(m_readPacket) \in Nat /\ m_residue \in Nat
    BY HttpConnectAssumption, LenProperties DEF ReadInv, ReadTypes
  <2>2. capacity \in Nat /\ capacity >= DEFAULT_SIZE
    BY DEF ReadInv, ReadTypes, CallsOK
  <2>3. ActiveSize = wpos - rpos /\ ActiveSize >= 0 /\ m_residue > ActiveSize
    BY DEF readContent, ActiveSize
  <2>4. ActiveSize \in Nat /\ rpos <= wpos /\ rpos + ActiveSize = wpos
    BY <2>1, <2>3
  <2> QED
    BY <2>1, <2>2, <2>3, <2>4
<1>2. /\ pc # "idle" /\ m_content # "null"
      /\ m_readPacket' = Filled(k) /\ m_content' = Content(k) /\ capacity' = Grown(g, k)
      /\ m_residue' = e - k /\ pc' = "idle" /\ rpos' = 0 /\ wpos' = 0
      /\ UNCHANGED <<rd, mem, m_parser, handled, handle, uncut, reqs, bytes, inHead, sent>>
  BY <1>1 DEF readContent, return, peerVars, AtContent, ReadInv, CallsOK
<1>3. m_readPacket' \in Seq(CellType) /\ Len(m_readPacket') = g + k
  <2>1. rpos + k <= MESSAGE_BUFFER_SIZE
    BY <1>1
  <2> QED
    <3>1. Filled(k) \in Seq(CellType) /\ Len(Filled(k)) = Len(m_readPacket) + k
      BY <2>1, PacketCells DEF ReadInv
    <3> QED
      BY <1>1, <1>2, <3>1
<1>4. capacity' \in Nat /\ capacity' >= DEFAULT_SIZE
  <2>1. capacity' \in Nat /\ capacity' >= capacity
    BY <1>1, <1>2, GrownType
  <2> QED
    BY <1>1, <2>1, HttpConnectAssumption
<1>5. m_content' \in {"set", "dangling"} /\ m_residue' \in Nat
  BY <1>1, <1>2 DEF Content, ReadInv, ReadTypes
<1>6. ReadTypes'
  BY <1>2, <1>3, <1>4, <1>5, HttpConnectAssumption DEF ReadInv, ReadTypes
<1>7. CallsOK'
  BY <1>2, <1>4 DEF CallsOK
<1>8. ParserOK'
  <2>1. m_parser.head.method = "POST" => m_parser.left <= g + e
    BY <1>1, <1>2 DEF ReadInv, ParserOK, Stopped
  <2>2. Len(m_readPacket') + m_residue' = g + e
    BY <1>1, <1>2, <1>3
  <2> QED
    BY <1>2, <2>1, <2>2 DEF ParserOK
<1>9. ASSUME uncut PROVE ReadOK'
  <2>1. ReadOK /\ ReadTypes
    BY <1>9 DEF ReadInv
  <2>2. HandledOK'
    BY <1>2, <2>1 DEF ReadOK, HandledOK
  <2>3. CASE Lost
    BY <1>2, <2>2, <2>3 DEF ReadOK, Lost
  <2>4. ASSUME BufferOK, AllRead, NEW o \in [1 .. Len(reqs) + 1 -> Nat], Layout(o), InContent(o)
        PROVE  ReadOK'
    <3>1. PICK h \in Nat, p \in Nat, r \in Request, c \in Nat, z \in Nat :
            ContentAt(o, h, p, r, c, z)
      BY <2>1, <2>4, ContentHere
    <3>2. /\ h = Len(handled) /\ h < Len(reqs) /\ r = reqs[h + 1] /\ c = Len(r.body)
          /\ p = o[h + 1] /\ o[h + 2] = p + 3 + c
          /\ m_content = "dangling" => Taken(r) /\ 3 + c > DEFAULT_SIZE
          /\ z = Len(m_readPacket) /\ z >= 3 /\ Pos = p + z
          /\ \A i \in 1 .. z : m_readPacket[i] = bytes[p + i]
          /\ IF Taken(r) THEN m_residue + z = 3 + c ELSE m_residue = 0 /\ z = 3
      BY <3>1 DEF ContentAt
    <3>3. /\ z = g /\ g >= 3 /\ Pos = p + g
          /\ \A i \in 1 .. g : m_readPacket[i] = bytes[p + i]
      BY <1>1, <3>2
    <3>4. Taken(r) /\ e + g = 3 + c
      <4>1. IF Taken(r) THEN m_residue + g = 3 + c ELSE m_residue = 0
        BY <3>2, <3>3
      <4> QED
        BY <1>1, <4>1
    <3>5. \A i \in 1 .. g + k : m_readPacket'[i] = bytes[p + i]
      <4>1. rpos + k <= wpos /\ Pos = p + Len(m_readPacket)
            /\ \A i \in 1 .. Len(m_readPacket) : m_readPacket[i] = bytes[p + i]
        BY <1>1, <3>3
      <4>2. \A i \in 1 .. Len(m_readPacket) + k : Filled(k)[i] = bytes[p + i]
        BY <2>1, <2>4, <4>1, FilledHere
      <4> QED
        BY <1>1, <1>2, <4>2
    <3>6. m_content' = "dangling" => Taken(r) /\ 3 + c > DEFAULT_SIZE
      <4>1. CASE g + k > capacity
        <5>1. 3 + c > DEFAULT_SIZE
          BY <1>1, <3>4, <4>1, HttpConnectAssumption
        <5> QED
          BY <3>4, <5>1
      <4>2. CASE ~(g + k > capacity)
        BY <1>1, <1>2, <3>2, <4>2 DEF Content
      <4> QED
        BY <4>1, <4>2
    <3>7. Pos' = p + (g + k) /\ Pos' = rd
      <4>1. Pos' = rd /\ rd \in Nat
        BY <1>2, <2>1 DEF Pos, ReadTypes
      <4>2. rd - (b - a) = p + g
        BY <1>1, <3>3 DEF Pos
      <4> QED
        BY <1>1, <4>1, <4>2
    <3>8. m_residue' = o[h + 2] - Pos' /\ m_residue' > 0
      <4>1. o[h + 2] = p + 3 + c
        BY <3>2
      <4>2. e - k > 0 /\ e - k = p + 3 + c - (p + (g + k))
        BY <1>1, <3>4
      <4>3. m_residue' = e - k
        BY <1>2
      <4>4. Pos' = p + (g + k)
        BY <3>7
      <4> QED
        BY <4>1, <4>2, <4>3, <4>4
    <3>9. Len(m_readPacket') = Pos' - p /\ Len(m_readPacket') >= 3
      BY <1>1, <1>3, <3>3, <3>7
    <3>10. InContent(o)'
      <4>1. /\ handled' = handled /\ reqs' = reqs /\ bytes' = bytes /\ h < Len(reqs)
            /\ reqs[h + 1] = r /\ h = Len(handled) /\ m_content' # "null"
            /\ c = Len(r.body) /\ o[h + 1] = p
        BY <1>2, <1>5, <3>2
      <4>2. m_parser' = [state |-> "parsed", head |-> r.head, left |-> r.head.len]
        BY <1>2, <2>4, <4>1 DEF InContent
      <4>3. \A i \in 1 .. Len(m_readPacket') : m_readPacket'[i] = bytes[p + i]
        BY <1>3, <3>5
      <4> QED
        BY <3>4, <3>6, <3>8, <3>9, <4>1, <4>2, <4>3 DEF InContent
    <3>11. Layout(o)' /\ o \in [1 .. Len(reqs') + 1 -> Nat] /\ AllRead'
      BY <1>2, <2>4 DEF Layout, AllRead
    <3>12. BufferOK'
      BY <1>2, <2>1, <2>4 DEF BufferOK, ReadTypes
    <3> QED
      BY <2>2, <3>10, <3>11, <3>12 DEF ReadOK, Follows
  <2>5. ~Stopped /\ ~Astray /\ \A o \in [1 .. Len(reqs) + 1 -> Nat] : ~Between(o)
    BY <1>2 DEF Stopped, Astray, Between
  <2> QED
    BY <2>1, <2>3, <2>4, <2>5 DEF ReadOK, Follows
<1> QED
  BY <1>2, <1>6, <1>7, <1>8, <1>9 DEF ReadInv

\* Content is looked for behind the end of the read: nothing is read after that.
LEMMA OverrunRead ==
  ASSUME ReadInv, readContentOverrun
  PROVE  ReadInv'
<1>1. /\ handle' = "aborted" /\ pc' = "idle" /\ rpos' = 0 /\ wpos' = 0
      /\ UNCHANGED <<rd, mem, m_readPacket, capacity, m_content, m_residue, m_parser, handled,
                     uncut, reqs, bytes, inHead, sent>>
  BY DEF readContentOverrun, return, peerVars
<1>2. ReadTypes' /\ CallsOK' /\ ParserOK'
  BY <1>1, HttpConnectAssumption DEF ReadInv, ReadTypes, CallsOK, ParserOK, Stopped
<1>3. uncut => ReadOK'
  BY <1>1 DEF ReadInv, ReadOK, HandledOK, Stopped
<1> QED
  BY <1>1, <1>2, <1>3 DEF ReadInv

\* The last cells of a sequence.
LEMMA LastCells ==
  ASSUME NEW q \in Seq(CellType), NEW n \in Nat, n <= Len(q)
  PROVE  /\ SubSeq(q, Len(q) - n + 1, Len(q)) \in Seq(CellType)
         /\ Len(SubSeq(q, Len(q) - n + 1, Len(q))) = n
         /\ \A i \in 1 .. n : SubSeq(q, Len(q) - n + 1, Len(q))[i] = q[Len(q) - n + i]
<1>1. PICK l \in Nat, m \in Nat : l = Len(q) /\ m = l - n /\ m + n = l /\ l - n + 1 = m + 1
  BY LenProperties
<1>2. ASSUME NEW i \in 1 .. n PROVE q[m + i] \in CellType
  <2>1. m + i \in 1 .. Len(q)
    BY <1>1
  <2> QED
    BY <2>1, ElementOfSeq
<1>3. /\ Part(q, m, n) \in Seq(CellType) /\ Len(Part(q, m, n)) = n
      /\ \A i \in 1 .. n : Part(q, m, n)[i] = q[m + i]
  BY <1>2, PartCells
<1>4. SubSeq(q, Len(q) - n + 1, Len(q)) = Part(q, m, n)
  BY <1>1 DEF Part
<1> QED
  BY <1>1, <1>3, <1>4

\* What complete() passes to the server has the right type.
LEMMA CallType ==
  ASSUME ReadTypes, ParserOK, pc # "idle", m_content # "null", NEW k \in Nat, k = m_residue,
         rpos + k <= MESSAGE_BUFFER_SIZE
  PROVE  Call(k) \in [head : HeadType \cup {NoHead}, param : Seq(CellType)]
<1>1. /\ m_parser.head \in HeadType \cup {NoHead} /\ m_parser.left \in Nat
      /\ m_parser.head.method = "POST" => m_parser.left <= Len(m_readPacket) + k
  BY DEF ParserOK, Stopped, ReadTypes
<1>2. PICK a \in Nat : a = rpos
  BY DEF ReadTypes
<1>3. Filled(k) \in Seq(CellType) /\ Len(Filled(k)) = Len(m_readPacket) + k
  BY PacketCells
<1>4. PICK n \in Nat, q \in Seq(CellType) : n = m_parser.left /\ q = Filled(k)
  BY <1>1, <1>3
<1>5. [i \in 1 .. n |-> Freed] \in Seq(CellType)
  <2>1. Freed \in CellType
    BY DEF Freed, Cell, CellType
  <2> QED
    BY <2>1
<1>6. m_parser.head.method = "POST" => SubSeq(q, Len(q) - n + 1, Len(q)) \in Seq(CellType)
  BY <1>1, <1>3, <1>4, LastCells
<1>7. <<>> \in Seq(CellType)
  OBVIOUS
<1> QED
  BY <1>1, <1>4, <1>5, <1>6, <1>7 DEF Call

\* The server is called with the next request and, if that is a POST that gives its
\* length, with its content, or what was in its place if the storage has moved.
LEMMA CallHere ==
  ASSUME ReadTypes, BufferOK, CallsOK, NEW o, NEW h, NEW p \in Nat, NEW r \in Request,
         NEW c \in Nat, NEW z \in Nat, ContentAt(o, h, p, r, c, z), NEW k \in Nat,
         k = m_residue, rpos + k <= wpos
  PROVE  Call(k).head = r.head /\ Call(k).param \in Params(r)
<1>0. /\ c = Len(r.body) /\ m_parser.head = r.head /\ m_parser.left = r.head.len
      /\ Pos = p + Len(m_readPacket)
      /\ \A i \in 1 .. Len(m_readPacket) : m_readPacket[i] = bytes[p + i]
      /\ \A i \in 1 .. c : bytes[p + 3 + i] = r.body[i]
      /\ m_content = "dangling" => Taken(r) /\ 3 + c > DEFAULT_SIZE
      /\ Taken(r) => k + Len(m_readPacket) = 3 + c
  BY DEF ContentAt
<1>1. Call(k).head = r.head
  BY <1>0 DEF Call
<1>2. CASE r.head.method # "POST"
  BY <1>0, <1>2 DEF Call, Params, Taken
<1>3. PICK q \in Seq(CellType) :
        /\ q = Filled(k) /\ Len(q) = Len(m_readPacket) + k
        /\ \A i \in 1 .. Len(m_readPacket) + k : q[i] = bytes[p + i]
  BY <1>0, FilledHere
<1>4. CASE r.head.method = "POST" /\ r.head.chunked
  <2>1. m_parser.left = 0 /\ ~Taken(r)
    BY <1>0, <1>4, CellsTyped
  <2>2. SubSeq(q, Len(q) - 0 + 1, Len(q)) = <<>>
    <3>1. Len(q) \in Nat /\ 0 <= Len(q)
      BY LenProperties
    <3>2. SubSeq(q, Len(q) - 0 + 1, Len(q)) \in Seq(CellType)
          /\ Len(SubSeq(q, Len(q) - 0 + 1, Len(q))) = 0
      BY <3>1, LastCells
    <3> QED
      BY <3>2, EmptySeq
  <2>3. [i \in 1 .. 0 |-> Freed] = <<>>
    OBVIOUS
  <2>4. Call(k).param = <<>>
    BY <1>0, <1>3, <1>4, <2>1, <2>2, <2>3 DEF Call
  <2> QED
    BY <1>1, <2>1, <2>4 DEF Params
<1>5. CASE r.head.method = "POST" /\ ~r.head.chunked
  <2>1. Taken(r) /\ m_parser.left = c
    BY <1>0, <1>5, CellsTyped DEF Taken
  <2>2. Len(m_readPacket) + k = 3 + c
    BY <1>0, <2>1, LenProperties DEF ReadTypes
  <2>3. CASE Content(k) = "dangling"
    <3>1. 3 + c > DEFAULT_SIZE
      <4>1. CASE 3 + c > capacity
        BY <4>1, HttpConnectAssumption DEF CallsOK, ReadTypes
      <4>2. CASE ~(3 + c > capacity)
        BY <1>0, <2>2, <2>3, <4>2 DEF Content
      <4> QED
        BY <4>1, <4>2
    <3>2. Call(k).param = [i \in 1 .. c |-> Freed]
      BY <1>0, <1>5, <2>1, <2>3 DEF Call
    <3>3. Len(HeadCells(r.head)) + Len(r.body) > DEFAULT_SIZE
      <4>1. Len(HeadCells(r.head)) = 3
        BY DEF HeadCells
      <4> QED
        BY <1>0, <3>1, <4>1
    <3> QED
      BY <1>0, <1>1, <2>1, <3>2, <3>3 DEF Params
  <2>4. CASE Content(k) # "dangling"
    <3>1. Len(q) = 3 + c /\ \A i \in 1 .. 3 + c : q[i] = bytes[p + i]
      BY <1>3, <2>2
    <3>2. PICK t \in Seq(CellType) :
            /\ t = SubSeq(q, Len(q) - c + 1, Len(q)) /\ Len(t) = c
            /\ \A i \in 1 .. c : t[i] = q[Len(q) - c + i]
      <4>1. c <= Len(q)
        BY <3>1
      <4> QED
        BY <4>1, LastCells
    <3>3. \A i \in 1 .. c : t[i] = r.body[i]
      <4>1. \A i \in 1 .. c : /\ Len(q) - c + i = 3 + i /\ 3 + i \in 1 .. 3 + c
                              /\ p + (3 + i) = p + 3 + i
        BY <3>1
      <4>2. \A i \in 1 .. c : t[i] = bytes[p + 3 + i]
        BY <3>1, <3>2, <4>1
      <4> QED
        BY <1>0, <4>2
    <3>4. PICK u \in Seq(CellType) : u = r.body /\ Len(u) = c
      BY <1>0, CellsTyped
    <3>5. t = u
      BY <3>2, <3>3, <3>4, SeqEqual
    <3>6. Call(k).param = t
      BY <1>0, <1>3, <1>5, <2>1, <2>4, <3>2 DEF Call
    <3> QED
      BY <1>1, <2>1, <3>4, <3>5, <3>6 DEF Params
  <2> QED
    BY <2>3, <2>4
<1> QED
  BY <1>2, <1>4, <1>5

\* The server is called; what follows in the buffer is the next request, or a body
\* that the server does not take.
LEMMA CompleteRead ==
  ASSUME ReadInv, complete
  PROVE  ReadInv'
<1>1. PICK a \in Nat, b \in Nat, g \in Nat, k \in Nat :
        /\ a = rpos /\ b = wpos /\ b <= MESSAGE_BUFFER_SIZE /\ g = Len(m_readPacket)
        /\ k = m_residue /\ (k = 0 \/ k <= b - a) /\ a + k \in 0 .. MESSAGE_BUFFER_SIZE
        /\ capacity \in Nat /\ capacity >= DEFAULT_SIZE
  <2>1. /\ rpos \in Nat /\ wpos \in Nat /\ wpos <= MESSAGE_BUFFER_SIZE
        /\ rpos <= MESSAGE_BUFFER_SIZE /\ Len(m_readPacket) \in Nat /\ m_residue \in Nat
    BY HttpConnectAssumption, LenProperties DEF ReadInv, ReadTypes
  <2>2. capacity \in Nat /\ capacity >= DEFAULT_SIZE
    BY DEF ReadInv, ReadTypes, CallsOK
  <2>3. m_residue = 0 \/ m_residue <= wpos - rpos
    BY DEF complete, ActiveSize
  <2>4. rpos + m_residue \in 0 .. MESSAGE_BUFFER_SIZE
    BY <2>1, <2>3, HttpConnectAssumption
  <2> QED
    BY <2>1, <2>2, <2>3, <2>4
<1>2. /\ pc # "idle" /\ m_content # "null"
      /\ handled' = Append(handled, Call(k)) /\ capacity' = Grown(g, k)
      /\ IF a + k = b THEN pc' = "idle" /\ rpos' = 0 /\ wpos' = 0
                      ELSE pc' = "loop" /\ rpos' = a + k /\ wpos' = b
      /\ m_readPacket' = <<>> /\ m_content' = "null" /\ m_residue' = 0 /\ m_parser' = Fresh
      /\ UNCHANGED <<rd, mem, uncut, reqs, bytes, inHead, sent>>
  BY <1>1 DEF complete, return, zero, peerVars, AtContent, ReadInv, CallsOK
<1>3. handle' # "pooled"
  BY <1>2 DEF complete, callback, ReadInv, CallsOK
<1>4. a + k \in 0 .. MESSAGE_BUFFER_SIZE /\ a + k <= MESSAGE_BUFFER_SIZE
  BY <1>1, HttpConnectAssumption DEF ReadInv, ReadTypes
<1>5. PICK h \in Nat :
        /\ h = Len(handled) /\ handled' \in Seq([head : HeadType \cup {NoHead}, param : Seq(CellType)])
        /\ Len(handled') = h + 1 /\ handled'[h + 1] = Call(k)
        /\ \A i \in 1 .. h : handled'[i] = handled[i]
  <2>1. Call(k) \in [head : HeadType \cup {NoHead}, param : Seq(CellType)]
    <3>1. /\ k = m_residue /\ rpos + k <= MESSAGE_BUFFER_SIZE /\ pc # "idle" /\ m_content # "null"
          /\ ReadTypes /\ ParserOK
      BY <1>1, <1>2, <1>4 DEF ReadInv
    <3> QED
      BY <3>1, CallType
  <2>2. PICK x \in [head : HeadType \cup {NoHead}, param : Seq(CellType)],
             y \in Seq([head : HeadType \cup {NoHead}, param : Seq(CellType)]) : x = Call(k) /\ y = handled
    BY <2>1 DEF ReadInv, ReadTypes
  <2>3. /\ Len(y) \in Nat /\ Append(y, x) \in Seq([head : HeadType \cup {NoHead}, param : Seq(CellType)])
        /\ Len(Append(y, x)) = Len(y) + 1 /\ Append(y, x)[Len(y) + 1] = x
        /\ \A i \in 1 .. Len(y) : Append(y, x)[i] = y[i]
    BY AppendProperties, LenProperties
  <2>4. PICK w : w = Append(y, x) /\ handled' = w
    BY <1>2, <2>2
  <2>5. /\ Len(y) \in Nat /\ w \in Seq([head : HeadType \cup {NoHead}, param : Seq(CellType)])
        /\ Len(w) = Len(y) + 1 /\ w[Len(y) + 1] = x /\ \A i \in 1 .. Len(y) : w[i] = y[i]
    BY <2>3, <2>4
  <2> QED
    BY <2>2, <2>4, <2>5
<1>6. capacity' \in Nat /\ capacity' >= DEFAULT_SIZE
  <2>1. capacity' \in Nat /\ capacity' >= capacity /\ capacity \in Nat /\ capacity >= DEFAULT_SIZE
    BY <1>1, <1>2, GrownType
  <2> QED
    BY <2>1, HttpConnectAssumption
<1>7. pc' \in {"idle", "loop"} /\ rpos' \in 0 .. MESSAGE_BUFFER_SIZE
      /\ wpos' \in 0 .. MESSAGE_BUFFER_SIZE
  <2>1. 0 \in 0 .. MESSAGE_BUFFER_SIZE /\ b \in 0 .. MESSAGE_BUFFER_SIZE
    BY <1>1, HttpConnectAssumption
  <2>2. CASE a + k = b
    BY <1>2, <2>1, <2>2
  <2>3. CASE a + k # b
    BY <1>2, <1>4, <2>1, <2>3
  <2> QED
    BY <2>2, <2>3
<1>8. ReadTypes'
  <2>1. <<>> \in Seq(CellType) /\ 0 \in Nat
    BY EmptySeq
  <2>2. Fresh \in [state : {"fresh", "parsed", "failed"}, head : HeadType \cup {NoHead}, left : Nat]
    BY DEF Fresh
  <2>3. ReadTypes
    BY DEF ReadInv
  <2> QED
    BY <1>2, <1>5, <1>6, <1>7, <2>1, <2>2, <2>3 DEF ReadTypes
<1>9. CallsOK' /\ ParserOK'
  BY <1>2, <1>3, <1>6 DEF CallsOK, ParserOK
<1>10. ASSUME uncut PROVE ReadOK'
  <2>1. ReadOK /\ HandledOK /\ ReadTypes /\ CallsOK
    BY <1>10 DEF ReadInv, ReadOK
  <2>2. \A i \in 1 .. h :
          \/ \E x \in 1 .. Len(reqs) : x < i /\ Misleading(reqs[x])
          \/ /\ i <= Len(reqs)
             /\ handled'[i].head = reqs[i].head /\ handled'[i].param \in Params(reqs[i])
             /\ \A x \in 1 .. i - 1 : ~Unread(reqs[x])
    BY <1>5, <2>1 DEF HandledOK
  <2>3. CASE Lost
    <3>1. PICK x \in 1 .. Len(reqs) : x <= h /\ Misleading(reqs[x])
      BY <1>5, <2>3 DEF Lost
    <3>2. x < h + 1 /\ x <= h + 1
      BY <3>1, LenProperties DEF ReadInv, ReadTypes
    <3>3. Lost'
      BY <1>2, <1>5, <3>1, <3>2 DEF Lost
    <3>4. HandledOK'
      <4>1. \A i \in 1 .. h + 1 : i \in 1 .. h \/ i = h + 1
        OBVIOUS
      <4> QED
        BY <1>2, <1>5, <2>2, <3>1, <3>2, <4>1 DEF HandledOK
    <3> QED
      BY <3>3, <3>4 DEF ReadOK
  <2>4. ASSUME BufferOK, AllRead, NEW o \in [1 .. Len(reqs) + 1 -> Nat], Layout(o), InContent(o)
        PROVE  ReadOK'
    <3>1. PICK f \in Nat, p \in Nat, r \in Request, c \in Nat, z \in Nat :
            ContentAt(o, f, p, r, c, z)
      BY <2>1, <2>4, ContentHere
    <3>2. PICK l \in Nat, d \in Nat, n \in Nat :
            n = Len(reqs) /\ l = Len(bytes) /\ d = rd /\ d <= l
      <4>1. Len(reqs) \in Nat /\ Len(bytes) \in Nat /\ rd \in Nat /\ rd <= Len(bytes)
        BY <2>1, LenProperties DEF ReadTypes
      <4> QED
        BY <4>1
    <3>3. /\ f = Len(handled) /\ f < Len(reqs) /\ r = reqs[f + 1] /\ c = Len(r.body)
          /\ p = o[f + 1] /\ o[f + 2] = p + 3 + c /\ p + 3 + c <= Len(bytes)
          /\ z = Len(m_readPacket) /\ z >= 3 /\ Pos = p + z
          /\ \A i \in 1 .. c : bytes[p + 3 + i] = r.body[i]
          /\ IF Taken(r) THEN m_residue + z = 3 + c ELSE m_residue = 0 /\ z = 3
      BY <3>1 DEF ContentAt
    <3>4. /\ h < n /\ r = reqs[h + 1] /\ c = Len(r.body) /\ o[h + 2] = p + 3 + c /\ p + 3 + c <= l
          /\ g >= 3 /\ Pos = p + g
          /\ \A i \in 1 .. c : bytes[p + 3 + i] = r.body[i]
          /\ IF Taken(r) THEN k + g = 3 + c ELSE k = 0 /\ g = 3
      <4>1. f = h /\ z = g
        BY <1>1, <1>5, <3>3
      <4>2. IF Taken(r) THEN m_residue + g = 3 + c ELSE m_residue = 0 /\ g = 3
        BY <3>3, <4>1
      <4> QED
        BY <1>1, <3>2, <3>3, <4>1, <4>2
    <3>5. a + k <= b /\ b <= d
      <4>1. a <= b /\ b <= d
        BY <1>1, <2>4, <3>2 DEF BufferOK
      <4>2. k = 0 \/ k <= b - a
        BY <1>1
      <4> QED
        BY <4>1, <4>2
    <3>6. Call(k).head = r.head /\ Call(k).param \in Params(r)
      <4>1. rpos + k <= wpos /\ k = m_residue
        BY <1>1, <3>5
      <4> QED
        BY <2>1, <2>4, <3>1, <4>1, CallHere
    <3>7. \A x \in 1 .. h : ~Unread(reqs[x])
      BY <1>5, <2>4 DEF AllRead
    <3>8. HandledOK'
      <4>1. /\ h + 1 <= Len(reqs) /\ handled'[h + 1].head = reqs[h + 1].head
            /\ handled'[h + 1].param \in Params(reqs[h + 1])
            /\ \A x \in 1 .. h + 1 - 1 : ~Unread(reqs[x])
        BY <1>5, <3>2, <3>4, <3>6, <3>7
      <4>2. \A i \in 1 .. h + 1 : i \in 1 .. h \/ i = h + 1
        OBVIOUS
      <4> QED
        BY <1>2, <1>5, <2>2, <4>1, <4>2 DEF HandledOK
    <3>9. BufferOK'
      <4>1. wpos' <= d /\ rpos' <= wpos' /\ (pc' = "loop" => rpos' < wpos')
        <5>1. CASE a + k = b
          BY <1>2, <5>1
        <5>2. CASE a + k # b
          BY <1>2, <3>5, <5>2
        <5> QED
          BY <5>1, <5>2
      <4>2. wpos' = 0 \/ wpos' = wpos
        BY <1>1, <1>2
      <4>3. \A i \in 1 .. wpos' : mem'[i] = bytes'[rd' - wpos' + i]
        BY <1>2, <2>4, <4>2 DEF BufferOK
      <4> QED
        BY <1>2, <2>4, <3>2, <4>1, <4>3 DEF BufferOK
    <3>10. Pos' = p + g + k
      <4>1. Pos = p + g /\ rd = d /\ rd' = rd
        BY <1>2, <3>2, <3>4
      <4>2. d - (b - a) = p + g
        BY <1>1, <4>1 DEF Pos
      <4>3. CASE a + k = b
        <5>1. Pos' = d
          BY <1>2, <4>1, <4>3 DEF Pos
        <5> QED
          BY <4>2, <4>3, <5>1
      <4>4. CASE a + k # b
        <5>1. Pos' = d - (b - (a + k))
          BY <1>2, <4>1, <4>4 DEF Pos
        <5> QED
          BY <4>2, <5>1
      <4> QED
        BY <4>3, <4>4
    <3>11. CASE ~Unread(r)
      <4>1. p + g + k = p + 3 + c
        <5>1. CASE Taken(r)
          <6>1. k + g = 3 + c
            BY <3>4, <5>1
          <6> QED
            BY <6>1
        <5>2. CASE ~Taken(r)
          <6>1. k = 0 /\ g = 3
            BY <3>4, <5>2
          <6>2. c = 0
            BY <3>4, <3>11, <5>2, EmptySeq DEF Unread
          <6> QED
            BY <6>1, <6>2
        <5> QED
          BY <5>1, <5>2
      <4>2. Len(handled') + 1 = h + 2 /\ Len(handled') = h + 1
        BY <1>5
      <4>3. Between(o)'
        BY <1>2, <3>4, <3>10, <4>1, <4>2 DEF Between
      <4>4. Layout(o)' /\ o \in [1 .. Len(reqs') + 1 -> Nat]
        BY <1>2, <2>4 DEF Layout
      <4>5. AllRead'
        <5>1. \A x \in 1 .. h + 1 : x \in 1 .. h \/ x = h + 1
          OBVIOUS
        <5>2. h + 1 <= Len(reqs) /\ \A x \in 1 .. h + 1 : ~Unread(reqs[x])
          BY <3>2, <3>4, <3>7, <3>11, <5>1
        <5> QED
          BY <1>2, <4>2, <5>2 DEF AllRead
      <4> QED
        BY <3>8, <3>9, <4>3, <4>4, <4>5 DEF ReadOK, Follows
    <3>12. CASE Misleading(r)
      <4>1. h + 1 \in 1 .. Len(reqs) /\ h + 1 <= Len(handled')
        BY <1>5, <3>2, <3>4
      <4>2. Lost'
        BY <1>2, <3>4, <3>12, <4>1 DEF Lost
      <4> QED
        BY <3>8, <4>2 DEF ReadOK
    <3>13. CASE Unread(r) /\ ~Misleading(r)
      <4>1. ~Taken(r) /\ r.body # <<>> /\ IsText(r.body[1])
        BY <3>13 DEF Unread, Misleading, IsText
      <4>2. c > 0
        <5>1. r.body \in Seq(CellType)
          BY CellsTyped
        <5> QED
          BY <3>4, <4>1, <5>1, EmptySeq, LenProperties
      <4>3. g + k = 3
        BY <3>4, <4>1
      <4>4. p + 3 + c <= l /\ Pos' = p + (g + k)
        BY <3>4, <3>10
      <4>5. Pos' = p + 3 /\ Pos' < l
        BY <4>2, <4>3, <4>4
      <4>6. bytes[p + 3 + 1] = r.body[1]
        <5>1. 1 \in 1 .. c
          BY <4>2
        <5> QED
          BY <3>4, <5>1
      <4>7. IsText(bytes'[Pos' + 1])
        BY <1>2, <4>1, <4>5, <4>6
      <4>8. Astray'
        BY <1>2, <3>2, <4>5, <4>7 DEF Astray
      <4> QED
        BY <3>8, <3>9, <4>8 DEF ReadOK, Follows
    <3> QED
      BY <3>11, <3>12, <3>13
  <2>5. ~Stopped /\ ~Astray /\ \A o \in [1 .. Len(reqs) + 1 -> Nat] : ~Between(o)
    BY <1>2 DEF Stopped, Astray, Between
  <2> QED
    BY <2>1, <2>3, <2>4, <2>5 DEF ReadOK, Follows
<1> QED
  BY <1>2, <1>8, <1>9, <1>10 DEF ReadInv

----------------------------------------------------------------------------
\* The script's calls outside the callbacks leave the reader alone.
LEMMA LaterRead ==
  ASSUME ReadInv, NEW c \in 1 .. MaxConn, answerLater(c) \/ closeLater(c) \/ useFreed(c)
  PROVE  ReadInv'
<1>1. pc = "idle" /\ UNCHANGED <<uncut, reqs, bytes, inHead, sent, readVars>>
  BY DEF answerLater, closeLater, useFreed, Later, peerVars
<1>2. handle' \in {handle, "closing", "aborted"}
  BY ClosedHandles DEF answerLater, closeLater, useFreed
<1> QED
  BY <1>1, <1>2, QuietRead

\* Every step keeps the reader's invariant.
LEMMA ReaderStep ==
  ASSUME ReadInv, [Next]_vars
  PROVE  ReadInv'
<1>1. CASE accept
  BY <1>1, AcceptRead
<1>2. ASSUME NEW r \in Request, sendRequest(r) PROVE ReadInv'
  BY <1>2, SendRead
<1>3. ASSUME NEW n \in 1 .. MESSAGE_BUFFER_SIZE, echo_read(n) PROVE ReadInv'
  BY <1>3, EchoRead
<1>4. CASE on_msgbuffer
  BY <1>4, HeadFoundRead, HeadNotFoundRead, ReadContentRead, OverrunRead, CompleteRead
     DEF on_msgbuffer
<1>5. CASE echo_read_error
  BY <1>5, QuietRead DEF echo_read_error, peerVars
<1>6. CASE echo_write \/ echo_write_error
  <2>1. /\ pc = "idle" /\ on_writecomplete
        /\ UNCHANGED <<uncut, reqs, bytes, inHead, sent, readVars>>
    BY <1>6 DEF echo_write, echo_write_error, peerVars
  <2>2. handle' = handle \/ handle' = Closed(handle)
    BY <2>1 DEF on_writecomplete
  <2>3. handle' = "open" => handle = "open"
    BY <2>2, ClosedHandles
  <2> QED
    BY <2>1, <2>3, QuietRead
<1>7. CASE on_uv_close
  BY <1>7, CloseRead
<1>8. ASSUME NEW c \in 1 .. MaxConn, answerLater(c) \/ closeLater(c) \/ useFreed(c) PROVE ReadInv'
  BY <1>8, LaterRead
<1>9. CASE UNCHANGED vars
  <2>1. pc # "idle" => handle # "pooled"
    BY DEF ReadInv, CallsOK
  <2> QED
    BY <1>9, <2>1, QuietRead DEF vars, readVars
<1> QED
  BY <1>1, <1>2, <1>3, <1>4, <1>5, <1>6, <1>7, <1>8, <1>9 DEF Next

\* The reader's invariant holds at first.
LEMMA ReaderInit ==
  ASSUME Init
  PROVE  ReadInv
<1>1. ReadTypes
  <2>1. 0 \in 0 .. MESSAGE_BUFFER_SIZE /\ DEFAULT_SIZE \in Nat /\ 0 \in 0 .. MaxRequest
    BY HttpConnectAssumption
  <2>2. mem \in [1 .. MESSAGE_BUFFER_SIZE -> CellType]
    <3>1. Nul \in CellType
      BY DEF Nul, Cell, CellType
    <3> QED
      BY <3>1 DEF Init, Zeros
  <2> QED
    BY <2>1, <2>2 DEF Init, ReadTypes, Fresh
<1>2. CallsOK /\ ParserOK /\ Stopped
  BY HttpConnectAssumption DEF Init, CallsOK, ParserOK, Stopped
<1>3. HandledOK
  BY DEF Init, HandledOK
<1> QED
  BY <1>1, <1>2, <1>3 DEF ReadInv, ReadOK

\* The parts of the invariant give every variable its type.
LEMMA AllTyped ==
  ASSUME QueueInv, ReadInv
  PROVE  TypeOK
BY DEF QueueInv, QueueTypes, ReadInv, ReadTypes, TypeOK

\* The two parts of the invariant are kept together.
LEMMA HttpStep ==
  ASSUME QueueInv, ReadInv, [Next]_vars
  PROVE  QueueInv' /\ ReadInv'
BY QueueStep, ReaderStep

\* Whatever the client sends and however it is cut into reads, the positions and
\* the cells in the buffer and the packet, the parser's state, the queue and the
\* counters keep their types and bounds (HttpConnect.cpp, TcpSocket.cpp).
THEOREM HttpIsTyped == Spec => []TypeOK
<1>1. Init => QueueInv /\ ReadInv
  BY QueueInit, ReaderInit
<1>2. QueueInv /\ ReadInv /\ [Next]_vars => (QueueInv /\ ReadInv)'
  BY HttpStep
<1>3. QueueInv /\ ReadInv => TypeOK
  BY AllTyped
<1> QED
  BY <1>1, <1>2, <1>3, PTL DEF Spec

\* For any requests, bodies that look like requests and chunked ones included,
\* however their bodies are cut into reads, and whatever the object served before:
\* the server is called with the requests of the client, each at most once and in
\* order, up to one whose body is not read and passes for a request; and a POST
\* that gives its length comes with its own content, unless the storage that the
\* packet has at first is too small for it (HttpConnect.cpp, HttpParser.cpp).
THEOREM RequestsAreInOrder == Spec => []RequestsInOrder
<1>1. Init => QueueInv /\ ReadInv
  BY QueueInit, ReaderInit
<1>2. QueueInv /\ ReadInv /\ [Next]_vars => (QueueInv /\ ReadInv)'
  BY HttpStep
<1>3. QueueInv /\ ReadInv => RequestsInOrder
  <2> SUFFICES ASSUME QueueInv, ReadInv PROVE RequestsInOrder
    OBVIOUS
  <2>1. TypeOK
    BY AllTyped
  <2>2. uncut => HandledOK
    BY DEF ReadInv, ReadOK
  <2> QED
    BY <2>1, <2>2 DEF RequestsInOrder, HandledOK
<1> QED
  BY <1>1, <1>2, <1>3, PTL DEF Spec
=============================================================================
