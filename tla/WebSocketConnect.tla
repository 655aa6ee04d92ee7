-------------------------- MODULE WebSocketConnect --------------------------
(***************************************************************************)
(* A WebSocket server connection: the handshake, the frames of the client  *)
(* and the answers (src/src/network/WebSocketConnect.cpp,                  *)
(* WebSocketPacket.cpp), on a TcpSocket.                                   *)
(*                                                                         *)
(* The stream is a sequence of byte values.  The two bytes of a frame head *)
(* are those of the protocol: opcode 0x88 is 136, a masked frame has 128   *)
(* added to its length.  Shortened are the parts whose size only shifts    *)
(* positions: a line of the handshake request is one byte, an extended     *)
(* length has one byte (form 126) or two (form 127), a key has two.        *)
(***************************************************************************)
EXTENDS Integers, Sequences, FiniteSets

CONSTANTS
  Frame,               \* frames of the client, see FrameType
  ShortMax,            \* the longest body that needs no extended length: 125
  MESSAGE_BUFFER_SIZE, \* the longest read
  MaxSent              \* bound: frames that the client sends

Byte == 0 .. 255

\* op is the first byte, key the masking key.
FrameType == [op : Byte, key : Seq(Byte), body : Seq(Byte)]

VARIABLES
  bytes,         \* what the client has sent, the handshake request first
  sent,          \* history: its frames ...
  off,           \* ... and where each of them starts
  rd, used,      \* _wpos and _rpos of mBuffer, from the start of the stream
  clean,         \* history: one read held the request and nothing else
  refused,       \* history: a read was refused as a handshake
  isHandshake,   \* __m_isHandshake
  readPacket,    \* __m_readPacket, see PacketType; NoPacket when NULL
  delivered,     \* the messages passed to onMsg
  written,       \* the frames passed to TcpSocket::write
  handle,        \* "open", "closing", "closed" or "aborted"
  onCloses       \* history: number of calls of onClose

peerVars == <<bytes, sent, off>>
vars == <<bytes, sent, off, rd, used, clean, refused, isHandshake, readPacket,
          delivered, written, handle, onCloses>>

-----------------------------------------------------------------------------
(***************************************************************************)
(* The client                                                              *)
(***************************************************************************)

\* The lines of the request: GET, Host, Sec-WebSocket-Key, another, blank.
GetLine == 71
HostLine == 72
KeyLine == 83
Request == <<GetLine, HostLine, KeyLine, 79, 13>>

\* b ^ k, for a key byte that is 0 or 255.
Xor(b, k) == IF k = 0 THEN b ELSE 255 - b

\* Byte i of a body, counted from 0, is masked with byte i % 4 of the key.
Masked(body, key) == [i \in 1 .. Len(body) |-> Xor(body[i], key[((i - 1) % Len(key)) + 1])]

\* The length of a body in the second byte of its frame, or the form of the extended
\* length that follows in network byte order.
Form(n) == IF n <= ShortMax THEN n ELSE IF n = ShortMax + 1 THEN 126 ELSE 127
Extended(n) == IF Form(n) < 126 THEN <<>> ELSE IF Form(n) = 126 THEN <<n>> ELSE <<0, n>>

Second(f) == Form(Len(f.body)) + (IF f.key = <<>> THEN 0 ELSE 128)
Payload(f) == IF f.key = <<>> THEN f.body ELSE Masked(f.body, f.key)

\* A frame as the protocol defines it.
Encode(f) == <<f.op, Second(f)>> \o Extended(Len(f.body)) \o f.key \o Payload(f)

\* Only the request has a line that starts with GET: what follows parseHandshake
\* needs no model of the text that earlier reads left in the buffer.
ASSUME WebSocketAssumption ==
  /\ Frame \subseteq FrameType
  /\ \A f \in Frame :
       /\ Len(f.key) \in {0, 2} /\ Len(f.body) \in Byte
       /\ \A i \in 1 .. Len(Encode(f)) : Encode(f)[i] # GetLine
  /\ ShortMax \in 0 .. 125
  /\ MESSAGE_BUFFER_SIZE \in Nat \ {0}
  /\ MaxSent \in Nat

-----------------------------------------------------------------------------
(***************************************************************************)
(* WebSocketPacket                                                         *)
(***************************************************************************)

WS_HEAD_SIZE == 2
WS_MAX_HEAD_SIZE == 6

\* head is __m_head and store the bytes of the packet from position 0.
PacketType ==
  [head : Seq(Byte), wpos : Nat, store : Seq(Byte)]

NoPacket == [head |-> <<>>, wpos |-> 0, store |-> <<0, 0, 0, 0, 0, 0>>]

getOpcode(p) == p.head[1] % 16
getMask(p) == p.head[2] \div 128
getPayloadLen(p) == p.head[2] % 128

calcHeadSize(p) ==
  WS_HEAD_SIZE
  + (IF getPayloadLen(p) = 126 THEN 1 ELSE IF getPayloadLen(p) = 127 THEN 2 ELSE 0)
  + (IF getMask(p) = 1 THEN 2 ELSE 0)

\* Fault: the bound is strict.
isHeadFull_Strict(p) == p.wpos > WS_MAX_HEAD_SIZE

isHeadFull(p) == p.wpos >= WS_MAX_HEAD_SIZE

\* The extended length is read at position WS_HEAD_SIZE, wherever readFrameHead
\* has put it.  Of a length in form 127 only the first half counts, because the
\* bytes are read in the order of the machine and cut to a uint32.
getMarkLen(p) ==
  IF getPayloadLen(p) < 126 THEN getPayloadLen(p) ELSE p.store[WS_HEAD_SIZE + 1]

\* getMaskKey: the last bytes of the head.
getMaskKey(p) == SubSeq(p.store, WS_MAX_HEAD_SIZE - 1, WS_MAX_HEAD_SIZE)

\* The body as decodingDatas leaves it.
Body(p) ==
  LET raw == SubSeq(p.store, WS_MAX_HEAD_SIZE + 1, p.wpos) IN
  IF getMask(p) = 1 THEN Masked(raw, getMaskKey(p)) ELSE raw

\* store with the bytes s put at position pos.
Put(store, pos, s) ==
  [i \in 1 .. Len(store) |-> IF i \in pos + 1 .. pos + Len(s) THEN s[i - pos] ELSE store[i]]

\* Fault: the length counts the head.
writeFrameHead_WithHead(n) == <<130, n + WS_HEAD_SIZE>>

\* Frame head of a packet to be sent: writeFrameHead, with put of native
\* integers, which are little endian.
writeFrameHead(n) ==
  <<130>> \o (IF n <= ShortMax THEN <<n>>
              ELSE IF n = ShortMax + 1 THEN <<126, n>> ELSE <<127, n, 0>>)

-----------------------------------------------------------------------------
(***************************************************************************)
(* The connection                                                          *)
(***************************************************************************)

Init ==
  /\ bytes = Request
  /\ sent = <<>> /\ off = <<>>
  /\ rd = 0 /\ used = 0
  /\ clean = FALSE
  /\ refused = FALSE
  /\ isHandshake = FALSE
  /\ readPacket = NoPacket
  /\ delivered = <<>>
  /\ written = <<>>
  /\ handle = "open"
  /\ onCloses = 0

sendFrame(f) ==
  /\ Len(sent) < MaxSent
  /\ sent' = Append(sent, f)
  /\ off' = Append(off, Len(bytes))
  /\ bytes' = bytes \o Encode(f)
  /\ UNCHANGED <<rd, used, clean, refused, isHandshake, readPacket, delivered,
                 written, handle, onCloses>>

ActiveSize == rd - used
Least(a, b) == IF a <= b THEN a ELSE b
NextBytes(n) == SubSeq(bytes, used + 1, used + n)

\* close(): libuv aborts when the handle is closing already.
Closed(h) == IF h = "open" THEN "closing" ELSE "aborted"

\* parseHandshake looks at the text up to the first NUL, all lines of it.
parseHandshake(s) ==
  /\ s[1] = GetLine
  /\ \E i \in 1 .. Len(s) : s[i] = HostLine /\ \A j \in 1 .. i : s[j] # 0
  /\ \E i \in 1 .. Len(s) : s[i] = KeyLine /\ \A j \in 1 .. i : s[j] # 0

\* echo_read with n bytes before the handshake: the read is the request or it
\* is refused, and what else it holds is dropped.  A refused connection stays
\* open unless onClose closes it.
handshake(n) ==
  /\ handle = "open"
  /\ ~isHandshake
  /\ rd + n <= Len(bytes)
  /\ rd' = rd + n
  /\ used' = rd + n
  /\ IF parseHandshake(SubSeq(bytes, rd + 1, rd + n))
     THEN /\ isHandshake' = TRUE
          /\ clean' = (rd = 0 /\ n = Len(Request))
          /\ UNCHANGED <<refused, handle, onCloses>>
     ELSE /\ refused' = TRUE
          /\ onCloses' = Least(onCloses + 1, 2)
          /\ handle' \in {"open", "closing"}
          /\ UNCHANGED <<isHandshake, clean>>
  /\ UNCHANGED <<peerVars, readPacket, delivered, written>>

echo_read(n) ==
  /\ handle = "open"
  /\ isHandshake
  /\ ActiveSize = 0
  /\ rd + n <= Len(bytes)
  /\ rd' = rd + n
  /\ UNCHANGED <<peerVars, used, clean, refused, isHandshake, readPacket,
                 delivered, written, handle, onCloses>>

\* The loop of on_msgbuffer has bytes left.
InLoop == ActiveSize > 0 /\ handle # "aborted"

\* readFrameHead, the first two bytes.
readFirst ==
  /\ InLoop
  /\ Len(readPacket.head) < WS_HEAD_SIZE
  /\ LET n == Least(WS_HEAD_SIZE - Len(readPacket.head), ActiveSize)
         p == [readPacket EXCEPT !.head = @ \o NextBytes(n), !.wpos = @ + n]
     IN  /\ used' = used + n
         /\ readPacket' =
              IF Len(p.head) = WS_HEAD_SIZE
              THEN [p EXCEPT !.wpos = WS_MAX_HEAD_SIZE - calcHeadSize(p) + WS_HEAD_SIZE]
              ELSE p
  /\ UNCHANGED <<peerVars, rd, clean, refused, isHandshake, delivered, written,
                 handle, onCloses>>

\* readFrameHead, the rest of the head.
readRest ==
  /\ InLoop
  /\ Len(readPacket.head) = WS_HEAD_SIZE
  /\ ~isHeadFull(readPacket)
  /\ LET n == Least(WS_MAX_HEAD_SIZE - readPacket.wpos, ActiveSize) IN
       /\ used' = used + n
       /\ readPacket' = [readPacket EXCEPT !.store = Put(@, readPacket.wpos, NextBytes(n)),
                                           !.wpos = @ + n]
  /\ UNCHANGED <<peerVars, rd, clean, refused, isHandshake, delivered, written,
                 handle, onCloses>>

CLOSE_FRAME == 8
PING_FRAME == 137

\* onMsg: the application may answer with sendMsg and may close a connection
\* that it has not closed yet.
onMsg(p) ==
  /\ delivered' = Append(delivered, [op |-> p.head[1], body |-> Body(p)])
  /\ handle' \in (IF handle = "open" THEN {"open", "closing"} ELSE {handle})
  /\ \/ UNCHANGED written
     \/ written' = Append(written, writeFrameHead(Len(Body(p))) \o Body(p))

\* A complete frame.  The opcode never equals PING_FRAME, which has the FIN
\* bit, so that a ping goes to onMsg.
dispatch(p) ==
  CASE getOpcode(p) = CLOSE_FRAME ->
         handle' = Closed(handle) /\ UNCHANGED <<delivered, written>>
    [] getOpcode(p) = PING_FRAME ->
         written' = Append(written, p.head \o Body(p)) /\ UNCHANGED <<delivered, handle>>
    [] OTHER -> onMsg(p)

\* One turn of the loop with a full head.
readBody ==
  /\ InLoop
  /\ isHeadFull(readPacket)
  /\ LET need == getMarkLen(readPacket) + WS_MAX_HEAD_SIZE - readPacket.wpos
         n == Least(need, ActiveSize)
         p == [readPacket EXCEPT !.store = @ \o NextBytes(n), !.wpos = @ + n]
     IN  /\ used' = used + n
         /\ IF n = need
            THEN dispatch(p) /\ readPacket' = NoPacket
            ELSE readPacket' = p /\ UNCHANGED <<delivered, written, handle>>
  /\ UNCHANGED <<peerVars, rd, clean, refused, isHandshake, onCloses>>

\* close() from elsewhere, or echo_read with nread < 0.
close ==
  /\ handle = "open"
  /\ ActiveSize = 0
  /\ handle' = "closing"
  /\ UNCHANGED <<peerVars, rd, used, clean, refused, isHandshake, readPacket,
                 delivered, written, onCloses>>

\* Fault: on_uv_close may run before on_msgbuffer returns, with a second onClose.
on_clsesocket_InLoop ==
  /\ handle = "closing"
  /\ handle' \in {"closing", "closed"}
  /\ onCloses' = Least(onCloses + 1, 2)
  /\ UNCHANGED <<peerVars, rd, used, clean, refused, isHandshake, readPacket,
                 delivered, written>>

\* on_clsesocket only calls onClose; nobody destroys the object.
on_clsesocket ==
  /\ handle = "closing"
  /\ ActiveSize = 0
  /\ handle' = "closed"
  /\ onCloses' = Least(onCloses + 1, 2)
  /\ UNCHANGED <<peerVars, rd, used, clean, refused, isHandshake, readPacket,
                 delivered, written>>

on_msgbuffer == readFirst \/ readRest \/ readBody

read(n) == handshake(n) \/ echo_read(n)

Next ==
  \/ \E f \in Frame : sendFrame(f)
  \/ \E n \in 1 .. MESSAGE_BUFFER_SIZE : read(n)
  \/ on_msgbuffer
  \/ close
  \/ on_clsesocket

Spec == Init /\ [][Next]_vars

\* The loop of on_msgbuffer runs on, and libuv reads what has arrived.
Fairness ==
  /\ WF_vars(on_msgbuffer)
  /\ WF_vars(\E n \in 1 .. MESSAGE_BUFFER_SIZE : echo_read(n))
  /\ WF_vars(on_clsesocket)

FairSpec == Spec /\ Fairness

-----------------------------------------------------------------------------
(***************************************************************************)
(* Properties                                                              *)
(***************************************************************************)

\* The positions stay in order, and the packet is as long as its position says
\* once its head is full.
TypeOK ==
  /\ bytes \in Seq(Byte) /\ sent \in Seq(Frame) /\ off \in Seq(Nat)
  /\ rd \in 0 .. Len(bytes) /\ used \in 0 .. rd
  /\ {clean, refused, isHandshake} \subseteq BOOLEAN
  /\ readPacket \in PacketType
  /\ Len(readPacket.head) <= WS_HEAD_SIZE
  /\ isHeadFull(readPacket) => readPacket.wpos = Len(readPacket.store)
  /\ delivered \in Seq([op : Byte, body : Seq(Byte)])
  /\ written \in Seq(Seq(Byte))
  /\ handle \in {"open", "closing", "closed", "aborted"}
  /\ onCloses \in 0 .. 2

IsClose(f) == f.op % 16 = CLOSE_FRAME

\* How many of the first k frames are messages.
Kept(k) == Cardinality({i \in 1 .. k : ~IsClose(sent[i])})

\* onMsg has seen the messages among the first k frames: all, none else, in order.
Passed(k) ==
  /\ Len(delivered) = Kept(k)
  /\ \A i \in 1 .. k :
       ~IsClose(sent[i]) => delivered[Kept(i)] = [op |-> sent[i].op, body |-> sent[i].body]

InOrder == \E k \in 0 .. Len(sent) : Passed(k)

Short == \A i \in 1 .. Len(sent) : Len(sent[i].body) <= ShortMax

\* After a handshake that came alone in one read, on_msgbuffer passes the frames
\* without an extended length to onMsg in the order of the client, unmasked and
\* none twice, however the stream is cut into reads.
MessagesInOrder == (clean /\ Short) => InOrder

\* The same with extended lengths, which the comment before WebSocketConnect
\* describes as big endian numbers behind the second byte of the head.
LongFramesInOrder == clean => InOrder

\* What sendMsg writes for a body without an extended length is a frame of the
\* protocol that carries a message onMsg was given, no more answers than messages.
AnswersFramed ==
  (clean /\ Short) =>
     /\ Len(written) <= Len(delivered)
     /\ \A i \in 1 .. Len(written) : \E j \in i .. Len(delivered) :
          written[i] = Encode([op |-> 130, key |-> <<>>, body |-> delivered[j].body])

\* Messages in and answers out, as on_msgbuffer and sendMsg promise.
FramesSafe == TypeOK /\ MessagesInOrder /\ AnswersFramed

\* A connection whose handshake was not refused sees onClose once, when its
\* handle has closed, and no frame is passed to onMsg after it.
OnCloseLast ==
  /\ ~refused => onCloses = (IF handle = "closed" THEN 1 ELSE 0)
  /\ (handle = "closed") => ActiveSize = 0

\* A frame with a body reaches onMsg if the connection stays open.  (One without
\* waits for the first byte of the next frame.)
EventuallyPassed ==
  \A k \in 1 .. MaxSent :
    (/\ clean /\ Len(sent) >= k
     /\ \A i \in 1 .. k : Len(sent[i].body) \in 1 .. ShortMax)
    ~> \/ handle # "open"
       \/ ~Short
       \/ Len(sent) >= k /\ Len(delivered) >= Kept(k)
=============================================================================
