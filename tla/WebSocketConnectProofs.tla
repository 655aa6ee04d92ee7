---------------------- MODULE WebSocketConnectProofs ----------------------
(***************************************************************************)
(* Proofs about WebSocketConnect: what on_msgbuffer passes to onMsg and    *)
(* what sendMsg writes, and when onClose comes, for any frames, any limit  *)
(* of a body without an extended length up to 125 bytes, and any cutting   *)
(* of the stream into reads.                                               *)
(*                                                                         *)
(* The invariant says where the loop stands: k frames of the client are    *)
(* done, and the packet that is being read holds, from the first byte of   *)
(* the next frame's key on, what the stream holds up to position used.     *)
(***************************************************************************)
EXTENDS WebSocketConnect, FiniteSetTheorems, SequenceTheorems, TLAPS

-----------------------------------------------------------------------------
(***************************************************************************)
(* The inductive invariant                                                 *)
(***************************************************************************)

\* Where frame i ends: where the next one starts, or the end of what was sent.
Ends(i) == IF i < Len(sent) THEN off[i + 1] ELSE Len(bytes)

\* The stream is the request and then the frames.
StreamOK ==
  /\ Len(off) = Len(sent)
  /\ Ends(0) = Len(Request)
  /\ \A i \in 1 .. Len(sent) :
       /\ Ends(i) = off[i] + Len(Encode(sent[i])) /\ Ends(i) <= Len(bytes)
       /\ \A j \in 1 .. Len(Encode(sent[i])) : bytes[off[i] + j] = Encode(sent[i])[j]

\* A packet: the first two bytes, then the rest of the head, then the body.
PacketShape(p) ==
  /\ p \in PacketType
  /\ Len(p.head) \in 0 .. WS_HEAD_SIZE
  /\ Len(p.head) < WS_HEAD_SIZE => p.wpos = Len(p.head)
  /\ Len(p.head) = WS_HEAD_SIZE => p.wpos >= WS_HEAD_SIZE
  /\ ~isHeadFull(p) => Len(p.store) = WS_MAX_HEAD_SIZE
  /\ isHeadFull(p) => p.wpos = Len(p.store) /\ p.wpos <= WS_MAX_HEAD_SIZE + getMarkLen(p)

\* Before the handshake nothing is kept.
HandshakeOK ==
  ~isHandshake => /\ used = rd /\ ~clean /\ readPacket = NoPacket
                  /\ delivered = <<>> /\ written = <<>>

\* The packet holds the start of frame f, which starts at position o.
Holds(p, u, f, o) ==
  /\ p.head[1] = f.op /\ p.head[2] = Second(f)
  /\ p.wpos >= WS_MAX_HEAD_SIZE - Len(f.key)
  /\ u = o + p.wpos - 4 + Len(f.key)
  /\ \A x \in 7 - Len(f.key) .. p.wpos : p.store[x] = Encode(f)[x - 4 + Len(f.key)]

\* k frames are done and the packet holds what was read of the next, up to position u.
PacketOK(p, u, k) ==
  /\ Len(p.head) = 0 => u = Ends(k)
  /\ Len(p.head) = 1 => /\ k < Len(sent) /\ u = off[k + 1] + 1
                        /\ p.head[1] = sent[k + 1].op
  /\ Len(p.head) = 2 => k < Len(sent) /\ Holds(p, u, sent[k + 1], off[k + 1])

FramesOK ==
  clean /\ Short => \E k \in 0 .. Len(sent) : Passed(k) /\ PacketOK(readPacket, used, k)

WsInv ==
  /\ TypeOK /\ PacketShape(readPacket) /\ StreamOK /\ HandshakeOK /\ FramesOK /\ AnswersFramed

-----------------------------------------------------------------------------
\* Arithmetic of the head's bytes.
LEMMA HeadByte ==
  ASSUME NEW b \in Byte
  PROVE  /\ b % 128 \in 0 .. 127 /\ b \div 128 \in {0, 1} /\ b % 16 \in 0 .. 15
         /\ b < 128 => b % 128 = b /\ b \div 128 = 0
         /\ b >= 128 => b % 128 = b - 128 /\ b \div 128 = 1
BY DEF Byte

\* Masking twice gives the byte back.
LEMMA XorTwice ==
  ASSUME NEW b \in Byte, NEW k
  PROVE  Xor(b, k) \in Byte /\ Xor(Xor(b, k), k) = b
BY DEF Byte, Xor

\* A masked body has its length, and its bytes are those of the body, each with its key byte.
LEMMA MaskedType ==
  ASSUME NEW s \in Seq(Byte), NEW key
  PROVE  /\ Masked(s, key) \in Seq(Byte) /\ Len(Masked(s, key)) = Len(s)
         /\ \A i \in 1 .. Len(s) : Masked(s, key)[i] = Xor(s[i], key[((i - 1) % Len(key)) + 1])
<1>1. PICK n \in Nat : n = Len(s)
  OBVIOUS
<1>2. \A i \in 1 .. n : s[i] \in Byte
  BY <1>1, ElementOfSeq
<1>3. \A i \in 1 .. n : Xor(s[i], key[((i - 1) % Len(key)) + 1]) \in Byte
  BY <1>2, XorTwice
<1>4. PICK m : m = [i \in 1 .. n |-> Xor(s[i], key[((i - 1) % Len(key)) + 1])]
  OBVIOUS
<1>5. m \in Seq(Byte) /\ Len(m) = n
  BY <1>3, <1>4
<1> QED
  BY <1>1, <1>4, <1>5 DEF Masked

\* What the assumption says of a frame.
LEMMA FrameFacts ==
  ASSUME NEW f \in Frame
  PROVE  /\ f.op \in Byte /\ f.key \in Seq(Byte) /\ f.body \in Seq(Byte)
         /\ Len(f.key) \in {0, 2} /\ Len(f.body) \in Byte /\ Len(f.body) \in Nat
         /\ (f.key = <<>> <=> Len(f.key) = 0)
         /\ ShortMax \in 0 .. 125
BY WebSocketAssumption DEF FrameType, Byte

\* What stands behind the key is as long as the body.
LEMMA PayloadType ==
  ASSUME NEW f \in Frame
  PROVE  Payload(f) \in Seq(Byte) /\ Len(Payload(f)) = Len(f.body)
BY FrameFacts, MaskedType DEF Payload

\* The cells of a concatenation.
Joins(a, b, c) ==
  /\ \A i \in 1 .. Len(a) : c[i] = a[i]
  /\ \A i \in 1 .. Len(b) : c[Len(a) + i] = b[i]

\* The bytes of a concatenation, with its cells behind an operator.
LEMMA ConcatBytes ==
  ASSUME NEW a \in Seq(Byte), NEW b \in Seq(Byte), NEW c, c = a \o b
  PROVE  /\ c \in Seq(Byte) /\ Len(c) = Len(a) + Len(b) /\ Len(a) \in Nat /\ Len(b) \in Nat
         /\ Joins(a, b, c)
BY ConcatProperties DEF Joins

\* Two bytes.
LEMMA PairOfBytes ==
  ASSUME NEW a \in Byte, NEW b \in Byte
  PROVE  /\ <<a, b>> \in Seq(Byte) /\ Len(<<a, b>>) = 2
         /\ <<a, b>>[1] = a /\ <<a, b>>[2] = b
OBVIOUS

\* The second byte is a byte, and the length in front of the body too.
LEMMA FormType ==
  ASSUME NEW n \in Nat, n \in Byte
  PROVE  /\ Form(n) \in 0 .. 127 /\ Extended(n) \in Seq(Byte)
         /\ n <= ShortMax => Form(n) = n /\ n < 126 /\ Extended(n) = <<>>
<1>1. PICK m \in Nat : m = ShortMax /\ m <= 125
  BY WebSocketAssumption
<1>2. CASE n <= m
  <2>1. Form(n) = n
    BY <1>1, <1>2 DEF Form
  <2>2. Extended(n) = <<>>
    BY <1>1, <1>2, <2>1 DEF Extended
  <2> QED
    BY <1>1, <1>2, <2>1, <2>2
<1>3. CASE n > m /\ n = m + 1
  <2>1. Form(n) = 126
    BY <1>1, <1>3 DEF Form
  <2>2. Extended(n) = <<n>>
    BY <2>1 DEF Extended
  <2>3. <<n>> \in Seq(Byte)
    OBVIOUS
  <2>4. ~(n <= ShortMax)
    BY <1>1, <1>3
  <2>5. Form(n) \in 0 .. 127
    BY <2>1
  <2>6. Extended(n) \in Seq(Byte)
    BY <2>2, <2>3
  <2> QED
    BY <2>4, <2>5, <2>6
<1>4. CASE n > m /\ n # m + 1
  <2>1. Form(n) = 127
    BY <1>1, <1>4 DEF Form
  <2>2. Extended(n) = <<0, n>>
    BY <2>1 DEF Extended
  <2>3. 0 \in Byte
    BY DEF Byte
  <2>4. <<0, n>> \in Seq(Byte)
    BY <2>3, PairOfBytes
  <2> QED
    BY <1>1, <1>4, <2>1, <2>2, <2>4
<1> QED
  BY <1>1, <1>2, <1>3, <1>4

\* The second byte of a frame is one byte.
LEMMA SecondType ==
  ASSUME NEW f \in Frame
  PROVE  Second(f) \in Byte
<1>1. Form(Len(f.body)) \in 0 .. 127
  BY FrameFacts, FormType
<1>2. PICK n \in Nat : n = Form(Len(f.body)) /\ n <= 127
  BY <1>1
<1>0. n <= 127
  BY <1>2
<1>3. n \in Byte /\ n + 128 \in Byte
  BY <1>0 DEF Byte
<1>4. CASE f.key = <<>>
  BY <1>2, <1>3, <1>4 DEF Second
<1>5. CASE f.key # <<>>
  BY <1>2, <1>3, <1>5 DEF Second
<1> QED
  BY <1>4, <1>5

\* A frame of the client is a sequence of bytes with at least the two of its head.
LEMMA EncodeType ==
  ASSUME NEW f \in Frame
  PROVE  Encode(f) \in Seq(Byte) /\ Len(Encode(f)) \in Nat /\ Len(Encode(f)) >= 2
<1>1. PICK h : h = <<f.op, Second(f)>>
  OBVIOUS
<1>2. h \in Seq(Byte) /\ Len(h) = 2
  BY <1>1, FrameFacts, SecondType, PairOfBytes
<1>3. PICK x \in Seq(Byte) : x = Extended(Len(f.body))
  BY FrameFacts, FormType
<1>4. PICK y \in Seq(Byte) : y = f.key
  BY FrameFacts
<1>5. PICK z \in Seq(Byte) : z = Payload(f)
  BY PayloadType
<1>6. PICK g : g = h \o x
  OBVIOUS
<1>7. PICK d : d = g \o y
  OBVIOUS
<1>8. PICK e : e = d \o z
  OBVIOUS
<1>9. Encode(f) = e
  BY <1>1, <1>3, <1>4, <1>5, <1>6, <1>7, <1>8 DEF Encode
<1>10. g \in Seq(Byte) /\ Len(g) = Len(h) + Len(x) /\ Len(x) \in Nat
  <2>1. h \in Seq(Byte)
    BY <1>2
  <2> QED
    BY <2>1, <1>6, ConcatBytes, Zenon
<1>11. d \in Seq(Byte) /\ Len(d) = Len(g) + Len(y) /\ Len(y) \in Nat
  BY <1>7, <1>10, ConcatBytes, Zenon
<1>12. e \in Seq(Byte) /\ Len(e) = Len(d) + Len(z) /\ Len(z) \in Nat
  BY <1>8, <1>11, ConcatBytes, Zenon
<1>13. Len(e) \in Nat /\ Len(e) >= 2
  BY <1>2, <1>10, <1>11, <1>12
<1> QED
  BY <1>9, <1>12, <1>13

\* A frame without an extended length.
LEMMA ShortEncode ==
  ASSUME NEW f \in Frame, Len(f.body) <= ShortMax
  PROVE  /\ Len(Encode(f)) = 2 + Len(f.key) + Len(f.body)
         /\ Encode(f)[1] = f.op /\ Encode(f)[2] = Second(f)
         /\ \A j \in 1 .. Len(f.key) : Encode(f)[2 + j] = f.key[j]
         /\ \A j \in 1 .. Len(f.body) : Encode(f)[2 + Len(f.key) + j] = Payload(f)[j]
<1>1. PICK h : h = <<f.op, Second(f)>>
  OBVIOUS
<1>2. h \in Seq(Byte) /\ Len(h) = 2 /\ h[1] = f.op /\ h[2] = Second(f)
  BY <1>1, FrameFacts, SecondType, PairOfBytes
<1>3. Extended(Len(f.body)) = <<>>
  BY FrameFacts, FormType
<1>4. PICK y \in Seq(Byte) : y = f.key
  BY FrameFacts
<1>5. PICK z \in Seq(Byte) : z = Payload(f) /\ Len(z) = Len(f.body)
  BY PayloadType
<1>6. h \o <<>> = h
  BY <1>2, ConcatEmptySeq
<1>7. PICK d : d = h \o y
  OBVIOUS
<1>8. PICK e : e = d \o z
  OBVIOUS
<1>9. Encode(f) = e
  BY <1>1, <1>3, <1>4, <1>5, <1>6, <1>7, <1>8 DEF Encode
<1>10. d \in Seq(Byte) /\ Len(d) = 2 + Len(y) /\ Len(y) \in Nat
       /\ (\A i \in 1 .. 2 : d[i] = h[i]) /\ (\A i \in 1 .. Len(y) : d[2 + i] = y[i])
  <2>1. d \in Seq(Byte) /\ Len(d) = Len(h) + Len(y) /\ Len(y) \in Nat /\ Joins(h, y, d)
    <3>1. h \in Seq(Byte)
      BY <1>2
    <3> QED
      BY <3>1, <1>7, ConcatBytes, Zenon
  <2> QED
    BY <1>2, <2>1 DEF Joins
<1>11. e \in Seq(Byte) /\ Len(e) = Len(d) + Len(z) /\ Len(z) \in Nat
       /\ Joins(d, z, e)
  <2>1. d \in Seq(Byte)
    BY <1>10
  <2> QED
    BY <2>1, <1>8, ConcatBytes, Zenon
<1>12. e[1] = f.op /\ e[2] = Second(f)
  BY <1>2, <1>10, <1>11 DEF Joins
<1>13. \A i \in 1 .. Len(y) : e[2 + i] = y[i]
  BY <1>10, <1>11 DEF Joins
<1>14. Len(e) = 2 + Len(y) + Len(z) /\ \A i \in 1 .. Len(z) : e[2 + Len(y) + i] = z[i]
  BY <1>10, <1>11 DEF Joins
<1> QED
  BY <1>4, <1>5, <1>9, <1>12, <1>13, <1>14

-----------------------------------------------------------------------------
(***************************************************************************)
(* One turn of the loop of on_msgbuffer                                    *)
(***************************************************************************)

\* c is the next n bytes of the stream.
Slice(c, n) ==
  /\ c \in Seq(Byte) /\ Len(c) = n
  /\ \A j \in 1 .. n : c[j] = bytes[used + j]

\* The next n bytes of the buffer are there.
LEMMA NextBytesSlice ==
  ASSUME TypeOK, NEW n \in Nat, n <= ActiveSize
  PROVE  Slice(NextBytes(n), n)
<1>1. bytes \in Seq(Byte) /\ rd \in 0 .. Len(bytes) /\ used \in 0 .. rd
  BY DEF TypeOK
<1>2. PICK l \in Nat, r \in Nat, u \in Nat : l = Len(bytes) /\ r = rd /\ u = used /\ u <= r /\ r <= l
  BY <1>1
<1>3. u + 1 \in Int /\ u + n \in Int /\ u + n <= l
  BY <1>2 DEF ActiveSize
<1>4. PICK c : c = SubSeq(bytes, u + 1, u + n)
  OBVIOUS
<1>5. c \in Seq(Byte) /\ Len(c) = n /\ \A j \in 1 .. n : c[j] = bytes[u + j]
  BY <1>1, <1>2, <1>3, <1>4, SubSeqProperties
<1> QED
  BY <1>2, <1>4, <1>5 DEF NextBytes, Slice

\* The loop has bytes.
LEMMA LoopFacts ==
  ASSUME WsInv, InLoop
  PROVE  /\ ActiveSize \in Nat /\ ActiveSize >= 1 /\ isHandshake
         /\ used \in Nat /\ rd \in Nat /\ used + ActiveSize = rd
         /\ readPacket \in PacketType /\ readPacket.head \in Seq(Byte)
         /\ readPacket.store \in Seq(Byte) /\ readPacket.wpos \in Nat
         /\ Len(readPacket.head) \in 0 .. 2
<1>1. used \in 0 .. rd /\ rd \in 0 .. Len(bytes) /\ bytes \in Seq(Byte)
  BY DEF WsInv, TypeOK
<1>2. used \in Nat /\ rd \in Nat /\ used <= rd
  BY <1>1
<1>3. isHandshake
  BY <1>2 DEF WsInv, HandshakeOK, InLoop, ActiveSize, TypeOK
<1>4. readPacket \in PacketType /\ Len(readPacket.head) \in 0 .. 2
  BY DEF WsInv, PacketShape, WS_HEAD_SIZE
<1> QED
  BY <1>2, <1>3, <1>4 DEF InLoop, ActiveSize, PacketType

\* The size of a head.
LEMMA CalcHeadRange ==
  ASSUME NEW p \in PacketType, Len(p.head) = 2
  PROVE  /\ calcHeadSize(p) \in 2 .. 6
         /\ p.head[1] \in Byte /\ p.head[2] \in Byte
<1>1. p.head \in Seq(Byte)
  BY DEF PacketType
<1>2. 1 \in 1 .. Len(p.head) /\ 2 \in 1 .. Len(p.head)
  OBVIOUS
<1>3. p.head[1] \in Byte /\ p.head[2] \in Byte
  BY <1>1, <1>2, ElementOfSeq
<1> QED
  BY <1>3 DEF calcHeadSize, WS_HEAD_SIZE

\* The length that a packet reads from its head is one byte in the model.
LEMMA MarkLenRange ==
  ASSUME NEW p \in PacketType, Len(p.head) = 2, Len(p.store) >= 6
  PROVE  getMarkLen(p) \in Byte /\ getMarkLen(p) \in Nat
<1>1. p.head[2] \in Byte
  BY CalcHeadRange
<1>2. PICK b \in Byte : b = p.head[2]
  BY <1>1
<1>3. b % 128 \in 0 .. 127
  BY HeadByte
<1>4. p.store \in Seq(Byte) /\ Len(p.store) \in Nat
  BY DEF PacketType
<1>5. 3 \in 1 .. Len(p.store)
  BY <1>4
<1>6. p.store[3] \in Byte
  BY <1>4, <1>5, ElementOfSeq
<1>7. getMarkLen(p) = b % 128 \/ getMarkLen(p) = p.store[3]
  BY <1>2 DEF getMarkLen, getPayloadLen, WS_HEAD_SIZE
<1>8. b % 128 \in Byte
  BY <1>3 DEF Byte
<1>9. getMarkLen(p) \in Byte
  BY <1>6, <1>7, <1>8
<1>10. \A x \in Byte : x \in Nat
  BY DEF Byte
<1> QED
  BY <1>9, <1>10

\* readFrameHead appends to the first two bytes ...
LEMMA FirstFacts ==
  ASSUME WsInv, readFirst
  PROVE  \E n \in 1 .. 2 :
           LET l == Len(readPacket.head)
               p == readPacket' IN
           /\ l + n <= 2 /\ n <= ActiveSize /\ used' = used + n
           /\ p \in PacketType /\ p.store = readPacket.store /\ Len(p.head) = l + n
           /\ \A j \in 1 .. l : p.head[j] = readPacket.head[j]
           /\ \A j \in 1 .. n : p.head[l + j] = bytes[used + j]
           /\ l + n < 2 => p.wpos = l + n
           /\ l + n = 2 => p.wpos = 8 - calcHeadSize(p)
<1>1. PICK p : p = readPacket
  OBVIOUS
<1>2. PICK l \in Nat, a \in Nat : /\ l = Len(p.head) /\ l < 2 /\ a = ActiveSize /\ a >= 1
                                  /\ p.wpos = l /\ p.head \in Seq(Byte)
  BY <1>1, LoopFacts DEF readFirst, WS_HEAD_SIZE, WsInv, PacketShape
<1>3. PICK n \in 1 .. 2 : n = Least(2 - l, a) /\ l + n <= 2 /\ n <= a
  BY <1>2 DEF Least
<1>4. PICK c : c = NextBytes(n)
  OBVIOUS
<1>5. Slice(c, n)
  BY <1>2, <1>3, <1>4, NextBytesSlice DEF WsInv
<1>6. PICK g : g = p.head \o c
  OBVIOUS
<1>7. g \in Seq(Byte) /\ Len(g) = l + n /\ Joins(p.head, c, g)
  <2>1. c \in Seq(Byte) /\ Len(c) = n
    BY <1>5 DEF Slice
  <2>2. c \in Seq(Byte) /\ p.head \in Seq(Byte)
    BY <1>2, <2>1
  <2>3. g \in Seq(Byte) /\ Len(g) = Len(p.head) + Len(c) /\ Joins(p.head, c, g)
    BY <1>6, <2>2, ConcatBytes, Zenon
  <2> QED
    BY <1>2, <2>1, <2>3
<1>8. PICK q : q = [p EXCEPT !.head = g, !.wpos = l + n]
  OBVIOUS
<1>9. q \in PacketType /\ q.head = g /\ q.wpos = l + n /\ q.store = p.store
  <2>1. p \in PacketType /\ l + n \in Nat
    BY <1>1, <1>3, LoopFacts DEF readFirst
  <2> QED
    BY <1>7, <1>8, <2>1 DEF PacketType
<1>10. /\ used' = used + n
       /\ readPacket' = IF Len(q.head) = 2 THEN [q EXCEPT !.wpos = 6 - calcHeadSize(q) + 2] ELSE q
  <2>1. [p EXCEPT !.head = @ \o NextBytes(n), !.wpos = @ + n] = q
    BY <1>2, <1>4, <1>6, <1>8, <1>1, LoopFacts DEF readFirst, PacketType
  <2> QED
    BY <1>1, <1>2, <1>3, <2>1 DEF readFirst, WS_HEAD_SIZE, WS_MAX_HEAD_SIZE
<1>11. CASE l + n < 2
  <2>1. readPacket' = q
    BY <1>7, <1>9, <1>10, <1>11
  <2> QED
    BY <1>1, <1>2, <1>3, <1>5, <1>7, <1>9, <1>10, <1>11, <2>1 DEF Slice, Joins
<1>12. CASE l + n = 2
  <2>1. calcHeadSize(q) \in 2 .. 6
    BY <1>7, <1>9, <1>12, CalcHeadRange
  <2>2. PICK w \in Nat : w = 6 - calcHeadSize(q) + 2 /\ w = 8 - calcHeadSize(q)
    BY <2>1
  <2>3. readPacket' = [q EXCEPT !.wpos = w]
    BY <1>7, <1>9, <1>10, <1>12, <2>2
  <2>4. PICK r : r = readPacket'
    OBVIOUS
  <2>5. r \in PacketType /\ r.head = g /\ r.store = p.store /\ r.wpos = w
    BY <1>9, <2>3, <2>4 DEF PacketType
  <2>6. calcHeadSize(r) = calcHeadSize(q)
    BY <1>9, <2>5 DEF calcHeadSize, getPayloadLen, getMask
  <2>7. Len(r.head) = l + n /\ r.wpos = 8 - calcHeadSize(r) /\ r.store = p.store
    BY <1>7, <2>2, <2>5, <2>6
  <2>8. \A j \in 1 .. l : r.head[j] = p.head[j]
    BY <1>2, <1>7, <2>5 DEF Joins
  <2>9. \A j \in 1 .. n : r.head[l + j] = bytes[used + j]
    BY <1>2, <1>5, <1>7, <2>5 DEF Joins, Slice
  <2> HIDE <2>3
  <2>10. l + n <= 2 /\ n <= ActiveSize /\ used' = used + n
    BY <1>2, <1>3, <1>10
  <2>11. /\ r \in PacketType /\ r.store = readPacket.store /\ Len(r.head) = l + n
         /\ \A j \in 1 .. l : r.head[j] = readPacket.head[j]
         /\ \A j \in 1 .. n : r.head[l + j] = bytes[used + j]
         /\ r.wpos = 8 - calcHeadSize(r)
    BY <1>1, <2>5, <2>7, <2>8, <2>9
  <2>12. l = Len(readPacket.head) /\ ~(l + n < 2)
    BY <1>1, <1>2, <1>12
  <2> QED
    BY <2>4, <2>10, <2>11, <2>12
<1> QED
  BY <1>3, <1>11, <1>12

\* ... then fills the rest of the head, from the end of its room ...
LEMMA RestFacts ==
  ASSUME WsInv, readRest
  PROVE  \E n \in Nat :
           LET w == readPacket.wpos
               p == readPacket' IN
           /\ n >= 1 /\ w + n <= 6 /\ n <= ActiveSize /\ used' = used + n
           /\ p \in PacketType /\ p.head = readPacket.head /\ p.wpos = w + n
           /\ Len(p.store) = 6
           /\ \A x \in 1 .. w : p.store[x] = readPacket.store[x]
           /\ \A j \in 1 .. n : p.store[w + j] = bytes[used + j]
<1>1. PICK p : p = readPacket
  OBVIOUS
<1>2. PICK w \in Nat, a \in Nat : /\ w = p.wpos /\ w < 6 /\ a = ActiveSize /\ a >= 1
                                  /\ p.store \in Seq(Byte) /\ Len(p.store) = 6
  <2>1. ~(p.wpos >= 6) /\ Len(p.store) = 6
    BY <1>1 DEF readRest, isHeadFull, WS_MAX_HEAD_SIZE, WsInv, PacketShape
  <2> QED
    BY <1>1, <2>1, LoopFacts DEF readRest
<1>3. PICK n \in Nat : n = Least(6 - w, a) /\ n >= 1 /\ w + n <= 6 /\ n <= a
  BY <1>2 DEF Least
<1>4. PICK c : c = NextBytes(n)
  OBVIOUS
<1>5. Slice(c, n)
  BY <1>2, <1>3, <1>4, NextBytesSlice DEF WsInv
<1>6. PICK g : g = Put(p.store, w, c)
  OBVIOUS
<1>7. /\ g \in Seq(Byte) /\ Len(g) = 6
      /\ \A x \in 1 .. w : g[x] = p.store[x]
      /\ \A j \in 1 .. n : g[w + j] = bytes[used + j]
  <2>1. g = [i \in 1 .. 6 |-> IF i \in w + 1 .. w + n THEN c[i - w] ELSE p.store[i]]
    BY <1>2, <1>5, <1>6 DEF Put, Slice
  <2>2. \A i \in 1 .. 6 : p.store[i] \in Byte
    BY <1>2, ElementOfSeq
  <2>3. \A j \in 1 .. n : c[j] \in Byte
    BY <1>5, ElementOfSeq DEF Slice
  <2>4. \A i \in w + 1 .. w + n : i - w \in 1 .. n
    OBVIOUS
  <2>5. \A i \in 1 .. 6 : (IF i \in w + 1 .. w + n THEN c[i - w] ELSE p.store[i]) \in Byte
    BY <2>2, <2>3, <2>4
  <2>6. g \in Seq(Byte) /\ Len(g) = 6
    BY <2>1, <2>5
  <2>7. \A x \in 1 .. w : g[x] = p.store[x]
    <3>1. \A x \in 1 .. w : x \in 1 .. 6 /\ x \notin w + 1 .. w + n
      BY <1>3
    <3> QED
      BY <2>1, <3>1
  <2>8. \A j \in 1 .. n : g[w + j] = c[j]
    BY <1>3, <2>1
  <2> QED
    BY <1>5, <2>6, <2>7, <2>8 DEF Slice
<1>8. PICK q : q = [p EXCEPT !.store = g, !.wpos = w + n]
  OBVIOUS
<1>9. q \in PacketType /\ q.head = p.head /\ q.wpos = w + n /\ q.store = g
  <2>1. p \in PacketType /\ w + n \in Nat
    BY <1>1, LoopFacts DEF readRest
  <2> QED
    BY <1>7, <1>8, <2>1 DEF PacketType
<1>10. used' = used + n /\ readPacket' = q
  <2>1. [p EXCEPT !.store = Put(@, p.wpos, NextBytes(n)), !.wpos = @ + n] = q
    BY <1>1, <1>2, <1>4, <1>6, <1>8, LoopFacts DEF readRest, PacketType
  <2> QED
    BY <1>1, <1>2, <1>3, <2>1 DEF readRest, WS_MAX_HEAD_SIZE
<1> QED
  BY <1>1, <1>2, <1>3, <1>7, <1>9, <1>10

\* ... and the loop the body.
BodyPacket(n) == [readPacket EXCEPT !.store = @ \o NextBytes(n), !.wpos = @ + n]

\* What it does to the packet: the bytes that are there, up to the end of the body.
LEMMA BodyFacts ==
  ASSUME WsInv, readBody
  PROVE  \E n \in Nat :
           LET w == readPacket.wpos
               need == getMarkLen(readPacket) + 6 - w
               p == BodyPacket(n) IN
           /\ n <= need /\ n <= ActiveSize /\ used' = used + n /\ need \in Nat
           /\ p \in PacketType /\ p.head = readPacket.head /\ p.wpos = w + n
           /\ Len(p.store) = w + n
           /\ \A x \in 1 .. w : p.store[x] = readPacket.store[x]
           /\ \A j \in 1 .. n : p.store[w + j] = bytes[used + j]
           /\ \/ n = need /\ dispatch(p) /\ readPacket' = NoPacket
              \/ n # need /\ readPacket' = p /\ UNCHANGED <<delivered, written, handle>>
<1>1. PICK p : p = readPacket
  OBVIOUS
<1>2. PICK w \in Nat, a \in Nat, m \in Nat :
        /\ w = p.wpos /\ w >= 6 /\ w <= m + 6 /\ a = ActiveSize /\ m = getMarkLen(p)
        /\ p.store \in Seq(Byte) /\ Len(p.store) = w
  <2>1. isHeadFull(p) /\ p.wpos >= 6 /\ PacketShape(p)
    BY <1>1 DEF readBody, isHeadFull, WS_MAX_HEAD_SIZE, WsInv
  <2>2. Len(p.store) = p.wpos /\ p.wpos <= 6 + getMarkLen(p) /\ p \in PacketType
    BY <2>1 DEF PacketShape, WS_MAX_HEAD_SIZE
  <2>3. Len(p.head) = 2
    <3>1. Len(p.head) < 2 => p.wpos = Len(p.head)
      BY <2>1 DEF PacketShape, WS_HEAD_SIZE
    <3>2. Len(p.head) \in 0 .. 2
      BY <1>1, LoopFacts DEF readBody
    <3> QED
      BY <2>1, <3>1, <3>2
  <2>4. getMarkLen(p) \in Nat
    BY <2>1, <2>2, <2>3, MarkLenRange
  <2> QED
    BY <1>1, <2>1, <2>2, <2>4, LoopFacts DEF readBody
<1>3. PICK need \in Nat : need = m + 6 - w
  BY <1>2
<1>4. PICK n \in Nat : n = Least(need, a) /\ n <= need /\ n <= a
  BY <1>2 DEF Least
<1>5. PICK c : c = NextBytes(n)
  OBVIOUS
<1>6. Slice(c, n)
  BY <1>2, <1>4, <1>5, NextBytesSlice DEF WsInv
<1>7. PICK g : g = p.store \o c
  OBVIOUS
<1>8. g \in Seq(Byte) /\ Len(g) = w + n /\ Joins(p.store, c, g)
  <2>1. c \in Seq(Byte) /\ Len(c) = n
    BY <1>6 DEF Slice
  <2>2. c \in Seq(Byte) /\ p.store \in Seq(Byte)
    BY <1>2, <2>1
  <2>3. g \in Seq(Byte) /\ Len(g) = Len(p.store) + Len(c) /\ Joins(p.store, c, g)
    BY <1>7, <2>2, ConcatBytes, Zenon
  <2> QED
    BY <1>2, <2>1, <2>3
<1>9. PICK q : q = BodyPacket(n)
  OBVIOUS
<1>10. q = [p EXCEPT !.store = g, !.wpos = w + n]
  BY <1>1, <1>2, <1>5, <1>7, <1>9, LoopFacts DEF readBody, PacketType, BodyPacket
<1>11. q \in PacketType /\ q.head = p.head /\ q.wpos = w + n /\ q.store = g
  <2>1. p \in PacketType /\ w + n \in Nat
    BY <1>1, LoopFacts DEF readBody
  <2> QED
    BY <1>8, <1>10, <2>1 DEF PacketType
<1>12. /\ used' = used + n
       /\ IF n = need THEN dispatch(q) /\ readPacket' = NoPacket
          ELSE readPacket' = q /\ UNCHANGED <<delivered, written, handle>>
  BY <1>1, <1>2, <1>3, <1>4, <1>9 DEF readBody, WS_MAX_HEAD_SIZE, BodyPacket
<1>13. \A x \in 1 .. w : g[x] = p.store[x]
  BY <1>2, <1>8 DEF Joins
<1>14. \A j \in 1 .. n : g[w + j] = bytes[used + j]
  BY <1>2, <1>6, <1>8 DEF Joins, Slice
<1>15. /\ n <= getMarkLen(readPacket) + 6 - readPacket.wpos /\ n <= ActiveSize
       /\ getMarkLen(readPacket) + 6 - readPacket.wpos \in Nat
       /\ q.head = readPacket.head /\ q.wpos = readPacket.wpos + n
       /\ Len(q.store) = readPacket.wpos + n
  BY <1>1, <1>2, <1>3, <1>4, <1>8, <1>11
<1>16. /\ \A x \in 1 .. readPacket.wpos : q.store[x] = readPacket.store[x]
       /\ \A j \in 1 .. n : q.store[readPacket.wpos + j] = bytes[used + j]
  BY <1>1, <1>2, <1>11, <1>13, <1>14
<1>17. \/ /\ n = getMarkLen(readPacket) + 6 - readPacket.wpos
          /\ dispatch(q) /\ readPacket' = NoPacket
       \/ /\ n # getMarkLen(readPacket) + 6 - readPacket.wpos
          /\ readPacket' = q /\ UNCHANGED <<delivered, written, handle>>
  <2>1. need = getMarkLen(readPacket) + 6 - readPacket.wpos
    BY <1>1, <1>2, <1>3
  <2>2. CASE n = need
    BY <1>12, <2>1, <2>2
  <2>3. CASE n # need
    BY <1>12, <2>1, <2>3
  <2> QED
    BY <2>2, <2>3
<1> HIDE <1>10, <1>12
<1>18. used' = used + n /\ q \in PacketType
  BY <1>11, <1>12
<1> WITNESS n \in Nat
<1> QED
  BY <1>9, <1>15, <1>16, <1>17, <1>18

\* A turn of the loop that completes no frame.
LEMMA LoopQuiet ==
  ASSUME WsInv, InLoop, NEW n \in Nat, n <= ActiveSize, used' = used + n,
         UNCHANGED <<peerVars, rd, clean, refused, isHandshake, delivered, written, handle, onCloses>>,
         PacketShape(readPacket'),
         \A k \in 0 .. Len(sent) :
           clean /\ Short /\ PacketOK(readPacket, used, k) => PacketOK(readPacket', used', k)
  PROVE  WsInv'
<1>1. UNCHANGED <<bytes, sent, off>> /\ UNCHANGED <<rd, clean, refused, isHandshake>>
      /\ UNCHANGED <<delivered, written, handle, onCloses>>
  BY DEF peerVars
<1>2. used' \in 0 .. rd
  BY LoopFacts
<1>3. TypeOK'
  <2>1. PICK p : p = readPacket'
    OBVIOUS
  <2>2. PacketShape(p)
    BY <2>1
  <2>3. p \in PacketType /\ Len(p.head) <= WS_HEAD_SIZE
    <3>1. p \in PacketType /\ Len(p.head) \in 0 .. 2
      BY <2>2 DEF PacketShape, WS_HEAD_SIZE
    <3>2. PICK l \in 0 .. 2 : l = Len(p.head)
      BY <3>1
    <3>3. l <= 2
      OBVIOUS
    <3> QED
      BY <3>1, <3>2, <3>3 DEF WS_HEAD_SIZE
  <2>4. isHeadFull(p) => p.wpos = Len(p.store)
    BY <2>2 DEF PacketShape
  <2>5. TypeOK
    BY DEF WsInv
  <2> QED
    BY <1>1, <1>2, <2>1, <2>3, <2>4, <2>5 DEF TypeOK
<1>4. StreamOK'
  BY <1>1 DEF WsInv, StreamOK, Ends
<1>5. HandshakeOK'
  BY <1>1, LoopFacts DEF HandshakeOK
<1>6. (Short' <=> Short) /\ \A k : Passed(k)' <=> Passed(k)
  BY <1>1 DEF Short, Passed, Kept, IsClose
<1>7. FramesOK'
  <2>1. SUFFICES ASSUME clean, Short
                 PROVE  (\E k \in 0 .. Len(sent) : Passed(k) /\ PacketOK(readPacket, used, k))'
    BY <1>1, <1>6 DEF FramesOK
  <2>2. PICK k \in 0 .. Len(sent) : Passed(k) /\ PacketOK(readPacket, used, k)
    BY <2>1 DEF WsInv, FramesOK
  <2>3. PacketOK(readPacket', used', k)
    BY <2>1, <2>2
  <2>4. PacketOK(readPacket, used, k)'
    BY <1>1, <2>3 DEF PacketOK, Ends, Holds
  <2> QED
    BY <1>1, <1>6, <2>2, <2>4
<1>8. AnswersFramed'
  BY <1>1, <1>6 DEF WsInv, AnswersFramed
<1>9. PacketShape(readPacket)'
  OBVIOUS
<1> QED
  BY <1>3, <1>4, <1>5, <1>7, <1>8, <1>9 DEF WsInv

\* What the stream holds of a frame that has no extended length.
FrameAt(k, f, o) ==
  /\ f = sent[k + 1] /\ o = off[k + 1] /\ f \in Frame /\ o \in Nat /\ Len(f.body) <= ShortMax
  /\ Ends(k) = o /\ Ends(k + 1) = o + 2 + Len(f.key) + Len(f.body)
  /\ \A j \in 1 .. 2 + Len(f.key) + Len(f.body) : bytes[o + j] = Encode(f)[j]

\* Every frame of the client that is not read yet stands there.
LEMMA FrameCells ==
  ASSUME WsInv, Short, NEW k \in 0 .. Len(sent), k < Len(sent)
  PROVE  FrameAt(k, sent[k + 1], off[k + 1])
<1>1. sent \in Seq(Frame) /\ off \in Seq(Nat) /\ Len(off) = Len(sent) /\ StreamOK
  BY DEF WsInv, TypeOK, StreamOK
<1>2. PICK l \in Nat : l = Len(sent) /\ k \in Nat /\ k < l
  BY <1>1
<1>3. PICK i \in Nat : i = k + 1 /\ i \in 1 .. l
  BY <1>2
<1>4. sent[i] \in Frame /\ off[i] \in Nat
  BY <1>1, <1>2, <1>3, ElementOfSeq
<1>5. Len(sent[i].body) <= ShortMax
  BY <1>2, <1>3 DEF Short
<1>6. Ends(k) = off[i]
  BY <1>2, <1>3 DEF Ends
<1>7. Len(Encode(sent[i])) = 2 + Len(sent[i].key) + Len(sent[i].body)
  BY <1>4, <1>5, ShortEncode
<1>8. /\ Ends(i) = off[i] + Len(Encode(sent[i]))
      /\ \A j \in 1 .. Len(Encode(sent[i])) : bytes[off[i] + j] = Encode(sent[i])[j]
  BY <1>1, <1>2, <1>3 DEF StreamOK
<1>9. PICK x \in Nat, y \in Nat : x = Len(sent[i].key) /\ y = Len(sent[i].body)
  BY <1>4, FrameFacts
<1>10. Ends(i) = off[i] + 2 + x + y
  <2>0. Len(Encode(sent[i])) \in Nat
    BY <1>4, EncodeType
  <2>1. PICK e \in Nat : e = Len(Encode(sent[i])) /\ e = 2 + x + y
    BY <2>0, <1>7, <1>9
  <2>2. PICK o \in Nat : o = off[i]
    BY <1>4
  <2>3. Ends(i) = o + e
    BY <1>8, <2>1, <2>2
  <2> QED
    BY <2>1, <2>2, <2>3
<1>11. \A j \in 1 .. 2 + x + y : bytes[off[i] + j] = Encode(sent[i])[j]
  BY <1>7, <1>8, <1>9
<1>12. PICK f, o : f = sent[i] /\ o = off[i]
  OBVIOUS
<1>13. FrameAt(k, f, o)
  BY <1>3, <1>4, <1>5, <1>6, <1>9, <1>10, <1>11, <1>12 DEF FrameAt
<1> QED
  BY <1>3, <1>12, <1>13

\* The head of a frame without an extended length says how long key and body are.
LEMMA HeadOf ==
  ASSUME NEW f \in Frame, Len(f.body) <= ShortMax, NEW p, p.head[2] = Second(f)
  PROVE  /\ getPayloadLen(p) = Len(f.body) /\ getMarkLen(p) = Len(f.body)
         /\ calcHeadSize(p) = 2 + Len(f.key)
         /\ (getMask(p) = 1 <=> f.key # <<>>)
<1>1. PICK n \in Nat : n = Len(f.body) /\ n \in Byte
  BY FrameFacts
<1>2. Form(n) = n /\ n < 126
  BY <1>1, FormType
<1>3. PICK b \in Nat : b = p.head[2] /\ b = Second(f) /\ b \in Byte
  <2>1. Second(f) \in Byte
    BY SecondType
  <2>2. \A x \in Byte : x \in Nat
    BY DEF Byte
  <2> QED
    BY <2>1, <2>2
<1>4. CASE f.key = <<>>
  <2>1. b = n /\ Len(f.key) = 0
    BY <1>1, <1>2, <1>3, <1>4, FrameFacts DEF Second
  <2>2. b % 128 = n /\ b \div 128 = 0
    BY <1>2, <2>1
  <2>3. getPayloadLen(p) = n /\ getMask(p) = 0
    BY <1>3, <2>2 DEF getPayloadLen, getMask
  <2>4. getMarkLen(p) = n
    BY <1>2, <2>3 DEF getMarkLen
  <2>5. calcHeadSize(p) = 2
    BY <1>2, <2>3 DEF calcHeadSize, WS_HEAD_SIZE
  <2> QED
    BY <1>1, <1>4, <2>1, <2>3, <2>4, <2>5
<1>5. CASE f.key # <<>>
  <2>1. b = n + 128 /\ Len(f.key) = 2
    BY <1>1, <1>2, <1>3, <1>5, FrameFacts DEF Second
  <2>2. b % 128 = n /\ b \div 128 = 1
    BY <1>2, <2>1
  <2>3. getPayloadLen(p) = n /\ getMask(p) = 1
    BY <1>3, <2>2 DEF getPayloadLen, getMask
  <2>4. getMarkLen(p) = n
    BY <1>2, <2>3 DEF getMarkLen
  <2>5. calcHeadSize(p) = 4
    BY <1>2, <2>3 DEF calcHeadSize, WS_HEAD_SIZE
  <2> QED
    BY <1>1, <1>5, <2>1, <2>3, <2>4, <2>5
<1> QED
  BY <1>4, <1>5

\* The first two bytes of the next frame, taken at position u.
LEMMA FirstBytes ==
  ASSUME WsInv, Short, NEW k \in 0 .. Len(sent), NEW p, NEW u \in Nat,
         u < Len(bytes), Len(p.head) < 2, Len(p.head) \in Nat, PacketOK(p, u, k)
  PROVE  /\ k < Len(sent) /\ u = off[k + 1] + Len(p.head)
         /\ Len(p.head) = 1 => p.head[1] = sent[k + 1].op
<1>1. PICK l \in Nat : l = Len(p.head) /\ (l = 0 \/ l = 1)
  OBVIOUS
<1>2. CASE l = 0
  <2>1. u = Ends(k)
    BY <1>1, <1>2 DEF PacketOK
  <2>2. k < Len(sent)
    BY <2>1 DEF Ends
  <2>3. FrameAt(k, sent[k + 1], off[k + 1])
    BY <2>2, FrameCells
  <2>4. Ends(k) = off[k + 1]
    BY <2>3 DEF FrameAt
  <2> QED
    BY <1>1, <1>2, <2>1, <2>2, <2>4
<1>3. CASE l = 1
  <2>1. k < Len(sent) /\ u = off[k + 1] + 1 /\ p.head[1] = sent[k + 1].op
    BY <1>1, <1>3 DEF PacketOK
  <2> QED
    BY <1>1, <1>3, <2>1
<1> QED
  BY <1>1, <1>2, <1>3

\* The packet after the first bytes of a head.
LEMMA FirstShape ==
  ASSUME NEW p \in PacketType, NEW m \in 1 .. 2, Len(p.head) = m, Len(p.store) = 6,
         m < 2 => p.wpos = m, m = 2 => p.wpos = 8 - calcHeadSize(p)
  PROVE  PacketShape(p)
<1>1. CASE m = 1
  <2>1. p.wpos = 1 /\ ~isHeadFull(p)
    BY <1>1 DEF isHeadFull, WS_MAX_HEAD_SIZE
  <2> QED
    BY <1>1, <2>1 DEF PacketShape, WS_HEAD_SIZE, WS_MAX_HEAD_SIZE
<1>2. CASE m = 2
  <2>0. Len(p.head) = 2 /\ Len(p.store) >= 6
    BY <1>2
  <2>1. calcHeadSize(p) \in 2 .. 6 /\ getMarkLen(p) \in Nat
    BY <2>0, CalcHeadRange, MarkLenRange
  <2>2. PICK w \in 2 .. 6 : w = p.wpos
    BY <1>2, <2>1
  <2>3. PICK g \in Nat : g = getMarkLen(p)
    BY <2>1
  <2>4. isHeadFull(p) <=> w >= 6
    BY <2>2 DEF isHeadFull, WS_MAX_HEAD_SIZE
  <2>5. isHeadFull(p) => p.wpos = Len(p.store) /\ p.wpos <= WS_MAX_HEAD_SIZE + getMarkLen(p)
    BY <2>2, <2>3, <2>4 DEF WS_MAX_HEAD_SIZE
  <2> QED
    BY <1>2, <2>2, <2>5 DEF PacketShape, WS_HEAD_SIZE, WS_MAX_HEAD_SIZE
<1> QED
  BY <1>1, <1>2

\* It holds the first bytes of the next frame.
LEMMA FirstHolds ==
  ASSUME NEW f \in Frame, Len(f.body) <= ShortMax, NEW o \in Nat, NEW p, NEW u \in Nat,
         p.head[1] = f.op, p.head[2] = Second(f), p.wpos = 8 - calcHeadSize(p), u = o + 2
  PROVE  Holds(p, u, f, o)
<1>1. calcHeadSize(p) = 2 + Len(f.key)
  BY HeadOf
<1>2. CASE Len(f.key) = 0
  <2>1. p.wpos = 6
    BY <1>1, <1>2
  <2>2. 7 - 0 .. 6 = {}
    OBVIOUS
  <2> QED
    BY <1>2, <2>1, <2>2 DEF Holds, WS_MAX_HEAD_SIZE
<1>3. CASE Len(f.key) = 2
  <2>1. p.wpos = 4
    BY <1>1, <1>3
  <2>2. 7 - 2 .. 4 = {}
    OBVIOUS
  <2> QED
    BY <1>3, <2>1, <2>2 DEF Holds, WS_MAX_HEAD_SIZE
<1> QED
  BY <1>2, <1>3, FrameFacts

\* The first two bytes of a head.
LEMMA ReadFirstStep ==
  ASSUME WsInv, readFirst
  PROVE  WsInv'
<1>0. InLoop /\ Len(readPacket.head) < 2
      /\ UNCHANGED <<peerVars, rd, clean, refused, isHandshake, delivered, written, handle, onCloses>>
  BY DEF readFirst, WS_HEAD_SIZE
<1>1. PICK l \in Nat : l = Len(readPacket.head) /\ l < 2
  BY <1>0, LoopFacts
<1>20. PICK p : p = readPacket'
  OBVIOUS
<1>2. PICK n \in 1 .. 2 :
        /\ l + n <= 2 /\ n <= ActiveSize /\ used' = used + n
        /\ p \in PacketType /\ p.store = readPacket.store /\ Len(p.head) = l + n
        /\ \A j \in 1 .. l : p.head[j] = readPacket.head[j]
        /\ \A j \in 1 .. n : p.head[l + j] = bytes[used + j]
        /\ l + n < 2 => p.wpos = l + n
        /\ l + n = 2 => p.wpos = 8 - calcHeadSize(p)
  BY <1>1, <1>20, FirstFacts
<1>3. Len(p.store) = 6
  <2>1. readPacket.wpos = l
    BY <1>1 DEF WsInv, PacketShape, WS_HEAD_SIZE
  <2>2. ~isHeadFull(readPacket)
    BY <1>1, <2>1 DEF isHeadFull, WS_MAX_HEAD_SIZE
  <2> QED
    BY <1>2, <1>20, <2>2 DEF WsInv, PacketShape, WS_MAX_HEAD_SIZE
<1>4. PICK m \in 1 .. 2 : m = l + n
  BY <1>1, <1>2, <1>20
<1>5. PacketShape(p)
  <2>1. /\ p \in PacketType /\ Len(p.head) = m /\ (m < 2 => p.wpos = m)
        /\ (m = 2 => p.wpos = 8 - calcHeadSize(p))
    BY <1>2, <1>20, <1>4
  <2> QED
    BY <1>3, <2>1, FirstShape
<1>6. PacketShape(readPacket')
  BY <1>2, <1>20, <1>5
<1>7. ASSUME NEW k \in 0 .. Len(sent), clean, Short, PacketOK(readPacket, used, k)
      PROVE  PacketOK(readPacket', used', k)
  <2>1. PICK u \in Nat : u = used /\ u < Len(bytes)
    BY <1>0, LoopFacts DEF WsInv, TypeOK
  <2>2. /\ k < Len(sent) /\ u = off[k + 1] + l
        /\ l = 1 => readPacket.head[1] = sent[k + 1].op
    <3>1. PacketOK(readPacket, u, k)
      BY <1>7, <2>1
    <3> QED
      BY <1>1, <1>7, <2>1, <3>1, FirstBytes
  <2>3. PICK f, o : f = sent[k + 1] /\ o = off[k + 1]
    OBVIOUS
  <2>4. FrameAt(k, f, o)
    BY <1>7, <2>2, <2>3, FrameCells
  <2>5. f \in Frame /\ o \in Nat /\ Len(f.body) <= ShortMax
    BY <2>4 DEF FrameAt
  <2>6. bytes[o + 1] = f.op /\ bytes[o + 2] = Second(f)
    <3>1. PICK x \in Nat, y \in Nat : x = Len(f.key) /\ y = Len(f.body)
      BY <2>5, FrameFacts
    <3>2. \A j \in 1 .. 2 + x + y : bytes[o + j] = Encode(f)[j]
      BY <2>4, <3>1 DEF FrameAt
    <3>3. 1 \in 1 .. 2 + x + y /\ 2 \in 1 .. 2 + x + y
      OBVIOUS
    <3>4. bytes[o + 1] = Encode(f)[1] /\ bytes[o + 2] = Encode(f)[2]
      BY <3>2, <3>3
    <3> QED
      BY <2>5, <3>4, ShortEncode
  <2>7. u = o + l
    BY <2>2, <2>3
  <2>8. p.head[1] = f.op
    <3>1. CASE l = 0
      <4>1. 1 \in 1 .. n
        OBVIOUS
      <4>2. p.head[l + 1] = bytes[used + 1]
        BY <1>2, <1>20, <4>1
      <4>3. l + 1 = 1 /\ used + 1 = o + 1
        BY <2>1, <2>5, <2>7, <3>1
      <4> QED
        BY <2>6, <4>2, <4>3
    <3>2. CASE l = 1
      <4>1. 1 \in 1 .. l
        BY <3>2
      <4>2. p.head[1] = readPacket.head[1]
        BY <1>2, <1>20, <4>1
      <4> QED
        BY <2>2, <2>3, <3>2, <4>2
    <3>3. l < 2
      BY <1>1
    <3>4. l = 0 \/ l = 1
      BY <3>3
    <3> QED
      BY <3>1, <3>2, <3>4
  <2>9. m = 2 => p.head[2] = Second(f)
    <3>1. SUFFICES ASSUME m = 2 PROVE p.head[2] = Second(f)
      OBVIOUS
    <3>2. n \in 1 .. n /\ l + n = 2
      BY <1>4, <3>1
    <3>3. p.head[l + n] = bytes[used + n]
      BY <1>2, <1>20, <3>2
    <3>4. used + n = o + 2
      BY <2>1, <2>5, <2>7, <3>2
    <3> QED
      BY <2>6, <3>2, <3>3, <3>4
  <2>10. PICK v \in Nat : v = used' /\ v = o + m
    BY <1>2, <1>20, <1>4, <2>1, <2>5, <2>7
  <2>11. CASE m = 1
    <3>1. Len(p.head) = 1 /\ v = o + 1
      BY <1>2, <1>20, <1>4, <2>10, <2>11
    <3>2. PacketOK(p, v, k)
      BY <2>2, <2>3, <2>8, <3>1 DEF PacketOK
    <3> QED
      BY <1>2, <1>20, <2>10, <3>2
  <2>12. CASE m = 2
    <3>1. Len(p.head) = 2 /\ p.wpos = 8 - calcHeadSize(p) /\ v = o + 2
      BY <1>2, <1>20, <1>4, <2>10, <2>12
    <3>2. p.head[2] = Second(f)
      BY <2>9, <2>12
    <3>3. Holds(p, v, f, o)
      BY <2>5, <2>8, <3>1, <3>2, FirstHolds
    <3>4. PacketOK(p, v, k)
      BY <2>2, <2>3, <3>1, <3>3 DEF PacketOK
    <3> QED
      BY <1>2, <1>20, <2>10, <3>4
  <2> QED
    BY <2>11, <2>12
<1>8. n \in Nat
  OBVIOUS
<1> QED
  BY <1>0, <1>2, <1>20, <1>6, <1>7, <1>8, LoopQuiet

\* Positions in the packet and in the stream.
LEMMA Positions ==
  ASSUME NEW o \in Nat, NEW u \in Nat, NEW w \in Nat, NEW x \in {0, 2}, NEW y \in Nat, NEW n \in Nat,
         u = o + w - 4 + x, w >= 6 - x, w + n <= 6 + y
  PROVE  /\ u + n = o + (w + n) - 4 + x /\ w + n >= 6 - x
         /\ \A j \in 1 .. n : /\ w + j - 4 + x \in 1 .. 2 + x + y
                            /\ u + j = o + (w + j - 4 + x)
OBVIOUS

\* Packet q is p with n more bytes from position u of the stream.
Takes(p, q, u, n) ==
  /\ p.wpos \in Nat /\ q.head = p.head /\ q.wpos = p.wpos + n
  /\ \A x \in 1 .. p.wpos : q.store[x] = p.store[x]
  /\ \A j \in 1 .. n : q.store[p.wpos + j] = bytes[u + j]
Fits(p, n, f) == p.wpos + n <= 6 + Len(f.body)

\* A packet that takes n more bytes of its frame.
LEMMA HoldsMore ==
  ASSUME NEW k, NEW f, NEW o, FrameAt(k, f, o), NEW p, NEW u \in Nat, Holds(p, u, f, o),
         NEW q, NEW n \in Nat, Takes(p, q, u, n), Fits(p, n, f)
  PROVE  Holds(q, u + n, f, o)
<1>1. f \in Frame /\ o \in Nat
  BY DEF FrameAt
<1>2. PICK x \in {0, 2}, y \in Nat : x = Len(f.key) /\ y = Len(f.body)
  BY <1>1, FrameFacts
<1>3. PICK w \in Nat : w = p.wpos
  BY DEF Takes
<1>4. PICK a \in Nat : a = o
  BY <1>1
<1>5. u = a + w - 4 + x /\ w >= 6 - x
  BY <1>2, <1>3, <1>4 DEF Holds, WS_MAX_HEAD_SIZE
<1>6. w + n <= 6 + y
  BY <1>2, <1>3 DEF Fits
<1>7. /\ u + n = a + (w + n) - 4 + x /\ w + n >= 6 - x
      /\ \A j \in 1 .. n : w + j - 4 + x \in 1 .. 2 + x + y /\ u + j = a + (w + j - 4 + x)
  BY <1>5, <1>6, Positions
<1>8. \A i \in 7 - x .. w : p.store[i] = Encode(f)[i - 4 + x]
  BY <1>2, <1>3 DEF Holds
<1>9. \A j \in 1 .. 2 + x + y : bytes[a + j] = Encode(f)[j]
  BY <1>2, <1>4 DEF FrameAt
<1>10. /\ q.head = p.head /\ q.wpos = w + n
       /\ \A i \in 1 .. w : q.store[i] = p.store[i]
       /\ \A j \in 1 .. n : q.store[w + j] = bytes[u + j]
  BY <1>3 DEF Takes
<1>11. ASSUME NEW i \in 7 - x .. w + n PROVE q.store[i] = Encode(f)[i - 4 + x]
  <2>1. CASE i <= w
    <3>1. i \in 1 .. w /\ i \in 7 - x .. w
      BY <2>1
    <3>2. q.store[i] = p.store[i]
      BY <1>10, <3>1
    <3>3. p.store[i] = Encode(f)[i - 4 + x]
      BY <1>8, <3>1
    <3> QED
      BY <3>2, <3>3
  <2>2. CASE i > w
    <3>1. PICK j \in 1 .. n : i = w + j
      <4>1. i - w \in 1 .. n /\ i = w + (i - w)
        BY <2>2
      <4> QED
        BY <4>1
    <3>2. q.store[i] = bytes[u + j]
      BY <1>10, <3>1
    <3>3. w + j - 4 + x \in 1 .. 2 + x + y /\ u + j = a + (w + j - 4 + x)
      BY <1>7
    <3>4. PICK m \in 1 .. 2 + x + y : m = w + j - 4 + x
      BY <3>3
    <3>5. bytes[a + m] = Encode(f)[m]
      BY <1>9
    <3> QED
      BY <3>1, <3>2, <3>3, <3>4, <3>5
  <2> QED
    BY <2>1, <2>2
<1>12. q.head[1] = f.op /\ q.head[2] = Second(f)
  BY <1>10 DEF Holds
<1>13. \A i \in 7 - x .. w + n : q.store[i] = Encode(f)[i - 4 + x]
  BY <1>11
<1> QED
  BY <1>2, <1>4, <1>7, <1>10, <1>12, <1>13 DEF Holds, WS_MAX_HEAD_SIZE

\* The rest of the head.
LEMMA ReadRestStep ==
  ASSUME WsInv, readRest
  PROVE  WsInv'
<1>0. InLoop /\ Len(readPacket.head) = 2 /\ PacketShape(readPacket)
      /\ UNCHANGED <<peerVars, rd, clean, refused, isHandshake, delivered, written, handle, onCloses>>
  BY DEF readRest, WS_HEAD_SIZE, WsInv
<1>1. PICK w \in Nat : w = readPacket.wpos /\ w >= 2
  BY <1>0, LoopFacts DEF PacketShape, WS_HEAD_SIZE
<1>20. PICK p : p = readPacket'
  OBVIOUS
<1>2. PICK n \in Nat :
        /\ n >= 1 /\ w + n <= 6 /\ n <= ActiveSize /\ used' = used + n
        /\ p \in PacketType /\ p.head = readPacket.head /\ p.wpos = w + n
        /\ Len(p.store) = 6
        /\ \A x \in 1 .. w : p.store[x] = readPacket.store[x]
        /\ \A j \in 1 .. n : p.store[w + j] = bytes[used + j]
  BY <1>1, <1>20, RestFacts
<1>3. PacketShape(p)
  <2>1. Len(p.head) = 2 /\ Len(p.store) >= 6
    BY <1>0, <1>2, <1>20
  <2>2. PICK m \in Nat : m = getMarkLen(p)
    BY <1>2, <1>20, <2>1, MarkLenRange
  <2>3. PICK v \in 2 .. 6 : v = p.wpos
    BY <1>1, <1>2, <1>20
  <2>4. isHeadFull(p) <=> v >= 6
    BY <2>3 DEF isHeadFull, WS_MAX_HEAD_SIZE
  <2>5. isHeadFull(p) => p.wpos = Len(p.store) /\ p.wpos <= WS_MAX_HEAD_SIZE + getMarkLen(p)
    BY <1>2, <1>20, <2>2, <2>3, <2>4 DEF WS_MAX_HEAD_SIZE
  <2> QED
    BY <1>2, <1>20, <2>1, <2>3, <2>5 DEF PacketShape, WS_HEAD_SIZE, WS_MAX_HEAD_SIZE
<1>4. PacketShape(readPacket')
  BY <1>2, <1>20, <1>3
<1>5. ASSUME NEW k \in 0 .. Len(sent), clean, Short, PacketOK(readPacket, used, k)
      PROVE  PacketOK(readPacket', used', k)
  <2>1. PICK u \in Nat : u = used
    BY <1>0, LoopFacts
  <2>2. PICK f, o : f = sent[k + 1] /\ o = off[k + 1]
    OBVIOUS
  <2>3. k < Len(sent) /\ Holds(readPacket, u, f, o)
    BY <1>0, <1>5, <2>1, <2>2 DEF PacketOK
  <2>4. FrameAt(k, f, o)
    BY <1>5, <2>2, <2>3, FrameCells
  <2>5. Fits(readPacket, n, f)
    <3>1. PICK y \in Nat : y = Len(f.body)
      BY <2>4, FrameFacts DEF FrameAt
    <3>2. w + n <= 6 + y
      BY <1>2, <1>20
    <3> QED
      BY <1>1, <3>1, <3>2 DEF Fits
  <2>6. Takes(readPacket, p, u, n)
    BY <1>1, <1>2, <1>20, <2>1 DEF Takes
  <2>9. Holds(p, u + n, f, o)
    BY <2>3, <2>4, <2>5, <2>6, HoldsMore
  <2>10. Len(p.head) = 2
    BY <1>0, <1>2, <1>20
  <2>11. PacketOK(p, u + n, k)
    BY <2>2, <2>3, <2>9, <2>10 DEF PacketOK
  <2> QED
    BY <1>2, <1>20, <2>1, <2>11
<1> QED
  BY <1>0, <1>2, <1>20, <1>4, <1>5, LoopQuiet

-----------------------------------------------------------------------------
(***************************************************************************)
(* A complete frame                                                        *)
(***************************************************************************)

\* The body of a complete packet, byte by byte.
LEMMA BodyBytes ==
  ASSUME NEW p \in PacketType, NEW w \in Nat, w >= 6, p.wpos = w, Len(p.store) = w
  PROVE  /\ Body(p) \in Seq(Byte) /\ Len(Body(p)) = w - 6
         /\ getMask(p) # 1 => \A i \in 1 .. w - 6 : Body(p)[i] = p.store[6 + i]
         /\ getMask(p) = 1 =>
              \A i \in 1 .. w - 6 :
                Body(p)[i] = Xor(p.store[6 + i], getMaskKey(p)[((i - 1) % Len(getMaskKey(p))) + 1])
<1>1. p.store \in Seq(Byte)
  BY DEF PacketType
<1>2. PICK r : r = SubSeq(p.store, 7, w)
  OBVIOUS
<1>3. r \in Seq(Byte) /\ Len(r) = w - 6 /\ \A i \in 1 .. w - 6 : r[i] = p.store[6 + i]
  <2>1. PICK s \in Seq(Byte) : s = p.store
    BY <1>1
  <2>2. Len(s) = w
    BY <2>1
  <2>3. r = SubSeq(s, 7, w)
    BY <1>2, <2>1
  <2>4. r \in Seq(Byte) /\ Len(r) = w - 6 /\ \A i \in 1 .. w - 6 : r[i] = s[7 + i - 1]
    BY <2>2, <2>3, SubSeqProperties
  <2>5. \A i \in 1 .. w - 6 : 7 + i - 1 = 6 + i
    OBVIOUS
  <2> QED
    BY <2>1, <2>4, <2>5
<1>4. Body(p) = IF getMask(p) = 1 THEN Masked(r, getMaskKey(p)) ELSE r
  BY <1>2 DEF Body, WS_MAX_HEAD_SIZE
<1>5. CASE getMask(p) = 1
  <2>1. PICK key : key = getMaskKey(p)
    OBVIOUS
  <2>2. /\ Masked(r, key) \in Seq(Byte) /\ Len(Masked(r, key)) = Len(r)
        /\ \A i \in 1 .. Len(r) : Masked(r, key)[i] = Xor(r[i], key[((i - 1) % Len(key)) + 1])
    BY <1>3, MaskedType
  <2>3. Body(p) = Masked(r, key)
    BY <1>4, <1>5, <2>1
  <2>4. \A i \in 1 .. w - 6 : Body(p)[i] = Xor(p.store[6 + i], key[((i - 1) % Len(key)) + 1])
    BY <1>3, <2>2, <2>3
  <2> QED
    BY <1>3, <1>5, <2>1, <2>2, <2>3, <2>4
<1>6. CASE getMask(p) # 1
  BY <1>3, <1>4, <1>6
<1> QED
  BY <1>5, <1>6

\* The key is what stands before the body.
LEMMA KeyBytes ==
  ASSUME NEW p \in PacketType, Len(p.store) >= 6
  PROVE  /\ Len(getMaskKey(p)) = 2
         /\ getMaskKey(p)[1] = p.store[5] /\ getMaskKey(p)[2] = p.store[6]
<1>1. PICK s \in Seq(Byte) : s = p.store
  BY DEF PacketType
<1>2. PICK r : r = SubSeq(s, 5, 6)
  OBVIOUS
<1>3. Len(s) >= 6
  BY <1>1
<1>4. Len(r) = 2 /\ \A i \in 1 .. 2 : r[i] = s[5 + i - 1]
  BY <1>2, <1>3, SubSeqProperties
<1>5. r[1] = s[5] /\ r[2] = s[6]
  BY <1>4
<1> QED
  BY <1>1, <1>2, <1>4, <1>5 DEF getMaskKey, WS_MAX_HEAD_SIZE

\* Byte i of a masked body, masked again.
LEMMA Unmasks ==
  ASSUME NEW f \in Frame, f.key # <<>>, NEW i \in 1 .. Len(f.body), NEW key,
         Len(key) = 2, key[1] = f.key[1], key[2] = f.key[2]
  PROVE  Xor(Payload(f)[i], key[((i - 1) % 2) + 1]) = f.body[i]
<1>1. f.body \in Seq(Byte) /\ Len(f.key) = 2 /\ Len(f.body) \in Nat
  BY FrameFacts
<1>2. PICK m : m = ((i - 1) % 2) + 1
  OBVIOUS
<1>3. m = 1 \/ m = 2
  BY <1>1, <1>2
<1>4. Payload(f)[i] = Xor(f.body[i], f.key[m])
  <2>0. PICK s \in Seq(Byte) : s = f.body
    BY <1>1
  <2>1. PICK c : s = f.body /\ c = f.key
    BY <2>0
  <2>2. Masked(s, c)[i] = Xor(s[i], c[((i - 1) % Len(c)) + 1])
    BY <2>1, MaskedType
  <2>3. Payload(f) = Masked(s, c)
    BY <2>1 DEF Payload
  <2> QED
    BY <1>1, <1>2, <2>1, <2>2, <2>3
<1>5. key[m] = f.key[m]
  BY <1>3
<1>6. f.body[i] \in Byte
  BY <1>1, ElementOfSeq
<1> QED
  BY <1>2, <1>4, <1>5, <1>6, XorTwice

\* A packet that holds a whole frame has its body.
LEMMA BodyOf ==
  ASSUME NEW k, NEW f, NEW o, FrameAt(k, f, o), NEW u, NEW p \in PacketType, Holds(p, u, f, o),
         p.wpos = 6 + Len(f.body), Len(p.store) = p.wpos
  PROVE  Body(p) = f.body /\ p.head[1] = f.op
<1>1. f \in Frame /\ Len(f.body) <= ShortMax
  BY DEF FrameAt
<1>2. PICK y \in Nat : y = Len(f.body) /\ f.body \in Seq(Byte)
  BY <1>1, FrameFacts
<1>3. PICK w \in Nat : w = 6 + y /\ p.wpos = w /\ Len(p.store) = w /\ w >= 6
  BY <1>2
<1>4. p.head[1] = f.op /\ p.head[2] = Second(f)
  BY DEF Holds
<1>5. getMask(p) = 1 <=> f.key # <<>>
  BY <1>1, <1>4, HeadOf
<1>6. Body(p) \in Seq(Byte) /\ Len(Body(p)) = y
  BY <1>3, BodyBytes
<1>7. CASE f.key = <<>>
  <2>1. Len(f.key) = 0
    BY <1>1, <1>7, FrameFacts
  <2>2. ASSUME NEW i \in 1 .. y PROVE Body(p)[i] = f.body[i]
    <3>1. i \in 1 .. w - 6 /\ 6 + i \in 7 .. w
      BY <1>3
    <3>2. Body(p)[i] = p.store[6 + i]
      BY <1>3, <1>5, <1>7, <3>1, BodyBytes
    <3>3. \A x \in 7 .. w : p.store[x] = Encode(f)[x - 4 + 0]
      <4>1. \A x \in 7 - 0 .. w : p.store[x] = Encode(f)[x - 4 + 0]
        BY <1>3, <2>1 DEF Holds
      <4> QED
        BY <4>1
    <3>4. p.store[6 + i] = Encode(f)[2 + 0 + i]
      <4>1. 6 + i - 4 + 0 = 2 + 0 + i
        OBVIOUS
      <4> QED
        BY <3>1, <3>3, <4>1
    <3>5. Encode(f)[2 + 0 + i] = Payload(f)[i]
      BY <1>1, <1>2, <2>1, ShortEncode
    <3> QED
      BY <1>7, <3>2, <3>4, <3>5 DEF Payload
  <2> QED
    BY <1>2, <1>4, <1>6, <2>2, SeqEqual
<1>8. CASE f.key # <<>>
  <2>1. Len(f.key) = 2
    BY <1>1, <1>8, FrameFacts
  <2>2. \A x \in 5 .. w : p.store[x] = Encode(f)[x - 4 + 2]
    <3>1. \A x \in 7 - 2 .. w : p.store[x] = Encode(f)[x - 4 + 2]
      BY <1>3, <2>1 DEF Holds
    <3> QED
      BY <3>1
  <2>3. /\ Len(getMaskKey(p)) = 2 /\ getMaskKey(p)[1] = f.key[1] /\ getMaskKey(p)[2] = f.key[2]
    <3>1. p.store[5] = Encode(f)[2 + 1] /\ p.store[6] = Encode(f)[2 + 2]
      BY <1>3, <2>2
    <3>2. Encode(f)[2 + 1] = f.key[1] /\ Encode(f)[2 + 2] = f.key[2]
      <4>1. \A j \in 1 .. Len(f.key) : Encode(f)[2 + j] = f.key[j]
        BY <1>1, ShortEncode
      <4>2. 1 \in 1 .. Len(f.key) /\ 2 \in 1 .. Len(f.key)
        BY <2>1
      <4> QED
        BY <4>1, <4>2
    <3> QED
      BY <1>3, <3>1, <3>2, KeyBytes
  <2>4. ASSUME NEW i \in 1 .. y PROVE Body(p)[i] = f.body[i]
    <3>1. i \in 1 .. w - 6 /\ 6 + i \in 5 .. w
      BY <1>3
    <3>2. PICK key : key = getMaskKey(p)
      OBVIOUS
    <3>3. Body(p)[i] = Xor(p.store[6 + i], key[((i - 1) % 2) + 1])
      BY <1>3, <1>5, <1>8, <2>3, <3>1, <3>2, BodyBytes
    <3>4. p.store[6 + i] = Encode(f)[2 + 2 + i]
      <4>1. 6 + i - 4 + 2 = 2 + 2 + i
        OBVIOUS
      <4> QED
        BY <2>2, <3>1, <4>1
    <3>5. Encode(f)[2 + 2 + i] = Payload(f)[i]
      BY <1>1, <1>2, <2>1, ShortEncode
    <3>6. Xor(Payload(f)[i], key[((i - 1) % 2) + 1]) = f.body[i]
      BY <1>1, <1>2, <1>8, <2>3, <3>2, Unmasks
    <3> QED
      BY <3>3, <3>4, <3>5, <3>6
  <2> QED
    BY <1>2, <1>4, <1>6, <2>4, SeqEqual
<1> QED
  BY <1>7, <1>8

\* The frames among the first k that are messages, and their number.
KeptSet(k) == {i \in 1 .. k : ~IsClose(sent[i])}

\* The messages among the first k frames are finitely many.
LEMMA KeptNumber ==
  ASSUME NEW k \in Nat
  PROVE  IsFiniteSet(KeptSet(k)) /\ Kept(k) = Cardinality(KeptSet(k)) /\ Kept(k) \in Nat
<1>1. IsFiniteSet(1 .. k)
  BY FS_Interval
<1>2. KeptSet(k) \subseteq 1 .. k
  BY DEF KeptSet
<1>3. IsFiniteSet(KeptSet(k))
  BY <1>1, <1>2, FS_Subset
<1>4. Cardinality(KeptSet(k)) \in Nat
  BY <1>3, FS_CardinalityType
<1> QED
  BY <1>3, <1>4 DEF Kept, KeptSet

\* One frame more.
LEMMA KeptNext ==
  ASSUME NEW k \in Nat
  PROVE  /\ IsClose(sent[k + 1]) => Kept(k + 1) = Kept(k)
         /\ ~IsClose(sent[k + 1]) => Kept(k + 1) = Kept(k) + 1
<1>1. PICK m \in Nat : m = k + 1
  OBVIOUS
<1>2. Kept(m) = Cardinality(KeptSet(m)) /\ Kept(k) = Cardinality(KeptSet(k)) /\ IsFiniteSet(KeptSet(k))
  BY KeptNumber
<1>3. \A i : i \in 1 .. m <=> i \in 1 .. k \/ i = m
  BY <1>1
<1>4. CASE IsClose(sent[m])
  <2>1. KeptSet(m) = KeptSet(k)
    BY <1>3, <1>4 DEF KeptSet
  <2> QED
    BY <1>1, <1>2, <1>4, <2>1
<1>5. CASE ~IsClose(sent[m])
  <2>1. KeptSet(m) = KeptSet(k) \cup {m}
    BY <1>3, <1>5 DEF KeptSet
  <2>2. m \notin KeptSet(k)
    BY <1>1 DEF KeptSet
  <2>3. PICK S, T : S = KeptSet(k) /\ T = KeptSet(m)
    OBVIOUS
  <2>4. IsFiniteSet(S) /\ m \notin S /\ T = S \cup {m}
    BY <1>2, <2>1, <2>2, <2>3
  <2>5. Cardinality(S \cup {m}) = Cardinality(S) + 1
    BY <2>4, FS_AddElement
  <2> QED
    BY <1>1, <1>2, <1>5, <2>3, <2>4, <2>5
<1> QED
  BY <1>1, <1>4, <1>5

\* A message among the first k frames has its place.
LEMMA KeptPlace ==
  ASSUME NEW k \in Nat, NEW i \in 1 .. k, ~IsClose(sent[i])
  PROVE  Kept(i) \in 1 .. Kept(k)
<1>1. i \in Nat
  OBVIOUS
<1>2. PICK S, T : S = KeptSet(i) /\ T = KeptSet(k)
  OBVIOUS
<1>3. IsFiniteSet(S) /\ IsFiniteSet(T) /\ S \subseteq T /\ i \in S
  <2>1. S \subseteq T
    BY <1>2 DEF KeptSet
  <2>2. i \in S
    BY <1>2 DEF KeptSet
  <2> QED
    BY <1>1, <1>2, <2>1, <2>2, KeptNumber
<1>4. Cardinality(S) <= Cardinality(T)
  BY <1>3, FS_Subset
<1>5. Cardinality(S) # 0
  BY <1>3, FS_EmptySet
<1>6. PICK a \in Nat, b \in Nat : a = Cardinality(S) /\ b = Cardinality(T)
  BY <1>3, FS_CardinalityType
<1>7. Kept(i) = a /\ Kept(k) = b
  BY <1>1, <1>2, <1>6, KeptNumber
<1> QED
  BY <1>4, <1>5, <1>6, <1>7

\* The answer to a message is a frame of the protocol.
LEMMA AnswerFramed ==
  ASSUME NEW b \in Seq(Byte), Len(b) \in Byte
  PROVE  /\ writeFrameHead(Len(b)) \o b \in Seq(Byte)
         /\ Len(b) <= ShortMax =>
              writeFrameHead(Len(b)) \o b = Encode([op |-> 130, key |-> <<>>, body |-> b])
<1>1. PICK n \in Nat : n = Len(b) /\ n \in Byte
  OBVIOUS
<1>2. 130 \in Byte /\ 126 \in Byte /\ 127 \in Byte /\ 0 \in Byte
  BY DEF Byte
<1>3. PICK t : t = IF n <= ShortMax THEN <<n>> ELSE IF n = ShortMax + 1 THEN <<126, n>> ELSE <<127, n, 0>>
  OBVIOUS
<1>4. t \in Seq(Byte)
  <2>1. CASE n <= ShortMax
    <3>1. t = <<n>>
      BY <1>3, <2>1
    <3> QED
      BY <1>1, <3>1
  <2>2. CASE ~(n <= ShortMax) /\ n = ShortMax + 1
    <3>1. t = <<126, n>>
      BY <1>3, <2>2
    <3> QED
      BY <1>1, <1>2, <3>1
  <2>3. CASE ~(n <= ShortMax) /\ n # ShortMax + 1
    <3>1. t = <<127, n, 0>>
      BY <1>3, <2>3
    <3> QED
      BY <1>1, <1>2, <3>1
  <2> QED
    BY <2>1, <2>2, <2>3
<1>5. PICK c : c = <<130>> \o t
  OBVIOUS
<1>6. <<130>> \in Seq(Byte)
  BY <1>2
<1>7. c \in Seq(Byte)
  BY <1>4, <1>5, <1>6, ConcatProperties
<1>8. writeFrameHead(Len(b)) = c
  BY <1>1, <1>3, <1>5 DEF writeFrameHead
<1>9. c \o b \in Seq(Byte)
  BY <1>7, ConcatProperties
<1>10. ASSUME n <= ShortMax PROVE c \o b = Encode([op |-> 130, key |-> <<>>, body |-> b])
  <2>1. t = <<n>>
    BY <1>3, <1>10
  <2>2. c = <<130, n>>
    <3>1. PICK a \in Seq(Byte) : a = <<130>> /\ Len(a) = 1 /\ a[1] = 130
      BY <1>6
    <3>2. Len(t) = 1 /\ t[1] = n
      BY <2>1
    <3>3. c \in Seq(Byte) /\ Len(c) = Len(a) + Len(t) /\ Joins(a, t, c)
      <4>1. c = a \o t
        BY <1>5, <3>1
      <4> QED
        BY <1>4, <4>1, ConcatBytes, Zenon
    <3>4. Len(c) = 2 /\ c[1] = 130 /\ c[1 + 1] = n
      BY <3>1, <3>2, <3>3 DEF Joins
    <3>5. PICK d : d = <<130, n>>
      OBVIOUS
    <3>6. d \in Seq(Byte) /\ Len(d) = 2 /\ d[1] = 130 /\ d[2] = n
      BY <1>1, <1>2, <3>5
    <3>7. \A i \in 1 .. 2 : c[i] = d[i]
      BY <3>4, <3>6
    <3>8. c = d
      BY <1>7, <3>4, <3>6, <3>7, SeqEqual
    <3> QED
      BY <3>5, <3>8
  <2>3. PICK f : f = [op |-> 130, key |-> <<>>, body |-> b]
    OBVIOUS
  <2>4. f.op = 130 /\ f.key = <<>> /\ f.body = b
    BY <2>3
  <2>5. Form(n) = n /\ Extended(n) = <<>>
    BY <1>1, <1>10, FormType
  <2>6. Second(f) = n
    BY <1>1, <2>4, <2>5 DEF Second
  <2>7. Extended(Len(f.body)) = <<>> /\ Payload(f) = b
    BY <1>1, <2>4, <2>5 DEF Payload
  <2>8. Encode(f) = c \o <<>> \o <<>> \o b
    BY <2>2, <2>4, <2>6, <2>7 DEF Encode
  <2>9. c \o <<>> = c
    BY <1>7, ConcatEmptySeq
  <2> QED
    BY <2>3, <2>8, <2>9
<1> QED
  BY <1>1, <1>8, <1>9, <1>10

\* The frames of the client stay.
LEMMA KeptSame ==
  ASSUME sent' = sent
  PROVE  \A i : (Kept(i)' = Kept(i)) /\ (IsClose(sent[i])' <=> IsClose(sent[i]))
BY DEF Kept, IsClose

Message == [op : Byte, body : Seq(Byte)]

\* onMsg gets the next message.
LEMMA PassedMessage ==
  ASSUME NEW k \in Nat, Passed(k), sent' = sent, delivered \in Seq(Message), NEW m \in Message,
         delivered' = Append(delivered, m), ~IsClose(sent[k + 1]),
         m = [op |-> sent[k + 1].op, body |-> sent[k + 1].body]
  PROVE  Passed(k + 1)'
<1>1. PICK n \in Nat : n = Len(delivered) /\ n = Kept(k) /\ n + 1 = Kept(k + 1)
  BY KeptNumber, KeptNext DEF Passed
<1>2. /\ Len(delivered') = n + 1 /\ delivered'[n + 1] = m
      /\ \A i \in 1 .. n : delivered'[i] = delivered[i]
  <2>1. PICK d \in Seq(Message) : d = delivered
    OBVIOUS
  <2>2. PICK e : e = delivered'
    OBVIOUS
  <2>3. e = Append(d, m) /\ n = Len(d)
    BY <1>1, <2>1, <2>2
  <2>4. Len(e) = n + 1 /\ e[n + 1] = m /\ \A i \in 1 .. n : e[i] = d[i]
    BY <2>3, AppendProperties
  <2> QED
    BY <2>1, <2>2, <2>4
<1>3. ASSUME NEW i \in 1 .. k + 1, ~IsClose(sent[i])
      PROVE  delivered'[Kept(i)] = [op |-> sent[i].op, body |-> sent[i].body]
  <2>1. CASE i = k + 1
    BY <1>1, <1>2, <2>1
  <2>2. CASE i # k + 1
    <3>1. i \in 1 .. k
      BY <2>2
    <3>2. Kept(i) \in 1 .. n
      BY <1>1, <1>3, <3>1, KeptPlace
    <3>3. delivered[Kept(i)] = [op |-> sent[i].op, body |-> sent[i].body]
      BY <1>3, <3>1 DEF Passed
    <3> QED
      BY <1>2, <3>2, <3>3
  <2> QED
    BY <2>1, <2>2
<1>4. Len(delivered') = Kept(k + 1)'
  BY <1>1, <1>2, KeptSame
<1>5. (\A i \in 1 .. k + 1 :
         ~IsClose(sent[i]) => delivered[Kept(i)] = [op |-> sent[i].op, body |-> sent[i].body])'
  BY <1>3, KeptSame
<1> QED
  BY <1>4, <1>5 DEF Passed

\* A close frame is no message.
LEMMA PassedClose ==
  ASSUME NEW k \in Nat, Passed(k), sent' = sent, delivered' = delivered, IsClose(sent[k + 1])
  PROVE  Passed(k + 1)'
<1>1. Len(delivered) = Kept(k + 1)
  BY KeptNext DEF Passed
<1>2. ASSUME NEW i \in 1 .. k + 1, ~IsClose(sent[i])
      PROVE  delivered[Kept(i)] = [op |-> sent[i].op, body |-> sent[i].body]
  <2>1. i \in 1 .. k
    BY <1>2
  <2> QED
    BY <1>2, <2>1 DEF Passed
<1>3. Len(delivered') = Kept(k + 1)'
  BY <1>1, KeptSame
<1>4. (\A i \in 1 .. k + 1 :
         ~IsClose(sent[i]) => delivered[Kept(i)] = [op |-> sent[i].op, body |-> sent[i].body])'
  BY <1>2, KeptSame
<1> QED
  BY <1>3, <1>4 DEF Passed

\* What the answers are.
Answer(m) == Encode([op |-> 130, key |-> <<>>, body |-> m.body])
Answered(w, d) ==
  /\ Len(w) <= Len(d)
  /\ \A i \in 1 .. Len(w) : \E j \in i .. Len(d) : w[i] = Answer(d[j])

\* One message more, and an answer to it or none.
LEMMA AnswersMore ==
  ASSUME NEW w \in Seq(Seq(Byte)), NEW d \in Seq(Message), Answered(w, d), NEW m \in Message,
         NEW e, e = Append(d, m), NEW v, v = w \/ (v = Append(w, Answer(m)) /\ Answer(m) \in Seq(Byte))
  PROVE  Answered(v, e)
<1>1. PICK a \in Nat, n \in Nat : a = Len(w) /\ n = Len(d) /\ a <= n
  BY DEF Answered
<1>2. /\ Len(e) = n + 1 /\ e[n + 1] = m /\ \A j \in 1 .. n : e[j] = d[j]
  BY <1>1, AppendProperties
<1>3. ASSUME NEW i \in 1 .. a PROVE \E j \in i .. n + 1 : w[i] = Answer(e[j])
  <2>1. PICK j \in i .. n : w[i] = Answer(d[j])
    BY <1>1 DEF Answered
  <2>2. j \in 1 .. n /\ j \in i .. n + 1
    OBVIOUS
  <2>3. e[j] = d[j]
    BY <1>2, <2>2
  <2> QED
    BY <2>1, <2>2, <2>3
<1>4. CASE v = w
  <2>1. a <= n + 1 /\ Len(v) = a
    BY <1>1, <1>4
  <2> QED
    BY <1>2, <1>3, <1>4, <2>1 DEF Answered
<1>5. CASE v = Append(w, Answer(m)) /\ Answer(m) \in Seq(Byte)
  <2>0. PICK x \in Seq(Byte) : x = Answer(m)
    BY <1>5
  <2>1. /\ Len(v) = a + 1 /\ v[a + 1] = x /\ \A i \in 1 .. a : v[i] = w[i]
    BY <1>1, <1>5, <2>0, AppendProperties
  <2>2. ASSUME NEW i \in 1 .. a + 1 PROVE \E j \in i .. n + 1 : v[i] = Answer(e[j])
    <3>1. CASE i = a + 1
      <4>1. n + 1 \in i .. n + 1
        BY <1>1, <3>1
      <4>2. v[i] = Answer(e[n + 1])
        BY <1>2, <2>0, <2>1, <3>1
      <4> QED
        BY <4>1, <4>2
    <3>2. CASE i # a + 1
      <4>1. i \in 1 .. a
        BY <3>2
      <4>2. v[i] = w[i]
        BY <2>1, <4>1
      <4> QED
        BY <1>3, <4>1, <4>2
    <3> QED
      BY <3>1, <3>2
  <2>3. a + 1 <= n + 1
    BY <1>1
  <2> QED
    BY <1>2, <2>1, <2>2, <2>3 DEF Answered
<1> QED
  BY <1>4, <1>5

\* What a complete packet does: a close frame closes, any other goes to onMsg.
MessageOf(p) == [op |-> p.head[1], body |-> Body(p)]
Dispatched(p) ==
  \/ /\ p.head[1] % 16 = 8 /\ delivered' = delivered /\ written' = written
  \/ /\ p.head[1] % 16 # 8 /\ delivered' = Append(delivered, MessageOf(p))
     /\ written' = written \/ written' = Append(written, writeFrameHead(Len(Body(p))) \o Body(p))

\* A ping has no opcode of its own, so that every other frame goes to onMsg.
LEMMA DispatchFacts ==
  ASSUME TypeOK, NEW p \in PacketType, Len(p.head) = 2, dispatch(p)
  PROVE  Dispatched(p) /\ handle' \in {"open", "closing", "closed", "aborted"}
<1>1. p.head[1] \in Byte
  BY CalcHeadRange
<1>2. PICK b \in Byte : b = p.head[1]
  BY <1>1
<1>3. b % 16 # 137
  BY HeadByte
<1>4. getOpcode(p) = b % 16
  BY <1>2 DEF getOpcode
<1>5. handle \in {"open", "closing", "closed", "aborted"}
  BY DEF TypeOK
<1>6. CASE b % 16 = 8
  <2>1. handle' = Closed(handle) /\ delivered' = delivered /\ written' = written
    BY <1>4, <1>6 DEF dispatch, CLOSE_FRAME, PING_FRAME
  <2>2. Closed(handle) \in {"closing", "aborted"}
    BY DEF Closed
  <2> QED
    BY <1>2, <1>6, <2>1, <2>2 DEF Dispatched
<1>7. CASE b % 16 # 8
  <2>1. onMsg(p)
    BY <1>3, <1>4, <1>7 DEF dispatch, CLOSE_FRAME, PING_FRAME
  <2>2. delivered' = Append(delivered, MessageOf(p))
    BY <2>1 DEF onMsg, MessageOf
  <2>3. written' = written \/ written' = Append(written, writeFrameHead(Len(Body(p))) \o Body(p))
    BY <2>1 DEF onMsg
  <2>4. handle' \in {"open", "closing", "closed", "aborted"}
    BY <1>5, <2>1 DEF onMsg
  <2> QED
    BY <1>2, <1>7, <2>2, <2>3, <2>4 DEF Dispatched
<1> QED
  BY <1>6, <1>7

\* The types of what it leaves.
LEMMA DispatchTypes ==
  ASSUME TypeOK, NEW p \in PacketType, Len(p.head) = 2, NEW w \in Nat, w >= 6, p.wpos = w,
         Len(p.store) = w, w - 6 \in Byte, Dispatched(p)
  PROVE  /\ MessageOf(p) \in Message
         /\ delivered' \in Seq(Message) /\ written' \in Seq(Seq(Byte))
<1>1. p.head[1] \in Byte
  BY CalcHeadRange
<1>2. PICK b \in Seq(Byte) : b = Body(p) /\ Len(b) = w - 6
  BY BodyBytes
<1>3. MessageOf(p) \in Message
  BY <1>1, <1>2 DEF Message, MessageOf
<1>4. delivered \in Seq(Message) /\ written \in Seq(Seq(Byte))
  BY DEF TypeOK, Message
<1>5. Len(b) \in Byte
  BY <1>2
<1>6. writeFrameHead(Len(b)) \o b \in Seq(Byte)
  BY <1>5, AnswerFramed
<1>7. PICK x \in Seq(Byte) : x = writeFrameHead(Len(b)) \o b
  BY <1>6
<1>8. PICK m \in Message : m = MessageOf(p)
  BY <1>3
<1>9. delivered' = delivered \/ delivered' = Append(delivered, m)
  BY <1>8 DEF Dispatched
<1>10. written' = written \/ written' = Append(written, x)
  BY <1>2, <1>7 DEF Dispatched
<1>11. delivered' \in Seq(Message)
  <2>1. PICK d \in Seq(Message) : d = delivered
    BY <1>4
  <2>2. Append(d, m) \in Seq(Message)
    BY AppendProperties
  <2> QED
    BY <1>9, <2>1, <2>2
<1>12. written' \in Seq(Seq(Byte))
  <2>1. PICK c \in Seq(Seq(Byte)) : c = written
    BY <1>4
  <2>2. Append(c, x) \in Seq(Seq(Byte))
    BY AppendProperties
  <2> QED
    BY <1>10, <2>1, <2>2
<1> QED
  BY <1>3, <1>11, <1>12

\* The answers after it.
LEMMA DispatchAnswers ==
  ASSUME TypeOK, NEW p \in PacketType, Len(p.head) = 2, NEW w \in Nat, w >= 6, p.wpos = w,
         Len(p.store) = w, w - 6 \in Byte, w - 6 <= ShortMax, Dispatched(p), Answered(written, delivered)
  PROVE  Answered(written', delivered')
<1>1. CASE delivered' = delivered /\ written' = written
  BY <1>1
<1>2. CASE /\ delivered' = Append(delivered, MessageOf(p))
           /\ written' = written \/ written' = Append(written, writeFrameHead(Len(Body(p))) \o Body(p))
  <2>1. PICK m \in Message : m = MessageOf(p)
    BY DispatchTypes
  <2>2. PICK b \in Seq(Byte) : b = Body(p) /\ Len(b) = w - 6
    BY BodyBytes
  <2>3. m.body = b
    BY <2>1, <2>2 DEF MessageOf
  <2>4. Len(b) \in Byte /\ Len(b) <= ShortMax
    BY <2>2
  <2>5. Answer(m) = writeFrameHead(Len(b)) \o b /\ writeFrameHead(Len(b)) \o b \in Seq(Byte)
    BY <2>3, <2>4, AnswerFramed DEF Answer
  <2>6. PICK a \in Seq(Byte) : a = Answer(m) /\ a = writeFrameHead(Len(b)) \o b
    BY <2>5
  <2>7. PICK v, e : v = written' /\ e = delivered'
    OBVIOUS
  <2>8. PICK c \in Seq(Seq(Byte)), d \in Seq(Message) : c = written /\ d = delivered
    BY DEF TypeOK, Message
  <2>9. e = Append(d, m) /\ (v = c \/ v = Append(c, a)) /\ Answered(c, d)
    BY <1>2, <2>1, <2>2, <2>6, <2>7, <2>8
  <2>10. Answered(v, e)
    BY <2>6, <2>9, AnswersMore
  <2> QED
    BY <2>7, <2>10
<1> QED
  BY <1>1, <1>2 DEF Dispatched

\* A frame is complete.
LEMMA FrameDone ==
  ASSUME WsInv, InLoop, UNCHANGED <<peerVars, rd, clean, refused, isHandshake, onCloses>>,
         NEW n \in Nat, n <= ActiveSize, used' = used + n,
         NEW p \in PacketType, Len(p.head) = 2, NEW w \in Nat, w >= 6, p.wpos = w, Len(p.store) = w,
         w - 6 \in Byte, dispatch(p), readPacket' = NoPacket,
         \A k \in 0 .. Len(sent) : clean /\ Short /\ PacketOK(readPacket, used, k) =>
           /\ k < Len(sent) /\ Holds(p, used + n, sent[k + 1], off[k + 1])
           /\ w = 6 + Len(sent[k + 1].body)
  PROVE  WsInv'
<1>1. UNCHANGED <<bytes, sent, off>> /\ UNCHANGED <<rd, clean, refused, isHandshake, onCloses>>
  BY DEF peerVars
<1>2. used' \in 0 .. rd
  BY LoopFacts
<1>3. Dispatched(p) /\ handle' \in {"open", "closing", "closed", "aborted"}
  BY DispatchFacts DEF WsInv
<1>4. delivered' \in Seq(Message) /\ written' \in Seq(Seq(Byte)) /\ MessageOf(p) \in Message
  BY <1>3, DispatchTypes DEF WsInv
<1>5. TypeOK /\ isHandshake
  BY LoopFacts DEF WsInv
<1>6. NoPacket \in PacketType /\ PacketShape(NoPacket) /\ Len(NoPacket.head) = 0
  <2>1. 0 \in Byte
    BY DEF Byte
  <2>2. <<0, 0, 0, 0, 0, 0>> \in Seq(Byte) /\ Len(<<0, 0, 0, 0, 0, 0>>) = 6
    BY <2>1
  <2>3. NoPacket.wpos = 0 /\ Len(NoPacket.head) = 0 /\ NoPacket \in PacketType
    BY <2>2 DEF NoPacket, PacketType
  <2>4. ~isHeadFull(NoPacket) /\ NoPacket.store = <<0, 0, 0, 0, 0, 0>>
    BY <2>3 DEF isHeadFull, WS_MAX_HEAD_SIZE, NoPacket
  <2> QED
    BY <2>2, <2>3, <2>4 DEF PacketShape, WS_HEAD_SIZE, WS_MAX_HEAD_SIZE
<1>7. PacketShape(readPacket)'
  BY <1>6
<1>8. TypeOK'
  <2>1. PICK q : q = readPacket' /\ q = NoPacket
    OBVIOUS
  <2>2. q \in PacketType /\ Len(q.head) <= WS_HEAD_SIZE
    BY <1>6, <2>1 DEF WS_HEAD_SIZE
  <2>3. isHeadFull(q) => q.wpos = Len(q.store)
    BY <1>6, <2>1 DEF PacketShape
  <2> QED
    BY <1>1, <1>2, <1>3, <1>4, <1>5, <2>1, <2>2, <2>3 DEF TypeOK, Message
<1>9. StreamOK'
  BY <1>1 DEF WsInv, StreamOK, Ends
<1>10. HandshakeOK'
  BY <1>1, <1>5 DEF HandshakeOK
<1>11. Short' <=> Short
  BY <1>1 DEF Short
<1>12. ASSUME clean, Short
       PROVE  /\ (\E k \in 0 .. Len(sent) : Passed(k) /\ PacketOK(readPacket, used, k))'
              /\ Answered(written', delivered')
  <2>1. PICK k \in 0 .. Len(sent) : Passed(k) /\ PacketOK(readPacket, used, k)
    BY <1>12 DEF WsInv, FramesOK
  <2>2. /\ k < Len(sent) /\ Holds(p, used + n, sent[k + 1], off[k + 1])
        /\ w = 6 + Len(sent[k + 1].body)
    BY <1>12, <2>1
  <2>3. PICK f, o : f = sent[k + 1] /\ o = off[k + 1]
    OBVIOUS
  <2>4. FrameAt(k, f, o)
    BY <1>12, <2>2, <2>3, FrameCells
  <2>5. f \in Frame /\ Len(f.body) <= ShortMax /\ o \in Nat
    BY <2>4 DEF FrameAt
  <2>6. PICK y \in Nat : y = Len(f.body) /\ w = 6 + y /\ w - 6 <= ShortMax
    <3>1. PICK y \in Nat : y = Len(f.body)
      BY <2>5, FrameFacts
    <3>2. w = 6 + y
      BY <2>2, <2>3, <3>1
    <3>3. w - 6 = y
      BY <3>2
    <3> QED
      BY <2>5, <3>1, <3>2, <3>3
  <2>7. Holds(p, used + n, f, o) /\ p.wpos = 6 + Len(f.body) /\ Len(p.store) = p.wpos
    BY <2>2, <2>3, <2>6
  <2>8. Body(p) = f.body /\ p.head[1] = f.op
    BY <2>4, <2>7, BodyOf
  <2>9. Answered(written, delivered)
    BY <1>12 DEF WsInv, AnswersFramed, Answered, Answer
  <2>10. Answered(written', delivered')
    BY <1>3, <1>5, <2>6, <2>9, DispatchAnswers
  <2>11. k \in Nat /\ k + 1 \in 0 .. Len(sent)
    BY <1>5, <2>2 DEF TypeOK
  <2>12. used + n = Ends(k + 1)
    <3>1. PICK x \in Nat : x = Len(f.key)
      BY <2>5, FrameFacts
    <3>2. used + n = o + w - 4 + x
      BY <2>7, <3>1 DEF Holds
    <3>3. Ends(k + 1) = o + 2 + x + y
      BY <2>4, <2>6, <3>1 DEF FrameAt
    <3>4. PICK a \in Nat : a = o
      BY <2>5
    <3>5. a + (6 + y) - 4 + x = a + 2 + x + y
      OBVIOUS
    <3> QED
      BY <2>6, <3>2, <3>3, <3>4, <3>5
  <2>13. PacketOK(readPacket, used, k + 1)'
    <3>1. Ends(k + 1)' = Ends(k + 1)
      BY <1>1 DEF Ends
    <3>2. used' = Ends(k + 1)'
      BY <2>12, <3>1
    <3>3. Len(readPacket'.head) = 0
      BY <1>6
    <3> QED
      BY <3>2, <3>3 DEF PacketOK
  <2>14. IsClose(sent[k + 1]) <=> p.head[1] % 16 = 8
    BY <2>3, <2>8 DEF IsClose, CLOSE_FRAME
  <2>15. Passed(k + 1)'
    <3>1. CASE p.head[1] % 16 = 8
      <4>1. delivered' = delivered
        BY <1>3, <3>1 DEF Dispatched
      <4> QED
        BY <1>1, <2>1, <2>11, <2>14, <3>1, <4>1, PassedClose
    <3>2. CASE p.head[1] % 16 # 8
      <4>1. PICK m \in Message : m = MessageOf(p) /\ delivered' = Append(delivered, m)
        BY <1>3, <1>4, <3>2 DEF Dispatched
      <4>2. m = [op |-> sent[k + 1].op, body |-> sent[k + 1].body]
        BY <2>3, <2>8, <4>1 DEF MessageOf
      <4>3. delivered \in Seq(Message) /\ sent' = sent /\ ~IsClose(sent[k + 1])
        BY <1>1, <1>5, <2>14, <3>2 DEF TypeOK, Message
      <4> QED
        BY <2>1, <2>11, <4>1, <4>2, <4>3, PassedMessage
    <3> QED
      BY <3>1, <3>2
  <2> QED
    BY <1>1, <2>10, <2>11, <2>13, <2>15
<1>13. FramesOK'
  BY <1>1, <1>11, <1>12 DEF FramesOK
<1>14. AnswersFramed'
  BY <1>1, <1>11, <1>12 DEF AnswersFramed, Answered, Answer
<1> QED
  BY <1>7, <1>8, <1>9, <1>10, <1>13, <1>14 DEF WsInv

\* One turn with a full head.
LEMMA ReadBodyStep ==
  ASSUME WsInv, readBody
  PROVE  WsInv'
<1>0. /\ InLoop /\ isHeadFull(readPacket) /\ PacketShape(readPacket)
      /\ UNCHANGED <<peerVars, rd, clean, refused, isHandshake, onCloses>>
  BY DEF readBody, WsInv
<1>1. PICK w \in Nat : w = readPacket.wpos /\ w >= 6 /\ Len(readPacket.store) = w
  BY <1>0, LoopFacts DEF PacketShape, isHeadFull, WS_MAX_HEAD_SIZE
<1>2. Len(readPacket.head) = 2
  <2>1. PICK l \in 0 .. 2 : l = Len(readPacket.head)
    BY <1>0, LoopFacts
  <2>2. l < 2 => w = l
    BY <1>0, <1>1, <2>1 DEF PacketShape, WS_HEAD_SIZE
  <2>3. l = 2
    BY <1>1, <2>2
  <2> QED
    BY <2>1, <2>3
<1>3. PICK m \in Nat : m = getMarkLen(readPacket) /\ m \in Byte
  <2>1. readPacket \in PacketType /\ Len(readPacket.store) >= 6
    BY <1>0, <1>1, LoopFacts
  <2> QED
    BY <1>2, <2>1, MarkLenRange
<1>4. PICK n \in Nat : \E p :
        /\ p = BodyPacket(n)
        /\ n <= m + 6 - w /\ n <= ActiveSize /\ used' = used + n
        /\ p \in PacketType /\ p.head = readPacket.head /\ p.wpos = w + n
        /\ Len(p.store) = w + n
        /\ \A x \in 1 .. w : p.store[x] = readPacket.store[x]
        /\ \A j \in 1 .. n : p.store[w + j] = bytes[used + j]
        /\ \/ n = m + 6 - w /\ dispatch(p) /\ readPacket' = NoPacket
           \/ n # m + 6 - w /\ readPacket' = p /\ UNCHANGED <<delivered, written, handle>>
  BY <1>1, <1>3, BodyFacts
<1>40. PICK p :
        /\ p = BodyPacket(n)
        /\ n <= m + 6 - w /\ n <= ActiveSize /\ used' = used + n
        /\ p \in PacketType /\ p.head = readPacket.head /\ p.wpos = w + n
        /\ Len(p.store) = w + n
        /\ \A x \in 1 .. w : p.store[x] = readPacket.store[x]
        /\ \A j \in 1 .. n : p.store[w + j] = bytes[used + j]
        /\ \/ n = m + 6 - w /\ dispatch(p) /\ readPacket' = NoPacket
           \/ n # m + 6 - w /\ readPacket' = p /\ UNCHANGED <<delivered, written, handle>>
  BY <1>4
<1>5. Len(p.head) = 2
  BY <1>2, <1>40
<1>6. ASSUME NEW k \in 0 .. Len(sent), clean, Short, PacketOK(readPacket, used, k)
      PROVE  /\ k < Len(sent) /\ Holds(p, used + n, sent[k + 1], off[k + 1])
             /\ m = Len(sent[k + 1].body)
  <2>1. PICK u \in Nat : u = used
    BY <1>0, LoopFacts
  <2>2. PICK f, o : f = sent[k + 1] /\ o = off[k + 1]
    OBVIOUS
  <2>3. k < Len(sent) /\ Holds(readPacket, u, f, o)
    BY <1>2, <1>6, <2>1, <2>2 DEF PacketOK
  <2>4. FrameAt(k, f, o)
    BY <1>6, <2>2, <2>3, FrameCells
  <2>5. m = Len(f.body)
    <3>1. f \in Frame /\ Len(f.body) <= ShortMax /\ readPacket.head[2] = Second(f)
      BY <2>3, <2>4 DEF FrameAt, Holds
    <3> QED
      BY <1>3, <3>1, HeadOf
  <2>6. Fits(readPacket, n, f)
    <3>1. w + n <= 6 + m
      BY <1>40
    <3> QED
      BY <1>1, <2>5, <3>1 DEF Fits
  <2>7. Takes(readPacket, p, u, n)
    BY <1>1, <1>40, <2>1 DEF Takes
  <2>8. Holds(p, u + n, f, o)
    BY <2>3, <2>4, <2>6, <2>7, HoldsMore
  <2> QED
    BY <2>1, <2>2, <2>3, <2>5, <2>8
<1>7. CASE n # m + 6 - w /\ readPacket' = p /\ UNCHANGED <<delivered, written, handle>>
  <2>1. getMarkLen(p) = m
    <3>1. 3 \in 1 .. w
      BY <1>1
    <3>2. p.store[3] = readPacket.store[3]
      BY <1>40, <3>1
    <3> QED
      BY <1>3, <1>40, <3>2 DEF getMarkLen, getPayloadLen, WS_HEAD_SIZE
  <2>2. PICK v \in Nat : v = w + n /\ v >= 6 /\ v <= 6 + m
    BY <1>1, <1>40
  <2>3. p.wpos = v /\ Len(p.store) = v /\ p \in PacketType
    BY <1>40, <2>2
  <2>4. isHeadFull(p)
    BY <2>2, <2>3 DEF isHeadFull, WS_MAX_HEAD_SIZE
  <2>5. PacketShape(p)
    BY <1>5, <2>1, <2>2, <2>3, <2>4 DEF PacketShape, WS_HEAD_SIZE, WS_MAX_HEAD_SIZE
  <2>6. ASSUME NEW k \in 0 .. Len(sent), clean, Short, PacketOK(readPacket, used, k)
        PROVE  PacketOK(readPacket', used', k)
    <3>1. k < Len(sent) /\ Holds(p, used + n, sent[k + 1], off[k + 1])
      BY <1>6, <2>6
    <3>2. PacketOK(p, used + n, k)
      BY <1>5, <3>1 DEF PacketOK
    <3> QED
      BY <1>40, <1>7, <3>2
  <2>7. n <= ActiveSize /\ used' = used + n /\ PacketShape(readPacket')
    BY <1>40, <1>7, <2>5
  <2> QED
    BY <1>0, <1>7, <2>6, <2>7, LoopQuiet
<1>8. CASE n = m + 6 - w /\ dispatch(p) /\ readPacket' = NoPacket
  <2>1. PICK v \in Nat : v = w + n /\ v = m + 6
    BY <1>1, <1>8
  <2>2. v >= 6 /\ v - 6 = m
    BY <2>1
  <2>3. v - 6 \in Byte
    BY <1>3, <2>2
  <2>4. p.wpos = v /\ Len(p.store) = v /\ p \in PacketType
    BY <1>40, <2>1
  <2>5. \A k \in 0 .. Len(sent) : clean /\ Short /\ PacketOK(readPacket, used, k) =>
           /\ k < Len(sent) /\ Holds(p, used + n, sent[k + 1], off[k + 1])
           /\ v = 6 + Len(sent[k + 1].body)
    <3>1. v = 6 + m
      BY <2>1
    <3> QED
      BY <1>6, <3>1
  <2>6. n <= ActiveSize /\ used' = used + n
    BY <1>40
  <2> QED
    BY <1>0, <1>5, <1>8, <2>2, <2>3, <2>4, <2>5, <2>6, FrameDone
<1> QED
  BY <1>40, <1>7, <1>8

-----------------------------------------------------------------------------
(***************************************************************************)
(* The other steps                                                         *)
(***************************************************************************)

\* The client sends a frame.
LEMMA SendStream ==
  ASSUME WsInv, NEW f \in Frame, sendFrame(f)
  PROVE  /\ bytes' \in Seq(Byte) /\ sent' \in Seq(Frame) /\ off' \in Seq(Nat)
         /\ Len(bytes) \in Nat /\ Len(bytes') = Len(bytes) + Len(Encode(f))
         /\ Len(sent) \in Nat /\ Len(sent') = Len(sent) + 1 /\ Len(off') = Len(sent) + 1
         /\ sent'[Len(sent) + 1] = f /\ off'[Len(sent) + 1] = Len(bytes)
         /\ \A i \in 1 .. Len(sent) : sent'[i] = sent[i] /\ off'[i] = off[i]
         /\ Joins(bytes, Encode(f), bytes')
<1>1. PICK b \in Seq(Byte), s \in Seq(Frame), a \in Seq(Nat) :
        b = bytes /\ s = sent /\ a = off /\ Len(a) = Len(s)
  BY DEF WsInv, TypeOK, StreamOK
<1>2. PICK e \in Seq(Byte) : e = Encode(f)
  BY EncodeType
<1>3. PICK c, t, d : c = bytes' /\ t = sent' /\ d = off'
  OBVIOUS
<1>4. c = b \o e
  BY <1>1, <1>2, <1>3 DEF sendFrame
<1>5. c \in Seq(Byte) /\ Len(c) = Len(b) + Len(e) /\ Len(b) \in Nat /\ Len(e) \in Nat /\ Joins(b, e, c)
  BY <1>4, ConcatBytes, Zenon
<1>6. PICK l \in Nat, n \in Nat : l = Len(b) /\ n = Len(s) /\ n = Len(a)
  BY <1>1, <1>5
<1>7. t = Append(s, f) /\ d = Append(a, l)
  BY <1>1, <1>3, <1>6 DEF sendFrame
<1>8. t \in Seq(Frame) /\ Len(t) = n + 1 /\ t[n + 1] = f /\ \A i \in 1 .. n : t[i] = s[i]
  <2>1. t = Append(s, f) /\ Len(s) = n
    BY <1>6, <1>7
  <2>2. t \in Seq(Frame) /\ Len(t) = Len(s) + 1 /\ t[Len(s) + 1] = f /\ \A i \in 1 .. Len(s) : t[i] = s[i]
    BY <2>1, AppendProperties
  <2> QED
    BY <2>1, <2>2
<1>9. d \in Seq(Nat) /\ Len(d) = n + 1 /\ d[n + 1] = l /\ \A i \in 1 .. n : d[i] = a[i]
  BY <1>6, <1>7, AppendProperties
<1>10. /\ bytes' \in Seq(Byte) /\ Len(bytes) \in Nat /\ Len(bytes') = Len(bytes) + Len(Encode(f))
       /\ Joins(bytes, Encode(f), bytes')
  BY <1>1, <1>2, <1>3, <1>5
<1>11. Len(sent) = n /\ Len(bytes) = l
  BY <1>1, <1>6
<1>12. /\ sent' \in Seq(Frame) /\ Len(sent') = n + 1 /\ sent'[n + 1] = f
       /\ \A i \in 1 .. n : sent'[i] = sent[i]
  BY <1>1, <1>3, <1>8
<1>13. /\ off' \in Seq(Nat) /\ Len(off') = n + 1 /\ off'[n + 1] = l
       /\ \A i \in 1 .. n : off'[i] = off[i]
  BY <1>1, <1>3, <1>9
<1> QED
  BY <1>10, <1>11, <1>12, <1>13

\* What it sends is one frame more for the loop, and nothing that was there changes.
LEMMA SendStep ==
  ASSUME WsInv, NEW f \in Frame, sendFrame(f)
  PROVE  WsInv'
<1>1. PICK n \in Nat, l \in Nat, a \in Nat : n = Len(sent) /\ l = Len(bytes) /\ a = Len(Encode(f))
  BY SendStream, EncodeType
<1>2. /\ bytes' \in Seq(Byte) /\ sent' \in Seq(Frame) /\ off' \in Seq(Nat)
      /\ Len(bytes') = l + a /\ Len(sent') = n + 1 /\ Len(off') = n + 1
      /\ sent'[n + 1] = f /\ off'[n + 1] = l
      /\ \A i \in 1 .. n : sent'[i] = sent[i] /\ off'[i] = off[i]
  BY <1>1, SendStream
<1>3. (\A x \in 1 .. l : bytes'[x] = bytes[x]) /\ \A j \in 1 .. a : bytes'[l + j] = Encode(f)[j]
  BY <1>1, SendStream DEF Joins
<1>4. UNCHANGED <<rd, used, clean, refused, isHandshake, readPacket, delivered, written, handle, onCloses>>
  BY DEF sendFrame
<1>5. TypeOK /\ StreamOK /\ HandshakeOK /\ FramesOK /\ AnswersFramed /\ PacketShape(readPacket)
  BY DEF WsInv
<1>6. TypeOK'
  <2>1. rd \in 0 .. l + a /\ used \in 0 .. rd
    <3>1. rd \in 0 .. l /\ used \in 0 .. rd
      BY <1>1, <1>5 DEF TypeOK
    <3> QED
      BY <3>1
  <2>2. rd' \in 0 .. Len(bytes') /\ used' \in 0 .. rd'
    BY <1>2, <1>4, <2>1
  <2>3. isHeadFull(readPacket)' <=> isHeadFull(readPacket)
    BY <1>4 DEF isHeadFull
  <2> QED
    BY <1>2, <1>4, <1>5, <2>2, <2>3 DEF TypeOK
<1>7. \A i \in 0 .. n : Ends(i)' = Ends(i)
  <2> SUFFICES ASSUME NEW i \in 0 .. n PROVE Ends(i)' = Ends(i)
    OBVIOUS
  <2>1. i < n + 1
    OBVIOUS
  <2>2. Ends(i)' = off'[i + 1]
    BY <1>2, <2>1 DEF Ends
  <2>3. CASE i < n
    <3>1. i + 1 \in 1 .. n
      BY <2>3
    <3>2. off'[i + 1] = off[i + 1]
      BY <1>2, <3>1
    <3>3. Ends(i) = off[i + 1]
      BY <1>1, <2>3 DEF Ends
    <3> QED
      BY <2>2, <3>2, <3>3
  <2>4. CASE i = n
    <3>1. Ends(i) = l
      BY <1>1, <2>4 DEF Ends
    <3>2. off'[i + 1] = l
      BY <1>2, <2>4
    <3> QED
      BY <2>2, <3>1, <3>2
  <2> QED
    BY <2>3, <2>4
<1>8. Ends(n + 1)' = l + a
  BY <1>2 DEF Ends
<1>9. ASSUME NEW i \in 1 .. n + 1
       PROVE  /\ Ends(i)' = off'[i] + Len(Encode(sent'[i])) /\ Ends(i)' <= l + a
              /\ \A j \in 1 .. Len(Encode(sent'[i])) : bytes'[off'[i] + j] = Encode(sent'[i])[j]
  <2>1. CASE i = n + 1
    <3>1. sent'[i] = f /\ off'[i] = l
      BY <1>2, <2>1
    <3>2. Ends(i)' = l + a
      BY <1>8, <2>1
    <3>3. PICK g : g = Encode(f)
      OBVIOUS
    <3>4. Encode(sent'[i]) = g /\ Len(g) = a
      BY <1>1, <3>1, <3>3
    <3>5. \A j \in 1 .. a : bytes'[l + j] = g[j]
      BY <1>3, <3>3
    <3> QED
      BY <3>1, <3>2, <3>4, <3>5
  <2>2. CASE i # n + 1
    <3>1. i \in 1 .. n /\ i \in 0 .. n
      BY <2>2
    <3>2. sent'[i] = sent[i] /\ off'[i] = off[i] /\ Ends(i)' = Ends(i)
      BY <1>2, <1>7, <3>1
    <3>3. /\ Ends(i) = off[i] + Len(Encode(sent[i])) /\ Ends(i) <= l
          /\ \A j \in 1 .. Len(Encode(sent[i])) : bytes[off[i] + j] = Encode(sent[i])[j]
      BY <1>1, <1>5, <3>1 DEF StreamOK
    <3>4. sent[i] \in Frame /\ off[i] \in Nat
      <4>1. sent \in Seq(Frame) /\ off \in Seq(Nat) /\ Len(off) = n
        BY <1>1, <1>5 DEF TypeOK, StreamOK
      <4> QED
        BY <1>1, <3>1, <4>1, ElementOfSeq
    <3>5. PICK o \in Nat, e \in Nat, z \in Nat :
            o = off[i] /\ e = Len(Encode(sent[i])) /\ z = Ends(i) /\ z = o + e /\ z <= l
      <4>1. Len(Encode(sent[i])) \in Nat
        BY <3>4, EncodeType
      <4>2. PICK o \in Nat, e \in Nat : o = off[i] /\ e = Len(Encode(sent[i]))
        BY <3>4, <4>1
      <4>3. Ends(i) = o + e
        BY <3>3, <4>2
      <4> QED
        BY <3>3, <4>2, <4>3
    <3>6. \A j \in 1 .. e : o + j \in 1 .. l
      BY <3>5
    <3>7. \A j \in 1 .. e : bytes'[o + j] = bytes[o + j]
      BY <1>3, <3>6
    <3>8. \A j \in 1 .. e : bytes[o + j] = Encode(sent[i])[j]
      BY <3>3, <3>5
    <3>9. z <= l + a
      BY <3>5
    <3> QED
      BY <3>2, <3>5, <3>7, <3>8, <3>9
  <2> QED
    BY <2>1, <2>2
<1>10. StreamOK'
  <2>1. Ends(0)' = Len(Request)
    <3>1. 0 \in 0 .. n
      OBVIOUS
    <3> QED
      BY <1>5, <1>7, <3>1 DEF StreamOK
  <2>2. Len(off') = Len(sent')
    BY <1>2
  <2> QED
    BY <1>2, <1>9, <2>1, <2>2 DEF StreamOK
<1>11. HandshakeOK'
  BY <1>4, <1>5 DEF HandshakeOK
<1>12. Short' => Short
  <2>1. \A i \in 1 .. n : i \in 1 .. n + 1 /\ sent'[i] = sent[i]
    BY <1>2
  <2> QED
    BY <1>1, <1>2, <2>1 DEF Short
<1>13. ASSUME NEW k \in 0 .. n, Passed(k), PacketOK(readPacket, used, k)
       PROVE  (Passed(k) /\ PacketOK(readPacket, used, k))'
  <2>1. \A i \in 1 .. k : sent'[i] = sent[i] /\ i \in 0 .. k
    <3>1. \A i \in 1 .. k : i \in 1 .. n /\ i \in 0 .. k
      BY <1>13
    <3> QED
      BY <1>2, <3>1
  <2>2. ASSUME NEW i \in 0 .. k PROVE Kept(i)' = Kept(i)
    <3>1. \A j \in 1 .. i : sent'[j] = sent[j]
      BY <2>1
    <3>2. {j \in 1 .. i : ~IsClose(sent'[j])} = {j \in 1 .. i : ~IsClose(sent[j])}
      BY <3>1
    <3> QED
      BY <3>2 DEF Kept, IsClose
  <2>3. Len(delivered') = Kept(k)'
    <3>1. k \in 0 .. k
      OBVIOUS
    <3> QED
      BY <1>4, <1>13, <2>2, <3>1 DEF Passed
  <2>4. ASSUME NEW i \in 1 .. k, ~IsClose(sent'[i])
        PROVE  delivered'[Kept(i)'] = [op |-> sent'[i].op, body |-> sent'[i].body]
    <3>1. sent'[i] = sent[i] /\ Kept(i)' = Kept(i)
      BY <2>1, <2>2
    <3>2. delivered[Kept(i)] = [op |-> sent[i].op, body |-> sent[i].body]
      BY <1>13, <2>4, <3>1 DEF Passed
    <3> QED
      BY <1>4, <3>1, <3>2
  <2>5. Passed(k)'
    BY <2>3, <2>4 DEF Passed, IsClose
  <2>6. Ends(k)' = Ends(k)
    BY <1>7
  <2>7. k < n => sent'[k + 1] = sent[k + 1] /\ off'[k + 1] = off[k + 1] /\ k < n + 1
    <3>1. k < n => k + 1 \in 1 .. n
      OBVIOUS
    <3> QED
      BY <1>2, <3>1
  <2>8. PacketOK(readPacket, used, k)'
    BY <1>1, <1>2, <1>4, <1>13, <2>6, <2>7 DEF PacketOK, Holds
  <2> QED
    BY <2>5, <2>8
<1>14. FramesOK'
  <2> SUFFICES ASSUME clean', Short'
               PROVE  (\E k \in 0 .. Len(sent) : Passed(k) /\ PacketOK(readPacket, used, k))'
    BY DEF FramesOK
  <2>1. PICK k \in 0 .. n : Passed(k) /\ PacketOK(readPacket, used, k)
    BY <1>1, <1>4, <1>5, <1>12 DEF FramesOK
  <2>2. k \in 0 .. n + 1
    OBVIOUS
  <2> QED
    BY <1>2, <1>13, <2>1, <2>2
<1>15. AnswersFramed'
  BY <1>4, <1>5, <1>12 DEF AnswersFramed
<1>16. PacketShape(readPacket)'
  BY <1>4, <1>5
<1> QED
  BY <1>6, <1>10, <1>11, <1>14, <1>15, <1>16 DEF WsInv

\* A step that leaves the frames alone.
LEMMA OutsideStep ==
  ASSUME WsInv, isHandshake \/ rd' = rd, rd' \in 0 .. Len(bytes), used \in 0 .. rd',
         handle' \in {"open", "closing", "closed", "aborted"}, onCloses' \in 0 .. 2,
         UNCHANGED <<peerVars, used, clean, refused, isHandshake, readPacket, delivered, written>>
  PROVE  WsInv'
<1>1. UNCHANGED <<bytes, sent, off>>
      /\ UNCHANGED <<used, clean, refused, isHandshake, readPacket, delivered, written>>
  BY DEF peerVars
<1>2. TypeOK'
  BY <1>1 DEF WsInv, TypeOK, isHeadFull
<1>3. StreamOK'
  BY <1>1 DEF WsInv, StreamOK, Ends
<1>4. HandshakeOK'
  BY <1>1 DEF WsInv, HandshakeOK
<1>5. (Short' <=> Short) /\ \A k : Passed(k)' <=> Passed(k)
  BY <1>1 DEF Short, Passed, Kept, IsClose
<1>6. \A k : PacketOK(readPacket, used, k)' <=> PacketOK(readPacket, used, k)
  BY <1>1 DEF PacketOK, Holds, Ends
<1>7. FramesOK'
  BY <1>1, <1>5, <1>6 DEF WsInv, FramesOK
<1>8. AnswersFramed'
  BY <1>1, <1>5 DEF WsInv, AnswersFramed
<1>9. PacketShape(readPacket)'
  BY <1>1 DEF WsInv
<1> QED
  BY <1>2, <1>3, <1>4, <1>7, <1>8, <1>9 DEF WsInv

\* The first read.
LEMMA HandshakeStep ==
  ASSUME WsInv, NEW n \in 1 .. MESSAGE_BUFFER_SIZE, handshake(n)
  PROVE  WsInv'
<1>1. /\ UNCHANGED <<bytes, sent, off>> /\ UNCHANGED <<readPacket, delivered, written>>
      /\ ~isHandshake /\ rd + n <= Len(bytes) /\ rd' = rd + n /\ used' = rd + n
  BY DEF handshake, peerVars
<1>2. PICK l \in Nat, r \in Nat, m \in Nat : l = Len(bytes) /\ r = rd /\ m = n
  BY WebSocketAssumption DEF WsInv, TypeOK
<1>3. rd' \in 0 .. Len(bytes) /\ used' \in 0 .. rd' /\ used' = rd'
  <2>1. r + m \in 0 .. l
    BY <1>1, <1>2
  <2> QED
    BY <1>1, <1>2, <2>1
<1>4. readPacket = NoPacket /\ ~clean /\ delivered = <<>> /\ written = <<>>
  BY <1>1 DEF WsInv, HandshakeOK
<1>5. \/ /\ isHandshake' = TRUE /\ clean' = (rd = 0 /\ n = Len(Request))
         /\ UNCHANGED <<refused, handle, onCloses>>
      \/ /\ refused' = TRUE /\ onCloses' = Least(onCloses + 1, 2) /\ handle' \in {"open", "closing"}
         /\ UNCHANGED <<isHandshake, clean>>
  BY DEF handshake
<1>6. {clean, refused, isHandshake}' \subseteq BOOLEAN
  <2>1. (rd = 0 /\ n = Len(Request)) \in BOOLEAN
    OBVIOUS
  <2>2. clean \in BOOLEAN /\ refused \in BOOLEAN /\ isHandshake \in BOOLEAN
    BY DEF WsInv, TypeOK
  <2>3. clean' \in BOOLEAN /\ refused' \in BOOLEAN /\ isHandshake' \in BOOLEAN
    BY <1>5, <2>1, <2>2
  <2> QED
    BY <2>3
<1>7. onCloses' \in 0 .. 2 /\ handle' \in {"open", "closing", "closed", "aborted"}
  BY <1>5 DEF WsInv, TypeOK, Least
<1>8. TypeOK'
  BY <1>1, <1>3, <1>6, <1>7 DEF WsInv, TypeOK, isHeadFull
<1>9. StreamOK'
  BY <1>1 DEF WsInv, StreamOK, Ends
<1>10. HandshakeOK'
  BY <1>1, <1>3, <1>4, <1>5 DEF HandshakeOK
<1>11. FramesOK'
  <2> SUFFICES ASSUME clean', Short'
               PROVE  (\E k \in 0 .. Len(sent) : Passed(k) /\ PacketOK(readPacket, used, k))'
    BY DEF FramesOK
  <2>1. used' = Len(Request)
    <3>1. rd = 0 /\ n = Len(Request)
      BY <1>4, <1>5
    <3>2. r + m = m
      BY <1>2, <3>1
    <3> QED
      BY <1>1, <1>2, <3>1, <3>2
  <2>2. Ends(0)' = Len(Request)
    BY <1>9 DEF StreamOK
  <2>3. Len(NoPacket.head) = 0
    BY DEF NoPacket
  <2>4. PacketOK(readPacket, used, 0)'
    <3>1. used' = Ends(0)'
      BY <2>1, <2>2
    <3>2. Len(readPacket'.head) = 0
      BY <1>1, <1>4, <2>3
    <3> QED
      BY <3>1, <3>2 DEF PacketOK
  <2>5. Kept(0) = 0
    <3>1. {i \in 1 .. 0 : ~IsClose(sent[i])} = {}
      OBVIOUS
    <3> QED
      BY <3>1, FS_EmptySet DEF Kept
  <2>6. Passed(0)'
    <3>1. Kept(0)' = 0
      BY <1>1, <2>5, KeptSame
    <3>2. Len(delivered') = 0
      BY <1>1, <1>4
    <3> QED
      BY <3>1, <3>2 DEF Passed
  <2>7. 0 \in 0 .. Len(sent')
    BY <1>1 DEF WsInv, TypeOK
  <2> QED
    BY <2>4, <2>6, <2>7
<1>12. AnswersFramed'
  <2>1. Len(written') = 0 /\ Len(delivered') = 0
    BY <1>1, <1>4
  <2> QED
    BY <2>1 DEF AnswersFramed
<1>13. PacketShape(readPacket)'
  BY <1>1 DEF WsInv
<1> QED
  BY <1>8, <1>9, <1>10, <1>11, <1>12, <1>13 DEF WsInv

\* The invariant at the start.
LEMMA WsInit ==
  ASSUME Init
  PROVE  WsInv
<1>1. /\ bytes = Request /\ sent = <<>> /\ off = <<>> /\ rd = 0 /\ used = 0 /\ clean = FALSE
      /\ refused = FALSE /\ isHandshake = FALSE /\ readPacket = NoPacket
      /\ delivered = <<>> /\ written = <<>> /\ handle = "open" /\ onCloses = 0
  BY DEF Init
<1>2. Request \in Seq(Byte) /\ Len(Request) = 5
  <2>1. 71 \in Byte /\ 72 \in Byte /\ 83 \in Byte /\ 79 \in Byte /\ 13 \in Byte
    BY DEF Byte
  <2> QED
    BY <2>1 DEF Request, GetLine, HostLine, KeyLine
<1>3. NoPacket \in PacketType /\ PacketShape(NoPacket) /\ Len(NoPacket.head) = 0 /\ ~isHeadFull(NoPacket)
  <2>1. 0 \in Byte
    BY DEF Byte
  <2>2. <<0, 0, 0, 0, 0, 0>> \in Seq(Byte) /\ Len(<<0, 0, 0, 0, 0, 0>>) = 6
    BY <2>1
  <2>3. NoPacket.wpos = 0 /\ Len(NoPacket.head) = 0 /\ NoPacket \in PacketType
    BY <2>2 DEF NoPacket, PacketType
  <2>4. ~isHeadFull(NoPacket) /\ NoPacket.store = <<0, 0, 0, 0, 0, 0>>
    BY <2>3 DEF isHeadFull, WS_MAX_HEAD_SIZE, NoPacket
  <2> QED
    BY <2>2, <2>3, <2>4 DEF PacketShape, WS_HEAD_SIZE, WS_MAX_HEAD_SIZE
<1>4. TypeOK
  <2>1. bytes \in Seq(Byte) /\ sent \in Seq(Frame) /\ off \in Seq(Nat)
    BY <1>1, <1>2
  <2>2. rd \in 0 .. Len(bytes) /\ used \in 0 .. rd /\ onCloses \in 0 .. 2
    BY <1>1, <1>2
  <2>3. readPacket \in PacketType /\ Len(readPacket.head) <= WS_HEAD_SIZE
    BY <1>1, <1>3 DEF WS_HEAD_SIZE
  <2>4. isHeadFull(readPacket) => readPacket.wpos = Len(readPacket.store)
    BY <1>1, <1>3
  <2>5. delivered \in Seq([op : Byte, body : Seq(Byte)]) /\ written \in Seq(Seq(Byte))
    BY <1>1
  <2>6. {clean, refused, isHandshake} \subseteq BOOLEAN /\ handle \in {"open", "closing", "closed", "aborted"}
    BY <1>1
  <2> QED
    BY <2>1, <2>2, <2>3, <2>4, <2>5, <2>6 DEF TypeOK
<1>5. StreamOK
  <2>1. Len(sent) = 0 /\ Len(off) = 0 /\ Ends(0) = Len(Request)
    BY <1>1 DEF Ends
  <2> QED
    BY <2>1 DEF StreamOK
<1>6. HandshakeOK /\ FramesOK
  BY <1>1 DEF HandshakeOK, FramesOK
<1>7. AnswersFramed
  BY <1>1 DEF AnswersFramed
<1> QED
  BY <1>1, <1>3, <1>4, <1>5, <1>6, <1>7 DEF WsInv

\* Every step.
LEMMA WsNext ==
  ASSUME WsInv, [Next]_vars
  PROVE  WsInv'
<1>1. rd \in 0 .. Len(bytes) /\ used \in 0 .. rd /\ bytes \in Seq(Byte) /\ onCloses \in 0 .. 2
  BY DEF WsInv, TypeOK
<1>2. PICK l \in Nat, r \in Nat, u \in Nat :
        l = Len(bytes) /\ r = rd /\ u = used /\ r <= l /\ u <= r
  BY <1>1
<1>3. CASE UNCHANGED vars
  <2>1. UNCHANGED peerVars /\ UNCHANGED <<rd, used, clean, refused, isHandshake, readPacket, delivered,
                                          written, handle, onCloses>>
    BY <1>3 DEF vars, peerVars
  <2>2. handle \in {"open", "closing", "closed", "aborted"}
    BY DEF WsInv, TypeOK
  <2> QED
    BY <1>1, <2>1, <2>2, OutsideStep
<1>4. ASSUME NEW f \in Frame, sendFrame(f) PROVE WsInv'
  BY <1>4, SendStep
<1>5. ASSUME NEW n \in 1 .. MESSAGE_BUFFER_SIZE, handshake(n) PROVE WsInv'
  BY <1>5, HandshakeStep
<1>6. ASSUME NEW n \in 1 .. MESSAGE_BUFFER_SIZE, echo_read(n) PROVE WsInv'
  <2>1. PICK m \in Nat : m = n
    BY WebSocketAssumption
  <2>2. /\ UNCHANGED <<peerVars, used, clean, refused, isHandshake, readPacket, delivered, written>>
        /\ UNCHANGED <<handle, onCloses>> /\ isHandshake /\ rd + n <= Len(bytes) /\ rd' = rd + n
    BY <1>6 DEF echo_read
  <2>3. r + m \in 0 .. l /\ u \in 0 .. r + m
    BY <1>2, <2>1, <2>2
  <2>4. rd' \in 0 .. Len(bytes) /\ used \in 0 .. rd'
    BY <1>2, <2>1, <2>2, <2>3
  <2>5. handle' \in {"open", "closing", "closed", "aborted"} /\ onCloses' \in 0 .. 2
    BY <1>1, <2>2 DEF WsInv, TypeOK
  <2> QED
    BY <2>2, <2>4, <2>5, OutsideStep
<1>7. CASE on_msgbuffer
  BY <1>7, ReadFirstStep, ReadRestStep, ReadBodyStep DEF on_msgbuffer
<1>8. CASE close \/ on_clsesocket
  <2>1. /\ UNCHANGED <<peerVars, used, clean, refused, isHandshake, readPacket, delivered, written>>
        /\ rd' = rd
    BY <1>8 DEF close, on_clsesocket
  <2>2. handle' \in {"closing", "closed"}
    BY <1>8 DEF close, on_clsesocket
  <2>3. onCloses' \in 0 .. 2
    BY <1>1, <1>8 DEF close, on_clsesocket, Least
  <2> QED
    BY <1>1, <2>1, <2>2, <2>3, OutsideStep
<1> QED
  BY <1>3, <1>4, <1>5, <1>6, <1>7, <1>8 DEF Next, read

\* After a handshake that came alone in one read, on_msgbuffer passes the frames of
\* the client that have no extended length to onMsg, unmasked, in order and once
\* each, wherever a read cuts the stream: within a head, a key or a body, or behind
\* several frames; and the answers that sendMsg writes are frames of the protocol.
THEOREM FramesAreSafe == Spec => []FramesSafe
<1>1. Init => WsInv
  BY WsInit
<1>2. WsInv /\ [Next]_vars => WsInv'
  BY WsNext
<1>3. WsInv => FramesSafe
  BY DEF WsInv, FramesSafe, MessagesInOrder, InOrder, FramesOK
<1> QED
  BY <1>1, <1>2, <1>3, PTL DEF Spec

-----------------------------------------------------------------------------
(***************************************************************************)
(* The end of a connection                                                 *)
(***************************************************************************)

\* The steps of the loop and of onMsg never close a handle for good: closing is
\* the last state they can bring about.
LEMMA LoopHandle ==
  ASSUME NEW p, dispatch(p), handle \in {"open", "closing"}
  PROVE  handle' \in {"open", "closing", "aborted"}
BY DEF dispatch, onMsg, Closed

\* onClose comes once, last and with nothing left to read, whatever the client
\* sends, however it is cut into reads and whenever either side closes
\* (WebSocketConnect::on_clsesocket after on_msgbuffer has returned).
THEOREM OnCloseIsLast == Spec => []OnCloseLast
<1> DEFINE CloseInv == OnCloseLast /\ handle \in {"open", "closing", "closed", "aborted"}
<1>1. Init => CloseInv
  BY DEF Init, OnCloseLast, ActiveSize
<1>2. CloseInv /\ [Next]_vars => CloseInv'
  <2> SUFFICES ASSUME CloseInv, [Next]_vars PROVE CloseInv'
    OBVIOUS
  <2>1. ASSUME NEW f \in Frame, sendFrame(f) PROVE CloseInv'
    BY <2>1 DEF sendFrame, OnCloseLast, ActiveSize
  <2>2. ASSUME NEW n \in 1 .. MESSAGE_BUFFER_SIZE, handshake(n) PROVE CloseInv'
    <3>1. handle = "open"
      BY <2>2 DEF handshake
    <3>2. CASE UNCHANGED <<refused, handle, onCloses>>
      BY <3>1, <3>2 DEF OnCloseLast
    <3>3. CASE refused' = TRUE /\ handle' \in {"open", "closing"}
      BY <3>3 DEF OnCloseLast
    <3> QED
      BY <2>2, <3>2, <3>3 DEF handshake
  <2>3. ASSUME NEW n \in 1 .. MESSAGE_BUFFER_SIZE, echo_read(n) PROVE CloseInv'
    BY <2>3 DEF echo_read, OnCloseLast
  <2>4. CASE on_msgbuffer
    <3>1. InLoop
      BY <2>4 DEF on_msgbuffer, readFirst, readRest, readBody
    <3>2. handle \in {"open", "closing"}
      BY <3>1 DEF InLoop, OnCloseLast
    <3>3. UNCHANGED <<refused, onCloses>>
      BY <2>4 DEF on_msgbuffer, readFirst, readRest, readBody
    <3>4. handle' \in {"open", "closing", "aborted"}
      <4>1. CASE readFirst \/ readRest
        BY <4>1, <3>2 DEF readFirst, readRest
      <4>2. CASE readBody
        BY <4>2, <3>2, LoopHandle DEF readBody
      <4> QED
        BY <2>4, <4>1, <4>2 DEF on_msgbuffer
    <3> QED
      BY <3>2, <3>3, <3>4 DEF OnCloseLast
  <2>5. CASE close
    BY <2>5 DEF close, OnCloseLast
  <2>6. CASE on_clsesocket
    <3>1. handle = "closing" /\ handle' = "closed" /\ refused' = refused /\ ActiveSize = 0
          /\ rd' = rd /\ used' = used /\ onCloses' = Least(onCloses + 1, 2)
      BY <2>6 DEF on_clsesocket
    <3>2. ~refused => onCloses' = 1
      BY <3>1 DEF OnCloseLast, Least
    <3> QED
      BY <3>1, <3>2 DEF OnCloseLast, ActiveSize
  <2>7. CASE UNCHANGED vars
    BY <2>7 DEF vars, OnCloseLast, ActiveSize
  <2> QED
    BY <2>1, <2>2, <2>3, <2>4, <2>5, <2>6, <2>7 DEF Next, read
<1>3. CloseInv => OnCloseLast
  OBVIOUS
<1> QED
  BY <1>1, <1>2, <1>3, PTL DEF Spec

=============================================================================
