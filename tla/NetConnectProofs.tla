-------------------------- MODULE NetConnectProofs --------------------------
(***************************************************************************)
(* Proofs about NetConnect, for every set of types and bodies, every size  *)
(* of the receive buffer and every number of messages.                     *)
(***************************************************************************)
EXTENDS NetConnect, TLAPS, SequenceTheorems

-----------------------------------------------------------------------------
(***************************************************************************)
(* Facts about frames                                                      *)
(***************************************************************************)

\* The cells of a frame.
LEMMA FrameCells ==
  ASSUME NEW m \in Message
  PROVE  /\ Frame(m) \in Seq(Nat)
         /\ m.body \in Seq(Nat)
         /\ Len(Frame(m)) = MSG_HEAD_SIZE + Len(m.body)
         /\ Frame(m)[1] = Len(m.body)
         /\ Frame(m)[2] = m.type
         /\ \A i \in 1 .. Len(m.body) : Frame(m)[MSG_HEAD_SIZE + i] = m.body[i]
<1>1. m.body \in Seq(Nat) /\ m.type \in Nat
  BY NetConnectAssumption DEF Message
<1>2. <<Len(m.body), m.type>> \in Seq(Nat) /\ Len(<<Len(m.body), m.type>>) = 2
  BY <1>1
<1> QED
  BY <1>1, <1>2, ConcatProperties DEF Frame, MSG_HEAD_SIZE

\* The cells of a concatenation.
LEMMA ConcatCells ==
  ASSUME NEW a \in Seq(Nat), NEW c \in Seq(Nat), NEW q, q = a \o c
  PROVE  /\ q \in Seq(Nat) /\ Len(q) = Len(a) + Len(c)
         /\ \A i \in 1 .. Len(a) : q[i] = a[i]
         /\ \A i \in 1 .. Len(c) : q[Len(a) + i] = c[i]
OBVIOUS

\* A packet with exactly the cells of a frame decodes to its message.
LEMMA ContentOfFrame ==
  ASSUME NEW m \in Message, NEW p \in Seq(Nat), Len(p) = Len(Frame(m)),
         \A i \in 1 .. Len(p) : p[i] = Frame(m)[i]
  PROVE  Content(p) = m
<1>1. /\ m.body \in Seq(Nat)
      /\ Len(p) = MSG_HEAD_SIZE + Len(m.body)
      /\ p[2] = m.type
      /\ \A i \in 1 .. Len(m.body) : p[MSG_HEAD_SIZE + i] = m.body[i]
  <2>1. /\ m.body \in Seq(Nat)
        /\ Len(Frame(m)) = MSG_HEAD_SIZE + Len(m.body)
        /\ Frame(m)[2] = m.type
        /\ \A i \in 1 .. Len(m.body) : Frame(m)[MSG_HEAD_SIZE + i] = m.body[i]
    BY FrameCells
  <2>2. /\ Len(m.body) \in Nat
        /\ 2 \in 1 .. Len(p)
        /\ \A i \in 1 .. Len(m.body) : MSG_HEAD_SIZE + i \in 1 .. Len(p)
    <3>1. Len(m.body) \in Nat /\ Len(p) = 2 + Len(m.body)
      BY <2>1 DEF MSG_HEAD_SIZE
    <3> QED
      BY <3>1 DEF MSG_HEAD_SIZE
  <2> QED
    BY <2>1, <2>2
<1>2. SubSeq(p, MSG_HEAD_SIZE + 1, Len(p)) = m.body
  <2> DEFINE b == SubSeq(p, MSG_HEAD_SIZE + 1, Len(p))
  <2>1. /\ b \in Seq(Nat)
        /\ Len(b) = Len(m.body)
        /\ \A i \in 1 .. Len(m.body) : b[i] = p[MSG_HEAD_SIZE + i]
    BY <1>1 DEF MSG_HEAD_SIZE
  <2> HIDE DEF b
  <2>2. \A i \in 1 .. Len(m.body) : b[i] = m.body[i]
    BY <1>1, <2>1
  <2>3. b = m.body
    BY <1>1, <2>1, <2>2, SeqEqual
  <2> QED
    BY <2>3 DEF b
<1>3. Content(p) = [type |-> m.type, body |-> m.body]
  BY <1>1, <1>2 DEF Content, getMsgType
<1> QED
  BY <1>3 DEF Message

-----------------------------------------------------------------------------
(***************************************************************************)
(* The inductive invariant                                                 *)
(*                                                                         *)
(* DeliveredInOrder needs to know where the reader is in the stream: that  *)
(* the stream is the frames of sent, one after the other (StreamShape),    *)
(* and that mReadPacket holds the first cells of the next of them          *)
(* (PacketShape).                                                          *)
(***************************************************************************)

\* The position after message k, and after the first d messages, of a stream
\* with messages s at the positions o.
EndAt(s, o, k) == o[k] + MSG_HEAD_SIZE + Len(s[k].body)
Boundary(s, o, d) == IF d = 0 THEN 0 ELSE EndAt(s, o, d)

StreamShape(b, s, o) ==
  /\ Len(o) = Len(s)
  /\ Len(b) = Boundary(s, o, Len(s))
  /\ \A k \in 1 .. Len(s) :
       /\ o[k] = Boundary(s, o, k - 1)
       /\ EndAt(s, o, k) <= Len(b)
       /\ \A i \in 1 .. Len(Frame(s[k])) : b[o[k] + i] = Frame(s[k])[i]
  /\ \A j, k \in 1 .. Len(s) : j < k => EndAt(s, o, j) <= o[k]

\* d messages are delivered, u cells are read, and p is the packet.
PacketShape(s, o, d, u, p) ==
  /\ u = Boundary(s, o, d) + Len(p)
  /\ p # <<>> =>
       /\ d < Len(s)
       /\ Len(p) <= Len(Frame(s[d + 1]))
       /\ Len(p) = Len(Frame(s[d + 1])) => s[d + 1].body = <<>>
       /\ \A i \in 1 .. Len(p) : p[i] = Frame(s[d + 1])[i]

IInv ==
  /\ TypeOK
  /\ StreamShape(bytes, sent, off)
  /\ used <= rd /\ rd <= Len(bytes)
  /\ DeliveredInOrder
  /\ handle # "closed" => PacketShape(sent, off, Len(delivered), used, mReadPacket)
  /\ handle = "closed" => used = rd

\* Positions are numbers, and a frame ends where it should.
LEMMA Positions ==
  ASSUME NEW s \in Seq(Message), NEW o \in Seq(Nat), Len(o) = Len(s),
         NEW k \in 1 .. Len(s)
  PROVE  /\ s[k] \in Message /\ o[k] \in Nat
         /\ Len(Frame(s[k])) \in Nat /\ Len(s[k].body) \in Nat
         /\ Len(Frame(s[k])) = MSG_HEAD_SIZE + Len(s[k].body)
         /\ EndAt(s, o, k) = o[k] + Len(Frame(s[k]))
         /\ EndAt(s, o, k) \in Nat
<1>1. s[k] \in Message /\ o[k] \in Nat
  OBVIOUS
<1>2. /\ Frame(s[k]) \in Seq(Nat) /\ s[k].body \in Seq(Nat)
      /\ Len(Frame(s[k])) = MSG_HEAD_SIZE + Len(s[k].body)
  BY <1>1, FrameCells
<1>3. Len(Frame(s[k])) \in Nat /\ Len(s[k].body) \in Nat
  BY <1>2
<1>4. EndAt(s, o, k) = o[k] + Len(Frame(s[k]))
  <2>1. \A x, y, z \in Nat : y = MSG_HEAD_SIZE + z => x + MSG_HEAD_SIZE + z = x + y
    BY DEF MSG_HEAD_SIZE
  <2> QED
    BY <1>1, <1>2, <1>3, <2>1 DEF EndAt
<1>5. o[k] + Len(Frame(s[k])) \in Nat
  BY <1>1, <1>3
<1> QED
  BY <1>1, <1>2, <1>3, <1>4, <1>5

\* The cells of the next frame, from the boundary before it.
LEMMA NextFrame ==
  ASSUME NEW b \in Seq(Nat), NEW s \in Seq(Message), NEW o \in Seq(Nat),
         StreamShape(b, s, o), NEW d \in Nat, d < Len(s)
  PROVE  /\ Boundary(s, o, d) \in Nat
         /\ o[d + 1] = Boundary(s, o, d)
         /\ Boundary(s, o, d + 1) = Boundary(s, o, d) + Len(Frame(s[d + 1]))
         /\ Boundary(s, o, d + 1) <= Len(b)
         /\ \A i \in 1 .. Len(Frame(s[d + 1])) :
              b[Boundary(s, o, d) + i] = Frame(s[d + 1])[i]
<1>1. d + 1 \in 1 .. Len(s) /\ (d + 1) - 1 = d /\ d + 1 # 0 /\ Len(o) = Len(s)
  BY DEF StreamShape
<1>2. /\ o[d + 1] = Boundary(s, o, (d + 1) - 1)
      /\ EndAt(s, o, d + 1) <= Len(b)
      /\ \A i \in 1 .. Len(Frame(s[d + 1])) : b[o[d + 1] + i] = Frame(s[d + 1])[i]
  BY <1>1 DEF StreamShape
<1>3. o[d + 1] \in Nat /\ EndAt(s, o, d + 1) = o[d + 1] + Len(Frame(s[d + 1]))
  BY <1>1, Positions
<1>4. o[d + 1] = Boundary(s, o, d)
  BY <1>1, <1>2
<1>5. Boundary(s, o, d + 1) = EndAt(s, o, d + 1)
  BY <1>1 DEF Boundary
<1> QED
  BY <1>2, <1>3, <1>4, <1>5

\* A message more at the end of the stream.
LEMMA ShapeAppend ==
  ASSUME NEW b \in Seq(Nat), NEW s \in Seq(Message), NEW o \in Seq(Nat),
         StreamShape(b, s, o), NEW m \in Message
  PROVE  /\ StreamShape(b \o Frame(m), Append(s, m), Append(o, Len(b)))
         /\ \A d \in 0 .. Len(s) :
              Boundary(Append(s, m), Append(o, Len(b)), d) = Boundary(s, o, d)
<1> DEFINE n == Len(s)
           b1 == b \o Frame(m)
           s1 == Append(s, m)
           o1 == Append(o, Len(b))
<1>1. n \in Nat /\ Len(b) \in Nat /\ Len(o) = n /\ Len(b) = Boundary(s, o, n)
  BY DEF StreamShape
<1>2. /\ s1 \in Seq(Message) /\ Len(s1) = n + 1 /\ s1[n + 1] = m
      /\ \A k \in 1 .. n : s1[k] = s[k]
  BY AppendProperties
<1>3. /\ o1 \in Seq(Nat) /\ Len(o1) = n + 1 /\ o1[n + 1] = Len(b)
      /\ \A k \in 1 .. n : o1[k] = o[k]
  BY <1>1, AppendProperties
<1>4. Frame(m) \in Seq(Nat) /\ Len(Frame(m)) \in Nat
  BY FrameCells
<1>5. /\ b1 \in Seq(Nat) /\ Len(b1) = Len(b) + Len(Frame(m))
      /\ \A i \in 1 .. Len(b) : b1[i] = b[i]
      /\ \A i \in 1 .. Len(Frame(m)) : b1[Len(b) + i] = Frame(m)[i]
  BY <1>4, ConcatCells DEF b1
<1> HIDE DEF s1, o1, b1, n
<1>6. \A k \in 1 .. n : EndAt(s1, o1, k) = EndAt(s, o, k)
  BY <1>2, <1>3 DEF EndAt
<1>7. EndAt(s1, o1, n + 1) = Len(b1)
  <2>1. n + 1 \in 1 .. Len(s1) /\ Len(o1) = Len(s1)
    BY <1>1, <1>2, <1>3
  <2>2. EndAt(s1, o1, n + 1) = o1[n + 1] + Len(Frame(s1[n + 1]))
    BY <1>2, <1>3, <2>1, Positions
  <2> QED
    BY <1>2, <1>3, <1>5, <2>2
<1>8. \A d \in 0 .. n : Boundary(s1, o1, d) = Boundary(s, o, d)
  BY <1>1, <1>6 DEF Boundary
<1>9. ASSUME NEW k \in 1 .. Len(s1)
      PROVE  /\ o1[k] = Boundary(s1, o1, k - 1)
             /\ EndAt(s1, o1, k) <= Len(b1)
             /\ \A i \in 1 .. Len(Frame(s1[k])) : b1[o1[k] + i] = Frame(s1[k])[i]
  <2>1. CASE k \in 1 .. n
    <3>1. /\ o[k] = Boundary(s, o, k - 1) /\ EndAt(s, o, k) <= Len(b)
          /\ \A i \in 1 .. Len(Frame(s[k])) : b[o[k] + i] = Frame(s[k])[i]
      BY <2>1 DEF StreamShape, n
    <3>2. /\ o[k] \in Nat /\ Len(Frame(s[k])) \in Nat
          /\ EndAt(s, o, k) = o[k] + Len(Frame(s[k]))
      BY <1>1, <2>1, Positions DEF n
    <3>3. k - 1 \in 0 .. n /\ o1[k] = o[k] /\ s1[k] = s[k]
      BY <1>1, <1>2, <1>3, <2>1
    <3>4. \A i \in 1 .. Len(Frame(s[k])) : o[k] + i \in 1 .. Len(b)
      <4>1. \A x, y, z \in Nat : x + y <= z => \A i \in 1 .. y : x + i \in 1 .. z
        OBVIOUS
      <4>2. o[k] + Len(Frame(s[k])) <= Len(b)
        BY <3>1, <3>2
      <4> QED
        BY <1>1, <3>2, <4>1, <4>2
    <3>5. EndAt(s, o, k) <= Len(b1)
      BY <1>1, <1>4, <1>5, <3>1, <3>2
    <3> QED
      BY <1>5, <1>6, <1>8, <2>1, <3>1, <3>3, <3>4, <3>5
  <2>2. CASE k = n + 1
    <3>1. n \in 0 .. n /\ (n + 1) - 1 = n
      BY <1>1
    <3>2. Boundary(s1, o1, k - 1) = Len(b)
      BY <1>1, <1>8, <2>2, <3>1
    <3>3. EndAt(s1, o1, k) <= Len(b1)
      BY <1>1, <1>4, <1>5, <1>7, <2>2
    <3> QED
      BY <1>2, <1>3, <1>5, <2>2, <3>2, <3>3
  <2> QED
    BY <1>1, <1>2, <2>1, <2>2
<1>10. ASSUME NEW j \in 1 .. Len(s1), NEW k \in 1 .. Len(s1), j < k
       PROVE  EndAt(s1, o1, j) <= o1[k]
  <2>1. j \in 1 .. n /\ (k \in 1 .. n \/ k = n + 1)
    BY <1>1, <1>2, <1>10
  <2>2. EndAt(s, o, j) <= Len(b) /\ (k \in 1 .. n => EndAt(s, o, j) <= o[k])
    BY <1>10, <2>1 DEF StreamShape, n
  <2> QED
    BY <1>3, <1>6, <2>1, <2>2
<1>11. Len(b1) = Boundary(s1, o1, Len(s1))
  BY <1>1, <1>2, <1>7 DEF Boundary
<1>12. StreamShape(b1, s1, o1)
  BY <1>2, <1>3, <1>9, <1>10, <1>11 DEF StreamShape
<1> QED
  BY <1>8, <1>12 DEF b1, s1, o1, n

\* A message sent leaves the packet being read where it is.
LEMMA PacketAppend ==
  ASSUME NEW b \in Seq(Nat), NEW s \in Seq(Message), NEW o \in Seq(Nat),
         StreamShape(b, s, o), NEW m \in Message,
         NEW d \in 0 .. Len(s), NEW u \in Nat, NEW p \in Seq(Nat),
         PacketShape(s, o, d, u, p)
  PROVE  PacketShape(Append(s, m), Append(o, Len(b)), d, u, p)
<1> DEFINE s1 == Append(s, m)
           o1 == Append(o, Len(b))
<1>1. Boundary(s1, o1, d) = Boundary(s, o, d)
  BY ShapeAppend
<1>2. Len(s1) = Len(s) + 1 /\ \A k \in 1 .. Len(s) : s1[k] = s[k]
  BY AppendProperties
<1> HIDE DEF s1, o1
<1>3. CASE p = <<>>
  BY <1>1, <1>3 DEF PacketShape, s1, o1
<1>4. CASE p # <<>>
  <2>1. d < Len(s)
    BY <1>4 DEF PacketShape
  <2>2. Len(s) \in Nat /\ d < Len(s1) /\ d + 1 \in 1 .. Len(s)
    BY <1>2, <2>1
  <2>3. s1[d + 1] = s[d + 1]
    BY <1>2, <2>2
  <2> QED
    BY <1>1, <1>4, <2>2, <2>3 DEF PacketShape, s1, o1
<1> QED
  BY <1>3, <1>4

\* While cells are left, they belong to the next frame.
LEMMA MoreToRead ==
  ASSUME NEW b \in Seq(Nat), NEW s \in Seq(Message), NEW o \in Seq(Nat),
         StreamShape(b, s, o), NEW d \in 0 .. Len(s), NEW u \in Nat,
         NEW p \in Seq(Nat), PacketShape(s, o, d, u, p), u < Len(b)
  PROVE  d < Len(s)
<1>1. CASE p # <<>>
  BY <1>1 DEF PacketShape
<1>2. CASE p = <<>> /\ d = Len(s)
  <2>1. Len(p) = 0 /\ Len(b) \in Nat
    BY <1>2
  <2>2. u = Len(b) + 0
    BY <1>2, <2>1 DEF PacketShape, StreamShape
  <2> QED
    BY <2>1, <2>2
<1> QED
  BY <1>1, <1>2

\* The cells of a piece of the stream.
LEMMA SliceCells ==
  ASSUME NEW b \in Seq(Nat), NEW u \in Nat, NEW n \in Nat, u + n <= Len(b)
  PROVE  /\ SubSeq(b, u + 1, u + n) \in Seq(Nat)
         /\ Len(SubSeq(b, u + 1, u + n)) = n
         /\ \A i \in 1 .. n : SubSeq(b, u + 1, u + n)[i] = b[u + i]
<1>1. Len(b) \in Nat /\ u + 1 \in Nat /\ u + n \in Nat
  OBVIOUS
<1>2. SubSeq(b, u + 1, u + n) \in Seq(Nat) /\ Len(SubSeq(b, u + 1, u + n)) = n
  BY <1>1
<1>3. ASSUME NEW i \in 1 .. n
      PROVE  SubSeq(b, u + 1, u + n)[i] = b[u + i]
  <2>1. i \in 1 .. ((u + n) - (u + 1) + 1) /\ (u + 1) + i - 1 = u + i
    OBVIOUS
  <2> QED
    BY <1>1, <2>1
<1> QED
  BY <1>2, <1>3

\* A packet after a piece of the stream has been written to it.
LEMMA ExtendCells ==
  ASSUME NEW b \in Seq(Nat), NEW u \in Nat, NEW n \in Nat, u + n <= Len(b),
         NEW p \in Seq(Nat)
  PROVE  LET q == p \o SubSeq(b, u + 1, u + n) IN
         /\ q \in Seq(Nat) /\ Len(q) = Len(p) + n
         /\ \A i \in 1 .. Len(p) : q[i] = p[i]
         /\ \A i \in 1 .. n : q[Len(p) + i] = b[u + i]
<1> DEFINE c == SubSeq(b, u + 1, u + n)
           q == p \o SubSeq(b, u + 1, u + n)
<1>1. q = p \o c
  OBVIOUS
<1>2. c \in Seq(Nat) /\ Len(c) = n /\ \A i \in 1 .. n : c[i] = b[u + i]
  BY SliceCells, Zenon
<1> HIDE DEF c, q
<1>3. /\ q \in Seq(Nat) /\ Len(q) = Len(p) + Len(c)
      /\ \A i \in 1 .. Len(p) : q[i] = p[i]
      /\ \A i \in 1 .. Len(c) : q[Len(p) + i] = c[i]
  <2>1. c \in Seq(Nat)
    BY <1>2
  <2> QED
    BY <1>1, <2>1, ConcatCells
<1>4. /\ q \in Seq(Nat) /\ Len(q) = Len(p) + n
      /\ \A i \in 1 .. Len(p) : q[i] = p[i]
      /\ \A i \in 1 .. n : q[Len(p) + i] = b[u + i]
  BY <1>2, <1>3
<1> QED
  BY <1>4, Zenon DEF q

-----------------------------------------------------------------------------
(***************************************************************************)
(* The invariant is inductive                                              *)
(***************************************************************************)

\* The invariant holds before anything is sent.
LEMMA InitIInv == Init => IInv
<1> SUFFICES ASSUME Init PROVE IInv
  OBVIOUS
<1>1. TypeOK
  BY DEF Init, TypeOK, Handle
<1>2. StreamShape(bytes, sent, off)
  BY DEF Init, StreamShape, Boundary
<1>3. PacketShape(sent, off, Len(delivered), used, mReadPacket)
  BY DEF Init, PacketShape, Boundary
<1> QED
  BY <1>1, <1>2, <1>3 DEF IInv, Init, DeliveredInOrder

\* The client sends a frame.
LEMMA SendIInv ==
  ASSUME IInv, NEW m \in Message, sendMsg(m)
  PROVE  IInv'
<1>1. /\ bytes \in Seq(Nat) /\ sent \in Seq(Message) /\ off \in Seq(Nat)
      /\ used \in Nat /\ rd \in Nat /\ mReadPacket \in Seq(Nat)
      /\ delivered \in Seq(Message) /\ handle \in Handle
      /\ StreamShape(bytes, sent, off)
      /\ used <= rd /\ rd <= Len(bytes)
      /\ Len(delivered) <= Len(sent)
      /\ \A k \in 1 .. Len(delivered) : delivered[k] = sent[k]
  BY DEF IInv, TypeOK, DeliveredInOrder
<1>2. /\ sent' = Append(sent, m) /\ off' = Append(off, Len(bytes))
      /\ bytes' = bytes \o Frame(m)
      /\ UNCHANGED <<rd, used, mReadPacket, delivered, handle>>
  BY DEF sendMsg
<1>3. Frame(m) \in Seq(Nat)
  BY FrameCells
<1>4. /\ Len(sent) \in Nat /\ Len(delivered) \in Nat /\ Len(bytes) \in Nat
      /\ Len(Frame(m)) \in Nat
  BY <1>1, <1>3
<1>5. bytes' \in Seq(Nat) /\ Len(bytes') = Len(bytes) + Len(Frame(m))
  BY <1>1, <1>2, <1>3, ConcatCells
<1>6. /\ sent' \in Seq(Message) /\ Len(sent') = Len(sent) + 1
      /\ \A k \in 1 .. Len(sent) : sent'[k] = sent[k]
  BY <1>1, <1>2, AppendProperties
<1>7. off' \in Seq(Nat)
  BY <1>1, <1>2, <1>4, AppendProperties
<1>8. TypeOK'
  BY <1>1, <1>2, <1>5, <1>6, <1>7 DEF TypeOK
<1>9. StreamShape(bytes', sent', off')
  BY <1>1, <1>2, ShapeAppend
<1>10. used' <= rd' /\ rd' <= Len(bytes')
  BY <1>1, <1>2, <1>4, <1>5
<1>11. DeliveredInOrder'
  <2>1. Len(delivered') <= Len(sent')
    BY <1>1, <1>2, <1>4, <1>6
  <2>2. ASSUME NEW k \in 1 .. Len(delivered)
        PROVE  delivered[k] = sent'[k]
    <3>1. k \in 1 .. Len(sent)
      BY <1>1, <1>4
    <3> QED
      BY <1>1, <1>6, <3>1
  <2> QED
    BY <1>2, <2>1, <2>2 DEF DeliveredInOrder
<1>12. handle # "closed" =>
         PacketShape(sent', off', Len(delivered), used, mReadPacket)
  <2>1. Len(delivered) \in 0 .. Len(sent)
    BY <1>1, <1>4
  <2> QED
    BY <1>1, <1>2, <2>1, PacketAppend DEF IInv
<1>13. handle' = "closed" => used' = rd'
  BY <1>2 DEF IInv
<1> QED
  BY <1>2, <1>8, <1>9, <1>10, <1>11, <1>12, <1>13 DEF IInv

\* libuv reads some of the bytes.
LEMMA ReadIInv ==
  ASSUME IInv, NEW n \in 1 .. MESSAGE_BUFFER_SIZE, echo_read(n)
  PROVE  IInv'
<1>1. /\ rd \in Nat /\ used \in Nat /\ n \in Nat /\ Len(bytes) \in Nat
      /\ used <= rd
  BY NetConnectAssumption DEF IInv, TypeOK
<1>2. rd' = rd + n /\ n <= Len(bytes) - rd /\ handle = "open"
  BY DEF echo_read
<1>3. rd' \in Nat /\ used <= rd' /\ rd' <= Len(bytes)
  BY <1>1, <1>2
<1>4. UNCHANGED <<bytes, sent, off, used, mReadPacket, delivered, handle>>
  BY DEF echo_read
<1> QED
  BY <1>2, <1>3, <1>4 DEF IInv, TypeOK, DeliveredInOrder

\* The connection is closed.
LEMMA CloseIInv ==
  ASSUME IInv, close \/ on_clsesocket
  PROVE  IInv'
<1>1. CASE close
  BY <1>1 DEF close, IInv, TypeOK, Handle, DeliveredInOrder
<1>2. CASE on_clsesocket
  <2>1. used = rd
    BY <1>2 DEF on_clsesocket, ActiveSize, IInv, TypeOK
  <2> QED
    BY <1>2, <2>1 DEF on_clsesocket, IInv, TypeOK, Handle, DeliveredInOrder
<1> QED
  BY <1>1, <1>2

\* What the loop of on_msgbuffer knows: some cell of the next frame is there.
LEMMA LoopFacts ==
  ASSUME IInv, ActiveSize > 0
  PROVE  /\ handle # "closed"
         /\ Len(delivered) \in Nat /\ Len(delivered) < Len(sent)
         /\ sent[Len(delivered) + 1] \in Message
         /\ Len(mReadPacket) \in Nat
         /\ Len(Frame(sent[Len(delivered) + 1])) \in Nat
         /\ Len(mReadPacket) <= Len(Frame(sent[Len(delivered) + 1]))
         /\ \A i \in 1 .. Len(mReadPacket) :
              mReadPacket[i] = Frame(sent[Len(delivered) + 1])[i]
<1>1. /\ bytes \in Seq(Nat) /\ sent \in Seq(Message) /\ off \in Seq(Nat)
      /\ used \in Nat /\ rd \in Nat /\ mReadPacket \in Seq(Nat)
      /\ delivered \in Seq(Message)
      /\ StreamShape(bytes, sent, off)
      /\ used <= rd /\ rd <= Len(bytes) /\ used < rd
      /\ Len(delivered) <= Len(sent)
  BY DEF IInv, TypeOK, DeliveredInOrder, ActiveSize
<1>2. handle # "closed"
  BY <1>1 DEF IInv
<1>3. PacketShape(sent, off, Len(delivered), used, mReadPacket)
  BY <1>2 DEF IInv
<1>4. /\ Len(delivered) \in Nat /\ Len(sent) \in Nat /\ Len(bytes) \in Nat
      /\ Len(mReadPacket) \in Nat
  BY <1>1
<1>5. used < Len(bytes) /\ Len(delivered) \in 0 .. Len(sent)
  BY <1>1, <1>4
<1>6. Len(delivered) < Len(sent)
  BY <1>1, <1>3, <1>5, MoreToRead
<1>7. Len(delivered) + 1 \in 1 .. Len(sent) /\ Len(off) = Len(sent)
  BY <1>1, <1>4, <1>6 DEF StreamShape
<1>8. /\ sent[Len(delivered) + 1] \in Message
      /\ Len(Frame(sent[Len(delivered) + 1])) \in Nat
  BY <1>1, <1>7, Positions
<1>9. /\ Len(mReadPacket) <= Len(Frame(sent[Len(delivered) + 1]))
      /\ \A i \in 1 .. Len(mReadPacket) :
              mReadPacket[i] = Frame(sent[Len(delivered) + 1])[i]
  <2>1. CASE mReadPacket = <<>>
    <3>1. Len(mReadPacket) = 0 /\ 1 .. Len(mReadPacket) = {}
      BY <2>1
    <3> QED
      BY <1>8, <3>1
  <2>2. CASE mReadPacket # <<>>
    BY <1>3, <2>2 DEF PacketShape
  <2> QED
    BY <2>1, <2>2
<1> QED
  BY <1>2, <1>4, <1>6, <1>8, <1>9

\* The packet after n more cells of the stream, as far as its frame goes.
LEMMA LoopTake ==
  ASSUME IInv, ActiveSize > 0, NEW n \in Nat, n <= ActiveSize,
         Len(mReadPacket) + n <= Len(Frame(sent[Len(delivered) + 1]))
  PROVE  LET q == mReadPacket \o NextCells(n) IN
         /\ q \in Seq(Nat) /\ Len(q) = Len(mReadPacket) + n
         /\ \A i \in 1 .. Len(q) : q[i] = Frame(sent[Len(delivered) + 1])[i]
         /\ used + n \in Nat /\ used + n <= rd
         /\ used + n = Boundary(sent, off, Len(delivered)) + Len(q)
<1> DEFINE q == mReadPacket \o NextCells(n)
           d == Len(delivered)
<1>1. /\ bytes \in Seq(Nat) /\ sent \in Seq(Message) /\ off \in Seq(Nat)
      /\ used \in Nat /\ rd \in Nat /\ mReadPacket \in Seq(Nat)
      /\ StreamShape(bytes, sent, off)
      /\ used <= rd /\ rd <= Len(bytes)
  BY DEF IInv, TypeOK
<1>2. Len(bytes) \in Nat /\ Len(mReadPacket) \in Nat
  BY <1>1
<1>3. n <= rd - used /\ used + n <= rd /\ used + n <= Len(bytes) /\ used + n \in Nat
  BY <1>1, <1>2 DEF ActiveSize
<1>4. d \in Nat /\ d < Len(sent) /\ PacketShape(sent, off, d, used, mReadPacket)
  BY LoopFacts DEF IInv
<1>5. /\ q \in Seq(Nat) /\ Len(q) = Len(mReadPacket) + n
      /\ \A i \in 1 .. Len(mReadPacket) : q[i] = mReadPacket[i]
      /\ \A i \in 1 .. n : q[Len(mReadPacket) + i] = bytes[used + i]
  <2>1. /\ bytes \in Seq(Nat) /\ used \in Nat /\ mReadPacket \in Seq(Nat)
        /\ used + n <= Len(bytes)
    BY <1>1, <1>3
  <2> QED
    BY <2>1, ExtendCells, Zenon DEF NextCells
<1>6. Len(mReadPacket) + n <= Len(Frame(sent[d + 1]))
  OBVIOUS
<1> DEFINE B == Boundary(sent, off, d)
           F == Frame(sent[d + 1])
<1>7. B \in Nat /\ \A i \in 1 .. Len(F) : bytes[B + i] = F[i]
  BY <1>1, <1>4, NextFrame
<1>8. Len(F) \in Nat /\ \A i \in 1 .. Len(mReadPacket) : mReadPacket[i] = F[i]
  BY LoopFacts
<1>9. used = B + Len(mReadPacket)
  BY <1>4 DEF PacketShape
<1> HIDE DEF q, d, B, F
<1>10. ASSUME NEW i \in 1 .. Len(q)
       PROVE  q[i] = F[i]
  <2>1. CASE i \in 1 .. Len(mReadPacket)
    BY <1>5, <1>8, <2>1
  <2>2. CASE i \notin 1 .. Len(mReadPacket)
    <3> DEFINE j == i - Len(mReadPacket)
    <3>1. j \in 1 .. n /\ i = Len(mReadPacket) + j
      BY <1>2, <1>5, <2>2
    <3>2. i \in 1 .. Len(F)
      BY <1>2, <1>5, <1>6, <1>8 DEF F
    <3>3. used + j = B + i
      BY <1>2, <1>7, <1>9
    <3> HIDE DEF j
    <3>4. q[i] = bytes[used + j]
      BY <1>5, <3>1
    <3> QED
      BY <1>7, <3>2, <3>3, <3>4
  <2> QED
    BY <2>1, <2>2
<1>11. used + n = B + Len(q)
  BY <1>2, <1>5, <1>7, <1>9
<1> QED
  BY <1>3, <1>5, <1>10, <1>11, Zenon DEF q, d, B, F

\* on_msgbuffer reads the length of a frame.
LEMMA HeadIInv ==
  ASSUME IInv, readHead
  PROVE  IInv'
<1> DEFINE d == Len(delivered)
           F == Frame(sent[d + 1])
           n == HeadTake(mReadPacket)
           q == mReadPacket \o NextCells(n)
<1>1. /\ ActiveSize > 0 /\ ActiveSize \in Int
      /\ Len(mReadPacket) < 2
      /\ mReadPacket' = q /\ used' = used + n
      /\ UNCHANGED <<bytes, sent, off, rd, delivered, handle>>
  <2>1. Len(mReadPacket) \in Nat /\ ActiveSize \in Int
    BY DEF IInv, TypeOK, ActiveSize
  <2> QED
    BY <2>1 DEF readHead, isHeadFull, MSG_HEAD_SIZE
<1>2. /\ handle # "closed" /\ d \in Nat /\ d < Len(sent)
      /\ sent[d + 1] \in Message
      /\ Len(mReadPacket) \in Nat /\ Len(F) \in Nat
  BY <1>1, LoopFacts
<1>3. /\ Len(F) = 2 + Len(sent[d + 1].body) /\ sent[d + 1].body \in Seq(Nat)
      /\ Len(sent[d + 1].body) \in Nat
  BY <1>2, FrameCells DEF MSG_HEAD_SIZE
<1>4. n \in Nat /\ n <= ActiveSize /\ Len(mReadPacket) + n <= 2 /\ n > 0
  BY <1>1, <1>2 DEF HeadTake, Least, MSG_HEAD_SIZE
<1> HIDE DEF n, F, d
<1>5. Len(mReadPacket) + n <= Len(F)
  BY <1>2, <1>3, <1>4
<1>6. /\ q \in Seq(Nat) /\ Len(q) = Len(mReadPacket) + n
      /\ \A i \in 1 .. Len(q) : q[i] = F[i]
      /\ used + n \in Nat /\ used + n <= rd
      /\ used + n = Boundary(sent, off, d) + Len(q)
  BY <1>1, <1>4, <1>5, LoopTake DEF F, d
<1> HIDE DEF q
<1>7. Len(q) = Len(F) => sent[d + 1].body = <<>>
  <2>1. Len(q) = Len(F) => Len(sent[d + 1].body) = 0
    BY <1>2, <1>3, <1>4, <1>6
  <2> QED
    BY <1>3, <2>1
<1>8. PacketShape(sent, off, d, used + n, q)
  BY <1>2, <1>5, <1>6, <1>7 DEF PacketShape, F
<1>9. TypeOK'
  BY <1>1, <1>6 DEF IInv, TypeOK
<1> QED
  BY <1>1, <1>2, <1>6, <1>8, <1>9 DEF IInv, DeliveredInOrder, d

\* on_msgbuffer reads the body of a frame.
LEMMA BodyIInv ==
  ASSUME IInv, readBody
  PROVE  IInv'
<1> DEFINE d == Len(delivered)
           F == Frame(sent[d + 1])
           n == BodyTake(mReadPacket)
           q == mReadPacket \o NextCells(n)
<1>1. /\ ActiveSize > 0 /\ ActiveSize \in Int
      /\ Len(mReadPacket) >= 2
      /\ used' = used + n
      /\ UNCHANGED <<bytes, sent, off, rd>>
      /\ IF Len(q) = getMarkLen(q) + MSG_HEAD_SIZE
         THEN /\ delivered' = Append(delivered, Content(q))
              /\ mReadPacket' = <<>>
              /\ handle' \in {handle, "closing"}
         ELSE /\ mReadPacket' = q
              /\ UNCHANGED <<delivered, handle>>
  <2>1. Len(mReadPacket) \in Nat /\ ActiveSize \in Int
    BY DEF IInv, TypeOK, ActiveSize
  <2> QED
    BY <2>1 DEF readBody, isHeadFull, MSG_HEAD_SIZE
<1>2. /\ handle # "closed" /\ d \in Nat /\ d < Len(sent)
      /\ sent[d + 1] \in Message
      /\ Len(mReadPacket) \in Nat /\ Len(F) \in Nat
      /\ Len(mReadPacket) <= Len(F)
      /\ \A i \in 1 .. Len(mReadPacket) : mReadPacket[i] = F[i]
  BY <1>1, LoopFacts
<1>3. /\ Len(F) = 2 + Len(sent[d + 1].body)
      /\ F[1] = Len(sent[d + 1].body)
      /\ Len(sent[d + 1].body) \in Nat
  BY <1>2, FrameCells DEF MSG_HEAD_SIZE
<1>4. /\ getMarkLen(mReadPacket) + MSG_HEAD_SIZE = Len(F)
      /\ getMarkLen(mReadPacket) \in Nat
  <2>1. 1 \in 1 .. Len(mReadPacket)
    BY <1>1, <1>2
  <2>2. mReadPacket[1] = Len(sent[d + 1].body)
    BY <1>2, <1>3, <2>1
  <2> QED
    BY <1>3, <2>2 DEF getMarkLen, MSG_HEAD_SIZE
<1>5. n \in Nat /\ n <= ActiveSize /\ Len(mReadPacket) + n <= Len(F)
  <2>1. n = Least(Len(F) - Len(mReadPacket), ActiveSize)
    <3>1. getMarkLen(mReadPacket) + (MSG_HEAD_SIZE - Len(mReadPacket))
            = Len(F) - Len(mReadPacket)
      BY <1>2, <1>3, <1>4 DEF MSG_HEAD_SIZE
    <3> QED
      BY <3>1, Zenon DEF BodyTake
  <2> HIDE DEF n
  <2> QED
    BY <1>1, <1>2, <2>1 DEF Least
<1> HIDE DEF n, F, d
<1>6. /\ q \in Seq(Nat) /\ Len(q) = Len(mReadPacket) + n
      /\ \A i \in 1 .. Len(q) : q[i] = F[i]
      /\ used + n \in Nat /\ used + n <= rd
      /\ used + n = Boundary(sent, off, d) + Len(q)
  BY <1>1, <1>5, LoopTake DEF F, d
<1> HIDE DEF q
<1>7. getMarkLen(q) + MSG_HEAD_SIZE = Len(F)
  <2>1. 1 \in 1 .. Len(q)
    BY <1>1, <1>2, <1>5, <1>6
  <2>2. q[1] = Len(sent[d + 1].body)
    BY <1>3, <1>6, <2>1
  <2> QED
    BY <1>3, <2>2 DEF getMarkLen, MSG_HEAD_SIZE
<1>8. /\ bytes \in Seq(Nat) /\ sent \in Seq(Message) /\ off \in Seq(Nat)
      /\ rd \in Nat /\ delivered \in Seq(Message) /\ handle \in Handle
      /\ StreamShape(bytes, sent, off) /\ rd <= Len(bytes)
      /\ Len(delivered) <= Len(sent)
      /\ \A k \in 1 .. Len(delivered) : delivered[k] = sent[k]
  BY DEF IInv, TypeOK, DeliveredInOrder
<1>9. CASE Len(q) = Len(F)
  <2>1. /\ delivered' = Append(delivered, Content(q))
        /\ mReadPacket' = <<>>
        /\ handle' \in {handle, "closing"}
    BY <1>1, <1>7, <1>9
  <2>2. Content(q) = sent[d + 1]
    BY <1>2, <1>6, <1>9, ContentOfFrame DEF F
  <2>3. /\ delivered' \in Seq(Message) /\ Len(delivered') = d + 1
        /\ delivered'[d + 1] = sent[d + 1]
        /\ \A k \in 1 .. d : delivered'[k] = delivered[k]
    BY <1>2, <1>8, <2>1, <2>2, AppendProperties DEF d
  <2>4. DeliveredInOrder'
    <3>1. Len(delivered') <= Len(sent)
      BY <1>2, <1>8, <2>3
    <3>2. ASSUME NEW k \in 1 .. Len(delivered')
          PROVE  delivered'[k] = sent[k]
      <4>1. k \in 1 .. d \/ k = d + 1
        BY <1>2, <2>3
      <4> QED
        BY <1>8, <2>3, <4>1 DEF d
    <3> QED
      BY <1>1, <3>1, <3>2 DEF DeliveredInOrder
  <2>5. Boundary(sent, off, d + 1) = Boundary(sent, off, d) + Len(F)
    BY <1>2, <1>8, NextFrame DEF F
  <2>6. Boundary(sent, off, d) \in Nat
    BY <1>2, <1>8, NextFrame
  <2>7. PacketShape(sent, off, d + 1, used + n, <<>>)
    <3>1. used + n = Boundary(sent, off, d + 1) + Len(<<>>)
      BY <1>2, <1>6, <1>9, <2>5, <2>6
    <3> QED
      BY <3>1 DEF PacketShape
  <2>8. handle' \in Handle /\ handle' # "closed"
    BY <1>2, <1>8, <2>1 DEF Handle
  <2>9. TypeOK'
    BY <1>1, <1>6, <1>8, <2>1, <2>3, <2>8 DEF TypeOK
  <2> QED
    BY <1>1, <1>6, <1>8, <2>1, <2>3, <2>4, <2>7, <2>8, <2>9 DEF IInv
<1>10. CASE Len(q) # Len(F)
  <2>1. mReadPacket' = q /\ UNCHANGED <<delivered, handle>>
    BY <1>1, <1>7, <1>10
  <2>2. Len(q) <= Len(F)
    BY <1>5, <1>6
  <2>3. PacketShape(sent, off, d, used + n, q)
    BY <1>2, <1>6, <1>10, <2>2 DEF PacketShape, F
  <2>4. TypeOK'
    BY <1>1, <1>6, <1>8, <2>1 DEF TypeOK
  <2> QED
    BY <1>1, <1>2, <1>6, <1>8, <2>1, <2>3, <2>4 DEF IInv, DeliveredInOrder, d
<1> QED
  BY <1>9, <1>10

\* Every step keeps the invariant.
LEMMA NextIInv == IInv /\ [Next]_vars => IInv'
<1> SUFFICES ASSUME IInv, [Next]_vars PROVE IInv'
  OBVIOUS
<1>1. CASE Next
  BY <1>1, SendIInv, ReadIInv, HeadIInv, BodyIInv, CloseIInv DEF Next
<1>2. CASE UNCHANGED vars
  BY <1>2 DEF vars, IInv, TypeOK, DeliveredInOrder
<1> QED
  BY <1>1, <1>2

-----------------------------------------------------------------------------
(***************************************************************************)
(* The theorems                                                            *)
(***************************************************************************)

\* The invariant of the specification.
THEOREM Invariance == Spec => []IInv
  BY InitIInv, NextIInv, PTL DEF Spec

\* The variables keep their types; in particular onMsg is only ever passed a
\* message over MsgType and Body.
THEOREM TypeCorrect == Spec => []TypeOK
<1>1. IInv => TypeOK
  BY DEF IInv
<1> QED
  BY Invariance, <1>1, PTL

\* on_msgbuffer recovers the peer's messages, in order, from any cutting of
\* the stream into pieces.
THEOREM Reassembly == Spec => []DeliveredInOrder
<1>1. IInv => DeliveredInOrder
  BY DEF IInv
<1> QED
  BY Invariance, <1>1, PTL

\* What IInv says of the positions, in the terms of the properties.
LEMMA PositionFacts ==
  ASSUME IInv, handle # "closed"
  PROVE  LET d == Len(delivered)
             B == IF d = 0 THEN 0 ELSE EndOf(d) IN
         /\ d \in Nat /\ B \in Nat /\ used = B + Len(mReadPacket)
         /\ Len(mReadPacket) \in Nat
         /\ d < Len(sent) => EndOf(d + 1) = B + Len(Frame(sent[d + 1]))
<1> DEFINE d == Len(delivered)
           B == Boundary(sent, off, d)
<1>1. /\ bytes \in Seq(Nat) /\ sent \in Seq(Message) /\ off \in Seq(Nat)
      /\ StreamShape(bytes, sent, off)
      /\ PacketShape(sent, off, d, used, mReadPacket)
      /\ d \in Nat /\ Len(mReadPacket) \in Nat /\ d <= Len(sent)
      /\ Len(off) = Len(sent) /\ Len(sent) \in Nat
  <2>1. /\ bytes \in Seq(Nat) /\ sent \in Seq(Message) /\ off \in Seq(Nat)
        /\ mReadPacket \in Seq(Nat) /\ delivered \in Seq(Message)
        /\ StreamShape(bytes, sent, off)
        /\ PacketShape(sent, off, d, used, mReadPacket)
        /\ d <= Len(sent)
    BY DEF IInv, TypeOK, DeliveredInOrder
  <2>2. Len(off) = Len(sent)
    BY <2>1 DEF StreamShape
  <2>3. d \in Nat /\ Len(mReadPacket) \in Nat /\ Len(sent) \in Nat
    BY <2>1
  <2> QED
    BY <2>1, <2>2, <2>3
<1>2. B = IF d = 0 THEN 0 ELSE EndOf(d)
  BY DEF Boundary, EndAt, EndOf
<1>3. B \in Nat
  <2>1. CASE d = 0
    BY <2>1 DEF Boundary
  <2>2. CASE d # 0
    <3>1. d \in 1 .. Len(sent)
      BY <1>1, <2>2
    <3> QED
      BY <1>1, <2>2, <3>1, Positions DEF Boundary
  <2> QED
    BY <2>1, <2>2
<1>4. used = B + Len(mReadPacket)
  BY <1>1 DEF PacketShape
<1>5. ASSUME d < Len(sent)
      PROVE  EndOf(d + 1) = B + Len(Frame(sent[d + 1]))
  <2>1. d + 1 \in 1 .. Len(sent)
    BY <1>1, <1>5
  <2>2. EndAt(sent, off, d + 1) = off[d + 1] + Len(Frame(sent[d + 1]))
    BY <1>1, <2>1, Positions
  <2>3. off[d + 1] = B
    BY <1>1, <1>5, NextFrame
  <2> QED
    BY <2>2, <2>3 DEF EndAt, EndOf
<1> HIDE DEF B
<1> QED
  BY <1>1, <1>2, <1>3, <1>4, <1>5

\* The reader never loses its place in the stream: it stands at a boundary
\* between messages plus what mReadPacket holds, and never beyond the message.
THEOREM Alignment == Spec => []FramesAligned
<1>1. IInv => FramesAligned
  <2> SUFFICES ASSUME IInv, handle # "closed" PROVE FramesAligned
    BY DEF FramesAligned
  <2> DEFINE d == Len(delivered)
             B == IF d = 0 THEN 0 ELSE EndOf(d)
  <2>1. /\ d \in Nat /\ B \in Nat /\ used = B + Len(mReadPacket)
        /\ Len(mReadPacket) \in Nat
        /\ d < Len(sent) => EndOf(d + 1) = B + Len(Frame(sent[d + 1]))
    BY PositionFacts
  <2> HIDE DEF B
  <2>2. ASSUME mReadPacket # <<>>
        PROVE  d < Len(sent) /\ used <= EndOf(d + 1)
    <3>1. d < Len(sent) /\ Len(mReadPacket) <= Len(Frame(sent[d + 1]))
      BY <2>2 DEF IInv, PacketShape
    <3>2. sent[d + 1] \in Message
      <4>1. Len(sent) \in Nat /\ sent \in Seq(Message)
        BY DEF IInv, TypeOK
      <4>2. d + 1 \in 1 .. Len(sent)
        BY <2>1, <3>1, <4>1
      <4> QED
        BY <4>1, <4>2
    <3>3. Len(Frame(sent[d + 1])) \in Nat
      BY <3>2, FrameCells
    <3> QED
      BY <2>1, <3>1, <3>3
  <2> QED
    BY <2>1, <2>2 DEF FramesAligned, B
<1> QED
  BY Invariance, <1>1, PTL

\* When on_msgbuffer returns, only a message without a body can be left over.
THEOREM OneEmptyMessageLags == Spec => []LagIsOneEmptyMessage
<1>1. IInv => LagIsOneEmptyMessage
  <2> SUFFICES ASSUME IInv, handle # "closed",
                      NEW k \in Len(delivered) + 1 .. Len(sent),
                      EndOf(k) <= used
               PROVE  /\ k = Len(delivered) + 1
                      /\ sent[k].body = <<>>
                      /\ EndOf(k) = used
    BY DEF LagIsOneEmptyMessage
  <2> DEFINE d == Len(delivered)
             B == IF d = 0 THEN 0 ELSE EndOf(d)
  <2>1. /\ d \in Nat /\ B \in Nat /\ used = B + Len(mReadPacket)
        /\ Len(mReadPacket) \in Nat
        /\ d < Len(sent) => EndOf(d + 1) = B + Len(Frame(sent[d + 1]))
    BY PositionFacts
  <2>2. /\ sent \in Seq(Message) /\ off \in Seq(Nat) /\ Len(off) = Len(sent)
        /\ StreamShape(bytes, sent, off) /\ Len(sent) \in Nat
        /\ PacketShape(sent, off, d, used, mReadPacket)
    BY DEF IInv, TypeOK, StreamShape
  <2>3. k \in 1 .. Len(sent) /\ k \in Nat /\ d < k /\ d < Len(sent)
    BY <2>1, <2>2
  <2>4. \A j \in 1 .. Len(sent) :
          /\ off[j] \in Nat /\ Len(Frame(sent[j])) \in Nat /\ sent[j] \in Message
          /\ EndOf(j) = off[j] + Len(Frame(sent[j])) /\ EndOf(j) \in Nat
          /\ Len(Frame(sent[j])) >= 2
    <3>1. ASSUME NEW j \in 1 .. Len(sent)
          PROVE  /\ off[j] \in Nat /\ Len(Frame(sent[j])) \in Nat
                 /\ sent[j] \in Message /\ Len(sent[j].body) \in Nat
                 /\ EndOf(j) = off[j] + Len(Frame(sent[j])) /\ EndOf(j) \in Nat
                 /\ Len(Frame(sent[j])) = MSG_HEAD_SIZE + Len(sent[j].body)
      BY <2>2, <3>1, Positions DEF EndAt, EndOf
    <3>2. \A x, y \in Nat : x = MSG_HEAD_SIZE + y => x >= 2
      BY DEF MSG_HEAD_SIZE
    <3> QED
      BY <3>1, <3>2
  <2>5. \A i, j \in 1 .. Len(sent) : i < j => EndOf(i) <= off[j]
    BY <2>2 DEF StreamShape, EndAt, EndOf
  <2>6. B < EndOf(k)
    <3>1. CASE d = 0
      BY <2>3, <2>4, <3>1
    <3>2. CASE d # 0
      <4>1. d \in 1 .. Len(sent) /\ B = EndOf(d)
        BY <2>1, <2>2, <2>3, <3>2
      <4>2. EndOf(d) <= off[k] /\ off[k] < EndOf(k) /\ EndOf(d) \in Nat
        BY <2>3, <2>4, <2>5, <4>1
      <4> QED
        BY <2>3, <2>4, <4>1, <4>2
    <3> QED
      BY <3>1, <3>2
  <2> HIDE DEF B
  <2>7. mReadPacket # <<>>
    <3>1. SUFFICES ASSUME mReadPacket = <<>> PROVE FALSE
      OBVIOUS
    <3>2. used = B
      BY <2>1, <3>1
    <3> QED
      BY <2>1, <2>3, <2>4, <2>6, <3>2
  <2>8. /\ Len(mReadPacket) <= Len(Frame(sent[d + 1]))
        /\ Len(mReadPacket) = Len(Frame(sent[d + 1])) => sent[d + 1].body = <<>>
    BY <2>2, <2>7 DEF PacketShape
  <2>9. d + 1 \in 1 .. Len(sent)
    BY <2>1, <2>2, <2>3
  <2>10. used <= EndOf(d + 1) /\ EndOf(d + 1) \in Nat
    BY <2>1, <2>3, <2>4, <2>8, <2>9
  <2>11. k = d + 1
    <3>1. SUFFICES ASSUME d + 1 < k PROVE FALSE
      BY <2>1, <2>3
    <3>2. EndOf(d + 1) <= off[k] /\ off[k] < EndOf(k)
      BY <2>3, <2>4, <2>5, <2>9, <3>1
    <3> QED
      BY <2>1, <2>3, <2>4, <2>10, <3>2
  <2>12. EndOf(k) = used
    BY <2>1, <2>10, <2>11
  <2>13. Len(mReadPacket) = Len(Frame(sent[d + 1]))
    BY <2>1, <2>3, <2>4, <2>9, <2>11, <2>12
  <2> QED
    BY <2>8, <2>11, <2>12, <2>13
<1> QED
  BY Invariance, <1>1, PTL

\* on_msgbuffer keeps its place in the stream and keeps up with it.
THEOREM Framing == Spec => []FramingSound
<1>1. TypeOK /\ FramesAligned /\ LagIsOneEmptyMessage => FramingSound
  BY DEF FramingSound
<1> QED
  BY <1>1, TypeCorrect, Alignment, OneEmptyMessageLags, PTL

\* A delivery hands over the next message of the channel.
LEMMA DeliverStep ==
  ASSUME IInv, IInv', readBody, delivered' # delivered
  PROVE  Channel!Deliver
<1> DEFINE d == Len(delivered)
           c == Content(mReadPacket \o NextCells(BodyTake(mReadPacket)))
<1>1. /\ delivered' = Append(delivered, c) /\ sent' = sent
      /\ handle' \in {handle, "closing"} /\ ActiveSize > 0
  BY DEF readBody
<1>2. handle # "closed" /\ handle' # "closed"
  BY <1>1, LoopFacts
<1> HIDE DEF c
<1>3. delivered \in Seq(Message) /\ delivered' \in Seq(Message) /\ sent \in Seq(Message)
  BY <1>1 DEF IInv, TypeOK
<1>4. d \in Nat /\ Len(sent) \in Nat /\ Len(delivered') = d + 1 /\ delivered'[d + 1] = c
  BY <1>1, <1>3
<1>5. d + 1 <= Len(sent) /\ \A k \in 1 .. d + 1 : delivered'[k] = sent[k]
  BY <1>1, <1>4 DEF IInv, DeliveredInOrder
<1>6. d < Len(sent) /\ d + 1 \in 1 .. d + 1
  BY <1>4, <1>5
<1>7. c = sent[d + 1]
  BY <1>4, <1>5, <1>6
<1> QED
  BY <1>1, <1>2, <1>6, <1>7 DEF Channel!Deliver

\* NetConnect keeps the promise of MsgChannel for every set of messages and
\* every way the stream is cut: each step is a step of the channel or none.
THEOREM Refinement == Spec => ImplementsChannel
<1>1. Init => Channel!Init
  BY DEF Init, Channel!Init
<1>2. IInv /\ IInv' /\ [Next]_vars => [Channel!Next]_(Channel!chanVars)
  <2> SUFFICES ASSUME IInv, IInv', [Next]_vars
               PROVE  Channel!Next \/ UNCHANGED Channel!chanVars
    OBVIOUS
  <2>1. ASSUME NEW m \in Message, sendMsg(m) PROVE Channel!Next
    BY <2>1 DEF sendMsg, Channel!Next, Channel!Send
  <2>2. ASSUME NEW n \in 1 .. MESSAGE_BUFFER_SIZE, echo_read(n)
        PROVE  UNCHANGED Channel!chanVars
    BY <2>2 DEF echo_read, Channel!chanVars
  <2>3. CASE readHead
    BY <2>3 DEF readHead, Channel!chanVars
  <2>4. CASE readBody
    <3>1. CASE delivered' # delivered
      BY <2>4, <3>1, DeliverStep DEF Channel!Next
    <3>2. CASE delivered' = delivered
      <4>1. sent' = sent /\ (handle' = "closed" <=> handle = "closed")
        BY <2>4, LoopFacts DEF readBody
      <4> QED
        BY <3>2, <4>1 DEF Channel!chanVars
    <3> QED
      BY <3>1, <3>2
  <2>5. CASE close
    BY <2>5 DEF close, Channel!chanVars
  <2>6. CASE on_clsesocket
    BY <2>6 DEF on_clsesocket, Channel!Next, Channel!End
  <2>7. CASE UNCHANGED vars
    BY <2>7 DEF vars, Channel!chanVars
  <2> QED
    BY <2>1, <2>2, <2>3, <2>4, <2>5, <2>6, <2>7 DEF Next
<1>3. Spec => []IInv
  BY Invariance
<1> QED
  BY <1>1, <1>2, <1>3, PTL DEF Spec, ImplementsChannel, Channel!Spec

=============================================================================
