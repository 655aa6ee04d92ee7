-------------------------------- MODULE Ikcp --------------------------------
(***************************************************************************)
(* The KCP protocol machine (src/src/network/ikcp.cpp): two control blocks *)
(* that exchange datagrams over a network which loses, repeats and         *)
(* reorders them.                                                          *)
(*                                                                         *)
(* Time is left out: a flush finds any set of segments past their          *)
(* resendts, and the probe timer due or not.  That covers every value of   *)
(* rx_rto and every schedule of ikcp_update; the arithmetic of the clock   *)
(* is in module IkcpClock.  The counters xmit and fastack stop at the      *)
(* largest number the code compares them with.  All datagrams belong to    *)
(* one conversation: KcpServer and KcpClient look the control block up by  *)
(* the number that ikcp_input compares.                                    *)
(***************************************************************************)
EXTENDS Integers, Sequences, SequencesExt, FiniteSets, FiniteSetsExt

CONSTANTS
  End,                \* the two ends
  Wrap,               \* sequence numbers are counted modulo Wrap, a uint32
  First,              \* the number of the next segment when the run starts
  IKCP_WND_SND, IKCP_WND_RCV, IKCP_OVERHEAD, IKCP_DEADLINK, IKCP_FASTACK_LIMIT,
  IKCP_THRESH_INIT, IKCP_THRESH_MIN,
  mss,                \* bytes of a message in one segment
  fastresend,         \* what KcpEvent::onKcp passes to ikcp_nodelay
  Modes,              \* settings to check: stream, nocwnd, the lengths of messages,
                      \* and as a bound the datagrams under way to an end; more
                      \* are lost
  MaxSend,            \* bound: messages an end sends
  MaxAck              \* bound: acknowledgements that wait for a flush

ASSUME IkcpAssumption ==
  /\ Cardinality(End) = 2
  /\ {mss, IKCP_OVERHEAD, IKCP_WND_SND, IKCP_WND_RCV, IKCP_THRESH_MIN} \subseteq Nat \ {0}
  /\ {IKCP_DEADLINK, IKCP_FASTACK_LIMIT, IKCP_THRESH_INIT, fastresend, MaxAck} \subseteq Nat
  /\ Wrap > 4 * (IKCP_WND_SND + IKCP_WND_RCV)
  /\ First \in 0 .. Wrap - 1
  /\ \A m \in Modes : /\ m.stream \in BOOLEAN /\ m.nocwnd \in BOOLEAN
                       /\ m.lens \subseteq Nat \ {0} /\ m.room \in [End -> Nat]
  /\ MaxSend \in [End -> Nat]

VARIABLES
  mode,  \* one of Modes
  kcp,   \* the control blocks
  net,   \* the datagrams under way to an end
  sent,  \* history: the messages that ikcp_send queued
  got    \* history: the messages that ikcp_recv returned

vars == <<mode, kcp, net, sent, got>>

Peer(e) == CHOOSE f \in End : f # e
mtu == mss + IKCP_OVERHEAD

\* (IINT32)(later - earlier)
itimediff(later, earlier) ==
  LET d == (later - earlier) % Wrap IN IF 2 * d < Wrap THEN d ELSE d - Wrap

\* One above the largest number that xmit is compared with.
MaxXmit == Max({IKCP_DEADLINK, IKCP_FASTACK_LIMIT + 1})

ikcp_create ==
  [snd_una |-> First, snd_nxt |-> First, rcv_nxt |-> First,
   rmt_wnd |-> IKCP_WND_RCV, cwnd |-> 0, incr |-> 0, ssthresh |-> IKCP_THRESH_INIT,
   probe |-> {}, probing |-> FALSE, updated |-> FALSE, state |-> 0,
   snd_queue |-> <<>>, rcv_queue |-> <<>>, snd_buf |-> <<>>, rcv_buf |-> <<>>,
   acklist |-> <<>>]

-----------------------------------------------------------------------------
(***************************************************************************)
(* The receiver's queues                                                   *)
(***************************************************************************)

\* The number of segments of the message at the head of queue q: up to the
\* first with frg = 0.
Fragments(q) == Min({Len(q)} \cup {i \in 1 .. Len(q) : q[i].frg = 0})

Merged(q) == FlattenSeq([i \in 1 .. Fragments(q) |-> q[i].data])

peeksize(k) ==
  IF k.rcv_queue = <<>> \/ Len(k.rcv_queue) < Head(k.rcv_queue).frg + 1 THEN -1
  ELSE Len(Merged(k.rcv_queue))

\* move available data from rcv_buf -> rcv_queue
toQueue(k) ==
  LET n == Max({0} \cup {i \in 1 .. Len(k.rcv_buf) :
                           /\ k.rcv_buf[i].sn = (k.rcv_nxt + i - 1) % Wrap
                           /\ Len(k.rcv_queue) + i <= IKCP_WND_RCV})
  IN  [k EXCEPT !.rcv_queue = @ \o SubSeq(k.rcv_buf, 1, n),
                !.rcv_buf = SubSeq(@, n + 1, Len(@)),
                !.rcv_nxt = (@ + n) % Wrap]

\* What ikcp_recv leaves when it returns the message at the head.
ikcp_recv(k) ==
  LET q == k.rcv_queue
      j == toQueue([k EXCEPT !.rcv_queue = SubSeq(q, Fragments(q) + 1, Len(q))])
  IN  IF Len(q) >= IKCP_WND_RCV /\ Len(j.rcv_queue) < IKCP_WND_RCV
      THEN [j EXCEPT !.probe = @ \cup {"ASK_TELL"}]
      ELSE j

\* sn lies in the receive window.
InWindow(k, sn) ==
  /\ itimediff(sn, k.rcv_nxt + IKCP_WND_RCV) < 0
  /\ itimediff(sn, k.rcv_nxt) >= 0

\* Fault: a segment that is there already is inserted again.
parse_data_Repeat(k, seg) ==
  LET b == k.rcv_buf
      i == Max({0} \cup {j \in 1 .. Len(b) : itimediff(seg.sn, b[j].sn) > 0})
  IN  IF ~InWindow(k, seg.sn) THEN k
      ELSE toQueue([k EXCEPT !.rcv_buf = InsertAt(b, i + 1, seg)])

\* ikcp_parse_data
parse_data(k, seg) ==
  LET b == k.rcv_buf
      i == Max({0} \cup {j \in 1 .. Len(b) : itimediff(seg.sn, b[j].sn) > 0})
      repeat == i < Len(b) /\ b[i + 1].sn = seg.sn
  IN  IF ~InWindow(k, seg.sn) THEN k
      ELSE toQueue(IF repeat THEN k ELSE [k EXCEPT !.rcv_buf = InsertAt(b, i + 1, seg)])

-----------------------------------------------------------------------------
(***************************************************************************)
(* ikcp_send                                                               *)
(***************************************************************************)

\* The pieces of a message of bytes b: at least one.
Pieces(b) ==
  LET count == Max({1, (Len(b) + mss - 1) \div mss})
  IN  [i \in 1 .. count |-> SubSeq(b, (i - 1) * mss + 1, Min({i * mss, Len(b)}))]

\* How many of the bytes b stream mode appends to the last segment in snd_queue.
Extend(k, b) ==
  IF mode.stream /\ k.snd_queue # <<>>
  THEN Min({Len(b), Max({0, mss - Len(Last(k.snd_queue).data)})})
  ELSE 0

Fits(count) == count < IKCP_WND_RCV

\* The block after ikcp_send and the bytes that were queued.  Stream mode keeps
\* what it appended even when it then refuses the rest.
ikcp_send(k, b) ==
  LET x == Extend(k, b)
      q == IF x = 0 THEN k.snd_queue
           ELSE [k.snd_queue EXCEPT ![Len(k.snd_queue)] =
                   [frg |-> 0, data |-> @.data \o SubSeq(b, 1, x)]]
      rest == SubSeq(b, x + 1, Len(b))
      p == IF (mode.stream /\ rest = <<>>) \/ ~Fits(Len(Pieces(rest))) THEN <<>> ELSE Pieces(rest)
      segs == [i \in 1 .. Len(p) |-> [frg |-> IF mode.stream THEN 0 ELSE Len(p) - i, data |-> p[i]]]
  IN  [k |-> [k EXCEPT !.snd_queue = q \o segs],
       queued |-> SubSeq(b, 1, x) \o FlattenSeq(p)]

-----------------------------------------------------------------------------
(***************************************************************************)
(* ikcp_input                                                              *)
(***************************************************************************)

shrink_buf(k) ==
  [k EXCEPT !.snd_una = IF k.snd_buf = <<>> THEN k.snd_nxt ELSE k.snd_buf[1].sn]

\* sn has been sent and lies at or after snd_una.
Outstanding(k, sn) == itimediff(sn, k.snd_una) >= 0 /\ itimediff(sn, k.snd_nxt) < 0

\* ikcp_parse_ack: snd_buf is in the order of sn.
parse_ack(k, sn) ==
  IF Outstanding(k, sn)
  THEN [k EXCEPT !.snd_buf = SelectSeq(@, LAMBDA s : s.sn # sn)]
  ELSE k

\* Fault: the segment that una names counts as received.
parse_una_OffByOne(k, una) ==
  [k EXCEPT !.snd_buf = SelectSeq(@, LAMBDA s : itimediff(una, s.sn) < 0)]

\* ikcp_parse_una
parse_una(k, una) ==
  [k EXCEPT !.snd_buf = SelectSeq(@, LAMBDA s : itimediff(una, s.sn) <= 0)]

\* ikcp_parse_fastack
parse_fastack(k, sn) ==
  IF Outstanding(k, sn)
  THEN [k EXCEPT !.snd_buf =
          [i \in DOMAIN @ |-> IF itimediff(sn, @[i].sn) > 0
                              THEN [@[i] EXCEPT !.fastack = Min({@ + 1, fastresend})]
                              ELSE @[i]]]
  ELSE k

\* IKCP_CMD_PUSH: a segment before the end of the window is acknowledged, one
\* inside it is kept too.
inputPush(k, s) ==
  IF itimediff(s.sn, k.rcv_nxt + IKCP_WND_RCV) >= 0 THEN k
  ELSE LET j == [k EXCEPT !.acklist = Append(@, s.sn)]
       IN  IF itimediff(s.sn, k.rcv_nxt) >= 0
           THEN parse_data(j, [sn |-> s.sn, frg |-> s.frg, data |-> s.data])
           ELSE j

\* One segment of a datagram.  maxack is the set with the largest number
\* acknowledged so far, or empty.
inputSegment(a, s) ==
  LET k == shrink_buf(parse_una([a.k EXCEPT !.rmt_wnd = s.wnd], s.una)) IN
  CASE s.cmd = "ACK" ->
         [k |-> shrink_buf(parse_ack(k, s.sn)),
          maxack |-> IF \A m \in a.maxack : itimediff(s.sn, m) > 0 THEN {s.sn} ELSE a.maxack]
    [] s.cmd = "PUSH" -> [a EXCEPT !.k = inputPush(k, s)]
    [] s.cmd = "WASK" -> [a EXCEPT !.k = [k EXCEPT !.probe = @ \cup {"ASK_TELL"}]]
    [] s.cmd = "WINS" -> [a EXCEPT !.k = k]

\* The congestion window grows when snd_una has advanced.  It is followed only
\* where something reads it.
grow(k, prev_una) ==
  IF mode.nocwnd \/ itimediff(k.snd_una, prev_una) <= 0 \/ k.cwnd >= k.rmt_wnd THEN k
  ELSE LET start == k.cwnd < k.ssthresh
           base == Max({k.incr, mss})
           incr == IF start THEN k.incr + mss
                   ELSE base + (mss * mss) \div base + mss \div 16
           cwnd == IF start \/ (k.cwnd + 1) * mss <= incr THEN k.cwnd + 1 ELSE k.cwnd
       IN  IF cwnd > k.rmt_wnd
           THEN [k EXCEPT !.cwnd = k.rmt_wnd, !.incr = k.rmt_wnd * mss]
           ELSE [k EXCEPT !.cwnd = cwnd, !.incr = incr]

ikcp_input(k, d) ==
  LET a == FoldLeft(inputSegment, [k |-> k, maxack |-> {}], d)
      j == IF a.maxack = {} THEN a.k ELSE parse_fastack(a.k, Max(a.maxack))
  IN  grow(j, k.snd_una)

-----------------------------------------------------------------------------
(***************************************************************************)
(* ikcp_flush                                                              *)
(***************************************************************************)

Segment(k, cmd, sn, frg, data) ==
  [cmd |-> cmd, frg |-> frg, sn |-> sn, una |-> k.rcv_nxt, data |-> data,
   wnd |-> Max({0, IKCP_WND_RCV - Len(k.rcv_queue)})]

Size(segs) == FoldLeft(LAMBDA n, s : n + IKCP_OVERHEAD + Len(s.data), 0, segs)

\* Segments are packed into datagrams of at most mtu bytes.
Datagrams(segs) ==
  FoldLeft(LAMBDA ds, s :
             IF ds # <<>> /\ Size(Append(Last(ds), s)) <= mtu
             THEN [ds EXCEPT ![Len(ds)] = Append(@, s)]
             ELSE Append(ds, <<s>>),
           <<>>, segs)

\* Fault: the other end is never asked for its window.
probeWindow_Never(k, due) == [k EXCEPT !.probing = (k.rmt_wnd = 0)]

\* The probe timer: due says whether ts_probe has passed.
probeWindow(k, due) ==
  [k EXCEPT !.probing = (k.rmt_wnd = 0),
            !.probe = @ \cup (IF k.rmt_wnd = 0 /\ k.probing /\ due THEN {"ASK_SEND"} ELSE {})]

SendWindow(k) == Min({IKCP_WND_SND, k.rmt_wnd} \cup (IF mode.nocwnd THEN {} ELSE {k.cwnd}))

\* move data from snd_queue to snd_buf
toBuffer(k) ==
  LET n == Min({Len(k.snd_queue),
                Max({0, -itimediff(k.snd_nxt, k.snd_una + SendWindow(k))})})
  IN  [k EXCEPT !.snd_queue = SubSeq(@, n + 1, Len(@)),
                !.snd_nxt = (@ + n) % Wrap,
                !.snd_buf = @ \o [i \in 1 .. n |->
                   [sn |-> (k.snd_nxt + i - 1) % Wrap, frg |-> k.snd_queue[i].frg,
                    data |-> k.snd_queue[i].data, xmit |-> 0, fastack |-> 0]]]

\* Why a segment of snd_buf is sent; late is the set of segments past resendts.
Why(s, late) ==
  IF s.xmit = 0 THEN "new"
  ELSE IF s.sn \in late THEN "lost"
  ELSE IF /\ fastresend > 0 /\ s.fastack >= fastresend
          /\ IKCP_FASTACK_LIMIT = 0 \/ s.xmit <= IKCP_FASTACK_LIMIT THEN "fast"
  ELSE "no"

Resent(s, why) ==
  [s EXCEPT !.xmit = IF why = "no" THEN @ ELSE Min({@ + 1, MaxXmit}),
            !.fastack = IF why = "fast" THEN 0 ELSE @]

\* The windows after the segments have been sent for the reasons in whys.
congestion(k, whys, cwnd) ==
  LET sst1 == Max({IKCP_THRESH_MIN, itimediff(k.snd_nxt, k.snd_una) \div 2})
      j == IF "fast" \in whys
           THEN [k EXCEPT !.ssthresh = sst1, !.cwnd = sst1 + fastresend,
                          !.incr = (sst1 + fastresend) * mss]
           ELSE k
      l == IF "lost" \in whys
           THEN [j EXCEPT !.ssthresh = Max({IKCP_THRESH_MIN, cwnd \div 2})]
           ELSE j
  IN  IF mode.nocwnd THEN k
      ELSE IF "lost" \in whys \/ l.cwnd < 1 THEN [l EXCEPT !.cwnd = 1, !.incr = mss] ELSE l

\* The block after the flush and the datagrams it sends.
ikcp_flush(k, late, due) ==
  LET p == probeWindow(k, due)
      acks == [i \in 1 .. Len(k.acklist) |-> Segment(k, "ACK", k.acklist[i], 0, <<>>)]
      wask == IF "ASK_SEND" \in p.probe THEN <<Segment(k, "WASK", 0, 0, <<>>)>> ELSE <<>>
      wins == IF "ASK_TELL" \in p.probe THEN <<Segment(k, "WINS", 0, 0, <<>>)>> ELSE <<>>
      b == toBuffer([p EXCEPT !.acklist = <<>>, !.probe = {}])
      why == [i \in DOMAIN b.snd_buf |-> Why(b.snd_buf[i], late)]
      buf == [i \in DOMAIN b.snd_buf |-> Resent(b.snd_buf[i], why[i])]
      out == {i \in DOMAIN buf : why[i] # "no"}
      push == [i \in DOMAIN buf |-> Segment(k, "PUSH", buf[i].sn, buf[i].frg, buf[i].data)]
      dead == \E i \in out : buf[i].xmit >= IKCP_DEADLINK
  IN  IF ~k.updated THEN [k |-> k, out |-> <<>>]
      ELSE [k |-> congestion([b EXCEPT !.snd_buf = buf,
                                       !.state = IF dead THEN -1 ELSE @],
                             Range(why), SendWindow(p)),
            out |-> Datagrams(acks \o wask \o wins \o
                      [i \in 1 .. Cardinality(out) |-> push[SetToSortSeq(out, <)[i]]])]

-----------------------------------------------------------------------------
Init ==
  /\ mode \in Modes
  /\ kcp = [e \in End |-> ikcp_create]
  /\ net = [e \in End |-> {}]
  /\ sent = [e \in End |-> <<>>]
  /\ got = [e \in End |-> <<>>]

\* The bytes of the n-th message of end e.
Bytes(e, n, len) == [i \in 1 .. len |-> <<e, n, i>>]

send(e, len) ==
  /\ Len(sent[e]) < MaxSend[e]
  /\ LET r == ikcp_send(kcp[e], Bytes(e, Len(sent[e]) + 1, len)) IN
       /\ kcp' = [kcp EXCEPT ![e] = r.k]
       /\ sent' = IF r.queued = <<>> THEN sent ELSE [sent EXCEPT ![e] = Append(@, r.queued)]
  /\ UNCHANGED <<mode, net, got>>

\* The network takes some of the datagrams and loses the others.
transmit(e, ds) ==
  \E taken \in SUBSET Range(ds) :
    /\ Cardinality(net[Peer(e)] \cup taken) <= mode.room[Peer(e)]
    /\ net' = [net EXCEPT ![Peer(e)] = @ \cup taken]

\* ikcp_update when ts_flush has passed, which the first call makes true.  A call
\* before that changes nothing, and neither does flushKcp before the first
\* update; after it, flushKcp does what update does.
update(e) ==
  \E late \in SUBSET {s.sn : s \in {t \in Range(kcp[e].snd_buf) : t.xmit > 0}}, due \in BOOLEAN :
    LET r == ikcp_flush([kcp[e] EXCEPT !.updated = TRUE], late, due) IN
    /\ kcp' = [kcp EXCEPT ![e] = r.k]
    /\ transmit(e, r.out)
    /\ UNCHANGED <<mode, sent, got>>

\* A datagram arrives; keep: the network will deliver it again.
input(e, d, keep) ==
  /\ kcp' = [kcp EXCEPT ![e] = ikcp_input(@, d)]
  /\ Len(kcp'[e].acklist) <= MaxAck
  /\ net' = IF keep THEN net ELSE [net EXCEPT ![e] = @ \ {d}]
  /\ UNCHANGED <<mode, sent, got>>

\* KcpSessionBase::update reads a message if there is one.
recv(e) ==
  /\ peeksize(kcp[e]) > 0
  /\ kcp' = [kcp EXCEPT ![e] = ikcp_recv(@)]
  /\ got' = [got EXCEPT ![e] = Append(@, Merged(kcp[e].rcv_queue))]
  /\ UNCHANGED <<mode, net, sent>>

Next ==
  \E e \in End :
    \/ \E len \in mode.lens : send(e, len)
    \/ update(e)
    \/ \E d \in net[e], keep \in BOOLEAN : input(e, d, keep)
    \/ recv(e)

Spec == Init /\ [][Next]_vars

-----------------------------------------------------------------------------
(***************************************************************************)
(* Properties                                                              *)
(***************************************************************************)

\* What one end receives is what the other has sent, in order, nothing twice and
\* nothing left out: whole messages, or in stream mode the same bytes.
DeliveredInOrder ==
  \A e \in End :
    IF mode.stream
    THEN IsPrefix(FlattenSeq(got[e]), FlattenSeq(sent[Peer(e)]))
    ELSE IsPrefix(got[e], sent[Peer(e)])

\* A segment leaves snd_buf only when the other end holds it or has passed it
\* on: parse_ack and parse_una never forget data the receiver has dropped.
AckedIsReceived ==
  \A e \in End :
    LET k == kcp[e]
        j == kcp[Peer(e)] IN
    \A i \in 0 .. itimediff(k.snd_nxt, First) - 1 :
      LET sn == (First + i) % Wrap IN
      \/ \E s \in Range(k.snd_buf) : s.sn = sn
      \/ itimediff(sn, j.rcv_nxt) < 0
      \/ \E s \in Range(j.rcv_buf) : s.sn = sn

\* What an end stores is bounded by its windows, and the sender never has more
\* than a window of segments outstanding: the receive queue and buffer, and
\* snd_buf, which is sorted and starts at snd_una.
WindowsHold ==
  \A e \in End :
    LET k == kcp[e] IN
    /\ Len(k.rcv_queue) <= IKCP_WND_RCV
    /\ \A i \in 1 .. Len(k.rcv_buf) :
         /\ InWindow(k, k.rcv_buf[i].sn)
         /\ i > 1 => itimediff(k.rcv_buf[i].sn, k.rcv_buf[i - 1].sn) > 0
    /\ itimediff(k.snd_nxt, k.snd_una) \in 0 .. IKCP_WND_SND
    /\ \A s \in Range(k.snd_buf) : Outstanding(k, s.sn)

\* Neither end of ikcp forgets a segment or stores one out of its window.
SegmentsKept == AckedIsReceived /\ WindowsHold

\* A receive queue that is full holds a whole message: otherwise recv never
\* makes room, the rest of the message is never accepted, and the connection
\* stands still for good.
FullQueueReadable ==
  \A e \in End : Len(kcp[e].rcv_queue) >= IKCP_WND_RCV => peeksize(kcp[e]) > 0

\* When no datagram is under way, no message can be read and no timer makes an
\* end send anything, everything that was sent has been delivered: a receiver
\* that had no room does not leave the sender waiting for news of its window.
QuietIsDone ==
  LET all == 0 .. Wrap - 1
      soon(k) == ikcp_flush([k EXCEPT !.updated = TRUE], all, TRUE)
  IN  (\A e \in End : /\ net[e] = {} /\ peeksize(kcp[e]) <= 0
                      /\ soon(kcp[e]).out = <<>> /\ soon(soon(kcp[e]).k).out = <<>>)
      => \A e \in End : FlattenSeq(got[e]) = FlattenSeq(sent[Peer(e)])

\* ikcp never stands still with something left to deliver.
NeverStuck == FullQueueReadable /\ QuietIsDone

=============================================================================
