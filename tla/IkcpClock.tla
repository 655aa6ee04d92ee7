----------------------------- MODULE IkcpClock ------------------------------
(***************************************************************************)
(* The clock of a KCP control block (src/src/network/ikcp.cpp): when       *)
(* ikcp_update flushes, what ikcp_check answers, when a segment is sent    *)
(* again, when the window is probed, and the estimate of the round trip.   *)
(* Module Ikcp leaves these times open.                                    *)
(*                                                                         *)
(* The caller is KcpSession (src/src/network/KcpSession.cpp): a timer,     *)
(* called at least every Slack, compares the raw uint32 clock with the one *)
(* kept from ikcp_check (__m_nUpdateTime), with no regard to the end of    *)
(* the clock; each datagram is followed by an update and a new check, and  *)
(* the script may flush at any time.  One segment is followed.             *)
(***************************************************************************)
EXTENDS Integers, FiniteSets, FiniteSetsExt

CONSTANTS
  Clock,        \* the clock counts modulo Clock, a uint32
  JUMP,         \* a difference that ikcp_update takes for a jump of the clock
  interval, nodelay, rx_minrto, IKCP_RTO_DEF, IKCP_RTO_MAX,
  IKCP_PROBE_INIT, IKCP_PROBE_LIMIT,
  Slack,        \* the timer calls update at least this often
  Start,        \* the time when the run starts
  MaxTime       \* bound: the time when it ends

ASSUME IkcpClockAssumption ==
  /\ {Clock, JUMP, interval, rx_minrto, IKCP_RTO_DEF, IKCP_RTO_MAX,
      IKCP_PROBE_INIT, IKCP_PROBE_LIMIT} \subseteq Nat \ {0}
  /\ {Slack, Start, MaxTime} \subseteq Nat
  /\ nodelay \in BOOLEAN
  /\ 2 * JUMP < Clock /\ interval + Slack < JUMP
  /\ rx_minrto <= IKCP_RTO_DEF /\ IKCP_RTO_DEF <= IKCP_RTO_MAX
  /\ IKCP_PROBE_INIT <= IKCP_PROBE_LIMIT /\ 2 * IKCP_PROBE_LIMIT < Clock

VARIABLES
  now,   \* the time, not reduced modulo Clock
  cb,    \* the control block
  seg,   \* the segment: none, in snd_queue, or in snd_buf
  next,  \* ghost: the time for which ikcp_check asked, not reduced
  upd,   \* __m_nUpdateTime: the same as the session keeps it
  called,\* when the timer last called update, not reduced
  shut   \* the other end has reported a window of 0

clockVars == <<now, cb, seg, next, upd, called, shut>>

itime(later, earlier) ==
  LET d == (later - earlier) % Clock IN IF 2 * d < Clock THEN d ELSE d - Clock

NoSeg == [at |-> "none", ts |-> 0, resendts |-> 0, rto |-> 0]

Fresh ==
  [current |-> 0, updated |-> FALSE, ts_flush |-> interval, ts_probe |-> 0, probe_wait |-> 0,
   srtt |-> 0, rttval |-> 0, rto |-> IKCP_RTO_DEF]

\* ikcp_update_ack
update_ack(k, rtt) ==
  LET delta == Max({rtt - k.srtt, k.srtt - rtt})
      rttval == IF k.srtt = 0 THEN rtt \div 2 ELSE (3 * k.rttval + delta) \div 4
      srtt == IF k.srtt = 0 THEN rtt ELSE Max({1, (7 * k.srtt + rtt) \div 8})
      rto == srtt + Max({interval, 4 * rttval})
  IN  [k EXCEPT !.srtt = srtt, !.rttval = rttval,
                !.rto = Min({Max({rx_minrto, rto}), IKCP_RTO_MAX})]

\* The probe timer of ikcp_flush; closed: the other end's window is 0.
probed(k, closed) ==
  IF ~closed THEN [k EXCEPT !.ts_probe = 0, !.probe_wait = 0]
  ELSE IF k.probe_wait = 0
  THEN [k EXCEPT !.probe_wait = IKCP_PROBE_INIT,
                 !.ts_probe = (k.current + IKCP_PROBE_INIT) % Clock]
  ELSE IF itime(k.current, k.ts_probe) >= 0
  THEN LET w == Max({k.probe_wait, IKCP_PROBE_INIT})
           wait == Min({w + w \div 2, IKCP_PROBE_LIMIT})
       IN  [k EXCEPT !.probe_wait = wait, !.ts_probe = (k.current + wait) % Clock]
  ELSE k

\* The segment after ikcp_flush with block k.
flushed(k, s, closed) ==
  CASE s.at = "queue" /\ ~closed ->
         [at |-> "buf", ts |-> k.current, rto |-> k.rto,
          resendts |-> (k.current + k.rto + (IF nodelay THEN 0 ELSE k.rto \div 8)) % Clock]
    [] s.at = "buf" /\ itime(k.current, s.resendts) >= 0 ->
         LET rto == s.rto + (IF nodelay THEN k.rto \div 2 ELSE k.rto)
         IN  [s EXCEPT !.ts = k.current, !.rto = rto,
                       !.resendts = (k.current + rto) % Clock]
    [] OTHER -> s

\* ikcp_update reaches ikcp_flush at time t, and ts_flush before it moves on.
FlushDue(k, t) ==
  LET slap == itime(t, k.ts_flush) IN ~k.updated \/ slap >= 0 \/ slap < -JUMP

\* The block that ikcp_update leaves at time t, without what ikcp_flush does.
updated(k, t) ==
  LET slap == itime(t, k.ts_flush)
      base == IF ~k.updated \/ slap >= JUMP \/ slap < -JUMP THEN t ELSE k.ts_flush
      step == IF itime(t, base + interval) >= 0 THEN t ELSE base
  IN  [k EXCEPT !.current = t, !.updated = TRUE,
                !.ts_flush = IF FlushDue(k, t) THEN (step + interval) % Clock ELSE @]

\* Fault: the segment's timer is not looked at.
ikcp_check_NoSegment(k, s, t) ==
  IF FlushDue(k, t) THEN 0 ELSE itime(k.ts_flush, t)

\* How long after t ikcp_check asks to be called.
ikcp_check(k, s, t) ==
  IF FlushDue(k, t) \/ (s.at = "buf" /\ itime(s.resendts, t) <= 0) THEN 0
  ELSE Min({itime(k.ts_flush, t), interval}
           \cup (IF s.at = "buf" THEN {itime(s.resendts, t)} ELSE {}))

-----------------------------------------------------------------------------
ClockInit ==
  /\ now = Start /\ called = Start
  /\ cb = Fresh
  /\ seg = NoSeg
  /\ next = Start /\ upd = 0
  /\ shut = FALSE

\* Time passes.
clockTick ==
  /\ now < called + Slack
  /\ now < MaxTime
  /\ now' = now + 1
  /\ UNCHANGED <<cb, seg, next, upd, called, shut>>

\* KcpSessionBase::update: ikcp_update and then ikcp_check, of a block k, a
\* segment s and the other end's window as a datagram has left them.
Update(k, s, closed) ==
  LET t == now % Clock
      flush == FlushDue(k, t)
      after == updated(k, t)
  IN  /\ seg' = IF flush THEN flushed(after, s, closed) ELSE s
      /\ cb' = IF flush THEN probed(after, closed) ELSE after
      /\ shut' = closed
      /\ LET wait == ikcp_check(cb', seg', t)
         IN  next' = now + wait /\ upd' = (t + wait) % Clock

\* KcpSession::update, which the timer calls: too early after the end of the
\* clock, or not at all, if upd is on the other side of it.
clockUpdate ==
  /\ called' = now
  /\ IF now % Clock >= upd THEN Update(cb, seg, shut) ELSE UNCHANGED <<cb, seg, next, upd, shut>>
  /\ UNCHANGED now

\* flushKcp after sendMsg: current is still the time of the last update.
clockFlush ==
  /\ cb.updated
  /\ seg' = flushed(cb, seg, shut)
  /\ cb' = probed(cb, shut)
  /\ UNCHANGED <<now, next, upd, called, shut>>

clockSend ==
  /\ seg.at = "none"
  /\ seg' = [NoSeg EXCEPT !.at = "queue"]
  /\ UNCHANGED <<now, cb, next, upd, called, shut>>

\* A datagram arrives, and updateKcp follows.  It reports the other end's
\* window, and may acknowledge the segment with the time of a transmission.
clockDatagram ==
  /\ \E closed \in BOOLEAN :
       \/ Update(cb, seg, closed)
       \/ /\ seg.at = "buf"
          /\ \E back \in {0, 1} :
               LET rtt == itime(cb.current, seg.ts - back) IN
               Update(IF rtt >= 0 THEN update_ack(cb, rtt) ELSE cb, NoSeg, closed)
  /\ UNCHANGED <<now, called>>

ClockNext ==
  \/ clockTick
  \/ clockUpdate
  \/ clockFlush
  \/ clockSend
  \/ clockDatagram

ClockSpec == ClockInit /\ [][ClockNext]_clockVars

-----------------------------------------------------------------------------
\* The clock has ended between the time asked for and now: upd is ahead of the
\* clock, and the session waits for a round of it or for a datagram
\* (KcpSession.cpp:138-141).
Overslept == now \div Clock > next \div Clock /\ now % Clock < upd

\* Unless the session has overslept the end of the clock, it serves every timer:
\* no segment waits more than an interval and the timer's period past its
\* resendts, and none waits longer than that for the next flush, when upd is a
\* time behind the end of the clock too.
TimersServed ==
  (cb.updated /\ ~Overslept) =>
    LET t == now % Clock IN
    /\ itime(t, cb.ts_flush) <= Slack
    /\ seg.at = "buf" => itime(t, seg.resendts) <= interval + Slack
    /\ shut /\ cb.probe_wait > 0 => itime(t, cb.ts_probe) <= interval + Slack

\* ikcp_check never asks for a time after one at which there is something to do.
CheckHonest ==
  LET t == now % Clock
      d == ikcp_check(cb, seg, t)
  IN  \A i \in 0 .. d - 1 :
        /\ ~FlushDue(cb, t + i)
        /\ seg.at = "buf" => itime(seg.resendts, t + i) > 0

\* ikcp_check and ikcp_update together keep the promise KcpSession relies on.
ClockSound == TimersServed /\ CheckHonest

=============================================================================
