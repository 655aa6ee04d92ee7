----------------------------- MODULE KcpSession -----------------------------
(***************************************************************************)
(* KCP sessions: KcpServer, KcpClient and KcpSession over UDP              *)
(* (src/src/network/KcpServer.cpp, KcpClient.cpp, KcpSession.cpp).  A      *)
(* client asks for a session with a set-up datagram, the server makes one  *)
(* and answers with its number, and both sides then keep a KcpSession for  *)
(* that number in a map until it is closed.                                *)
(*                                                                         *)
(* The network loses, repeats and reorders datagrams: net holds every      *)
(* datagram ever sent, and any of them may be received at any time, once,  *)
(* often or never.  ikcp itself is external: ikcp_input accepts or rejects *)
(* a datagram, and one that it accepts completes some messages or none.    *)
(*                                                                         *)
(* The application may call closeSession in every callback, at most once   *)
(* in each, and between them.  It drops its pointer to a session in        *)
(* onClose.                                                                *)
(***************************************************************************)
EXTENDS Integers, FiniteSets

CONSTANTS
  CLOCK,      \* XTime::iclock counts modulo CLOCK, a uint32
  Timeout,    \* __m_nTimeout
  Interval,   \* the longest delay that ikcp_check asks for
  MaxObject,  \* bound: KcpSession objects of both sides
  MaxSession, \* bound: sessions the server makes
  MaxSetup,   \* bound: calls of createSession
  MaxMsg,     \* bound: messages that wait in a session
  MinTime,    \* the time when the run starts
  MaxTime     \* bound: the time when it ends

ASSUME KcpSessionAssumption ==
  /\ {CLOCK, Timeout} \subseteq Nat \ {0}
  /\ {Interval, MaxObject, MaxSession, MaxSetup, MaxMsg, MinTime, MaxTime} \subseteq Nat
  /\ Timeout < CLOCK
  /\ MinTime <= MaxTime

VARIABLES
  gSessionid,    \* the number of the last session
  mapSessions,   \* __m_mapSessions of both sides: the object or 0
  ses,           \* the objects, see SessionType
  early,         \* history: onUdpTimeout was called although the session had
                 \* heard something at this time, less than the timeout ago
  net,           \* the datagrams that have been sent
  open,          \* the server receives: shutdown has not been called
  setups,        \* number of calls of createSession
  now,           \* the time
  fault,         \* deleted or NULL memory has been used
  cause          \* history: what the application or network did to get there

sesVars == <<gSessionid, mapSessions, ses, early>>
envVars == <<open, setups, now>>
vars == <<gSessionid, mapSessions, ses, early, net, open, setups, now, fault, cause>>

\* KcpSession objects, in the order of their creation.
Object == 1 .. MaxObject

Side == {"server", "client"}
Conv == 1 .. MaxSession
Other(s) == IF s = "server" THEN "client" ELSE "server"

Setup == [to |-> "server", kind |-> "setup", conv |-> 0]
Reply(k) == [to |-> "client", kind |-> "setup", conv |-> k]
Data(s, k) == [to |-> Other(s), kind |-> "data", conv |-> k]
Datagram == [to : Side, kind : {"setup", "data"}, conv : 0 .. MaxSession]

\* conv, upd and talk are __m_kcp->conv, __m_nUpdateTime and __m_nTalkTime.
\* waiting counts the messages that are complete in ikcp and have not been
\* passed to onMsg.  History: heard is the time of the last onMsg or of the
\* start, closes the number of calls of onClose.
SessionType ==
  [side : Side, conv : 0 .. MaxSession, state : {"none", "live", "deleted"},
   upd : 0 .. CLOCK - 1, talk : 0 .. CLOCK - 1, waiting : 0 .. MaxMsg,
   heard : Nat, closes : 0 .. 1]

NoSession ==
  [side |-> "server", conv |-> 0, state |-> "none", upd |-> 0, talk |-> 0,
   waiting |-> 0, heard |-> 0, closes |-> 0]

Live(w) == {o \in Object : w.ses[o].state = "live"}

-----------------------------------------------------------------------------
(***************************************************************************)
(* The maps and the objects, as one value that callbacks transform         *)
(***************************************************************************)

World == [map |-> mapSessions, ses |-> ses]
becomes(w) == mapSessions' = w.map /\ ses' = w.ses

\* createConnect, init, start and the entry in the map.
Created(s, k, o) ==
  [map |-> [mapSessions EXCEPT ![s][k] = o],
   ses |-> [ses EXCEPT ![o] = [NoSession EXCEPT !.side = s, !.conv = k, !.state = "live",
                                                !.talk = now % CLOCK, !.heard = now]]]

\* release: destory, over, onClose, destroyConnect.
release(w, o) ==
  [w EXCEPT !.ses[o] = [NoSession EXCEPT !.state = "deleted", !.closes = w.ses[o].closes + 1]]

\* Fault: the entry stays in the map.
closeSession_NoErase(w, o) ==
  IF o = 0 \/ w.map[w.ses[o].side][w.ses[o].conv] = 0 THEN w ELSE release(w, o)

\* closeSession(o); o = 0 stands for no call.  The entry under the number of
\* the session is erased, whichever session it holds.
closeSession(w, o) ==
  IF o = 0 \/ w.map[w.ses[o].side][w.ses[o].conv] = 0
  THEN w
  ELSE release([w EXCEPT !.map[w.ses[o].side][w.ses[o].conv] = 0], o)

\* What a callback of side s may close.
Closable(w, s) == {0} \cup {o \in Live(w) : w.ses[o].side = s}

-----------------------------------------------------------------------------
Init ==
  /\ gSessionid = 0
  /\ mapSessions = [s \in Side |-> [k \in Conv |-> 0]]
  /\ ses = [o \in Object |-> NoSession]
  /\ early = {}
  /\ net = {}
  /\ open = TRUE
  /\ setups = 0
  /\ now = MinTime
  /\ fault = FALSE
  /\ cause = {}

\* KcpClient::createSession sends one set-up request and never repeats it.
createSession ==
  /\ setups < MaxSetup
  /\ setups' = setups + 1
  /\ net' = net \cup {Setup}
  /\ UNCHANGED <<sesVars, open, now, fault, cause>>

\* A new object on side s for session k, then onAccept or onConnect.
newSession(s, k) ==
  \E o \in Object :
    /\ ses[o].state = "none"
    /\ \A p \in 1 .. o - 1 : ses[p].state # "none"
    /\ \E c \in Closable(Created(s, k, o), s) : becomes(closeSession(Created(s, k, o), c))
    /\ UNCHANGED early

\* KcpServer::onMessage, a set-up request.
serverSetup ==
  /\ open
  /\ Setup \in net
  /\ gSessionid < MaxSession
  /\ gSessionid' = gSessionid + 1
  /\ newSession("server", gSessionid + 1)
  /\ net' = net \cup {Reply(gSessionid + 1)}
  /\ UNCHANGED <<envVars, fault, cause>>

\* KcpClient::onMessage, a set-up answer.  A second one for the same number
\* replaces the entry of the first.
clientSetup(k) ==
  /\ Reply(k) \in net
  /\ newSession("client", k)
  /\ cause' = cause \cup
       (IF \E o \in Live(World) : ses[o].side = "client" /\ ses[o].conv = k
        THEN {"repeated answer"} ELSE {})
  /\ UNCHANGED <<gSessionid, net, envVars, fault>>

-----------------------------------------------------------------------------
(***************************************************************************)
(* KcpSession::update                                                      *)
(***************************************************************************)

\* currt + what ikcp_check adds.  The bound MaxTime is never passed.
NextUpdate == {(now + d) % CLOCK : d \in {e \in 0 .. Interval : now + e <= MaxTime}}

\* What onMsg may close, if session o of world w has a message to call it with.
OnMsgCloses(w, o) ==
  IF w.ses[o].waiting > 0 THEN Closable(w, w.ses[o].side) ELSE {0}

\* Fault: the time of the message is not noted.
passed_NoTalkTime(w, o) ==
  IF w.ses[o].waiting > 0
  THEN [w EXCEPT !.ses[o].waiting = @ - 1, !.ses[o].heard = now]
  ELSE w

\* At most one message is passed to onMsg, which notes the time.
passed(w, o) ==
  IF w.ses[o].waiting > 0
  THEN [w EXCEPT !.ses[o].waiting = @ - 1, !.ses[o].talk = now % CLOCK, !.ses[o].heard = now]
  ELSE w

\* KcpSessionBase::update on o in world w, where onMsg closes c and u is what
\* ikcp_check gives.
Updated(w, o, c, u) ==
  LET v == closeSession(passed(w, o), c) IN
  IF v.ses[o].state = "live" THEN [v EXCEPT !.ses[o].upd = u] ELSE v

\* update goes on to use the object when onMsg has returned.
afterMsg(w, o, c) ==
  /\ fault' = (w.ses[o].state # "live")
  /\ cause' = cause \cup (IF c = o THEN {"close in onMsg"} ELSE {})

\* The condition under which update calls onUdpTimeout, in uint32.
TimedOut(talk) == now % CLOCK > (talk + Timeout) % CLOCK

\* The second half of update: onUdpTimeout may close a session.
checkTimeout(w, o) ==
  IF w.ses[o].state = "live" /\ TimedOut(w.ses[o].talk)
  THEN /\ \E c \in Closable(w, w.ses[o].side) : becomes(closeSession(w, c))
       /\ early' = early \cup {h \in {w.ses[o].heard} : now - h <= Timeout}
  ELSE becomes(w) /\ UNCHANGED early

\* The condition under which the timer updates ikcp.
Due(o) == now % CLOCK >= ses[o].upd

\* KcpSession::update, called by the timer: ikcp is updated if it asked for it,
\* and may send.
timerUpdate(o) ==
  /\ ses[o].state = "live"
  /\ Due(o)
  /\ \E u \in NextUpdate, c \in OnMsgCloses(World, o) :
       LET w == Updated(World, o, c, u) IN
       /\ afterMsg(w, o, c)
       /\ checkTimeout(w, o)
  /\ net' \in {net, net \cup {Data(ses[o].side, ses[o].conv)}}
  /\ UNCHANGED <<gSessionid, envVars>>

\* The same when ikcp has not asked for it yet.
timerWait(o) ==
  /\ ses[o].state = "live"
  /\ ~Due(o)
  /\ checkTimeout(World, o)
  /\ UNCHANGED <<gSessionid, net, envVars, fault, cause>>

-----------------------------------------------------------------------------
(***************************************************************************)
(* onMessage with a datagram of a session                                  *)
(***************************************************************************)

\* The object that onMessage of side s finds for d.
Found(s, d) == mapSessions[s][d.conv]

Receives(s, d) ==
  /\ s = "server" => open
  /\ d \in net
  /\ d.to = s /\ d.kind = "data"

\* ikcp_input accepts it, and it completes some messages or none: updateKcp.
\* A datagram without a session is ignored.
recv(s, d) ==
  /\ Receives(s, d)
  /\ LET o == Found(s, d) IN
       /\ o # 0
       /\ \E n \in ses[o].waiting .. MaxMsg, u \in NextUpdate :
            LET w == [World EXCEPT !.ses[o].waiting = n] IN
            \E c \in OnMsgCloses(w, o) :
              /\ becomes(Updated(w, o, c, u))
              /\ afterMsg(Updated(w, o, c, u), o, c)
  /\ net' \in {net, net \cup {Data(s, d.conv)}}
  /\ UNCHANGED <<gSessionid, early, envVars>>

\* Fault: the session is released but stays in the map.
recvFails_NoErase(s, d) ==
  /\ Receives(s, d)
  /\ LET o == Found(s, d) IN
       /\ o # 0
       /\ becomes(release(World, o))
       /\ fault' = (ses[o].state # "live")
  /\ UNCHANGED <<gSessionid, early, net, envVars, cause>>

\* ikcp_input rejects it: the session is released, then its entry is erased
\* through the iterator, which is invalid if onClose made closeSession erase
\* the entry.  sendMsg in onClose runs into the NULL __m_kcp.
recvFails(s, d) ==
  /\ Receives(s, d)
  /\ LET o == Found(s, d) IN
       /\ o # 0
       /\ \E c \in Closable(release(World, o), s), bye \in BOOLEAN :
            LET w == closeSession(release(World, o), c) IN
            /\ becomes([w EXCEPT !.map[s][d.conv] = 0])
            /\ fault' = (bye \/ ses[o].state # "live" \/ w.map[s][d.conv] = 0)
            /\ cause' = cause \cup (IF bye THEN {"send in onClose"} ELSE {})
  /\ UNCHANGED <<gSessionid, early, net, envVars>>

-----------------------------------------------------------------------------
(***************************************************************************)
(* The application and the network                                         *)
(***************************************************************************)

\* closeSession outside the callbacks.
appClose(o) ==
  /\ ses[o].state = "live"
  /\ becomes(closeSession(World, o))
  /\ \E bye \in {FALSE, closeSession(World, o) # World} :
       /\ fault' = bye
       /\ cause' = cause \cup (IF bye THEN {"send in onClose"} ELSE {})
  /\ UNCHANGED <<gSessionid, early, net, envVars>>

sendMsg(o) ==
  /\ ses[o].state = "live"
  /\ net' = net \cup {Data(ses[o].side, ses[o].conv)}
  /\ UNCHANGED <<sesVars, envVars, fault, cause>>

shutdown ==
  /\ open
  /\ open' = FALSE
  /\ UNCHANGED <<sesVars, net, setups, now, fault, cause>>

tick ==
  /\ now < MaxTime
  /\ now' = now + 1
  /\ UNCHANGED <<sesVars, net, open, setups, fault, cause>>

onMessage(d) ==
  \E s \in Side : recv(s, d) \/ recvFails(s, d)

timer(o) == timerUpdate(o) \/ timerWait(o)

running == ~fault

Next ==
  /\ running
  /\ \/ createSession
     \/ serverSetup
     \/ \E k \in Conv : clientSetup(k)
     \/ \E d \in net : onMessage(d)
     \/ \E o \in Object : timer(o)
     \/ \E o \in Object : appClose(o)
     \/ \E o \in Object : sendMsg(o)
     \/ shutdown
     \/ tick

Spec == Init /\ [][Next]_vars

-----------------------------------------------------------------------------
(***************************************************************************)
(* Properties                                                              *)
(***************************************************************************)

TypeOK ==
  /\ gSessionid \in 0 .. MaxSession
  /\ mapSessions \in [Side -> [Conv -> Object \cup {0}]]
  /\ ses \in [Object -> SessionType]
  /\ early \subseteq Nat
  /\ net \subseteq Datagram
  /\ open \in BOOLEAN
  /\ setups \in 0 .. MaxSetup
  /\ now \in MinTime .. MaxTime
  /\ fault \in BOOLEAN
  /\ cause \subseteq {"repeated answer", "close in onMsg", "send in onClose"}

\* Whatever the network loses, repeats and reorders: an entry of a map is a
\* live session of that side and number, and every live session of the server
\* can be found under its number, so that its datagrams reach it and it can be
\* closed.  The client loses one only if a set-up answer is repeated.
SessionsMapped ==
  running =>
    /\ \A s \in Side, k \in Conv :
         LET o == mapSessions[s][k] IN
         o # 0 => ses[o].state = "live" /\ ses[o].side = s /\ ses[o].conv = k
    /\ \A o \in Live(World) :
         \/ mapSessions[ses[o].side][ses[o].conv] = o
         \/ ses[o].side = "client" /\ "repeated answer" \in cause

\* The session tables of both sides are right (KcpServer and KcpClient).
SessionsSafe == TypeOK /\ SessionsMapped

\* A session is closed once: every deleted object has had its onClose, no
\* other one has, and no memory is used after it is freed, unless the
\* application closes a session in its own onMsg or sends in onClose, or a
\* set-up answer is repeated.
ClosedOnce ==
  /\ \A o \in Object : ses[o].closes = IF ses[o].state = "deleted" THEN 1 ELSE 0
  /\ fault => cause # {}

\* onUdpTimeout, "the connection has timed out", is only called for a session
\* that has had no message for longer than its timeout, or had the last one so
\* near the end of the clock that __m_nTalkTime + __m_nTimeout wraps
\* (KcpSession.cpp:144): such a session may be told at once.
TimeoutsHonest == \A h \in early : (h % CLOCK) + Timeout >= CLOCK

=============================================================================
