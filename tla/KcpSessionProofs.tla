-------------------------- MODULE KcpSessionProofs --------------------------
(***************************************************************************)
(* Proofs about KcpSession, for any number of sessions, objects, messages  *)
(* and datagrams, and any losses, repetitions and reorderings of them.     *)
(***************************************************************************)
EXTENDS KcpSession, TLAPS

-----------------------------------------------------------------------------
(***************************************************************************)
(* The inductive invariant                                                 *)
(***************************************************************************)

MapType == [Side -> [Conv -> Object \cup {0}]]
WorldType == [map : MapType, ses : [Object -> SessionType]]

\* Every entry of a map is a live session of that side and number.
EntriesLive(w) ==
  \A s \in Side, k \in Conv :
    w.map[s][k] # 0 => /\ w.ses[w.map[s][k]].state = "live"
                       /\ w.ses[w.map[s][k]].side = s
                       /\ w.ses[w.map[s][k]].conv = k

\* Every live session has a number that was given out, g being the last one of
\* the server, and can be found unless an answer was repeated (cs is cause).
LiveMapped(w, g, cs) ==
  \A o \in Object : w.ses[o].state = "live" =>
    /\ w.ses[o].conv \in Conv
    /\ w.ses[o].side = "server" => w.ses[o].conv <= g
    /\ \/ w.map[w.ses[o].side][w.ses[o].conv] = o
       \/ w.ses[o].side = "client" /\ "repeated answer" \in cs

\* A deleted session has had its onClose, and no other one has.
ClosesCounted(w) ==
  \A o \in Object : w.ses[o].closes = IF w.ses[o].state = "deleted" THEN 1 ELSE 0

uint32(t) == t % CLOCK

\* The time of the last message that a live session keeps is the real one, in
\* uint32.
TalkKnown(w, t) ==
  \A o \in Object : w.ses[o].state = "live" =>
    w.ses[o].heard <= t /\ w.ses[o].talk = uint32(w.ses[o].heard)

Good(w, g, cs, t) ==
  /\ w \in WorldType
  /\ EntriesLive(w)
  /\ LiveMapped(w, g, cs)
  /\ ClosesCounted(w)
  /\ TalkKnown(w, t)

\* Datagrams of a session carry a number that was given out.
NetInv == \A d \in net : d.kind = "data" => d.conv \in Conv

\* The rest of the types; a fault has a cause; and the timeout is honest unless
\* it wraps.
EnvInv ==
  /\ gSessionid \in 0 .. MaxSession
  /\ early \subseteq Nat
  /\ net \subseteq Datagram
  /\ NetInv
  /\ open \in BOOLEAN
  /\ setups \in 0 .. MaxSetup
  /\ now \in MinTime .. MaxTime
  /\ fault \in BOOLEAN
  /\ cause \subseteq {"repeated answer", "close in onMsg", "send in onClose"}
  /\ fault => cause # {}
  /\ TimeoutsHonest

IInv == EnvInv /\ Good(World, gSessionid, cause, now)

-----------------------------------------------------------------------------
(***************************************************************************)
(* Facts about the clock and the objects                                   *)
(***************************************************************************)

\* A time in uint32.
LEMMA ClockValue ==
  ASSUME NEW n \in Nat
  PROVE  /\ uint32(n) \in 0 .. CLOCK - 1
         /\ n < CLOCK => uint32(n) = n
  BY KcpSessionAssumption DEF uint32

\* A time a little later, as long as the clock does not end.
LEMMA ClockLater ==
  ASSUME NEW n \in Nat, NEW d \in Nat, uint32(n) + d < CLOCK
  PROVE  uint32(n + d) = uint32(n) + d
<1>1. CLOCK \in Nat \ {0}
  BY KcpSessionAssumption
<1>2. PICK q \in Int, r \in 0 .. CLOCK - 1 : n = CLOCK * q + r /\ r = uint32(n)
  BY <1>1 DEF uint32
<1>3. PICK p \in Int, t \in 0 .. CLOCK - 1 : n + d = CLOCK * p + t /\ t = uint32(n + d)
  BY <1>1 DEF uint32
<1>4. PICK k \in Int : k = p - q
  OBVIOUS
<1>5. r + d = CLOCK * k + t
  BY <1>1, <1>2, <1>3, <1>4
<1>6. k = 0
  <2>1. CASE k >= 1
    <3>1. CLOCK * k >= CLOCK
      BY <1>1, <2>1
    <3> QED
      BY <1>1, <1>2, <1>3, <1>5, <3>1
  <2>2. CASE k <= -1
    <3>1. CLOCK * k <= -CLOCK
      BY <1>1, <2>2
    <3> QED
      BY <1>1, <1>2, <1>3, <1>5, <3>1
  <2> QED
    BY <2>1, <2>2
<1>7. r + d = t
  <2>1. CLOCK * k = 0
    BY <1>1, <1>6
  <2> QED
    BY <1>2, <1>3, <1>5, <2>1
<1> QED
  BY <1>2, <1>3, <1>7

\* The constants are numbers.
LEMMA Bounds ==
  /\ CLOCK \in Nat \ {0} /\ Timeout \in Nat \ {0}
  /\ Interval \in Nat /\ MaxObject \in Nat /\ MaxSession \in Nat /\ MaxSetup \in Nat
  /\ MaxMsg \in Nat /\ MinTime \in Nat /\ MaxTime \in Nat
  /\ 0 \notin Object /\ 0 \notin Conv
  BY KcpSessionAssumption DEF Object, Conv

\* An object that is not made yet.
LEMMA NoSessionType ==
  /\ NoSession \in SessionType
  /\ NoSession.state = "none" /\ NoSession.closes = 0
  BY Bounds DEF NoSession, SessionType, Side

\* What release leaves of an object, and a world with an entry erased.
Gone == [NoSession EXCEPT !.state = "deleted", !.closes = 1]
Unmap(w, s, k) == [w EXCEPT !.map[s][k] = 0]

\* The type of a deleted object.
LEMMA GoneType ==
  Gone \in SessionType /\ Gone.state = "deleted" /\ Gone.closes = 1
<1>1. Gone = [side |-> "server", conv |-> 0, state |-> "deleted", upd |-> 0, talk |-> 0,
              waiting |-> 0, heard |-> 0, closes |-> 1]
  <2>1. PICK g : g = [NoSession EXCEPT !.state = "deleted", !.closes = 1]
    OBVIOUS
  <2>2. g = [side |-> "server", conv |-> 0, state |-> "deleted", upd |-> 0, talk |-> 0,
             waiting |-> 0, heard |-> 0, closes |-> 1]
    BY <2>1 DEF NoSession
  <2>3. Gone = g
    BY <2>1 DEF Gone
  <2> QED
    BY <2>2, <2>3
<1>2. /\ 0 \in 0 .. CLOCK - 1 /\ 0 \in 0 .. MaxSession /\ 0 \in 0 .. MaxMsg
      /\ 1 \in 0 .. 1 /\ "server" \in Side /\ 0 \in Nat
  BY Bounds DEF Side
<1> QED
  BY <1>1, <1>2 DEF SessionType

\* release alone, object by object: the maps stay.
LEMMA Released ==
  ASSUME NEW w \in WorldType, NEW o \in Object, w.ses[o].closes = 0,
         NEW v, v = release(w, o)
  PROVE  /\ v \in WorldType
         /\ v.map = w.map
         /\ \A p \in Object : v.ses[p] = IF p = o THEN Gone ELSE w.ses[p]
<1>1. v = [w EXCEPT !.ses[o] = Gone]
  <2>1. w.ses[o].closes + 1 = 1
    OBVIOUS
  <2> QED
    BY <2>1 DEF release, Gone
<1> QED
  BY <1>1, GoneType DEF WorldType

\* Erasing an entry, entry by entry: the objects stay.
LEMMA Unmapped ==
  ASSUME NEW w \in WorldType, NEW s \in Side, NEW k \in Conv, NEW v, v = Unmap(w, s, k)
  PROVE  /\ v \in WorldType
         /\ v.ses = w.ses
         /\ \A a \in Side, b \in Conv : v.map[a][b] = IF a = s /\ b = k THEN 0 ELSE w.map[a][b]
<1>0. PICK m, f : w = [map |-> m, ses |-> f] /\ m = w.map /\ f = w.ses
  BY DEF WorldType
<1> DEFINE C == Object \cup {0}
<1>1. m \in [Side -> [Conv -> C]] /\ m[s] \in [Conv -> C] /\ 0 \in C
  BY <1>0 DEF MapType, WorldType
<1> HIDE DEF C
<1>2. PICK row : row = [m[s] EXCEPT ![k] = 0]
  OBVIOUS
<1>3. row \in [Conv -> C] /\ \A b \in Conv : row[b] = IF b = k THEN 0 ELSE m[s][b]
  BY <1>1, <1>2
<1>4. PICK n : n = [m EXCEPT ![s] = row]
  OBVIOUS
<1>5. v = [map |-> n, ses |-> f]
  BY <1>0, <1>2, <1>4 DEF Unmap
<1>6. v.map = n /\ v.ses = f
  BY <1>5
<1>7. /\ n \in [Side -> [Conv -> C]]
      /\ \A a \in Side : n[a] = IF a = s THEN row ELSE m[a]
  BY <1>1, <1>3, <1>4
<1>8. n \in MapType /\ f \in [Object -> SessionType]
  BY <1>0, <1>7 DEF C, MapType, WorldType
<1>9. v \in WorldType
  BY <1>5, <1>8 DEF WorldType
<1>10. \A a \in Side, b \in Conv : n[a][b] = IF a = s /\ b = k THEN 0 ELSE m[a][b]
  BY <1>3, <1>7
<1> QED
  BY <1>0, <1>6, <1>9, <1>10

\* Both together.
LEMMA Erased ==
  ASSUME NEW w \in WorldType, NEW o \in Object, NEW s \in Side, NEW k \in Conv,
         w.ses[o].closes = 0,
         NEW v, v = release(Unmap(w, s, k), o)
  PROVE  /\ v \in WorldType
         /\ \A a \in Side, b \in Conv : v.map[a][b] = IF a = s /\ b = k THEN 0 ELSE w.map[a][b]
         /\ \A p \in Object : v.ses[p] = IF p = o THEN Gone ELSE w.ses[p]
<1>1. PICK u : u = Unmap(w, s, k)
  OBVIOUS
<1>2. /\ u \in WorldType /\ u.ses = w.ses
      /\ \A a \in Side, b \in Conv : u.map[a][b] = IF a = s /\ b = k THEN 0 ELSE w.map[a][b]
  BY <1>1, Unmapped
<1>3. v = release(u, o)
  BY <1>1
<1>4. /\ v \in WorldType /\ v.map = u.map
      /\ \A p \in Object : v.ses[p] = IF p = o THEN Gone ELSE u.ses[p]
  BY <1>2, <1>3, Released
<1> QED
  BY <1>2, <1>4

-----------------------------------------------------------------------------
(***************************************************************************)
(* What a callback or a handler makes of the tables keeps them good        *)
(***************************************************************************)

\* Closing a live session, and the entry under its number, whatever session it
\* holds.
LEMMA CloseOne ==
  ASSUME NEW g \in Nat, NEW cs, NEW t, NEW w, Good(w, g, cs, t), NEW o \in Object,
         NEW v, v \in WorldType, w.ses[o].state = "live",
         \A a \in Side, b \in Conv :
           v.map[a][b] = IF a = w.ses[o].side /\ b = w.ses[o].conv THEN 0 ELSE w.map[a][b],
         \A p \in Object : v.ses[p] = IF p = o THEN Gone ELSE w.ses[p]
  PROVE  Good(v, g, cs, t)
<1>0. /\ v.ses[o].state = "deleted" /\ v.ses[o].closes = 1
      /\ \A p \in Object : p # o => v.ses[p] = w.ses[p]
  BY GoneType
<1>1. /\ w.map \in [Side -> [Conv -> Object \cup {0}]]
      /\ w.ses \in [Object -> SessionType]
      /\ w.ses[o].side \in Side /\ w.ses[o].conv \in Conv
  BY DEF Good, WorldType, MapType, LiveMapped, SessionType
<1>2. EntriesLive(v)
  <2> SUFFICES ASSUME NEW s \in Side, NEW k \in Conv, v.map[s][k] # 0
               PROVE  /\ v.ses[v.map[s][k]].state = "live"
                      /\ v.ses[v.map[s][k]].side = s
                      /\ v.ses[v.map[s][k]].conv = k
    BY DEF EntriesLive
  <2>1. ~(s = w.ses[o].side /\ k = w.ses[o].conv) /\ v.map[s][k] = w.map[s][k]
    OBVIOUS
  <2>2. /\ w.map[s][k] \in Object
        /\ w.ses[w.map[s][k]].state = "live"
        /\ w.ses[w.map[s][k]].side = s
        /\ w.ses[w.map[s][k]].conv = k
    BY <1>1, <2>1 DEF Good, EntriesLive
  <2> QED
    BY <1>0, <2>1, <2>2
<1>3. LiveMapped(v, g, cs)
  <2> SUFFICES ASSUME NEW p \in Object, v.ses[p].state = "live"
               PROVE  /\ v.ses[p].conv \in Conv
                      /\ v.ses[p].side = "server" => v.ses[p].conv <= g
                      /\ \/ v.map[v.ses[p].side][v.ses[p].conv] = p
                         \/ v.ses[p].side = "client" /\ "repeated answer" \in cs
    BY DEF LiveMapped
  <2>1. p # o /\ v.ses[p] = w.ses[p] /\ w.ses[p].side \in Side
    BY <1>0, <1>1 DEF SessionType
  <2>2. /\ w.ses[p].conv \in Conv
        /\ w.ses[p].side = "server" => w.ses[p].conv <= g
        /\ \/ w.map[w.ses[p].side][w.ses[p].conv] = p
           \/ w.ses[p].side = "client" /\ "repeated answer" \in cs
    BY <2>1 DEF Good, LiveMapped
  <2>3. CASE w.ses[p].side = w.ses[o].side /\ w.ses[p].conv = w.ses[o].conv
    <3>1. \/ w.map[w.ses[o].side][w.ses[o].conv] = o
          \/ w.ses[o].side = "client" /\ "repeated answer" \in cs
      BY DEF Good, LiveMapped
    <3>2. w.ses[p].side = "client" /\ "repeated answer" \in cs
      BY <2>1, <2>2, <2>3, <3>1
    <3> QED
      BY <2>1, <2>2, <3>2
  <2>4. CASE ~(w.ses[p].side = w.ses[o].side /\ w.ses[p].conv = w.ses[o].conv)
    <3>1. v.map[w.ses[p].side][w.ses[p].conv] = w.map[w.ses[p].side][w.ses[p].conv]
      BY <2>1, <2>2, <2>4
    <3> QED
      BY <2>1, <2>2, <3>1
  <2> QED
    BY <2>3, <2>4
<1>4. ClosesCounted(v)
  BY <1>0 DEF Good, ClosesCounted
<1>5. TalkKnown(v, t)
  BY <1>0 DEF Good, TalkKnown
<1> QED
  BY <1>2, <1>3, <1>4, <1>5 DEF Good

\* closeSession, called for a live session or not at all.
LEMMA CloseSession ==
  ASSUME NEW g \in Nat, NEW cs, NEW t, NEW w, Good(w, g, cs, t),
         NEW c, c = 0 \/ (c \in Object /\ w.ses[c].state = "live")
  PROVE  /\ Good(closeSession(w, c), g, cs, t)
         /\ \A p \in Object : \/ closeSession(w, c).ses[p] = w.ses[p]
                              \/ p = c /\ closeSession(w, c).ses[p].state = "deleted"
<1>1. CASE c = 0 \/ w.map[w.ses[c].side][w.ses[c].conv] = 0
  BY <1>1 DEF closeSession
<1>2. CASE ~(c = 0 \/ w.map[w.ses[c].side][w.ses[c].conv] = 0)
  <2>1. /\ c \in Object /\ w.ses[c].state = "live" /\ w \in WorldType
        /\ w.ses[c].side \in Side /\ w.ses[c].conv \in Conv /\ w.ses[c].closes = 0
    BY <1>2 DEF Good, WorldType, LiveMapped, SessionType, ClosesCounted
  <2>2. closeSession(w, c) = release(Unmap(w, w.ses[c].side, w.ses[c].conv), c)
    BY <1>2 DEF closeSession, Unmap
  <2> DEFINE v == closeSession(w, c)
             s == w.ses[c].side
             k == w.ses[c].conv
  <2> HIDE DEF v, s, k
  <2>3. /\ v \in WorldType
        /\ \A a \in Side, b \in Conv : v.map[a][b] = IF a = s /\ b = k THEN 0 ELSE w.map[a][b]
        /\ \A p \in Object : v.ses[p] = IF p = c THEN Gone ELSE w.ses[p]
    <3>1. v = release(Unmap(w, s, k), c)
      BY <2>2 DEF v, s, k
    <3>2. s \in Side /\ k \in Conv
      BY <2>1 DEF s, k
    <3> QED
      BY <2>1, <3>1, <3>2, Erased
  <2>4. Good(v, g, cs, t)
    BY <2>1, <2>3, CloseOne DEF s, k
  <2> QED
    BY <2>3, <2>4, GoneType DEF v
<1> QED
  BY <1>1, <1>2

\* A change of what ikcp and the clock know of a live session.
LEMMA TouchOne ==
  ASSUME NEW g, NEW cs, NEW t, NEW w, Good(w, g, cs, t), NEW o \in Object,
         NEW v, v \in WorldType, v.map = w.map,
         \A p \in Object : p # o => v.ses[p] = w.ses[p],
         /\ v.ses[o].state = w.ses[o].state /\ v.ses[o].side = w.ses[o].side
         /\ v.ses[o].conv = w.ses[o].conv /\ v.ses[o].closes = w.ses[o].closes,
         w.ses[o].state = "live" =>
           v.ses[o].heard <= t /\ v.ses[o].talk = uint32(v.ses[o].heard)
  PROVE  Good(v, g, cs, t)
<1>1. \A p \in Object : /\ v.ses[p].state = w.ses[p].state
                        /\ v.ses[p].side = w.ses[p].side
                        /\ v.ses[p].conv = w.ses[p].conv
                        /\ v.ses[p].closes = w.ses[p].closes
  OBVIOUS
<1>2. \A s \in Side, k \in Conv : w.map[s][k] # 0 => w.map[s][k] \in Object
  BY DEF Good, WorldType, MapType
<1>3. EntriesLive(v)
  BY <1>1, <1>2 DEF Good, EntriesLive
<1>4. LiveMapped(v, g, cs)
  BY <1>1 DEF Good, LiveMapped
<1>5. ClosesCounted(v)
  BY <1>1 DEF Good, ClosesCounted
<1>6. TalkKnown(v, t)
  BY DEF Good, TalkKnown
<1> QED
  BY <1>3, <1>4, <1>5, <1>6 DEF Good

\* At most one message is passed on: the session stays, and its time is now.
LEMMA PassedGood ==
  ASSUME NEW g, NEW cs, now \in Nat, NEW w, Good(w, g, cs, now),
         NEW o \in Object, w.ses[o].state = "live"
  PROVE  /\ Good(passed(w, o), g, cs, now)
         /\ \A p \in Object : /\ passed(w, o).ses[p].state = w.ses[p].state
                              /\ passed(w, o).ses[p].side = w.ses[p].side
<1>1. w \in WorldType /\ w.ses \in [Object -> SessionType] /\ w.ses[o] \in SessionType
  BY DEF Good, WorldType
<1>2. CASE w.ses[o].waiting > 0
  <2> DEFINE x == [w.ses[o] EXCEPT !.waiting = @ - 1, !.talk = uint32(now), !.heard = now]
             v == passed(w, o)
  <2>1. v = [w EXCEPT !.ses[o] = x]
    BY <1>1, <1>2 DEF passed, WorldType, uint32
  <2>2. /\ x \in SessionType
        /\ x.state = w.ses[o].state /\ x.side = w.ses[o].side /\ x.conv = w.ses[o].conv
        /\ x.closes = w.ses[o].closes /\ x.heard = now /\ x.talk = uint32(now)
    <3>1. w.ses[o].waiting - 1 \in 0 .. MaxMsg /\ uint32(now) \in 0 .. CLOCK - 1
      BY <1>1, <1>2, ClockValue, Bounds DEF SessionType
    <3> QED
      BY <1>1, <3>1 DEF SessionType
  <2> HIDE DEF x, v
  <2>3. /\ v \in WorldType /\ v.map = w.map /\ v.ses[o] = x
        /\ \A p \in Object : p # o => v.ses[p] = w.ses[p]
    BY <1>1, <2>1, <2>2 DEF WorldType
  <2>4. Good(v, g, cs, now)
    BY <2>2, <2>3, TouchOne
  <2> QED
    BY <2>2, <2>3, <2>4 DEF v
<1>3. CASE ~(w.ses[o].waiting > 0)
  BY <1>3 DEF passed
<1> QED
  BY <1>2, <1>3

\* KcpSessionBase::update leaves the tables good, and the session alive unless
\* its own onMsg has closed it.
LEMMA UpdatedGood ==
  ASSUME NEW g \in Nat, NEW cs, now \in Nat, NEW w, Good(w, g, cs, now),
         NEW o \in Object, w.ses[o].state = "live",
         NEW c \in OnMsgCloses(w, o), NEW u \in 0 .. CLOCK - 1
  PROVE  /\ Good(Updated(w, o, c, u), g, cs, now)
         /\ Updated(w, o, c, u).ses[o].state # "live" => c = o
<1> DEFINE p1 == passed(w, o)
           v == closeSession(p1, c)
           z == Updated(w, o, c, u)
<1>1. Good(p1, g, cs, now) /\ \A p \in Object : p1.ses[p].state = w.ses[p].state
  BY PassedGood
<1>2. c = 0 \/ (c \in Object /\ p1.ses[c].state = "live")
  BY <1>1 DEF OnMsgCloses, Closable, Live
<1> HIDE DEF p1
<1>3. /\ Good(v, g, cs, now)
      /\ \A p \in Object : \/ v.ses[p] = p1.ses[p]
                           \/ p = c /\ v.ses[p].state = "deleted"
  BY <1>1, <1>2, CloseSession
<1> HIDE DEF v
<1>4. v.ses[o].state # "live" => c = o
  BY <1>1, <1>3
<1>5. z = IF v.ses[o].state = "live" THEN [v EXCEPT !.ses[o].upd = u] ELSE v
  BY DEF Updated, v, p1
<1>6. CASE v.ses[o].state = "live"
  <2> DEFINE x == [v.ses[o] EXCEPT !.upd = u]
  <2>1. v \in WorldType /\ v.ses \in [Object -> SessionType] /\ v.ses[o] \in SessionType
    BY <1>3 DEF Good, WorldType
  <2>2. /\ x \in SessionType
        /\ x.state = "live" /\ x.side = v.ses[o].side /\ x.conv = v.ses[o].conv
        /\ x.closes = v.ses[o].closes /\ x.heard = v.ses[o].heard /\ x.talk = v.ses[o].talk
    BY <1>6, <2>1 DEF SessionType
  <2>3. z = [v EXCEPT !.ses[o] = x]
    BY <1>5, <1>6, <2>1 DEF WorldType
  <2> HIDE DEF x, z
  <2>4. /\ z \in WorldType /\ z.map = v.map /\ z.ses[o] = x
        /\ \A p \in Object : p # o => z.ses[p] = v.ses[p]
    BY <2>1, <2>2, <2>3 DEF WorldType
  <2>5. v.ses[o].heard <= now /\ v.ses[o].talk = uint32(v.ses[o].heard)
    BY <1>3, <1>6 DEF Good, TalkKnown
  <2>6. Good(z, g, cs, now)
    BY <1>3, <1>6, <2>2, <2>4, <2>5, TouchOne
  <2> QED
    BY <2>2, <2>4, <2>6 DEF z
<1>7. CASE v.ses[o].state # "live"
  <2>1. z = v
    BY <1>5, <1>7
  <2> QED
    BY <1>3, <1>4, <2>1 DEF z
<1> QED
  BY <1>6, <1>7

\* Messages arrive in ikcp.
LEMMA ReceivedGood ==
  ASSUME NEW g, NEW cs, NEW t, NEW w, Good(w, g, cs, t), NEW o \in Object,
         NEW n \in 0 .. MaxMsg, NEW v, v = [w EXCEPT !.ses[o].waiting = n]
  PROVE  /\ Good(v, g, cs, t)
         /\ v.ses[o].state = w.ses[o].state
<1> DEFINE x == [w.ses[o] EXCEPT !.waiting = n]
<1>1. w \in WorldType /\ w.ses \in [Object -> SessionType] /\ w.ses[o] \in SessionType
  BY DEF Good, WorldType
<1>2. /\ x \in SessionType
      /\ x.state = w.ses[o].state /\ x.side = w.ses[o].side /\ x.conv = w.ses[o].conv
      /\ x.closes = w.ses[o].closes /\ x.heard = w.ses[o].heard /\ x.talk = w.ses[o].talk
  BY <1>1 DEF SessionType
<1>3. v = [w EXCEPT !.ses[o] = x]
  BY <1>1 DEF WorldType
<1> HIDE DEF x
<1>4. /\ v \in WorldType /\ v.map = w.map /\ v.ses[o] = x
      /\ \A p \in Object : p # o => v.ses[p] = w.ses[p]
  BY <1>1, <1>2, <1>3 DEF WorldType
<1>5. w.ses[o].state = "live" => x.heard <= t /\ x.talk = uint32(x.heard)
  BY <1>2 DEF Good, TalkKnown
<1>6. /\ v.ses[o].state = w.ses[o].state /\ v.ses[o].side = w.ses[o].side
      /\ v.ses[o].conv = w.ses[o].conv /\ v.ses[o].closes = w.ses[o].closes
      /\ w.ses[o].state = "live" =>
           v.ses[o].heard <= t /\ v.ses[o].talk = uint32(v.ses[o].heard)
  BY <1>2, <1>4, <1>5
<1>7. Good(v, g, cs, t)
  BY <1>4, <1>6, TouchOne, ZenonT(40)
<1> QED
  BY <1>2, <1>4, <1>7

\* The object that start leaves.
LEMMA NewSessionType ==
  ASSUME NEW s \in Side, NEW k \in Conv, NEW t \in Nat, NEW c \in 0 .. CLOCK - 1,
         NEW x, x = [side |-> s, conv |-> k, state |-> "live", upd |-> 0, talk |-> c,
                     waiting |-> 0, heard |-> t, closes |-> 0]
  PROVE  /\ x \in SessionType
         /\ x.state = "live" /\ x.side = s /\ x.conv = k /\ x.closes = 0
         /\ x.heard = t /\ x.talk = c
<1>1. k \in 0 .. MaxSession /\ 0 \in 0 .. MaxMsg /\ 0 \in 0 .. CLOCK - 1 /\ 0 \in 0 .. 1
  BY Bounds DEF Conv
<1>2. x \in SessionType
  BY <1>1 DEF SessionType
<1> QED
  BY <1>2

\* The same, as start writes it.
Started(s, k, c, t) ==
  [NoSession EXCEPT !.side = s, !.conv = k, !.state = "live", !.talk = c, !.heard = t]

\* The fields that start leaves.
LEMMA NewSessionValue ==
  ASSUME NEW s, NEW k, NEW t, NEW c
  PROVE  Started(s, k, c, t)
           = [side |-> s, conv |-> k, state |-> "live", upd |-> 0, talk |-> c,
              waiting |-> 0, heard |-> t, closes |-> 0]
<1>1. PICK a : a = [NoSession EXCEPT !.side = s, !.conv = k]
  OBVIOUS
<1>2. a = [side |-> s, conv |-> k, state |-> "none", upd |-> 0, talk |-> 0,
           waiting |-> 0, heard |-> 0, closes |-> 0]
  BY <1>1 DEF NoSession
<1>3. PICK b : b = [a EXCEPT !.state = "live", !.talk = c]
  OBVIOUS
<1>4. b = [side |-> s, conv |-> k, state |-> "live", upd |-> 0, talk |-> c,
           waiting |-> 0, heard |-> 0, closes |-> 0]
  BY <1>2, <1>3
<1>5. PICK d : d = [b EXCEPT !.heard = t]
  OBVIOUS
<1>6. d = [side |-> s, conv |-> k, state |-> "live", upd |-> 0, talk |-> c,
           waiting |-> 0, heard |-> t, closes |-> 0]
  BY <1>4, <1>5
<1>7. d = Started(s, k, c, t)
  BY <1>1, <1>3, <1>5 DEF Started
<1> QED
  BY <1>6, <1>7

\* Number k is new on side s, or it is the client's and the answer was repeated.
NewOrRepeated(w, s, k, cs) ==
  \A p \in Object :
    w.ses[p].state = "live" /\ w.ses[p].side = s /\ w.ses[p].conv = k
      => s = "client" /\ "repeated answer" \in cs

\* World v is w with the new session o at time t, object by object.
Creation(w, s, k, o, t, v) ==
  /\ v \in WorldType
  /\ \A a \in Side, b \in Conv : v.map[a][b] = IF a = s /\ b = k THEN o ELSE w.map[a][b]
  /\ \A p \in Object : p # o => v.ses[p] = w.ses[p]
  /\ v.ses[o].state = "live" /\ v.ses[o].side = s /\ v.ses[o].conv = k
  /\ v.ses[o].closes = 0 /\ v.ses[o].heard = t /\ v.ses[o].talk = uint32(t)

\* A new session under number k.
LEMMA CreateOne ==
  ASSUME NEW g \in Nat, NEW cs, NEW h \in Nat, NEW ds, NEW t \in Nat, NEW w,
         Good(w, g, cs, t), g <= h, cs \subseteq ds,
         NEW s \in Side, NEW k \in Conv, NEW o \in Object, w.ses[o].state = "none",
         NEW v, Creation(w, s, k, o, t, v),
         s = "server" => k <= h, NewOrRepeated(w, s, k, ds)
  PROVE  Good(v, h, ds, t)
<1>0. /\ v \in WorldType
      /\ \A a \in Side, b \in Conv : v.map[a][b] = IF a = s /\ b = k THEN o ELSE w.map[a][b]
      /\ \A p \in Object : p # o => v.ses[p] = w.ses[p]
      /\ v.ses[o].state = "live" /\ v.ses[o].side = s /\ v.ses[o].conv = k
      /\ v.ses[o].closes = 0 /\ v.ses[o].heard = t /\ v.ses[o].talk = uint32(t)
  BY DEF Creation
<1>1. w.map \in [Side -> [Conv -> Object \cup {0}]] /\ w.ses \in [Object -> SessionType]
  BY DEF Good, WorldType, MapType
<1>2. EntriesLive(v)
  <2> SUFFICES ASSUME NEW a \in Side, NEW b \in Conv, v.map[a][b] # 0
               PROVE  /\ v.ses[v.map[a][b]].state = "live"
                      /\ v.ses[v.map[a][b]].side = a
                      /\ v.ses[v.map[a][b]].conv = b
    BY DEF EntriesLive
  <2>1. CASE a = s /\ b = k
    BY <1>0, <2>1
  <2>2. CASE ~(a = s /\ b = k)
    <3>1. v.map[a][b] = w.map[a][b] /\ w.map[a][b] \in Object
      BY <1>0, <1>1, <2>2
    <3>2. /\ w.ses[w.map[a][b]].state = "live"
          /\ w.ses[w.map[a][b]].side = a
          /\ w.ses[w.map[a][b]].conv = b
      BY <3>1 DEF Good, EntriesLive
    <3> QED
      BY <1>0, <3>1, <3>2
  <2> QED
    BY <2>1, <2>2
<1>3. LiveMapped(v, h, ds)
  <2> SUFFICES ASSUME NEW p \in Object, v.ses[p].state = "live"
               PROVE  /\ v.ses[p].conv \in Conv
                      /\ v.ses[p].side = "server" => v.ses[p].conv <= h
                      /\ \/ v.map[v.ses[p].side][v.ses[p].conv] = p
                         \/ v.ses[p].side = "client" /\ "repeated answer" \in ds
    BY DEF LiveMapped
  <2>1. CASE p = o
    BY <1>0, <2>1
  <2>2. CASE p # o
    <3>1. v.ses[p] = w.ses[p] /\ w.ses[p].side \in Side
      BY <1>0, <1>1, <2>2 DEF SessionType
    <3>2. /\ w.ses[p].conv \in Conv
          /\ w.ses[p].side = "server" => w.ses[p].conv <= g
          /\ \/ w.map[w.ses[p].side][w.ses[p].conv] = p
             \/ w.ses[p].side = "client" /\ "repeated answer" \in cs
      BY <3>1 DEF Good, LiveMapped
    <3>3. w.ses[p].side = "server" => w.ses[p].conv <= h
      <4>1. w.ses[p].conv \in Nat
        <5>1. w.ses[p].conv \in Conv
          BY <3>2
        <5> QED
          BY <5>1, Bounds DEF Conv
      <4> QED
        BY <3>2, <4>1
    <3>4. CASE w.ses[p].side = s /\ w.ses[p].conv = k
      BY <3>1, <3>2, <3>3, <3>4 DEF NewOrRepeated
    <3>5. CASE ~(w.ses[p].side = s /\ w.ses[p].conv = k)
      <4>1. v.map[w.ses[p].side][w.ses[p].conv] = w.map[w.ses[p].side][w.ses[p].conv]
        BY <1>0, <3>1, <3>2, <3>5
      <4> QED
        BY <3>1, <3>2, <3>3, <4>1
    <3> QED
      BY <3>4, <3>5
  <2> QED
    BY <2>1, <2>2
<1>4. ClosesCounted(v)
  BY <1>0 DEF Good, ClosesCounted
<1>5. TalkKnown(v, t)
  BY <1>0 DEF Good, TalkKnown
<1> QED
  BY <1>0, <1>2, <1>3, <1>4, <1>5 DEF Good

\* The tables and objects after createConnect, init and start.
LEMMA CreatedFacts ==
  ASSUME World \in WorldType, now \in Nat,
         NEW s \in Side, NEW k \in Conv, NEW o \in Object, NEW v, v = Created(s, k, o)
  PROVE  Creation(World, s, k, o, now, v)
<1>1. PICK c \in 0 .. CLOCK - 1 : c = uint32(now)
  BY ClockValue
<1>2. PICK x : x = [side |-> s, conv |-> k, state |-> "live", upd |-> 0, talk |-> c,
                    waiting |-> 0, heard |-> now, closes |-> 0]
  OBVIOUS
<1>3. /\ x \in SessionType
      /\ x.state = "live" /\ x.side = s /\ x.conv = k /\ x.closes = 0
      /\ x.heard = now /\ x.talk = c
  BY <1>2, NewSessionType
<1>4. /\ World.map = mapSessions /\ World.ses = ses
      /\ mapSessions \in MapType /\ ses \in [Object -> SessionType]
  BY DEF World, WorldType
<1>5. v.map = [mapSessions EXCEPT ![s][k] = o] /\ v.ses = [ses EXCEPT ![o] = x]
      /\ v = [map |-> v.map, ses |-> v.ses]
  <2>1. x = Started(s, k, c, now)
    BY <1>2, NewSessionValue
  <2>2. x = Started(s, k, now % CLOCK, now)
    BY <1>1, <2>1 DEF uint32
  <2>3. v = [map |-> [mapSessions EXCEPT ![s][k] = o],
             ses |-> [ses EXCEPT ![o] = Started(s, k, now % CLOCK, now)]]
    BY DEF Created, Started
  <2> QED
    BY <2>2, <2>3
<1>6. /\ v.ses \in [Object -> SessionType] /\ v.ses[o] = x
      /\ \A p \in Object : p # o => v.ses[p] = ses[p]
  BY <1>3, <1>4, <1>5
<1>7. /\ v.map \in MapType
      /\ \A a \in Side, b \in Conv :
           v.map[a][b] = IF a = s /\ b = k THEN o ELSE mapSessions[a][b]
  <2> DEFINE C == Object \cup {0}
             row == [mapSessions[s] EXCEPT ![k] = o]
  <2>1. /\ mapSessions \in [Side -> [Conv -> C]] /\ mapSessions[s] \in [Conv -> C]
        /\ o \in C
    BY <1>4 DEF MapType
  <2> HIDE DEF C
  <2>2. row \in [Conv -> C] /\ \A b \in Conv : row[b] = IF b = k THEN o ELSE mapSessions[s][b]
    BY <2>1
  <2>3. v.map = [mapSessions EXCEPT ![s] = row]
    BY <1>5
  <2> HIDE DEF row
  <2>4. /\ v.map \in [Side -> [Conv -> C]]
        /\ \A a \in Side : v.map[a] = IF a = s THEN row ELSE mapSessions[a]
    BY <2>1, <2>2, <2>3
  <2> QED
    BY <2>2, <2>4 DEF C, MapType
<1>8. v \in WorldType
  BY <1>5, <1>6, <1>7 DEF WorldType
<1> QED
  BY <1>1, <1>3, <1>4, <1>6, <1>7, <1>8 DEF Creation

\* The worlds of recvFails: o is released, c is closed, the entry is erased.
Rejection(w, s, k, o, c, x, v) ==
  /\ o = w.map[s][k] /\ o # 0
  /\ c \in Closable(release(w, o), s)
  /\ x = closeSession(release(w, o), c)
  /\ v = Unmap(x, s, k)

\* A rejected datagram: session o is released, onClose closes c or nothing, and
\* the entry is erased.  It is gone before that only if c has the number of o.
LEMMA RejectedGood ==
  ASSUME NEW g \in Nat, NEW cs, NEW t, NEW w, Good(w, g, cs, t),
         NEW s \in Side, NEW k \in Conv, NEW o, NEW c, NEW x, NEW v,
         Rejection(w, s, k, o, c, x, v)
  PROVE  /\ Good(v, g, cs, t)
         /\ w.ses[o].state = "live"
         /\ x.map[s][k] = 0 => "repeated answer" \in cs
<1>a. PICK r : r = release(w, o)
  OBVIOUS
<1>b. /\ o = w.map[s][k] /\ o # 0 /\ c \in Closable(r, s)
      /\ x = closeSession(r, c) /\ v = Unmap(x, s, k)
  BY <1>a DEF Rejection
<1>0. x \in WorldType =>
        /\ v \in WorldType /\ v.ses = x.ses
        /\ \A e \in Side, f \in Conv : v.map[e][f] = IF e = s /\ f = k THEN 0 ELSE x.map[e][f]
  BY <1>b, Unmapped
<1>1. /\ w \in WorldType /\ o \in Object /\ w.ses[o].state = "live" /\ w.ses[o].side = s
      /\ w.ses[o].conv = k /\ w.ses[o].closes = 0
  BY <1>b DEF Good, WorldType, MapType, EntriesLive, ClosesCounted
<1>2. /\ r \in WorldType /\ r.map = w.map
      /\ \A p \in Object : r.ses[p] = IF p = o THEN Gone ELSE w.ses[p]
  BY <1>a, <1>1, Released
<1>3. c = 0 \/ (c \in Object /\ c # o /\ r.ses[c].state = "live" /\ r.ses[c].side = s)
  BY <1>b, <1>2, GoneType DEF Closable, Live
<1>4. PICK y : y = release(Unmap(w, s, k), o)
  OBVIOUS
<1>5. /\ y \in WorldType
      /\ \A a \in Side, b \in Conv : y.map[a][b] = IF a = s /\ b = k THEN 0 ELSE w.map[a][b]
      /\ \A p \in Object : y.ses[p] = IF p = o THEN Gone ELSE w.ses[p]
  BY <1>1, <1>4, Erased
<1>6. Good(y, g, cs, t)
  BY <1>1, <1>5, CloseOne
<1>7. CASE x = r
  <2>1. /\ v \in WorldType /\ v.ses = r.ses
        /\ \A a \in Side, b \in Conv : v.map[a][b] = IF a = s /\ b = k THEN 0 ELSE r.map[a][b]
    BY <1>0, <1>2, <1>7
  <2>2. Good(v, g, cs, t)
    BY <1>1, <1>2, <2>1, CloseOne
  <2> QED
    BY <1>b, <1>1, <1>2, <1>7, <2>2
<1>8. CASE x # r
  <2>1. /\ c \in Object /\ c # o /\ w.ses[c].state = "live" /\ w.ses[c].side = s
        /\ r.ses[c] = w.ses[c] /\ w.ses[c].closes = 0
    BY <1>b, <1>2, <1>3, <1>8 DEF closeSession, Good, ClosesCounted
  <2>2. PICK b \in Conv : b = w.ses[c].conv
    BY <2>1 DEF Good, LiveMapped
  <2>3. x = release(Unmap(r, s, b), c)
    BY <1>b, <1>8, <2>1, <2>2 DEF closeSession, Unmap
  <2>4. /\ x \in WorldType
        /\ \A e \in Side, f \in Conv : x.map[e][f] = IF e = s /\ f = b THEN 0 ELSE r.map[e][f]
        /\ \A p \in Object : x.ses[p] = IF p = c THEN Gone ELSE r.ses[p]
    BY <1>2, <2>1, <2>3, Erased
  <2>5. /\ v \in WorldType /\ v.ses = x.ses
        /\ \A e \in Side, f \in Conv : v.map[e][f] = IF e = s /\ f = k THEN 0 ELSE x.map[e][f]
    BY <1>0, <2>4
  <2>6. /\ \A e \in Side, f \in Conv : v.map[e][f] = IF e = s /\ f = b THEN 0 ELSE y.map[e][f]
        /\ \A p \in Object : v.ses[p] = IF p = c THEN Gone ELSE y.ses[p]
        /\ y.ses[c] = w.ses[c]
    <3>1. ASSUME NEW p \in Object PROVE v.ses[p] = IF p = c THEN Gone ELSE y.ses[p]
      BY <1>2, <1>5, <2>4, <2>5
    <3>2. ASSUME NEW e \in Side, NEW f \in Conv
          PROVE  v.map[e][f] = IF e = s /\ f = b THEN 0 ELSE y.map[e][f]
      BY <1>2, <1>5, <2>4, <2>5
    <3> QED
      BY <1>5, <2>1, <2>4, <2>5, <3>1, <3>2
  <2>7. Good(v, g, cs, t)
    BY <1>6, <2>1, <2>2, <2>5, <2>6, CloseOne
  <2>8. x.map[s][k] = 0 => "repeated answer" \in cs
    <3>1. SUFFICES ASSUME x.map[s][k] = 0 PROVE "repeated answer" \in cs
      OBVIOUS
    <3>2. k = b
      BY <1>b, <1>2, <2>4, <3>1
    <3>3. w.map[s][k] # c
      BY <1>b, <2>1
    <3> QED
      BY <2>1, <2>2, <3>2, <3>3 DEF Good, LiveMapped
  <2> QED
    BY <1>1, <2>7, <2>8
<1> QED
  BY <1>7, <1>8

-----------------------------------------------------------------------------
(***************************************************************************)
(* Every step keeps the invariant                                          *)
(***************************************************************************)

\* The causes only grow, and time goes on.
LEMMA GoodLater ==
  ASSUME NEW g, NEW cs, NEW ds, NEW t \in Nat, NEW u \in Nat, NEW w,
         Good(w, g, cs, t), cs \subseteq ds, t <= u
  PROVE  Good(w, g, ds, u)
<1>1. LiveMapped(w, g, ds)
  BY DEF Good, LiveMapped
<1>2. TalkKnown(w, u)
  <2> SUFFICES ASSUME NEW o \in Object, w.ses[o].state = "live"
               PROVE  w.ses[o].heard <= u /\ w.ses[o].talk = uint32(w.ses[o].heard)
    BY DEF TalkKnown
  <2>1. w.ses[o].heard \in Nat
    BY DEF Good, WorldType, SessionType
  <2>2. w.ses[o].heard <= t /\ w.ses[o].talk = uint32(w.ses[o].heard)
    BY DEF Good, TalkKnown
  <2> QED
    BY <2>1, <2>2
<1> QED
  BY <1>1, <1>2 DEF Good

\* The same for the causes alone.
LEMMA MoreCauses ==
  ASSUME NEW g, NEW cs, NEW ds, NEW t, NEW w, Good(w, g, cs, t), cs \subseteq ds
  PROVE  Good(w, g, ds, t)
<1>1. LiveMapped(w, g, ds)
  BY DEF Good, LiveMapped
<1> QED
  BY <1>1 DEF Good

\* What the invariant says of the variables that most steps use.
LEMMA Basics ==
  ASSUME IInv
  PROVE  /\ World \in WorldType /\ World.map = mapSessions /\ World.ses = ses
         /\ mapSessions \in MapType /\ ses \in [Object -> SessionType]
         /\ gSessionid \in Nat /\ now \in Nat
<1>1. World \in WorldType /\ World.map = mapSessions /\ World.ses = ses
  BY DEF IInv, Good, World
<1>2. mapSessions \in MapType /\ ses \in [Object -> SessionType]
  BY <1>1 DEF WorldType
<1>3. gSessionid \in Nat /\ now \in Nat
  <2>1. gSessionid \in 0 .. MaxSession /\ now \in MinTime .. MaxTime
    BY DEF IInv, EnvInv
  <2> QED
    BY <2>1, Bounds
<1> QED
  BY <1>1, <1>2, <1>3

\* The world after a step that sets it.
LEMMA Becomes ==
  ASSUME NEW w \in WorldType, becomes(w)
  PROVE  World' = w
  BY DEF becomes, World, WorldType

\* The value that ikcp_check gives.
LEMMA NextUpdateType ==
  ASSUME IInv, NEW u \in NextUpdate
  PROVE  u \in 0 .. CLOCK - 1
<1>1. PICK d \in 0 .. Interval : u = (now + d) % CLOCK
  BY DEF NextUpdate
<1>2. now + d \in Nat
  BY Basics, Bounds
<1> QED
  BY <1>1, <1>2, ClockValue DEF uint32

\* A datagram of a session that was given out.
LEMMA DataSent ==
  ASSUME IInv, NEW s \in Side, NEW k \in Conv, net' \in {net, net \cup {Data(s, k)}}
  PROVE  net' \subseteq Datagram /\ NetInv'
<1>1. /\ Data(s, k) \in Datagram /\ Data(s, k).conv = k
  <2>1. k \in 0 .. MaxSession /\ Other(s) \in Side
    BY Bounds DEF Conv, Other, Side
  <2> QED
    BY <2>1 DEF Data, Datagram
<1>2. net \subseteq Datagram /\ NetInv
  BY DEF IInv, EnvInv
<1> HIDE DEF Data
<1> QED
  BY <1>1, <1>2 DEF NetInv

\* The second half of update keeps the tables good.
LEMMA CheckTimeoutGood ==
  ASSUME IInv, NEW o \in Object, NEW w, Good(w, gSessionid, cause, now), checkTimeout(w, o)
  PROVE  /\ Good(World', gSessionid, cause, now)
         /\ early' \subseteq Nat /\ TimeoutsHonest'
<1>0. early \subseteq Nat /\ TimeoutsHonest /\ now \in Nat /\ gSessionid \in Nat
  BY Basics DEF IInv, EnvInv
<1>1. CASE w.ses[o].state = "live" /\ TimedOut(w.ses[o].talk)
  <2>1. PICK c : c \in Closable(w, w.ses[o].side) /\ becomes(closeSession(w, c))
    BY <1>1 DEF checkTimeout
  <2>2. c = 0 \/ (c \in Object /\ w.ses[c].state = "live")
    BY <2>1 DEF Closable, Live
  <2>3. Good(closeSession(w, c), gSessionid, cause, now)
    BY <1>0, <2>2, CloseSession
  <2>4. closeSession(w, c) \in WorldType
    BY <2>3 DEF Good
  <2>5. World' = closeSession(w, c)
    BY <2>1, <2>4, Becomes
  <2>6. PICK h \in Nat : h = w.ses[o].heard /\ h <= now /\ w.ses[o].talk = uint32(h)
    <3>1. w.ses[o].heard \in Nat
      BY DEF Good, WorldType, SessionType
    <3> QED
      BY <1>1, <3>1 DEF Good, TalkKnown
  <2>7. early' = early \cup {x \in {h} : now - x <= Timeout}
    BY <1>1, <2>6 DEF checkTimeout
  <2>8. ASSUME now - h <= Timeout PROVE uint32(h) + Timeout >= CLOCK
    <3>1. SUFFICES ASSUME uint32(h) + Timeout < CLOCK PROVE FALSE
      BY <2>6, ClockValue, Bounds
    <3>2. PICK d \in Nat : d = now - h /\ now = h + d /\ d <= Timeout
      BY <1>0, <2>6, <2>8
    <3>3. uint32(h) \in Nat /\ uint32(h) + d < CLOCK
      BY <2>6, <3>1, <3>2, ClockValue, Bounds
    <3>4. uint32(now) = uint32(h) + d
      BY <2>6, <3>2, <3>3, ClockLater
    <3>5. uint32(uint32(h) + Timeout) = uint32(h) + Timeout
      BY <3>1, <3>3, ClockValue, Bounds
    <3>6. uint32(now) > uint32(w.ses[o].talk + Timeout)
      BY <1>1 DEF TimedOut, uint32
    <3> QED
      BY <2>6, <3>2, <3>3, <3>4, <3>5, <3>6, Bounds
  <2>9. early' \subseteq Nat /\ TimeoutsHonest'
    BY <1>0, <2>6, <2>7, <2>8 DEF TimeoutsHonest, uint32
  <2> QED
    BY <2>3, <2>5, <2>9
<1>2. CASE ~(w.ses[o].state = "live" /\ TimedOut(w.ses[o].talk))
  <2>1. becomes(w) /\ early' = early /\ w \in WorldType
    BY <1>2 DEF checkTimeout, Good
  <2>2. World' = w
    BY <2>1, Becomes
  <2> QED
    BY <1>0, <2>1, <2>2 DEF TimeoutsHonest
<1> QED
  BY <1>1, <1>2

\* The timer, when ikcp has asked for it.
LEMMA TimerUpdateStep ==
  ASSUME IInv, NEW o \in Object, timerUpdate(o)
  PROVE  IInv'
<1>1. PICK u \in NextUpdate, c \in OnMsgCloses(World, o) :
        afterMsg(Updated(World, o, c, u), o, c) /\ checkTimeout(Updated(World, o, c, u), o)
  BY DEF timerUpdate
<1>2. u \in 0 .. CLOCK - 1
  BY NextUpdateType
<1>3. ses[o].state = "live" /\ World.ses[o].state = "live"
  BY Basics DEF timerUpdate
<1>4. PICK w : w = Updated(World, o, c, u)
  OBVIOUS
<1>5. Good(w, gSessionid, cause, now) /\ (w.ses[o].state # "live" => c = o)
  BY <1>2, <1>3, <1>4, Basics, UpdatedGood DEF IInv
<1>6. /\ Good(World', gSessionid, cause, now)
      /\ early' \subseteq Nat /\ TimeoutsHonest'
  BY <1>1, <1>4, <1>5, CheckTimeoutGood
<1>7. /\ cause \subseteq cause'
      /\ cause' \subseteq {"repeated answer", "close in onMsg", "send in onClose"}
      /\ fault' \in BOOLEAN
      /\ fault' => cause' # {}
  BY <1>1, <1>4, <1>5 DEF afterMsg, IInv, EnvInv
<1>8. Good(World', gSessionid, cause', now)
  BY <1>6, <1>7, MoreCauses
<1>9. net' \subseteq Datagram /\ NetInv'
  <2>1. ses[o].side \in Side /\ ses[o].conv \in Conv
    BY <1>3, Basics DEF IInv, Good, LiveMapped, SessionType
  <2> QED
    BY <2>1, DataSent DEF timerUpdate
<1>10. UNCHANGED <<gSessionid, open, setups, now>>
  BY DEF timerUpdate, envVars
<1>11. EnvInv'
  BY <1>6, <1>7, <1>9, <1>10 DEF IInv, EnvInv
<1> QED
  BY <1>8, <1>10, <1>11 DEF IInv

\* The timer, when it has not.
LEMMA TimerWaitStep ==
  ASSUME IInv, NEW o \in Object, timerWait(o)
  PROVE  IInv'
<1>1. /\ Good(World', gSessionid, cause, now)
      /\ early' \subseteq Nat /\ TimeoutsHonest'
  BY CheckTimeoutGood DEF timerWait, IInv
<1>2. UNCHANGED <<gSessionid, net, open, setups, now, fault, cause>>
  BY DEF timerWait, envVars
<1>3. EnvInv'
  BY <1>1, <1>2 DEF IInv, EnvInv, NetInv
<1> QED
  BY <1>1, <1>2, <1>3 DEF IInv

\* A datagram that ikcp accepts.
LEMMA RecvStep ==
  ASSUME IInv, NEW s \in Side, NEW d, recv(s, d)
  PROVE  IInv'
<1>1. PICK k \in Conv : k = d.conv
  BY DEF recv, Receives, IInv, EnvInv, NetInv
<1>2. PICK o : o = mapSessions[s][k] /\ o # 0
  BY <1>1 DEF recv, Found
<1>3. o \in Object /\ ses[o].state = "live" /\ World.ses[o] = ses[o]
  BY <1>2, Basics DEF IInv, Good, EntriesLive, MapType
<1>4. PICK n \in ses[o].waiting .. MaxMsg, u \in NextUpdate :
        \E c \in OnMsgCloses([World EXCEPT !.ses[o].waiting = n], o) :
          /\ becomes(Updated([World EXCEPT !.ses[o].waiting = n], o, c, u))
          /\ afterMsg(Updated([World EXCEPT !.ses[o].waiting = n], o, c, u), o, c)
  BY <1>1, <1>2 DEF recv, Found
<1>5. PICK w : w = [World EXCEPT !.ses[o].waiting = n]
  OBVIOUS
<1>6. PICK c \in OnMsgCloses(w, o) :
        becomes(Updated(w, o, c, u)) /\ afterMsg(Updated(w, o, c, u), o, c)
  BY <1>4, <1>5
<1>7. n \in 0 .. MaxMsg /\ u \in 0 .. CLOCK - 1
  <2>1. ses[o].waiting \in Nat
    BY <1>3, Basics, Bounds DEF SessionType
  <2> QED
    BY <2>1, NextUpdateType, Bounds
<1>8. Good(w, gSessionid, cause, now) /\ w.ses[o].state = "live"
  BY <1>3, <1>5, <1>7, ReceivedGood DEF IInv
<1>9. PICK v : v = Updated(w, o, c, u)
  OBVIOUS
<1>10. Good(v, gSessionid, cause, now) /\ (v.ses[o].state # "live" => c = o)
  BY <1>3, <1>7, <1>8, <1>9, Basics, UpdatedGood
<1>11. World' = v
  BY <1>6, <1>9, <1>10, Becomes DEF Good
<1>12. /\ cause \subseteq cause'
       /\ cause' \subseteq {"repeated answer", "close in onMsg", "send in onClose"}
       /\ fault' \in BOOLEAN
       /\ fault' => cause' # {}
  BY <1>6, <1>9, <1>10 DEF afterMsg, IInv, EnvInv
<1>13. Good(World', gSessionid, cause', now)
  BY <1>10, <1>11, <1>12, MoreCauses
<1>14. net' \subseteq Datagram /\ NetInv'
  BY <1>1, DataSent DEF recv
<1>15. UNCHANGED <<gSessionid, early, open, setups, now>>
  BY DEF recv, envVars
<1>16. EnvInv'
  BY <1>12, <1>14, <1>15 DEF TimeoutsHonest, IInv, EnvInv
<1> QED
  BY <1>13, <1>15, <1>16 DEF IInv

\* A datagram that ikcp rejects.
LEMMA RecvFailsStep ==
  ASSUME IInv, NEW s \in Side, NEW d, recvFails(s, d)
  PROVE  IInv'
<1>1. PICK k \in Conv : k = d.conv
  BY DEF recvFails, Receives, IInv, EnvInv, NetInv
<1>2. PICK o : o = mapSessions[s][k] /\ o # 0
  BY <1>1 DEF recvFails, Found
<1>3. PICK r : r = release(World, o)
  OBVIOUS
<1>4. PICK c \in Closable(r, s), bye \in BOOLEAN :
        /\ becomes(Unmap(closeSession(r, c), s, k))
        /\ fault' = (bye \/ ses[o].state # "live" \/ closeSession(r, c).map[s][k] = 0)
        /\ cause' = cause \cup (IF bye THEN {"send in onClose"} ELSE {})
  BY <1>1, <1>2, <1>3 DEF recvFails, Found, Unmap
<1>5. PICK x : x = closeSession(r, c)
  OBVIOUS
<1>6. PICK v : v = Unmap(x, s, k)
  OBVIOUS
<1>7. /\ Good(v, gSessionid, cause, now)
      /\ World.ses[o].state = "live"
      /\ x.map[s][k] = 0 => "repeated answer" \in cause
  <2>1. Good(World, gSessionid, cause, now) /\ gSessionid \in Nat
    BY Basics DEF IInv
  <2>2. Rejection(World, s, k, o, c, x, v)
    BY <1>2, <1>3, <1>4, <1>5, <1>6, Basics DEF Rejection
  <2> QED
    BY <2>1, <2>2, RejectedGood
<1>8. World' = v
  BY <1>4, <1>5, <1>6, <1>7, Becomes DEF Good
<1>9. /\ cause \subseteq cause'
      /\ cause' \subseteq {"repeated answer", "close in onMsg", "send in onClose"}
      /\ fault' \in BOOLEAN
  BY <1>4 DEF IInv, EnvInv
<1>10. fault' => cause' # {}
  BY <1>4, <1>5, <1>7, Basics
<1>11. Good(World', gSessionid, cause', now)
  BY <1>7, <1>8, <1>9, MoreCauses
<1>12. UNCHANGED <<gSessionid, early, net, open, setups, now>>
  BY DEF recvFails, envVars
<1>13. EnvInv'
  BY <1>9, <1>10, <1>12 DEF TimeoutsHonest, IInv, EnvInv, NetInv
<1> QED
  BY <1>11, <1>12, <1>13 DEF IInv

\* The application closes a session.
LEMMA AppCloseStep ==
  ASSUME IInv, NEW o \in Object, appClose(o)
  PROVE  IInv'
<1>1. ses[o].state = "live" /\ World.ses[o].state = "live"
  BY Basics DEF appClose
<1>2. PICK w : w = closeSession(World, o)
  OBVIOUS
<1>3. Good(w, gSessionid, cause, now)
  BY <1>1, <1>2, Basics, CloseSession DEF IInv
<1>4. World' = w
  BY <1>2, <1>3, Becomes DEF appClose, Good
<1>5. PICK bye \in BOOLEAN :
        fault' = bye /\ cause' = cause \cup (IF bye THEN {"send in onClose"} ELSE {})
  BY DEF appClose
<1>6. /\ cause \subseteq cause'
      /\ cause' \subseteq {"repeated answer", "close in onMsg", "send in onClose"}
      /\ fault' \in BOOLEAN
      /\ fault' => cause' # {}
  BY <1>5 DEF IInv, EnvInv
<1>7. Good(World', gSessionid, cause', now)
  BY <1>3, <1>4, <1>6, MoreCauses
<1>8. UNCHANGED <<gSessionid, early, net, open, setups, now>>
  BY DEF appClose, envVars
<1>9. EnvInv'
  BY <1>6, <1>8 DEF TimeoutsHonest, IInv, EnvInv, NetInv
<1> QED
  BY <1>7, <1>8, <1>9 DEF IInv

\* A new session, and what onAccept or onConnect closes.
LEMMA NewSessionStep ==
  ASSUME IInv, NEW s \in Side, NEW k \in Conv, NEW h \in Nat, NEW ds,
         gSessionid <= h, cause \subseteq ds, s = "server" => k <= h,
         NewOrRepeated(World, s, k, ds), newSession(s, k)
  PROVE  Good(World', h, ds, now) /\ early' = early
<1>1. PICK o \in Object :
        /\ ses[o].state = "none"
        /\ \E c \in Closable(Created(s, k, o), s) : becomes(closeSession(Created(s, k, o), c))
        /\ early' = early
  BY DEF newSession
<1>2. PICK v : v = Created(s, k, o)
  OBVIOUS
<1>3. PICK c \in Closable(v, s) : becomes(closeSession(v, c))
  BY <1>1, <1>2
<1>4. Creation(World, s, k, o, now, v)
  BY <1>2, Basics, CreatedFacts
<1>5. Good(v, h, ds, now)
  <2>1. /\ Good(World, gSessionid, cause, now) /\ gSessionid \in Nat /\ now \in Nat
        /\ World.ses[o].state = "none"
    BY <1>1, Basics DEF IInv
  <2> QED
    BY <1>4, <2>1, CreateOne
<1>6. c = 0 \/ (c \in Object /\ v.ses[c].state = "live")
  BY <1>3 DEF Closable, Live
<1>7. Good(closeSession(v, c), h, ds, now)
  BY <1>5, <1>6, CloseSession
<1>8. World' = closeSession(v, c)
  <2>1. closeSession(v, c) \in WorldType
    BY <1>7 DEF Good
  <2> QED
    BY <1>3, <2>1, Becomes
<1> QED
  BY <1>1, <1>7, <1>8

\* The server makes a session for a set-up request.
LEMMA ServerSetupStep ==
  ASSUME IInv, serverSetup
  PROVE  IInv'
<1>1. PICK h \in Nat : h = gSessionid + 1 /\ h \in Conv /\ h \in 0 .. MaxSession
  <2>1. gSessionid \in Nat /\ gSessionid < MaxSession
    BY Basics DEF serverSetup
  <2> QED
    BY <2>1, Bounds DEF Conv
<1>2. NewOrRepeated(World, "server", h, cause)
  <2> SUFFICES ASSUME NEW p \in Object, World.ses[p].state = "live",
                      World.ses[p].side = "server", World.ses[p].conv = h
               PROVE  FALSE
    BY DEF NewOrRepeated
  <2>1. h <= gSessionid
    BY DEF IInv, Good, LiveMapped
  <2> QED
    BY <1>1, <2>1, Basics
<1>3. gSessionid <= h
  BY <1>1, Basics
<1>4. newSession("server", h) /\ "server" \in Side
  BY <1>1 DEF serverSetup, Side
<1>5. Good(World', h, cause, now) /\ early' = early
  <2>1. PICK s, ds : s = "server" /\ ds = cause
    OBVIOUS
  <2>2. /\ s \in Side /\ cause \subseteq ds /\ newSession(s, h) /\ h <= h
        /\ NewOrRepeated(World, s, h, ds)
    BY <1>1, <1>2, <1>4, <2>1
  <2>3. Good(World', h, ds, now) /\ early' = early
    BY <1>1, <1>3, <2>2, NewSessionStep
  <2> QED
    BY <2>1, <2>3
<1>6. net' \subseteq Datagram /\ NetInv'
  <2>1. Reply(h) \in Datagram /\ Reply(h).kind = "setup"
    BY <1>1 DEF Reply, Datagram, Side
  <2>2. net' = net \cup {Reply(h)}
    BY <1>1 DEF serverSetup
  <2> HIDE DEF Reply
  <2> QED
    BY <2>1, <2>2 DEF IInv, EnvInv, NetInv
<1>7. gSessionid' = h /\ UNCHANGED <<open, setups, now, fault, cause>>
  BY <1>1 DEF serverSetup, envVars
<1>8. EnvInv'
  BY <1>1, <1>5, <1>6, <1>7 DEF TimeoutsHonest, IInv, EnvInv
<1> QED
  BY <1>5, <1>7, <1>8 DEF IInv

\* The client makes a session for a set-up answer.
LEMMA ClientSetupStep ==
  ASSUME IInv, NEW k \in Conv, clientSetup(k)
  PROVE  IInv'
<1>1. PICK ds : ds = cause'
  OBVIOUS
<1>2. /\ cause \subseteq ds
      /\ ds \subseteq {"repeated answer", "close in onMsg", "send in onClose"}
  BY <1>1 DEF clientSetup, IInv, EnvInv
<1>3. PICK s \in Side : s = "client"
  BY DEF Side
<1>4. NewOrRepeated(World, s, k, ds)
  <2> SUFFICES ASSUME NEW p \in Object, World.ses[p].state = "live",
                      World.ses[p].side = s, World.ses[p].conv = k
               PROVE  "repeated answer" \in ds
    BY <1>3 DEF NewOrRepeated
  <2>1. p \in Live(World) /\ ses[p].side = "client" /\ ses[p].conv = k
    BY <1>3, Basics DEF Live
  <2> QED
    BY <1>1, <2>1 DEF clientSetup
<1>5. newSession(s, k)
  BY <1>3 DEF clientSetup
<1>6. Good(World', gSessionid, ds, now) /\ early' = early
  <2>1. gSessionid \in Nat /\ gSessionid <= gSessionid
    BY Basics
  <2>2. s = "server" => k <= gSessionid
    BY <1>3
  <2> QED
    BY <1>2, <1>4, <1>5, <2>1, <2>2, NewSessionStep
<1>7. UNCHANGED <<gSessionid, net, open, setups, now, fault>>
  BY DEF clientSetup, envVars
<1>8. EnvInv'
  BY <1>1, <1>2, <1>6, <1>7 DEF TimeoutsHonest, IInv, EnvInv, NetInv
<1> QED
  BY <1>1, <1>6, <1>7, <1>8 DEF IInv

\* The steps that leave the sessions alone.
LEMMA QuietStep ==
  ASSUME IInv,
         createSession \/ (\E o \in Object : sendMsg(o)) \/ shutdown \/ tick \/ UNCHANGED vars
  PROVE  IInv'
<1>1. World' = World /\ UNCHANGED <<gSessionid, early, cause, fault>>
  BY DEF createSession, sendMsg, shutdown, tick, vars, sesVars, World
<1>2. net' \subseteq Datagram /\ NetInv'
  <2>1. CASE createSession
    <3>1. Setup \in Datagram /\ Setup.kind = "setup"
      BY Bounds DEF Setup, Datagram, Side
    <3>2. net' = net \cup {Setup}
      BY <2>1 DEF createSession
    <3> HIDE DEF Setup
    <3> QED
      BY <3>1, <3>2 DEF IInv, EnvInv, NetInv
  <2>2. CASE \E o \in Object : sendMsg(o)
    <3>1. PICK o \in Object : sendMsg(o)
      BY <2>2
    <3>2. ses[o].side \in Side /\ ses[o].conv \in Conv
      BY <3>1, Basics DEF sendMsg, IInv, Good, LiveMapped, SessionType
    <3> QED
      BY <3>1, <3>2, DataSent DEF sendMsg
  <2>3. CASE shutdown \/ tick \/ UNCHANGED vars
    <3>1. net' = net
      BY <2>3 DEF shutdown, tick, vars
    <3> QED
      BY <3>1 DEF IInv, EnvInv, NetInv
  <2> QED
    BY <2>1, <2>2, <2>3
<1>3. open' \in BOOLEAN /\ setups' \in 0 .. MaxSetup
  <2>1. open \in BOOLEAN /\ setups \in 0 .. MaxSetup
    BY DEF IInv, EnvInv
  <2>2. open' \in BOOLEAN
    BY <2>1 DEF createSession, sendMsg, shutdown, tick, vars, envVars
  <2>3. setups' = setups \/ (setups < MaxSetup /\ setups' = setups + 1)
    BY DEF createSession, sendMsg, shutdown, tick, vars, envVars
  <2> QED
    BY <2>1, <2>2, <2>3, Bounds
<1>4. now' \in MinTime .. MaxTime /\ now' \in Nat /\ now <= now'
  <2>1. now \in MinTime .. MaxTime
    BY DEF IInv, EnvInv
  <2>2. now' = now \/ (now < MaxTime /\ now' = now + 1)
    BY DEF createSession, sendMsg, shutdown, tick, vars, envVars
  <2> QED
    BY <2>1, <2>2, Bounds
<1>5. EnvInv'
  BY <1>1, <1>2, <1>3, <1>4 DEF TimeoutsHonest, IInv, EnvInv
<1>6. Good(World', gSessionid', cause', now')
  <2>1. Good(World, gSessionid, cause, now) /\ now \in Nat
    BY Basics DEF IInv
  <2>2. PICK w, g, cs, m, n : w = World /\ g = gSessionid /\ cs = cause /\ m = now /\ n = now'
    OBVIOUS
  <2>3. Good(w, g, cs, m) /\ m \in Nat /\ n \in Nat /\ m <= n
    BY <1>4, <2>1, <2>2
  <2>4. Good(w, g, cs, n)
    BY <2>3, GoodLater
  <2> QED
    BY <1>1, <2>2, <2>4
<1> QED
  BY <1>5, <1>6 DEF IInv

\* The initial state.
LEMMA InitInv == Init => IInv
<1> SUFFICES ASSUME Init PROVE IInv
  OBVIOUS
<1>1. World = [map |-> mapSessions, ses |-> ses]
  BY DEF World
<1>2. mapSessions \in MapType /\ ses \in [Object -> SessionType]
  BY NoSessionType DEF Init, MapType
<1>3. World \in WorldType /\ World.map = mapSessions /\ World.ses = ses
  BY <1>1, <1>2 DEF WorldType
<1>4. \A s \in Side, k \in Conv : World.map[s][k] = 0
  BY <1>3 DEF Init
<1>5. \A o \in Object : World.ses[o].state = "none" /\ World.ses[o].closes = 0
  BY <1>3, NoSessionType DEF Init
<1>6. Good(World, gSessionid, cause, now)
  BY <1>3, <1>4, <1>5 DEF Good, EntriesLive, LiveMapped, ClosesCounted, TalkKnown
<1>7. EnvInv
  <2>1. 0 \in 0 .. MaxSession /\ 0 \in 0 .. MaxSetup /\ MinTime \in MinTime .. MaxTime
    BY Bounds, KcpSessionAssumption
  <2> QED
    BY <2>1 DEF TimeoutsHonest, Init, EnvInv, NetInv
<1> QED
  BY <1>6, <1>7 DEF IInv

\* Every step keeps the invariant.
LEMMA NextInv ==
  ASSUME IInv, [Next]_vars
  PROVE  IInv'
<1>1. CASE serverSetup
  BY <1>1, ServerSetupStep
<1>2. CASE \E k \in Conv : clientSetup(k)
  BY <1>2, ClientSetupStep
<1>3. CASE \E d \in net : onMessage(d)
  BY <1>3, RecvStep, RecvFailsStep DEF onMessage
<1>4. CASE \E o \in Object : timer(o)
  BY <1>4, TimerUpdateStep, TimerWaitStep DEF timer
<1>5. CASE \E o \in Object : appClose(o)
  BY <1>5, AppCloseStep
<1>6. CASE createSession \/ (\E o \in Object : sendMsg(o)) \/ shutdown \/ tick
             \/ UNCHANGED vars
  BY <1>6, QuietStep
<1> QED
  BY <1>1, <1>2, <1>3, <1>4, <1>5, <1>6 DEF Next

-----------------------------------------------------------------------------
(***************************************************************************)
(* Theorems                                                                *)
(***************************************************************************)

\* In every reachable state the tables and objects are good.
THEOREM KcpInvariant == Spec => []IInv
  BY InitInv, NextInv, PTL DEF Spec

\* The session tables of KcpServer and KcpClient are right, whatever the network
\* loses, repeats and reorders and whatever the callbacks close: an entry is a
\* live session of that side and number, and a live session can be found under
\* its number, unless it is the client's and an answer was repeated.
THEOREM SessionTablesAreSafe == Spec => []SessionsSafe
<1>1. IInv => SessionsSafe
  <2> SUFFICES ASSUME IInv PROVE SessionsSafe
    OBVIOUS
  <2>1. TypeOK
    BY Basics DEF IInv, EnvInv, TypeOK, MapType
  <2>2. ASSUME NEW s \in Side, NEW k \in Conv, mapSessions[s][k] # 0
        PROVE  /\ ses[mapSessions[s][k]].state = "live"
               /\ ses[mapSessions[s][k]].side = s
               /\ ses[mapSessions[s][k]].conv = k
    BY <2>2, Basics DEF IInv, Good, EntriesLive
  <2>3. ASSUME NEW o \in Live(World)
        PROVE  \/ mapSessions[ses[o].side][ses[o].conv] = o
               \/ ses[o].side = "client" /\ "repeated answer" \in cause
    BY <2>3, Basics DEF IInv, Good, LiveMapped, Live
  <2>4. SessionsMapped
    <3>1. \A s \in Side, k \in Conv :
            LET o == mapSessions[s][k] IN
            o # 0 => ses[o].state = "live" /\ ses[o].side = s /\ ses[o].conv = k
      BY <2>2
    <3>2. \A o \in Live(World) :
            \/ mapSessions[ses[o].side][ses[o].conv] = o
            \/ ses[o].side = "client" /\ "repeated answer" \in cause
      BY <2>3
    <3> QED
      BY <3>1, <3>2, Zenon DEF SessionsMapped
  <2> QED
    BY <2>1, <2>4 DEF SessionsSafe
<1> QED
  BY <1>1, KcpInvariant, PTL

\* Every session has one onClose, when it is deleted, and KcpSession uses freed
\* or NULL memory only if the application closed the session in its own onMsg
\* or sent in onClose, or an answer was repeated.
THEOREM SessionsCloseOnce == Spec => []ClosedOnce
<1>1. IInv => ClosedOnce
  BY Basics DEF IInv, EnvInv, Good, ClosesCounted, ClosedOnce
<1> QED
  BY <1>1, KcpInvariant, PTL

\* onUdpTimeout is only called for a session that was silent for longer than
\* the timeout, or for which the uint32 sum of the time of its last message and
\* the timeout wraps.
THEOREM TimeoutsAreHonest == Spec => []TimeoutsHonest
<1>1. IInv => TimeoutsHonest
  BY DEF IInv, EnvInv
<1> QED
  BY <1>1, KcpInvariant, PTL

=============================================================================
