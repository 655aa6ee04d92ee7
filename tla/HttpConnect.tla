---------------------------- MODULE HttpConnect ----------------------------
(***************************************************************************)
(* An HTTP server connection: HttpConnect and HttpServer                   *)
(* (src/src/network/HttpConnect.cpp, HttpServer.cpp), on a TcpSocket, with *)
(* llhttp as the parser and the object pool (CommonPool.h).                *)
(*                                                                         *)
(* One HttpConnect object is followed through the connections it serves.   *)
(* The stream of a client is a sequence of cells: one for the lines of a   *)
(* head, two for a blank line (a read may end between them), one per byte  *)
(* of text.  A body is any sequence of cells, also of such that look like  *)
(* a head or a blank line; the text of a chunked body is "chunk" cells,    *)
(* and the blank line behind its last chunk ends it.  mem is the storage   *)
(* of mBuffer, which keeps the cells of earlier reads beyond the last one. *)
(***************************************************************************)
EXTENDS Integers, Sequences

CONSTANTS
  Request,             \* requests: [head, body], see RequestType
  MESSAGE_BUFFER_SIZE, \* cells of mBuffer
  DEFAULT_SIZE,        \* initial capacity of m_readPacket, in cells
  MaxHead,             \* the limit 0xffff on m_readPacket without a head end
  MaxRequest,          \* bound: requests, on all connections
  MaxConn,             \* bound: connections the object serves
  MaxLater             \* bound: calls of the script outside the callbacks

\* close says that the head asks for the connection to be closed, len is its
\* Content-Length, 0 if there is none.
HeadType ==
  [method : {"GET", "POST", "OTHER", "BAD"}, close : BOOLEAN, len : Nat, chunked : BOOLEAN]

NoHead == [method |-> "NONE", close |-> FALSE, len |-> 0, chunked |-> FALSE]

\* The text in a body says whose it is.
CellType == [kind : {"head", "text", "chunk"}, head : HeadType]
              \cup [kind : {"end1", "end2", "nul", "freed"}, head : {NoHead}]

RequestType == [head : HeadType, body : Seq(CellType)]

Chunks(r) ==
  /\ r.head.len = 0
  /\ Len(r.body) > 2
  /\ \A i \in 1 .. Len(r.body) - 2 : r.body[i].kind = "chunk"
  /\ r.body[Len(r.body) - 1].kind = "end1" /\ r.body[Len(r.body)].kind = "end2"

ASSUME HttpConnectAssumption ==
  /\ Request \subseteq RequestType
  /\ \A r \in Request : IF r.head.chunked THEN Chunks(r) ELSE r.head.len = Len(r.body)
  /\ MESSAGE_BUFFER_SIZE \in Nat \ {0}
  /\ DEFAULT_SIZE \in Nat \ {0}
  /\ MaxHead \in Nat \ {0}
  /\ MaxRequest \in Nat
  /\ MaxConn \in Nat
  /\ MaxLater \in Nat

VARIABLES
  conn,         \* number of the connection that the object serves
  uncut,        \* no read of this connection ends inside a request's head
  handle,       \* m_uv_tcp: "pooled", "open", "closing" or "aborted"
  reqs,         \* history: requests of the client
  bytes,        \* history: their cells
  sent,         \* history: number of requests on all connections
  inHead,       \* history: where bytes is inside a request's head
  rd,           \* cells of bytes that have been read
  mem,          \* storage of mBuffer
  rpos, wpos,   \* _rpos, _wpos of mBuffer
  pc,           \* "idle", or where on_msgbuffer is: "loop", "content"
  m_readPacket, \* cells in the packet
  capacity,     \* capacity of its storage
  m_content,    \* "null", "set", or "dangling" once the storage has moved
  m_residue,
  m_parser,     \* what the parser has parsed: [state, req, left]
  handled,      \* history: requests passed to the server's callbacks
  mSendPackets, \* responses queued: [to, late], see write
  mSending,     \* number of them given to uv_write
  inflight,     \* libuv holds m_write_t
  wire,         \* history: responses written to the client
  kept,         \* connections that the script was called with and may keep
  since,        \* the first connection of the object: pointers kept from
                \* earlier ones dangle
  later         \* history: calls of the script outside the callbacks

readVars == <<rd, mem, rpos, wpos, pc, m_readPacket, capacity, m_content,
              m_residue, m_parser, handled>>
sendVars == <<mSendPackets, mSending, inflight, wire>>
peerVars == <<conn, uncut, reqs, bytes, inHead, sent>>
scriptVars == <<kept, since, later>>
vars == <<conn, uncut, handle, reqs, bytes, inHead, sent, rd, mem, rpos, wpos, pc,
          m_readPacket, capacity, m_content, m_residue, m_parser, handled,
          mSendPackets, mSending, inflight, wire, kept, since, later>>

-----------------------------------------------------------------------------
(***************************************************************************)
(* Cells and parsing                                                       *)
(***************************************************************************)

Cell(kind, h) == [kind |-> kind, head |-> h]
Nul == Cell("nul", NoHead)
Freed == Cell("freed", NoHead)

HeadCells(h) == <<Cell("head", h), Cell("end1", NoHead), Cell("end2", NoHead)>>
Encode(r) == HeadCells(r.head) \o r.body

Fresh == [state |-> "fresh", head |-> NoHead, left |-> 0]
Failed == [state |-> "failed", head |-> NoHead, left |-> 0]

\* llhttp takes a blank line, or a half of one, where a message may start.
Blank(c) == c.kind \in {"end1", "end2"}

\* The end of the chunks that p has from i on.
ChunksEnd(p, i) ==
  {e \in i + 2 .. Len(p) : /\ \A j \in i .. e - 2 : p[j].kind = "chunk"
                           /\ p[e - 1].kind = "end1" /\ p[e].kind = "end2"}

\* The heads in p that llhttp accepts, with what follows them in p.
Heads(p) ==
  {i \in 1 .. Len(p) - 2 :
     /\ p[i].kind = "head" /\ p[i].head.method # "BAD"
     /\ p[i + 1].kind = "end1" /\ p[i + 2].kind = "end2"
     /\ p[i].head.chunked => i + 2 = Len(p) \/ ChunksEnd(p, i + 3) # {}}

\* Where the message at i ends, in p or, by its length, behind it.
MessageEnd(p, i) ==
  IF p[i].head.chunked /\ i + 2 # Len(p)
  THEN CHOOSE e \in ChunksEnd(p, i + 3) : TRUE
  ELSE i + 2 + p[i].head.len

\* The messages that llhttp comes to when it parses one after the other, up to
\* one that asks to close: the least set with the first and the next of each.
Parsed(p) ==
  LET Ends(C) == {0} \cup {MessageEnd(p, h) : h \in {k \in C : ~p[k].head.close}}
      Follows(i, C) == \E e \in Ends(C) : e < i /\ \A j \in e + 1 .. i - 1 : Blank(p[j])
  IN  {i \in Heads(p) :
         \A C \in SUBSET Heads(p) : (\A k \in Heads(p) : Follows(k, C) => k \in C) => i \in C}

\* m_parser.parser(p): llhttp_execute over p.  It keeps the last message, which
\* p ends in, or fails; left is content_length less the body cells in p.
parser(p) ==
  LET last == {i \in Parsed(p) : \A k \in Parsed(p) : k <= i}
      i == CHOOSE k \in last : TRUE
      e == IF last = {} THEN 0 ELSE MessageEnd(p, i)
  IN  IF \E j \in e + 1 .. Len(p) : ~Blank(p[j]) THEN Failed
      ELSE IF last = {} THEN Fresh
      ELSE [state |-> "parsed", head |-> p[i].head,
            left |-> IF e > Len(p) THEN e - Len(p) ELSE 0]

\* m_parser.isClose(): !llhttp_should_keep_alive.  A parser that llhttp_init
\* has just reset has http_major = 0 and no flags, hence does not keep alive.
isClose ==
  CASE m_parser.state = "fresh"  -> {TRUE}
    [] m_parser.state = "parsed" -> {m_parser.head.close}
    [] m_parser.state = "failed" -> BOOLEAN

\* GetActiveSize() is unsigned: below zero stands for a huge number.
ActiveSize == wpos - rpos

\* The positions of blank lines in the C string at GetReadPointer(), which
\* ends at the first NUL of the storage and not at _wpos.
HeadEnds ==
  {j \in rpos + 2 .. MESSAGE_BUFFER_SIZE :
     /\ mem[j - 1].kind = "end1" /\ mem[j].kind = "end2"
     /\ \A i \in rpos + 1 .. j : mem[i].kind # "nul"}

\* close(): libuv aborts when the handle is closing already.
Closed(h) == IF h = "open" THEN "closing" ELSE "aborted"

\* Capacity of a vector of n cells after k more have been inserted.
Grown(n, k) ==
  IF n + k <= capacity THEN capacity ELSE n + (IF n > k THEN n ELSE k)

-----------------------------------------------------------------------------
Zeros == [i \in 1 .. MESSAGE_BUFFER_SIZE |-> Nul]

Init ==
  /\ conn = 0
  /\ uncut = TRUE
  /\ handle = "pooled"
  /\ reqs = <<>> /\ bytes = <<>> /\ inHead = {} /\ sent = 0 /\ rd = 0
  /\ mem = Zeros
  /\ rpos = 0 /\ wpos = 0
  /\ pc = "idle"
  /\ m_readPacket = <<>> /\ capacity = DEFAULT_SIZE
  /\ m_content = "null" /\ m_residue = 0 /\ m_parser = Fresh
  /\ handled = <<>>
  /\ mSendPackets = <<>> /\ mSending = 0 /\ inflight = FALSE
  /\ wire = <<>>
  /\ kept = {} /\ since = 1 /\ later = 0

\* HttpConnect::zero.
zero ==
  /\ m_readPacket' = <<>>
  /\ m_content' = "null"
  /\ m_residue' = 0
  /\ m_parser' = Fresh

\* Fault: the pool hands out the object as it is.
accept_NoZero ==
  /\ handle = "pooled"
  /\ conn < MaxConn
  /\ conn' = conn + 1
  /\ uncut' \in BOOLEAN
  /\ handle' = "open"
  /\ rpos' = 0 /\ wpos' = 0
  /\ reqs' = <<>> /\ bytes' = <<>> /\ inHead' = {} /\ rd' = 0
  /\ handled' = <<>> /\ wire' = <<>>
  /\ UNCHANGED <<m_readPacket, m_content, m_residue, m_parser>>
  /\ UNCHANGED <<mem, pc, capacity, mSendPackets, mSending, inflight, sent, scriptVars>>

\* on_new_connection: createSocket takes the object out of the pool and calls
\* zero(), clear() resets mBuffer, and reading starts.  None of them looks at
\* the queue of responses.
accept ==
  /\ handle = "pooled"
  /\ conn < MaxConn
  /\ conn' = conn + 1
  /\ uncut' \in BOOLEAN
  /\ handle' = "open"
  /\ zero
  /\ rpos' = 0 /\ wpos' = 0
  /\ reqs' = <<>> /\ bytes' = <<>> /\ inHead' = {} /\ rd' = 0
  /\ handled' = <<>> /\ wire' = <<>>
  /\ UNCHANGED <<mem, pc, capacity, mSendPackets, mSending, inflight, sent, scriptVars>>

\* The client sends a request, before or after the answer to the last one.
sendRequest(r) ==
  /\ handle \in {"open", "closing"}
  /\ sent < MaxRequest
  /\ sent' = sent + 1
  /\ reqs' = Append(reqs, r)
  /\ bytes' = bytes \o Encode(r)
  /\ inHead' = inHead \cup {Len(bytes) + 1, Len(bytes) + 2}
  /\ UNCHANGED <<conn, uncut, handle, readVars, sendVars, scriptVars>>

-----------------------------------------------------------------------------
(***************************************************************************)
(* Reading: echo_read and the loop of on_msgbuffer                         *)
(***************************************************************************)

\* echo_read with nread = n > 0.
echo_read(n) ==
  /\ handle = "open"
  /\ pc = "idle"
  /\ rd + n <= Len(bytes)
  /\ uncut => rd + n \notin inHead
  /\ mem' = [i \in 1 .. MESSAGE_BUFFER_SIZE |-> IF i <= n THEN bytes[rd + i] ELSE mem[i]]
  /\ rd' = rd + n
  /\ wpos' = n
  /\ pc' = "loop"
  /\ UNCHANGED <<rpos, m_readPacket, capacity, m_content, m_residue, m_parser, handled>>
  /\ UNCHANGED <<handle, sendVars, peerVars, scriptVars>>

\* on_msgbuffer returns and echo_read resets mBuffer.
return ==
  /\ pc' = "idle"
  /\ rpos' = 0
  /\ wpos' = 0

\* The blank line is found: the head is complete and parsed.
headFound ==
  /\ pc = "loop"
  /\ m_content = "null"
  /\ \E j \in HeadEnds :
       /\ \A i \in HeadEnds : j <= i
       /\ m_readPacket' = m_readPacket \o SubSeq(mem, rpos + 1, j)
       /\ capacity' = Grown(Len(m_readPacket), j - rpos)
       /\ m_content' = "set"
       /\ m_parser' = parser(m_readPacket')
       /\ IF m_parser' = Failed
          THEN /\ handle' = Closed(handle)
               /\ return
               /\ UNCHANGED m_residue
          ELSE /\ m_residue' = IF m_parser'.head.method = "POST" THEN m_parser'.left ELSE 0
               /\ pc' = "content"
               /\ rpos' = j
               /\ UNCHANGED <<handle, wpos>>
  /\ UNCHANGED <<rd, mem, handled, sendVars, peerVars, scriptVars>>

\* No blank line: keep the cells for later, unless the head is too big.
headNotFound ==
  /\ pc = "loop"
  /\ m_content = "null"
  /\ HeadEnds = {}
  /\ IF ActiveSize < 0
     THEN handle' = "aborted" /\ UNCHANGED <<m_readPacket, capacity>>
     ELSE /\ m_readPacket' = m_readPacket \o SubSeq(mem, rpos + 1, wpos)
          /\ capacity' = Grown(Len(m_readPacket), ActiveSize)
          /\ handle' = IF Len(m_readPacket') >= MaxHead THEN Closed(handle) ELSE handle
  /\ return
  /\ UNCHANGED <<rd, mem, m_content, m_residue, m_parser, handled, sendVars, peerVars, scriptVars>>

\* The cells of the packet after k more, and m_content, which points into the
\* old storage if they do not fit.
Filled(k) == m_readPacket \o SubSeq(mem, rpos + 1, rpos + k)
Content(k) == IF Len(m_readPacket) + k > capacity THEN "dangling" ELSE m_content

\* Inside the part of the loop with m_content set.
AtContent == pc = "content" \/ (pc = "loop" /\ m_content # "null")

\* Fault: m_residue is not reduced.
readContent_SameResidue ==
  /\ AtContent
  /\ ActiveSize >= 0
  /\ m_residue > ActiveSize
  /\ m_readPacket' = Filled(ActiveSize)
  /\ m_content' = Content(ActiveSize)
  /\ capacity' = Grown(Len(m_readPacket), ActiveSize)
  /\ return
  /\ UNCHANGED <<rd, mem, m_residue, m_parser, handled, handle, sendVars, peerVars, scriptVars>>

\* The read ends inside the content.
readContent ==
  /\ AtContent
  /\ ActiveSize >= 0
  /\ m_residue > ActiveSize
  /\ m_readPacket' = Filled(ActiveSize)
  /\ m_content' = Content(ActiveSize)
  /\ capacity' = Grown(Len(m_readPacket), ActiveSize)
  /\ m_residue' = m_residue - ActiveSize
  /\ return
  /\ UNCHANGED <<rd, mem, m_parser, handled, handle, sendVars, peerVars, scriptVars>>

\* Content is to be read from behind the end of the read: the negative length
\* goes into append().
readContentOverrun ==
  /\ AtContent
  /\ ActiveSize < 0
  /\ m_residue > 0
  /\ handle' = "aborted"
  /\ return
  /\ UNCHANGED <<rd, mem, m_readPacket, capacity, m_content, m_residue, m_parser, handled>>
  /\ UNCHANGED <<sendVars, peerVars, scriptVars>>

\* What complete() passes to the server: onPost gets contentLen() cells at
\* m_content.
Call(k) ==
  LET h == m_parser.head
      n == m_parser.left
      param == IF Content(k) = "dangling"
               THEN [i \in 1 .. n |-> Freed]
               ELSE SubSeq(Filled(k), Len(Filled(k)) - n + 1, Len(Filled(k)))
  IN  [head |-> h, param |-> IF h.method = "POST" THEN param ELSE <<>>]

\* sendMsg, autoMsg: a response (of at least one byte) for the client of
\* connection c goes into the queue, and is written if nothing is.  uv_write
\* fails, with no callback, on a handle that is not open.  late says that the
\* object had been given back by the client that it is for.
write(c, open) ==
  /\ mSendPackets' = Append(mSendPackets, [to |-> c, late |-> handle = "pooled" \/ c # conn])
  /\ mSending' = IF mSending = 0 THEN Len(mSendPackets') ELSE mSending
  /\ inflight' = IF mSending = 0 THEN open ELSE inflight

\* The callback of the application: it may answer, and may close a connection
\* that it has not closed yet, in either order.
callback ==
  \E answer, leave \in BOOLEAN :
    /\ leave => handle = "open"
    /\ handle' = IF leave THEN "closing" ELSE handle
    /\ IF answer
       THEN \E open \in {handle = "open", handle' = "open"} : write(conn, open)
       ELSE UNCHANGED <<mSendPackets, mSending, inflight>>

\* The content is complete: the server is called and everything is reset for
\* the next request, which may be in the same read.
complete ==
  /\ AtContent
  /\ m_residue = 0 \/ m_residue <= ActiveSize
  /\ LET k == m_residue IN
       /\ handled' = Append(handled, Call(k))
       /\ capacity' = Grown(Len(m_readPacket), k)
       /\ IF rpos + k = wpos
          THEN return
          ELSE pc' = "loop" /\ rpos' = rpos + k /\ UNCHANGED wpos
  /\ callback
  /\ kept' = kept \cup {conn}
  /\ zero
  /\ UNCHANGED <<rd, mem, wire, peerVars, since, later>>

\* echo_read with nread < 0: the client is gone.
echo_read_error ==
  /\ handle = "open"
  /\ pc = "idle"
  /\ handle' = "closing"
  /\ UNCHANGED <<readVars, sendVars, peerVars, scriptVars>>

\* The script, outside the callbacks, uses the pointer that it was called with
\* on connection c: nothing tells it that the connection was closed.
Later(c) ==
  /\ c \in kept
  /\ pc = "idle"
  /\ handle # "aborted"
  /\ later < MaxLater
  /\ later' = later + 1
  /\ UNCHANGED <<readVars, wire, peerVars, kept, since>>

\* The object is there still, for whichever client.
answerLater(c) ==
  /\ Later(c)
  /\ c >= since
  /\ write(c, handle = "open")
  /\ UNCHANGED handle

closeLater(c) ==
  /\ Later(c)
  /\ c >= since
  /\ handle' = Closed(handle)
  /\ UNCHANGED <<mSendPackets, mSending, inflight>>

\* The object was deleted: anything may happen.
useFreed(c) ==
  /\ Later(c)
  /\ c < since
  /\ handle' = "aborted"
  /\ UNCHANGED <<mSendPackets, mSending, inflight>>

-----------------------------------------------------------------------------
(***************************************************************************)
(* Writing and the end of the connection                                   *)
(***************************************************************************)

\* HttpConnect::on_writecomplete and then TcpSocket's: the batch is deleted
\* and the next one is given to uv_write, which fails on a closing handle.
on_writecomplete ==
  \E close \in isClose :
    /\ handle' = IF close THEN Closed(handle) ELSE handle
    /\ mSendPackets' = SubSeq(mSendPackets, mSending + 1, Len(mSendPackets))
    /\ mSending' = Len(mSendPackets')
    /\ inflight' = (mSendPackets' # <<>> /\ handle' = "open")

\* The write has succeeded.
echo_write ==
  /\ inflight
  /\ pc = "idle"
  /\ handle = "open"
  /\ wire' = wire \o SubSeq(mSendPackets, 1, mSending)
  /\ on_writecomplete
  /\ UNCHANGED <<readVars, peerVars, scriptVars>>

\* The write has failed or, on a closing handle, is cancelled.
echo_write_error ==
  /\ inflight
  /\ pc = "idle"
  /\ handle \in {"open", "closing"}
  /\ on_writecomplete
  /\ UNCHANGED <<readVars, peerVars, wire, scriptVars>>

\* Fault: the object goes back to the pool with its queue.
on_uv_close_NoRelease ==
  /\ handle = "closing"
  /\ pc = "idle"
  /\ ~inflight
  /\ handle' = "pooled"
  /\ UNCHANGED <<sendVars, readVars, peerVars, scriptVars>>

\* on_uv_close: onClose reclaims the object.  release() empties the queue; the
\* object goes to the pool or, if that is full, is deleted, and accept will
\* make a new one.
on_uv_close ==
  /\ handle = "closing"
  /\ pc = "idle"
  /\ ~inflight
  /\ handle' = "pooled"
  /\ mSendPackets' = <<>> /\ mSending' = 0
  /\ \/ UNCHANGED <<mem, capacity, since>>
     \/ mem' = Zeros /\ capacity' = DEFAULT_SIZE /\ since' = conn + 1
  /\ UNCHANGED <<rd, rpos, wpos, pc, m_readPacket, m_content, m_residue, m_parser, handled>>
  /\ UNCHANGED <<inflight, wire, peerVars, kept, later>>

on_msgbuffer ==
  \/ headFound
  \/ headNotFound
  \/ readContent
  \/ readContentOverrun
  \/ complete

running == handle # "aborted"

Next ==
  \/ accept
  \/ \E r \in Request : sendRequest(r)
  \/ \E n \in 1 .. MESSAGE_BUFFER_SIZE : echo_read(n)
  \/ running /\ on_msgbuffer
  \/ echo_read_error
  \/ echo_write
  \/ echo_write_error
  \/ on_uv_close
  \/ \E c \in 1 .. MaxConn : answerLater(c) \/ closeLater(c) \/ useFreed(c)

Spec == Init /\ [][Next]_vars

\* libuv reads what has arrived, and on_msgbuffer runs on until it returns.
Fairness ==
  /\ WF_vars(\E n \in 1 .. MESSAGE_BUFFER_SIZE : echo_read(n))
  /\ WF_vars(running /\ on_msgbuffer)
  /\ WF_vars(echo_write)
  /\ WF_vars(handle = "closing" /\ echo_write_error)
  /\ WF_vars(on_uv_close)

FairSpec == Spec /\ Fairness

-----------------------------------------------------------------------------
(***************************************************************************)
(* Properties                                                              *)
(***************************************************************************)

Response == [to : 1 .. MaxConn, late : BOOLEAN]

TypeOK ==
  /\ conn \in 0 .. MaxConn
  /\ uncut \in BOOLEAN
  /\ handle \in {"pooled", "open", "closing", "aborted"}
  /\ reqs \in Seq(Request)
  /\ bytes \in Seq(CellType)
  /\ inHead \in SUBSET (1 .. Len(bytes))
  /\ sent \in 0 .. MaxRequest
  /\ rd \in 0 .. Len(bytes)
  /\ mem \in [1 .. MESSAGE_BUFFER_SIZE -> CellType]
  /\ rpos \in 0 .. MESSAGE_BUFFER_SIZE
  /\ wpos \in 0 .. MESSAGE_BUFFER_SIZE
  /\ pc \in {"idle", "loop", "content"}
  /\ m_readPacket \in Seq(CellType)
  /\ capacity \in Nat
  /\ m_content \in {"null", "set", "dangling"}
  /\ m_residue \in Nat
  /\ m_parser \in [state : {"fresh", "parsed", "failed"},
                   head : HeadType \cup {NoHead}, left : Nat]
  /\ handled \in Seq([head : HeadType \cup {NoHead}, param : Seq(CellType)])
  /\ mSendPackets \in Seq(Response)
  /\ mSending \in 0 .. Len(mSendPackets)
  /\ inflight \in BOOLEAN
  /\ wire \in Seq(Response)
  /\ kept \in SUBSET (1 .. conn)
  /\ since \in 1 .. conn + 1
  /\ later \in 0 .. MaxLater

\* on_msgbuffer reads the content of a POST that gives its length; any other
\* body stays in the buffer and is taken for the next head.
Taken(r) == r.head.method = "POST" /\ ~r.head.chunked
Unread(r) == ~Taken(r) /\ r.body # <<>>

\* llhttp refuses what starts with text, but not with a head or a blank line.
Misleading(r) == Unread(r) /\ r.body[1].kind \notin {"text", "chunk"}

\* What the server may be called with for r.  The content of a POST for which
\* append() moved the storage is read where it was before.
Params(r) ==
  IF ~Taken(r) THEN {<<>>}
  ELSE {r.body} \cup (IF Len(HeadCells(r.head)) + Len(r.body) > DEFAULT_SIZE
                      THEN {[i \in 1 .. Len(r.body) |-> Freed]} ELSE {})

\* The requests that the server is called with are those of the client: each
\* at most once, in the order sent, a POST with its own content unless it
\* outgrew the storage, and nothing after a request whose body is not read;
\* except that this body may pass for requests if it starts like one.  This
\* holds however the bodies are cut into reads, as long as heads are not, and
\* whatever connection the object served before.
RequestsInOrder ==
  /\ TypeOK
  /\ uncut =>
       \A i \in 1 .. Len(handled) :
         \/ \E k \in 1 .. Len(reqs) : k < i /\ Misleading(reqs[k])
         \/ /\ i <= Len(reqs)
            /\ handled[i].head = reqs[i].head /\ handled[i].param \in Params(reqs[i])
            /\ \A k \in 1 .. i - 1 : ~Unread(reqs[k])

\* A response only ever goes to the client that it is for, although objects
\* and their queues are used again, unless the script sent it after that
\* client's connection was gone.
ResponsesGoHome ==
  /\ \A i \in 1 .. Len(wire) : wire[i].late \/ wire[i].to = conn
  /\ handle # "pooled" =>
       \A i \in 1 .. Len(mSendPackets) : mSendPackets[i].late \/ mSendPackets[i].to = conn

\* libuv holds no request of an object in the pool, and the object's queue is
\* empty but for such late responses.
PooledIsQuiet ==
  handle = "pooled" =>
    /\ ~inflight
    /\ \A i \in 1 .. Len(mSendPackets) : mSendPackets[i].late

\* The next connection can write at once: its queue is not waiting for a write
\* that nobody has started, unless a late response was put into it.
QueueMoves ==
  handle = "open" /\ mSendPackets # <<>> =>
    inflight \/ \E i \in 1 .. Len(mSendPackets) : mSendPackets[i].late

\* An HttpConnect that goes through the pool carries nothing over.
ReuseSafe == ResponsesGoHome /\ PooledIsQuiet /\ QueueMoves

\* A client's request whose head is not cut is handled, unless the connection
\* is closed or the body of an earlier one passed for a request.
EventuallyHandled ==
  \A k \in 1 .. MaxRequest :
    (/\ uncut /\ handle = "open"
     /\ Len(reqs) >= k /\ \A i \in 1 .. k - 1 : ~Misleading(reqs[i]))
    ~> Len(handled) >= k \/ handle # "open"

\* The number of cells of the first k requests.
CellsOf(k) ==
  LET n[i \in 0 .. k] == IF i = 0 THEN 0 ELSE n[i - 1] + Len(Encode(reqs[i]))
  IN  n[k]

\* The note on on_msgbuffer: complete() is called when a complete HTTP packet
\* has been parsed.  So what it passes on is a request of this client that has
\* arrived completely.
OnlyCompleteRequests ==
  /\ Len(handled) <= Len(reqs)
  /\ \A i \in 1 .. Len(handled) : handled[i].head = reqs[i].head
  /\ CellsOf(Len(handled)) <= rd

\* The note on on_writecomplete: when keep_alive = 0, the connection is closed
\* after the write is complete.  So it stays open if all requests asked for
\* that.
KeepAliveKept ==
  [][ handle = "open" /\ handle' = "closing" /\ wire' # wire =>
        \E i \in 1 .. Len(handled) : handled[i].head.close ]_vars

\* The note on HttpServer: onClose() gives the connection object back to the
\* pool.  So a connection that is being closed ends up there.
ClosedIsReclaimed == handle = "closing" ~> handle = "pooled"
=============================================================================
