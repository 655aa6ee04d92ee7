# lua-server: a TLA+ verification project

lua-server is a C++ game-server framework on libuv whose logic is written in Lua.
This directory holds TLA+ models of its parts, TLC configurations that check them on small
instances, and TLAPS proofs of what matters most, for every value of the constants. Paths below
are relative to the repository (`src/src/network/...`); names of definitions are those of the code.

Contents: [the system](#1-the-system), [modules](#2-modules-and-how-they-correspond-to-the-code),
[runs](#3-runs), [fairness](#4-fairness), [proofs](#5-proofs), [disagreements](#6-disagreements-with-the-documentation-and-other-observations),
[not modelled](#7-what-is-not-modelled), [plan](#8-plan), [running](#9-running-it).

## 1. The system

One thread runs the libuv loop: every network callback, every timer and the Lua script run on it, one
callback at a time. Only the database workers and the log are shared between threads.

| component | state | operations | interacts with |
|---|---|---|---|
| TcpSocket | send queue `mSendPackets`, batch `mSending`, one request `m_write_t`, read buffer `mBuffer`, libuv handle | `write`, `send_top_msg`, `echo_write`, `echo_read`, `close`, `on_uv_close` | libuv; calls `on_msgbuffer`, `on_writecomplete`, `on_clsesocket` of the class derived from it |
| TcpServer, TcpClient | listening socket, connection objects | `listen`, accept, `connect`, `shutdown`, deletion in the close callback | libuv; make and delete the objects below |
| NetConnect | packet being read | `on_msgbuffer`, `sendMsg` | TcpSocket below, `NetEvent::onMsg` / `onClose` above |
| WebSocketConnect | handshake flag, packet being read | handshake, frame head and body, ping, close, `sendMsg` | same |
| HttpConnect | packet, parser, `m_content`, `m_residue` | `on_msgbuffer`, `complete`, `on_writecomplete` | same; `HttpServer` keeps a pool of connection objects |
| llhttp, ParseUrl, HttpParser | automaton state, open span, flags, URL fields | `parser`, `zero` | called by HttpConnect on complete requests |
| KcpServer, KcpClient, KcpSession | session maps, session times, timer | `createSession`, `onMessage`, `update`, `closeSession`, `shutdown` | UDP below, ikcp inside a session, `KcpEvent` above |
| ikcp | send and receive windows | `ikcp_send`, `ikcp_input`, `ikcp_update`, `ikcp_check` | called by KcpSession |
| ThreadPool, DBThread | worker objects, two lock-free queues | `create`, `addTask`, `update`, `exit`; `backfunc` in each worker | the script adds tasks and polls `update` |
| concurrent queue | producers with blocks of elements, block index, free list, table of producers | `enqueue`, `try_dequeue` | under the two queues of ThreadPool |
| SqlPrepare, SqlResultSet, RedisCommand, RedisResult | statement, parameters, cursor | bind, prepare, execute, fetch | made on the main thread, used on a worker, read in the callback |
| Timer, Heap, UTimer | pointer heap by expiry time | `start`, `stop`, `update` | the script's timers; KCP sessions use UTimer |
| XLog | file, date, size, spin lock | `writeLog`, `writeFile` | every thread |
| object pools | free objects | `createObject`, `reclaimObject` | HttpServer, packets |
| codecs (Json, CSV, HTTP parameters, protolua, ByteBuffer) | positions in a buffer | read, write | the script |
| script bindings, `main` | Lua references | | the environment of all the above |

**Interactions.** A connection class overrides the callbacks of TcpSocket. The buffer is read completely or
reset after each `on_msgbuffer`; what is incomplete is kept in the connection's packet. The application
(the Lua script) runs inside callbacks and may write or close there.

**What is hard.**

* TcpSocket: `write` may be called from any callback, there is one `uv_write_t` for all batches, and a
  failed or cancelled write runs the same completion as a good one. Correct: one request at a time, no
  packet lost, freed under a write, or reordered, and the queue never stuck.
* The readers (NetConnect, WebSocketConnect, HttpConnect): a read ends anywhere. Correct: messages
  come out once, whole and in order for every cutting of the stream.
* HttpConnect: connection objects are pooled, and the script may keep the pointer to one. Correct: nothing of one client
  reaches the next.
* KCP sessions: datagrams are lost, repeated and reordered, and the application may close a session in any of
  its callbacks, the session's own update included. Correct: the maps hold the live sessions, a session is
  closed once, timeouts are reported only for silent sessions.
* ThreadPool: thread start races the constructor; `exit` joins workers one at a time. Correct: every task is
  processed and reported once, `exit` returns, nothing is left behind.
* ikcp: segments are lost, repeated and reordered, numbers and times wrap, windows close. Correct: every byte comes
  out once and in order, and no state is final while something is undelivered.
* the concurrent queue: no locks. Correct for every interleaving of atomic operations: a block has one owner, an element
  is taken once, a thread finds its own producer.
* the HTTP parser: a call ends anywhere, and one message must leave nothing behind for the next.
* XLog: a line is written in two critical sections. Correct: whole lines, into a file that is open.
* Timer: uint32 times that wrap; callbacks that start, stop and delete timers.
* TcpServer, TcpClient: accept and connect fail. Correct: each object is deleted once, after libuv has let go of it.
* JSON, protolua, SQL, Redis: long sequences of legal calls by a script. Correct: what goes in comes out, and
  every read stays inside what was allocated; the models say where it does not.

`PROJECT.json` lists the single hazards with their lines.

## 2. Modules and how they correspond to the code

| module | models | role |
|---|---|---|
| `TcpSocket` | `network/TcpSocket.cpp` | the send path and the life of the handle |
| `TcpEndpoint` | `network/TcpServer.cpp`, `TcpClient.cpp`, `NetServer`, `NetClient`, `NetEvent` | accept, connect, their failures, deletion |
| `NetConnect` | `network/NetConnect.cpp`, `NetPacket.cpp`, `MessageBuffer.h`, `echo_read` | reading of length-prefixed messages |
| `MsgChannel` | | abstract: a FIFO channel that may be closed; NetConnect implements it |
| `WebSocketConnect` | `network/WebSocketConnect.cpp`, `WebSocketPacket.cpp` | handshake and frames |
| `HttpConnect` | `network/HttpConnect.cpp`, `HttpServer.cpp` | requests, responses, pooled objects |
| `LlHttp`, `ParseUrl`, `HttpParser` | `utils/llhttp.c`, `http.c`, `api.c`, the URL part of `http_parser.cpp`, `ParseUrl.cpp`, `HttpParser.cpp` | the parser HttpConnect uses |
| `KcpSession` | `network/KcpServer.cpp`, `KcpClient.cpp`, `KcpSession.cpp`, UDP and UTimer by what they do | sessions on both sides |
| `Ikcp`, `IkcpClock` | `network/ikcp.cpp` | the protocol machine, and its clock |
| `ThreadPool` | `common/ThreadPool.cpp`, `TQueue.h`, `db/DBThreadPool.cpp` | main thread and workers |
| `TaskService` | | abstract: a task is queued, processed with an outcome, reported once; ThreadPool implements it |
| `FreeList`, `ImplicitProducer`, `ProducerHash` | `common/concurrentqueue/concurrentqueue.h` | the three lock-free parts of the queue |
| `Heap`, `Timer` | `common/Heap.cpp`, `Timer.cpp` | pointer heap as operators; timers and callbacks |
| `XLog` | `common/XLog.cpp`, `XTime.cpp` | the log file under several threads |
| `ObjectPool`, `Packet` | `common/Objectpool.h`, `CommonPool.h`, `ByteBuffer`, `network/BasePacket.cpp` and its packets | pooled storage and packets on it |
| `JsonReader`, `Json` | `utils/JsonReader.cpp`, `Json.cpp` | reader and writer as functions; documents on a heap |
| `ProtoCodec`, `ProtoRegistry` | `protolua/encoder.cpp`, `decoder.cpp`, `parse.cpp`, `protolua.cpp` | Lua values through messages; importer and factory |
| `SqlStatement` | `db/SqlPrepare.cpp`, `SqlResultSet.cpp` | parameters, execution, rows |
| `RedisClient` | `db/DB_Interface_redis.cpp`, `RedisCommand.cpp`, `RedisResult.cpp` | connection, commands, replies |
| `TcpSocketProofs`, `NetConnectProofs`, `ThreadPoolProofs`, `KcpSessionProofs`, `HttpConnectProofs`, `WebSocketConnectProofs` | | theorems about the module named |
| `ConcurrentQueueProofs` | | theorems about `FreeList`, `ImplicitProducer` and `ProducerHash` |
| `CommonProofs` | | theorems about `TcpEndpoint`, `XLog`, `SqlStatement` and `RedisClient` |
| `MC*` | | constants for TLC |

Definitions that end in an underscore and a word (`close_ReleasesQueue`) and have a comment that begins with
"Fault:" are faults: a definition with a plausible mistake in it. Replacing the definition by its fault makes TLC
report the property it is paired with, which shows that the property depends on that code.

`MCCommon`, `MCData` and `MCConcurrentQueue` check several parts that do not interact in one run: the variable
`part` says which of them a behaviour is about, and the others do not move.

**TcpSocket.** An action is one libuv callback or one call from outside. `write` appends to the queue and
starts a batch if none is being sent; `send_top_msg` cuts a batch at `MAX_SEND_BYTE` and `MAX_SEND_PACKET`
exactly as the loop does (the limit is tested before a packet is added, so a batch may exceed the byte
limit by one packet); `echo_write_ok`, `_error` and `_cancel` are the three statuses that reach
`on_writecomplete`, which recycles the batch in all of them and starts the next. libuv's part is external:
`transmit` (the kernel takes a buffer), `reset` (the peer), and the queue `writeq` of pending requests. A second
`uv_close` is an assertion in libuv; the handle is then `aborted` and nothing more happens.
`posted`, `recycled`, `wire` are history.

**NetConnect.** Streams are sequences of cells. A head is two cells, length and type (four bytes each in
the code, whose position arithmetic is the same). `echo_read(n)` is a read of n cells into the buffer,
`readHead` and `readBody` are one turn each of the loop in `on_msgbuffer`. Since `on_msgbuffer` runs to the end
before libuv calls anything else, other actions wait until the buffer is empty. The application may call
`close` inside `onMsg`; the loop goes on delivering what the read holds.

**WebSocketConnect.** Bytes keep their values in frame heads (opcode nibble, mask bit, the length
forms 126 and 127), because the code's decisions are made on them. Sizes that only shift positions are
shorter: a key has two bytes instead of four, the extended lengths one and two instead of two and eight, a
line of the handshake one. The head is built right-aligned in the packet as `readFrameHead` does, and
`getMarkLen` looks where the code looks. `clean` records that the handshake request came alone in one read:
anything else in that read is dropped, and a request cut in two is refused or leaves a rest that is parsed as
frames. `sent` and `off`, the frames of the client and where each starts in the stream, are history.

**HttpConnect.** A request is a head (method, Connection header, Content-Length, chunked or not) and a body; its cells are the head, the two
cells of the blank line, and the cells of the body, which may be text, heads and blank lines of their own, or chunks. `mem` keeps the cells of earlier
reads behind the active part because the code searches the blank line in them. The parser is here by its outcome (which message the text
in the packet ends in, how much of its body is to come, whether it wants to close); the messages that llhttp comes to, one after the other, are the least
set that holds the first head and what follows a message that is not the last (`Parsed`); `LlHttp` has its steps. `on_msgbuffer` waits for the content
of a POST by `contentLen()`, so any other body stays in the buffer and becomes the next head, as in the code. `m_content` becomes `dangling` when `append`
moves the storage, and `onPost` is then given freed cells. The object lives on in the pool, or is deleted if the pool is full, and serves `MaxConn`
connections in turn. Lua is given the connection itself (`Lua_HttpServer.cpp:31-34`) and is not told of its close: `kept` are the connections that the script was called with,
and `answerLater`, `closeLater` and `useFreed` are its calls on them from a timer or another callback, whatever has become of the object. A response
records for whom it is, and whether that client was gone when it was sent (`late`). A response has at least one byte: `sendMsg("")` is left out.

**KcpSession.** The network is a set of datagrams, each of which may be delivered any number of times in any
order, or never. Both sides' maps, the set-up exchange, the session timer with `__m_nUpdateTime`,
`__m_nTalkTime` and the timeout in a uint32 clock of size `CLOCK`, and closing from every callback are
explicit. `early` keeps, as history, when a session that was reported silent too early had last been heard from. ikcp is here by its outcomes (an input is accepted
or rejected, an update may pass messages); `Ikcp` has its steps. Use of a deleted session or of a NULL `__m_kcp` sets `fault`; `cause` records which of three things led there.

**ThreadPool.** A worker's `backfunc` is cut where another thread can observe it: start, check of `_isrun`, pop,
process, push, end. The constructor of a worker is two steps, since the thread runs before the
derived object is complete; `SleepCoversConstructor` says whether the 10 ms sleep in `backfunc` is
long enough. The queue is here by its guarantee, FIFO per producer: `completeTasks` is one
sequence for each worker and `update` takes the head of any. A connect may fail; MySQL then
reports an error for each statement, Redis dereferences its NULL context (`crashed`).

**TcpEndpoint.** Connection objects with the state of their handle. Accept and connect may fail; the failure
branches do what the code does with handle and object: a failed accept starts `uv_close` and deletes the object in
one go, a failed connect closes without a callback and deletes nothing. `EndpointsSound` says that an object is deleted
once and never used after, except that libuv finishes closing after a failed accept, and that exactly the objects of failed
connects are leaked.

**LlHttp, ParseUrl, HttpParser.** Each state of the lenient automaton (the build does not define strict mode) is an
operator from parser state and piece to parser state, named as the label in `llhttp.c`; falling through to
another label is a call of its operator. Offsets and lengths of URL parts are modulo `Range16`, as the `uint16_t` fields of the code, so a part beyond it is
shown at another place. A piece is a character, or a run of characters the automaton cannot tell apart from one (`"ec"`,
`"tion"`, a digit): names of methods and headers are cut where the trie branches. `content_length` overflows at
`ULLONG_MAX`, ports at `MaxPort`. A span that is open when a call ends is handed to its callback, and started again by
the next call: `on_url` of a URL cut by two calls runs twice, on each part. `HttpParser` feeds streams of messages cut into calls;
what must come out is computed from the messages alone in `MCHttpParser`.

**Ikcp, IkcpClock.** `Ikcp` has two control blocks and a set of datagrams for each direction that are
delivered, kept for another delivery, or lost. `ikcp_send`, `ikcp_input`, `ikcp_flush` and `ikcp_recv` are functions on the
control block, with fragments, stream mode, windows, acknowledgement list, fast resend, window probes and the
congestion window; sequence numbers are modulo `Wrap` and compared by signed difference as in `_itimediff`. Time is left out:
a flush finds any subset of the outstanding segments due. `IkcpClock` has the time and nothing else: when
`ikcp_update` flushes, what `ikcp_check` answers, the round-trip estimate, resend and probe times of one
segment, on a clock that wraps. It is called as `KcpSession` calls it: by a timer that compares the raw clock with `__m_nUpdateTime` (`clockUpdate`), which is right
except around the end of the clock, and after every datagram without a comparison (`clockDatagram`). `Overslept` is the state in which the clock has ended between the time asked for and
now: the session then waits for a datagram or for a round of the clock. The opposite case, a time asked for behind the end of the clock, only makes the timer call too early, which does no harm.
The conversion of `std::clock()` to `uint32` (`XTime.cpp:111`) is taken to wrap, as it does in this build; the language leaves it open.

**FreeList, ImplicitProducer, ProducerHash.** One step is one atomic operation; memory is sequentially consistent, which is
stronger than the orders the code asks for. `FreeList`: the reference count and the flag that keep a
node from being reused under a reader. `ImplicitProducer`: enqueue and dequeue with optimistic counts and overcommit, blocks
that become empty, and the block index that is replaced when full. `ProducerHash`: the table of producers
that is replaced by a larger one while threads look themselves up, and the list of producers; `counted` remembers, as history, the number a
thread got when it counted itself in.

**Heap, Timer.** Links of left, right and parent as in the code, with the walk by the bits of the element count.
`update` runs callbacks that start, stop and delete timers by a plan; it stops after `UPDATE_LIMIT`
callbacks. Starting a running timer inserts its node twice, which the model does as the code does.

**XLog.** Each writer takes the time (one shared `struct tm`), enters the lock to choose the file, leaves it, enters it again
to write. A file may fail to open.

**ObjectPool, Packet.** The pool is a record with operators; packets are constructed, copied, moved, filled, read and
reclaimed on its storages. A byte of a value is a cell that names value and index, so that a byte in the wrong place shows.

**JsonReader, Json.** Texts are sequences of lexemes. A string is a sequence of lexemes between two quote lexemes: the writer puts its text between quotes as it
is (`Json.cpp:89`, `365`) and the reader stops at the next quote (`JsonReader.cpp:14`), so a string with a quote in it is refused or comes back as something else. A number
of a text may be out of range, and the reader then throws and loses what it has read (`JsonReader.cpp:85-87`). The reader is recursive as in the code, with its result
and its position, and is checked on every short text and on every document the writer writes. `Json` has
the document as heap cells: setting, replacing, removing, creating through a handle. `ReadsBack` says for which documents writing and reading give the same document back.

**ProtoCodec, ProtoRegistry.** Values of Lua through encode and decode for each label and kind, integers in two widths that
wrap. The registry follows files, importers, enums in the globals and prototypes by descriptor address across reloads. Descriptors are put at any address where nothing lives: those
of a reload while the old importer still has its memory, those of a file that `parse` reads later wherever the last reload has freed memory. So a file reread by a reload finds the prototype
of a freed descriptor only after two reloads, a file parsed after a reload already after that one (`StaleExplained`).

**SqlStatement, RedisClient.** Client libraries are external: every call may fail. Binds, buffers, fields and the result vector have sizes, so that a use
beyond one shows: it sets `wild` or `misused`, after which nothing more is said, or gives the read its own outcome. `push` checks nothing, as `SqlPrepare.cpp:77` does not: the
parameters of a second run go behind the binds, since `clear` is not bound to Lua. A column that does not fit its buffer is truncated by the library and copied in full length. A statement's answer
is any prefix of a server's rows, since `fetch` may fail. `Commands` are the texts given to the constructor of `RedisCommand`, which end at a NUL because it takes a C string; a command
without parameters is the format of `redisCommand`, so its words are those between blanks, two percent signs are one, and a conversion takes an argument that nobody passed.
`getData` and the operators `>>` are separate actions: `>>` gives the first word of a string, the first bytes for a number, and dereferences NULL for a nil element.

## 3. Runs

| run | instance | distinct states | shows |
|---|---|---|---|
| `tcp` | 5 packets of sizes 1, 2, 0, 4, 1; limits 3 bytes, 2 packets | 61 110 | `BatchSafe` one request at a time and no packet deleted under it, `PacketsConserved`, `SentInOrder`, `NoWedge` no stuck queue, `EventuallyRecycled` |
| `net` | 3 messages, bodies of 0, 1 and 4 cells, reads of up to 3 | 17 607 | `DeliveredInOrder`, `FramingSound` alignment and at most one empty message lagging, `ImplementsChannel`, `EventuallyDelivered` |
| `ws` | 3 frames out of masked, unmasked, empty, ping, close; reads of up to 6 bytes | 124 024 | `FramesSafe` order, unmasking and well-formed answers, `OnCloseLast`, `EventuallyPassed` |
| `http` | 2 connections of one object, 2 requests in all: a GET, a POST that asks to close and outgrows the storage with a blank line in its content, another method with a body that looks like a POST, a chunked POST, one the parser refuses; reads of up to 6 cells, storage of 5; one call of the script outside its callbacks | 822 810 | `RequestsInOrder`, `ReuseSafe` responses only to their client and pooled objects quiet, but for late ones, `EventuallyHandled` |
| `kcp` | 3 objects, 2 session numbers, 2 messages, 5 instants from 4 to 8 of a clock of 8 | 1 016 866 | `SessionsSafe` maps hold the live sessions, `ClosedOnce` one onClose each, memory misused only after one of three causes, `TimeoutsHonest` early only when the sum wraps |
| `pool` | 3 workers made by up to 2 at a time, 2 tasks, MySQL | 44 382 | `PoolSafe` conservation, one report, nothing left by exit, order with one worker, `ImplementsService`, `EventuallyReported`, `ExitReturns` |
| `parser` | streams of requests and responses in calls of 1, 2, 3, 8, 13 pieces or the rest; `ULLONG_MAX` 25, ports to 80, URL offsets modulo 16 with URLs of up to two dozen characters | 56 399 | `ParsedExactly` callbacks and errors are those of the messages, `UrlParts`, `BoundariesClean` nothing carried to the next message |
| `ikcp` | numbers modulo 32 from 30; windows of 2 and 3, two bytes a segment; message, stream and congestion-window modes | 384 721 | `DeliveredInOrder`, `SegmentsKept` what is acknowledged has arrived, windows hold, `NeverStuck` a quiet state is a finished one |
| `queue` | free list: 2 nodes, 3 threads; producers: 2 with 2 consumers, blocks of 2, at most 3; table of 2 slots with 3 threads | 2 355 586 | `BlocksSafe`, `ElementsSafe`, `ProducersSafe` |
| `common` | 6 timers on a clock of 8, 2 callbacks per update; KCP clock of 64 from 58 to 71; 3 log writers of 2 lines each, files of 2 lines, 2 days; 2 packets, 4 storages; 3 connections | 1 505 016 | `TimersSound`, `ClockSound`, `LogSound`, `PacketsSound`, `EndpointsSound` |
| `data` | 4 JSON nodes, texts of up to 7 lexemes (every text up to 4), strings with quotes, numbers out of range; integers of 3 and 5 bits; 2 files, 2 enums, 2 reloads, 4 addresses; 2 question marks, 2 executions, one `clear`, tables with NULL, truncated and buffer-less columns; 3 Redis commands (plain, blanks and percent signs, a conversion), 3 parameters, 3 tasks, 4 reads | 711 819 | `JsonSound`, `ProtoSound`, `SqlSound`, `RedisSound` |
| `ws_long` | 2 frames, one with an extended length | violation | the frame is delivered empty and its body read as frames |

**Why the bounds are enough.** `tcp`: the sizes make batches end by bytes, by count and by an empty queue, with
an oversized and an empty packet; five packets give three batches with writes arriving in between. `net`, `ws`: the
read size is smaller than the largest message and larger than the smallest, so one read holds two messages and
one message needs several reads; three messages have a first, an inner and a last. `http`: the
smallest numbers with a second request behind a first and a second client behind a first; the storage of 5 cells is smaller than the largest POST with its head (6), also when no read
cuts it, so that it moves; one late call suffices to reach the next client, the pool or a deleted object. `kcp`: a repeated set-up needs two session numbers and three objects; a timeout of 1
expires within the five instants, of which the last is behind the end of the clock. `pool`: two tasks and two live workers race for every queue, and the third
worker is one made after others were stopped. `parser`: calls of one to three pieces end in every state, the longer ones
hold several messages; URLs below and above `Range16` end and begin their parts on both sides of it; each way of framing a body occurs, alone and before another message. `ikcp`: a message
of four segments is longer than either window, the numbers wrap after two segments, and one stale datagram per direction stays. `queue`: a
reuse of a node between read and exchange takes two threads and two nodes, and three threads add a bystander; with blocks of two
the third element starts a second block and the index of two entries is replaced at the third; the table of two is replaced twice
while three threads enter themselves. `common`: six timers are the smallest heap of three levels in which the last leaf and the removed node have different parents; both clocks
start shortly before they wrap, and the KCP clock goes on for eight instants behind its end. `data`: four nodes are an object, an array in it and two leaves; four addresses are two importers with two files each, all of which may be reused. For the safety properties of
`tcp`, `net`, `ws`, `http`, `pool`, `kcp` and `queue`, and for `LogSound`, `EndpointsSound`, `SqlSound` and `RedisSound`, the proofs remove the bounds.

Deadlock is not reported: a connection may be closed, a pool may be left alone, and the bounded environments
end. That nothing gets stuck is stated by the properties where it matters (`NoWedge`, `NeverStuck`, the liveness properties).

## 4. Fairness

All fairness is weak, and of steps that the process or the kernel takes without anyone's help:

* callbacks libuv has promised (`echo_write_*`, `on_uv_close`): the loop runs as long as handles are
  active, and libuv calls back every request and every close; `transmit`: the kernel takes buffers of an open
  connection whose peer reads;
* turns of the loops in `on_msgbuffer`: plain sequential code, never blocked;
* `echo_read` when bytes have arrived: reading is started on accept and not stopped before close. Fairness is on
  the read as a whole, not on its size;
* steps of each worker thread and of the constructing thread: the operating system schedules
  runnable threads; `update` of the pool: the script polls it. Nothing is assumed of `addTask`, `create`, `exit`.

`kcp`, `ikcp` and `queue` check safety only: the network owes nothing, and the queue is lock-free, not wait-free. What ikcp's
retransmission gives is stated by `NeverStuck`: a full receive queue holds a message that
can be read, and a state without datagrams under way, in which nothing can be read and no timer makes an end send, has delivered everything.

## 5. Proofs

The proof modules extend the modules that TLC runs, so the theorems are about the same definitions. Constants are
arbitrary but for the assumptions named in each module, which TLC evaluates in the runs: limits and sizes are natural
numbers, positive where the code divides by them or would never progress otherwise. Two kinds say more. `MinTime <= MaxTime` in KcpSession: a run has
at least one instant. `IsFiniteSet(Thread)`, `IsFiniteSet(Consumer)`, `IsFiniteSet(User)` and `IsFiniteSet(Writer)` in FreeList, ImplicitProducer, ProducerHash and XLog: a process
has finitely many threads, and reference counts, counters and sizes are compared with cardinalities. Two theorems have a hypothesis of their own, stated in them:
`SleepCoversConstructor` (`PoolIsSafe`, `MysqlNeverCrashes`), which the code does not guarantee; section 6 shows what happens without it. No other theorem has one: where the code
fails, the property names the cause.

**TcpSocketProofs.** One inductive invariant `IInv` carries the theorems: `TypeCorrect`, `OneRequestAtATime`,
`Conservation`, `NoUseAfterFree`, `StreamInOrder`, `DeletedAfterSent`, `NeverWedged`, and `BatchesSafe`
and `Delivery`, which put the parts together that `BatchSafe` and `SentInOrder` of the run name. None of the
checked invariants is inductive alone: that a completion recycles the right packets needs that `mSending` is a
prefix of `mSendPackets`; that a second request is never issued needs that `mSending` is not empty while
libuv holds one; that the queue is not stuck needs that a batch without a request has no bytes; that order holds on the wire needs that `posted` is what was
recycled followed by what is queued. `IInv` states these together. The proof has one step per action; `send_top_msg`
is covered by lemmas on `TopBatch` (a prefix of the queue, not empty if the queue is not). The byte count of a
batch is the cardinality of a set of bytes rather than a recursive sum, so that these lemmas need no induction.
`NeverWedged` has one exception, which the code has too: a batch of packets without any bytes fills `mSending`
and writes nothing, and the queue then waits for a callback that never comes.

**NetConnectProofs.** `TypeCorrect`, `Reassembly` (`DeliveredInOrder`), `Alignment`, `OneEmptyMessageLags`, the three
together as `Framing` (`FramingSound`), and `Refinement` (NetConnect implements MsgChannel), for all message types, bodies and buffer sizes. The strengthening ties the
position in the stream to the history: `used` is the offset of the message being read plus the length of
`mReadPacket`, whose cells are those of the stream at that place. Offsets are a history variable
(`off`), so the argument needs no induction over the sent messages. The refinement maps the channel's
contents to the messages sent and its receiver to `delivered`.

**ThreadPoolProofs.** `PoolIsSafeAnyway`, `PoolIsSafe`, `MysqlNeverCrashes` and `PoolImplementsService`, for any tasks and workers.
`PoolSafe` speaks of where a task is; the invariant adds how far it is processed there (`TaskStage`), that no two threads have it (`OwnedOnce`), how
objects, threads and `_threads` go together (`ThreadsInv`), and, for the order, that a worker that was always alone has exactly the rest of `added` before it:
completed tasks, the one in hand, the waiting ones (`Lined`). The refinement maps each task to the stage that this invariant gives it.

**KcpSessionProofs.** `SessionTablesAreSafe`, `SessionsCloseOnce`, `TimeoutsAreHonest`, for any clock. The handlers are operators on a record of tables
and objects, `World`; the invariant `Good` is about such a record, so that each handler is one lemma and a step that closes several sessions on its way composes them.

**HttpConnectProofs.** `ReuseIsSafe`, `HttpIsTyped`, `RequestsAreInOrder`, without hypotheses. For the first (`QueueInv`): a pooled object has no callback running, `pc` is idle and nothing is in flight;
a response that is for another connection than the present one, or that is queued in a pooled object, is late; and a queue that libuv is not writing holds a late one. What the parser returns is arbitrary there. For
the last (`ReadInv`), the positions at which requests start are not kept by the model; the invariant says that there are offsets `o` at
which the stream is made of the client's requests (`Layout`), and that the reader is in one of a few places: it has read all up to `o[h + 1]`, where `h` requests are handled;
its packet holds the stream from `o[h + 1]` on, with the head of the next request and `m_residue` cells of its content to come; it reads the body of a request that the server does not take,
as a head that the parser will refuse; it has stopped; or it is behind a request whose body is misleading, of which nothing is claimed. Old cells in `mem` do no harm because the blank line of a whole head stands before
them, so the first one that the search finds is the request's own. That needs the reads not to cut heads, which is what `uncut` says in the property; section 6 shows what a cut head does. The content is that of the
request unless `m_content` is dangling, and that takes a request larger than the capacity, which never falls below `DEFAULT_SIZE`.
`HttpIsTyped` needs neither condition: a head cut in two may make the position overrun the read, but never the storage.

**CommonProofs.** `EndpointsAreSound`: each connection object is in one of eight stages, and every step moves it from one to another. `LogIsSound`: the
limit of a file is kept because `currsize` plus the number of threads between the two locked parts stays below `maxsize` plus the number of threads; that a
line ends in exactly one file follows from where the thread of each line is. `SqlIsSound`: as long as nothing is wild, the binds hold what was pushed, the bind at `m_widx + 1` exists or as many values were pushed as there are
question marks, and one that has a buffer already was pushed before `clear`; a command run at most once has one statement or none; a result is the one of an answer, whose row and column
are found again from the index `row * fieldCount + column + 1`, and the bytes known of a field are those the column's buffer had. `RedisIsSound`: `m_len` has the lengths of what was pushed although `tostr` appends NULs to
the parameters, only NULs stand behind the command, so the format ends where the command does, and what was read are the first parts of the reply.

**WebSocketConnectProofs.** `FramesAreSafe`, `OnCloseIsLast`. The stream is the request and then the frames, frame `i` at `off[i]`. The invariant says, for
every moment inside `on_msgbuffer`, that some `k` frames are done (`Passed(k)`), and that the packet holds the next one: nothing, its first byte, or both bytes of its
head and, right-aligned in `store`, the bytes of the stream from the first one of the key on, up to `used` (`Holds`). A head is complete exactly when all of the
key has been read (`isHeadFull`), so `body` unmasks the right bytes with the right key, and masking twice gives the byte back (`XorTwice`). `OnCloseIsLast` needs no more than
where `handle` is.

**ConcurrentQueueProofs, FreeList.** `FreeListInvariant`, `BlocksAreSafe`. The count of a node is the number of threads that refer to it, plus one if it is on the list or
has just been taken off; the flag `SHOULD_BE_ON_FREELIST` is set exactly while one thread claims the node or the last one to drop its reference will; the next
pointer that a thread has read is still there when its exchange succeeds (what makes the list immune to reuse); the list has no cycle. The nodes of the list are the least
set that holds the head and is closed under `freeListNext`, so that no induction over its length is needed.

**ConcurrentQueueProofs, ImplicitProducer.** `CountersAgree`, `ElementsAreSafe`. Two layers. The counters: attempts are the elements promised, plus those rechecking, plus those
giving up, plus the failures made up for; and a consumer that rechecks with number `my` will find an element if all with a number up to `my` do, by the failures it has seen or
by what is in the queue (`Bound`; a plain count is not inductive, because the tail that a consumer reads is older than its number). The elements:
the index table is a ring whose slots, counted back from the newest, hold the bases of consecutive blocks (`Ring`, `Window`), also when a larger table replaces it; an entry
with a block is the only one with it, and the block has been emptied at exactly the indices whose consumers have finished (`Holds`, `Alone`, `Blocks`); a consumer between claim and release still has its
index in the block it will read (`Reading`). So no block is reused under a consumer, and what is dequeued is what was enqueued.

**ConcurrentQueueProofs, ProducerHash.** `ProducersAreSafe`. A table is entered only by threads that were counted below its limit (`counted`), a thread has at
most one entry in it, and no slot is empty between the one where its hash starts and its own (`Reached`), which is why an empty slot ends a search rightly. At most `m` threads have a number up to `m`, so
an old table is never full although threads may still enter themselves there: the comment at `concurrentqueue.h:2997` that every later table
"implicitly reserves space for all previous tables". Each producer has one owner (`OwnOK`), one thread at a time replaces the table (`LockOK`), and a
producer that is being added is nobody's successor yet (`ListOK`), so the exchange on the tail loses none of the list.

Only model-checked, and why:

* liveness (`EventuallyRecycled`, `EventuallyDelivered`, `EventuallyReported`, `ExitReturns`, `EventuallyHandled`, `EventuallyPassed`): the prover supports neither
  fairness nor ENABLED;
* `ParsedExactly`, `UrlParts`, `BoundariesClean`, `JsonSound`, `ProtoSound`: what a recursive definition computes for every input needs induction
  theorems that the installed provers cannot instantiate;
* `TimersSound`, `PacketsSound`, and `DeliveredInOrder`, `SegmentsKept`, `NeverStuck` of ikcp: searches, folds and recursive
  functions over heaps, buffers and queues, for the same reason;
* `ClockSound`: times modulo a power of two that is a constant; the SMT solver does not do division by a symbolic number.

## 6. Disagreements with the documentation and other observations

Shown by the run `ws_long`, with the quoted lines in `PROJECT.json`: extended lengths of WebSocket frames.

Four more can be reproduced with other constants for a module of a passing run. The property named is violated:

| what | constants | property | said by |
|---|---|---|---|
| a worker processes a task without a DB_Interface, because its thread starts before the object is constructed (`ThreadPool.cpp:13`) | `pool` with `Worker <- OneWorker`, `Task <- OneTask`, `MaxCreate = 1`, `SleepCoversConstructor = FALSE` | `PoolSafe` | `doc/src-note.md:577` "run() 设置task的DB_Interface" |
| bytes of an earlier read complete the head of a request that has arrived in part (`HttpConnect.cpp:95`) | `http` with `Request <- TwoRequests`, `MESSAGE_BUFFER_SIZE = 5`, `MaxHead = 8`, `MaxConn = 1`, `MaxLater = 0` | `OnlyCompleteRequests` | `doc/src-note.md:343` "解析完整的http包后调用complete()" |
| a keep-alive connection is closed after its response: `zero()` has reset the parser that is asked (`HttpConnect.cpp:181`) | the same | `KeepAliveKept` | `doc/src-note.md:357` "keep_alive = 0时在写入完成后则关闭这条连接" |
| a close while a response is being written leads to a second `uv_close`, which aborts (`HttpConnect.cpp:183`) | the same with `MaxRequest = 1` and `FairSpec` | `ClosedIsReclaimed` | `doc/src-note.md:337` "CommPool::reclaim(conn)  复用connect连接对象" |

Met while modelling and part of the models, or of the exceptions that properties name:

* TcpSocket, readers: a failed write deletes its packets as if sent (`TcpSocket.cpp:189`, `doc/src-note.md:183`); an empty message at the
  end of a read waits for more bytes (`NetConnect.cpp:42`); packets without bytes wedge the send queue (`TcpSocket.cpp:275`); a blank line cut
  by two reads is never found (`HttpConnect.cpp:95`); `PING_FRAME` has the FIN bit
  and is compared with a nibble, so pings go to `onMsg`; a refused WebSocket handshake calls `onClose` and leaves the socket open.
* HTTP: a POST whose content outgrows the storage is read from freed memory (`HttpConnect.cpp:101`, `137`); the body of a GET, of another method, or of a chunked POST is not read but taken for the
  next head, which is refused if it is text and handled if it looks like a request, and the content of a chunked POST is lost (`HttpConnect.cpp:110`, `156`); a blank line alone is a request with `onOther`. The script is not told that
  a connection was closed: an answer sent later reaches the next client of the object, waits in the pool for it and blocks its queue, or uses a deleted object; a close sent later closes the next client's connection, or aborts in libuv.
* TcpServer, TcpClient: a failed accept frees the object libuv is still closing (`TcpServer.cpp:66`); a failed connect leaks its object (`TcpClient.cpp:45`).
* HTTP parser: the target of CONNECT is always rejected, because `ParseUrl` parses it as a request target; a URL cut by two reads is parsed in two halves; parts that begin or are longer
  than 65535 bytes, which takes several reads, are shown at the wrong place (`http_parser.cpp:2351`, `2483`), and a port there is computed from other characters.
* KCP: the uint32 sum of last reception and timeout wraps, and a session just heard from is reported as silent (`KcpSession.cpp:144`, against `KcpEvent.h:15` "连接超时，建议close该会话"); `__m_nUpdateTime` is compared without regard to the end of
  the clock (`KcpSession.cpp:139`), so a timer missed there waits for a datagram or for a round of 49 days; a repeated set-up answer orphans the client's session (`KcpClient.cpp:47`); closing a session in its own `onMsg`, or sending in `onClose`,
  uses freed or NULL memory; in stream mode `ikcp_send` may append a part of a message and then refuse the rest with -2; an empty message is sent and
  never received, because `update` reads only sizes above 0; `XTime::iclock` is `std::clock()`, which counts processor time; the Lua binding does not override `onUdpTimeout`.
* Thread pool: `TQueue::push` ignores a failed enqueue; a worker whose Redis connect failed dereferences NULL (`DB_Interface_redis.cpp:118`).
* Timer, log, pools: starting a running timer inserts its node twice; an expiry time of 0 reads as stopped; all threads share the `struct tm` of
  `localtime`; the size limit may be passed by lines whose file was chosen before; `init_buffer_pool` only sets the limit; a string with a NUL in it is cut there by the reader.
* JSON: a string or key with a quote is written without escape and is refused or comes back as something else; an empty string is refused; a number out of range throws through the reader and leaks what it has read (`JsonReader.cpp:85`);
  `createArray` and `createObj` over an existing key lose what was there.
* protolua: `proto.reload` keeps the prototypes of the old importer, which are found again by address: after two reloads, or after one for a file parsed later (`parse.cpp:84`, `149`).
* SQL: preparing a statement twice loses `m_stmt`; pushing the parameters of a second run writes behind the binds, and pushing a longer value after `clear` behind the buffer (`SqlPrepare.cpp:77`, `160`); a truncated column is copied in full length
  from a smaller buffer (`SqlResultSet.cpp:126`, `194`), a column of an unknown type from NULL; reading a NULL column, or a type wider than the column, passes the end of the field.
* Redis: a failed connection is never made again; a lone command is a format string, in which a conversion takes an argument nobody passed or breaks the connection (`DB_Interface_redis.cpp:122`); `getData` past the last element, or of an
  integer or nil reply, follows no pointer; `operator>>` of a string gives its first word, of a nil element a stream of NULL (`RedisResult.cpp:86`), and a number past the last element is what its variable happened to hold.

## 7. What is not modelled

* Of the concurrent queue: tokens, explicit producers, bulk operations, move, destruction, thread-exit hooks and the blocking variant, none of
  which this program uses; weak memory orders.
* Of the HTTP parser: `http_parser_execute`, which is compiled and never called, and the strict half of `llhttp.c`, which the preprocessor leaves out.
* Of the database part: `MysqlResult`, the details of the MySQL interface, and statements that two threads share.
* Of UDP: binding and addresses. Of ikcp: release, logging and the setters.
* `sha1`, base64, CSV, HTTP parameters, file access, string tools: pure functions or I/O.
* The Lua bindings and `main`: no state of their own. The script is the environment of the models and may call the operations they have whenever the interface
  allows, also on connections it has kept; the empty response of `sendMsg("")`, a NUL in a JSON key or string, and a Redis command of blanks alone (no request, whose answer is waited for for ever) are left out.
* The run `pool` takes the sleep of a new thread to be long enough (`SleepCoversConstructor`); without it the first row of the table in section 6 applies. `OnCloseLast` leaves out refused handshakes, which are told of their end twice.
* XLog: two files opened within one second have the same name (`XLog.cpp:108`); a `struct tm` is read as it was written by one thread.
* Assertions of the client libraries, such as on the number of parameters of a statement.
* EventLoop and time: wrappers; present as interleaving and fairness.
* Examples and code under `3rd`; logging, wording and formatting of messages.

## 8. Plan

The parts of the system that can be modelled faithfully are modelled, and the invariants that need neither induction over data nor
division by a constant without a value are proved. What is left:

1. `SegmentsKept` of ikcp: the queues as functions from sequence numbers rather than sequences that are folded.
2. `IkcpClock`: the differences of times instead of the times, so that no division remains.
3. `Timer`: the heap order as a relation between positions.

## 9. Running it

    tlc -workers 2 -config TcpSocket.cfg MCTcpSocket      # any run: its cfg and module are in PROJECT.json
    tlapm TcpSocketProofs.tla                             # any *Proofs module

Every passing run ends within three minutes on two cores. The proofs take one or two minutes per module from
nothing, `ConcurrentQueueProofs` about twelve.
