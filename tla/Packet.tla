------------------------------- MODULE Packet -------------------------------
(***************************************************************************)
(* BasePacket and its packets with a head (NetPacket, UdpPacket and        *)
(* WebSocketPacket, in network/), over ByteBuffer, over the pooled CBuffer *)
(* storages (common/ByteBuffer.h and .cpp).                                *)
(*                                                                         *)
(* A storage is a vector of cells.  Byte k of the pushed value v is the    *)
(* cell <<v, k>>, a NUL is Nul, and each of the two head fields is one     *)
(* cell.  A value is [id, width], a string one with width 0 and a length.  *)
(* Reads past the storage are undefined, so a reader pops what was pushed, *)
(* in the same types (the two sides of a protocol agree).                  *)
(***************************************************************************)
EXTENDS ObjectPool

CONSTANTS
  PacketId,      \* the packet objects
  HEAD,          \* getHeadSize(), in cells: the length and the type
  Values,        \* what may be pushed: records [id, width, len]
  MsgTypes,      \* msgtype arguments of writeHead
  PoolSizes,     \* init_buffer_pool arguments
  MaxSize        \* bound on a storage's cells

ASSUME PacketAssumption == HEAD >= 2 /\ MaxSize > HEAD /\ Values # {}

VARIABLES
  bufpool,       \* CommonPool<CBuffer>
  contents,      \* the cells of every storage that exists
  packet,        \* the packets that exist: _storage, _rpos, _wpos
  pushed,        \* ghost: what was pushed into a packet and not popped
  spent,         \* ghost: packets whose data was moved away and that were not zeroed
  head           \* ghost: what writeHead last said of a packet, if it still holds

packetVars == <<bufpool, contents, packet, pushed, spent, head>>

Nul == <<0, 0>>

NoHead == <<>>

IsString(v) == v.width = 0

\* The cells operator<< appends for a value.
Bytes(v) ==
  IF IsString(v) THEN [k \in 1..v.len |-> <<v.id, k>>] \o <<Nul>>
                 ELSE [k \in 1..v.width |-> <<v.id, k>>]

Resize(cells, n) ==
  [k \in 1..n |-> IF k <= Len(cells) THEN cells[k] ELSE Nul]

Held == DOMAIN packet

Cells(p) == contents[packet[p].storage]

PacketInit ==
  /\ \E n \in PoolSizes : bufpool = EmptyPool(n)
  /\ contents = [s \in {} |-> << >>]
  /\ packet = [p \in {} |-> << >>]
  /\ pushed = [p \in {} |-> << >>]
  /\ spent = {}
  /\ head = [p \in {} |-> NoHead]

----------------------------------------------------------------------------
\* zero() of a packet with a head: the storage keeps its first cells.
zeroed(pk, cells) ==
  [packet |-> [pk EXCEPT !.rpos = HEAD, !.wpos = HEAD], cells |-> Resize(cells, HEAD)]

\* ByteBuffer() takes a storage; BasePacket() zeroes it to 0 cells and the
\* packet's own constructor to its head.
construct(p) ==
  LET c == createObject(bufpool)
      z == zeroed([storage |-> c.obj, rpos |-> 0, wpos |-> 0], << >>)
  IN  /\ p \notin Held
      /\ bufpool' = c.pool
      /\ packet' = packet @@ (p :> z.packet)
      /\ contents' = (c.obj :> z.cells) @@ contents
      /\ pushed' = pushed @@ (p :> << >>)
      /\ head' = head @@ (p :> NoHead)
      /\ UNCHANGED spent

\* The copy constructor takes a storage of its own; the move constructor
\* swaps it with the other's, whose positions stay behind.
constructFrom(p, q, move) ==
  LET c == createObject(bufpool)
      old == IF c.obj \in DOMAIN contents THEN contents[c.obj] ELSE << >>
      pq == packet[q]
  IN  /\ p \notin Held /\ q \in Held \ spent
      /\ bufpool' = c.pool
      /\ IF move
           THEN /\ packet' = [packet EXCEPT ![q].storage = c.obj] @@ (p :> pq)
                /\ contents' = (c.obj :> old) @@ contents
                /\ pushed' = [pushed EXCEPT ![q] = << >>] @@ (p :> pushed[q])
                /\ head' = [head EXCEPT ![q] = NoHead] @@ (p :> head[q])
                /\ spent' = spent \cup {q}
           ELSE /\ packet' = packet @@ (p :> [pq EXCEPT !.storage = c.obj])
                /\ contents' = (c.obj :> Cells(q)) @@ contents
                /\ pushed' = pushed @@ (p :> pushed[q])
                /\ head' = head @@ (p :> head[q])
                /\ UNCHANGED spent

\* operator=, copying or moving (a packet assigned to itself is left alone).
assign(p, q, move) ==
  LET pp == packet[p]
      pq == packet[q]
  IN  /\ p \in Held /\ q \in Held \ spent /\ p # q
      /\ IF move
           THEN /\ packet' = [packet EXCEPT ![p] = pq, ![q].storage = pp.storage]
                /\ pushed' = [pushed EXCEPT ![p] = pushed[q], ![q] = << >>]
                /\ head' = [head EXCEPT ![p] = head[q], ![q] = NoHead]
                /\ spent' = (spent \cup {q}) \ {p}
                /\ UNCHANGED contents
           ELSE /\ packet' = [packet EXCEPT ![p].rpos = pq.rpos, ![p].wpos = pq.wpos]
                /\ contents' = [contents EXCEPT ![pp.storage] = Cells(q)]
                /\ pushed' = [pushed EXCEPT ![p] = pushed[q]]
                /\ head' = [head EXCEPT ![p] = head[q]]
                /\ spent' = spent \ {p}
      /\ UNCHANGED bufpool

\* ~ByteBuffer gives the storage back; a deleted one is gone.
destruct(p) ==
  LET pool == reclaimObject(bufpool, packet[p].storage)
      Without(f) == [q \in Held \ {p} |-> f[q]]
  IN  /\ p \in Held
      /\ bufpool' = pool
      /\ contents' = [s \in DOMAIN contents \cap pool.live |-> contents[s]]
      /\ packet' = Without(packet)
      /\ pushed' = Without(pushed)
      /\ head' = Without(head)
      /\ spent' = spent \ {p}

----------------------------------------------------------------------------
zero(p) ==
  LET z == zeroed(packet[p], Cells(p))
  IN  /\ p \in Held
      /\ packet' = [packet EXCEPT ![p] = z.packet]
      /\ contents' = [contents EXCEPT ![packet[p].storage] = z.cells]
      /\ pushed' = [pushed EXCEPT ![p] = << >>]
      /\ head' = [head EXCEPT ![p] = NoHead]
      /\ spent' = spent \ {p}
      /\ UNCHANGED bufpool

\* append inserts at _wpos, it does not overwrite.
append(cells, wpos, new) ==
  SubSeq(cells, 1, wpos) \o new \o SubSeq(cells, wpos + 1, Len(cells))

\* pushInt8 .. pushDouble, pushString, writeData: operator<<.
push(p, v) ==
  /\ p \in Held \ spent
  /\ Len(Cells(p)) + Len(Bytes(v)) <= MaxSize
  /\ contents' = [contents EXCEPT ![packet[p].storage] = append(@, packet[p].wpos, Bytes(v))]
  /\ packet' = [packet EXCEPT ![p].wpos = @ + Len(Bytes(v))]
  /\ pushed' = [pushed EXCEPT ![p] = Append(@, v)]
  /\ head' = [head EXCEPT ![p] = NoHead]
  /\ UNCHANGED <<bufpool, spent>>

\* How far popValue moves _rpos: the width of the type, or for a string past
\* the first NUL, if there is one before the end of the storage.
popped(cells, rpos, v) ==
  LET nuls == {k \in rpos + 1 .. Len(cells) : cells[k] = Nul}
  IN  IF ~IsString(v) THEN rpos + v.width
      ELSE IF nuls = {} THEN Len(cells) ELSE Min(nuls)

\* getInt8 .. getDouble, getString: operator>>.
pop(p) ==
  /\ p \in Held \ spent /\ pushed[p] # << >>
  /\ packet' = [packet EXCEPT ![p].rpos = popped(Cells(p), @, Head(pushed[p]))]
  /\ pushed' = [pushed EXCEPT ![p] = Tail(@)]
  /\ UNCHANGED <<bufpool, contents, spent, head>>

----------------------------------------------------------------------------
\* moveData of packets with the same head: p takes q's positions and storage,
\* q is zeroed with the storage p had.
moveData(p, q) ==
  LET pp == packet[p]
      pq == packet[q]
      z == zeroed([pq EXCEPT !.storage = pp.storage], Cells(p))
  IN  [packet   |-> [packet EXCEPT ![p] = pq, ![q] = z.packet],
       contents |-> [contents EXCEPT ![pp.storage] = z.cells]]

move(p, q) ==
  LET m == moveData(p, q)
  IN  /\ p \in Held /\ q \in Held \ spent /\ p # q
      /\ packet' = m.packet
      /\ contents' = m.contents
      /\ pushed' = [pushed EXCEPT ![p] = pushed[q], ![q] = << >>]
      /\ head' = [head EXCEPT ![p] = head[q], ![q] = NoHead]
      /\ spent' = spent \ {p}
      /\ UNCHANGED bufpool

\* writeHead stores the body's size and the type in the head's two fields;
\* put overwrites.
writeHead(p, type) ==
  /\ p \in Held \ spent
  /\ contents' = [contents EXCEPT ![packet[p].storage] =
                    [@ EXCEPT ![1] = <<packet[p].wpos - HEAD, 1>>, ![2] = <<type, 2>>]]
  /\ head' = [head EXCEPT ![p] = <<type>>]
  /\ UNCHANGED <<bufpool, packet, pushed, spent>>

\* init_buffer_pool from the script, and CommPool::destroy<CBuffer>.
init_buffer_pool(n) ==
  /\ bufpool' = init(bufpool, n)
  /\ UNCHANGED <<contents, packet, pushed, spent, head>>

destroy_pool ==
  LET pool == destroy(bufpool)
  IN  /\ bufpool' = pool
      /\ contents' = [s \in pool.live |-> contents[s]]
      /\ UNCHANGED <<packet, pushed, spent, head>>

PacketNext ==
  \/ \E p \in PacketId : construct(p) \/ destruct(p) \/ zero(p) \/ pop(p)
  \/ \E p \in PacketId, v \in Values : push(p, v)
  \/ \E p, q \in PacketId : \/ move(p, q)
                            \/ \E m \in BOOLEAN : constructFrom(p, q, m) \/ assign(p, q, m)
  \/ \E p \in PacketId, type \in MsgTypes : writeHead(p, type)
  \/ \E n \in PoolSizes : init_buffer_pool(n)
  \/ destroy_pool

PacketSpec == PacketInit /\ [][PacketNext]_packetVars

----------------------------------------------------------------------------
\* Every packet has a storage no other packet and no free list has, also after
\* its data moved away, and the pool's counts and flags say so.
StorageOwned ==
  /\ \A p, q \in Held : p # q => packet[p].storage # packet[q].storage
  /\ PoolSound(bufpool, {packet[p].storage : p \in Held})

\* The unread part of a packet is what was pushed and not popped, in order and
\* whole, whatever packets and recycled storages it went through: the read
\* position never passes the write position, which is the storage's end.
UnreadIsPushed ==
  \A p \in Held \ spent :
    /\ HEAD <= packet[p].rpos /\ packet[p].rpos <= packet[p].wpos
    /\ packet[p].wpos = Len(Cells(p))
    /\ SubSeq(Cells(p), packet[p].rpos + 1, packet[p].wpos)
         = FlattenSeq([k \in 1..Len(pushed[p]) |-> Bytes(pushed[p][k])])

\* The head that writeHead wrote says the size and the type of this body until
\* the packet changes.
HeadTells ==
  \A p \in Held \ spent : head[p] # NoHead =>
    /\ Cells(p)[1] = <<packet[p].wpos - HEAD, 1>>
    /\ Cells(p)[2] = <<head[p][1], 2>>

\* Packets keep their data and their storage (ByteBuffer, BasePacket::moveData
\* and the CBuffer pool together).
PacketsSound == StorageOwned /\ UnreadIsPushed /\ HeadTells
=============================================================================
