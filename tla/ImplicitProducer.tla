-------------------------- MODULE ImplicitProducer --------------------------
(***************************************************************************)
(* The queue behind TQueue: moodycamel::ConcurrentQueue as enqueue and     *)
(* try_dequeue use it (src/src/common/concurrentqueue/concurrentqueue.h).  *)
(* Each thread that enqueues has a producer of its own, with blocks of     *)
(* BLOCK_SIZE elements that an index maps to; consumers take from any      *)
(* producer.  A step is one atomic operation on shared memory, and memory  *)
(* is sequentially consistent.                                             *)
(*                                                                         *)
(* The free list and the initial pool appear as the set of blocks that     *)
(* wait to be used again and a counter: module FreeList has the list.      *)
(* index_t is 64 bits wide and does not wrap.  malloc fails when MaxBlock  *)
(* blocks exist.                                                           *)
(***************************************************************************)
EXTENDS Integers, Sequences, SequencesExt, FiniteSets

CONSTANTS
  Producer, Consumer,          \* threads
  BLOCK_SIZE,
  IMPLICIT_INITIAL_INDEX_SIZE,
  initialBlockPoolSize,
  MaxBlock,                    \* how many blocks the memory holds
  Quotas,                      \* bound: how many elements each producer enqueues
  MaxOver                      \* bound: attempts that fail, then no new call begins

ASSUME ImplicitProducerAssumption ==
  /\ BLOCK_SIZE \in Nat /\ BLOCK_SIZE > 1
  /\ IMPLICIT_INITIAL_INDEX_SIZE \in Nat /\ IMPLICIT_INITIAL_INDEX_SIZE > 1
  /\ {initialBlockPoolSize, MaxBlock, MaxOver} \subseteq Nat
  /\ initialBlockPoolSize <= MaxBlock
  /\ Quotas \subseteq [Producer -> Nat]
  /\ IsFiniteSet(Consumer)

VARIABLES
  tailIndex, headIndex,                       \* of each producer
  dequeueOptimisticCount, dequeueOvercommit,
  tailBlock,
  headers,    \* the block index headers a producer has made; the last is blockIndex
  entries,    \* the BlockIndexEntry objects of a producer
  elements,   \* the slots of the blocks
  elementsCompletelyDequeued,
  made,       \* how many blocks exist
  freeBlocks, \* blocks that have been given back
  prod, cons, \* where each thread is, with its local variables
  quota,      \* one of Quotas
  taken       \* history: what was dequeued from a producer, with its index

queueVars == <<tailIndex, headIndex, dequeueOptimisticCount, dequeueOvercommit, tailBlock,
               headers, entries, elements, elementsCompletelyDequeued, made, freeBlocks,
               prod, cons, quota, taken>>
countVars == <<tailIndex, headIndex, dequeueOptimisticCount, dequeueOvercommit>>
indexVars == <<headers, entries>>
blockVars == <<elements, elementsCompletelyDequeued, made, freeBlocks>>

Block == 1 .. MaxBlock
INVALID_BLOCK_BASE == 1
JUNK == -1

Entry(key, value) == [key |-> key, value |-> value]

\* new_block_index: a table of twice the size, in which the old entries come
\* first, the oldest at 0.  The value of a new entry is not initialised.
new_block_index(hs, es) ==
  IF hs = <<>>
  THEN [hs |-> <<[tail |-> IMPLICIT_INITIAL_INDEX_SIZE - 1,
                  index |-> [i \in 1 .. IMPLICIT_INITIAL_INDEX_SIZE |-> i]]>>,
        es |-> [i \in 1 .. IMPLICIT_INITIAL_INDEX_SIZE |-> Entry(INVALID_BLOCK_BASE, JUNK)]]
  ELSE LET prev == Last(hs)
           n == Len(prev.index)
           old == [i \in 1 .. n |-> prev.index[((prev.tail + i) % n) + 1]]
       IN  [hs |-> Append(hs, [tail |-> n - 1,
                               index |-> old \o [i \in 1 .. n |-> Len(es) + i]]),
            es |-> es \o [i \in 1 .. n |-> Entry(INVALID_BLOCK_BASE, JUNK)]]

\* The entry after the tail in the current table of producer p, and its position.
NewTail(p) == LET h == Last(headers[p]) IN (h.tail + 1) % Len(h.index)
TailEntry(p) == LET h == Last(headers[p]) IN h.index[NewTail(p) + 1]

Idle == [at |-> "idle"]

QueueInit ==
  /\ tailIndex = [p \in Producer |-> 0]
  /\ headIndex = [p \in Producer |-> 0]
  /\ dequeueOptimisticCount = [p \in Producer |-> 0]
  /\ dequeueOvercommit = [p \in Producer |-> 0]
  /\ tailBlock = [p \in Producer |-> 0]
  /\ headers = [p \in Producer |-> new_block_index(<<>>, <<>>).hs]
  /\ entries = [p \in Producer |-> new_block_index(<<>>, <<>>).es]
  /\ elements = [b \in Block |-> [i \in 0 .. BLOCK_SIZE - 1 |-> <<>>]]
  /\ elementsCompletelyDequeued = [b \in Block |-> 0]
  /\ made = 0
  /\ freeBlocks = {}
  /\ prod = [p \in Producer |-> Idle]
  /\ cons = [c \in Consumer |-> Idle]
  /\ quota \in Quotas
  /\ taken = [p \in Producer |-> {}]

-----------------------------------------------------------------------------
(***************************************************************************)
(* ImplicitProducer::enqueue                                               *)
(***************************************************************************)

pgoto(p, where) == prod' = [prod EXCEPT ![p] = where]

\* At the end of a block a new one is needed.
enqueue(p) ==
  /\ prod[p].at = "idle"
  /\ tailIndex[p] < quota[p]
  /\ pgoto(p, [at |-> IF tailIndex[p] % BLOCK_SIZE = 0 THEN "insert" ELSE "construct"])
  /\ UNCHANGED <<countVars, tailBlock, indexVars, blockVars, cons, quota, taken>>

\* insert_block_index_entry: is the next entry free?  If not, make a larger table.
insert(p) ==
  /\ prod[p].at = "insert"
  /\ LET e == entries[p][TailEntry(p)] IN
     IF e.key = INVALID_BLOCK_BASE \/ e.value = 0
     THEN UNCHANGED indexVars
     ELSE LET n == new_block_index(headers[p], entries[p]) IN
          /\ headers' = [headers EXCEPT ![p] = n.hs]
          /\ entries' = [entries EXCEPT ![p] = n.es]
  /\ pgoto(p, [at |-> "key"])
  /\ UNCHANGED <<countVars, tailBlock, blockVars, cons, quota, taken>>

\* key.store
key(p) ==
  /\ prod[p].at = "key"
  /\ entries' = [entries EXCEPT ![p][TailEntry(p)].key = tailIndex[p]]
  /\ pgoto(p, [at |-> "tail"])
  /\ UNCHANGED <<countVars, tailBlock, headers, blockVars, cons, quota, taken>>

\* tail.store
tail(p) ==
  /\ prod[p].at = "tail"
  /\ headers' = [headers EXCEPT ![p][Len(headers[p])].tail = NewTail(p)]
  /\ pgoto(p, [at |-> "requisition", entry |-> TailEntry(p)])
  /\ UNCHANGED <<countVars, tailBlock, entries, blockVars, cons, quota, taken>>

\* requisition_block and reset_empty: from the initial pool, the free list or
\* malloc.  Without a block the index is rewound and enqueue returns false.
requisition_block(p) ==
  /\ prod[p].at = "requisition"
  /\ \/ /\ made < initialBlockPoolSize \/ (freeBlocks = {} /\ made < MaxBlock)
        /\ made' = made + 1
        /\ pgoto(p, [at |-> "value", entry |-> prod[p].entry, block |-> made + 1])
        /\ elementsCompletelyDequeued' = [elementsCompletelyDequeued EXCEPT ![made + 1] = 0]
        /\ UNCHANGED <<headers, entries, freeBlocks>>
     \/ /\ made >= initialBlockPoolSize
        /\ \E b \in freeBlocks :
             /\ freeBlocks' = freeBlocks \ {b}
             /\ pgoto(p, [at |-> "value", entry |-> prod[p].entry, block |-> b])
             /\ elementsCompletelyDequeued' = [elementsCompletelyDequeued EXCEPT ![b] = 0]
        /\ UNCHANGED <<headers, entries, made>>
     \/ /\ made = MaxBlock /\ freeBlocks = {}
        /\ headers' = [headers EXCEPT ![p][Len(headers[p])].tail =
                         (@ - 1) % Len(Last(headers[p]).index)]
        /\ entries' = [entries EXCEPT ![p][prod[p].entry].value = 0]
        /\ pgoto(p, Idle)
        /\ UNCHANGED <<elementsCompletelyDequeued, made, freeBlocks>>
  /\ UNCHANGED <<countVars, tailBlock, elements, cons, quota, taken>>

\* value.store, tailBlock
value(p) ==
  /\ prod[p].at = "value"
  /\ entries' = [entries EXCEPT ![p][prod[p].entry].value = prod[p].block]
  /\ tailBlock' = [tailBlock EXCEPT ![p] = prod[p].block]
  /\ pgoto(p, [at |-> "construct"])
  /\ UNCHANGED <<countVars, headers, blockVars, cons, quota, taken>>

\* The element is constructed in its slot.
construct(p) ==
  /\ prod[p].at = "construct"
  /\ elements' = [elements EXCEPT ![tailBlock[p]][tailIndex[p] % BLOCK_SIZE] = <<p, tailIndex[p]>>]
  /\ pgoto(p, [at |-> "publish"])
  /\ UNCHANGED <<countVars, tailBlock, indexVars, elementsCompletelyDequeued, made, freeBlocks,
                 cons, quota, taken>>

\* tailIndex.store
publish(p) ==
  /\ prod[p].at = "publish"
  /\ tailIndex' = [tailIndex EXCEPT ![p] = @ + 1]
  /\ pgoto(p, Idle)
  /\ UNCHANGED <<headIndex, dequeueOptimisticCount, dequeueOvercommit, tailBlock, indexVars,
                 blockVars, cons, quota, taken>>

-----------------------------------------------------------------------------
(***************************************************************************)
(* try_dequeue, and ImplicitProducer::dequeue on producer cons[c].p        *)
(***************************************************************************)

cgoto(c, where) == cons' = [cons EXCEPT ![c] = where]

\* dequeue has found nothing: the producers of rest have not been tried.
tryNext(c) ==
  \/ cons[c].rest = {} /\ cgoto(c, Idle)
  \/ \E q \in cons[c].rest :
       cgoto(c, [at |-> "tail", p |-> q, rest |-> cons[c].rest \ {q}])

\* The producers are scored, and the best of those that look non-empty is tried
\* first, then all others; any of them may be the best.
try_dequeue(c) ==
  /\ cons[c].at = "idle"
  /\ \A p \in Producer : dequeueOvercommit[p] < MaxOver
  /\ \E best \in {p \in Producer : headIndex[p] < tailIndex[p]} :
       cgoto(c, [at |-> "tail", p |-> best, rest |-> Producer \ {best}])
  /\ UNCHANGED <<countVars, tailBlock, indexVars, blockVars, prod, quota, taken>>

loadTail(c) ==
  /\ cons[c].at = "tail"
  /\ cgoto(c, [at |-> "overcommit", p |-> cons[c].p, rest |-> cons[c].rest,
               tail |-> tailIndex[cons[c].p]])
  /\ UNCHANGED <<countVars, tailBlock, indexVars, blockVars, prod, quota, taken>>

overcommit(c) ==
  /\ cons[c].at = "overcommit"
  /\ cgoto(c, [at |-> "check", p |-> cons[c].p, rest |-> cons[c].rest,
               tail |-> cons[c].tail, over |-> dequeueOvercommit[cons[c].p]])
  /\ UNCHANGED <<countVars, tailBlock, indexVars, blockVars, prod, quota, taken>>

check(c) ==
  /\ cons[c].at = "check"
  /\ IF dequeueOptimisticCount[cons[c].p] - cons[c].over < cons[c].tail
     THEN cgoto(c, [at |-> "count", p |-> cons[c].p, rest |-> cons[c].rest,
                    over |-> cons[c].over])
     ELSE tryNext(c)
  /\ UNCHANGED <<countVars, tailBlock, indexVars, blockVars, prod, quota, taken>>

\* dequeueOptimisticCount.fetch_add(1)
claim(c) ==
  LET p == cons[c].p IN
  /\ cons[c].at = "count"
  /\ dequeueOptimisticCount' = [dequeueOptimisticCount EXCEPT ![p] = @ + 1]
  /\ cgoto(c, [at |-> "recheck", p |-> p, rest |-> cons[c].rest, over |-> cons[c].over,
               my |-> dequeueOptimisticCount[p]])
  /\ UNCHANGED <<tailIndex, headIndex, dequeueOvercommit, tailBlock, indexVars, blockVars,
                 prod, quota, taken>>

\* Fault: the tail is not looked at again.
recheck_Never(c) ==
  /\ cons[c].at = "recheck"
  /\ cgoto(c, [at |-> "head", p |-> cons[c].p])
  /\ UNCHANGED <<countVars, tailBlock, indexVars, blockVars, prod, quota, taken>>

\* tailIndex is loaded again.
recheck(c) ==
  /\ cons[c].at = "recheck"
  /\ IF cons[c].my - cons[c].over < tailIndex[cons[c].p]
     THEN cgoto(c, [at |-> "head", p |-> cons[c].p])
     ELSE cgoto(c, [at |-> "giveup", p |-> cons[c].p, rest |-> cons[c].rest])
  /\ UNCHANGED <<countVars, tailBlock, indexVars, blockVars, prod, quota, taken>>

\* dequeueOvercommit.fetch_add(1)
giveup(c) ==
  /\ cons[c].at = "giveup"
  /\ dequeueOvercommit' = [dequeueOvercommit EXCEPT ![cons[c].p] = @ + 1]
  /\ tryNext(c)
  /\ UNCHANGED <<tailIndex, headIndex, dequeueOptimisticCount, tailBlock, indexVars, blockVars,
                 prod, quota, taken>>

\* headIndex.fetch_add(1)
dequeue(c) ==
  LET p == cons[c].p IN
  /\ cons[c].at = "head"
  /\ headIndex' = [headIndex EXCEPT ![p] = @ + 1]
  /\ cgoto(c, [at |-> "header", p |-> p, index |-> headIndex[p]])
  /\ UNCHANGED <<tailIndex, dequeueOptimisticCount, dequeueOvercommit, tailBlock, indexVars,
                 blockVars, prod, quota, taken>>

\* get_block_index_index_for_index: load blockIndex ...
header(c) ==
  /\ cons[c].at = "header"
  /\ cgoto(c, [at |-> "htail", p |-> cons[c].p, index |-> cons[c].index,
               h |-> Len(headers[cons[c].p])])
  /\ UNCHANGED <<countVars, tailBlock, indexVars, blockVars, prod, quota, taken>>

\* ... its tail ...
htail(c) ==
  /\ cons[c].at = "htail"
  /\ cgoto(c, [at |-> "hkey", p |-> cons[c].p, index |-> cons[c].index, h |-> cons[c].h,
               tail |-> headers[cons[c].p][cons[c].h].tail])
  /\ UNCHANGED <<countVars, tailBlock, indexVars, blockVars, prod, quota, taken>>

\* The entry of the block with index i, counted back from the tail entry.
EntryFor(h, t, tailBase, i) ==
  h.index[((t + ((i - (i % BLOCK_SIZE)) - tailBase) \div BLOCK_SIZE) % Len(h.index)) + 1]

\* ... and the key of the tail entry.
hkey(c) ==
  LET h == headers[cons[c].p][cons[c].h]
      base == entries[cons[c].p][h.index[cons[c].tail + 1]].key
  IN  /\ cons[c].at = "hkey"
      /\ cgoto(c, [at |-> "entry", p |-> cons[c].p, index |-> cons[c].index,
                   entry |-> EntryFor(h, cons[c].tail, base, cons[c].index)])
      /\ UNCHANGED <<countVars, tailBlock, indexVars, blockVars, prod, quota, taken>>

\* The thread works on its element in block b, through its index entry.
Using(at, c, b) ==
  [at |-> at, p |-> cons[c].p, index |-> cons[c].index, entry |-> cons[c].entry, block |-> b]

\* value.load
entry(c) ==
  /\ cons[c].at = "entry"
  /\ cgoto(c, Using("move", c, entries[cons[c].p][cons[c].entry].value))
  /\ UNCHANGED <<countVars, tailBlock, indexVars, blockVars, prod, quota, taken>>

\* The element is moved out and destroyed.
move(c) ==
  LET i == cons[c].index
      b == cons[c].block IN
  /\ cons[c].at = "move"
  /\ taken' = [taken EXCEPT ![cons[c].p] =
                 @ \cup {[index |-> i, element |-> elements[b][i % BLOCK_SIZE]]}]
  /\ elements' = [elements EXCEPT ![b][i % BLOCK_SIZE] = <<>>]
  /\ cgoto(c, Using("empty", c, b))
  /\ UNCHANGED <<countVars, tailBlock, indexVars, elementsCompletelyDequeued, made, freeBlocks,
                 prod, quota>>

\* elementsCompletelyDequeued.fetch_add(1)
set_empty(c) ==
  LET b == cons[c].block IN
  /\ cons[c].at = "empty"
  /\ elementsCompletelyDequeued' = [elementsCompletelyDequeued EXCEPT ![b] = @ + 1]
  /\ cgoto(c, IF elementsCompletelyDequeued[b] = BLOCK_SIZE - 1
              THEN Using("clear", c, b) ELSE Idle)
  /\ UNCHANGED <<countVars, tailBlock, indexVars, elements, made, freeBlocks, prod, quota, taken>>

\* value.store(nullptr)
clear(c) ==
  /\ cons[c].at = "clear"
  /\ entries' = [entries EXCEPT ![cons[c].p][cons[c].entry].value = 0]
  /\ cgoto(c, Using("free", c, cons[c].block))
  /\ UNCHANGED <<countVars, tailBlock, headers, blockVars, prod, quota, taken>>

add_block_to_free_list(c) ==
  /\ cons[c].at = "free"
  /\ freeBlocks' = freeBlocks \cup {cons[c].block}
  /\ cgoto(c, Idle)
  /\ UNCHANGED <<countVars, tailBlock, indexVars, elements, elementsCompletelyDequeued, made,
                 prod, quota, taken>>

-----------------------------------------------------------------------------
QueueNext ==
  \/ \E p \in Producer :
       \/ enqueue(p) \/ insert(p) \/ key(p) \/ tail(p) \/ requisition_block(p) \/ value(p)
       \/ construct(p) \/ publish(p)
  \/ \E c \in Consumer :
       \/ try_dequeue(c) \/ loadTail(c) \/ overcommit(c) \/ check(c) \/ claim(c) \/ recheck(c)
       \/ giveup(c) \/ dequeue(c) \/ header(c) \/ htail(c) \/ hkey(c) \/ entry(c) \/ move(c) \/ set_empty(c)
       \/ clear(c) \/ add_block_to_free_list(c)

QueueSpec == QueueInit /\ [][QueueNext]_queueVars

-----------------------------------------------------------------------------
(***************************************************************************)
(* Properties                                                              *)
(***************************************************************************)

\* What is dequeued at an index is what was enqueued there: no element is
\* lost, taken twice or taken before it was written, and no block is used again
\* while a consumer has still to read it.
DequeuedExact ==
  \A p \in Producer : \A x \in taken[p] : x.element = <<p, x.index>>

\* A consumer that has claimed an index finds it below the tail, and the index
\* entry that it computes is the one of its block, as the code asserts, even if
\* the table has been replaced by a larger one in between.
IndexFound ==
  \A p \in Producer :
    /\ headIndex[p] <= tailIndex[p]
    /\ \A c \in Consumer : cons[c].at = "entry" /\ cons[c].p = p =>
         /\ entries[p][cons[c].entry].key = cons[c].index - (cons[c].index % BLOCK_SIZE)
         /\ entries[p][cons[c].entry].value \in Block

\* When no consumer is at work, the attempts minus the failed ones are exactly
\* the elements taken: otherwise an element would stay in the queue for ever
\* although every consumer finds it empty, or a consumer would go past the tail.
AttemptsSettle ==
  \A p \in Producer :
    (\A c \in Consumer : cons[c].at = "idle" \/ cons[c].p # p) =>
      dequeueOptimisticCount[p] - dequeueOvercommit[p] = headIndex[p]

\* ImplicitProducer: enqueue and dequeue agree on every element.
ElementsSafe == DequeuedExact /\ IndexFound /\ AttemptsSettle

=============================================================================
