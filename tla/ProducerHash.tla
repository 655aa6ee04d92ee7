---------------------------- MODULE ProducerHash ----------------------------
(***************************************************************************)
(* How the queue of the thread pool finds the producer of a thread:        *)
(* get_or_add_implicit_producer and the list of producers                  *)
(* (src/src/common/concurrentqueue/concurrentqueue.h).  The hash table     *)
(* grows without a lock for the threads that look themselves up; the       *)
(* smaller tables stay in use behind the new one.                          *)
(*                                                                         *)
(* A step is one atomic operation on shared memory; probing one table is   *)
(* one step too, because a thread looks for its own number, which only it  *)
(* writes, or for an empty slot, and slots are never emptied: without      *)
(* thread_local support, which is switched off, no thread removes itself.  *)
(***************************************************************************)
EXTENDS Integers, Sequences, FiniteSets

CONSTANTS
  User,        \* the threads that enqueue: positive numbers
  HashOf,      \* [User -> Nat]
  INITIAL_IMPLICIT_PRODUCER_HASH_SIZE

ASSUME ProducerHashAssumption ==
  /\ User \subseteq Nat \ {0} /\ IsFiniteSet(User)
  /\ HashOf \in [User -> Nat]
  /\ INITIAL_IMPLICIT_PRODUCER_HASH_SIZE \in Nat \ {0, 1}

VARIABLES
  hashes,                                 \* the tables; the last is the current one
  implicitProducerHashCount,
  implicitProducerHashResizeInProgress,
  producerListTail,                       \* the list: its first producer ...
  nextProducer,                           \* ... and who follows whom
  user,                                   \* where each thread is, with its local variables
  returned,                               \* history: the producers a thread has been given
  counted                                 \* history: its newCount, 0 if it has given up

hashVars == <<hashes, implicitProducerHashCount, implicitProducerHashResizeInProgress,
              producerListTail, nextProducer, user, returned, counted>>

\* A slot is empty or has the thread's number and its producer; 0 is
\* invalid_thread_id and nullptr.
Empty == [key |-> 0, value |-> 0]
NewTable(capacity) == [i \in 1 .. capacity |-> Empty]

\* The slot of table h that thread t probes as its i-th.
Probe(h, t, i) == ((HashOf[t] + i - 1) % Len(h)) + 1

\* The probing of thread t in table h ends at slot s, the first with a key in K.
StopsAt(h, t, s, K) ==
  \E i \in 1 .. Len(h) :
    /\ s = Probe(h, t, i)
    /\ h[s].key \in K
    /\ \A j \in 1 .. i - 1 : h[Probe(h, t, j)].key \notin K

\* A thread outside of get_or_add_implicit_producer; the variables of one within.
Resting == [at |-> "idle", main |-> 0, hash |-> 0, n |-> 0, p |-> 0, prevTail |-> 0]

HashInit ==
  /\ hashes = <<NewTable(INITIAL_IMPLICIT_PRODUCER_HASH_SIZE)>>
  /\ implicitProducerHashCount = 0
  /\ implicitProducerHashResizeInProgress = FALSE
  /\ producerListTail = 0
  /\ nextProducer = <<>>
  /\ user = [t \in User |-> Resting]
  /\ returned = [t \in User |-> {}]
  /\ counted = [t \in User |-> 0]

ugoto(t, where) == user' = [user EXCEPT ![t] = where]

\* The table that thread t works with.
Main(t) == hashes[user[t].main]

answer(t, p) ==
  /\ ugoto(t, Resting)
  /\ returned' = [returned EXCEPT ![t] = @ \cup {p}]

-----------------------------------------------------------------------------
get_or_add_implicit_producer(t) ==
  /\ user[t].at = "idle"
  /\ ugoto(t, [Resting EXCEPT !.at = "find", !.main = Len(hashes), !.hash = Len(hashes)])
  /\ UNCHANGED <<hashes, implicitProducerHashCount, implicitProducerHashResizeInProgress,
                 producerListTail, nextProducer, returned, counted>>

\* Fault: only the current table is searched.
find_MainOnly(t) ==
  LET h == Main(t) IN
  /\ user[t].at = "find"
  /\ \E s \in 1 .. Len(h) :
       /\ StopsAt(h, t, s, {0, t})
       /\ IF h[s].key = t THEN answer(t, h[s].value)
          ELSE /\ ugoto(t, [Resting EXCEPT !.at = "count", !.main = user[t].main])
               /\ UNCHANGED returned
  /\ UNCHANGED <<hashes, implicitProducerHashCount, implicitProducerHashResizeInProgress,
                 producerListTail, nextProducer, counted>>

\* The thread's number is looked for in the current table and then in those
\* before it.
find(t) ==
  LET h == hashes[user[t].hash] IN
  /\ user[t].at = "find"
  /\ \E s \in 1 .. Len(h) :
       /\ StopsAt(h, t, s, {0, t})
       /\ \/ /\ h[s].key = t /\ user[t].hash = user[t].main
             /\ answer(t, h[s].value)
          \/ /\ h[s].key = t /\ user[t].hash # user[t].main
             /\ ugoto(t, [Resting EXCEPT !.at = "place", !.main = user[t].main, !.p = h[s].value])
             /\ UNCHANGED returned
          \/ /\ h[s].key = 0
             /\ ugoto(t, IF user[t].hash > 1 THEN [user[t] EXCEPT !.hash = @ - 1]
                         ELSE [Resting EXCEPT !.at = "count", !.main = user[t].main])
             /\ UNCHANGED returned
  /\ UNCHANGED <<hashes, implicitProducerHashCount, implicitProducerHashResizeInProgress,
                 producerListTail, nextProducer, counted>>

\* implicitProducerHashCount.fetch_add(1)
addCount(t) ==
  /\ user[t].at = "count"
  /\ implicitProducerHashCount' = implicitProducerHashCount + 1
  /\ counted' = [counted EXCEPT ![t] = implicitProducerHashCount + 1]
  /\ ugoto(t, [user[t] EXCEPT !.at = "resize", !.n = implicitProducerHashCount + 1])
  /\ UNCHANGED <<hashes, implicitProducerHashResizeInProgress, producerListTail, nextProducer,
                 returned>>

\* A table half full is to be replaced, by the thread that sets the flag.
resize(t) ==
  LET full == user[t].n >= Len(Main(t)) \div 2
      mine == full /\ ~implicitProducerHashResizeInProgress
  IN  /\ user[t].at = "resize"
      /\ implicitProducerHashResizeInProgress' = (implicitProducerHashResizeInProgress \/ full)
      /\ ugoto(t, [user[t] EXCEPT !.at = IF mine THEN "allocate" ELSE "room",
                                  !.main = IF mine THEN Len(hashes) ELSE @])
      /\ UNCHANGED <<hashes, implicitProducerHashCount, producerListTail, nextProducer, returned,
                     counted>>

\* The smallest capacity that is twice the old one, four times, ... and leaves the
\* table less than half full.
NewCapacity(c, old, n) ==
  /\ \E i \in 1 .. n + 1 : c = old * 2 ^ i
  /\ n < c \div 2
  /\ c = 2 * old \/ n >= c \div 4

\* The new table is stored, unless another thread has just done so.
allocate(t) ==
  LET n == user[t].n
      old == Len(Main(t)) IN
  /\ user[t].at = "allocate"
  /\ IF n >= old \div 2
     THEN /\ \E c \in 1 .. 4 * (n + old) :
               NewCapacity(c, old, n) /\ hashes' = Append(hashes, NewTable(c))
          /\ ugoto(t, [user[t] EXCEPT !.at = "unlock", !.main = Len(hashes) + 1])
     ELSE /\ UNCHANGED hashes
          /\ ugoto(t, [user[t] EXCEPT !.at = "unlock"])
  /\ UNCHANGED <<implicitProducerHashCount, implicitProducerHashResizeInProgress,
                 producerListTail, nextProducer, returned, counted>>

unlock(t) ==
  /\ user[t].at = "unlock"
  /\ implicitProducerHashResizeInProgress' = FALSE
  /\ ugoto(t, [user[t] EXCEPT !.at = "room"])
  /\ UNCHANGED <<hashes, implicitProducerHashCount, producerListTail, nextProducer, returned,
                 counted>>

\* Allocation fails: the thread gives up and enqueue returns false.
outOfMemory(t) ==
  /\ user[t].at \in {"allocate", "create"}
  /\ implicitProducerHashCount' = implicitProducerHashCount - 1
  /\ implicitProducerHashResizeInProgress' =
       (implicitProducerHashResizeInProgress /\ user[t].at = "create")
  /\ user[t].at = "allocate" => user[t].n >= Len(Main(t)) \div 2
  /\ ugoto(t, Resting)
  /\ counted' = [counted EXCEPT ![t] = 0]
  /\ UNCHANGED <<hashes, producerListTail, nextProducer, returned>>

\* Less than three quarters full: use it.  Else wait for the new table.
room(t) ==
  LET c == Len(Main(t)) IN
  /\ user[t].at = "room"
  /\ ugoto(t, IF user[t].n < c \div 2 + c \div 4
              THEN [Resting EXCEPT !.at = "create", !.main = user[t].main]
              ELSE [user[t] EXCEPT !.at = "resize", !.main = Len(hashes)])
  /\ UNCHANGED <<hashes, implicitProducerHashCount, implicitProducerHashResizeInProgress,
                 producerListTail, nextProducer, returned, counted>>

\* recycle_or_create_producer: no producer is ever inactive, so a new one is made.
create(t) ==
  /\ user[t].at = "create"
  /\ nextProducer' = Append(nextProducer, 0)
  /\ ugoto(t, [user[t] EXCEPT !.at = "link", !.p = Len(nextProducer) + 1,
                              !.prevTail = producerListTail])
  /\ UNCHANGED <<hashes, implicitProducerHashCount, implicitProducerHashResizeInProgress,
                 producerListTail, returned, counted>>

\* add_producer: next is set, then compare and swap on producerListTail.
add_producer(t) ==
  /\ user[t].at = "link"
  /\ nextProducer' = [nextProducer EXCEPT ![user[t].p] = user[t].prevTail]
  /\ IF producerListTail = user[t].prevTail
     THEN /\ producerListTail' = user[t].p
          /\ ugoto(t, [user[t] EXCEPT !.at = "place", !.prevTail = 0])
     ELSE /\ UNCHANGED producerListTail
          /\ ugoto(t, [user[t] EXCEPT !.prevTail = producerListTail])
  /\ UNCHANGED <<hashes, implicitProducerHashCount, implicitProducerHashResizeInProgress,
                 returned, counted>>

\* Compare and swap on the key of the first empty slot, then the value.
place(t) ==
  LET m == user[t].main IN
  /\ user[t].at = "place"
  /\ \E s \in 1 .. Len(hashes[m]) :
       /\ StopsAt(hashes[m], t, s, {0})
       /\ hashes' = [hashes EXCEPT ![m] = [@ EXCEPT ![s] = [key |-> t, value |-> user[t].p]]]
  /\ answer(t, user[t].p)
  /\ UNCHANGED <<implicitProducerHashCount, implicitProducerHashResizeInProgress,
                 producerListTail, nextProducer, counted>>

-----------------------------------------------------------------------------
HashNext ==
  \E t \in User :
    \/ get_or_add_implicit_producer(t) \/ find(t) \/ addCount(t) \/ resize(t) \/ allocate(t)
    \/ unlock(t) \/ outOfMemory(t) \/ room(t) \/ create(t) \/ add_producer(t) \/ place(t)

HashSpec == HashInit /\ [][HashNext]_hashVars

-----------------------------------------------------------------------------
(***************************************************************************)
(* Properties                                                              *)
(***************************************************************************)

\* A thread always gets the same producer, and no two threads get the same one,
\* also when it was entered in a table that has been replaced since.  Otherwise
\* the tasks of one thread would overtake each other, or two threads would write
\* to the same block.
OwnProducer ==
  \A t, u \in User :
    /\ Cardinality(returned[t]) <= 1
    /\ t # u => returned[t] \cap returned[u] = {}

\* The searches end: every table keeps an empty slot, although a thread may still
\* enter itself in an old table.
SlotLeft == \A k \in DOMAIN hashes : \E s \in DOMAIN hashes[k] : hashes[k][s] = Empty

\* C holds the first producer of the list and, with each one, the next.
Followed(C) ==
  /\ producerListTail # 0 => producerListTail \in C
  /\ \A p \in C : nextProducer[p] # 0 => nextProducer[p] \in C

\* The producers that consumers find by following the list: the least such set.
Listed ==
  {p \in 1 .. Len(nextProducer) :
     \A C \in SUBSET (1 .. Len(nextProducer)) : Followed(C) => p \in C}

\* Every producer that a thread works with is in the list, so that consumers find
\* what it enqueues.
ProducersListed == \A t \in User : returned[t] \subseteq Listed

\* get_or_add_implicit_producer: a thread finds its producer, and so do consumers.
ProducersSafe == OwnProducer /\ SlotLeft /\ ProducersListed

=============================================================================
