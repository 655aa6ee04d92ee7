------------------------------ MODULE FreeList ------------------------------
(***************************************************************************)
(* The lock-free free list from which the queue of the thread pool takes   *)
(* its blocks (FreeList in src/src/common/concurrentqueue).  A step is one *)
(* atomic operation on freeListHead or on the freeListRefs of a node; the  *)
(* operations are interleaved, and memory is sequentially consistent.      *)
(*                                                                         *)
(* freeListRefs is a pair: flag is the bit SHOULD_BE_ON_FREELIST, n the    *)
(* reference count under REFS_MASK.  0 stands for nullptr.                 *)
(***************************************************************************)
EXTENDS Integers, FiniteSets

CONSTANTS
  Node,     \* the blocks: positive numbers
  Thread,   \* the threads
  Owned     \* who has which node when the run starts: [Thread -> SUBSET Node]

ASSUME FreeListAssumption ==
  /\ Node \subseteq Nat \ {0}
  /\ IsFiniteSet(Thread)
  /\ Owned \in [Thread -> SUBSET Node]
  /\ \A t, u \in Thread : t # u => Owned[t] \cap Owned[u] = {}

VARIABLES
  freeListHead,
  freeListNext,   \* [Node -> Node or 0]
  freeListRefs,   \* [Node -> [flag, n]]
  pc,             \* where a thread is
  head,           \* its local variables head, node (or prevHead) and next
  node,
  next,
  after,          \* where add_knowing_refcount_is_zero returns to
  held            \* the nodes a thread has taken and not given back

flVars == <<freeListHead, freeListNext, freeListRefs, pc, head, node, next, after, held>>

Refs(flag, n) == [flag |-> flag, n |-> n]

FlInit ==
  /\ freeListHead = 0
  /\ freeListNext = [k \in Node |-> 0]
  /\ freeListRefs = [k \in Node |-> Refs(FALSE, 0)]
  /\ pc = [t \in Thread |-> "idle"]
  /\ head = [t \in Thread |-> 0]
  /\ node = [t \in Thread |-> 0]
  /\ next = [t \in Thread |-> 0]
  /\ after = [t \in Thread |-> "idle"]
  /\ held = Owned

goto(t, label) == pc' = [pc EXCEPT ![t] = label]

\* A thread that returns forgets its local variables.
done(t) ==
  /\ goto(t, "idle")
  /\ head' = [head EXCEPT ![t] = 0]
  /\ node' = [node EXCEPT ![t] = 0]
  /\ next' = [next EXCEPT ![t] = 0]
  /\ after' = [after EXCEPT ![t] = "idle"]

-----------------------------------------------------------------------------
(***************************************************************************)
(* add                                                                     *)
(***************************************************************************)

\* fetch_add(SHOULD_BE_ON_FREELIST)
add(t, k) ==
  /\ pc[t] = "idle" /\ k \in held[t]
  /\ held' = [held EXCEPT ![t] = @ \ {k}]
  /\ freeListRefs' = [freeListRefs EXCEPT ![k].flag = TRUE]
  /\ IF freeListRefs[k] = Refs(FALSE, 0)
     THEN /\ goto(t, "load")
          /\ node' = [node EXCEPT ![t] = k]
     ELSE UNCHANGED <<pc, node>>
  /\ UNCHANGED <<freeListHead, freeListNext, head, next, after>>

\* add_knowing_refcount_is_zero: load freeListHead.
load(t) ==
  /\ pc[t] = "load"
  /\ head' = [head EXCEPT ![t] = freeListHead]
  /\ goto(t, "link")
  /\ UNCHANGED <<freeListHead, freeListNext, freeListRefs, node, next, after, held>>

\* Store the next pointer: no other thread reads it while the count is 0.
link(t) ==
  /\ pc[t] = "link"
  /\ freeListNext' = [freeListNext EXCEPT ![node[t]] = head[t]]
  /\ goto(t, "ref")
  /\ UNCHANGED <<freeListHead, freeListRefs, head, node, next, after, held>>

\* freeListRefs.store(1)
ref(t) ==
  /\ pc[t] = "ref"
  /\ freeListRefs' = [freeListRefs EXCEPT ![node[t]] = Refs(FALSE, 1)]
  /\ goto(t, "push")
  /\ UNCHANGED <<freeListHead, freeListNext, head, node, next, after, held>>

\* Where the thread goes on after add_knowing_refcount_is_zero.
leave(t) ==
  IF after[t] = "idle" THEN done(t)
  ELSE /\ goto(t, after[t])
       /\ head' = [head EXCEPT ![t] = next[t]]
       /\ UNCHANGED <<node, next, after>>

\* Compare and swap on freeListHead.
push(t) ==
  /\ pc[t] = "push"
  /\ IF freeListHead = head[t]
     THEN /\ freeListHead' = node[t]
          /\ leave(t)
     ELSE /\ head' = [head EXCEPT ![t] = freeListHead]
          /\ goto(t, "unref")
          /\ UNCHANGED <<freeListHead, node, next, after>>
  /\ UNCHANGED <<freeListNext, freeListRefs, held>>

\* fetch_add(SHOULD_BE_ON_FREELIST - 1): try again if no one else refers to it.
unref(t) ==
  /\ pc[t] = "unref"
  /\ freeListRefs' = [freeListRefs EXCEPT ![node[t]] = Refs(TRUE, @.n - 1)]
  /\ IF freeListRefs[node[t]] = Refs(FALSE, 1)
     THEN goto(t, "link") /\ UNCHANGED <<head, node, next, after>>
     ELSE leave(t)
  /\ UNCHANGED <<freeListHead, freeListNext, held>>

-----------------------------------------------------------------------------
(***************************************************************************)
(* try_get                                                                 *)
(***************************************************************************)

\* Load freeListHead, at the start and whenever the count could not be raised.
try_get(t) ==
  /\ pc[t] \in {"idle", "again"}
  /\ IF freeListHead = 0 THEN done(t)
     ELSE /\ head' = [head EXCEPT ![t] = freeListHead]
          /\ goto(t, "count")
          /\ UNCHANGED <<node, next, after>>
  /\ UNCHANGED <<freeListHead, freeListNext, freeListRefs, held>>

\* The loop with the head that a failed compare and swap returned.
loop(t) ==
  /\ pc[t] = "loop"
  /\ IF head[t] = 0 THEN done(t)
     ELSE goto(t, "count") /\ UNCHANGED <<head, node, next, after>>
  /\ UNCHANGED <<freeListHead, freeListNext, freeListRefs, held>>

\* Raise the reference count unless it is 0; the compare and swap may fail
\* when the count changed after the load, which is a step that loads again.
count(t) ==
  /\ pc[t] = "count"
  /\ \/ /\ freeListRefs[head[t]].n # 0
        /\ freeListRefs' = [freeListRefs EXCEPT ![head[t]].n = @ + 1]
        /\ goto(t, "take")
     \/ /\ goto(t, "again")
        /\ UNCHANGED freeListRefs
  /\ UNCHANGED <<freeListHead, freeListNext, head, node, next, after, held>>

\* Read the next pointer.
take(t) ==
  /\ pc[t] = "take"
  /\ next' = [next EXCEPT ![t] = freeListNext[head[t]]]
  /\ goto(t, "pop")
  /\ UNCHANGED <<freeListHead, freeListNext, freeListRefs, head, node, after, held>>

\* Compare and swap on freeListHead.  node becomes prevHead, and next the head
\* that was found instead.
pop(t) ==
  /\ pc[t] = "pop"
  /\ node' = [node EXCEPT ![t] = head[t]]
  /\ IF freeListHead = head[t]
     THEN /\ freeListHead' = next[t]
          /\ goto(t, "got")
          /\ UNCHANGED <<head, next>>
     ELSE /\ head' = [head EXCEPT ![t] = freeListHead]
          /\ next' = [next EXCEPT ![t] = freeListHead]
          /\ goto(t, "drop")
          /\ UNCHANGED freeListHead
  /\ UNCHANGED <<freeListNext, freeListRefs, after, held>>

\* fetch_sub(2): the list's reference and the thread's own.
got(t) ==
  /\ pc[t] = "got"
  /\ freeListRefs' = [freeListRefs EXCEPT ![node[t]].n = @ - 2]
  /\ held' = [held EXCEPT ![t] = @ \cup {node[t]}]
  /\ done(t)
  /\ UNCHANGED <<freeListHead, freeListNext>>

\* Fault: the last reference to a node that should be on the list is dropped.
drop_NoAdd(t) ==
  /\ pc[t] = "drop"
  /\ freeListRefs' = [freeListRefs EXCEPT ![node[t]].n = @ - 1]
  /\ goto(t, "loop")
  /\ UNCHANGED <<freeListHead, freeListNext, head, node, next, after, held>>

\* fetch_sub(1): whoever drops the last reference to a node that should be on
\* the list adds it.
drop(t) ==
  /\ pc[t] = "drop"
  /\ freeListRefs' = [freeListRefs EXCEPT ![node[t]].n = @ - 1]
  /\ IF freeListRefs[node[t]] = Refs(TRUE, 1)
     THEN goto(t, "load") /\ after' = [after EXCEPT ![t] = "loop"]
     ELSE goto(t, "loop") /\ UNCHANGED after
  /\ UNCHANGED <<freeListHead, freeListNext, head, node, next, held>>

-----------------------------------------------------------------------------
flStep(t) ==
  \/ \E k \in Node : add(t, k)
  \/ load(t) \/ link(t) \/ ref(t) \/ push(t) \/ unref(t)
  \/ try_get(t) \/ loop(t) \/ count(t) \/ take(t) \/ pop(t) \/ got(t) \/ drop(t)

FlNext == \E t \in Thread : flStep(t)

FlSpec == FlInit /\ [][FlNext]_flVars

-----------------------------------------------------------------------------
(***************************************************************************)
(* Properties                                                              *)
(***************************************************************************)

\* C holds the first node h of a list and, with each node, the next one in f.
ListIn(C, h, f) ==
  /\ h # 0 => h \in C
  /\ \A k \in C : f[k] # 0 => f[k] \in C

\* The nodes of the list: the least such set.
ListOf(h, f) == {k \in Node : \A C \in SUBSET Node : ListIn(C, h, f) => k \in C}

OnList == ListOf(freeListHead, freeListNext)

\* A node that one thread has is not on the list and no other thread has it:
\* two producers never write to the same block, in spite of a thread that reads
\* the next pointer of a node while others take it off and put it back.
NodeOwnedOnce ==
  /\ \A t, u \in Thread : t # u => held[t] \cap held[u] = {}
  /\ \A t \in Thread : held[t] \cap OnList = {}
  /\ \A t \in Thread : pc[t] = "got" =>
       /\ node[t] \notin OnList
       /\ ~freeListRefs[node[t]].flag
       /\ \A u \in Thread : node[t] \notin held[u]

\* No node is lost: when all threads have returned, each node is held by a
\* thread or is on the list with exactly the list's reference, although the
\* addition may have been left to another thread.
NodesConserved ==
  (\A t \in Thread : pc[t] = "idle") =>
    \A k \in UNION {Owned[t] : t \in Thread} :
      \/ \E t \in Thread : k \in held[t] /\ freeListRefs[k] = Refs(FALSE, 0)
      \/ k \in OnList /\ freeListRefs[k] = Refs(FALSE, 1)

\* FreeList: each block has one owner, and none is lost.
BlocksSafe == NodeOwnedOnce /\ NodesConserved

=============================================================================
