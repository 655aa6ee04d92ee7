----------------------- MODULE ConcurrentQueueProofs -----------------------
(***************************************************************************)
(* Proofs about the parts of the concurrent queue: FreeList, ProducerHash  *)
(* and ImplicitProducer, for any threads, blocks, and sizes of blocks and  *)
(* tables, and any interleaving of the atomic operations.                  *)
(***************************************************************************)
EXTENDS FreeList, ProducerHash, ImplicitProducer, FiniteSetTheorems, SequenceTheorems, TLAPS

-----------------------------------------------------------------------------
(***************************************************************************)
(* FreeList: the inductive invariant                                       *)
(***************************************************************************)

Label == {"idle", "load", "link", "ref", "push", "unref",
          "again", "loop", "count", "take", "pop", "got", "drop"}

RefsType == [flag : BOOLEAN, n : Nat]

Types ==
  /\ freeListHead \in Node \cup {0}
  /\ freeListNext \in [Node -> Node \cup {0}]
  /\ freeListRefs \in [Node -> RefsType]
  /\ pc \in [Thread -> Label]
  /\ head \in [Thread -> Node \cup {0}]
  /\ node \in [Thread -> Node \cup {0}]
  /\ next \in [Thread -> Node \cup {0}]
  /\ after \in [Thread -> {"idle", "loop"}]
  /\ held \in [Thread -> SUBSET Node]

\* add_knowing_refcount_is_zero runs, before its store of the count and in all.
Claiming == {"load", "link", "ref"}
Adding == {"load", "link", "ref", "push", "unref"}

\* Thread t has node k: it holds it, or is about to, or is putting it on the
\* list.
Has(t, k) == k \in held[t] \/ (pc[t] \in Adding \cup {"got"} /\ node[t] = k)
Claims(t, k) == pc[t] \in Claiming /\ node[t] = k
GetsNode(t, k) == pc[t] = "got" /\ node[t] = k

\* Thread t counts in freeListRefs of node k.
Pinned(t, k) ==
  \/ pc[t] \in {"take", "pop"} /\ head[t] = k
  \/ pc[t] \in {"push", "unref", "got", "drop"} /\ node[t] = k

Pins(k) == {t \in Thread : Pinned(t, k)}

\* The reference of the list, which the thread that takes the node off inherits.
Extra(k) == IF k \in OnList \/ \E t \in Thread : GetsNode(t, k) THEN 1 ELSE 0

\* The local variables are what the rest of the operation relies on: the next
\* pointers that were read or written are still there.
Locals(t) ==
  /\ pc[t] \in {"count", "take", "pop"} => head[t] \in Node
  /\ pc[t] \in Adding \cup {"got", "drop"} => node[t] \in Node
  /\ pc[t] \in Adding \cup {"got"} => node[t] \notin held[t]
  /\ pc[t] = "pop" => next[t] = freeListNext[head[t]]
  /\ pc[t] \in {"ref", "push"} => freeListNext[node[t]] = head[t]

\* A list without cycles: no node leads to the head, nor two to the same node.
Simple(L, h, f) ==
  \A j \in L : f[j] # 0 => f[j] # h /\ \A i \in L : f[i] = f[j] => i = j

\* A node has one owner at most, and none while it is on the list.
OneOwner(k) ==
  /\ \A t, u \in Thread : Has(t, k) /\ Has(u, k) => t = u
  /\ \A t \in Thread : Has(t, k) => k \notin OnList

\* The count is exact.
Counted(k) == freeListRefs[k].n = Cardinality(Pins(k)) + Extra(k)

\* SHOULD_BE_ON_FREELIST: some thread is adding the node, and nobody refers to
\* it, or nobody has it, and whoever drops the last reference will add it.
Flagged(k) ==
  /\ \A t \in Thread : Claims(t, k) => freeListRefs[k].flag /\ freeListRefs[k].n = 0
  /\ freeListRefs[k].flag =>
       /\ k \notin OnList
       /\ \A t \in Thread : Has(t, k) => Claims(t, k)
       /\ freeListRefs[k].n = 0 => \E t \in Thread : Claims(t, k)

\* A node that some thread had is not lost.
Kept(k) ==
  (\E t \in Thread : k \in Owned[t]) =>
    (\E t \in Thread : Has(t, k)) \/ k \in OnList \/ freeListRefs[k].flag

NodeInv(k) == OneOwner(k) /\ Counted(k) /\ Flagged(k) /\ Kept(k)

FreeListInv ==
  /\ Types
  /\ \A t \in Thread : Locals(t)
  /\ Simple(OnList, freeListHead, freeListNext)
  /\ \A k \in Node : NodeInv(k)

-----------------------------------------------------------------------------
(***************************************************************************)
(* FreeList: facts about lists                                             *)
(***************************************************************************)

\* 0 is no node.
LEMMA NoNode == 0 \notin Node /\ IsFiniteSet(Thread)
  BY FreeListAssumption

\* The nodes of a list are the least set with its first node and, with a node,
\* the next one.
LEMMA ListLeast ==
  ASSUME NEW f \in [Node -> Node \cup {0}], NEW h \in Node \cup {0}
  PROVE  /\ ListOf(h, f) \subseteq Node
         /\ ListIn(ListOf(h, f), h, f)
         /\ \A C \in SUBSET Node : ListIn(C, h, f) => ListOf(h, f) \subseteq C
<1>1. ListOf(h, f) \subseteq Node
  BY DEF ListOf
<1>2. \A C \in SUBSET Node : ListIn(C, h, f) => ListOf(h, f) \subseteq C
  BY DEF ListOf
<1>3. h # 0 => h \in ListOf(h, f)
  BY DEF ListOf, ListIn
<1>4. ASSUME NEW k \in ListOf(h, f), f[k] # 0 PROVE f[k] \in ListOf(h, f)
  <2>1. k \in Node /\ f[k] \in Node
    BY <1>1, <1>4
  <2>2. ASSUME NEW C \in SUBSET Node, ListIn(C, h, f) PROVE f[k] \in C
    BY <1>2, <1>4, <2>2 DEF ListIn
  <2> QED
    BY <2>1, <2>2 DEF ListOf
<1> QED
  BY <1>1, <1>2, <1>3, <1>4 DEF ListIn

\* It is the only such set.
LEMMA ListUnique ==
  ASSUME NEW f \in [Node -> Node \cup {0}], NEW h \in Node \cup {0},
         NEW L \in SUBSET Node, ListIn(L, h, f),
         \A C \in SUBSET Node : ListIn(C, h, f) => L \subseteq C
  PROVE  L = ListOf(h, f)
<1>1. L \subseteq ListOf(h, f)
  BY ListLeast
<1>2. ListOf(h, f) \subseteq L
  BY ListLeast
<1> QED
  BY <1>1, <1>2

\* A next pointer that is not of the list may change.
LEMMA ListAside ==
  ASSUME NEW f \in [Node -> Node \cup {0}], NEW h \in Node \cup {0},
         NEW g \in [Node -> Node \cup {0}], NEW k, k \notin ListOf(h, f),
         \A j \in Node : j # k => g[j] = f[j], Simple(ListOf(h, f), h, f)
  PROVE  ListOf(h, g) = ListOf(h, f) /\ Simple(ListOf(h, g), h, g)
<1>1. PICK L \in SUBSET Node : L = ListOf(h, f)
  BY ListLeast
<1>2. /\ ListIn(L, h, f) /\ k \notin L
      /\ \A C \in SUBSET Node : ListIn(C, h, f) => L \subseteq C
  BY <1>1, ListLeast
<1>3. \A j \in L : g[j] = f[j]
  BY <1>2
<1>4. ListIn(L, h, g)
  BY <1>2, <1>3 DEF ListIn
<1>5. ASSUME NEW C \in SUBSET Node, ListIn(C, h, g) PROVE L \subseteq C
  <2>1. ListIn(C \cap L, h, f)
    BY <1>2, <1>3, <1>5 DEF ListIn
  <2> QED
    BY <1>2, <2>1
<1>6. L = ListOf(h, g)
  BY <1>4, <1>5, ListUnique
<1>7. Simple(L, h, g)
  BY <1>1, <1>3 DEF Simple
<1> QED
  BY <1>1, <1>6, <1>7

\* A node put in front.
LEMMA ListPush ==
  ASSUME NEW f \in [Node -> Node \cup {0}], NEW h \in Node \cup {0},
         NEW k \in Node, k \notin ListOf(h, f), f[k] = h, Simple(ListOf(h, f), h, f)
  PROVE  ListOf(k, f) = ListOf(h, f) \cup {k} /\ Simple(ListOf(k, f), k, f)
<1>1. PICK L \in SUBSET Node : L = ListOf(h, f)
  BY ListLeast
<1>2. /\ ListIn(L, h, f) /\ k \notin L
      /\ \A C \in SUBSET Node : ListIn(C, h, f) => L \subseteq C
  BY <1>1, ListLeast
<1>3. ListIn(L \cup {k}, k, f)
  BY <1>2 DEF ListIn
<1>4. ASSUME NEW C \in SUBSET Node, ListIn(C, k, f) PROVE L \cup {k} \subseteq C
  <2>1. k \in C
    BY <1>4, NoNode DEF ListIn
  <2>2. ListIn(C, h, f)
    BY <1>4, <2>1 DEF ListIn
  <2> QED
    BY <1>2, <2>1, <2>2
<1>5. L \cup {k} = ListOf(k, f)
  BY <1>3, <1>4, ListUnique
<1>6. Simple(L \cup {k}, k, f)
  <2> SUFFICES ASSUME NEW j \in L \cup {k}, f[j] # 0
               PROVE  f[j] # k /\ \A i \in L \cup {k} : f[i] = f[j] => i = j
    BY DEF Simple
  <2>1. \A i \in L : f[i] # 0 => f[i] \in L /\ f[i] # h
    BY <1>1, <1>2 DEF Simple, ListIn
  <2>2. h # 0 => h \in L
    BY <1>2 DEF ListIn
  <2>3. CASE j = k
    BY <1>2, <2>1, <2>2, <2>3
  <2>4. CASE j \in L
    BY <1>1, <1>2, <2>1, <2>4 DEF Simple
  <2> QED
    BY <2>3, <2>4
<1> QED
  BY <1>1, <1>5, <1>6

\* The first node taken off.
LEMMA ListPop ==
  ASSUME NEW f \in [Node -> Node \cup {0}], NEW h \in Node, Simple(ListOf(h, f), h, f)
  PROVE  /\ h \in ListOf(h, f)
         /\ ListOf(f[h], f) = ListOf(h, f) \ {h}
         /\ Simple(ListOf(f[h], f), f[h], f)
<1>1. PICK L \in SUBSET Node : L = ListOf(h, f)
  BY ListLeast
<1>2. /\ ListIn(L, h, f) /\ h # 0
      /\ \A C \in SUBSET Node : ListIn(C, h, f) => L \subseteq C
  BY <1>1, ListLeast, NoNode
<1>3. h \in L /\ \A j \in L : f[j] # 0 => f[j] \in L /\ f[j] # h
  BY <1>1, <1>2 DEF Simple, ListIn
<1>4. ListIn(L \ {h}, f[h], f)
  BY <1>3 DEF ListIn
<1>5. ASSUME NEW C \in SUBSET Node, ListIn(C, f[h], f) PROVE L \ {h} \subseteq C
  <2>1. ListIn(C \cup {h}, h, f)
    BY <1>5 DEF ListIn
  <2> QED
    BY <1>2, <2>1
<1>6. f[h] \in Node \cup {0}
  OBVIOUS
<1>7. L \ {h} = ListOf(f[h], f)
  BY <1>4, <1>5, <1>6, ListUnique
<1>8. Simple(L \ {h}, f[h], f)
  BY <1>1, <1>3 DEF Simple
<1> QED
  BY <1>1, <1>3, <1>7, <1>8

-----------------------------------------------------------------------------
(***************************************************************************)
(* FreeList: facts about the counts                                        *)
(***************************************************************************)

\* A value of freeListRefs is given by its parts.
LEMMA RefsParts ==
  ASSUME NEW r \in RefsType, NEW n \in Nat
  PROVE  /\ r.flag \in BOOLEAN /\ r.n \in Nat
         /\ r = Refs(FALSE, n) <=> ~r.flag /\ r.n = n
         /\ r = Refs(TRUE, n) <=> r.flag /\ r.n = n
  BY DEF RefsType, Refs

\* The value that a store leaves.
LEMMA RefsValue ==
  ASSUME NEW n \in Nat
  PROVE  /\ Refs(FALSE, n) \in RefsType /\ ~Refs(FALSE, n).flag /\ Refs(FALSE, n).n = n
         /\ Refs(TRUE, n) \in RefsType /\ Refs(TRUE, n).flag /\ Refs(TRUE, n).n = n
  BY DEF RefsType, Refs

\* fetch_add and fetch_sub change one part.
LEMMA RefsChanged ==
  ASSUME NEW r \in RefsType, NEW n \in Nat, NEW x
  PROVE  /\ x = [r EXCEPT !.flag = TRUE] => x \in RefsType /\ x.flag /\ x.n = r.n
         /\ x = [r EXCEPT !.n = n] => x \in RefsType /\ (x.flag <=> r.flag) /\ x.n = n
  BY DEF RefsType

\* One thread more or less in a set of threads.
LEMMA OneThread ==
  ASSUME NEW S, S \subseteq Thread, NEW t
  PROVE  /\ IsFiniteSet(S) /\ Cardinality(S) \in Nat
         /\ t \notin S => Cardinality(S \cup {t}) = Cardinality(S) + 1
         /\ t \in S => Cardinality(S \ {t}) = Cardinality(S) - 1 /\ Cardinality(S) > 0
         /\ Cardinality(S) = 0 => S = {}
         /\ S = {} => Cardinality(S) = 0
         /\ Cardinality(S) = 1 /\ t \in S => S = {t}
<1>1. IsFiniteSet(S) /\ Cardinality(S) \in Nat
  BY NoNode, FS_Subset, FS_CardinalityType
<1>2. t \notin S => Cardinality(S \cup {t}) = Cardinality(S) + 1
  BY <1>1, FS_AddElement
<1>3. Cardinality(S) = 0 <=> S = {}
  BY <1>1, FS_EmptySet
<1>4. t \in S => Cardinality(S \ {t}) = Cardinality(S) - 1
  BY <1>1, FS_RemoveElement
<1>5. t \in S => Cardinality(S) > 0
  BY <1>1, <1>3
<1>6. Cardinality(S) = 1 /\ t \in S => S = {t}
  <2>1. Cardinality(S) = 1 => \E x : S = {x}
    BY <1>1, FS_Singleton
  <2> QED
    BY <2>1
<1> QED
  BY <1>1, <1>2, <1>3, <1>4, <1>5, <1>6

-----------------------------------------------------------------------------
(***************************************************************************)
(* FreeList: what a step leaves alone                                      *)
(***************************************************************************)

\* Only thread t moves.
Only(t) ==
  \A u \in Thread \ {t} :
    /\ pc'[u] = pc[u] /\ head'[u] = head[u] /\ node'[u] = node[u]
    /\ next'[u] = next[u] /\ held'[u] = held[u]

\* What u has to do with k stays.
Same(u, k) ==
  /\ Has(u, k)' <=> Has(u, k)
  /\ Claims(u, k)' <=> Claims(u, k)
  /\ GetsNode(u, k)' <=> GetsNode(u, k)
  /\ Pinned(u, k)' <=> Pinned(u, k)

\* The other threads keep what they have to do with every node.
LEMMA OthersSame ==
  ASSUME NEW t \in Thread, Only(t), NEW u \in Thread, u # t, NEW k \in Node
  PROVE  Same(u, k)
  BY DEF Only, Same, Has, Claims, GetsNode, Pinned

\* A node that nobody has to do with otherwise than before.
LEMMA NodeSame ==
  ASSUME NEW k \in Node, NodeInv(k), \A u \in Thread : Same(u, k),
         k \in OnList' <=> k \in OnList, freeListRefs'[k] = freeListRefs[k]
  PROVE  NodeInv(k)'
<1>1. Pins(k)' = Pins(k)
  BY DEF Pins, Same
<1>2. Extra(k)' = Extra(k)
  BY DEF Extra, Same
<1>3. OneOwner(k)'
  BY DEF NodeInv, OneOwner, Same
<1>4. Counted(k)'
  BY <1>1, <1>2 DEF NodeInv, Counted
<1>5. Flagged(k)'
  BY DEF NodeInv, Flagged, Same
<1>6. Kept(k)'
  BY DEF NodeInv, Kept, Same
<1> QED
  BY <1>3, <1>4, <1>5, <1>6 DEF NodeInv

\* The other threads keep their local variables right.
LEMMA OthersLocals ==
  ASSUME FreeListInv, NEW t \in Thread, Only(t), freeListNext' = freeListNext, Locals(t)'
  PROVE  \A u \in Thread : Locals(u)'
<1> SUFFICES ASSUME NEW u \in Thread, u # t PROVE Locals(u)'
  OBVIOUS
<1>1. Locals(u)
  BY DEF FreeListInv
<1> QED
  BY <1>1 DEF Only, Locals

\* A thread that has to do with k other than by a claim refers to it.
LEMMA CountsExact ==
  ASSUME FreeListInv, NEW k \in Node
  PROVE  /\ Pins(k) \subseteq Thread /\ IsFiniteSet(Pins(k)) /\ Cardinality(Pins(k)) \in Nat
         /\ freeListRefs[k] \in RefsType /\ freeListRefs[k].n \in Nat
         /\ freeListRefs[k].flag \in BOOLEAN
         /\ Extra(k) \in {0, 1}
         /\ freeListRefs[k].n = Cardinality(Pins(k)) + Extra(k)
<1>1. Pins(k) \subseteq Thread
  BY DEF Pins
<1>2. IsFiniteSet(Pins(k)) /\ Cardinality(Pins(k)) \in Nat
  BY <1>1, OneThread
<1>3. freeListRefs[k] \in RefsType
  BY DEF FreeListInv, Types
<1>4. freeListRefs[k].n \in Nat /\ freeListRefs[k].flag \in BOOLEAN
  BY <1>3 DEF RefsType
<1>5. Extra(k) \in {0, 1}
  BY DEF Extra
<1>6. freeListRefs[k].n = Cardinality(Pins(k)) + Extra(k)
  BY DEF FreeListInv, NodeInv, Counted
<1> QED
  BY <1>1, <1>2, <1>3, <1>4, <1>5, <1>6

\* A step that is about one node at most.
LEMMA TouchStep ==
  ASSUME FreeListInv, NEW t \in Thread, NEW N \in SUBSET Node, Only(t), Types', Locals(t)',
         freeListNext' = freeListNext,
         Simple(OnList', freeListHead', freeListNext'),
         \A k \in Node \ N : /\ Same(t, k) /\ freeListRefs'[k] = freeListRefs[k]
                             /\ k \in OnList' <=> k \in OnList,
         \A k \in N : NodeInv(k)'
  PROVE  FreeListInv'
<1>1. \A u \in Thread : Locals(u)'
  BY OthersLocals
<1>2. ASSUME NEW k \in Node \ N PROVE NodeInv(k)'
  <2>1. \A u \in Thread : Same(u, k)
    BY OthersSame
  <2>2. NodeInv(k)
    BY DEF FreeListInv
  <2> QED
    BY <2>1, <2>2, NodeSame
<1> QED
  BY <1>1, <1>2 DEF FreeListInv

\* A step that changes nothing but the local variables of a thread.
LEMMA LocalStep ==
  ASSUME FreeListInv, NEW t \in Thread, Only(t), Types', Locals(t)',
         UNCHANGED <<freeListHead, freeListNext, freeListRefs>>,
         \A k \in Node : Same(t, k)
  PROVE  FreeListInv'
<1>1. OnList' = OnList
  BY DEF OnList
<1>2. Simple(OnList', freeListHead', freeListNext')
  BY <1>1 DEF FreeListInv
<1>3. PICK N \in SUBSET Node : N = {}
  OBVIOUS
<1>4. /\ \A k \in Node \ N : /\ Same(t, k) /\ freeListRefs'[k] = freeListRefs[k]
                             /\ k \in OnList' <=> k \in OnList
      /\ \A k \in N : NodeInv(k)'
      /\ freeListNext' = freeListNext
  BY <1>1, <1>3
<1> QED
  BY <1>2, <1>4, TouchStep

\* A step about one node that it puts on the list or takes off.
LEMMA ListStep ==
  ASSUME FreeListInv, NEW t \in Thread, NEW k \in Node, Only(t), Types', Locals(t)',
         freeListNext' = freeListNext, freeListRefs' = freeListRefs,
         Simple(OnList', freeListHead', freeListNext'),
         \A j \in Node : j # k => Same(t, j),
         \A j \in Node : j # k => (j \in OnList' <=> j \in OnList),
         NodeInv(k)'
  PROVE  FreeListInv'
<1>1. PICK N \in SUBSET Node : N = {k}
  OBVIOUS
<1>2. /\ \A j \in Node \ N : /\ Same(t, j) /\ freeListRefs'[j] = freeListRefs[j]
                             /\ j \in OnList' <=> j \in OnList
      /\ \A j \in N : NodeInv(j)'
  BY <1>1
<1> QED
  BY <1>2, TouchStep

\* A step about one node that leaves the list alone.
LEMMA OneNodeStep ==
  ASSUME FreeListInv, NEW t \in Thread, NEW k \in Node, Only(t), Types', Locals(t)',
         UNCHANGED <<freeListHead, freeListNext>>,
         \A j \in Node : j # k => Same(t, j),
         \A j \in Node : j # k => freeListRefs'[j] = freeListRefs[j],
         NodeInv(k)'
  PROVE  FreeListInv'
<1>1. OnList' = OnList
  BY DEF OnList
<1>2. Simple(OnList', freeListHead', freeListNext')
  BY <1>1 DEF FreeListInv
<1>3. PICK N \in SUBSET Node : N = {k}
  OBVIOUS
<1>4. /\ \A j \in Node \ N : /\ Same(t, j) /\ freeListRefs'[j] = freeListRefs[j]
                             /\ j \in OnList' <=> j \in OnList
      /\ \A j \in N : NodeInv(j)'
      /\ freeListNext' = freeListNext
  BY <1>1, <1>3
<1> QED
  BY <1>2, <1>4, TouchStep

-----------------------------------------------------------------------------
(***************************************************************************)
(* FreeList: the steps                                                     *)
(***************************************************************************)

\* load
LEMMA LoadStep ==
  ASSUME FreeListInv, NEW t \in Thread, load(t)
  PROVE  FreeListInv'
<1>1. Types /\ Locals(t) /\ pc[t] = "load"
  BY DEF FreeListInv, load
<1>2. pc'[t] = "link" /\ node'[t] = node[t] /\ held'[t] = held[t] /\ Only(t) /\ Types'
  BY <1>1 DEF load, goto, Only, Types, Label
<1>3. UNCHANGED <<freeListHead, freeListNext, freeListRefs>>
  BY DEF load
<1>4. Locals(t)'
  BY <1>1, <1>2 DEF Locals, Adding
<1>5. \A k \in Node : Same(t, k)
  BY <1>1, <1>2 DEF Same, Has, Claims, GetsNode, Pinned, Adding, Claiming
<1> QED
  BY <1>2, <1>3, <1>4, <1>5, LocalStep

\* try_get and loop
LEMMA TryGetStep ==
  ASSUME FreeListInv, NEW t \in Thread, try_get(t) \/ loop(t)
  PROVE  FreeListInv'
<1>1. Types /\ Locals(t) /\ pc[t] \in {"idle", "again", "loop"}
  BY DEF FreeListInv, try_get, loop
<1>2. UNCHANGED <<freeListHead, freeListNext, freeListRefs, held>>
  BY DEF try_get, loop
<1>3. CASE done(t)
  <2>1. pc'[t] = "idle" /\ Only(t) /\ Types'
    BY <1>1, <1>2, <1>3 DEF done, goto, Only, Types, Label
  <2>2. Locals(t)'
    BY <2>1 DEF Locals, Adding
  <2>3. \A k \in Node : Same(t, k)
    BY <1>1, <1>2, <2>1 DEF Same, Has, Claims, GetsNode, Pinned, Adding, Claiming
  <2> QED
    BY <1>2, <2>1, <2>2, <2>3, LocalStep
<1>4. CASE ~done(t)
  <2>1. /\ goto(t, "count") /\ UNCHANGED <<node, next, after>>
        /\ head' = [head EXCEPT ![t] = head'[t]] /\ head'[t] \in Node
    BY <1>1, <1>4 DEF try_get, loop, Types
  <2>2. pc'[t] = "count" /\ Only(t) /\ Types'
    BY <1>1, <1>2, <2>1 DEF goto, Only, Types, Label
  <2>3. Locals(t)'
    BY <2>1, <2>2 DEF Locals, Adding
  <2>4. \A k \in Node : Same(t, k)
    BY <1>1, <1>2, <2>2 DEF Same, Has, Claims, GetsNode, Pinned, Adding, Claiming
  <2> QED
    BY <1>2, <2>2, <2>3, <2>4, LocalStep
<1> QED
  BY <1>3, <1>4

\* take
LEMMA TakeStep ==
  ASSUME FreeListInv, NEW t \in Thread, take(t)
  PROVE  FreeListInv'
<1>1. Types /\ Locals(t) /\ pc[t] = "take" /\ head[t] \in Node
  BY DEF FreeListInv, take, Locals
<1>2. /\ pc'[t] = "pop" /\ node'[t] = node[t] /\ held'[t] = held[t] /\ head'[t] = head[t]
      /\ next'[t] = freeListNext[head[t]] /\ Only(t) /\ Types'
  BY <1>1 DEF take, goto, Only, Types, Label
<1>3. UNCHANGED <<freeListHead, freeListNext, freeListRefs>>
  BY DEF take
<1>4. Locals(t)'
  BY <1>1, <1>2, <1>3 DEF Locals, Adding
<1>5. \A k \in Node : Same(t, k)
  BY <1>1, <1>2 DEF Same, Has, Claims, GetsNode, Pinned, Adding, Claiming
<1> QED
  BY <1>2, <1>3, <1>4, <1>5, LocalStep

\* link: the node is not on the list and nobody else reads its next pointer.
LEMMA LinkStep ==
  ASSUME FreeListInv, NEW t \in Thread, link(t)
  PROVE  FreeListInv'
<1>1. Types /\ Locals(t) /\ pc[t] = "link" /\ node[t] \in Node
  BY DEF FreeListInv, link, Locals, Adding
<1>2. /\ pc'[t] = "ref" /\ node'[t] = node[t] /\ held'[t] = held[t] /\ head'[t] = head[t]
      /\ Only(t) /\ Types'
  BY <1>1 DEF link, goto, Only, Types, Label
<1>3. /\ UNCHANGED <<freeListHead, freeListRefs>>
      /\ freeListNext'[node[t]] = head[t]
      /\ \A j \in Node : j # node[t] => freeListNext'[j] = freeListNext[j]
  BY <1>1 DEF link, Types
<1>4. PICK k \in Node : k = node[t]
  BY <1>1
<1>5. Has(t, k) /\ Claims(t, k)
  BY <1>1, <1>4 DEF Has, Claims, Adding, Claiming
<1>6. k \notin OnList /\ Pins(k) = {} /\ \A u \in Thread : Has(u, k) => u = t
  <2>1. NodeInv(k)
    BY DEF FreeListInv
  <2>2. k \notin OnList /\ freeListRefs[k].n = 0 /\ \A u \in Thread : Has(u, k) => u = t
    BY <1>5, <2>1 DEF NodeInv, OneOwner, Flagged
  <2>3. Cardinality(Pins(k)) = 0
    BY <2>2, CountsExact
  <2> QED
    BY <2>2, <2>3, CountsExact, OneThread
<1>7. OnList' = OnList /\ Simple(OnList', freeListHead', freeListNext')
  <2>1. PICK h, f, g : h = freeListHead /\ f = freeListNext /\ g = freeListNext'
    OBVIOUS
  <2>2. /\ h \in Node \cup {0} /\ f \in [Node -> Node \cup {0}] /\ g \in [Node -> Node \cup {0}]
        /\ k \notin ListOf(h, f) /\ Simple(ListOf(h, f), h, f)
        /\ \A j \in Node : j # k => g[j] = f[j]
    BY <1>1, <1>2, <1>3, <1>4, <1>6, <2>1 DEF Types, OnList, FreeListInv
  <2>3. ListOf(h, g) = ListOf(h, f) /\ Simple(ListOf(h, g), h, g)
    BY <2>2, ListAside
  <2> QED
    BY <1>3, <2>1, <2>3 DEF OnList
<1>8. \A j \in Node : NodeInv(j)'
  <2> SUFFICES ASSUME NEW j \in Node PROVE NodeInv(j)'
    OBVIOUS
  <2>1. Same(t, j)
    BY <1>1, <1>2 DEF Same, Has, Claims, GetsNode, Pinned, Adding, Claiming
  <2>2. \A u \in Thread : Same(u, j)
    BY <1>2, <2>1, OthersSame
  <2>3. NodeInv(j)
    BY DEF FreeListInv
  <2> QED
    BY <1>3, <1>7, <2>2, <2>3, NodeSame
<1>9. ASSUME NEW u \in Thread PROVE Locals(u)'
  <2>1. CASE u = t
    BY <1>1, <1>2, <1>3, <2>1 DEF Locals, Adding
  <2>2. CASE u # t
    <3>1. Locals(u) /\ ~Pinned(u, k) /\ ~Has(u, k)
      BY <1>6, <2>2 DEF FreeListInv, Pins
    <3>2. /\ pc'[u] = pc[u] /\ head'[u] = head[u] /\ node'[u] = node[u]
          /\ next'[u] = next[u] /\ held'[u] = held[u]
      BY <1>2, <2>2 DEF Only
    <3>3. pc[u] = "pop" => head[u] \in Node /\ head[u] # k
      BY <3>1 DEF Locals, Pinned
    <3>4. pc[u] \in {"ref", "push"} => node[u] \in Node /\ node[u] # k
      BY <3>1 DEF Locals, Has, Adding
    <3> QED
      BY <1>3, <1>4, <3>1, <3>2, <3>3, <3>4 DEF Locals
  <2> QED
    BY <2>1, <2>2
<1> QED
  BY <1>2, <1>7, <1>8, <1>9 DEF FreeListInv

\* add: the thread gives up the node, and puts it on the list if nobody refers
\* to it.
LEMMA AddStep ==
  ASSUME FreeListInv, NEW t \in Thread, NEW k \in Node, add(t, k)
  PROVE  FreeListInv'
<1>1. Types /\ Locals(t) /\ pc[t] = "idle" /\ k \in held[t] /\ NodeInv(k)
  BY DEF FreeListInv, add
<1>2. UNCHANGED <<freeListHead, freeListNext, head, next, after>> /\ OnList' = OnList
  BY DEF add, OnList
<1>3. /\ freeListRefs' \in [Node -> RefsType]
      /\ freeListRefs'[k].flag /\ freeListRefs'[k].n = freeListRefs[k].n
      /\ \A j \in Node : j # k => freeListRefs'[j] = freeListRefs[j]
  <2>1. PICK x : x = [freeListRefs[k] EXCEPT !.flag = TRUE]
    OBVIOUS
  <2>2. x \in RefsType /\ x.flag /\ x.n = freeListRefs[k].n
    BY <2>1, RefsChanged, CountsExact
  <2>3. freeListRefs' = [freeListRefs EXCEPT ![k] = x]
    BY <2>1 DEF add
  <2> QED
    BY <1>1, <2>2, <2>3 DEF Types
<1>4. held' = [held EXCEPT ![t] = @ \ {k}]
  BY DEF add
<1>5. Has(t, k) /\ ~Claims(t, k) /\ ~freeListRefs[k].flag /\ k \notin OnList
  BY <1>1 DEF Has, Claims, Claiming, NodeInv, Flagged, OneOwner
<1>6. \A u \in Thread : u # t => ~Has(u, k)
  BY <1>1, <1>5 DEF NodeInv, OneOwner
<1>7. CASE freeListRefs[k].n = 0
  <2>1. goto(t, "load") /\ node' = [node EXCEPT ![t] = k]
    <3>1. freeListRefs[k] = Refs(FALSE, 0)
      <4>1. /\ freeListRefs[k] \in RefsType /\ 0 \in Nat
            /\ ~freeListRefs[k].flag /\ freeListRefs[k].n = 0
        BY <1>5, <1>7, CountsExact
      <4> QED
        BY <4>1, RefsParts, Zenon
    <3> QED
      BY <3>1 DEF add
  <2>2. pc'[t] = "load" /\ node'[t] = k /\ held'[t] = held[t] \ {k} /\ Only(t) /\ Types'
    BY <1>1, <1>2, <1>3, <1>4, <2>1 DEF goto, Only, Types, Label
  <2>3. Locals(t)'
    BY <2>2 DEF Locals, Adding
  <2>4. \A j \in Node : j # k => Same(t, j)
    BY <1>1, <2>2 DEF Same, Has, Claims, GetsNode, Pinned, Adding, Claiming
  <2>5. Pins(k)' = Pins(k) /\ Extra(k)' = Extra(k)
    BY <1>1, <1>2, <2>2 DEF Pins, Extra, Pinned, GetsNode, Only
  <2>6. /\ Has(t, k)' /\ Claims(t, k)'
        /\ \A u \in Thread : u # t => ~Has(u, k)' /\ ~Claims(u, k)'
    BY <1>6, <2>2 DEF Has, Claims, Only, Adding, Claiming
  <2>7. NodeInv(k)'
    BY <1>1, <1>2, <1>3, <1>5, <1>7, <2>5, <2>6
      DEF NodeInv, OneOwner, Counted, Flagged, Kept
  <2> QED
    BY <1>2, <1>3, <2>2, <2>3, <2>4, <2>7, OneNodeStep
<1>8. CASE freeListRefs[k].n # 0
  <2>1. UNCHANGED <<pc, node>>
    BY <1>5, <1>8, CountsExact, RefsParts DEF add
  <2>2. pc'[t] = "idle" /\ held'[t] = held[t] \ {k} /\ Only(t) /\ Types'
    BY <1>1, <1>2, <1>3, <1>4, <2>1 DEF Only, Types
  <2>3. Locals(t)'
    BY <2>2 DEF Locals, Adding
  <2>4. \A j \in Node : j # k => Same(t, j)
    BY <1>1, <2>2 DEF Same, Has, Claims, GetsNode, Pinned, Adding, Claiming
  <2>5. Pins(k)' = Pins(k) /\ Extra(k)' = Extra(k)
    BY <1>1, <1>2, <2>1, <2>2 DEF Pins, Extra, Pinned, GetsNode, Only
  <2>6. \A u \in Thread : ~Has(u, k)' /\ ~Claims(u, k)'
    BY <1>6, <2>2 DEF Has, Claims, Only, Adding, Claiming
  <2>7. NodeInv(k)'
    BY <1>1, <1>2, <1>3, <1>5, <1>8, <2>5, <2>6
      DEF NodeInv, OneOwner, Counted, Flagged, Kept
  <2> QED
    BY <1>2, <1>3, <2>2, <2>3, <2>4, <2>7, OneNodeStep
<1> QED
  BY <1>7, <1>8

\* ref: the count becomes 1, for the list.
LEMMA RefStep ==
  ASSUME FreeListInv, NEW t \in Thread, ref(t)
  PROVE  FreeListInv'
<1>1. PICK k \in Node : k = node[t] /\ pc[t] = "ref"
  BY DEF FreeListInv, Locals, ref, Adding
<1>2. Types /\ Locals(t) /\ NodeInv(k) /\ Has(t, k) /\ Claims(t, k)
  BY <1>1 DEF FreeListInv, Has, Claims, Adding, Claiming
<1>3. UNCHANGED <<freeListHead, freeListNext>> /\ OnList' = OnList
  BY DEF ref, OnList
<1>4. /\ freeListRefs' \in [Node -> RefsType]
      /\ ~freeListRefs'[k].flag /\ freeListRefs'[k].n = 1
      /\ \A j \in Node : j # k => freeListRefs'[j] = freeListRefs[j]
  BY <1>1, <1>2, RefsValue DEF ref, Types
<1>5. /\ pc'[t] = "push" /\ node'[t] = k /\ head'[t] = head[t] /\ held'[t] = held[t]
      /\ Only(t) /\ Types'
  BY <1>1, <1>2, <1>3, <1>4 DEF ref, goto, Only, Types, Label
<1>6. Locals(t)'
  BY <1>1, <1>2, <1>3, <1>5 DEF Locals, Adding
<1>7. \A j \in Node : j # k => Same(t, j)
  BY <1>1, <1>5 DEF Same, Has, Claims, GetsNode, Pinned, Adding, Claiming
<1>8. /\ k \notin OnList /\ freeListRefs[k].n = 0
      /\ \A u \in Thread : u # t => ~Has(u, k)
  BY <1>2 DEF NodeInv, OneOwner, Flagged
<1>9. Pins(k) = {} /\ Extra(k) = 0
  <2>1. Cardinality(Pins(k)) = 0 /\ Extra(k) = 0
    BY <1>8, CountsExact
  <2> QED
    BY <2>1, CountsExact, OneThread
<1>10. Pins(k)' = {t} /\ Extra(k)' = 0
  <2>1. \A u \in Thread : Pinned(u, k)' <=> u = t
    BY <1>5, <1>9 DEF Pins, Pinned, Only
  <2>2. \A u \in Thread : ~GetsNode(u, k)'
    BY <1>5, <1>8 DEF GetsNode, Has, Only
  <2> QED
    BY <1>3, <1>8, <2>1, <2>2 DEF Pins, Extra
<1>11. /\ Has(t, k)' /\ ~Claims(t, k)'
       /\ \A u \in Thread : u # t => ~Has(u, k)' /\ ~Claims(u, k)'
  BY <1>5, <1>8 DEF Has, Claims, Only, Adding, Claiming
<1>12. Cardinality(Pins(k)') = 1
  BY <1>10, FS_Singleton
<1>13. NodeInv(k)'
  BY <1>3, <1>4, <1>8, <1>10, <1>11, <1>12 DEF NodeInv, OneOwner, Counted, Flagged, Kept
<1> QED
  BY <1>3, <1>4, <1>5, <1>6, <1>7, <1>13, OneNodeStep

\* The end of add_knowing_refcount_is_zero.
LEMMA LeaveFacts ==
  ASSUME Types, NEW t \in Thread, leave(t), held' = held
  PROVE  /\ pc'[t] \in {"idle", "loop"} /\ Only(t)
         /\ pc' \in [Thread -> Label] /\ head' \in [Thread -> Node \cup {0}]
         /\ node' \in [Thread -> Node \cup {0}] /\ next' \in [Thread -> Node \cup {0}]
         /\ after' \in [Thread -> {"idle", "loop"}]
<1>1. CASE after[t] = "idle"
  BY <1>1 DEF leave, done, goto, Only, Types, Label
<1>2. CASE after[t] # "idle"
  <2>1. after[t] = "loop"
    BY <1>2 DEF Types
  <2> QED
    BY <1>2, <2>1 DEF leave, goto, Only, Types, Label
<1> QED
  BY <1>1, <1>2

\* What the invariant says of a node that thread t puts on the list.
LEMMA PushedNode ==
  ASSUME FreeListInv, NEW t \in Thread, pc[t] \in {"push", "unref"}, NEW k \in Node, k = node[t]
  PROVE  /\ t \in Pins(k) /\ Extra(k) = 0 /\ ~freeListRefs[k].flag /\ k \notin OnList
         /\ k \notin held[t]
         /\ \A u \in Thread : u # t => ~Has(u, k)
         /\ \A u \in Thread : ~Claims(u, k) /\ ~GetsNode(u, k)
<1>1. Has(t, k) /\ ~Claims(t, k) /\ ~GetsNode(t, k) /\ t \in Pins(k)
  BY DEF Has, Claims, GetsNode, Pins, Pinned, Adding, Claiming
<1>2. NodeInv(k) /\ Locals(t)
  BY DEF FreeListInv
<1>3. k \notin OnList /\ ~freeListRefs[k].flag /\ \A u \in Thread : u # t => ~Has(u, k)
  BY <1>1, <1>2 DEF NodeInv, OneOwner, Flagged
<1>4. \A u \in Thread : ~Claims(u, k) /\ ~GetsNode(u, k)
  <2>1. \A u \in Thread : Claims(u, k) \/ GetsNode(u, k) => Has(u, k)
    BY DEF Claims, GetsNode, Has, Adding, Claiming
  <2> QED
    BY <1>1, <1>3, <2>1
<1>5. Extra(k) = 0
  BY <1>3, <1>4 DEF Extra
<1>6. k \notin held[t]
  BY <1>2 DEF Locals, Adding
<1> QED
  BY <1>1, <1>3, <1>4, <1>5, <1>6

\* push
LEMMA PushStep ==
  ASSUME FreeListInv, NEW t \in Thread, push(t)
  PROVE  FreeListInv'
<1>1. PICK k \in Node : k = node[t] /\ pc[t] = "push"
  BY DEF FreeListInv, Locals, push, Adding
<1>2. Types /\ Locals(t) /\ NodeInv(k) /\ freeListNext[k] = head[t]
  BY <1>1 DEF FreeListInv, Locals
<1>3. UNCHANGED <<freeListNext, freeListRefs, held>>
  BY DEF push
<1>4. /\ t \in Pins(k) /\ Extra(k) = 0 /\ ~freeListRefs[k].flag /\ k \notin OnList
      /\ k \notin held[t]
      /\ \A u \in Thread : u # t => ~Has(u, k)
      /\ \A u \in Thread : ~Claims(u, k) /\ ~GetsNode(u, k)
  BY <1>1, PushedNode
<1>5. CASE freeListHead = head[t]
  <2>1. freeListHead' = k /\ leave(t)
    BY <1>1, <1>5 DEF push
  <2>2. /\ pc'[t] \in {"idle", "loop"} /\ held'[t] = held[t] /\ Only(t) /\ Types'
    <3>1. /\ pc'[t] \in {"idle", "loop"} /\ Only(t)
          /\ pc' \in [Thread -> Label] /\ head' \in [Thread -> Node \cup {0}]
          /\ node' \in [Thread -> Node \cup {0}] /\ next' \in [Thread -> Node \cup {0}]
          /\ after' \in [Thread -> {"idle", "loop"}]
      BY <1>2, <1>3, <2>1, LeaveFacts
    <3> QED
      BY <1>2, <1>3, <2>1, <3>1 DEF Types
  <2>3. Locals(t)'
    BY <2>2 DEF Locals, Adding
  <2>4. OnList' = OnList \cup {k} /\ Simple(OnList', freeListHead', freeListNext')
    <3>1. PICK h, f : h = freeListHead /\ f = freeListNext
      OBVIOUS
    <3>2. /\ h \in Node \cup {0} /\ f \in [Node -> Node \cup {0}] /\ f[k] = h
          /\ k \notin ListOf(h, f) /\ Simple(ListOf(h, f), h, f)
      BY <1>2, <1>4, <1>5, <3>1 DEF Types, OnList, FreeListInv
    <3>3. ListOf(k, f) = ListOf(h, f) \cup {k} /\ Simple(ListOf(k, f), k, f)
      BY <3>2, ListPush
    <3> QED
      BY <1>3, <2>1, <3>1, <3>3 DEF OnList
  <2>5. \A j \in Node : j # k => Same(t, j)
    BY <1>1, <2>2 DEF Same, Has, Claims, GetsNode, Pinned, Adding, Claiming
  <2>6. \A u \in Thread : ~Has(u, k)' /\ ~Claims(u, k)' /\ ~GetsNode(u, k)'
    BY <1>4, <2>2 DEF Has, Claims, GetsNode, Only, Adding, Claiming
  <2>7. Pins(k)' = Pins(k) \ {t}
    BY <2>2 DEF Pins, Pinned, Only
  <2>8. Extra(k)' = 1
    BY <2>4 DEF Extra
  <2>9. freeListRefs'[k].n = Cardinality(Pins(k)') + 1
    BY <1>3, <1>4, <2>7, CountsExact, OneThread
  <2>10. NodeInv(k)'
    BY <1>3, <1>4, <2>4, <2>6, <2>8, <2>9 DEF NodeInv, OneOwner, Counted, Flagged, Kept
  <2>11. \A j \in Node : j # k => (j \in OnList' <=> j \in OnList)
    BY <2>4
  <2>12. freeListNext' = freeListNext /\ freeListRefs' = freeListRefs
    BY <1>3
  <2> QED
    BY <2>2, <2>3, <2>4, <2>5, <2>10, <2>11, <2>12, ListStep
<1>6. CASE freeListHead # head[t]
  <2>1. /\ head' = [head EXCEPT ![t] = freeListHead] /\ goto(t, "unref")
        /\ UNCHANGED <<freeListHead, node, next, after>>
    BY <1>6 DEF push
  <2>2. /\ pc'[t] = "unref" /\ node'[t] = node[t] /\ held'[t] = held[t]
        /\ Only(t) /\ Types'
    BY <1>2, <1>3, <2>1 DEF goto, Only, Types, Label
  <2>3. Locals(t)'
    BY <1>1, <1>2, <2>2 DEF Locals, Adding
  <2>4. \A j \in Node : Same(t, j)
    BY <1>1, <2>2 DEF Same, Has, Claims, GetsNode, Pinned, Adding, Claiming
  <2> QED
    BY <1>3, <2>1, <2>2, <2>3, <2>4, LocalStep
<1> QED
  BY <1>5, <1>6

\* unref: the node stays with the thread, or is left to those that refer to it.
LEMMA UnrefStep ==
  ASSUME FreeListInv, NEW t \in Thread, unref(t)
  PROVE  FreeListInv'
<1>1. PICK k \in Node : k = node[t] /\ pc[t] = "unref"
  BY DEF FreeListInv, Locals, unref, Adding
<1>2. Types /\ Locals(t) /\ NodeInv(k)
  BY DEF FreeListInv
<1>3. UNCHANGED <<freeListHead, freeListNext, held>> /\ OnList' = OnList
  BY DEF unref, OnList
<1>4. /\ t \in Pins(k) /\ Extra(k) = 0 /\ ~freeListRefs[k].flag /\ k \notin OnList
      /\ k \notin held[t]
      /\ \A u \in Thread : u # t => ~Has(u, k)
      /\ \A u \in Thread : ~Claims(u, k) /\ ~GetsNode(u, k)
  BY <1>1, PushedNode
<1>5. PICK n \in Nat : n + 1 = freeListRefs[k].n /\ n = freeListRefs[k].n - 1
  <2>1. Cardinality(Pins(k)) > 0
    BY <1>4, CountsExact, OneThread
  <2>2. freeListRefs[k].n \in Nat /\ freeListRefs[k].n > 0
    BY <1>4, <2>1, CountsExact
  <2> QED
    BY <2>2
<1>6. /\ freeListRefs' \in [Node -> RefsType]
      /\ freeListRefs'[k].flag /\ freeListRefs'[k].n = n
      /\ \A j \in Node : j # k => freeListRefs'[j] = freeListRefs[j]
  <2>1. freeListRefs' = [freeListRefs EXCEPT ![k] = Refs(TRUE, n)]
    BY <1>1, <1>5 DEF unref
  <2> QED
    BY <1>2, <2>1, RefsValue DEF Types
<1>7. Cardinality(Pins(k) \ {t}) = n
  BY <1>4, <1>5, CountsExact, OneThread
<1>8. CASE n = 0
  <2>1. goto(t, "link") /\ UNCHANGED <<head, node, next, after>>
    <3>1. freeListRefs[k] = Refs(FALSE, 1)
      <4>1. /\ freeListRefs[k] \in RefsType /\ 1 \in Nat
            /\ ~freeListRefs[k].flag /\ freeListRefs[k].n = 1
        BY <1>4, <1>5, <1>8, CountsExact
      <4> QED
        BY <4>1, RefsParts, Zenon
    <3> QED
      BY <1>1, <3>1 DEF unref
  <2>2. /\ pc'[t] = "link" /\ node'[t] = k /\ held'[t] = held[t] /\ Only(t) /\ Types'
    BY <1>1, <1>2, <1>3, <1>6, <2>1 DEF goto, Only, Types, Label
  <2>3. Locals(t)'
    BY <1>4, <2>2 DEF Locals, Adding
  <2>4. \A j \in Node : j # k => Same(t, j)
    BY <1>1, <2>2 DEF Same, Has, Claims, GetsNode, Pinned, Adding, Claiming
  <2>5. Pins(k)' = Pins(k) \ {t}
    BY <2>2 DEF Pins, Pinned, Only
  <2>6. Has(t, k)' /\ Claims(t, k)' /\ ~GetsNode(t, k)'
    BY <2>2 DEF Has, Claims, GetsNode, Adding, Claiming
  <2>7. \A u \in Thread : u # t => ~Has(u, k)' /\ ~Claims(u, k)' /\ ~GetsNode(u, k)'
    BY <1>4, <2>2 DEF Has, Claims, GetsNode, Only, Adding, Claiming
  <2>8. Extra(k)' = 0
    BY <1>3, <1>4, <2>6, <2>7 DEF Extra
  <2>9. freeListRefs'[k].n = Cardinality(Pins(k)') + 0
    BY <1>6, <1>7, <2>5
  <2>10. NodeInv(k)'
    BY <1>3, <1>4, <1>6, <1>8, <2>6, <2>7, <2>8, <2>9
      DEF NodeInv, OneOwner, Counted, Flagged, Kept
  <2> QED
    BY <1>3, <1>6, <2>2, <2>3, <2>4, <2>10, OneNodeStep
<1>9. CASE n # 0
  <2>1. leave(t)
    <3>1. freeListRefs[k] # Refs(FALSE, 1)
      <4>1. Refs(FALSE, 1).n = 1
        BY RefsValue
      <4>2. freeListRefs[k].n # 1
        BY <1>5, <1>9
      <4> QED
        BY <4>1, <4>2, Zenon
    <3> QED
      BY <1>1, <3>1 DEF unref
  <2>2. /\ pc'[t] \in {"idle", "loop"} /\ held'[t] = held[t] /\ Only(t) /\ Types'
    <3>1. /\ pc'[t] \in {"idle", "loop"} /\ Only(t)
          /\ pc' \in [Thread -> Label] /\ head' \in [Thread -> Node \cup {0}]
          /\ node' \in [Thread -> Node \cup {0}] /\ next' \in [Thread -> Node \cup {0}]
          /\ after' \in [Thread -> {"idle", "loop"}]
      BY <1>2, <1>3, <2>1, LeaveFacts
    <3> QED
      BY <1>2, <1>3, <1>6, <3>1 DEF Types
  <2>3. Locals(t)'
    BY <2>2 DEF Locals, Adding
  <2>4. \A j \in Node : j # k => Same(t, j)
    BY <1>1, <2>2 DEF Same, Has, Claims, GetsNode, Pinned, Adding, Claiming
  <2>5. Pins(k)' = Pins(k) \ {t}
    BY <2>2 DEF Pins, Pinned, Only
  <2>6. \A u \in Thread : ~Has(u, k)' /\ ~Claims(u, k)' /\ ~GetsNode(u, k)'
    BY <1>4, <2>2 DEF Has, Claims, GetsNode, Only, Adding, Claiming
  <2>7. Extra(k)' = 0
    BY <1>3, <1>4, <2>6 DEF Extra
  <2>8. freeListRefs'[k].n = Cardinality(Pins(k)') + 0
    BY <1>6, <1>7, <2>5
  <2>9. NodeInv(k)'
    BY <1>3, <1>4, <1>6, <1>9, <2>6, <2>7, <2>8
      DEF NodeInv, OneOwner, Counted, Flagged, Kept
  <2> QED
    BY <1>3, <1>6, <2>2, <2>3, <2>4, <2>9, OneNodeStep
<1> QED
  BY <1>8, <1>9

\* count
LEMMA CountStep ==
  ASSUME FreeListInv, NEW t \in Thread, count(t)
  PROVE  FreeListInv'
<1>1. PICK k \in Node : k = head[t] /\ pc[t] = "count"
  BY DEF FreeListInv, Locals, count
<1>2. Types /\ Locals(t) /\ NodeInv(k)
  BY DEF FreeListInv
<1>3. UNCHANGED <<freeListHead, freeListNext, head, node, next, after, held>> /\ OnList' = OnList
  BY DEF count, OnList
<1>4. CASE goto(t, "again") /\ freeListRefs' = freeListRefs
  <2>1. pc'[t] = "again" /\ Only(t) /\ Types'
    BY <1>2, <1>3, <1>4 DEF goto, Only, Types, Label
  <2>2. Locals(t)'
    BY <2>1 DEF Locals, Adding
  <2>3. \A j \in Node : Same(t, j)
    BY <1>1, <1>3, <2>1 DEF Same, Has, Claims, GetsNode, Pinned, Adding, Claiming
  <2> QED
    BY <1>3, <1>4, <2>1, <2>2, <2>3, LocalStep
<1>5. CASE /\ freeListRefs[head[t]].n # 0
           /\ freeListRefs' = [freeListRefs EXCEPT ![head[t]].n = @ + 1]
           /\ goto(t, "take")
  <2>1. PICK n \in Nat : n = freeListRefs[k].n /\ n # 0 /\ n + 1 \in Nat
    BY <1>1, <1>5, CountsExact
  <2>2. /\ freeListRefs' \in [Node -> RefsType]
        /\ (freeListRefs'[k].flag <=> freeListRefs[k].flag) /\ freeListRefs'[k].n = n + 1
        /\ \A j \in Node : j # k => freeListRefs'[j] = freeListRefs[j]
    <3>1. PICK x : x = [freeListRefs[k] EXCEPT !.n = n + 1]
      OBVIOUS
    <3>2. x \in RefsType /\ (x.flag <=> freeListRefs[k].flag) /\ x.n = n + 1
      BY <2>1, <3>1, RefsChanged, CountsExact
    <3>3. freeListRefs' = [freeListRefs EXCEPT ![k] = x]
      BY <1>1, <1>5, <2>1, <3>1
    <3> QED
      BY <1>2, <3>2, <3>3 DEF Types
  <2>3. pc'[t] = "take" /\ head'[t] = k /\ Only(t) /\ Types'
    BY <1>1, <1>2, <1>3, <1>5, <2>2 DEF goto, Only, Types, Label
  <2>4. Locals(t)'
    BY <2>3 DEF Locals, Adding
  <2>5. \A j \in Node : j # k => Same(t, j)
    BY <1>1, <1>3, <2>3 DEF Same, Has, Claims, GetsNode, Pinned, Adding, Claiming
  <2>6. /\ Has(t, k)' <=> Has(t, k)
        /\ Claims(t, k)' <=> Claims(t, k)
        /\ GetsNode(t, k)' <=> GetsNode(t, k)
    BY <1>1, <1>3, <2>3 DEF Has, Claims, GetsNode, Adding, Claiming
  <2>7. \A u \in Thread : /\ Has(u, k)' <=> Has(u, k)
                          /\ Claims(u, k)' <=> Claims(u, k)
                          /\ GetsNode(u, k)' <=> GetsNode(u, k)
    BY <2>3, <2>6, OthersSame DEF Same
  <2>8. Pins(k)' = Pins(k) \cup {t} /\ t \notin Pins(k)
    BY <1>1, <2>3 DEF Pins, Pinned, Only
  <2>9. Extra(k)' = Extra(k)
    BY <1>3, <2>7 DEF Extra
  <2>10. freeListRefs'[k].n = Cardinality(Pins(k)') + Extra(k)
    <3>1. Cardinality(Pins(k)') = Cardinality(Pins(k)) + 1
      BY <2>8, CountsExact, OneThread
    <3> QED
      BY <2>1, <2>2, <3>1, CountsExact
  <2>11. \A u \in Thread : ~Claims(u, k)
    BY <1>2, <2>1 DEF NodeInv, Flagged
  <2>12. NodeInv(k)'
    BY <1>2, <1>3, <2>1, <2>2, <2>7, <2>9, <2>10, <2>11
      DEF NodeInv, OneOwner, Counted, Flagged, Kept
  <2> QED
    BY <1>3, <2>2, <2>3, <2>4, <2>5, <2>12, OneNodeStep
<1> QED
  BY <1>4, <1>5 DEF count

\* pop: the node that is first on the list becomes the thread's.
LEMMA PopStep ==
  ASSUME FreeListInv, NEW t \in Thread, pop(t)
  PROVE  FreeListInv'
<1>1. PICK k \in Node : k = head[t] /\ pc[t] = "pop"
  BY DEF FreeListInv, Locals, pop
<1>2. Types /\ Locals(t) /\ NodeInv(k) /\ next[t] = freeListNext[k]
  BY <1>1 DEF FreeListInv, Locals
<1>3. UNCHANGED <<freeListNext, freeListRefs, after, held>> /\ node' = [node EXCEPT ![t] = k]
  BY <1>1 DEF pop
<1>4. CASE freeListHead = k
  <2>1. freeListHead' = freeListNext[k] /\ goto(t, "got") /\ UNCHANGED <<head, next>>
    BY <1>1, <1>2, <1>4 DEF pop
  <2>2. pc'[t] = "got" /\ node'[t] = k /\ held'[t] = held[t] /\ Only(t) /\ Types'
    BY <1>2, <1>3, <2>1 DEF goto, Only, Types, Label
  <2>3. /\ k \in OnList /\ OnList' = OnList \ {k}
        /\ Simple(OnList', freeListHead', freeListNext')
    <3>1. PICK f : f = freeListNext
      OBVIOUS
    <3>2. f \in [Node -> Node \cup {0}] /\ Simple(ListOf(k, f), k, f)
      BY <1>2, <1>4, <3>1 DEF Types, OnList, FreeListInv
    <3>3. /\ k \in ListOf(k, f) /\ ListOf(f[k], f) = ListOf(k, f) \ {k}
          /\ Simple(ListOf(f[k], f), f[k], f)
      BY <3>2, ListPop
    <3> QED
      BY <1>3, <1>4, <2>1, <3>1, <3>3 DEF OnList
  <2>4. ~freeListRefs[k].flag /\ \A u \in Thread : ~Has(u, k)
    BY <1>2, <2>3 DEF NodeInv, OneOwner, Flagged
  <2>5. Locals(t)'
    BY <2>2, <2>4 DEF Locals, Adding, Has
  <2>6. \A j \in Node : j # k => Same(t, j)
    BY <1>1, <2>2 DEF Same, Has, Claims, GetsNode, Pinned, Adding, Claiming
  <2>7. Has(t, k)' /\ ~Claims(t, k)' /\ GetsNode(t, k)'
    BY <2>2 DEF Has, Claims, GetsNode, Adding, Claiming
  <2>8. \A u \in Thread : u # t => ~Has(u, k)' /\ ~Claims(u, k)'
    BY <2>2, <2>4 DEF Has, Claims, Only, Adding, Claiming
  <2>9. Pins(k)' = Pins(k)
    BY <1>1, <2>2 DEF Pins, Pinned, Only
  <2>10. Extra(k)' = 1 /\ Extra(k) = 1
    BY <2>3, <2>7 DEF Extra
  <2>11. NodeInv(k)'
    BY <1>2, <1>3, <2>3, <2>4, <2>7, <2>8, <2>9, <2>10
      DEF NodeInv, OneOwner, Counted, Flagged, Kept
  <2>12. \A j \in Node : j # k => (j \in OnList' <=> j \in OnList)
    BY <2>3
  <2>13. freeListNext' = freeListNext /\ freeListRefs' = freeListRefs
    BY <1>3
  <2> QED
    BY <2>2, <2>3, <2>5, <2>6, <2>11, <2>12, <2>13, ListStep
<1>5. CASE freeListHead # k
  <2>1. /\ head' = [head EXCEPT ![t] = freeListHead]
        /\ next' = [next EXCEPT ![t] = freeListHead]
        /\ goto(t, "drop") /\ UNCHANGED freeListHead
    BY <1>1, <1>5 DEF pop
  <2>2. pc'[t] = "drop" /\ node'[t] = k /\ held'[t] = held[t] /\ Only(t) /\ Types'
    BY <1>2, <1>3, <2>1 DEF goto, Only, Types, Label
  <2>3. Locals(t)'
    BY <2>2 DEF Locals, Adding
  <2>4. \A j \in Node : Same(t, j)
    BY <1>1, <2>2 DEF Same, Has, Claims, GetsNode, Pinned, Adding, Claiming
  <2> QED
    BY <1>3, <2>1, <2>2, <2>3, <2>4, LocalStep
<1> QED
  BY <1>4, <1>5

\* got: the thread gives back its reference and the list's.
LEMMA GotStep ==
  ASSUME FreeListInv, NEW t \in Thread, got(t)
  PROVE  FreeListInv'
<1>1. PICK k \in Node : k = node[t] /\ pc[t] = "got"
  BY DEF FreeListInv, Locals, got, Adding
<1>2. Types /\ Locals(t) /\ NodeInv(k)
  BY DEF FreeListInv
<1>3. UNCHANGED <<freeListHead, freeListNext>> /\ OnList' = OnList
  BY DEF got, OnList
<1>4. Has(t, k) /\ ~Claims(t, k) /\ GetsNode(t, k) /\ t \in Pins(k)
  BY <1>1 DEF Has, Claims, GetsNode, Pins, Pinned, Adding, Claiming
<1>5. /\ k \notin OnList /\ ~freeListRefs[k].flag /\ \A u \in Thread : u # t => ~Has(u, k)
  BY <1>2, <1>4 DEF NodeInv, OneOwner, Flagged
<1>6. Extra(k) = 1
  BY <1>4 DEF Extra
<1>7. PICK n \in Nat : n = freeListRefs[k].n - 2 /\ n = Cardinality(Pins(k) \ {t})
  <2>1. Cardinality(Pins(k)) > 0 /\ Cardinality(Pins(k) \ {t}) = Cardinality(Pins(k)) - 1
    BY <1>4, CountsExact, OneThread
  <2>2. /\ freeListRefs[k].n - 2 \in Nat
        /\ freeListRefs[k].n - 2 = Cardinality(Pins(k) \ {t})
    BY <1>6, <2>1, CountsExact
  <2> QED
    BY <2>2
<1>8. /\ freeListRefs' \in [Node -> RefsType]
      /\ ~freeListRefs'[k].flag /\ freeListRefs'[k].n = n
      /\ \A j \in Node : j # k => freeListRefs'[j] = freeListRefs[j]
  <2>1. PICK x : x = [freeListRefs[k] EXCEPT !.n = n]
    OBVIOUS
  <2>2. x \in RefsType /\ ~x.flag /\ x.n = n
    BY <1>5, <2>1, RefsChanged, CountsExact
  <2>3. freeListRefs' = [freeListRefs EXCEPT ![k] = x]
    BY <1>1, <1>7, <2>1 DEF got
  <2> QED
    BY <1>2, <2>2, <2>3 DEF Types
<1>9. /\ pc'[t] = "idle" /\ held'[t] = held[t] \cup {k} /\ Only(t) /\ Types'
  BY <1>1, <1>2, <1>3, <1>8 DEF got, done, goto, Only, Types, Label
<1>10. Locals(t)'
  BY <1>9 DEF Locals, Adding
<1>11. \A j \in Node : j # k => Same(t, j)
  BY <1>1, <1>9 DEF Same, Has, Claims, GetsNode, Pinned, Adding, Claiming
<1>12. Has(t, k)' /\ ~Claims(t, k)' /\ ~GetsNode(t, k)'
  BY <1>9 DEF Has, Claims, GetsNode, Claiming
<1>13. \A u \in Thread : u # t => ~Has(u, k)' /\ ~Claims(u, k)' /\ ~GetsNode(u, k)'
  BY <1>5, <1>9 DEF Has, Claims, GetsNode, Only, Adding, Claiming
<1>14. Pins(k)' = Pins(k) \ {t}
  BY <1>9 DEF Pins, Pinned, Only
<1>15. Extra(k)' = 0
  BY <1>3, <1>5, <1>12, <1>13 DEF Extra
<1>16. freeListRefs'[k].n = Cardinality(Pins(k)') + 0
  BY <1>7, <1>8, <1>14
<1>17. NodeInv(k)'
  BY <1>3, <1>5, <1>8, <1>12, <1>13, <1>15, <1>16
    DEF NodeInv, OneOwner, Counted, Flagged, Kept
<1> QED
  BY <1>3, <1>8, <1>9, <1>10, <1>11, <1>17, OneNodeStep

\* drop: the last reference to a flagged node makes the thread add it.
LEMMA DropStep ==
  ASSUME FreeListInv, NEW t \in Thread, drop(t)
  PROVE  FreeListInv'
<1>1. PICK k \in Node : k = node[t] /\ pc[t] = "drop"
  BY DEF FreeListInv, Locals, drop, Adding
<1>2. Types /\ Locals(t) /\ NodeInv(k)
  BY DEF FreeListInv
<1>3. UNCHANGED <<freeListHead, freeListNext, head, node, next, held>> /\ OnList' = OnList
  BY DEF drop, OnList
<1>4. t \in Pins(k)
  BY <1>1 DEF Pins, Pinned
<1>5. /\ Cardinality(Pins(k)) > 0 /\ Cardinality(Pins(k) \ {t}) = Cardinality(Pins(k)) - 1
      /\ Cardinality(Pins(k) \ {t}) \in Nat
  BY <1>4, CountsExact, OneThread
<1>6. PICK n \in Nat : n = freeListRefs[k].n - 1 /\ n + 1 = freeListRefs[k].n
  <2>1. freeListRefs[k].n - 1 \in Nat /\ freeListRefs[k].n \in Nat
    BY <1>5, CountsExact
  <2> QED
    BY <2>1
<1>7. n = Cardinality(Pins(k) \ {t}) + Extra(k)
  BY <1>5, <1>6, CountsExact
<1>8. /\ freeListRefs' \in [Node -> RefsType]
      /\ (freeListRefs'[k].flag <=> freeListRefs[k].flag) /\ freeListRefs'[k].n = n
      /\ \A j \in Node : j # k => freeListRefs'[j] = freeListRefs[j]
  <2>1. PICK x : x = [freeListRefs[k] EXCEPT !.n = n]
    OBVIOUS
  <2>2. x \in RefsType /\ (x.flag <=> freeListRefs[k].flag) /\ x.n = n
    BY <2>1, RefsChanged, CountsExact
  <2>3. freeListRefs' = [freeListRefs EXCEPT ![k] = x]
    BY <1>1, <1>6, <2>1 DEF drop
  <2> QED
    BY <1>2, <2>2, <2>3 DEF Types
<1>9. \A u \in Thread : ~Claims(u, k)
  BY <1>2, <1>6 DEF NodeInv, Flagged
<1>10. CASE freeListRefs[k].flag /\ n = 0
  <2>1. goto(t, "load") /\ after' = [after EXCEPT ![t] = "loop"]
    <3>1. freeListRefs[k] = Refs(TRUE, 1)
      <4>1. /\ freeListRefs[k] \in RefsType /\ 1 \in Nat
            /\ freeListRefs[k].flag /\ freeListRefs[k].n = 1
        BY <1>6, <1>10, CountsExact
      <4> QED
        BY <4>1, RefsParts, Zenon
    <3> QED
      BY <1>1, <3>1 DEF drop
  <2>2. pc'[t] = "load" /\ node'[t] = k /\ held'[t] = held[t] /\ Only(t) /\ Types'
    BY <1>1, <1>2, <1>3, <1>8, <2>1 DEF goto, Only, Types, Label
  <2>3. k \notin OnList /\ \A u \in Thread : ~Has(u, k)
    BY <1>2, <1>9, <1>10 DEF NodeInv, Flagged
  <2>4. Locals(t)'
    BY <2>2, <2>3 DEF Locals, Adding, Has
  <2>5. \A j \in Node : j # k => Same(t, j)
    BY <1>1, <2>2 DEF Same, Has, Claims, GetsNode, Pinned, Adding, Claiming
  <2>6. Has(t, k)' /\ Claims(t, k)' /\ ~GetsNode(t, k)'
    BY <2>2 DEF Has, Claims, GetsNode, Adding, Claiming
  <2>7. \A u \in Thread : u # t => ~Has(u, k)' /\ ~Claims(u, k)' /\ ~GetsNode(u, k)'
    BY <2>2, <2>3 DEF Has, Claims, GetsNode, Only, Adding, Claiming
  <2>8. Pins(k)' = Pins(k) \ {t}
    BY <2>2 DEF Pins, Pinned, Only
  <2>9. Extra(k)' = 0 /\ Extra(k) = 0
    <3>1. \A u \in Thread : ~GetsNode(u, k)
      BY <2>3 DEF GetsNode, Has
    <3> QED
      BY <1>3, <2>3, <2>6, <2>7, <3>1 DEF Extra
  <2>10. freeListRefs'[k].n = Cardinality(Pins(k)') + 0
    BY <1>7, <1>8, <2>8, <2>9
  <2>11. NodeInv(k)'
    BY <1>3, <1>8, <1>10, <2>3, <2>6, <2>7, <2>9, <2>10
      DEF NodeInv, OneOwner, Counted, Flagged, Kept
  <2> QED
    BY <1>3, <1>8, <2>2, <2>4, <2>5, <2>11, OneNodeStep
<1>11. CASE ~(freeListRefs[k].flag /\ n = 0)
  <2>1. goto(t, "loop") /\ UNCHANGED after
    <3>1. freeListRefs[k] # Refs(TRUE, 1)
      <4>1. Refs(TRUE, 1).n = 1 /\ Refs(TRUE, 1).flag
        BY RefsValue
      <4>2. freeListRefs[k].n # 1 \/ ~freeListRefs[k].flag
        BY <1>6, <1>11
      <4> QED
        BY <4>1, <4>2, Zenon
    <3> QED
      BY <1>1, <3>1 DEF drop
  <2>2. pc'[t] = "loop" /\ node'[t] = k /\ held'[t] = held[t] /\ Only(t) /\ Types'
    BY <1>1, <1>2, <1>3, <1>8, <2>1 DEF goto, Only, Types, Label
  <2>3. Locals(t)'
    BY <2>2 DEF Locals, Adding
  <2>4. \A j \in Node : j # k => Same(t, j)
    BY <1>1, <2>2 DEF Same, Has, Claims, GetsNode, Pinned, Adding, Claiming
  <2>5. /\ Has(t, k)' <=> Has(t, k)
        /\ Claims(t, k)' <=> Claims(t, k)
        /\ GetsNode(t, k)' <=> GetsNode(t, k)
    BY <1>1, <2>2 DEF Has, Claims, GetsNode, Adding, Claiming
  <2>6. \A u \in Thread : /\ Has(u, k)' <=> Has(u, k)
                          /\ Claims(u, k)' <=> Claims(u, k)
                          /\ GetsNode(u, k)' <=> GetsNode(u, k)
    BY <2>2, <2>5, OthersSame DEF Same
  <2>7. Pins(k)' = Pins(k) \ {t}
    BY <2>2 DEF Pins, Pinned, Only
  <2>8. Extra(k)' = Extra(k)
    BY <1>3, <2>6 DEF Extra
  <2>9. freeListRefs'[k].n = Cardinality(Pins(k)') + Extra(k)
    BY <1>7, <1>8, <2>7
  <2>10. NodeInv(k)'
    BY <1>2, <1>3, <1>8, <1>9, <1>11, <2>6, <2>8, <2>9
      DEF NodeInv, OneOwner, Counted, Flagged, Kept
  <2> QED
    BY <1>3, <1>8, <2>2, <2>3, <2>4, <2>10, OneNodeStep
<1> QED
  BY <1>10, <1>11

-----------------------------------------------------------------------------
(***************************************************************************)
(* FreeList: the invariant holds                                           *)
(***************************************************************************)

\* Nobody refers to any node at first, and the list is empty.
LEMMA InitInv == FlInit => FreeListInv
<1> SUFFICES ASSUME FlInit PROVE FreeListInv
  OBVIOUS
<1>1. Types
  <2>1. Refs(FALSE, 0) \in RefsType
    BY RefsValue
  <2>2. freeListRefs \in [Node -> RefsType]
    BY <2>1 DEF FlInit
  <2>3. pc \in [Thread -> Label] /\ after \in [Thread -> {"idle", "loop"}]
    BY DEF FlInit, Label
  <2>4. held \in [Thread -> SUBSET Node]
    BY FreeListAssumption DEF FlInit
  <2> QED
    BY <2>2, <2>3, <2>4 DEF FlInit, Types
<1>2. \A t \in Thread : Locals(t)
  BY DEF FlInit, Locals, Adding
<1>3. OnList = {}
  <2>1. ListIn({}, freeListHead, freeListNext)
    BY DEF FlInit, ListIn
  <2> QED
    BY <2>1 DEF OnList, ListOf
<1>4. Simple(OnList, freeListHead, freeListNext)
  BY <1>3 DEF Simple
<1>5. ASSUME NEW k \in Node PROVE NodeInv(k)
  <2>1. \A t \in Thread : (Has(t, k) <=> k \in Owned[t]) /\ ~Claims(t, k) /\ ~GetsNode(t, k)
                          /\ ~Pinned(t, k)
    BY DEF FlInit, Has, Claims, GetsNode, Pinned, Adding, Claiming
  <2>2. OneOwner(k)
    BY <1>3, <2>1, FreeListAssumption DEF OneOwner
  <2>3. ~freeListRefs[k].flag /\ freeListRefs[k].n = 0
    BY RefsValue DEF FlInit
  <2>4. Pins(k) = {}
    BY <2>1 DEF Pins
  <2>5. Cardinality(Pins(k)) = 0
    BY <2>4, FS_EmptySet
  <2>6. Extra(k) = 0
    BY <1>3, <2>1 DEF Extra
  <2>7. Counted(k)
    BY <2>3, <2>5, <2>6 DEF Counted
  <2>8. Flagged(k) /\ Kept(k)
    BY <2>1, <2>3 DEF Flagged, Kept
  <2> QED
    BY <2>2, <2>7, <2>8 DEF NodeInv
<1> QED
  BY <1>1, <1>2, <1>4, <1>5 DEF FreeListInv

\* Every atomic operation keeps it.
LEMMA NextInv == FreeListInv /\ [FlNext]_flVars => FreeListInv'
<1>1. ASSUME FreeListInv, NEW t \in Thread, flStep(t) PROVE FreeListInv'
  <2>1. ASSUME NEW k \in Node, add(t, k) PROVE FreeListInv'
    BY <1>1, <2>1, AddStep
  <2>2. CASE load(t)
    BY <1>1, <2>2, LoadStep
  <2>3. CASE link(t)
    BY <1>1, <2>3, LinkStep
  <2>4. CASE ref(t)
    BY <1>1, <2>4, RefStep
  <2>5. CASE push(t)
    BY <1>1, <2>5, PushStep
  <2>6. CASE unref(t)
    BY <1>1, <2>6, UnrefStep
  <2>7. CASE try_get(t) \/ loop(t)
    BY <1>1, <2>7, TryGetStep
  <2>8. CASE count(t)
    BY <1>1, <2>8, CountStep
  <2>9. CASE take(t)
    BY <1>1, <2>9, TakeStep
  <2>10. CASE pop(t)
    BY <1>1, <2>10, PopStep
  <2>11. CASE got(t)
    BY <1>1, <2>11, GotStep
  <2>12. CASE drop(t)
    BY <1>1, <2>12, DropStep
  <2> QED
    BY <1>1, <2>1, <2>2, <2>3, <2>4, <2>5, <2>6, <2>7, <2>8, <2>9, <2>10, <2>11, <2>12
      DEF flStep
<1>2. ASSUME FreeListInv, UNCHANGED flVars PROVE FreeListInv'
  <2>1. Types' /\ (\A t \in Thread : Locals(t)') /\ OnList' = OnList
    BY <1>2 DEF flVars, FreeListInv, Types, Locals, OnList
  <2>2. Simple(OnList, freeListHead, freeListNext)'
    BY <1>2, <2>1 DEF flVars, FreeListInv
  <2>3. ASSUME NEW k \in Node PROVE NodeInv(k)'
    <3>1. \A u \in Thread : Same(u, k)
      BY <1>2 DEF flVars, Same, Has, Claims, GetsNode, Pinned
    <3> QED
      BY <1>2, <2>1, <3>1, NodeSame DEF flVars, FreeListInv
  <2> QED
    BY <2>1, <2>2, <2>3 DEF FreeListInv
<1> QED
  BY <1>1, <1>2 DEF FlNext

\* FreeList: whatever the order of the atomic operations, the list has no
\* cycle, every count is the number of those that refer to the node, and the
\* bit SHOULD_BE_ON_FREELIST stands for a node that somebody will add.
THEOREM FreeListInvariant == FlSpec => []FreeListInv
<1>1. FlInit => FreeListInv
  BY InitInv
<1>2. FreeListInv /\ [FlNext]_flVars => FreeListInv'
  BY NextInv
<1> QED
  BY <1>1, <1>2, PTL DEF FlSpec

-----------------------------------------------------------------------------
(***************************************************************************)
(* FreeList: what it says of the blocks                                    *)
(***************************************************************************)

\* A node that somebody has belongs to nobody else.
LEMMA OwnedOnce == FreeListInv => NodeOwnedOnce
<1> SUFFICES ASSUME FreeListInv PROVE NodeOwnedOnce
  OBVIOUS
<1>1. \A t \in Thread : held[t] \subseteq Node
  BY DEF FreeListInv, Types
<1>2. \A k \in Node : OneOwner(k) /\ Flagged(k)
  BY DEF FreeListInv, NodeInv
<1>3. ASSUME NEW t \in Thread, NEW u \in Thread, t # u PROVE held[t] \cap held[u] = {}
  BY <1>1, <1>2, <1>3 DEF OneOwner, Has
<1>4. ASSUME NEW t \in Thread PROVE held[t] \cap OnList = {}
  BY <1>1, <1>2 DEF OneOwner, Has
<1>5. ASSUME NEW t \in Thread, pc[t] = "got"
      PROVE  /\ node[t] \notin OnList
             /\ ~freeListRefs[node[t]].flag
             /\ \A u \in Thread : node[t] \notin held[u]
  <2>1. PICK k \in Node : k = node[t] /\ k \notin held[t]
    BY <1>5 DEF FreeListInv, Locals
  <2>2. Has(t, k) /\ ~Claims(t, k)
    BY <1>5, <2>1 DEF Has, Claims, Claiming
  <2>3. k \notin OnList /\ ~freeListRefs[k].flag
    BY <1>2, <2>2 DEF OneOwner, Flagged
  <2>4. \A u \in Thread : k \notin held[u]
    BY <1>2, <2>1, <2>2 DEF OneOwner, Has
  <2> QED
    BY <2>1, <2>3, <2>4
<1> QED
  BY <1>3, <1>4, <1>5 DEF NodeOwnedOnce

\* When no operation runs, no node is left with a flag or a stray reference.
LEMMA Conserved == FreeListInv => NodesConserved
<1> SUFFICES ASSUME FreeListInv, \A t \in Thread : pc[t] = "idle",
                    NEW k, k \in UNION {Owned[t] : t \in Thread}
             PROVE  \/ \E t \in Thread : k \in held[t] /\ freeListRefs[k] = Refs(FALSE, 0)
                    \/ k \in OnList /\ freeListRefs[k] = Refs(FALSE, 1)
  BY DEF NodesConserved
<1>1. k \in Node /\ \E t \in Thread : k \in Owned[t]
  BY FreeListAssumption
<1>2. \A t \in Thread : ~Claims(t, k) /\ ~GetsNode(t, k) /\ ~Pinned(t, k)
                        /\ (Has(t, k) <=> k \in held[t])
  BY DEF Claims, GetsNode, Pinned, Has, Claiming, Adding
<1>3. Pins(k) = {}
  BY <1>2 DEF Pins
<1>4. Cardinality(Pins(k)) = 0
  BY <1>3, FS_EmptySet
<1>5. freeListRefs[k] \in RefsType /\ freeListRefs[k].n = Extra(k)
  BY <1>1, <1>4, CountsExact
<1>6. Extra(k) = IF k \in OnList THEN 1 ELSE 0
  BY <1>2 DEF Extra
<1>7. OneOwner(k) /\ Flagged(k) /\ Kept(k)
  BY <1>1 DEF FreeListInv, NodeInv
<1>8. ~freeListRefs[k].flag
  BY <1>2, <1>5, <1>6, <1>7 DEF Flagged
<1>9. CASE k \in OnList
  <2>1. freeListRefs[k].n = 1
    BY <1>5, <1>6, <1>9
  <2> QED
    BY <1>5, <1>8, <1>9, <2>1, RefsParts
<1>10. CASE k \notin OnList
  <2>1. freeListRefs[k].n = 0
    BY <1>5, <1>6, <1>10
  <2>2. \E t \in Thread : k \in held[t]
    BY <1>1, <1>2, <1>7, <1>8, <1>10 DEF Kept
  <2>3. freeListRefs[k] = Refs(FALSE, 0)
    BY <1>5, <1>8, <2>1, RefsParts
  <2> QED
    BY <2>2, <2>3
<1> QED
  BY <1>9, <1>10

\* FreeList: no block ever has two owners, and none is lost, for any number of
\* threads and blocks.
THEOREM BlocksAreSafe == FlSpec => []BlocksSafe
<1>1. FreeListInv => BlocksSafe
  BY OwnedOnce, Conserved DEF BlocksSafe
<1> QED
  BY <1>1, FreeListInvariant, PTL

----------------------------------------------------------------------------
(***************************************************************************)
(* ProducerHash: the inductive invariant                                   *)
(***************************************************************************)

TableEntry == [key : Nat, value : Nat]

Counting == {"resize", "allocate", "unlock", "room"}
Making == {"create", "link", "place"}

Local == [at : {"idle", "find", "count"} \cup Counting \cup Making,
          main : Nat, hash : Nat, n : Nat, p : Nat, prevTail : Nat]

Made == 1 .. Len(nextProducer)

HashTypes ==
  /\ hashes \in Seq(Seq(TableEntry)) /\ Len(hashes) > 0
  /\ implicitProducerHashCount \in Int
  /\ implicitProducerHashResizeInProgress \in BOOLEAN
  /\ nextProducer \in Seq(Nat)
  /\ producerListTail \in Nat
  /\ user \in [User -> Local]
  /\ returned \in [User -> SUBSET Nat]
  /\ counted \in [User -> Nat]

\* A table that is three quarters full takes no more threads.
Limit(h) == Len(h) \div 2 + Len(h) \div 4

\* Thread t is entered in table h, and in one of the tables.
In(h, t) == \E s \in 1 .. Len(h) : h[s].key = t
Entered(t) == \E k \in 1 .. Len(hashes) : In(hashes[k], t)

\* Thread t comes to slot s before it comes to an empty one.
Reached(h, t, s) ==
  \E i \in 1 .. Len(h) : s = Probe(h, t, i) /\ \A j \in 1 .. i - 1 : h[Probe(h, t, j)].key # 0

\* The entries of a table: threads that were counted in time, each in one slot
\* and found by probing.
TableOK(h) ==
  /\ Len(h) > 0
  /\ \A s \in 1 .. Len(h) :
       /\ h[s].key = 0 => h[s] = Empty
       /\ h[s].key # 0 =>
            /\ h[s].key \in User
            /\ counted[h[s].key] \in 1 .. Limit(h) - 1
            /\ Reached(h, h[s].key, s)
  /\ \A s, r \in 1 .. Len(h) : h[s].key # 0 /\ h[s].key = h[r].key => s = r

TablesOK ==
  /\ \A k \in 1 .. Len(hashes) : TableOK(hashes[k])
  /\ \A k, l \in 1 .. Len(hashes) : k <= l => Len(hashes[k]) <= Len(hashes[l])

\* What a thread has found out about the tables, and what it has counted.
SearchOK(t) ==
  LET u == user[t] IN
  /\ u.at # "idle" => u.main \in 1 .. Len(hashes)
  /\ u.at = "find" => /\ u.hash \in 1 .. u.main
                      /\ \A k \in u.hash + 1 .. Len(hashes) : ~In(hashes[k], t)
  /\ u.at \in {"count", "create", "link"} \cup Counting => ~Entered(t)
  /\ u.at = "place" => ~In(hashes[u.main], t)
  /\ u.at \in {"idle", "find", "count"} => (counted[t] > 0 <=> Entered(t))
  /\ u.at \in Counting => u.n = counted[t] /\ counted[t] > 0
  /\ u.at \in Making => counted[t] \in 1 .. Limit(hashes[u.main]) - 1

\* The numbers that were counted: no more than m threads have one up to m.
CountOK ==
  /\ implicitProducerHashCount = Cardinality({t \in User : counted[t] > 0})
  /\ \A m \in Nat : Cardinality({t \in User : counted[t] \in 1 .. m}) <= m

\* One thread at a time replaces the table.
LockOK ==
  \A t \in User :
    /\ user[t].at \in {"allocate", "unlock"} =>
         /\ implicitProducerHashResizeInProgress
         /\ \A u \in User : user[u].at \in {"allocate", "unlock"} => u = t
    /\ user[t].at = "allocate" => user[t].main = Len(hashes)

\* The producers that thread t has or had in its hands.
EntryOf(t, p) ==
  \E k \in 1 .. Len(hashes) : \E s \in 1 .. Len(hashes[k]) : hashes[k][s] = [key |-> t, value |-> p]
Owns(t, p) ==
  \/ p \in returned[t]
  \/ user[t].at \in {"link", "place"} /\ p = user[t].p
  \/ EntryOf(t, p)

\* Each thread has one producer, its own, and one that will make one has none.
OwnOK ==
  /\ \A t, u \in User : \A p, q \in Nat : Owns(t, p) /\ Owns(u, q) => (t = u <=> p = q)
  /\ \A t \in User : \A p \in Nat : Owns(t, p) =>
       /\ p \in Made
       /\ user[t].at \in {"link", "place"} \/ Entered(t)

\* The list: a producer that is being added is not yet in it.
ListOK ==
  /\ producerListTail \in 0 .. Len(nextProducer)
  /\ \A p \in Made : nextProducer[p] \in 0 .. Len(nextProducer)
  /\ \A t \in User : user[t].at = "link" =>
       /\ user[t].prevTail \in 0 .. Len(nextProducer)
       /\ producerListTail # user[t].p
       /\ \A p \in Made : nextProducer[p] # user[t].p
       /\ \A u \in User : user[u].at = "link" => user[u].prevTail # user[t].p
  /\ \A t \in User : user[t].at = "place" => user[t].p \in Listed
  /\ \A t \in User : returned[t] \subseteq Listed
  /\ \A k \in 1 .. Len(hashes) : \A s \in 1 .. Len(hashes[k]) :
       hashes[k][s].key # 0 => hashes[k][s].value \in Listed

HashInv ==
  /\ HashTypes /\ TablesOK /\ (\A t \in User : SearchOK(t))
  /\ CountOK /\ LockOK /\ OwnOK /\ ListOK

\* What a step of thread t leaves alone: the variables of the others.
Others(t) ==
  /\ user' \in [User -> Local] /\ returned' \in [User -> SUBSET Nat] /\ counted' \in [User -> Nat]
  /\ \A u \in User \ {t} :
       user'[u] = user[u] /\ returned'[u] = returned[u] /\ counted'[u] = counted[u]

\* A larger table takes more threads.
LEMMA LimitMonotone ==
  ASSUME NEW a \in Nat, NEW b \in Nat, a <= b
  PROVE  /\ a \div 2 + a \div 4 <= b \div 2 + b \div 4
         /\ a \div 2 + a \div 4 \in Nat /\ b \div 2 + b \div 4 \in Nat
OBVIOUS

\* No thread has the number of an empty slot.
LEMMA UsersPositive == ASSUME NEW t \in User PROVE t \in Nat /\ t # 0
BY ProducerHashAssumption

\* Probing stays within the table.
LEMMA ProbeRange ==
  ASSUME NEW h \in Seq(TableEntry), Len(h) > 0, NEW t \in User, NEW i \in 1 .. Len(h)
  PROVE  Probe(h, t, i) \in 1 .. Len(h)
<1>1. HashOf[t] \in Nat
  BY ProducerHashAssumption
<1>2. PICK x \in Nat : x = HashOf[t] + i - 1
  BY <1>1
<1>3. PICK l \in Nat : l = Len(h) /\ l > 0
  OBVIOUS
<1>4. x % l \in 0 .. l - 1
  BY <1>3
<1> QED
  BY <1>2, <1>3, <1>4 DEF Probe

\* What the invariant says of one table.
LEMMA TableType ==
  ASSUME HashInv, NEW k \in 1 .. Len(hashes)
  PROVE  /\ hashes[k] \in Seq(TableEntry) /\ Len(hashes[k]) \in Nat /\ Len(hashes[k]) > 0
         /\ TableOK(hashes[k])
         /\ \A s \in 1 .. Len(hashes[k]) : hashes[k][s] \in TableEntry
<1>1. hashes[k] \in Seq(TableEntry)
  BY ElementOfSeq DEF HashInv, HashTypes
<1>2. TableOK(hashes[k])
  BY DEF HashInv, TablesOK
<1>3. \A s \in 1 .. Len(hashes[k]) : hashes[k][s] \in TableEntry
  BY <1>1, ElementOfSeq
<1> QED
  BY <1>1, <1>2, <1>3 DEF TableOK

\* A probe that ends at an empty slot has shown that the thread is not in the table.
LEMMA NotFound ==
  ASSUME HashInv, NEW k \in 1 .. Len(hashes), NEW t \in User, NEW s \in 1 .. Len(hashes[k]),
         StopsAt(hashes[k], t, s, {0, t}), hashes[k][s].key = 0
  PROVE  ~In(hashes[k], t)
<1> SUFFICES ASSUME In(hashes[k], t) PROVE FALSE
  OBVIOUS
<1>1. PICK h : h = hashes[k]
  OBVIOUS
<1>2. h \in Seq(TableEntry) /\ Len(h) \in Nat /\ Len(h) > 0 /\ TableOK(h)
  BY <1>1, TableType
<1>3. PICK r \in 1 .. Len(h) : h[r].key = t
  BY <1>1 DEF In
<1>4. Reached(h, t, r)
  BY <1>2, <1>3, UsersPositive DEF TableOK
<1>5. PICK i \in 1 .. Len(h) : r = Probe(h, t, i) /\ \A j \in 1 .. i - 1 : h[Probe(h, t, j)].key # 0
  BY <1>4 DEF Reached
<1>6. PICK l \in 1 .. Len(h) : /\ s = Probe(h, t, l)
                               /\ \A j \in 1 .. l - 1 : h[Probe(h, t, j)].key \notin {0, t}
  BY <1>1 DEF StopsAt
<1>7. CASE l < i
  BY <1>1, <1>5, <1>6, <1>7
<1>8. CASE i < l
  BY <1>3, <1>5, <1>6, <1>8
<1>9. CASE i = l
  BY <1>1, <1>3, <1>5, <1>6, <1>9, UsersPositive
<1> QED
  BY <1>2, <1>7, <1>8, <1>9

\* One that ends at the thread's number has found the producer of the thread.
LEMMA Found ==
  ASSUME HashInv, NEW k \in 1 .. Len(hashes), NEW t \in User, NEW s \in 1 .. Len(hashes[k]),
         hashes[k][s].key = t
  PROVE  /\ EntryOf(t, hashes[k][s].value) /\ Entered(t) /\ hashes[k][s].value \in Nat
         /\ hashes[k][s].value \in Listed
         /\ counted[t] \in 1 .. Limit(hashes[k]) - 1
<1>1. hashes[k][s] \in TableEntry /\ TableOK(hashes[k])
  BY TableType
<1>2. hashes[k][s] = [key |-> t, value |-> hashes[k][s].value] /\ hashes[k][s].value \in Nat
  BY <1>1 DEF TableEntry
<1>3. counted[t] \in 1 .. Limit(hashes[k]) - 1
  BY <1>1, UsersPositive DEF TableOK
<1>4. hashes[k][s].value \in Listed
  BY UsersPositive DEF HashInv, ListOK
<1>5. EntryOf(t, hashes[k][s].value)
  BY <1>2 DEF EntryOf
<1>6. Entered(t)
  BY DEF Entered, In
<1> QED
  BY <1>2, <1>3, <1>4, <1>5, <1>6

\* Steps that change neither the tables nor the list.
QuietUser == UNCHANGED <<hashes, nextProducer, producerListTail>>

\* The tables and the list read the same after a quiet step.
LEMMA QuietSame ==
  ASSUME QuietUser
  PROVE  /\ Listed' = Listed /\ Made' = Made
         /\ \A u, p : (EntryOf(u, p)' <=> EntryOf(u, p)) /\ (Entered(u)' <=> Entered(u))
BY DEF QuietUser, Listed, Followed, Made, EntryOf, Entered, In

\* The tables are as good after a quiet step if no entered thread is counted anew.
LEMMA QuietTables ==
  ASSUME HashInv, QuietUser, NEW t \in User, Others(t), counted'[t] = counted[t] \/ ~Entered(t)
  PROVE  TablesOK'
<1>1. \A k \in 1 .. Len(hashes) : TableOK(hashes[k])'
  <2> SUFFICES ASSUME NEW k \in 1 .. Len(hashes) PROVE TableOK(hashes[k])'
    OBVIOUS
  <2>1. TableOK(hashes[k]) /\ hashes'[k] = hashes[k]
    BY TableType DEF QuietUser
  <2>2. ASSUME NEW s \in 1 .. Len(hashes[k]), hashes[k][s].key # 0
        PROVE  counted'[hashes[k][s].key] = counted[hashes[k][s].key]
    <3>1. hashes[k][s].key \in User
      BY <2>1, <2>2 DEF TableOK
    <3>2. CASE hashes[k][s].key = t
      BY <3>2 DEF Entered, In
    <3> QED
      BY <3>1, <3>2 DEF Others
  <2> QED
    BY <2>1, <2>2 DEF TableOK
<1>2. \A k, l \in 1 .. Len(hashes) : k <= l => Len(hashes[k]) <= Len(hashes[l])
  BY DEF HashInv, TablesOK
<1> QED
  BY <1>1, <1>2 DEF TablesOK, QuietUser

\* What the other threads have found out stays true.
LEMMA QuietSearch ==
  ASSUME HashInv, QuietUser, NEW t \in User, Others(t), NEW u \in User, u # t
  PROVE  SearchOK(u)'
<1>1. SearchOK(u) /\ user'[u] = user[u] /\ counted'[u] = counted[u] /\ hashes' = hashes
  BY DEF HashInv, Others, QuietUser
<1>2. Entered(u)' <=> Entered(u)
  BY QuietSame
<1> QED
  BY <1>1, <1>2 DEF SearchOK

\* A thread takes a producer without linking one only from its own entry.
LEMMA QuietOwn ==
  ASSUME HashInv, QuietUser, NEW t \in User, Others(t),
         user[t].at \notin {"link", "place"}, user'[t].at # "link",
         user'[t].at = "place" => EntryOf(t, user'[t].p),
         \A p \in returned'[t] : p \in returned[t] \/ EntryOf(t, p)
  PROVE  OwnOK'
<1>1. OwnOK
  BY DEF HashInv
<1>2. ASSUME NEW u \in User, NEW p \in Nat, Owns(u, p)' PROVE Owns(u, p)
  BY <1>2, QuietSame DEF Owns, Others
<1>3. ASSUME NEW u \in User, NEW p \in Nat, Owns(u, p)'
      PROVE  p \in Made' /\ (user'[u].at \in {"link", "place"} \/ Entered(u)')
  BY <1>1, <1>2, <1>3, QuietSame DEF OwnOK, Others
<1> QED
  BY <1>1, <1>2, <1>3 DEF OwnOK

\* What the threads hold is listed after a quiet step as before.
LEMMA QuietList ==
  ASSUME HashInv, QuietUser, NEW t \in User, Others(t),
         user'[t].at # "link",
         user'[t].at = "place" => user'[t].p \in Listed,
         returned'[t] \subseteq Listed
  PROVE  ListOK'
<1>1. ListOK /\ Listed' = Listed /\ Made' = Made
  BY QuietSame DEF HashInv
<1>2. hashes' = hashes /\ nextProducer' = nextProducer /\ producerListTail' = producerListTail
  BY DEF QuietUser
<1>3. \A u \in User : user'[u].at \in {"link", "place"} =>
        user'[u] = user[u] \/ (u = t /\ user'[u].at = "place" /\ user'[u].p \in Listed)
  BY DEF Others
<1>4. \A u \in User : returned'[u] \subseteq Listed
  BY <1>1 DEF Others, ListOK
<1>5. \A u \in User : user'[u].at = "link" => user'[u] = user[u]
  BY DEF Others
<1>6. \A u \in User : user'[u].at = "place" => user'[u].p \in Listed
  BY <1>1, <1>3 DEF ListOK
<1>7. (\A u \in User : user[u].at = "link" =>
       /\ user[u].prevTail \in 0 .. Len(nextProducer)
       /\ producerListTail # user[u].p
       /\ \A p \in Made : nextProducer[p] # user[u].p
       /\ \A v \in User : user[v].at = "link" => user[v].prevTail # user[u].p)'
  BY <1>1, <1>2, <1>5 DEF ListOK
<1> QED
  BY <1>1, <1>2, <1>4, <1>6, <1>7 DEF ListOK

\* The numbers are kept: nobody else counts while a thread does, since fetch_add is
\* one atomic operation.
LEMMA CountFinite ==
  ASSUME HashTypes, NEW S \in SUBSET User
  PROVE  IsFiniteSet(S) /\ Cardinality(S) \in Nat
BY FS_Subset, FS_CardinalityType, ProducerHashAssumption

\* Most steps count nothing.
LEMMA CountSame ==
  ASSUME HashInv, UNCHANGED <<implicitProducerHashCount, counted>>
  PROVE  CountOK'
BY DEF HashInv, CountOK

\* The count of threads is never negative.
LEMMA CountNat ==
  ASSUME HashInv
  PROVE  implicitProducerHashCount \in Nat
<1>1. {t \in User : counted[t] > 0} \in SUBSET User
  OBVIOUS
<1> QED
  BY <1>1, CountFinite DEF HashInv, CountOK

\* fetch_add gives a thread a number that no more than as many threads have used.
LEMMA CountAdded ==
  ASSUME HashInv, NEW t \in User, counted[t] = 0,
         counted' \in [User -> Nat], \A u \in User \ {t} : counted'[u] = counted[u],
         counted'[t] = implicitProducerHashCount + 1,
         implicitProducerHashCount' = implicitProducerHashCount + 1
  PROVE  CountOK'
<1> USE CountNat
<1>t. HashTypes /\ counted \in [User -> Nat] /\ CountOK
  BY DEF HashInv, HashTypes
<1>1. PICK A \in SUBSET User : A = {u \in User : counted[u] > 0}
  OBVIOUS
<1>2. PICK B \in SUBSET User : B = {u \in User : counted'[u] > 0}
  OBVIOUS
<1>3. IsFiniteSet(A) /\ implicitProducerHashCount = Cardinality(A)
  BY <1>1, <1>t, CountFinite DEF CountOK
<1>4. B = A \cup {t} /\ t \notin A
  BY <1>1, <1>2, <1>t
<1>5. Cardinality(B) = Cardinality(A) + 1
  BY <1>3, <1>4, FS_AddElement
<1>6. ASSUME NEW m \in Nat PROVE Cardinality({u \in User : counted'[u] \in 1 .. m}) <= m
  <2>1. PICK C \in SUBSET User : C = {u \in User : counted[u] \in 1 .. m}
    OBVIOUS
  <2>2. PICK D \in SUBSET User : D = {u \in User : counted'[u] \in 1 .. m}
    OBVIOUS
  <2>3. IsFiniteSet(C) /\ IsFiniteSet(D) /\ IsFiniteSet(B)
    BY <1>t, CountFinite
  <2>4. Cardinality(C) <= m
    BY <1>t, <2>1 DEF CountOK
  <2>5. CASE m < implicitProducerHashCount + 1
    <3>1. D = C
      BY <2>1, <2>2, <2>5, <1>t
    <3> QED
      BY <3>1, <2>2, <2>4
  <2>6. CASE m >= implicitProducerHashCount + 1
    <3>1. D \subseteq B
      BY <1>2, <2>2
    <3>2. Cardinality(D) <= Cardinality(B)
      BY <3>1, <2>3, FS_Subset
    <3>3. Cardinality(D) \in Nat /\ Cardinality(B) \in Nat
      BY <2>3, FS_CardinalityType
    <3> QED
      BY <3>2, <3>3, <1>3, <1>5, <2>2, <2>6
  <2> QED
    BY <2>5, <2>6
<1> QED
  BY <1>2, <1>3, <1>5, <1>6 DEF CountOK

\* A thread that gives up takes its number back.
LEMMA CountRemoved ==
  ASSUME HashInv, NEW t \in User, counted[t] > 0,
         counted' \in [User -> Nat], \A u \in User \ {t} : counted'[u] = counted[u],
         counted'[t] = 0,
         implicitProducerHashCount' = implicitProducerHashCount - 1
  PROVE  CountOK'
<1> USE CountNat
<1>t. HashTypes /\ counted \in [User -> Nat] /\ CountOK
  BY DEF HashInv, HashTypes
<1>1. PICK A \in SUBSET User : A = {u \in User : counted[u] > 0}
  OBVIOUS
<1>2. PICK B \in SUBSET User : B = {u \in User : counted'[u] > 0}
  OBVIOUS
<1>3. IsFiniteSet(A) /\ implicitProducerHashCount = Cardinality(A)
  BY <1>1, <1>t, CountFinite DEF CountOK
<1>4. B = A \ {t} /\ t \in A
  BY <1>1, <1>2, <1>t
<1>5. Cardinality(B) = Cardinality(A) - 1
  BY <1>3, <1>4, FS_RemoveElement
<1>6. ASSUME NEW m \in Nat PROVE Cardinality({u \in User : counted'[u] \in 1 .. m}) <= m
  <2>1. PICK C \in SUBSET User : C = {u \in User : counted[u] \in 1 .. m}
    OBVIOUS
  <2>2. PICK D \in SUBSET User : D = {u \in User : counted'[u] \in 1 .. m}
    OBVIOUS
  <2>3. IsFiniteSet(C) /\ IsFiniteSet(D)
    BY <1>t, CountFinite
  <2>4. Cardinality(C) <= m
    BY <1>t, <2>1 DEF CountOK
  <2>5. D \subseteq C
    BY <2>1, <2>2, <1>t
  <2>6. Cardinality(D) <= Cardinality(C) /\ Cardinality(D) \in Nat /\ Cardinality(C) \in Nat
    BY <2>3, <2>5, FS_Subset, FS_CardinalityType
  <2> QED
    BY <2>2, <2>4, <2>6
<1> QED
  BY <1>2, <1>3, <1>5, <1>6 DEF CountOK

-----------------------------------------------------------------------------
\* What the invariant says of a thread that is about to take a step.
LEMMA Known ==
  ASSUME HashInv, NEW t \in User
  PROVE  /\ user[t] \in Local /\ counted[t] \in Nat /\ returned[t] \in SUBSET Nat
         /\ SearchOK(t)
         /\ Len(hashes) \in Nat /\ Len(hashes) > 0 /\ Len(nextProducer) \in Nat
         /\ returned[t] \subseteq Listed
         /\ user \in [User -> Local]
BY DEF HashInv, HashTypes, ListOK

\* A quiet step that counts nothing.
LEMMA QuietUserStep ==
  ASSUME HashInv, QuietUser, NEW t \in User, Others(t),
         UNCHANGED <<implicitProducerHashCount, counted>>,
         implicitProducerHashResizeInProgress' \in BOOLEAN,
         user[t].at \notin {"link", "place"}, user'[t].at # "link",
         user'[t].at = "place" => EntryOf(t, user'[t].p) /\ user'[t].p \in Listed,
         \A p \in returned'[t] : p \in returned[t] \/ (EntryOf(t, p) /\ p \in Listed),
         SearchOK(t)', LockOK'
  PROVE  HashInv'
<1>1. HashTypes'
  BY DEF HashInv, HashTypes, QuietUser, Others
<1>2. TablesOK'
  BY QuietTables
<1>3. \A u \in User : SearchOK(u)'
  BY QuietSearch
<1>4. OwnOK'
  BY QuietOwn
<1>5. returned'[t] \subseteq Listed
  BY Known
<1>6. ListOK'
  BY <1>5, QuietList
<1>7. CountOK'
  BY CountSame
<1> QED
  BY <1>1, <1>2, <1>3, <1>4, <1>6, <1>7 DEF HashInv

\* A step that leaves the flag alone and does not enter or leave the locked part.
LEMMA LockSame ==
  ASSUME HashInv, NEW t \in User, Others(t), hashes' = hashes,
         UNCHANGED implicitProducerHashResizeInProgress,
         user'[t].at \notin {"allocate", "unlock"}
  PROVE  LockOK'
BY DEF HashInv, LockOK, Others

\* get_or_add_implicit_producer starts at the current table.
LEMMA GetProducerStep ==
  ASSUME HashInv, NEW t \in User, get_or_add_implicit_producer(t)
  PROVE  HashInv'
<1>1. PICK w : w = [Resting EXCEPT !.at = "find", !.main = Len(hashes), !.hash = Len(hashes)]
  OBVIOUS
<1>2. w.at = "find" /\ w.main = Len(hashes) /\ w.hash = Len(hashes) /\ w \in Local
  BY <1>1, Known DEF Resting, Local
<1>3. user' = [user EXCEPT ![t] = w] /\ user[t].at = "idle" /\ QuietUser
      /\ UNCHANGED <<implicitProducerHashCount, implicitProducerHashResizeInProgress, returned, counted>>
  BY <1>1 DEF get_or_add_implicit_producer, ugoto, QuietUser
<1>4. Others(t) /\ user'[t] = w
  BY <1>2, <1>3 DEF HashInv, HashTypes, Others
<1>5. SearchOK(t)'
  <2>1. SearchOK(t) /\ hashes' = hashes /\ (Entered(t)' <=> Entered(t)) /\ counted'[t] = counted[t]
    BY <1>3, Known, QuietSame DEF QuietUser
  <2>2. \A k \in w.hash + 1 .. Len(hashes) : ~In(hashes[k], t)
    BY <1>2, Known
  <2> QED
    BY <1>2, <1>3, <1>4, <2>1, <2>2, Known DEF SearchOK, Counting, Making
<1>6. LockOK'
  BY <1>2, <1>3, <1>4, LockSame DEF QuietUser
<1>7. implicitProducerHashResizeInProgress' \in BOOLEAN
  BY <1>3 DEF HashInv, HashTypes
<1> QED
  BY <1>2, <1>3, <1>4, <1>5, <1>6, <1>7, QuietUserStep

\* find: the thread has its producer, goes to the next older table, or is in none.
LEMMA FindStep ==
  ASSUME HashInv, NEW t \in User, find(t)
  PROVE  HashInv'
<1>1. PICK k : k = user[t].hash
  OBVIOUS
<1>2. user[t].at = "find" /\ QuietUser
      /\ UNCHANGED <<implicitProducerHashCount, implicitProducerHashResizeInProgress, counted>>
  BY DEF find, QuietUser
<1>3. /\ SearchOK(t) /\ k \in 1 .. Len(hashes) /\ user[t].main \in 1 .. Len(hashes)
      /\ k <= user[t].main /\ k \in Nat
      /\ \A l \in k + 1 .. Len(hashes) : ~In(hashes[l], t)
      /\ (counted[t] > 0 <=> Entered(t))
  BY <1>1, <1>2, Known DEF SearchOK
<1>4. PICK s \in 1 .. Len(hashes[k]) :
       /\ StopsAt(hashes[k], t, s, {0, t})
       /\ \/ /\ hashes[k][s].key = t /\ k = user[t].main
             /\ answer(t, hashes[k][s].value)
          \/ /\ hashes[k][s].key = t /\ k # user[t].main
             /\ ugoto(t, [Resting EXCEPT !.at = "place", !.main = user[t].main,
                                         !.p = hashes[k][s].value])
             /\ UNCHANGED returned
          \/ /\ hashes[k][s].key = 0
             /\ ugoto(t, IF k > 1 THEN [user[t] EXCEPT !.hash = @ - 1]
                         ELSE [Resting EXCEPT !.at = "count", !.main = user[t].main])
             /\ UNCHANGED returned
  BY <1>1 DEF find
<1>5. implicitProducerHashResizeInProgress' \in BOOLEAN
  BY <1>2 DEF HashInv, HashTypes
<1>6. hashes' = hashes /\ (Entered(t)' <=> Entered(t)) /\ counted'[t] = counted[t]
      /\ counted' \in [User -> Nat] /\ user \in [User -> Local] /\ returned \in [User -> SUBSET Nat]
  BY <1>2, QuietSame DEF QuietUser, HashInv, HashTypes
<1>7. CASE hashes[k][s].key = t /\ k = user[t].main /\ answer(t, hashes[k][s].value)
  <2>1. PICK v : v = hashes[k][s].value
    OBVIOUS
  <2>2. v \in Nat /\ EntryOf(t, v) /\ v \in Listed
    BY <1>3, <1>7, <2>1, Found
  <2>3. Resting \in Local /\ Resting.at = "idle"
    BY DEF Resting, Local
  <2>4. user' = [user EXCEPT ![t] = Resting] /\ returned' = [returned EXCEPT ![t] = @ \cup {v}]
    BY <1>7, <2>1 DEF answer, ugoto
  <2>5. Others(t) /\ user'[t] = Resting /\ returned'[t] = returned[t] \cup {v}
    BY <1>2, <1>6, <2>2, <2>3, <2>4 DEF Others
  <2>6. SearchOK(t)'
    BY <1>3, <1>6, <2>3, <2>5 DEF SearchOK, Counting, Making
  <2>7. LockOK'
    BY <1>2, <1>6, <2>3, <2>5, LockSame
  <2> QED
    BY <1>2, <1>5, <2>2, <2>3, <2>5, <2>6, <2>7, QuietUserStep
<1>8. CASE /\ hashes[k][s].key = t /\ k # user[t].main
           /\ ugoto(t, [Resting EXCEPT !.at = "place", !.main = user[t].main,
                                       !.p = hashes[k][s].value])
           /\ UNCHANGED returned
  <2>1. PICK v : v = hashes[k][s].value
    OBVIOUS
  <2>2. v \in Nat /\ EntryOf(t, v) /\ v \in Listed /\ counted[t] \in 1 .. Limit(hashes[k]) - 1
    BY <1>3, <1>8, <2>1, Found
  <2>3. PICK w : w = [Resting EXCEPT !.at = "place", !.main = user[t].main, !.p = v]
    OBVIOUS
  <2>4. w \in Local /\ w.at = "place" /\ w.main = user[t].main /\ w.p = v
    BY <1>3, <2>2, <2>3, Known DEF Resting, Local, Making
  <2>5. user' = [user EXCEPT ![t] = w] /\ returned' = returned
    BY <1>8, <2>1, <2>3 DEF ugoto
  <2>6. Others(t) /\ user'[t] = w
    BY <1>2, <1>6, <2>4, <2>5 DEF Others
  <2>7. ~In(hashes[w.main], t)
    BY <1>3, <1>8, <2>4
  <2>8. counted[t] \in 1 .. Limit(hashes[w.main]) - 1
    <3>1. Len(hashes[k]) \in Nat /\ Len(hashes[w.main]) \in Nat
      BY <1>3, <2>4, TableType
    <3>2. Len(hashes[k]) <= Len(hashes[w.main])
      BY <1>3, <2>4 DEF HashInv, TablesOK
    <3>3. PICK a \in Nat, b \in Nat : a = Len(hashes[k]) /\ b = Len(hashes[w.main]) /\ a <= b
      BY <3>1, <3>2
    <3>4. a \div 2 + a \div 4 <= b \div 2 + b \div 4
          /\ a \div 2 + a \div 4 \in Nat /\ b \div 2 + b \div 4 \in Nat
      BY <3>3, LimitMonotone
    <3>5. Limit(hashes[k]) <= Limit(hashes[w.main]) /\ Limit(hashes[k]) \in Nat
          /\ Limit(hashes[w.main]) \in Nat
      BY <3>3, <3>4 DEF Limit
    <3> QED
      BY <2>2, <3>5
  <2>9. SearchOK(t)'
    BY <1>3, <1>6, <2>4, <2>6, <2>7, <2>8 DEF SearchOK, Counting, Making
  <2>10. LockOK'
    BY <1>2, <1>6, <2>4, <2>6, LockSame
  <2> QED
    BY <1>2, <1>5, <2>2, <2>4, <2>5, <2>6, <2>9, <2>10, QuietUserStep
<1>9. CASE /\ hashes[k][s].key = 0
           /\ ugoto(t, IF k > 1 THEN [user[t] EXCEPT !.hash = @ - 1]
                       ELSE [Resting EXCEPT !.at = "count", !.main = user[t].main])
           /\ UNCHANGED returned
  <2>1. ~In(hashes[k], t)
    BY <1>3, <1>4, <1>9, NotFound
  <2>2. \A l \in k .. Len(hashes) : ~In(hashes[l], t)
    BY <1>3, <2>1
  <2>3. PICK w : w = IF k > 1 THEN [user[t] EXCEPT !.hash = @ - 1]
                     ELSE [Resting EXCEPT !.at = "count", !.main = user[t].main]
    OBVIOUS
  <2>4. w \in Local /\ w.main = user[t].main
        /\ ((w.at = "find" /\ w.hash = k - 1 /\ k > 1) \/ (w.at = "count" /\ k = 1))
    <3>1. CASE k > 1
      <4>1. w = [user[t] EXCEPT !.hash = k - 1] /\ k - 1 \in Nat
        BY <1>1, <1>3, <2>3, <3>1
      <4> QED
        BY <1>2, <3>1, <4>1, Known DEF Local
    <3>2. CASE ~(k > 1)
      <4>1. w = [Resting EXCEPT !.at = "count", !.main = user[t].main] /\ k = 1
        BY <1>3, <2>3, <3>2
      <4> QED
        BY <1>3, <4>1, Known DEF Local, Resting
    <3> QED
      BY <3>1, <3>2
  <2>5. user' = [user EXCEPT ![t] = w] /\ returned' = returned
    BY <1>9, <2>3 DEF ugoto
  <2>6. Others(t) /\ user'[t] = w
    BY <1>2, <1>6, <2>4, <2>5 DEF Others
  <2>7. w.at = "count" => ~Entered(t)
    BY <2>2, <2>4 DEF Entered
  <2>8. SearchOK(t)'
    BY <1>3, <1>6, <2>2, <2>4, <2>6, <2>7 DEF SearchOK, Counting, Making
  <2>9. LockOK'
    BY <1>2, <1>6, <2>4, <2>6, LockSame
  <2> QED
    BY <1>2, <1>5, <2>4, <2>5, <2>6, <2>8, <2>9, QuietUserStep
<1> QED
  BY <1>4, <1>7, <1>8, <1>9

\* addCount: the thread is in no table and had not been counted.
LEMMA AddCountStep ==
  ASSUME HashInv, NEW t \in User, addCount(t)
  PROVE  HashInv'
<1>1. PICK n : n = implicitProducerHashCount + 1
  OBVIOUS
<1>2. n \in Nat /\ n > 0
  BY <1>1, CountNat
<1>3. PICK w : w = [user[t] EXCEPT !.at = "resize", !.n = n]
  OBVIOUS
<1>4. user[t].at = "count" /\ QuietUser /\ user' = [user EXCEPT ![t] = w]
      /\ implicitProducerHashCount' = n /\ counted' = [counted EXCEPT ![t] = n]
      /\ UNCHANGED <<implicitProducerHashResizeInProgress, returned>>
  BY <1>1, <1>3 DEF addCount, ugoto, QuietUser
<1>5. w \in Local /\ w.at = "resize" /\ w.n = n /\ w.main = user[t].main
  BY <1>2, <1>3, Known DEF Local, Counting
<1>6. Others(t) /\ user'[t] = w /\ counted'[t] = n
  BY <1>2, <1>4, <1>5 DEF HashInv, HashTypes, Others
<1>7. ~Entered(t) /\ user[t].main \in 1 .. Len(hashes) /\ counted[t] = 0
  BY <1>4, Known DEF SearchOK
<1>8. hashes' = hashes /\ ~Entered(t)'
  BY <1>4, <1>7, QuietSame DEF QuietUser
<1>9. SearchOK(t)'
  BY <1>2, <1>5, <1>6, <1>7, <1>8 DEF SearchOK, Counting, Making
<1>10. \A u \in User : SearchOK(u)'
  BY <1>4, <1>6, <1>9, QuietSearch
<1>11. TablesOK'
  BY <1>4, <1>6, <1>7, QuietTables
<1>12. OwnOK'
  BY <1>4, <1>5, <1>6, QuietOwn
<1>13. ListOK'
  BY <1>4, <1>5, <1>6, Known, QuietList
<1>14. CountOK'
  BY <1>1, <1>4, <1>6, <1>7, CountAdded DEF Others
<1>15. LockOK'
  BY <1>4, <1>5, <1>6, <1>8, LockSame
<1>16. HashTypes'
  BY <1>2, <1>4, <1>6 DEF HashInv, HashTypes, QuietUser, Others
<1> QED
  BY <1>10, <1>11, <1>12, <1>13, <1>14, <1>15, <1>16 DEF HashInv

\* resize: the flag admits one thread.
LEMMA ResizeStep ==
  ASSUME HashInv, NEW t \in User, resize(t)
  PROVE  HashInv'
<1>1. PICK mine \in BOOLEAN :
        mine = (user[t].n >= Len(Main(t)) \div 2 /\ ~implicitProducerHashResizeInProgress)
  OBVIOUS
<1>2. PICK w : w = [user[t] EXCEPT !.at = IF mine THEN "allocate" ELSE "room",
                                   !.main = IF mine THEN Len(hashes) ELSE @]
  OBVIOUS
<1>3. user[t].at = "resize" /\ QuietUser /\ user' = [user EXCEPT ![t] = w]
      /\ UNCHANGED <<implicitProducerHashCount, returned, counted>>
  BY <1>1, <1>2 DEF resize, ugoto, QuietUser
<1>4. w \in Local /\ w.n = user[t].n
      /\ ((mine /\ w.at = "allocate" /\ w.main = Len(hashes))
            \/ (~mine /\ w.at = "room" /\ w.main = user[t].main))
  BY <1>2, Known DEF Local, Counting
<1>5. Others(t) /\ user'[t] = w
  BY <1>3, <1>4 DEF HashInv, HashTypes, Others
<1>6. hashes' = hashes /\ (Entered(t)' <=> Entered(t)) /\ counted' = counted /\ SearchOK(t)
  BY <1>3, QuietSame, Known DEF QuietUser
<1>7. SearchOK(t)'
  BY <1>3, <1>4, <1>5, <1>6, Known DEF SearchOK, Counting, Making
<1>8. implicitProducerHashResizeInProgress' \in BOOLEAN
  BY DEF resize
<1>9. LockOK'
  <2>1. CASE mine
    <3>1. implicitProducerHashResizeInProgress' /\ ~implicitProducerHashResizeInProgress
      BY <1>1, <2>1 DEF resize
    <3> QED
      BY <3>1, <2>1, <1>4, <1>5, <1>6 DEF HashInv, LockOK, Others
  <2>2. CASE ~mine
    <3>1. implicitProducerHashResizeInProgress => implicitProducerHashResizeInProgress'
      BY DEF resize
    <3> QED
      BY <3>1, <2>2, <1>4, <1>5, <1>6 DEF HashInv, LockOK, Others
  <2> QED
    BY <2>1, <2>2
<1> QED
  BY <1>3, <1>4, <1>5, <1>7, <1>8, <1>9, QuietUserStep

\* unlock: only the thread that set the flag clears it.
LEMMA UnlockStep ==
  ASSUME HashInv, NEW t \in User, unlock(t)
  PROVE  HashInv'
<1>1. PICK w : w = [user[t] EXCEPT !.at = "room"]
  OBVIOUS
<1>2. user[t].at = "unlock" /\ QuietUser /\ user' = [user EXCEPT ![t] = w]
      /\ UNCHANGED <<implicitProducerHashCount, returned, counted>>
  BY <1>1 DEF unlock, ugoto, QuietUser
<1>3. w \in Local /\ w.n = user[t].n /\ w.at = "room" /\ w.main = user[t].main
  BY <1>1, Known DEF Local, Counting
<1>4. Others(t) /\ user'[t] = w
  BY <1>2, <1>3 DEF HashInv, HashTypes, Others
<1>5. hashes' = hashes /\ (Entered(t)' <=> Entered(t)) /\ counted' = counted /\ SearchOK(t)
  BY <1>2, QuietSame, Known DEF QuietUser
<1>6. SearchOK(t)'
  BY <1>2, <1>3, <1>4, <1>5, Known DEF SearchOK, Counting, Making
<1>7. implicitProducerHashResizeInProgress' \in BOOLEAN
  BY DEF unlock
<1>8. LockOK'
  BY <1>2, <1>3, <1>4 DEF HashInv, LockOK, Others
<1> QED
  BY <1>2, <1>3, <1>4, <1>6, <1>7, <1>8, QuietUserStep

\* outOfMemory: the thread that gives up leaves nothing behind.
LEMMA OutOfMemoryStep ==
  ASSUME HashInv, NEW t \in User, outOfMemory(t)
  PROVE  HashInv'
<1>1. Resting \in Local /\ Resting.at = "idle"
  BY DEF Resting, Local
<1>2. user[t].at \in {"allocate", "create"} /\ QuietUser /\ user' = [user EXCEPT ![t] = Resting]
      /\ implicitProducerHashCount' = implicitProducerHashCount - 1
      /\ counted' = [counted EXCEPT ![t] = 0] /\ UNCHANGED returned
  BY DEF outOfMemory, ugoto, QuietUser
<1>3. Others(t) /\ user'[t] = Resting /\ counted'[t] = 0
  BY <1>1, <1>2 DEF HashInv, HashTypes, Others
<1>4. ~Entered(t) /\ counted[t] > 0
  BY <1>2, Known DEF SearchOK, Counting, Making
<1>5. hashes' = hashes /\ ~Entered(t)'
  BY <1>2, <1>4, QuietSame DEF QuietUser
<1>6. SearchOK(t)'
  BY <1>1, <1>3, <1>5 DEF SearchOK, Counting, Making
<1>7. \A u \in User : SearchOK(u)'
  BY <1>2, <1>3, <1>6, QuietSearch
<1>8. TablesOK'
  BY <1>2, <1>3, <1>4, QuietTables
<1>9. OwnOK'
  BY <1>1, <1>2, <1>3, QuietOwn
<1>10. ListOK'
  BY <1>1, <1>2, <1>3, Known, QuietList
<1>11. CountOK'
  BY <1>2, <1>3, <1>4, CountRemoved DEF Others
<1>12. LockOK'
  <2>1. CASE user[t].at = "allocate"
    BY <1>1, <1>3, <2>1 DEF HashInv, LockOK, Others
  <2>2. CASE user[t].at = "create"
    <3>1. implicitProducerHashResizeInProgress => implicitProducerHashResizeInProgress'
      BY <2>2 DEF outOfMemory
    <3> QED
      BY <1>1, <1>3, <1>5, <3>1 DEF HashInv, LockOK, Others
  <2> QED
    BY <1>2, <2>1, <2>2
<1>13. HashTypes'
  <2>1. implicitProducerHashResizeInProgress' \in BOOLEAN
    BY DEF outOfMemory
  <2> QED
    BY <1>2, <1>3, <2>1 DEF HashInv, HashTypes, QuietUser, Others
<1> QED
  BY <1>7, <1>8, <1>9, <1>10, <1>11, <1>12, <1>13 DEF HashInv

\* room: the thread goes on only if the table has room for as many as it has counted.
LEMMA RoomStep ==
  ASSUME HashInv, NEW t \in User, room(t)
  PROVE  HashInv'
<1>1. PICK w : w = IF user[t].n < Limit(Main(t))
                   THEN [Resting EXCEPT !.at = "create", !.main = user[t].main]
                   ELSE [user[t] EXCEPT !.at = "resize", !.main = Len(hashes)]
  OBVIOUS
<1>2. user[t].at = "room" /\ QuietUser /\ user' = [user EXCEPT ![t] = w]
      /\ UNCHANGED <<implicitProducerHashCount, implicitProducerHashResizeInProgress, returned, counted>>
  BY <1>1 DEF room, ugoto, QuietUser, Limit
<1>3. SearchOK(t) /\ user[t].main \in 1 .. Len(hashes) /\ ~Entered(t) /\ user[t].n = counted[t]
      /\ counted[t] > 0
  BY <1>2, Known DEF SearchOK, Counting
<1>4. w \in Local
      /\ ((w.at = "create" /\ w.main = user[t].main /\ counted[t] < Limit(hashes[user[t].main]))
            \/ (w.at = "resize" /\ w.main = Len(hashes) /\ w.n = counted[t]))
  BY <1>1, <1>3, Known DEF Local, Counting, Making, Resting, Main
<1>5. Others(t) /\ user'[t] = w
  BY <1>2, <1>4 DEF HashInv, HashTypes, Others
<1>6. hashes' = hashes /\ ~Entered(t)' /\ counted' = counted
  BY <1>2, <1>3, QuietSame DEF QuietUser
<1>7. Limit(hashes[user[t].main]) \in Nat
  <2>1. PICK a \in Nat : a = Len(hashes[user[t].main])
    BY <1>3, TableType
  <2>2. a \div 2 + a \div 4 \in Nat
    OBVIOUS
  <2> QED
    BY <2>1, <2>2 DEF Limit
<1>8. SearchOK(t)'
  BY <1>3, <1>4, <1>5, <1>6, <1>7, Known DEF SearchOK, Counting, Making
<1>9. LockOK'
  BY <1>2, <1>4, <1>5, <1>6, LockSame
<1>10. implicitProducerHashResizeInProgress' \in BOOLEAN
  BY <1>2 DEF HashInv, HashTypes
<1> QED
  BY <1>2, <1>4, <1>5, <1>8, <1>9, <1>10, QuietUserStep

\* A new table is appended: the searches go on in the tables before it.
LEMMA GrowTableStep ==
  ASSUME HashInv, NEW t \in User, NEW c \in Nat, user[t].at = "allocate",
         user[t].n \in Nat, user[t].n >= Len(Main(t)) \div 2, user[t].n < c \div 2,
         hashes' = Append(hashes, NewTable(c)), NEW w \in Local,
         w.at = "unlock", w.main = Len(hashes) + 1, w.n = user[t].n,
         user' = [user EXCEPT ![t] = w],
         UNCHANGED <<implicitProducerHashCount, implicitProducerHashResizeInProgress,
                     producerListTail, nextProducer, returned, counted>>
  PROVE  HashInv'
<1>0. PICK L \in Nat : L = Len(hashes) /\ L > 0
  BY Known
<1>1. HashTypes /\ TablesOK /\ LockOK /\ OwnOK /\ ListOK /\ SearchOK(t)
  BY Known DEF HashInv
<1>2. PICK T : T = NewTable(c)
  OBVIOUS
<1>3. T \in Seq(TableEntry) /\ Len(T) = c /\ (\A s \in 1 .. c : T[s] = Empty) /\ c > 0
  <2>1. c > 0
    BY Z3
  <2>2. Empty \in TableEntry
    BY DEF Empty, TableEntry
  <2> QED
    BY <1>2, <2>1, <2>2 DEF NewTable
<1>4. /\ hashes' \in Seq(Seq(TableEntry)) /\ Len(hashes') = L + 1
      /\ \A k \in 1 .. L : hashes'[k] = hashes[k]
      /\ hashes'[L + 1] = T
  BY <1>0, <1>1, <1>2, <1>3, AppendProperties DEF HashTypes
<1>5. \A u \in User : ~In(T, u)
  BY <1>3, UsersPositive DEF In, Empty
<1>6. \A u \in User : Entered(u)' <=> Entered(u)
  <2> SUFFICES ASSUME NEW u \in User PROVE Entered(u)' <=> Entered(u)
    OBVIOUS
  <2>1. Entered(u)' <=> \E k \in 1 .. L + 1 : In(hashes'[k], u)
    BY <1>4 DEF Entered
  <2>2. Entered(u) <=> \E k \in 1 .. L : In(hashes[k], u)
    BY <1>0 DEF Entered
  <2>3. \A k \in 1 .. L + 1 : k \in 1 .. L \/ k = L + 1
    BY <1>0
  <2>4. \A k \in 1 .. L : k \in 1 .. L + 1 /\ hashes'[k] = hashes[k]
    BY <1>4
  <2>5. ~In(hashes'[L + 1], u)
    BY <1>4, <1>5
  <2>6. ASSUME Entered(u)' PROVE Entered(u)
    <3>1. PICK k \in 1 .. L + 1 : In(hashes'[k], u)
      BY <2>1, <2>6
    <3>2. k \in 1 .. L
      BY <2>3, <2>5, <3>1
    <3> QED
      BY <2>2, <2>4, <3>1, <3>2
  <2>7. ASSUME Entered(u) PROVE Entered(u)'
    BY <2>1, <2>2, <2>4, <2>7
  <2> QED
    BY <2>6, <2>7
<1>7. \A u \in User : \A p \in Nat : EntryOf(u, p)' <=> EntryOf(u, p)
  <2> SUFFICES ASSUME NEW u \in User, NEW p \in Nat PROVE EntryOf(u, p)' <=> EntryOf(u, p)
    OBVIOUS
  <2>1. \A s \in 1 .. Len(T) : T[s] # [key |-> u, value |-> p]
    BY <1>3, UsersPositive DEF Empty
  <2>2. EntryOf(u, p)' <=> \E k \in 1 .. L + 1 : \E s \in 1 .. Len(hashes'[k]) :
                             hashes'[k][s] = [key |-> u, value |-> p]
    BY <1>4 DEF EntryOf
  <2>3. EntryOf(u, p) <=> \E k \in 1 .. L : \E s \in 1 .. Len(hashes[k]) :
                            hashes[k][s] = [key |-> u, value |-> p]
    BY <1>0 DEF EntryOf
  <2>4. \A k \in 1 .. L + 1 : k \in 1 .. L \/ k = L + 1
    BY <1>0
  <2>5. \A k \in 1 .. L : k \in 1 .. L + 1 /\ hashes'[k] = hashes[k]
    BY <1>4
  <2>6. \A s \in 1 .. Len(hashes'[L + 1]) : hashes'[L + 1][s] # [key |-> u, value |-> p]
    BY <1>4, <2>1
  <2>7. ASSUME EntryOf(u, p)' PROVE EntryOf(u, p)
    <3>1. PICK k \in 1 .. L + 1 : \E s \in 1 .. Len(hashes'[k]) :
                                    hashes'[k][s] = [key |-> u, value |-> p]
      BY <2>2, <2>7
    <3>2. k \in 1 .. L
      BY <2>4, <2>6, <3>1
    <3> QED
      BY <2>3, <2>5, <3>1, <3>2
  <2>8. ASSUME EntryOf(u, p) PROVE EntryOf(u, p)'
    <3>1. PICK k \in 1 .. L : \E s \in 1 .. Len(hashes[k]) :
                                hashes[k][s] = [key |-> u, value |-> p]
      BY <2>3, <2>8
    <3> QED
      BY <2>2, <2>5, <3>1
  <2> QED
    BY <2>7, <2>8
<1>8. Listed' = Listed /\ Made' = Made
  BY DEF Listed, Followed, Made
<1>9. user \in [User -> Local] /\ user' \in [User -> Local] /\ user'[t] = w
      /\ \A u \in User \ {t} : user'[u] = user[u]
  BY <1>1 DEF HashTypes
<1>10. HashTypes'
  BY <1>0, <1>1, <1>4, <1>9 DEF HashTypes
<1>11. user[t].main = L
  BY <1>0, <1>1 DEF LockOK
<1>12. TablesOK'
  <2>1. TableOK(T)
    BY <1>3 DEF TableOK, Empty
  <2>2. \A h : TableOK(h)' <=> TableOK(h)
    BY DEF TableOK
  <2>3. ASSUME NEW k \in 1 .. L PROVE Len(hashes[k]) <= c
    <3>1. PICK a \in Nat, b \in Nat : a = Len(hashes[k]) /\ b = Len(hashes[L])
      BY <1>0, TableType
    <3>2. a <= b
      BY <1>0, <1>1, <3>1 DEF TablesOK
    <3>3. PICK n \in Nat : n = user[t].n
      OBVIOUS
    <3>4. n >= b \div 2 /\ n < c \div 2
      BY <1>11, <3>1, <3>3 DEF Main
    <3>5. b <= c
      BY <3>4
    <3> QED
      BY <3>1, <3>2, <3>5
  <2>4. \A k \in 1 .. L : TableOK(hashes[k])
    BY <1>0, <1>1 DEF TablesOK
  <2>5. \A k \in 1 .. L + 1 : k \in 1 .. L \/ k = L + 1
    BY <1>0
  <2>6. \A k \in 1 .. L + 1 : TableOK(hashes'[k])
    BY <1>4, <2>1, <2>4, <2>5
  <2>7. ASSUME NEW k \in 1 .. L + 1, NEW l \in 1 .. L + 1, k <= l
        PROVE  Len(hashes'[k]) <= Len(hashes'[l])
    <3>1. CASE l = L + 1
      BY <1>3, <1>4, <2>3, <2>5, <3>1
    <3>2. CASE l # L + 1
      <4>1. k \in 1 .. L /\ l \in 1 .. L
        BY <1>0, <2>7, <3>2
      <4> QED
        BY <1>0, <1>1, <1>4, <2>7, <4>1 DEF TablesOK
    <3> QED
      BY <3>1, <3>2
  <2>8. (\A k \in 1 .. Len(hashes) : TableOK(hashes[k]))'
    BY <1>4, <2>2, <2>6
  <2> QED
    BY <1>4, <2>7, <2>8 DEF TablesOK
<1>13. ASSUME NEW u \in User PROVE SearchOK(u)'
  <2>1. SearchOK(u)
    BY Known
  <2>2. Entered(u)' <=> Entered(u)
    BY <1>6
  <2>3. CASE u = t
    BY <1>0, <1>1, <1>4, <1>9, <2>2, <2>3 DEF SearchOK, Counting, Making
  <2>4. CASE u # t
    <3>1. user'[u] = user[u] /\ counted'[u] = counted[u]
      BY <1>9, <2>4
    <3>2. \A k \in 1 .. L : hashes'[k] = hashes[k]
      BY <1>4
    <3>3. user[u].at = "find" => \A k \in user[u].hash + 1 .. L + 1 : ~In(hashes'[k], u)
      <4> SUFFICES ASSUME user[u].at = "find", NEW k \in user[u].hash + 1 .. L + 1
                   PROVE  ~In(hashes'[k], u)
        OBVIOUS
      <4>1. user[u].hash \in Nat
        BY Known DEF Local
      <4>2. k = L + 1 \/ (k \in user[u].hash + 1 .. L /\ k \in 1 .. L)
        BY <1>0, <4>1
      <4> QED
        BY <1>0, <1>4, <1>5, <2>1, <4>2 DEF SearchOK
    <3>4. user[u].at # "idle" => user[u].main \in 1 .. L /\ hashes'[user[u].main] = hashes[user[u].main]
      BY <1>0, <2>1, <3>2 DEF SearchOK
    <3>5. user[u].at # "idle" => user[u].main \in 1 .. L + 1
      BY <1>0, <3>4
    <3> QED
      BY <1>4, <2>1, <2>2, <3>1, <3>3, <3>4, <3>5 DEF SearchOK, Counting, Making
  <2> QED
    BY <2>3, <2>4
<1>14. CountOK'
  BY CountSame
<1>15. LockOK'
  BY <1>1, <1>9 DEF LockOK
<1>16. OwnOK'
  <2>1. ASSUME NEW u \in User, NEW p \in Nat PROVE Owns(u, p)' <=> Owns(u, p)
    BY <1>7, <1>9 DEF Owns
  <2>2. \A u \in User : user'[u].at \in {"link", "place"} <=> user[u].at \in {"link", "place"}
    BY <1>9
  <2> QED
    BY <1>1, <1>6, <1>8, <2>1, <2>2 DEF OwnOK
<1>17. ListOK'
  <2>1. \A u \in User : user'[u].at \in {"link", "place"} => user'[u] = user[u]
    BY <1>9
  <2>2. \A k \in 1 .. L + 1 : \A s \in 1 .. Len(hashes'[k]) :
          hashes'[k][s].key # 0 => hashes'[k][s].value \in Listed
    <3> SUFFICES ASSUME NEW k \in 1 .. L + 1, NEW s \in 1 .. Len(hashes'[k]), hashes'[k][s].key # 0
                 PROVE  hashes'[k][s].value \in Listed
      OBVIOUS
    <3>1. CASE k = L + 1
      BY <1>3, <1>4, <3>1 DEF Empty
    <3>2. CASE k # L + 1
      <4>1. k \in 1 .. L
        BY <1>0, <3>2
      <4> QED
        BY <1>0, <1>1, <1>4, <4>1 DEF ListOK
    <3> QED
      BY <3>1, <3>2
  <2> QED
    BY <1>1, <1>4, <1>8, <2>1, <2>2 DEF ListOK
<1> QED
  BY <1>10, <1>12, <1>13, <1>14, <1>15, <1>16, <1>17 DEF HashInv

\* allocate: another thread may have replaced the table already.
LEMMA AllocateStep ==
  ASSUME HashInv, NEW t \in User, allocate(t)
  PROVE  HashInv'
<1>1. user[t].at = "allocate" /\ user[t] \in Local /\ user[t].n \in Nat
      /\ SearchOK(t) /\ Len(hashes) \in Nat
  BY Known DEF allocate, Local
<1>2. CASE user[t].n >= Len(Main(t)) \div 2
  <2>1. PICK c \in 1 .. 4 * (user[t].n + Len(Main(t))) :
          /\ NewCapacity(c, Len(Main(t)), user[t].n)
          /\ hashes' = Append(hashes, NewTable(c))
    BY <1>2 DEF allocate
  <2>2. c \in Nat /\ user[t].n < c \div 2
    <3>1. Len(Main(t)) \in Nat
      BY <1>1, TableType DEF Main, SearchOK
    <3> QED
      BY <1>1, <2>1, <3>1 DEF NewCapacity
  <2>3. PICK w : w = [user[t] EXCEPT !.at = "unlock", !.main = Len(hashes) + 1]
    OBVIOUS
  <2>4. w \in Local /\ w.at = "unlock" /\ w.main = Len(hashes) + 1 /\ w.n = user[t].n
    <3>1. PICK l \in Nat : l = Len(hashes) + 1
      BY <1>1
    <3> QED
      BY <1>1, <2>3, <3>1 DEF Local, Counting
  <2>5. user' = [user EXCEPT ![t] = w]
        /\ UNCHANGED <<implicitProducerHashCount, implicitProducerHashResizeInProgress,
                       producerListTail, nextProducer, returned, counted>>
    BY <1>2, <2>3 DEF allocate, ugoto
  <2> QED
    BY <1>1, <1>2, <2>1, <2>2, <2>4, <2>5, GrowTableStep
<1>3. CASE ~(user[t].n >= Len(Main(t)) \div 2)
  <2>1. PICK w : w = [user[t] EXCEPT !.at = "unlock"]
    OBVIOUS
  <2>2. w \in Local /\ w.at = "unlock" /\ w.main = user[t].main /\ w.n = user[t].n
    BY <1>1, <2>1 DEF Local, Counting
  <2>3. user' = [user EXCEPT ![t] = w] /\ QuietUser
        /\ UNCHANGED <<implicitProducerHashCount, implicitProducerHashResizeInProgress,
                       returned, counted>>
    BY <1>3, <2>1 DEF allocate, ugoto, QuietUser
  <2>4. Others(t) /\ user'[t] = w
    BY <2>2, <2>3 DEF HashInv, HashTypes, Others
  <2>5. hashes' = hashes /\ (Entered(t)' <=> Entered(t)) /\ counted' = counted
    BY <2>3, QuietSame DEF QuietUser
  <2>6. SearchOK(t)'
    BY <1>1, <2>2, <2>4, <2>5 DEF SearchOK, Counting, Making
  <2>7. LockOK'
    BY <1>1, <2>2, <2>3, <2>4, <2>5 DEF HashInv, LockOK, Others
  <2>8. implicitProducerHashResizeInProgress' \in BOOLEAN
    BY <2>3 DEF HashInv, HashTypes
  <2> QED
    BY <1>1, <2>2, <2>3, <2>4, <2>6, <2>7, <2>8, QuietUserStep
<1> QED
  BY <1>2, <1>3

\* A producer that is being added is unknown to the list: what was listed stays so.
LEMMA CreateStep ==
  ASSUME HashInv, NEW t \in User, create(t)
  PROVE  HashInv'
<1>0. PICK L \in Nat : L = Len(nextProducer)
  BY Known
<1>1. HashTypes /\ TablesOK /\ LockOK /\ OwnOK /\ ListOK /\ SearchOK(t) /\ user[t].at = "create"
  BY Known DEF HashInv, create
<1>2. PICK w : w = [user[t] EXCEPT !.at = "link", !.p = L + 1, !.prevTail = producerListTail]
  OBVIOUS
<1>3. w \in Local /\ w.at = "link" /\ w.p = L + 1 /\ w.prevTail = producerListTail
      /\ w.main = user[t].main
  <2>1. PICK p \in Nat, q \in Nat : p = L + 1 /\ q = producerListTail
    BY <1>0, <1>1 DEF HashTypes
  <2> QED
    BY <1>2, <2>1, Known DEF Local, Making
<1>4. user' = [user EXCEPT ![t] = w] /\ nextProducer' = Append(nextProducer, 0)
      /\ UNCHANGED <<hashes, implicitProducerHashCount, implicitProducerHashResizeInProgress,
                     producerListTail, returned, counted>>
  BY <1>0, <1>2 DEF create, ugoto
<1>5. user \in [User -> Local] /\ user' \in [User -> Local] /\ user'[t] = w
      /\ \A u \in User \ {t} : user'[u] = user[u]
  BY <1>1, <1>3, <1>4 DEF HashTypes
<1>6. /\ nextProducer' \in Seq(Nat) /\ Len(nextProducer') = L + 1
      /\ \A p \in 1 .. L : nextProducer'[p] = nextProducer[p]
      /\ nextProducer'[L + 1] = 0
  BY <1>0, <1>1, <1>4, AppendProperties DEF HashTypes
<1>7. Made = 1 .. L /\ Made' = 1 .. L + 1 /\ (\A p \in Made' : p \in Made \/ p = L + 1)
  BY <1>0, <1>6 DEF Made
<1>8. producerListTail \in 0 .. L /\ \A p \in 1 .. L : nextProducer[p] \in 0 .. L
  BY <1>0, <1>1, <1>7 DEF ListOK
<1>9. \A u \in User : \A p : (EntryOf(u, p)' <=> EntryOf(u, p)) /\ (Entered(u)' <=> Entered(u))
  BY <1>4 DEF EntryOf, Entered, In
<1>10. Listed \subseteq Listed'
  <2> SUFFICES ASSUME NEW p \in Listed, NEW C \in SUBSET (1 .. L + 1), Followed(C)' PROVE p \in C
    <3>1. Listed \subseteq 1 .. L + 1
      BY <1>0 DEF Listed
    <3> QED
      BY <1>6, <3>1 DEF Listed
  <2>1. PICK D \in SUBSET (1 .. L) : D = C \cap (1 .. L)
    OBVIOUS
  <2>2. producerListTail # 0 => producerListTail \in D
    BY <1>4, <1>8, <2>1 DEF Followed
  <2>3. ASSUME NEW q \in D, nextProducer[q] # 0 PROVE nextProducer[q] \in D
    BY <1>6, <1>8, <2>1, <2>3 DEF Followed
  <2>4. Followed(D)
    BY <2>2, <2>3 DEF Followed
  <2> QED
    BY <1>0, <2>1, <2>4 DEF Listed
<1>11. HashTypes'
  BY <1>1, <1>4, <1>5, <1>6 DEF HashTypes
<1>12. TablesOK'
  BY <1>1, <1>4 DEF TablesOK, TableOK
<1>13. ASSUME NEW u \in User PROVE SearchOK(u)'
  <2>1. SearchOK(u) /\ hashes' = hashes /\ counted' = counted /\ (Entered(u)' <=> Entered(u))
    BY <1>4, <1>9, Known
  <2>2. CASE u = t
    BY <1>1, <1>3, <1>5, <2>1, <2>2 DEF SearchOK, Counting, Making
  <2>3. CASE u # t
    BY <1>5, <2>1, <2>3 DEF SearchOK
  <2> QED
    BY <2>2, <2>3
<1>14. CountOK'
  BY <1>4, CountSame
<1>15. LockOK'
  BY <1>1, <1>3, <1>4, <1>5 DEF LockOK
<1>16. ~Entered(t)
  BY <1>1 DEF SearchOK
<1>17. \A p \in Nat : ~Owns(t, p)
  BY <1>1, <1>16 DEF OwnOK
<1>18. \A u \in User : \A p \in Nat : Owns(u, p) => p \in 1 .. L
  BY <1>1, <1>7 DEF OwnOK
<1>19. OwnOK'
  <2>1. ASSUME NEW u \in User, NEW p \in Nat, Owns(u, p)'
        PROVE  Owns(u, p) \/ (u = t /\ p = L + 1)
    <3>1. CASE u = t
      BY <1>3, <1>4, <1>5, <1>9, <2>1, <3>1 DEF Owns
    <3>2. CASE u # t
      BY <1>4, <1>5, <1>9, <2>1, <3>2 DEF Owns
    <3> QED
      BY <3>1, <3>2
  <2>2. L + 1 \notin 1 .. L
    BY <1>0
  <2>3. ASSUME NEW u \in User, NEW v \in User, NEW p \in Nat, NEW q \in Nat, Owns(u, p)', Owns(v, q)'
        PROVE  u = v <=> p = q
    <3>1. CASE Owns(u, p) /\ Owns(v, q)
      BY <1>1, <3>1 DEF OwnOK
    <3>2. CASE ~Owns(u, p)
      BY <1>17, <1>18, <2>1, <2>2, <2>3, <3>2
    <3>3. CASE ~Owns(v, q)
      BY <1>17, <1>18, <2>1, <2>2, <2>3, <3>3
    <3> QED
      BY <3>1, <3>2, <3>3
  <2>4. ASSUME NEW u \in User, NEW p \in Nat, Owns(u, p)'
        PROVE  p \in Made' /\ (user'[u].at \in {"link", "place"} \/ Entered(u)')
    <3>1. CASE u = t /\ p = L + 1
      BY <1>0, <1>3, <1>5, <1>7, <3>1
    <3>2. CASE Owns(u, p)
      <4>1. p \in 1 .. L + 1
        BY <1>0, <1>18, <3>2
      <4>2. u # t
        BY <1>17, <3>2
      <4> QED
        BY <1>1, <1>5, <1>7, <1>9, <3>2, <4>1, <4>2 DEF OwnOK
    <3> QED
      BY <2>1, <2>4, <3>1, <3>2
  <2> QED
    BY <2>3, <2>4 DEF OwnOK
<1>20. ListOK'
  <2>1. producerListTail' \in 0 .. L + 1 /\ \A p \in 1 .. L + 1 : nextProducer'[p] \in 0 .. L + 1
    <3>1. \A p \in 1 .. L + 1 : p \in 1 .. L \/ p = L + 1
      BY <1>0
    <3>2. 0 .. L \subseteq 0 .. L + 1 /\ 0 \in 0 .. L + 1
      BY <1>0
    <3> QED
      BY <1>4, <1>6, <1>8, <3>1, <3>2
  <2>2. ASSUME NEW u \in User, user'[u].at = "link"
        PROVE  /\ user'[u].prevTail \in 0 .. L + 1
               /\ producerListTail' # user'[u].p
               /\ \A p \in Made' : nextProducer'[p] # user'[u].p
               /\ \A v \in User : user'[v].at = "link" => user'[v].prevTail # user'[u].p
    <3>1. CASE u = t
      <4>1. \A x \in 0 .. L : x # L + 1
        BY <1>0
      <4>2. ASSUME NEW v \in User, user'[v].at = "link" PROVE user'[v].prevTail \in 0 .. L
        BY <1>0, <1>1, <1>3, <1>5, <1>8, <4>2 DEF ListOK
      <4>3. ASSUME NEW p \in Made' PROVE nextProducer'[p] \in 0 .. L
        BY <1>0, <1>6, <1>7, <1>8
      <4>4. user'[u].prevTail \in 0 .. L + 1
        BY <1>0, <2>2, <4>2
      <4>5. user'[u].p = L + 1
        BY <1>3, <1>5, <3>1
      <4> QED
        BY <1>4, <1>8, <4>1, <4>2, <4>3, <4>4, <4>5
    <3>2. CASE u # t
      <4>1. user'[u] = user[u] /\ user[u].at = "link"
        BY <1>5, <2>2, <3>2
      <4>2. user[u].prevTail \in 0 .. L + 1
        <5>1. user[u].prevTail \in 0 .. L
          BY <1>0, <1>1, <4>1 DEF ListOK
        <5> QED
          BY <1>0, <5>1
      <4>3. producerListTail # user[u].p
        BY <1>1, <4>1 DEF ListOK
      <4>4. user[u].p \in 1 .. L
        <5>1. Owns(u, user[u].p) /\ user[u].p \in Nat
          BY <4>1, Known DEF Owns, Local
        <5> QED
          BY <1>18, <5>1
      <4>5. ASSUME NEW p \in Made' PROVE nextProducer'[p] # user[u].p
        <5>1. CASE p \in Made
          BY <1>1, <1>6, <1>7, <4>1, <5>1 DEF ListOK
        <5>2. CASE p = L + 1
          BY <1>0, <1>6, <4>4, <5>2
        <5> QED
          BY <1>7, <5>1, <5>2
      <4>6. ASSUME NEW v \in User, user'[v].at = "link" PROVE user'[v].prevTail # user[u].p
        <5>1. CASE v = t
          BY <1>3, <1>5, <4>3, <5>1
        <5>2. CASE v # t
          BY <1>1, <1>5, <4>1, <4>6, <5>2 DEF ListOK
        <5> QED
          BY <5>1, <5>2
      <4> QED
        BY <1>4, <4>1, <4>2, <4>3, <4>5, <4>6
    <3> QED
      BY <3>1, <3>2
  <2>3. \A u \in User : user'[u].at = "place" => user'[u].p \in Listed'
    BY <1>1, <1>3, <1>5, <1>10 DEF ListOK
  <2>4. \A u \in User : returned'[u] \subseteq Listed'
    BY <1>1, <1>4, <1>10 DEF ListOK
  <2>5. (\A k \in 1 .. Len(hashes) : \A s \in 1 .. Len(hashes[k]) :
          hashes[k][s].key # 0 => hashes[k][s].value \in Listed)'
    BY <1>1, <1>4, <1>10 DEF ListOK
  <2> QED
    BY <1>6, <1>7, <2>1, <2>2, <2>3, <2>4, <2>5 DEF ListOK
<1> QED
  BY <1>11, <1>12, <1>13, <1>14, <1>15, <1>19, <1>20 DEF HashInv

\* The producer is linked to what was the first, and becomes the first if it still is.
LEMMA AddProducerStep ==
  ASSUME HashInv, NEW t \in User, add_producer(t)
  PROVE  HashInv'
<1>0. PICK L \in Nat : L = Len(nextProducer)
  BY Known
<1>1. HashTypes /\ TablesOK /\ LockOK /\ OwnOK /\ ListOK /\ SearchOK(t) /\ user[t].at = "link"
  BY Known DEF HashInv, add_producer
<1>2. PICK p \in Nat, q \in Nat : p = user[t].p /\ q = user[t].prevTail
  BY Known DEF Local
<1>3. PICK linked \in BOOLEAN : linked <=> producerListTail = q
  OBVIOUS
<1>4. PICK w : w = IF linked THEN [user[t] EXCEPT !.at = "place", !.prevTail = 0]
                   ELSE [user[t] EXCEPT !.prevTail = producerListTail]
  OBVIOUS
<1>5. user' = [user EXCEPT ![t] = w] /\ nextProducer' = [nextProducer EXCEPT ![p] = q]
      /\ producerListTail' = (IF linked THEN p ELSE producerListTail)
      /\ UNCHANGED <<hashes, implicitProducerHashCount, implicitProducerHashResizeInProgress,
                     returned, counted>>
  BY <1>2, <1>3, <1>4 DEF add_producer, ugoto
<1>6. w \in Local /\ w.p = p /\ w.main = user[t].main
      /\ ((linked /\ w.at = "place") \/ (~linked /\ w.at = "link" /\ w.prevTail = producerListTail))
  <2>1. PICK x \in Nat : x = producerListTail
    BY <1>1 DEF HashTypes
  <2> QED
    BY <1>1, <1>2, <1>4, <2>1, Known DEF Local, Making
<1>7. user \in [User -> Local] /\ user' \in [User -> Local] /\ user'[t] = w
      /\ \A u \in User \ {t} : user'[u] = user[u]
  BY <1>1, <1>5, <1>6 DEF HashTypes
<1>8. Owns(t, p) /\ p \in 1 .. L /\ Made = 1 .. L
  BY <1>0, <1>1, <1>2 DEF Owns, OwnOK, Made
<1>9. /\ nextProducer' \in Seq(Nat) /\ Len(nextProducer') = L
      /\ \A x \in 1 .. L : x # p => nextProducer'[x] = nextProducer[x]
      /\ nextProducer'[p] = q
  BY <1>0, <1>1, <1>5, <1>8, ExceptSeq DEF HashTypes
<1>10. Made' = 1 .. L
  BY <1>9 DEF Made
<1>11. /\ producerListTail \in 0 .. L /\ (\A x \in 1 .. L : nextProducer[x] \in 0 .. L)
       /\ q \in 0 .. L /\ producerListTail # p
       /\ \A x \in 1 .. L : nextProducer[x] # p
       /\ \A u \in User : user[u].at = "link" => user[u].prevTail # p
  BY <1>0, <1>1, <1>2, <1>8 DEF ListOK
<1>12. \A u \in User : \A x : (EntryOf(u, x)' <=> EntryOf(u, x)) /\ (Entered(u)' <=> Entered(u))
  BY <1>5 DEF EntryOf, Entered, In
<1>13. ASSUME NEW x \in Listed, NEW C \in SUBSET (1 .. L), Followed(C)' PROVE x \in C
  <2>1. PICK D \in SUBSET (1 .. L) : D = C \ {p}
    OBVIOUS
  <2>2. producerListTail # 0 => producerListTail \in C
    <3>1. CASE linked
      <4>1. p \in C /\ nextProducer'[p] = producerListTail
        <5>1. producerListTail' = p
          BY <1>5, <3>1
        <5>2. producerListTail = q
          BY <1>3, <3>1
        <5>3. p # 0
          BY <1>8
        <5> QED
          BY <1>9, <1>13, <5>1, <5>2, <5>3 DEF Followed
      <4> QED
        BY <1>13, <4>1 DEF Followed
    <3>2. CASE ~linked
      BY <1>5, <1>13, <3>2 DEF Followed
    <3> QED
      BY <3>1, <3>2
  <2>3. ASSUME NEW y \in D, nextProducer[y] # 0 PROVE nextProducer[y] \in D
    <3>1. y \in C /\ y # p /\ y \in 1 .. L /\ nextProducer'[y] = nextProducer[y]
      BY <1>9, <2>1
    <3> QED
      BY <1>11, <1>13, <2>1, <2>3, <3>1 DEF Followed
  <2>4. Followed(D)
    BY <1>11, <2>1, <2>2, <2>3 DEF Followed
  <2> QED
    BY <1>0, <1>13, <2>1, <2>4 DEF Listed
<1>14. Listed \subseteq Listed'
  <2>1. Listed \subseteq 1 .. L
    BY <1>0 DEF Listed
  <2> QED
    BY <1>9, <1>13, <2>1 DEF Listed
<1>15. linked => p \in Listed'
  <2> SUFFICES ASSUME linked, NEW C \in SUBSET (1 .. L), Followed(C)' PROVE p \in C
    BY <1>8, <1>9 DEF Listed
  <2>1. producerListTail' = p /\ p # 0
    BY <1>5, <1>8
  <2> QED
    BY <2>1 DEF Followed
<1>16. HashTypes'
  BY <1>1, <1>2, <1>5, <1>7, <1>9 DEF HashTypes
<1>17. TablesOK'
  BY <1>1, <1>5 DEF TablesOK, TableOK
<1>18. ASSUME NEW u \in User PROVE SearchOK(u)'
  <2>1. SearchOK(u) /\ hashes' = hashes /\ counted' = counted /\ (Entered(u)' <=> Entered(u))
    BY <1>5, <1>12, Known
  <2>2. CASE u = t
    <3>1. ~Entered(t) /\ user[t].main \in 1 .. Len(hashes)
      BY <1>1 DEF SearchOK
    <3>2. ~In(hashes[user[t].main], t)
      BY <3>1 DEF Entered
    <3> QED
      BY <1>1, <1>6, <1>7, <2>1, <2>2, <3>2 DEF SearchOK, Counting, Making
  <2>3. CASE u # t
    BY <1>7, <2>1, <2>3 DEF SearchOK
  <2> QED
    BY <2>2, <2>3
<1>19. CountOK'
  BY <1>5, CountSame
<1>20. LockOK'
  BY <1>1, <1>5, <1>6, <1>7 DEF LockOK
<1>21. OwnOK'
  <2>1. ASSUME NEW u \in User, NEW x \in Nat PROVE Owns(u, x)' <=> Owns(u, x)
    BY <1>1, <1>2, <1>5, <1>6, <1>7, <1>12 DEF Owns
  <2>2. \A u \in User : user'[u].at \in {"link", "place"} <=> user[u].at \in {"link", "place"}
    BY <1>1, <1>6, <1>7
  <2>3. ASSUME NEW u \in User, NEW v \in User, NEW x \in Nat, NEW y \in Nat, Owns(u, x)', Owns(v, y)'
        PROVE  u = v <=> x = y
    BY <1>1, <2>1, <2>3 DEF OwnOK
  <2>4. ASSUME NEW u \in User, NEW x \in Nat, Owns(u, x)'
        PROVE  x \in Made' /\ (user'[u].at \in {"link", "place"} \/ Entered(u)')
    BY <1>1, <1>8, <1>10, <1>12, <2>1, <2>2, <2>4 DEF OwnOK
  <2> QED
    BY <2>3, <2>4 DEF OwnOK
<1>22. ListOK'
  <2>1. producerListTail' \in 0 .. L /\ \A x \in 1 .. L : nextProducer'[x] \in 0 .. L
    BY <1>0, <1>5, <1>8, <1>9, <1>11
  <2>2. ASSUME NEW u \in User, user'[u].at = "link"
        PROVE  /\ user'[u].prevTail \in 0 .. L
               /\ producerListTail' # user'[u].p
               /\ \A x \in 1 .. L : nextProducer'[x] # user'[u].p
               /\ \A v \in User : user'[v].at = "link" => user'[v].prevTail # user'[u].p
    <3>1. user[u].at = "link" /\ user'[u].p = user[u].p
      BY <1>1, <1>2, <1>6, <1>7, <2>2
    <3>2. /\ user[u].prevTail \in 0 .. L /\ producerListTail # user[u].p
          /\ \A x \in 1 .. L : nextProducer[x] # user[u].p
          /\ \A v \in User : user[v].at = "link" => user[v].prevTail # user[u].p
      BY <1>0, <1>1, <1>8, <3>1 DEF ListOK
    <3>3. user'[u].prevTail \in 0 .. L
      BY <1>6, <1>7, <1>11, <2>2, <3>2
    <3>4. producerListTail' # user[u].p
      <4>1. CASE linked
        <5>1. u # t
          BY <1>6, <1>7, <2>2, <4>1
        <5>2. Owns(u, user[u].p) /\ user[u].p \in Nat
          BY <3>1, Known DEF Owns, Local
        <5> QED
          BY <1>1, <1>5, <1>8, <4>1, <5>1, <5>2 DEF OwnOK
      <4> QED
        BY <1>5, <3>2, <4>1
    <3>5. ASSUME NEW x \in 1 .. L PROVE nextProducer'[x] # user[u].p
      <4>1. q # user[u].p
        BY <1>1, <1>2, <3>2
      <4> QED
        BY <1>9, <3>2, <4>1
    <3>6. ASSUME NEW v \in User, user'[v].at = "link" PROVE user'[v].prevTail # user[u].p
      BY <1>6, <1>7, <3>2, <3>6
    <3> QED
      BY <3>1, <3>3, <3>4, <3>5, <3>6
  <2>3. \A u \in User : user'[u].at = "place" => user'[u].p \in Listed'
    BY <1>1, <1>6, <1>7, <1>14, <1>15 DEF ListOK
  <2>4. \A u \in User : returned'[u] \subseteq Listed'
    BY <1>1, <1>5, <1>14 DEF ListOK
  <2>5. (\A k \in 1 .. Len(hashes) : \A s \in 1 .. Len(hashes[k]) :
          hashes[k][s].key # 0 => hashes[k][s].value \in Listed)'
    BY <1>1, <1>5, <1>14 DEF ListOK
  <2> QED
    BY <1>9, <1>10, <2>1, <2>2, <2>3, <2>4, <2>5 DEF ListOK
<1> QED
  BY <1>16, <1>17, <1>18, <1>19, <1>20, <1>21, <1>22 DEF HashInv

\* The entry is written: the slots that other threads were found behind stay full.
LEMMA PlaceStep ==
  ASSUME HashInv, NEW t \in User, place(t)
  PROVE  HashInv'
<1>0. PICK L \in Nat : L = Len(hashes)
  BY Known
<1>1. HashTypes /\ TablesOK /\ LockOK /\ OwnOK /\ ListOK /\ SearchOK(t) /\ user[t].at = "place"
  BY Known DEF HashInv, place
<1>2. PICK m \in 1 .. L, p \in Nat : m = user[t].main /\ p = user[t].p
  BY <1>0, <1>1, Known DEF Local, SearchOK
<1>3. PICK g : g = hashes[m]
  OBVIOUS
<1>4. g \in Seq(TableEntry) /\ Len(g) \in Nat /\ TableOK(g) /\ ~In(g, t)
      /\ counted[t] \in 1 .. Limit(g) - 1
  BY <1>0, <1>1, <1>2, <1>3, TableType DEF SearchOK, Making
<1>5. PICK s \in 1 .. Len(g) :
        /\ StopsAt(g, t, s, {0})
        /\ hashes' = [hashes EXCEPT ![m] = [@ EXCEPT ![s] = [key |-> t, value |-> p]]]
  BY <1>2, <1>3 DEF place
<1>6. PICK e : e = [key |-> t, value |-> p]
  OBVIOUS
<1>7. e \in TableEntry /\ e.key = t /\ e.value = p /\ t # 0 /\ g[s].key = 0
  BY <1>5, <1>6, UsersPositive DEF TableEntry, StopsAt
<1>8. PICK h : h = [g EXCEPT ![s] = e]
  OBVIOUS
<1>9. h \in Seq(TableEntry) /\ Len(h) = Len(g) /\ h[s] = e /\ \A r \in 1 .. Len(g) : r # s => h[r] = g[r]
  BY <1>4, <1>7, <1>8, ExceptSeq
<1>10. hashes' = [hashes EXCEPT ![m] = h]
  BY <1>3, <1>5, <1>6, <1>8
<1>11. /\ hashes' \in Seq(Seq(TableEntry)) /\ Len(hashes') = L /\ hashes'[m] = h
       /\ \A k \in 1 .. L : k # m => hashes'[k] = hashes[k]
  BY <1>0, <1>1, <1>2, <1>9, <1>10, ExceptSeq DEF HashTypes
<1>12. /\ user' = [user EXCEPT ![t] = Resting] /\ returned' = [returned EXCEPT ![t] = @ \cup {p}]
       /\ UNCHANGED <<implicitProducerHashCount, implicitProducerHashResizeInProgress,
                      producerListTail, nextProducer, counted>>
  BY <1>2 DEF place, answer, ugoto
<1>13. Resting \in Local /\ Resting.at = "idle"
  BY DEF Resting, Local
<1>14. Others(t) /\ user'[t] = Resting /\ returned'[t] = returned[t] \cup {p}
  BY <1>1, <1>2, <1>12, <1>13 DEF HashTypes, Others
<1>15. Listed' = Listed /\ Made' = Made /\ p \in Listed
  BY <1>1, <1>2, <1>12 DEF Listed, Followed, Made, ListOK
<1>16. HashTypes'
  BY <1>1, <1>11, <1>12, <1>14 DEF HashTypes, Others
<1>17. ASSUME NEW i \in 1 .. Len(g), NEW u \in User
       PROVE  Probe(h, u, i) = Probe(g, u, i) /\ Probe(g, u, i) \in 1 .. Len(g)
  BY <1>4, <1>9, ProbeRange DEF Probe, TableOK
<1>18. TableOK(h)
  <2>1. Len(h) > 0 /\ Limit(h) = Limit(g)
    BY <1>4, <1>9 DEF TableOK, Limit
  <2>2. ASSUME NEW r \in 1 .. Len(g), g[r].key # 0 PROVE h[r].key # 0 /\ h[r] = g[r] /\ r # s
    BY <1>7, <1>9, <2>2
  <2>3. ASSUME NEW r \in 1 .. Len(g), h[r].key # 0 PROVE Reached(h, h[r].key, r)
    <3>1. PICK u : u = h[r].key
      OBVIOUS
    <3>2. u \in User
      BY <1>4, <1>7, <1>9, <2>3, <3>1 DEF TableOK
    <3>3. PICK i \in 1 .. Len(g) : r = Probe(g, u, i) /\ \A j \in 1 .. i - 1 : g[Probe(g, u, j)].key # 0
      <4>1. CASE r = s
        <5>1. u = t
          BY <1>7, <1>9, <3>1, <4>1
        <5>2. PICK i \in 1 .. Len(g) : /\ s = Probe(g, t, i)
                                      /\ \A j \in 1 .. i - 1 : g[Probe(g, t, j)].key \notin {0}
          BY <1>5 DEF StopsAt
        <5> QED
          BY <4>1, <5>1, <5>2
      <4>2. CASE r # s
        <5>1. g[r].key = u /\ u # 0
          BY <1>9, <2>3, <3>1, <4>2
        <5>2. Reached(g, g[r].key, r)
          BY <1>4, <5>1 DEF TableOK
        <5>3. Reached(g, u, r)
          BY <5>1, <5>2
        <5> QED
          BY <5>3 DEF Reached
      <4> QED
        BY <4>1, <4>2
    <3>4. ASSUME NEW j \in 1 .. i - 1 PROVE h[Probe(h, u, j)].key # 0
      <4>1. j \in 1 .. Len(g)
        BY <1>4
      <4> QED
        BY <1>17, <2>2, <3>2, <3>3, <3>4, <4>1
    <3> QED
      BY <1>9, <1>17, <3>1, <3>2, <3>3, <3>4 DEF Reached
  <2>4. ASSUME NEW r \in 1 .. Len(g)
        PROVE  /\ h[r].key = 0 => h[r] = Empty
               /\ h[r].key # 0 => h[r].key \in User /\ counted[h[r].key] \in 1 .. Limit(h) - 1
    BY <1>4, <1>7, <1>9, <2>1 DEF TableOK
  <2>5. ASSUME NEW r \in 1 .. Len(g), NEW x \in 1 .. Len(g), h[r].key # 0, h[r].key = h[x].key
        PROVE  r = x
    <3>1. \A y \in 1 .. Len(g) : g[y].key # t
      BY <1>4 DEF In
    <3> QED
      BY <1>4, <1>7, <1>9, <2>5, <3>1 DEF TableOK
  <2> QED
    BY <1>9, <2>1, <2>3, <2>4, <2>5 DEF TableOK
<1>19. TablesOK'
  <2>1. \A f : TableOK(f)' <=> TableOK(f)
    BY <1>12 DEF TableOK
  <2>2. \A k \in 1 .. L : TableOK(hashes'[k])
    BY <1>0, <1>1, <1>11, <1>18 DEF TablesOK
  <2>3. (\A k \in 1 .. Len(hashes) : TableOK(hashes[k]))'
    BY <1>11, <2>1, <2>2
  <2>4. \A k \in 1 .. L : Len(hashes'[k]) = Len(hashes[k])
    BY <1>3, <1>9, <1>11
  <2> QED
    BY <1>0, <1>1, <1>11, <2>3, <2>4 DEF TablesOK
<1>20. ASSUME NEW u \in User, u # t, NEW k \in 1 .. L PROVE In(hashes'[k], u) <=> In(hashes[k], u)
  <2>1. CASE k = m
    BY <1>3, <1>7, <1>9, <1>11, <1>20, <2>1, UsersPositive DEF In
  <2> QED
    BY <1>11, <2>1
<1>21. ASSUME NEW u \in User, u # t PROVE Entered(u)' <=> Entered(u)
  BY <1>0, <1>11, <1>20, <1>21 DEF Entered
<1>22. Entered(t)'
  <2>1. In(hashes'[m], t)
    BY <1>7, <1>9, <1>11 DEF In
  <2> QED
    BY <1>2, <1>11, <2>1 DEF Entered
<1>23. ASSUME NEW u \in User PROVE SearchOK(u)'
  <2>1. CASE u = t
    BY <1>4, <1>12, <1>13, <1>14, <1>22, <2>1 DEF SearchOK, Counting, Making
  <2>2. CASE u # t
    <3>1. SearchOK(u) /\ user'[u] = user[u] /\ counted'[u] = counted[u]
      BY <2>2, <1>14, Known DEF Others
    <3>2. \A k \in 1 .. L : Limit(hashes'[k]) = Limit(hashes[k]) /\ (In(hashes'[k], u) <=> In(hashes[k], u))
      BY <1>3, <1>9, <1>11, <1>20, <2>2 DEF Limit
    <3>3. Entered(u)' <=> Entered(u)
      BY <1>21, <2>2
    <3>4. user[u].at = "find" => \A k \in user[u].hash + 1 .. L : k \in 1 .. L
      BY <1>0, Known DEF Local
    <3>5. user[u].at # "idle" => user[u].main \in 1 .. L
      BY <1>0, <3>1 DEF SearchOK
    <3> QED
      BY <1>0, <1>11, <3>1, <3>2, <3>3, <3>4, <3>5 DEF SearchOK, Counting, Making
  <2> QED
    BY <2>1, <2>2
<1>24. CountOK'
  BY <1>12, CountSame
<1>25. LockOK'
  BY <1>0, <1>1, <1>11, <1>12, <1>13, <1>14 DEF LockOK, Others
<1>26. ASSUME NEW u \in User, NEW x \in Nat, Owns(u, x)' PROVE Owns(u, x)
  <2>1. ASSUME EntryOf(u, x)' PROVE EntryOf(u, x) \/ (u = t /\ x = p)
    <3>0. PICK k \in 1 .. L :
            \E r \in 1 .. Len(hashes'[k]) : hashes'[k][r] = [key |-> u, value |-> x]
      BY <1>11, <2>1 DEF EntryOf
    <3>1. PICK r \in 1 .. Len(hashes'[k]) : hashes'[k][r] = [key |-> u, value |-> x]
      BY <3>0
    <3>2. CASE k = m /\ r = s
      BY <1>7, <1>9, <1>11, <3>1, <3>2
    <3>3. CASE ~(k = m /\ r = s)
      <4>1. r \in 1 .. Len(hashes[k]) /\ hashes[k][r] = [key |-> u, value |-> x]
        BY <1>3, <1>9, <1>11, <3>1, <3>3
      <4> QED
        BY <1>0, <4>1 DEF EntryOf
    <3> QED
      BY <3>2, <3>3
  <2>2. Owns(t, p)
    BY <1>1, <1>2 DEF Owns
  <2>3. CASE u = t
    BY <1>13, <1>14, <1>26, <2>1, <2>2, <2>3 DEF Owns
  <2>4. CASE u # t
    BY <1>14, <1>26, <2>1, <2>4 DEF Owns, Others
  <2> QED
    BY <2>3, <2>4
<1>27. OwnOK'
  <2>1. ASSUME NEW u \in User, NEW v \in User, NEW x \in Nat, NEW y \in Nat, Owns(u, x)', Owns(v, y)'
        PROVE  u = v <=> x = y
    BY <1>1, <1>26, <2>1 DEF OwnOK
  <2>2. ASSUME NEW u \in User, NEW x \in Nat, Owns(u, x)'
        PROVE  x \in Made' /\ (user'[u].at \in {"link", "place"} \/ Entered(u)')
    BY <1>1, <1>14, <1>15, <1>21, <1>22, <1>26, <2>2 DEF OwnOK, Others
  <2> QED
    BY <2>1, <2>2 DEF OwnOK
<1>28. ListOK'
  <2>1. \A u \in User : user'[u].at \in {"link", "place"} => user'[u] = user[u]
    BY <1>13, <1>14 DEF Others
  <2>2. \A u \in User : returned'[u] \subseteq Listed
    BY <1>1, <1>14, <1>15 DEF ListOK, Others
  <2>3. ASSUME NEW k \in 1 .. L, NEW r \in 1 .. Len(hashes'[k]), hashes'[k][r].key # 0
        PROVE  hashes'[k][r].value \in Listed
    <3>1. CASE k = m /\ r = s
      BY <1>7, <1>9, <1>11, <1>15, <3>1
    <3>2. CASE ~(k = m /\ r = s)
      <4>1. r \in 1 .. Len(hashes[k]) /\ hashes'[k][r] = hashes[k][r]
        BY <1>3, <1>9, <1>11, <3>2
      <4> QED
        BY <1>0, <1>1, <2>3, <4>1 DEF ListOK
    <3> QED
      BY <3>1, <3>2
  <2> QED
    BY <1>1, <1>11, <1>12, <1>15, <2>1, <2>2, <2>3 DEF ListOK
<1> QED
  BY <1>16, <1>19, <1>23, <1>24, <1>25, <1>27, <1>28 DEF HashInv

\* An empty table and an empty list.
LEMMA HashInitial == HashInit => HashInv
<1> SUFFICES ASSUME HashInit PROVE HashInv
  OBVIOUS
<1>1. PICK c \in Nat : c = INITIAL_IMPLICIT_PRODUCER_HASH_SIZE /\ c > 0
  BY ProducerHashAssumption
<1>2. PICK T : T = NewTable(c)
  OBVIOUS
<1>3. T \in Seq(TableEntry) /\ Len(T) = c /\ (\A s \in 1 .. c : T[s] = Empty)
  <2>1. Empty \in TableEntry
    BY DEF Empty, TableEntry
  <2> QED
    BY <1>1, <1>2, <2>1 DEF NewTable
<1>4. hashes = <<T>>
  BY <1>1, <1>2 DEF HashInit
<1>5. hashes \in Seq(Seq(TableEntry)) /\ Len(hashes) = 1 /\ hashes[1] = T
  BY <1>3, <1>4
<1>6. Resting \in Local /\ Resting.at = "idle"
  BY DEF Resting, Local
<1>7. \A t \in User : user[t] = Resting /\ returned[t] = {} /\ counted[t] = 0
  BY DEF HashInit
<1>8. nextProducer = <<>> /\ nextProducer \in Seq(Nat) /\ Len(nextProducer) = 0 /\ producerListTail = 0
  BY DEF HashInit
<1>9. HashTypes
  <2>1. /\ user \in [User -> Local] /\ returned \in [User -> SUBSET Nat]
        /\ counted \in [User -> Nat]
    BY <1>6 DEF HashInit
  <2>2. implicitProducerHashCount \in Int /\ producerListTail \in Nat
    BY DEF HashInit
  <2>3. implicitProducerHashResizeInProgress \in BOOLEAN
    BY DEF HashInit
  <2> QED
    BY <1>5, <1>8, <2>1, <2>2, <2>3 DEF HashTypes
<1>10. \A t \in User : ~Entered(t) /\ \A p \in Nat : ~EntryOf(t, p)
  BY <1>3, <1>5, UsersPositive DEF Entered, EntryOf, In, Empty
<1>11. TablesOK
  BY <1>1, <1>3, <1>5 DEF TablesOK, TableOK, Empty
<1>12. \A t \in User : SearchOK(t)
  BY <1>6, <1>7, <1>10 DEF SearchOK, Counting, Making
<1>13. CountOK
  <2>1. {t \in User : counted[t] > 0} = {}
    BY <1>7
  <2>2. \A m \in Nat : {t \in User : counted[t] \in 1 .. m} = {}
    BY <1>7
  <2>3. Cardinality({}) = 0
    BY FS_EmptySet
  <2>4. \A m \in Nat : Cardinality({t \in User : counted[t] \in 1 .. m}) <= m
    BY <2>2, <2>3
  <2>5. implicitProducerHashCount = Cardinality({t \in User : counted[t] > 0})
    BY <2>1, <2>3 DEF HashInit
  <2> QED
    BY <2>4, <2>5 DEF CountOK
<1>14. LockOK
  BY <1>6, <1>7 DEF LockOK
<1>15. OwnOK
  BY <1>6, <1>7, <1>10 DEF OwnOK, Owns
<1>16. ListOK
  BY <1>3, <1>5, <1>6, <1>7, <1>8 DEF ListOK, Made, Empty
<1> QED
  BY <1>9, <1>11, <1>12, <1>13, <1>14, <1>15, <1>16 DEF HashInv

\* Fewer threads are counted in time for a table than it has slots.
LEMMA TableNotFull ==
  ASSUME HashInv, NEW k \in 1 .. Len(hashes)
  PROVE  \E s \in 1 .. Len(hashes[k]) : hashes[k][s] = Empty
<1>1. PICK h : h = hashes[k]
  OBVIOUS
<1>2. PICK l \in Nat : l = Len(h) /\ l > 0 /\ h \in Seq(TableEntry) /\ TableOK(h)
  BY <1>1, TableType
<1> SUFFICES ASSUME \A s \in 1 .. l : h[s].key # 0 PROVE FALSE
  BY <1>1, <1>2 DEF TableOK
<1>3. PICK b \in Nat : b = l \div 2 + l \div 4 /\ b <= l
  OBVIOUS
<1>4. \A s \in 1 .. l : h[s].key \in User /\ counted[h[s].key] \in 1 .. b - 1
  BY <1>2, <1>3 DEF TableOK, Limit
<1>5. b - 1 \in Nat
  <2>1. 1 \in 1 .. l
    BY <1>2
  <2>2. counted[h[1].key] \in 1 .. b - 1
    BY <1>4, <2>1
  <2> QED
    BY <1>3, <2>2
<1>6. PICK A \in SUBSET User : A = {t \in User : counted[t] \in 1 .. b - 1}
  OBVIOUS
<1>7. Cardinality(A) <= b - 1 /\ IsFiniteSet(A) /\ Cardinality(A) \in Nat
  BY <1>5, <1>6, CountFinite DEF HashInv, CountOK
<1>8. PICK f \in [1 .. l -> A] : \A s \in 1 .. l : f[s] = h[s].key
  <2>1. [s \in 1 .. l |-> h[s].key] \in [1 .. l -> A]
    BY <1>4, <1>6
  <2> QED
    BY <2>1
<1>9. IsFiniteSet(1 .. l) /\ Cardinality(1 .. l) = l
  <2>1. 1 \in Int /\ l \in Int
    OBVIOUS
  <2>2. IsFiniteSet(1 .. l) /\ Cardinality(1 .. l) = IF 1 > l THEN 0 ELSE l - 1 + 1
    BY <2>1, FS_Interval
  <2> QED
    BY <1>2, <2>2
<1>10. Cardinality(1 .. l) > Cardinality(A)
  BY <1>3, <1>7, <1>9
<1>11. PICK s \in 1 .. l, r \in 1 .. l : s # r /\ f[s] = f[r]
  BY <1>7, <1>8, <1>9, <1>10, FS_PigeonHole
<1> QED
  BY <1>2, <1>8, <1>11 DEF TableOK

\* Whatever the threads and their hashes, and whenever the table is replaced: each
\* thread gets one producer and no other thread gets it, every table keeps an empty
\* slot although threads still enter themselves in tables that have been replaced,
\* and consumers find every producer that is in use (get_or_add_implicit_producer).
THEOREM ProducersAreSafe == HashSpec => []ProducersSafe
<1>1. HashInit => HashInv
  BY HashInitial
<1>2. HashInv /\ [HashNext]_hashVars => HashInv'
  <2> SUFFICES ASSUME HashInv, [HashNext]_hashVars PROVE HashInv'
    OBVIOUS
  <2>1. CASE HashNext
    BY <2>1, GetProducerStep, FindStep, AddCountStep, ResizeStep, AllocateStep, UnlockStep,
       OutOfMemoryStep, RoomStep, CreateStep, AddProducerStep, PlaceStep DEF HashNext
  <2>2. CASE UNCHANGED hashVars
    <3>1. HashTypes' /\ TablesOK' /\ CountOK' /\ LockOK'
      BY <2>2 DEF hashVars, HashInv, HashTypes, TablesOK, TableOK, CountOK, LockOK
    <3>2. QuietUser
      BY <2>2 DEF hashVars, QuietUser
    <3>3. \A t \in User : SearchOK(t)'
      BY <2>2, <3>2, QuietSame DEF hashVars, HashInv, SearchOK
    <3>4. OwnOK'
      BY <2>2, <3>2, QuietSame DEF hashVars, HashInv, OwnOK, Owns
    <3>5. ListOK'
      BY <2>2, <3>2, QuietSame DEF hashVars, HashInv, ListOK
    <3> QED
      BY <3>1, <3>3, <3>4, <3>5 DEF HashInv
  <2> QED
    BY <2>1, <2>2
<1>3. HashInv => ProducersSafe
  <2> SUFFICES ASSUME HashInv PROVE ProducersSafe
    OBVIOUS
  <2>1. ASSUME NEW t \in User, NEW u \in User
        PROVE  /\ Cardinality(returned[t]) <= 1
               /\ t # u => returned[t] \cap returned[u] = {}
    <3>1. returned[t] \in SUBSET Nat /\ returned[u] \in SUBSET Nat
      BY Known
    <3>2. \A p, q \in returned[t] : p = q
      BY <3>1 DEF HashInv, OwnOK, Owns
    <3>3. Cardinality(returned[t]) <= 1
      <4>1. CASE returned[t] = {}
        BY <4>1, FS_EmptySet
      <4>2. CASE returned[t] # {}
        <5>1. PICK p : returned[t] = {p}
          BY <3>2, <4>2
        <5>2. Cardinality({p}) = 1
          BY FS_Singleton
        <5> QED
          BY <5>1, <5>2
      <4> QED
        BY <4>1, <4>2
    <3>4. t # u => returned[t] \cap returned[u] = {}
      BY <3>1 DEF HashInv, OwnOK, Owns
    <3> QED
      BY <3>3, <3>4
  <2>2. SlotLeft
    <3>1. DOMAIN hashes = 1 .. Len(hashes)
      BY DEF HashInv, HashTypes
    <3>2. \A k \in 1 .. Len(hashes) : DOMAIN hashes[k] = 1 .. Len(hashes[k])
      BY TableType
    <3> QED
      BY <3>1, <3>2, TableNotFull DEF SlotLeft
  <2>3. ProducersListed
    BY DEF HashInv, ListOK, ProducersListed
  <2> QED
    BY <2>1, <2>2, <2>3 DEF ProducersSafe, OwnProducer
<1> QED
  BY <1>1, <1>2, <1>3, PTL DEF HashSpec

-----------------------------------------------------------------------------
(***************************************************************************)
(* ImplicitProducer, the counters: the inductive invariant                 *)
(***************************************************************************)

\* The consumers of producer p at some place.
At(c, p, where) == cons[c].at = where /\ cons[c].p = p
AllAt(p, where) == {c \in Consumer : At(c, p, where)}

\* The local variables of a consumer that still looks for an element.
Asking(c) ==
  /\ cons[c].at # "idle" => cons[c].p \in Producer
  /\ cons[c].at \in {"tail", "overcommit", "check", "count", "recheck", "giveup"} =>
       cons[c].rest \subseteq Producer
  /\ cons[c].at \in {"check", "count", "recheck"} =>
       cons[c].over \in Nat /\ cons[c].over <= dequeueOvercommit[cons[c].p]
  /\ cons[c].at = "recheck" => cons[c].my \in Nat

\* The types of the counters.
CountTypes ==
  /\ tailIndex \in [Producer -> Nat] /\ headIndex \in [Producer -> Nat]
  /\ dequeueOptimisticCount \in [Producer -> Nat] /\ dequeueOvercommit \in [Producer -> Nat]
  /\ cons = [c \in Consumer |-> cons[c]]
  /\ \A c \in Consumer : Asking(c)

\* The elements of p that consumers have been promised.
Won(p) == headIndex[p] + Cardinality(AllAt(p, "head"))

\* The consumers that have counted themselves in and not seen the tail again,
\* with a number up to m.
UpTo(p, m) == {c \in AllAt(p, "recheck") : cons[c].my <= m}

\* What c will be promised is there: all with a number up to that of c can be,
\* by the failures that c has seen, or by what is in the queue now.
Bound(c, p) ==
  /\ cons[c].my < dequeueOptimisticCount[p]
  /\ \/ Won(p) + Cardinality(UpTo(p, cons[c].my)) + cons[c].over <= cons[c].my + 1
     \/ Won(p) + Cardinality(UpTo(p, cons[c].my)) <= tailIndex[p]

\* Every attempt is counted once: it has an index, or is under way, or has failed.
Counts(p) ==
  /\ dequeueOptimisticCount[p] = Won(p) + Cardinality(AllAt(p, "recheck"))
                                 + Cardinality(AllAt(p, "giveup")) + dequeueOvercommit[p]
  /\ Won(p) <= tailIndex[p]
  /\ \A c \in AllAt(p, "recheck") : Bound(c, p)

\* The inductive invariant of the counters.
CountInv == CountTypes /\ \A p \in Producer : Counts(p)

-----------------------------------------------------------------------------
(***************************************************************************)
(* ImplicitProducer, the counters: facts about sets of consumers           *)
(***************************************************************************)

\* One consumer more or less in a set of consumers.
LEMMA OneConsumer ==
  ASSUME NEW S, S \subseteq Consumer, NEW c
  PROVE  /\ IsFiniteSet(S) /\ Cardinality(S) \in Nat
         /\ c \notin S => Cardinality(S \cup {c}) = Cardinality(S) + 1
         /\ c \in S => Cardinality(S \ {c}) = Cardinality(S) - 1 /\ Cardinality(S) > 0
         /\ S = {} => Cardinality(S) = 0
<1>1. IsFiniteSet(S) /\ Cardinality(S) \in Nat
  BY ImplicitProducerAssumption, FS_Subset, FS_CardinalityType
<1>2. c \notin S => Cardinality(S \cup {c}) = Cardinality(S) + 1
  BY <1>1, FS_AddElement
<1>3. Cardinality(S) = 0 <=> S = {}
  BY <1>1, FS_EmptySet
<1>4. c \in S => Cardinality(S \ {c}) = Cardinality(S) - 1
  BY <1>1, FS_RemoveElement
<1>5. c \in S => Cardinality(S) > 0
  BY <1>1, <1>3
<1> QED
  BY <1>1, <1>2, <1>3, <1>4, <1>5

\* A larger set counts more.
LEMMA MoreConsumers ==
  ASSUME NEW S, NEW T, S \subseteq T, T \subseteq Consumer
  PROVE  /\ Cardinality(S) <= Cardinality(T)
         /\ \A c : c \in T /\ c \notin S => Cardinality(S) + 1 <= Cardinality(T)
<1>1. IsFiniteSet(T) /\ IsFiniteSet(S) /\ Cardinality(S) \in Nat /\ Cardinality(T) \in Nat
  BY OneConsumer
<1>2. Cardinality(S) <= Cardinality(T)
  BY <1>1, FS_Subset
<1>3. ASSUME NEW c, c \in T, c \notin S PROVE Cardinality(S) + 1 <= Cardinality(T)
  <2>1. S \cup {c} \subseteq T
    BY <1>3
  <2>2. Cardinality(S \cup {c}) <= Cardinality(T)
    BY <1>1, <2>1, FS_Subset
  <2>3. Cardinality(S \cup {c}) = Cardinality(S) + 1
    BY <1>1, <1>3, FS_AddElement
  <2> QED
    BY <2>2, <2>3
<1> QED
  BY <1>2, <1>3

\* What a consumer's step changes.
LEMMA Goes ==
  ASSUME cons = [c \in Consumer |-> cons[c]], NEW c \in Consumer, NEW r, cgoto(c, r)
  PROVE  /\ cons'[c] = r /\ \A d \in Consumer : d # c => cons'[d] = cons[d]
         /\ cons' = [d \in Consumer |-> cons'[d]]
  BY DEF cgoto

\* The numbers in the invariant.
LEMMA CountNumbers ==
  ASSUME CountInv, NEW p \in Producer
  PROVE  /\ headIndex[p] \in Nat /\ tailIndex[p] \in Nat
         /\ dequeueOptimisticCount[p] \in Nat /\ dequeueOvercommit[p] \in Nat
         /\ \A where : AllAt(p, where) \subseteq Consumer /\ Cardinality(AllAt(p, where)) \in Nat
         /\ \A m : UpTo(p, m) \subseteq AllAt(p, "recheck") /\ Cardinality(UpTo(p, m)) \in Nat
         /\ Won(p) \in Nat
<1>1. /\ headIndex[p] \in Nat /\ tailIndex[p] \in Nat
      /\ dequeueOptimisticCount[p] \in Nat /\ dequeueOvercommit[p] \in Nat
  BY DEF CountInv, CountTypes
<1>2. ASSUME NEW where PROVE AllAt(p, where) \subseteq Consumer /\ Cardinality(AllAt(p, where)) \in Nat
  <2>1. AllAt(p, where) \subseteq Consumer
    BY DEF AllAt
  <2> QED
    BY <2>1, OneConsumer
<1>3. ASSUME NEW m PROVE UpTo(p, m) \subseteq AllAt(p, "recheck") /\ Cardinality(UpTo(p, m)) \in Nat
  <2>1. UpTo(p, m) \subseteq AllAt(p, "recheck")
    BY DEF UpTo
  <2>2. UpTo(p, m) \subseteq Consumer
    BY <1>2, <2>1
  <2> QED
    BY <2>1, <2>2, OneConsumer
<1>4. Won(p) \in Nat
  BY <1>1, <1>2 DEF Won
<1> QED
  BY <1>1, <1>2, <1>3, <1>4

-----------------------------------------------------------------------------
(***************************************************************************)
(* ImplicitProducer, the counters: the steps                               *)
(***************************************************************************)

\* Only consumer c moves.
OnlyCons(c) ==
  /\ cons' = [d \in Consumer |-> cons'[d]]
  /\ \A d \in Consumer : d # c => cons'[d] = cons[d]

\* The consumers of q that count are the same, and q's numbers, but for a tail
\* that may have advanced.
LEMMA CountsSame ==
  ASSUME CountInv, NEW q \in Producer,
         AllAt(q, "head")' = AllAt(q, "head"),
         AllAt(q, "recheck")' = AllAt(q, "recheck"),
         AllAt(q, "giveup")' = AllAt(q, "giveup"),
         \A d \in AllAt(q, "recheck") : cons'[d] = cons[d],
         headIndex'[q] = headIndex[q],
         dequeueOptimisticCount'[q] = dequeueOptimisticCount[q],
         dequeueOvercommit'[q] = dequeueOvercommit[q],
         tailIndex'[q] \in Nat, tailIndex'[q] >= tailIndex[q]
  PROVE  Counts(q)'
<1>1. Won(q)' = Won(q)
  BY DEF Won
<1>2. \A m : UpTo(q, m)' = UpTo(q, m)
  BY DEF UpTo
<1>3. Won(q)' <= tailIndex'[q]
  BY <1>1, CountNumbers DEF CountInv, Counts
<1>4. ASSUME NEW d \in AllAt(q, "recheck") PROVE Bound(d, q)'
  <2>1. cons'[d].my = cons[d].my /\ cons'[d].over = cons[d].over
    OBVIOUS
  <2>2. Bound(d, q)
    BY DEF CountInv, Counts
  <2>3. UpTo(q, cons[d].my)' = UpTo(q, cons[d].my)
    BY <1>2
  <2>4. Cardinality(UpTo(q, cons[d].my)) \in Nat /\ Won(q) \in Nat /\ tailIndex[q] \in Nat
    BY CountNumbers
  <2> QED
    BY <1>1, <1>2, <2>1, <2>2, <2>3, <2>4 DEF Bound
<1> QED
  BY <1>1, <1>3, <1>4 DEF CountInv, Counts

\* A consumer that does not count, before and after.
LEMMA AtSame ==
  ASSUME NEW c \in Consumer, OnlyCons(c), NEW q, NEW where, ~At(c, q, where), ~At(c, q, where)'
  PROVE  AllAt(q, where)' = AllAt(q, where)
  BY DEF AllAt, At, OnlyCons

\* A consumer that starts or ceases to count.
LEMMA AtMore ==
  ASSUME NEW c \in Consumer, OnlyCons(c), NEW q, NEW where, At(c, q, where)'
  PROVE  AllAt(q, where)' = AllAt(q, where) \cup {c}
  BY DEF AllAt, At, OnlyCons

\* And one consumer less.
LEMMA AtLess ==
  ASSUME NEW c \in Consumer, OnlyCons(c), NEW q, NEW where, ~At(c, q, where)'
  PROVE  AllAt(q, where)' = AllAt(q, where) \ {c}
  BY DEF AllAt, At, OnlyCons

\* c has nothing to do with the counters of q.
LEMMA CountsOther ==
  ASSUME CountInv, NEW c \in Consumer, OnlyCons(c), NEW q \in Producer,
         \A where \in {"head", "recheck", "giveup"} : ~At(c, q, where) /\ ~At(c, q, where)',
         headIndex'[q] = headIndex[q],
         dequeueOptimisticCount'[q] = dequeueOptimisticCount[q],
         dequeueOvercommit'[q] = dequeueOvercommit[q], tailIndex' = tailIndex
  PROVE  Counts(q)'
<1>1. /\ AllAt(q, "head")' = AllAt(q, "head")
      /\ AllAt(q, "recheck")' = AllAt(q, "recheck")
      /\ AllAt(q, "giveup")' = AllAt(q, "giveup")
  BY AtSame
<1>2. \A d \in AllAt(q, "recheck") : cons'[d] = cons[d]
  BY DEF AllAt, OnlyCons
<1>3. tailIndex'[q] \in Nat /\ tailIndex'[q] >= tailIndex[q]
  BY CountNumbers
<1> QED
  BY <1>1, <1>2, <1>3, CountsSame

\* A step of a consumer that leaves the counters alone.
LEMMA QuietStep ==
  ASSUME CountInv, NEW c \in Consumer, OnlyCons(c), UNCHANGED countVars, Asking(c)',
         cons[c].at \notin {"head", "recheck", "giveup"},
         cons'[c].at \notin {"head", "recheck", "giveup"}
  PROVE  CountInv'
<1>1. ASSUME NEW q \in Producer PROVE Counts(q)'
  <2>1. \A where \in {"head", "recheck", "giveup"} : ~At(c, q, where) /\ ~At(c, q, where)'
    BY DEF At
  <2> QED
    BY <2>1, CountsOther DEF countVars
<1>2. CountTypes'
  <2>1. \A d \in Consumer : d # c => Asking(d)'
    BY DEF CountInv, CountTypes, Asking, OnlyCons, countVars
  <2> QED
    BY <2>1 DEF CountInv, CountTypes, OnlyCons, countVars
<1> QED
  BY <1>1, <1>2 DEF CountInv

\* claim: the consumer gets the next number.
LEMMA ClaimCounts ==
  ASSUME CountInv, NEW c \in Consumer, claim(c)
  PROVE  CountInv'
<1>1. PICK p \in Producer : p = cons[c].p
  BY DEF CountInv, CountTypes, Asking, claim
<1>2. /\ OnlyCons(c) /\ cons[c].at = "count" /\ cons[c].rest \subseteq Producer
      /\ cons[c].over \in Nat /\ cons[c].over <= dequeueOvercommit[p]
  BY <1>1, Goes DEF CountInv, CountTypes, Asking, claim, OnlyCons
<1>3. /\ cons'[c].at = "recheck" /\ cons'[c].p = p /\ cons'[c].rest = cons[c].rest
      /\ cons'[c].over = cons[c].over /\ cons'[c].my = dequeueOptimisticCount[p]
  BY <1>1, Goes DEF CountInv, CountTypes, claim
<1>4. /\ UNCHANGED <<tailIndex, headIndex, dequeueOvercommit>>
      /\ dequeueOptimisticCount' = [dequeueOptimisticCount EXCEPT ![p] = @ + 1]
  BY <1>1 DEF claim
<1>5. dequeueOptimisticCount'[p] = dequeueOptimisticCount[p] + 1
  BY <1>4 DEF CountInv, CountTypes
<1>6. CountTypes'
  <2>1. dequeueOptimisticCount' \in [Producer -> Nat]
    BY <1>4, CountNumbers DEF CountInv, CountTypes
  <2>2. ASSUME NEW d \in Consumer, d # c PROVE Asking(d)'
    BY <1>2, <1>4, <2>2 DEF CountInv, CountTypes, Asking, OnlyCons
  <2>3. Asking(c)'
    BY <1>2, <1>3, <1>4, CountNumbers DEF Asking
  <2> QED
    BY <1>2, <1>4, <2>1, <2>2, <2>3 DEF CountInv, CountTypes, OnlyCons
<1>7. ASSUME NEW q \in Producer, q # p PROVE Counts(q)'
  <2>1. \A where \in {"head", "recheck", "giveup"} : ~At(c, q, where) /\ ~At(c, q, where)'
    BY <1>1, <1>3, <1>7 DEF At
  <2>2. dequeueOptimisticCount'[q] = dequeueOptimisticCount[q]
    BY <1>4, <1>7 DEF CountInv, CountTypes
  <2> QED
    BY <1>2, <1>4, <2>1, <2>2, CountsOther
<1>8. Counts(p)'
  <2>1. AllAt(p, "head")' = AllAt(p, "head") /\ AllAt(p, "giveup")' = AllAt(p, "giveup")
    BY <1>2, <1>3, AtSame DEF At
  <2>2. AllAt(p, "recheck")' = AllAt(p, "recheck") \cup {c} /\ c \notin AllAt(p, "recheck")
    BY <1>2, <1>3, AtMore DEF At, AllAt
  <2>3. Cardinality(AllAt(p, "recheck")') = Cardinality(AllAt(p, "recheck")) + 1
    BY <2>2, OneConsumer, CountNumbers
  <2>4. Won(p)' = Won(p)
    BY <1>4, <2>1 DEF Won
  <2>5. dequeueOptimisticCount[p] = Won(p) + Cardinality(AllAt(p, "recheck"))
                                 + Cardinality(AllAt(p, "giveup")) + dequeueOvercommit[p]
    BY DEF CountInv, Counts
  <2>6. dequeueOptimisticCount'[p] = Won(p)' + Cardinality(AllAt(p, "recheck")')
                                 + Cardinality(AllAt(p, "giveup")') + dequeueOvercommit'[p]
    BY <1>4, <1>5, <2>1, <2>3, <2>4, <2>5, CountNumbers
  <2>7. Won(p)' <= tailIndex'[p]
    BY <1>4, <2>4 DEF CountInv, Counts
  <2>8. Bound(c, p)'
    <3>0. PICK m \in Nat : m = dequeueOptimisticCount[p]
      BY CountNumbers
    <3>1. UpTo(p, m)' \subseteq AllAt(p, "recheck")'
      BY DEF UpTo
    <3>2. AllAt(p, "recheck")' \subseteq Consumer
      BY DEF AllAt
    <3>3. Cardinality(UpTo(p, m)') <= Cardinality(AllAt(p, "recheck")) + 1
      BY <2>3, <3>1, <3>2, MoreConsumers
    <3>4. Cardinality(UpTo(p, m)') \in Nat
      BY <3>1, <3>2, OneConsumer
    <3>5. PICK n \in Nat : n = Cardinality(UpTo(p, m)')
      BY <3>4
    <3>6. n = Cardinality(UpTo(p, cons[c].my)')
      BY <1>3, <3>0, <3>5
    <3>7. Won(p) + n + cons[c].over <= dequeueOptimisticCount[p] + 1
      BY <1>2, <2>5, <3>3, <3>5, CountNumbers
    <3> QED
      BY <1>3, <1>5, <2>4, <3>6, <3>7, CountNumbers DEF Bound
  <2>9. ASSUME NEW d \in AllAt(p, "recheck") PROVE Bound(d, p)'
    <3>1. d # c /\ cons'[d] = cons[d] /\ Bound(d, p) /\ cons[d].my \in Nat
      BY <1>2, <2>2 DEF OnlyCons, AllAt, At, CountInv, Counts, CountTypes, Asking
    <3>2. UpTo(p, cons[d].my)' = UpTo(p, cons[d].my)
      <4>1. cons[d].my < dequeueOptimisticCount[p]
        BY <3>1 DEF Bound
      <4>2. ~(cons'[c].my <= cons[d].my)
        BY <1>3, <3>1, <4>1, CountNumbers
      <4>3. \A x \in AllAt(p, "recheck") : cons'[x] = cons[x]
        BY <1>2, <2>2 DEF OnlyCons, AllAt
      <4>4. cons'[d].my = cons[d].my
        BY <3>1
      <4> QED
        BY <2>2, <4>2, <4>3, <4>4 DEF UpTo
    <3> QED
      BY <1>4, <1>5, <2>4, <3>1, <3>2, CountNumbers DEF Bound
  <2> QED
    BY <2>2, <2>6, <2>7, <2>8, <2>9 DEF Counts
<1> QED
  BY <1>6, <1>7, <1>8 DEF CountInv

\* recheck: whoever sees an element left for it is promised one, and the others
\* that wait are not deprived of theirs.
LEMMA RecheckCounts ==
  ASSUME CountInv, NEW c \in Consumer, recheck(c)
  PROVE  CountInv'
<1>1. PICK p \in Producer : p = cons[c].p
  BY DEF CountInv, CountTypes, Asking, recheck
<1>2. /\ OnlyCons(c) /\ cons[c].at = "recheck" /\ cons[c].rest \subseteq Producer
      /\ cons[c].over \in Nat /\ cons[c].my \in Nat
  BY <1>1, Goes DEF CountInv, CountTypes, Asking, recheck, OnlyCons
<1>3. \/ cons[c].my - cons[c].over < tailIndex[p] /\ cons'[c].at = "head"
      \/ cons'[c].at = "giveup" /\ cons'[c].rest = cons[c].rest
  BY <1>1, Goes DEF CountInv, CountTypes, recheck
<1>4. cons'[c].p = p
  BY <1>1, Goes DEF CountInv, CountTypes, recheck
<1>5. UNCHANGED countVars
  BY DEF recheck
<1>6. CountTypes'
  <2>1. ASSUME NEW d \in Consumer, d # c PROVE Asking(d)'
    BY <1>2, <1>5, <2>1 DEF CountInv, CountTypes, Asking, OnlyCons, countVars
  <2>2. Asking(c)'
    BY <1>2, <1>3, <1>4 DEF Asking
  <2> QED
    BY <1>2, <1>5, <2>1, <2>2 DEF CountInv, CountTypes, OnlyCons, countVars
<1>7. ASSUME NEW q \in Producer, q # p PROVE Counts(q)'
  <2>1. \A where \in {"head", "recheck", "giveup"} : ~At(c, q, where) /\ ~At(c, q, where)'
    BY <1>1, <1>4, <1>7 DEF At
  <2> QED
    BY <1>2, <1>5, <2>1, CountsOther DEF countVars
<1>8. /\ AllAt(p, "recheck")' = AllAt(p, "recheck") \ {c} /\ c \in AllAt(p, "recheck")
      /\ Cardinality(AllAt(p, "recheck")') = Cardinality(AllAt(p, "recheck")) - 1
  <2>1. At(c, p, "recheck") /\ ~At(c, p, "recheck")'
    BY <1>1, <1>2, <1>3 DEF At
  <2>2. AllAt(p, "recheck")' = AllAt(p, "recheck") \ {c}
    BY <1>2, <2>1, AtLess
  <2>3. c \in AllAt(p, "recheck")
    BY <2>1 DEF AllAt
  <2> QED
    BY <2>2, <2>3, OneConsumer, CountNumbers
<1>9. dequeueOptimisticCount[p] = Won(p) + Cardinality(AllAt(p, "recheck"))
                                 + Cardinality(AllAt(p, "giveup")) + dequeueOvercommit[p]
  BY DEF CountInv, Counts
<1>10. ASSUME NEW d \in AllAt(p, "recheck"), d # c
       PROVE  /\ cons'[d] = cons[d] /\ cons[d].my \in Nat /\ cons[d].over \in Nat /\ Bound(d, p)
              /\ UpTo(p, cons[d].my)' = UpTo(p, cons[d].my) \ {c}
  <2>1. cons'[d] = cons[d]
    BY <1>2, <1>10 DEF OnlyCons, AllAt
  <2>2. Bound(d, p) /\ cons[d].my \in Nat /\ cons[d].over \in Nat
    BY DEF CountInv, Counts, CountTypes, Asking, AllAt, At
  <2>3. \A x \in AllAt(p, "recheck") : x # c => cons'[x] = cons[x]
    BY <1>2 DEF OnlyCons, AllAt
  <2>4. cons'[d].my = cons[d].my
    BY <2>1
  <2>5. UpTo(p, cons[d].my)' = UpTo(p, cons[d].my) \ {c}
    BY <1>8, <2>3, <2>4 DEF UpTo
  <2> QED
    BY <2>1, <2>2, <2>5
<1>11. c \in UpTo(p, cons[c].my) /\ Bound(c, p)
  BY <1>2, <1>8 DEF UpTo, CountInv, Counts
<1>12. CASE cons'[c].at = "head"
  <2>1. AllAt(p, "head")' = AllAt(p, "head") \cup {c} /\ c \notin AllAt(p, "head")
    BY <1>2, <1>4, <1>12, AtMore DEF At, AllAt
  <2>2. AllAt(p, "giveup")' = AllAt(p, "giveup")
    BY <1>2, <1>12, AtSame DEF At
  <2>3. Cardinality(AllAt(p, "head")') = Cardinality(AllAt(p, "head")) + 1
    BY <2>1, OneConsumer, CountNumbers
  <2>4. Won(p)' = Won(p) + 1
    BY <1>5, <2>3, CountNumbers DEF Won, countVars
  <2>5. cons[c].my - cons[c].over < tailIndex[p]
    BY <1>3, <1>12
  <2>6. Won(p) + Cardinality(UpTo(p, cons[c].my)) <= tailIndex[p]
    BY <1>2, <1>11, <2>5, CountNumbers DEF Bound
  <2>7. Cardinality(UpTo(p, cons[c].my)) > 0
    <3>1. UpTo(p, cons[c].my) \subseteq Consumer
      BY DEF UpTo, AllAt
    <3> QED
      BY <1>11, <3>1, OneConsumer
  <2>8. Won(p)' <= tailIndex'[p]
    BY <1>5, <2>4, <2>6, <2>7, CountNumbers DEF countVars
  <2>9. dequeueOptimisticCount'[p] = Won(p)' + Cardinality(AllAt(p, "recheck")')
                                 + Cardinality(AllAt(p, "giveup")') + dequeueOvercommit'[p]
    BY <1>5, <1>8, <1>9, <2>2, <2>4, CountNumbers DEF countVars
  <2>10. ASSUME NEW d \in AllAt(p, "recheck"), d # c PROVE Bound(d, p)'
    <3>1. PICK m \in Nat : m = cons[d].my
      BY <1>10, <2>10
    <3>2. PICK n \in Nat : n = Cardinality(UpTo(p, m))
      BY CountNumbers
    <3>3. PICK k \in Nat : k = Cardinality(UpTo(p, m)')
      <4>1. UpTo(p, m)' \subseteq Consumer
        BY DEF UpTo, AllAt
      <4> QED
        BY <4>1, OneConsumer
    <3>4. UpTo(p, m)' = UpTo(p, m) \ {c} /\ UpTo(p, m) \subseteq Consumer
      BY <1>10, <2>10, <3>1, CountNumbers
    <3>5. CASE cons[c].my <= m
      <4>1. c \in UpTo(p, m)
        BY <1>8, <3>5 DEF UpTo
      <4>2. k = n - 1
        BY <3>2, <3>3, <3>4, <4>1, OneConsumer
      <4>3. /\ m < dequeueOptimisticCount[p] /\ cons[d].over \in Nat
            /\ Won(p) + n + cons[d].over <= m + 1 \/ Won(p) + n <= tailIndex[p]
        BY <1>10, <2>10, <3>1, <3>2 DEF Bound
      <4>4. Won(p)' + k + cons[d].over <= m + 1 \/ Won(p)' + k <= tailIndex[p]
        BY <2>4, <4>2, <4>3, CountNumbers
      <4> QED
        BY <1>5, <1>10, <2>10, <3>1, <3>3, <4>3, <4>4 DEF Bound, countVars
    <3>6. CASE ~(cons[c].my <= m)
      <4>1. c \notin UpTo(p, m)
        BY <3>6 DEF UpTo
      <4>2. k = n
        BY <3>2, <3>3, <3>4, <4>1
      <4>3. UpTo(p, m) \subseteq UpTo(p, cons[c].my)
        <5>1. \A x \in AllAt(p, "recheck") : cons[x].my \in Nat
          BY DEF CountInv, CountTypes, Asking, AllAt, At
        <5> QED
          BY <1>2, <3>6, <5>1 DEF UpTo
      <4>4. UpTo(p, cons[c].my) \subseteq Consumer
        BY DEF UpTo, AllAt
      <4>5. n + 1 <= Cardinality(UpTo(p, cons[c].my))
        BY <1>11, <3>2, <4>1, <4>3, <4>4, MoreConsumers
      <4>6. Won(p)' + k <= tailIndex[p]
        BY <2>4, <2>6, <4>2, <4>5, CountNumbers
      <4> QED
        BY <1>5, <1>10, <2>10, <3>1, <3>3, <4>6 DEF Bound, countVars
    <3> QED
      BY <3>5, <3>6
  <2> QED
    BY <1>6, <1>7, <1>8, <2>8, <2>9, <2>10 DEF CountInv, Counts
<1>13. CASE cons'[c].at = "giveup"
  <2>1. AllAt(p, "giveup")' = AllAt(p, "giveup") \cup {c} /\ c \notin AllAt(p, "giveup")
    BY <1>2, <1>4, <1>13, AtMore DEF At, AllAt
  <2>2. AllAt(p, "head")' = AllAt(p, "head")
    BY <1>2, <1>13, AtSame DEF At
  <2>3. Cardinality(AllAt(p, "giveup")') = Cardinality(AllAt(p, "giveup")) + 1
    BY <2>1, OneConsumer, CountNumbers
  <2>4. Won(p)' = Won(p)
    BY <1>5, <2>2 DEF Won, countVars
  <2>5. dequeueOptimisticCount'[p] = Won(p)' + Cardinality(AllAt(p, "recheck")')
                                 + Cardinality(AllAt(p, "giveup")') + dequeueOvercommit'[p]
    BY <1>5, <1>8, <1>9, <2>3, <2>4, CountNumbers DEF countVars
  <2>6. Won(p)' <= tailIndex'[p]
    BY <1>5, <2>4 DEF countVars, CountInv, Counts
  <2>7. ASSUME NEW d \in AllAt(p, "recheck"), d # c PROVE Bound(d, p)'
    <3>1. PICK m \in Nat : m = cons[d].my
      BY <1>10, <2>7
    <3>2. PICK n \in Nat : n = Cardinality(UpTo(p, m))
      BY CountNumbers
    <3>3. UpTo(p, m)' \subseteq UpTo(p, m) /\ UpTo(p, m) \subseteq Consumer
      BY <1>10, <2>7, <3>1, CountNumbers
    <3>4. UpTo(p, m)' \subseteq Consumer
      BY <3>3
    <3>5. PICK k \in Nat : k = Cardinality(UpTo(p, m)')
      BY <3>4, OneConsumer
    <3>6. k <= n
      BY <3>2, <3>3, <3>5, MoreConsumers
    <3> QED
      BY <1>5, <1>10, <2>4, <2>7, <3>1, <3>2, <3>5, <3>6, CountNumbers DEF Bound, countVars
  <2> QED
    BY <1>6, <1>7, <1>8, <2>5, <2>6, <2>7 DEF CountInv, Counts
<1> QED
  BY <1>3, <1>12, <1>13

\* Where a consumer goes on when it has found nothing.
LEMMA NextTry ==
  ASSUME cons = [d \in Consumer |-> cons[d]], NEW c \in Consumer,
         cons[c].rest \subseteq Producer, tryNext(c)
  PROVE  /\ OnlyCons(c) /\ cons'[c].at \in {"idle", "tail"}
         /\ cons'[c].at = "tail" => cons'[c].p \in Producer /\ cons'[c].rest \subseteq Producer
<1>1. CASE cgoto(c, Idle)
  BY <1>1, Goes DEF OnlyCons, Idle
<1>2. ASSUME NEW q \in cons[c].rest, cgoto(c, [at |-> "tail", p |-> q, rest |-> cons[c].rest \ {q}])
      PROVE  /\ OnlyCons(c) /\ cons'[c].at \in {"idle", "tail"}
             /\ cons'[c].at = "tail" => cons'[c].p \in Producer /\ cons'[c].rest \subseteq Producer
  <2>1. /\ OnlyCons(c) /\ cons'[c] = [at |-> "tail", p |-> q, rest |-> cons[c].rest \ {q}]
    BY <1>2, Goes DEF OnlyCons
  <2> QED
    BY <2>1
<1> QED
  BY <1>1, <1>2 DEF tryNext

\* giveup
LEMMA GiveupCounts ==
  ASSUME CountInv, NEW c \in Consumer, giveup(c)
  PROVE  CountInv'
<1>1. PICK p \in Producer : p = cons[c].p
  BY DEF CountInv, CountTypes, Asking, giveup
<1>2. cons[c].at = "giveup" /\ cons[c].rest \subseteq Producer
  BY DEF CountInv, CountTypes, Asking, giveup
<1>3. /\ OnlyCons(c) /\ cons'[c].at \in {"idle", "tail"}
      /\ cons'[c].at = "tail" => cons'[c].p \in Producer /\ cons'[c].rest \subseteq Producer
  BY <1>2, NextTry DEF CountInv, CountTypes, giveup
<1>4. /\ UNCHANGED <<tailIndex, headIndex, dequeueOptimisticCount>>
      /\ dequeueOvercommit' = [dequeueOvercommit EXCEPT ![p] = @ + 1]
  BY <1>1 DEF giveup
<1>5. dequeueOvercommit'[p] = dequeueOvercommit[p] + 1
  BY <1>4 DEF CountInv, CountTypes
<1>6. CountTypes'
  <2>1. /\ dequeueOvercommit' \in [Producer -> Nat]
        /\ \A q \in Producer : dequeueOvercommit[q] <= dequeueOvercommit'[q]
    BY <1>4, CountNumbers DEF CountInv, CountTypes
  <2>2. ASSUME NEW d \in Consumer, d # c PROVE Asking(d)'
    <3>1. Asking(d) /\ cons'[d] = cons[d]
      BY <1>3, <2>2 DEF OnlyCons, CountInv, CountTypes
    <3>2. ASSUME cons[d].at \in {"check", "count", "recheck"}
          PROVE  cons[d].over <= dequeueOvercommit'[cons[d].p]
      <4>1. PICK q \in Producer : q = cons[d].p
        BY <3>1, <3>2 DEF Asking
      <4> QED
        BY <2>1, <3>1, <3>2, <4>1, CountNumbers DEF Asking
    <3> QED
      BY <3>1, <3>2 DEF Asking
  <2>3. Asking(c)'
    BY <1>3 DEF Asking
  <2> QED
    BY <1>3, <1>4, <2>1, <2>2, <2>3 DEF CountInv, CountTypes, OnlyCons
<1>7. ASSUME NEW q \in Producer, q # p PROVE Counts(q)'
  <2>1. \A where \in {"head", "recheck", "giveup"} : ~At(c, q, where) /\ ~At(c, q, where)'
    BY <1>1, <1>3, <1>7 DEF At
  <2>2. dequeueOvercommit'[q] = dequeueOvercommit[q]
    BY <1>4, <1>7 DEF CountInv, CountTypes
  <2> QED
    BY <1>3, <1>4, <2>1, <2>2, CountsOther
<1>8. Counts(p)'
  <2>1. AllAt(p, "head")' = AllAt(p, "head") /\ AllAt(p, "recheck")' = AllAt(p, "recheck")
    BY <1>2, <1>3, AtSame DEF At
  <2>2. AllAt(p, "giveup")' = AllAt(p, "giveup") \ {c} /\ c \in AllAt(p, "giveup")
    BY <1>1, <1>2, <1>3, AtLess DEF At, AllAt
  <2>3. Cardinality(AllAt(p, "giveup")') = Cardinality(AllAt(p, "giveup")) - 1
    BY <2>2, OneConsumer, CountNumbers
  <2>4. Won(p)' = Won(p)
    BY <1>4, <2>1 DEF Won
  <2>5. dequeueOptimisticCount[p] = Won(p) + Cardinality(AllAt(p, "recheck"))
                                 + Cardinality(AllAt(p, "giveup")) + dequeueOvercommit[p]
    BY DEF CountInv, Counts
  <2>6. dequeueOptimisticCount'[p] = Won(p)' + Cardinality(AllAt(p, "recheck")')
                                 + Cardinality(AllAt(p, "giveup")') + dequeueOvercommit'[p]
    BY <1>4, <1>5, <2>1, <2>3, <2>4, <2>5, CountNumbers
  <2>7. Won(p)' <= tailIndex'[p]
    BY <1>4, <2>4 DEF CountInv, Counts
  <2>8. ASSUME NEW d \in AllAt(p, "recheck") PROVE Bound(d, p)'
    <3>1. \A x \in AllAt(p, "recheck") : cons'[x] = cons[x]
      BY <1>2, <1>3 DEF OnlyCons, AllAt, At
    <3>2. cons'[d].my = cons[d].my /\ cons'[d].over = cons[d].over /\ Bound(d, p)
      BY <3>1 DEF CountInv, Counts
    <3>3. UpTo(p, cons[d].my)' = UpTo(p, cons[d].my)
      BY <2>1, <3>1, <3>2 DEF UpTo
    <3> QED
      BY <1>4, <2>4, <3>2, <3>3 DEF Bound
  <2> QED
    BY <2>1, <2>6, <2>7, <2>8 DEF Counts
<1> QED
  BY <1>6, <1>7, <1>8 DEF CountInv

\* dequeue: the promise is kept.
LEMMA DequeueCounts ==
  ASSUME CountInv, NEW c \in Consumer, dequeue(c)
  PROVE  CountInv'
<1>1. PICK p \in Producer : p = cons[c].p
  BY DEF CountInv, CountTypes, Asking, dequeue
<1>2. /\ cons[c].at = "head" /\ OnlyCons(c)
      /\ cons'[c] = [at |-> "header", p |-> p, index |-> headIndex[p]]
  BY <1>1, Goes DEF CountInv, CountTypes, dequeue, OnlyCons
<1>3. cons'[c].at = "header" /\ cons'[c].p = p
  BY <1>2
<1>4. /\ UNCHANGED <<tailIndex, dequeueOvercommit, dequeueOptimisticCount>>
      /\ headIndex' = [headIndex EXCEPT ![p] = @ + 1]
  BY <1>1 DEF dequeue
<1>5. headIndex'[p] = headIndex[p] + 1
  BY <1>4 DEF CountInv, CountTypes
<1>6. CountTypes'
  <2>1. headIndex' \in [Producer -> Nat]
    BY <1>4, CountNumbers DEF CountInv, CountTypes
  <2>2. ASSUME NEW d \in Consumer, d # c PROVE Asking(d)'
    BY <1>2, <1>4, <2>2 DEF OnlyCons, CountInv, CountTypes, Asking
  <2>3. Asking(c)'
    BY <1>3 DEF Asking
  <2> QED
    BY <1>2, <1>4, <2>1, <2>2, <2>3 DEF CountInv, CountTypes, OnlyCons
<1>7. ASSUME NEW q \in Producer, q # p PROVE Counts(q)'
  <2>1. \A where \in {"head", "recheck", "giveup"} : ~At(c, q, where) /\ ~At(c, q, where)'
    BY <1>1, <1>3, <1>7 DEF At
  <2>2. headIndex'[q] = headIndex[q]
    BY <1>4, <1>7 DEF CountInv, CountTypes
  <2> QED
    BY <1>2, <1>4, <2>1, <2>2, CountsOther
<1>8. Counts(p)'
  <2>1. AllAt(p, "giveup")' = AllAt(p, "giveup") /\ AllAt(p, "recheck")' = AllAt(p, "recheck")
    BY <1>2, <1>3, AtSame DEF At
  <2>2. AllAt(p, "head")' = AllAt(p, "head") \ {c} /\ c \in AllAt(p, "head")
    BY <1>1, <1>2, <1>3, AtLess DEF At, AllAt
  <2>3. Cardinality(AllAt(p, "head")') = Cardinality(AllAt(p, "head")) - 1
    BY <2>2, OneConsumer, CountNumbers
  <2>4. Won(p)' = Won(p)
    BY <1>5, <2>3, CountNumbers DEF Won
  <2>5. /\ dequeueOptimisticCount'[p] = Won(p)' + Cardinality(AllAt(p, "recheck")')
                                 + Cardinality(AllAt(p, "giveup")') + dequeueOvercommit'[p]
        /\ Won(p)' <= tailIndex'[p]
    BY <1>4, <2>1, <2>4 DEF CountInv, Counts
  <2>6. ASSUME NEW d \in AllAt(p, "recheck") PROVE Bound(d, p)'
    <3>1. \A x \in AllAt(p, "recheck") : cons'[x] = cons[x]
      BY <1>2 DEF OnlyCons, AllAt, At
    <3>2. cons'[d].my = cons[d].my /\ cons'[d].over = cons[d].over /\ Bound(d, p)
      BY <3>1 DEF CountInv, Counts
    <3>3. UpTo(p, cons[d].my)' = UpTo(p, cons[d].my)
      BY <2>1, <3>1, <3>2 DEF UpTo
    <3> QED
      BY <1>4, <2>4, <3>2, <3>3 DEF Bound
  <2> QED
    BY <2>1, <2>5, <2>6 DEF Counts
<1> QED
  BY <1>6, <1>7, <1>8 DEF CountInv

\* The steps by which a consumer looks for a producer, and those on its element.
Searches(c) == try_dequeue(c) \/ loadTail(c) \/ overcommit(c) \/ check(c)
Handles(c) ==
  \/ header(c) \/ htail(c) \/ hkey(c) \/ entry(c) \/ move(c)
  \/ set_empty(c) \/ clear(c) \/ add_block_to_free_list(c)

\* They do not touch the counters.
LEMMA SearchCounts ==
  ASSUME CountInv, NEW c \in Consumer, Searches(c)
  PROVE  /\ CountInv' /\ OnlyCons(c) /\ UNCHANGED countVars
         /\ cons[c].at \in {"idle", "tail", "overcommit", "check"}
         /\ cons'[c].at \in {"idle", "tail", "overcommit", "check", "count"}
<1>1. cons = [d \in Consumer |-> cons[d]] /\ Asking(c)
  BY DEF CountInv, CountTypes
<1>2. UNCHANGED countVars /\ cons[c].at \in {"idle", "tail", "overcommit", "check"}
  BY DEF Searches, try_dequeue, loadTail, overcommit, check
<1>3. /\ OnlyCons(c) /\ Asking(c)'
      /\ cons'[c].at \in {"idle", "tail", "overcommit", "check", "count"}
  <2>1. CASE try_dequeue(c)
    <3>1. PICK best \in Producer :
            cgoto(c, [at |-> "tail", p |-> best, rest |-> Producer \ {best}])
      BY <2>1 DEF try_dequeue
    <3>2. OnlyCons(c) /\ cons'[c] = [at |-> "tail", p |-> best, rest |-> Producer \ {best}]
      BY <1>1, <3>1, Goes DEF OnlyCons
    <3> QED
      BY <3>2 DEF Asking
  <2>2. CASE loadTail(c)
    <3>1. OnlyCons(c) /\ cons'[c] = [at |-> "overcommit", p |-> cons[c].p, rest |-> cons[c].rest,
                                     tail |-> tailIndex[cons[c].p]]
      BY <1>1, <2>2, Goes DEF OnlyCons, loadTail
    <3> QED
      BY <1>1, <2>2, <3>1 DEF Asking, loadTail
  <2>3. CASE overcommit(c)
    <3>1. OnlyCons(c) /\ cons'[c] = [at |-> "check", p |-> cons[c].p, rest |-> cons[c].rest,
                                     tail |-> cons[c].tail, over |-> dequeueOvercommit[cons[c].p]]
      BY <1>1, <2>3, Goes DEF OnlyCons, overcommit
    <3>2. cons[c].p \in Producer /\ cons[c].rest \subseteq Producer
      BY <1>1, <2>3 DEF Asking, overcommit
    <3>3. cons'[c].over = dequeueOvercommit'[cons'[c].p] /\ cons'[c].over \in Nat
      BY <1>2, <3>1, <3>2, CountNumbers DEF countVars
    <3> QED
      BY <3>1, <3>2, <3>3 DEF Asking
  <2>4. CASE check(c) /\ tryNext(c)
    <3>1. cons[c].rest \subseteq Producer
      BY <1>1, <2>4 DEF Asking, check
    <3> QED
      BY <1>1, <2>4, <3>1, NextTry DEF Asking
  <2>5. CASE check(c) /\ ~tryNext(c)
    <3>1. OnlyCons(c) /\ cons'[c] = [at |-> "count", p |-> cons[c].p, rest |-> cons[c].rest,
                                     over |-> cons[c].over]
      BY <1>1, <2>5, Goes DEF OnlyCons, check
    <3> QED
      BY <1>1, <1>2, <2>5, <3>1 DEF Asking, check, countVars
  <2> QED
    BY <2>1, <2>2, <2>3, <2>4, <2>5 DEF Searches
<1>4. CountInv'
  BY <1>2, <1>3, QuietStep
<1> QED
  BY <1>2, <1>3, <1>4

\* A consumer that has an index leaves the counters alone.
LEMMA HandleCounts ==
  ASSUME CountInv, NEW c \in Consumer, Handles(c)
  PROVE  /\ CountInv' /\ OnlyCons(c) /\ UNCHANGED countVars /\ cons[c].p \in Producer
         /\ cons[c].at \in {"header", "htail", "hkey", "entry", "move", "empty", "clear", "free"}
<1>1. cons = [d \in Consumer |-> cons[d]] /\ Asking(c)
  BY DEF CountInv, CountTypes
<1>2. /\ UNCHANGED countVars
      /\ cons[c].at \in {"header", "htail", "hkey", "entry", "move", "empty", "clear", "free"}
  BY DEF Handles, header, htail, hkey, entry, move, set_empty, clear, add_block_to_free_list
<1>3. cons[c].p \in Producer
  BY <1>1, <1>2 DEF Asking
<1>4. /\ OnlyCons(c)
      /\ cons'[c].at \in {"idle", "htail", "hkey", "entry", "move", "empty", "clear", "free"}
      /\ cons'[c].at # "idle" => cons'[c].p = cons[c].p
  <2>1. CASE header(c)
    BY <1>1, <2>1, Goes DEF header, OnlyCons
  <2>2. CASE htail(c)
    BY <1>1, <2>2, Goes DEF htail, OnlyCons
  <2>3. CASE hkey(c)
    <3>1. PICK e : cgoto(c, [at |-> "entry", p |-> cons[c].p, index |-> cons[c].index, entry |-> e])
      BY <2>3, Zenon DEF hkey
    <3> QED
      BY <1>1, <3>1, Goes DEF OnlyCons
  <2>4. CASE entry(c)
    BY <1>1, <2>4, Goes DEF entry, OnlyCons, Using
  <2>5. CASE move(c)
    BY <1>1, <2>5, Goes DEF move, OnlyCons, Using
  <2>6. CASE set_empty(c)
    <3>1. PICK r : cgoto(c, r) /\ (r = Idle \/ r = Using("clear", c, cons[c].block))
      BY <2>6 DEF set_empty
    <3> QED
      BY <1>1, <3>1, Goes DEF OnlyCons, Using, Idle
  <2>7. CASE clear(c)
    BY <1>1, <2>7, Goes DEF clear, OnlyCons, Using
  <2>8. CASE add_block_to_free_list(c)
    BY <1>1, <2>8, Goes DEF add_block_to_free_list, OnlyCons, Idle
  <2> QED
    BY <2>1, <2>2, <2>3, <2>4, <2>5, <2>6, <2>7, <2>8 DEF Handles
<1>5. Asking(c)'
  BY <1>3, <1>4 DEF Asking
<1>6. CountInv'
  BY <1>2, <1>4, <1>5, QuietStep
<1> QED
  BY <1>2, <1>3, <1>4, <1>6

\* The steps of a producer, in which the tail can only advance.
Produces(p) ==
  \/ enqueue(p) \/ insert(p) \/ key(p) \/ tail(p) \/ requisition_block(p) \/ value(p)
  \/ construct(p) \/ publish(p)

\* A producer only ever advances tailIndex.
LEMMA ProduceCounts ==
  ASSUME CountInv, NEW p \in Producer, Produces(p) \/ UNCHANGED queueVars
  PROVE  /\ CountInv' /\ UNCHANGED <<headIndex, dequeueOptimisticCount, dequeueOvercommit, cons>>
         /\ \A q \in Producer : tailIndex[q] <= tailIndex'[q]
<1>1. /\ UNCHANGED <<headIndex, dequeueOptimisticCount, dequeueOvercommit, cons>>
      /\ tailIndex' = tailIndex \/ tailIndex' = [tailIndex EXCEPT ![p] = @ + 1]
  BY DEF Produces, enqueue, insert, key, tail, requisition_block, value, construct, publish,
         countVars, queueVars
<1>2. tailIndex' \in [Producer -> Nat] /\ \A q \in Producer : tailIndex[q] <= tailIndex'[q]
  BY <1>1, CountNumbers DEF CountInv, CountTypes
<1>3. CountTypes'
  BY <1>1, <1>2 DEF CountInv, CountTypes, Asking
<1>4. ASSUME NEW q \in Producer PROVE Counts(q)'
  <2>1. \A where : AllAt(q, where)' = AllAt(q, where)
    BY <1>1 DEF AllAt, At
  <2> QED
    BY <1>1, <1>2, <2>1, CountsSame
<1> QED
  BY <1>1, <1>2, <1>3, <1>4 DEF CountInv

\* Every step keeps the counters right.
LEMMA CountNext == CountInv /\ [QueueNext]_queueVars => CountInv'
<1> SUFFICES ASSUME CountInv, [QueueNext]_queueVars PROVE CountInv'
  OBVIOUS
<1>1. ASSUME NEW p \in Producer, Produces(p) PROVE CountInv'
  BY <1>1, ProduceCounts
<1>2. ASSUME NEW c \in Consumer,
             Searches(c) \/ Handles(c) \/ claim(c) \/ recheck(c) \/ giveup(c) \/ dequeue(c)
      PROVE  CountInv'
  BY <1>2, SearchCounts, HandleCounts, ClaimCounts, RecheckCounts, GiveupCounts, DequeueCounts
<1>3. CASE UNCHANGED queueVars
  <2>1. CASE Producer = {}
    BY <1>3, <2>1 DEF CountInv, CountTypes, Asking, queueVars
  <2>2. CASE Producer # {}
    BY <1>3, <2>2, ProduceCounts
  <2> QED
    BY <2>1, <2>2
<1> QED
  BY <1>1, <1>2, <1>3 DEF QueueNext, Produces, Searches, Handles

\* No consumer has counted itself in at first.
LEMMA CountInit == QueueInit => CountInv
<1> SUFFICES ASSUME QueueInit PROVE CountInv
  OBVIOUS
<1>1. CountTypes
  BY DEF QueueInit, CountTypes, Asking, Idle
<1>2. ASSUME NEW p \in Producer PROVE Counts(p)
  <2>1. AllAt(p, "head") = {} /\ AllAt(p, "recheck") = {} /\ AllAt(p, "giveup") = {}
    BY DEF QueueInit, AllAt, At, Idle
  <2>2. /\ Cardinality(AllAt(p, "head")) = 0 /\ Cardinality(AllAt(p, "recheck")) = 0
        /\ Cardinality(AllAt(p, "giveup")) = 0
    BY <2>1, OneConsumer
  <2>3. /\ headIndex[p] = 0 /\ tailIndex[p] = 0 /\ dequeueOptimisticCount[p] = 0
        /\ dequeueOvercommit[p] = 0
    BY DEF QueueInit
  <2> QED
    BY <2>1, <2>2, <2>3 DEF Counts, Won
<1> QED
  BY <1>1, <1>2 DEF CountInv

\* What the counters come to.
LEMMA CountsSettle ==
  ASSUME CountInv
  PROVE  AttemptsSettle /\ \A p \in Producer : headIndex[p] <= tailIndex[p]
<1> SUFFICES ASSUME NEW p \in Producer
             PROVE  /\ headIndex[p] <= tailIndex[p]
                    /\ (\A c \in Consumer : cons[c].at = "idle" \/ cons[c].p # p) =>
                         dequeueOptimisticCount[p] - dequeueOvercommit[p] = headIndex[p]
  BY DEF AttemptsSettle
<1>1. headIndex[p] <= tailIndex[p]
  BY CountNumbers DEF CountInv, Counts, Won
<1>2. ASSUME \A c \in Consumer : cons[c].at = "idle" \/ cons[c].p # p
      PROVE  dequeueOptimisticCount[p] - dequeueOvercommit[p] = headIndex[p]
  <2>1. AllAt(p, "head") = {} /\ AllAt(p, "recheck") = {} /\ AllAt(p, "giveup") = {}
    BY <1>2 DEF AllAt, At
  <2>2. /\ Cardinality(AllAt(p, "head")) = 0 /\ Cardinality(AllAt(p, "recheck")) = 0
        /\ Cardinality(AllAt(p, "giveup")) = 0
    BY <2>1, OneConsumer
  <2> QED
    BY <2>2, CountNumbers DEF CountInv, Counts, Won
<1> QED
  BY <1>1, <1>2

\* ImplicitProducer::dequeue: headIndex never passes tailIndex, although the
\* consumers count themselves in before they know that there is an element, and
\* the failed attempts are made up for.
THEOREM CountersAgree ==
  QueueSpec => [](AttemptsSettle /\ \A p \in Producer : headIndex[p] <= tailIndex[p])
<1>1. CountInv => AttemptsSettle /\ \A p \in Producer : headIndex[p] <= tailIndex[p]
  BY CountsSettle
<1> QED
  BY <1>1, CountInit, CountNext, PTL DEF QueueSpec

-----------------------------------------------------------------------------
(***************************************************************************)
(* ImplicitProducer, the elements: the inductive invariant                 *)
(***************************************************************************)

\* The first index in the block of index i.
Base(i) == i - (i % BLOCK_SIZE)

\* The position j back from position t in a ring of n.
Back(t, j, n) == (t - j) % n

\* The current table of producer p, its size, and the entry j back from its tail.
Tab(p) == headers[p][Len(headers[p])]
N(p) == Len(Tab(p).index)
Slot(p, j) == Tab(p).index[Back(Tab(p).tail, j, N(p)) + 1]

\* The fields of entry e of producer p.
Key(p, e) == entries[p][e].key
Value(p, e) == entries[p][e].value

\* c has index i of p and has yet to read it, or to say that it is done.
Unread(c, p, i) ==
  /\ cons[c].at \in {"header", "htail", "hkey", "entry", "move"}
  /\ cons[c].p = p /\ cons[c].index = i
Works(c, p, i) ==
  /\ cons[c].at \in {"header", "htail", "hkey", "entry", "move", "empty"}
  /\ cons[c].p = p /\ cons[c].index = i

\* Index i of p is still to be read, or still to be counted.
Pending(p, i) == i >= headIndex[p] \/ \E c \in Consumer : Unread(c, p, i)
Todo(p, i) == i >= headIndex[p] \/ \E c \in Consumer : Works(c, p, i)

\* The indices of the block with first index k that are done.
Finished(p, k) == {i \in k .. k + BLOCK_SIZE - 1 : ~Todo(p, i)}

\* The types of what the elements are reached through.
HeaderType == [tail : Nat, index : Seq(Nat)]
EntryType == [key : Nat, value : Int]

ElementTypes ==
  /\ headers \in [Producer -> Seq(HeaderType)] /\ entries \in [Producer -> Seq(EntryType)]
  /\ tailBlock \in [Producer -> Nat]
  /\ elements = [b \in Block |-> [i \in 0 .. BLOCK_SIZE - 1 |-> elements[b][i]]]
  /\ elementsCompletelyDequeued \in [Block -> Nat]
  /\ made \in 0 .. MaxBlock /\ freeBlocks \subseteq 1 .. made
  /\ prod = [p \in Producer |-> prod[p]]
  /\ taken = [p \in Producer |-> taken[p]]

\* Tables lead to entries.
Table(p, h) ==
  /\ Len(headers[p][h].index) > 1 /\ headers[p][h].tail < Len(headers[p][h].index)
  /\ \A i \in 1 .. Len(headers[p][h].index) : headers[p][h].index[i] \in 1 .. Len(entries[p])

\* The current table leads to each entry, by one position.
Ring(p) ==
  /\ Len(headers[p]) > 0
  /\ \A h \in 1 .. Len(headers[p]) : Table(p, h)
  /\ \A e \in 1 .. Len(entries[p]) : \E j \in 0 .. N(p) - 1 : e = Slot(p, j)
  /\ \A i, j \in 0 .. N(p) - 1 : Slot(p, i) = Slot(p, j) => i = j

\* The first index of the block that the entry at the tail is for.
Top(p) ==
  IF prod[p].at \in {"requisition", "value", "construct", "publish"}
  THEN Base(tailIndex[p]) ELSE Base(tailIndex[p] - 1)

\* An entry that has not been used.
Unused(p, e) == Key(p, e) = INVALID_BLOCK_BASE /\ Value(p, e) = JUNK

\* The entry for the block that is needed next.
Early(p, e) ==
  /\ Key(p, e) = tailIndex[p] /\ Top(p) < tailIndex[p] /\ tailIndex[p] % BLOCK_SIZE = 0
  /\ Value(p, e) = 0 \/ (prod[p].at = "tail" /\ Value(p, e) = JUNK)

\* Back from the tail, the entries are for one block after the other.
Window(p) ==
  /\ \A j \in 0 .. N(p) - 1 :
       \/ Unused(p, Slot(p, j))
       \/ Key(p, Slot(p, j)) = Top(p) - j * BLOCK_SIZE
       \/ j = N(p) - 1 /\ Early(p, Slot(p, j))
  /\ Top(p) >= 0 => Key(p, Slot(p, 0)) = Top(p)
  /\ prod[p].at = "requisition" /\ Top(p) >= BLOCK_SIZE =>
       Key(p, Slot(p, 1)) = Top(p) - BLOCK_SIZE

\* What the producer has done of its operation.
Phase(p) ==
  /\ prod[p].at \in {"idle", "insert", "key", "tail", "requisition", "value", "construct", "publish"}
  /\ prod[p].at \in {"insert", "key", "tail", "requisition", "value"} =>
       tailIndex[p] % BLOCK_SIZE = 0
  /\ prod[p].at = "key" => \/ Key(p, Slot(p, N(p) - 1)) = INVALID_BLOCK_BASE
                           \/ Value(p, Slot(p, N(p) - 1)) = 0
  /\ prod[p].at = "tail" => /\ Key(p, Slot(p, N(p) - 1)) = tailIndex[p]
                            /\ Value(p, Slot(p, N(p) - 1)) \notin Block
  /\ prod[p].at \in {"requisition", "value"} =>
       prod[p].entry = Slot(p, 0) /\ Value(p, Slot(p, 0)) \notin Block
  /\ tailIndex[p] % BLOCK_SIZE # 0 \/ prod[p].at \in {"construct", "publish"} =>
       Value(p, Slot(p, 0)) = tailBlock[p] /\ tailBlock[p] \in Block

\* The first index of the last block that has been installed.
Newest(p) ==
  IF prod[p].at \in {"construct", "publish"}
  THEN Base(tailIndex[p]) ELSE Base(tailIndex[p] - 1)

\* As long as something is to be done in a block, its entry leads to it.
Installed(p) ==
  \A i \in Nat : Base(i) <= Newest(p) /\ Todo(p, i) =>
    \E e \in 1 .. Len(entries[p]) : Key(p, e) = Base(i) /\ Value(p, e) \in Block

\* A block that an entry leads to: nobody else has it, the count of its
\* finished elements is right, and the others are there.
Holds(p, e) ==
  /\ Key(p, e) # INVALID_BLOCK_BASE
  /\ elementsCompletelyDequeued[Value(p, e)] = Cardinality(Finished(p, Key(p, e)))
  /\ \A i \in Key(p, e) .. Key(p, e) + BLOCK_SIZE - 1 :
       /\ i < tailIndex[p] \/ (i = tailIndex[p] /\ prod[p].at = "publish")
       /\ Pending(p, i)
       => elements[Value(p, e)][i % BLOCK_SIZE] = <<p, i>>

\* A producer has taken block b to install it; consumer c has it to give it back.
Reserved(b) == \E p \in Producer : prod[p].at = "value" /\ prod[p].block = b
Returned(c, b) == cons[c].at = "free" /\ cons[c].block = b

\* Nobody else has the block of entry e.
Alone(p, e) ==
  /\ Value(p, e) <= made /\ Value(p, e) \notin freeBlocks
  /\ ~Reserved(Value(p, e))
  /\ \A c \in Consumer : ~Returned(c, Value(p, e))
  /\ \A q \in Producer : \A f \in 1 .. Len(entries[q]) :
       Value(q, f) = Value(p, e) => q = p /\ f = e

\* Both for every entry that leads to a block.
Entries(p) ==
  \A e \in 1 .. Len(entries[p]) : Value(p, e) \in Block => Holds(p, e) /\ Alone(p, e)

\* The blocks that threads have on their own.
Blocks ==
  /\ \A p \in Producer : prod[p].at = "value" =>
       /\ prod[p].block \in 1 .. made /\ prod[p].block \notin freeBlocks
       /\ elementsCompletelyDequeued[prod[p].block] = 0
       /\ \A q \in Producer : prod[q].at = "value" /\ prod[q].block = prod[p].block => q = p
       /\ \A c \in Consumer : ~Returned(c, prod[p].block)
  /\ \A c \in Consumer : cons[c].at = "free" =>
       /\ cons[c].block \in 1 .. made /\ cons[c].block \notin freeBlocks
       /\ \A d \in Consumer : Returned(d, cons[c].block) => d = c

\* Counting back from position t of table h leads to the entry for index i.
Covers(p, h, t, i) ==
  \E j \in 0 .. Len(headers[p][h].index) - 1 :
    /\ Key(p, headers[p][h].index[t + 1]) = Base(i) + j * BLOCK_SIZE
    /\ Key(p, headers[p][h].index[Back(t, j, Len(headers[p][h].index)) + 1]) = Base(i)

\* The local variables of a consumer that has an index.
Reading(c, p) ==
  /\ cons[c].at \in {"header", "htail", "hkey", "entry", "move", "empty", "clear"} =>
       cons[c].index \in Nat /\ cons[c].index < headIndex[p]
  /\ cons[c].at \in {"header", "htail", "hkey", "entry", "move", "empty"} =>
       \A d \in Consumer : Works(d, p, cons[c].index) => d = c
  /\ cons[c].at \in {"htail", "hkey"} => cons[c].h \in 1 .. Len(headers[p])
  /\ cons[c].at = "htail" /\ cons[c].h < Len(headers[p]) =>
       Covers(p, cons[c].h, headers[p][cons[c].h].tail, cons[c].index)
  /\ cons[c].at = "hkey" =>
       /\ cons[c].tail \in 0 .. Len(headers[p][cons[c].h].index) - 1
       /\ Covers(p, cons[c].h, cons[c].tail, cons[c].index)
  /\ cons[c].at \in {"entry", "move", "empty", "clear"} =>
       /\ cons[c].entry \in 1 .. Len(entries[p])
       /\ Key(p, cons[c].entry) = Base(cons[c].index)
  /\ cons[c].at \in {"move", "empty", "clear"} =>
       Value(p, cons[c].entry) = cons[c].block /\ cons[c].block \in Block
  /\ cons[c].at = "clear" =>
       /\ Finished(p, Base(cons[c].index)) = Base(cons[c].index) .. Base(cons[c].index) + BLOCK_SIZE - 1
       /\ \A d \in Consumer : cons[d].at = "clear" /\ cons[d].block = cons[c].block => d = c

\* The inductive invariant of the elements.
ElementInv ==
  /\ ElementTypes
  /\ \A p \in Producer : Ring(p) /\ Window(p) /\ Phase(p) /\ Installed(p) /\ Entries(p)
  /\ Blocks
  /\ \A c \in Consumer : cons[c].at # "idle" => Reading(c, cons[c].p)
  /\ DequeuedExact

IInv == CountInv /\ ElementInv

-----------------------------------------------------------------------------
(***************************************************************************)
(* ImplicitProducer, the elements: arithmetic of blocks and rings          *)
(***************************************************************************)

\* Blocks have at least two elements.
LEMMA BlockSize == BLOCK_SIZE \in Nat /\ BLOCK_SIZE > 1
  BY ImplicitProducerAssumption

\* The first index of a block is a multiple of its size, and near.
LEMMA BaseFacts ==
  ASSUME NEW i \in Int
  PROVE  /\ Base(i) \in Int /\ Base(i) <= i /\ i < Base(i) + BLOCK_SIZE
         /\ i % BLOCK_SIZE = i - Base(i) /\ i % BLOCK_SIZE \in 0 .. BLOCK_SIZE - 1
         /\ \E q \in Int : Base(i) = q * BLOCK_SIZE
         /\ i >= 0 => Base(i) >= 0
<1>1. /\ i % BLOCK_SIZE \in 0 .. BLOCK_SIZE - 1
      /\ Base(i) = (i \div BLOCK_SIZE) * BLOCK_SIZE /\ (i \div BLOCK_SIZE) \in Int
  BY BlockSize DEF Base
<1>2. i >= 0 => Base(i) >= 0
  BY <1>1, BlockSize
<1>3. /\ Base(i) \in Int /\ Base(i) <= i /\ i < Base(i) + BLOCK_SIZE
      /\ i % BLOCK_SIZE = i - Base(i)
  BY <1>1, BlockSize DEF Base
<1>4. \E q \in Int : Base(i) = q * BLOCK_SIZE
  BY <1>1
<1> QED
  BY <1>1, <1>2, <1>3, <1>4

\* A remainder is the only one.
LEMMA ModUnique ==
  ASSUME NEW q \in Int, NEW r \in 0 .. BLOCK_SIZE - 1
  PROVE  (q * BLOCK_SIZE + r) % BLOCK_SIZE = r
  BY BlockSize

\* All indices from one multiple to the next are in one block.
LEMMA BaseOf ==
  ASSUME NEW q \in Int, NEW k \in Int, k = q * BLOCK_SIZE, NEW i \in k .. k + BLOCK_SIZE - 1
  PROVE  Base(i) = k
<1>1. PICK r \in 0 .. BLOCK_SIZE - 1 : i = q * BLOCK_SIZE + r
  BY BlockSize
<1>2. i % BLOCK_SIZE = r
  BY <1>1, ModUnique
<1> QED
  BY <1>1, <1>2, BlockSize DEF Base

\* Multiples of the block size.
LEMMA Mults ==
  ASSUME NEW a \in Int, NEW b \in Int
  PROVE  /\ a * BLOCK_SIZE < b * BLOCK_SIZE => a * BLOCK_SIZE + BLOCK_SIZE <= b * BLOCK_SIZE /\ a < b
         /\ (a + 1) * BLOCK_SIZE = a * BLOCK_SIZE + BLOCK_SIZE
         /\ (a - 1) * BLOCK_SIZE = a * BLOCK_SIZE - BLOCK_SIZE
         /\ a * BLOCK_SIZE = b * BLOCK_SIZE => a = b
         /\ (a - b) * BLOCK_SIZE = a * BLOCK_SIZE - b * BLOCK_SIZE
         /\ (a + b) * BLOCK_SIZE = a * BLOCK_SIZE + b * BLOCK_SIZE
         /\ a >= 0 <=> a * BLOCK_SIZE >= 0
         /\ a * BLOCK_SIZE # 1 /\ a * BLOCK_SIZE \in Int
  BY BlockSize

\* A number that can be the first index of a block.
Mult(k) == k \in Int /\ Base(k) = k

\* What the first indices of blocks are, and how they differ.
LEMMA MultFacts ==
  ASSUME NEW k \in Int, Mult(k)
  PROVE  /\ k # INVALID_BLOCK_BASE
         /\ k % BLOCK_SIZE = 0
         /\ Mult(k - BLOCK_SIZE) /\ Mult(k + BLOCK_SIZE)
         /\ \A j \in Int : Mult(k - j * BLOCK_SIZE) /\ Mult(k + j * BLOCK_SIZE)
         /\ \A i \in k .. k + BLOCK_SIZE - 1 : Base(i) = k /\ i % BLOCK_SIZE = i - k
         /\ \A i \in Int : Base(i) = k => i \in k .. k + BLOCK_SIZE - 1
         /\ Base(k - 1) = k - BLOCK_SIZE
<1>1. PICK q \in Int : k = q * BLOCK_SIZE
  BY BaseFacts DEF Mult
<1>2. k # INVALID_BLOCK_BASE
  BY <1>1, Mults DEF INVALID_BLOCK_BASE
<1>3. k % BLOCK_SIZE = 0
  BY BaseFacts DEF Mult
<1>4. \A i \in k .. k + BLOCK_SIZE - 1 : Base(i) = k /\ i % BLOCK_SIZE = i - k
  BY <1>1, BaseOf, BaseFacts
<1>5. \A i \in Int : Base(i) = k => i \in k .. k + BLOCK_SIZE - 1
  BY BaseFacts, BlockSize
<1>6. ASSUME NEW j \in Int PROVE Mult(k - j * BLOCK_SIZE) /\ Mult(k + j * BLOCK_SIZE)
  <2>1. /\ k - j * BLOCK_SIZE = (q - j) * BLOCK_SIZE /\ k + j * BLOCK_SIZE = (q + j) * BLOCK_SIZE
        /\ k - j * BLOCK_SIZE \in Int /\ k + j * BLOCK_SIZE \in Int
    BY <1>1, BlockSize
  <2>2. PICK a \in Int, b \in Int : a = k - j * BLOCK_SIZE /\ b = k + j * BLOCK_SIZE
    BY <2>1
  <2>3. PICK m \in Int, n \in Int : a = m * BLOCK_SIZE /\ b = n * BLOCK_SIZE
    BY <2>1, <2>2
  <2>4. a \in a .. a + BLOCK_SIZE - 1 /\ b \in b .. b + BLOCK_SIZE - 1
    BY BlockSize
  <2>5. Base(a) = a /\ Base(b) = b
    BY <2>3, <2>4, BaseOf
  <2> QED
    BY <2>2, <2>5 DEF Mult
<1>7. Mult(k - BLOCK_SIZE) /\ Mult(k + BLOCK_SIZE)
  <2>1. Mult(k - 1 * BLOCK_SIZE) /\ Mult(k + 1 * BLOCK_SIZE) /\ 1 * BLOCK_SIZE = BLOCK_SIZE
    BY <1>6, BlockSize
  <2> QED
    BY <2>1
<1>8. Base(k - 1) = k - BLOCK_SIZE
  <2>1. PICK m \in Int : m = q - 1
    OBVIOUS
  <2>2. k - BLOCK_SIZE = m * BLOCK_SIZE
    BY <1>1, <2>1, Mults
  <2>3. PICK l \in Int : l = k - BLOCK_SIZE
    BY BlockSize
  <2>4. k - 1 \in l .. l + BLOCK_SIZE - 1
    BY <2>3, BlockSize
  <2> QED
    BY <2>2, <2>3, <2>4, BaseOf
<1> QED
  BY <1>2, <1>3, <1>4, <1>5, <1>6, <1>7, <1>8

\* The first index of the block of an index is such a number.
LEMMA BaseMult ==
  ASSUME NEW i \in Int
  PROVE  Mult(Base(i)) /\ i \in Base(i) .. Base(i) + BLOCK_SIZE - 1
<1>1. PICK q \in Int, k \in Int : k = Base(i) /\ k = q * BLOCK_SIZE
  BY BaseFacts
<1>2. k \in k .. k + BLOCK_SIZE - 1
  BY BlockSize
<1>3. Base(k) = k
  BY <1>1, <1>2, BaseOf
<1>4. Mult(k)
  BY <1>3 DEF Mult
<1>5. Base(i) <= i /\ i < Base(i) + BLOCK_SIZE
  BY BaseFacts
<1>6. i \in k .. k + BLOCK_SIZE - 1
  BY <1>1, <1>5, BlockSize
<1> QED
  BY <1>1, <1>4, <1>6

\* Two of them are the same or a block apart.
LEMMA MultApart ==
  ASSUME NEW k \in Int, NEW l \in Int, Mult(k), Mult(l), k < l
  PROVE  k + BLOCK_SIZE <= l
<1>1. PICK a \in Int, b \in Int : k = a * BLOCK_SIZE /\ l = b * BLOCK_SIZE
  BY BaseFacts DEF Mult
<1> QED
  BY <1>1, Mults

\* A remainder is in its range.
LEMMA ModIn ==
  ASSUME NEW a \in Int, NEW n \in Nat, n > 0
  PROVE  a % n \in 0 .. n - 1
  OBVIOUS

\* Counting back in a ring of n positions.
LEMMA BackIs ==
  ASSUME NEW n \in Nat, n > 0, NEW t \in 0 .. n - 1, NEW j \in 0 .. n - 1
  PROVE  /\ Back(t, j, n) \in 0 .. n - 1
         /\ j <= t => Back(t, j, n) = t - j
         /\ j > t => Back(t, j, n) = t - j + n
  BY DEF Back

\* Every position is some way back, in one way.
LEMMA BackAll ==
  ASSUME NEW n \in Nat, n > 0, NEW t \in 0 .. n - 1
  PROVE  /\ \A x \in 0 .. n - 1 : \E j \in 0 .. n - 1 : x = Back(t, j, n)
         /\ \A i, j \in 0 .. n - 1 : Back(t, i, n) = Back(t, j, n) => i = j
<1>1. ASSUME NEW x \in 0 .. n - 1 PROVE \E j \in 0 .. n - 1 : x = Back(t, j, n)
  <2>1. CASE x <= t
    <3>1. t - x \in 0 .. n - 1 /\ x = Back(t, t - x, n)
      BY <2>1, BackIs
    <3> QED
      BY <3>1
  <2>2. CASE x > t
    <3>1. t - x + n \in 0 .. n - 1 /\ x = Back(t, t - x + n, n)
      BY <2>2, BackIs
    <3> QED
      BY <3>1
  <2> QED
    BY <2>1, <2>2
<1>2. \A i, j \in 0 .. n - 1 : Back(t, i, n) = Back(t, j, n) => i = j
  BY DEF Back
<1> QED
  BY <1>1, <1>2

\* The position that get_block_index_index_for_index computes.
LEMMA OffsetIs ==
  ASSUME NEW n \in Nat, n > 0, NEW t \in 0 .. n - 1, NEW j \in 0 .. n - 1, NEW k \in Int,
         NEW l \in Int, l = k + j * BLOCK_SIZE
  PROVE  (t + (k - l) \div BLOCK_SIZE) % n = Back(t, j, n)
<1>1. (k - l) \div BLOCK_SIZE = -j
  BY BlockSize
<1> QED
  BY <1>1 DEF Back

\* The next and the previous position of the tail.
LEMMA NextBack ==
  ASSUME NEW n \in Nat, n > 1, NEW t \in 0 .. n - 1
  PROVE  /\ (t + 1) % n \in 0 .. n - 1
         /\ \A j \in 1 .. n - 1 : Back((t + 1) % n, j, n) = Back(t, j - 1, n)
         /\ Back((t + 1) % n, 0, n) = Back(t, n - 1, n)
<1>1. PICK u \in 0 .. n - 1 : u = (t + 1) % n /\ ((t = n - 1 /\ u = 0) \/ u = t + 1)
  OBVIOUS
<1>2. ASSUME NEW j \in 1 .. n - 1 PROVE Back(u, j, n) = Back(t, j - 1, n)
  <2>1. CASE t = n - 1 /\ u = 0
    BY <2>1 DEF Back
  <2>2. CASE u = t + 1
    <3>1. u - j = t - (j - 1)
      BY <2>2
    <3> QED
      BY <3>1 DEF Back
  <2> QED
    BY <1>1, <2>1, <2>2
<1>3. Back(u, 0, n) = Back(t, n - 1, n)
  BY <1>1 DEF Back
<1> QED
  BY <1>1, <1>2, <1>3

\* And the previous one.
LEMMA PrevBack ==
  ASSUME NEW n \in Nat, n > 1, NEW t \in 0 .. n - 1
  PROVE  /\ (t - 1) % n \in 0 .. n - 1
         /\ \A j \in 0 .. n - 2 : Back((t - 1) % n, j, n) = Back(t, j + 1, n)
         /\ Back((t - 1) % n, n - 1, n) = Back(t, 0, n)
<1>1. PICK u \in 0 .. n - 1 : u = (t - 1) % n /\ ((t = 0 /\ u = n - 1) \/ u = t - 1)
  OBVIOUS
<1>2. ASSUME NEW j \in 0 .. n - 2 PROVE Back(u, j, n) = Back(t, j + 1, n)
  <2>1. CASE t = 0 /\ u = n - 1
    BY <2>1 DEF Back
  <2>2. CASE u = t - 1
    <3>1. u - j = t - (j + 1)
      BY <2>2
    <3> QED
      BY <3>1 DEF Back
  <2> QED
    BY <1>1, <2>1, <2>2
<1>3. Back(u, n - 1, n) = Back(t, 0, n)
  BY <1>1 DEF Back
<1> QED
  BY <1>1, <1>2, <1>3

-----------------------------------------------------------------------------
(***************************************************************************)
(* ImplicitProducer, the elements: what the invariant says of one producer *)
(***************************************************************************)

\* The current table and the entries.
LEMMA TableFacts ==
  ASSUME IInv, NEW p \in Producer
  PROVE  /\ N(p) \in Nat /\ N(p) > 1 /\ Tab(p).tail \in 0 .. N(p) - 1
         /\ headers[p] \in Seq(HeaderType) /\ Len(headers[p]) \in Nat /\ Len(headers[p]) > 0
         /\ Tab(p) \in HeaderType /\ Last(headers[p]) = Tab(p)
         /\ entries[p] \in Seq(EntryType) /\ Len(entries[p]) \in Nat
<1>1. headers[p] \in Seq(HeaderType) /\ entries[p] \in Seq(EntryType)
  BY DEF IInv, ElementInv, ElementTypes
<1>2. Len(headers[p]) \in Nat /\ Len(entries[p]) \in Nat /\ Len(headers[p]) > 0
  BY <1>1 DEF IInv, ElementInv, Ring
<1>3. Tab(p) \in HeaderType
  BY <1>1, <1>2 DEF Tab
<1>4. Tab(p).tail \in Nat /\ N(p) \in Nat
  BY <1>3 DEF HeaderType, N
<1>5. N(p) > 1 /\ Tab(p).tail < N(p)
  <2>1. Table(p, Len(headers[p]))
    BY <1>2 DEF IInv, ElementInv, Ring
  <2> QED
    BY <2>1 DEF Table, Tab, N
<1>6. Last(headers[p]) = Tab(p)
  BY DEF Last, Tab
<1> QED
  BY <1>1, <1>2, <1>3, <1>4, <1>5, <1>6

\* The positions of the current table lead to entries.
LEMMA SlotFacts ==
  ASSUME IInv, NEW p \in Producer
  PROVE  /\ \A j \in 0 .. N(p) - 1 : Slot(p, j) \in 1 .. Len(entries[p])
         /\ \A e \in 1 .. Len(entries[p]) : Key(p, e) \in Nat /\ Value(p, e) \in Int
         /\ NewTail(p) = (Tab(p).tail + 1) % N(p) /\ TailEntry(p) = Slot(p, N(p) - 1)
         /\ Slot(p, 0) # Slot(p, N(p) - 1)
<1>0. PICK n \in Nat, t \in Nat : n = N(p) /\ n > 1 /\ t = Tab(p).tail /\ t \in 0 .. n - 1
  BY TableFacts
<1>1. Table(p, Len(headers[p]))
  BY TableFacts DEF IInv, ElementInv, Ring
<1>2. ASSUME NEW j \in 0 .. N(p) - 1 PROVE Slot(p, j) \in 1 .. Len(entries[p])
  <2>1. PICK x \in 0 .. n - 1 : x = Back(Tab(p).tail, j, N(p))
    <3>1. Back(t, j, n) \in 0 .. n - 1
      BY <1>0 DEF Back
    <3> QED
      BY <1>0, <3>1
  <2>2. PICK i \in 1 .. N(p) : i = x + 1
    BY <1>0, <2>1
  <2>3. Tab(p).index[i] \in 1 .. Len(entries[p])
    BY <1>1 DEF Table, Tab, N
  <2> QED
    BY <2>1, <2>2, <2>3 DEF Slot
<1>3. ASSUME NEW e \in 1 .. Len(entries[p]) PROVE Key(p, e) \in Nat /\ Value(p, e) \in Int
  <2>1. entries[p][e] \in EntryType
    BY TableFacts
  <2> QED
    BY <2>1 DEF EntryType, Key, Value
<1>4. NewTail(p) = (Tab(p).tail + 1) % N(p)
  BY TableFacts DEF NewTail, N
<1>5. NewTail(p) = Back(Tab(p).tail, N(p) - 1, N(p))
  <2>1. (t + 1) % n = Back(t, n - 1, n)
    BY <1>0 DEF Back
  <2> QED
    BY <1>0, <1>4, <2>1
<1>6. TailEntry(p) = Slot(p, N(p) - 1)
  <2>1. TailEntry(p) = Tab(p).index[NewTail(p) + 1]
    BY TableFacts DEF TailEntry
  <2> QED
    BY <1>5, <2>1, Zenon DEF Slot
<1>7. Slot(p, 0) # Slot(p, N(p) - 1)
  <2>1. 0 \in 0 .. N(p) - 1 /\ N(p) - 1 \in 0 .. N(p) - 1 /\ N(p) - 1 # 0
    BY TableFacts
  <2> QED
    BY <2>1 DEF IInv, ElementInv, Ring
<1> QED
  BY <1>2, <1>3, <1>4, <1>6, <1>7

\* The last blocks of a producer.
LEMMA TopFacts ==
  ASSUME IInv, NEW p \in Producer
  PROVE  /\ tailIndex[p] \in Nat /\ headIndex[p] \in Nat /\ headIndex[p] <= tailIndex[p]
         /\ Top(p) \in Int /\ Mult(Top(p)) /\ Newest(p) \in Int /\ Mult(Newest(p))
         /\ Newest(p) <= Top(p) /\ Top(p) <= tailIndex[p]
         /\ \A i \in Nat : i < tailIndex[p] => Base(i) <= Newest(p)
         /\ tailIndex[p] % BLOCK_SIZE = 0 => /\ Mult(tailIndex[p]) /\ Base(tailIndex[p]) = tailIndex[p]
                                             /\ Base(tailIndex[p] - 1) = tailIndex[p] - BLOCK_SIZE
         /\ tailIndex[p] % BLOCK_SIZE # 0 => Base(tailIndex[p] - 1) = Base(tailIndex[p])
<1>1. tailIndex[p] \in Nat /\ headIndex[p] \in Nat /\ headIndex[p] <= tailIndex[p]
  BY CountNumbers DEF IInv, CountInv, Counts, Won
<1>2. PICK t \in Nat, b \in Int, a \in Int : t = tailIndex[p] /\ b = Base(t) /\ a = Base(t - 1)
  <2>1. tailIndex[p] \in Int /\ tailIndex[p] - 1 \in Int
    BY <1>1
  <2>2. Base(tailIndex[p]) \in Int /\ Base(tailIndex[p] - 1) \in Int
    BY <2>1, BaseFacts
  <2> QED
    BY <1>1, <2>2
<1>3. Mult(b) /\ Mult(a)
  BY <1>2, BaseMult
<1>4. b <= t /\ t < b + BLOCK_SIZE /\ a <= t - 1 /\ t - 1 < a + BLOCK_SIZE /\ t % BLOCK_SIZE = t - b
  BY <1>2, BaseFacts
<1>5. a <= b
  <2>1. b < a => b + BLOCK_SIZE <= a
    BY <1>3, MultApart
  <2> QED
    BY <1>4, <2>1, BlockSize
<1>6. t % BLOCK_SIZE = 0 => b = t /\ a = t - BLOCK_SIZE
  <2>1. b = t => Base(b - 1) = b - BLOCK_SIZE
    BY <1>3, MultFacts
  <2> QED
    BY <1>2, <1>4, <2>1
<1>7. t % BLOCK_SIZE # 0 => a = b
  <2>1. t - 1 \in b .. b + BLOCK_SIZE - 1 => Base(t - 1) = b
    BY <1>3, MultFacts
  <2>2. t % BLOCK_SIZE # 0 => t # b
    BY <1>4
  <2> QED
    BY <1>2, <1>4, <2>1, <2>2, BlockSize
<1>8. ASSUME NEW i \in Nat, i < t PROVE Base(i) <= a
  <2>1. PICK k \in Int : k = Base(i) /\ Mult(k) /\ k <= i
    BY BaseFacts, BaseMult
  <2>2. a < k => a + BLOCK_SIZE <= k
    BY <1>3, <2>1, MultApart
  <2>3. i < a + BLOCK_SIZE
    BY <1>4, <1>8, BlockSize
  <2>4. k <= a
    BY <2>1, <2>2, <2>3, BlockSize
  <2> QED
    BY <2>1, <2>4
<1>9. Top(p) = b \/ Top(p) = a
  BY <1>2 DEF Top
<1>10. Newest(p) = b \/ Newest(p) = a
  BY <1>2 DEF Newest
<1>11. Newest(p) = b => Top(p) = b
  BY <1>2 DEF Top, Newest
<1>12. Newest(p) <= Top(p) /\ Top(p) <= t
  BY <1>4, <1>5, <1>9, <1>10, <1>11
<1>13. \A i \in Nat : i < t => Base(i) <= Newest(p)
  BY <1>5, <1>8, <1>10, BaseFacts
<1> QED
  BY <1>1, <1>2, <1>3, <1>6, <1>7, <1>9, <1>10, <1>12, <1>13

\* Where an entry is, and what it is for.
LEMMA EntryCases ==
  ASSUME IInv, NEW p \in Producer, NEW e \in 1 .. Len(entries[p])
  PROVE  \E j \in 0 .. N(p) - 1 :
           /\ e = Slot(p, j)
           /\ \/ Unused(p, e)
              \/ Key(p, e) = Top(p) - j * BLOCK_SIZE
              \/ j = N(p) - 1 /\ Early(p, e)
<1>1. PICK j \in 0 .. N(p) - 1 : e = Slot(p, j)
  BY DEF IInv, ElementInv, Ring
<1>2. \/ Unused(p, e)
      \/ Key(p, e) = Top(p) - j * BLOCK_SIZE
      \/ j = N(p) - 1 /\ Early(p, e)
  BY <1>1, Zenon DEF IInv, ElementInv, Window
<1> QED
  BY <1>1, <1>2

\* An entry is unused, or it is for a block, with a key that can be one.
LEMMA EntryKey ==
  ASSUME IInv, NEW p \in Producer, NEW e \in 1 .. Len(entries[p])
  PROVE  /\ Key(p, e) = INVALID_BLOCK_BASE => Unused(p, e)
         /\ Key(p, e) # INVALID_BLOCK_BASE => Mult(Key(p, e))
         /\ Value(p, e) \in Block => ~Unused(p, e) /\ ~Early(p, e)
<1>1. PICK j \in 0 .. N(p) - 1 :
        /\ e = Slot(p, j)
        /\ \/ Unused(p, e)
           \/ Key(p, e) = Top(p) - j * BLOCK_SIZE
           \/ j = N(p) - 1 /\ Early(p, e)
  BY EntryCases
<1>2. Key(p, e) = Top(p) - j * BLOCK_SIZE => Mult(Key(p, e))
  <2>1. PICK t \in Int : t = Top(p) /\ Mult(t)
    BY TopFacts
  <2>2. j \in Int
    BY TableFacts
  <2>3. Mult(t - j * BLOCK_SIZE)
    BY <2>1, <2>2, MultFacts
  <2> QED
    BY <2>1, <2>3
<1>3. Early(p, e) => Mult(Key(p, e))
  BY TopFacts DEF Early
<1>4. Mult(Key(p, e)) => Key(p, e) # INVALID_BLOCK_BASE
  BY MultFacts DEF Mult
<1>5. Value(p, e) \in Block => ~Unused(p, e) /\ ~Early(p, e)
  BY DEF Unused, Early, Block, JUNK
<1> QED
  BY <1>1, <1>2, <1>3, <1>4, <1>5 DEF Unused

\* Two entries are for different blocks.
LEMMA EntriesDiffer ==
  ASSUME IInv, NEW p \in Producer, NEW e \in 1 .. Len(entries[p]), NEW f \in 1 .. Len(entries[p]),
         Key(p, e) = Key(p, f), Mult(Key(p, e))
  PROVE  e = f
<1>1. PICK j \in 0 .. N(p) - 1 :
        /\ e = Slot(p, j)
        /\ \/ Unused(p, e)
           \/ Key(p, e) = Top(p) - j * BLOCK_SIZE
           \/ j = N(p) - 1 /\ Early(p, e)
  BY EntryCases
<1>2. PICK i \in 0 .. N(p) - 1 :
        /\ f = Slot(p, i)
        /\ \/ Unused(p, f)
           \/ Key(p, f) = Top(p) - i * BLOCK_SIZE
           \/ i = N(p) - 1 /\ Early(p, f)
  BY EntryCases
<1>3. ~Unused(p, e) /\ ~Unused(p, f)
  BY MultFacts DEF Unused, Mult
<1>4. PICK t \in Int, n \in Nat : t = Top(p) /\ n = N(p)
  BY TopFacts, TableFacts
<1>5. i \in Nat /\ j \in Nat
  BY <1>4
<1>6. CASE Key(p, e) = Top(p) - j * BLOCK_SIZE /\ Key(p, f) = Top(p) - i * BLOCK_SIZE
  <2>1. t - j * BLOCK_SIZE = t - i * BLOCK_SIZE
    BY <1>4, <1>6
  <2>2. i = j
    BY <1>5, <2>1, BlockSize
  <2> QED
    BY <1>1, <1>2, <2>2
<1>7. CASE Early(p, e) /\ Key(p, f) = Top(p) - i * BLOCK_SIZE
  <2>1. PICK k \in Nat : k = tailIndex[p]
    BY TopFacts
  <2>2. t < k /\ k = t - i * BLOCK_SIZE
    BY <1>4, <1>7, <2>1 DEF Early
  <2> QED
    BY <1>5, <2>2, BlockSize
<1>8. CASE Early(p, f) /\ Key(p, e) = Top(p) - j * BLOCK_SIZE
  <2>1. PICK k \in Nat : k = tailIndex[p]
    BY TopFacts
  <2>2. t < k /\ k = t - j * BLOCK_SIZE
    BY <1>4, <1>8, <2>1 DEF Early
  <2> QED
    BY <1>5, <2>2, BlockSize
<1>9. CASE Early(p, e) /\ j = N(p) - 1 /\ Early(p, f) /\ i = N(p) - 1
  BY <1>1, <1>2, <1>9
<1> QED
  BY <1>1, <1>2, <1>3, <1>6, <1>7, <1>8, <1>9

\* The entry of a block in which something is to be done.
LEMMA LiveEntry ==
  ASSUME IInv, NEW p \in Producer, NEW i \in Nat, Todo(p, i), Base(i) <= Newest(p)
  PROVE  /\ \E j \in 0 .. N(p) - 1 : /\ Key(p, Slot(p, j)) = Base(i) /\ Value(p, Slot(p, j)) \in Block
                                     /\ Base(i) = Top(p) - j * BLOCK_SIZE
         /\ Key(p, Slot(p, 0)) = Top(p)
<1>1. PICK e \in 1 .. Len(entries[p]) : Key(p, e) = Base(i) /\ Value(p, e) \in Block
  BY DEF IInv, ElementInv, Installed
<1>2. PICK j \in 0 .. N(p) - 1 :
        /\ e = Slot(p, j)
        /\ \/ Unused(p, e)
           \/ Key(p, e) = Top(p) - j * BLOCK_SIZE
           \/ j = N(p) - 1 /\ Early(p, e)
  BY EntryCases
<1>3. ~Unused(p, e) /\ ~Early(p, e)
  BY <1>1, EntryKey
<1>4. Top(p) >= 0
  <2>1. PICK b \in Int : b = Base(i) /\ b >= 0
    BY BaseFacts
  <2> QED
    BY <2>1, TopFacts
<1>5. Key(p, Slot(p, 0)) = Top(p)
  BY <1>4 DEF IInv, ElementInv, Window
<1> QED
  BY <1>1, <1>2, <1>3, <1>5

\* The index that a consumer has is to be done, and its block is there.
LEMMA HasIndex ==
  ASSUME IInv, NEW c \in Consumer,
         cons[c].at \in {"header", "htail", "hkey", "entry", "move", "empty"}
  PROVE  /\ cons[c].p \in Producer /\ Reading(c, cons[c].p) /\ cons[c].index \in Nat
         /\ Todo(cons[c].p, cons[c].index) /\ Base(cons[c].index) <= Newest(cons[c].p)
<1>1. cons[c].p \in Producer
  BY DEF IInv, CountInv, CountTypes, Asking
<1>2. Reading(c, cons[c].p)
  BY DEF IInv, ElementInv
<1>3. cons[c].index \in Nat /\ cons[c].index < headIndex[cons[c].p]
  BY <1>2 DEF Reading
<1>4. Todo(cons[c].p, cons[c].index)
  BY DEF Todo, Works
<1>5. Base(cons[c].index) <= Newest(cons[c].p)
  BY <1>1, <1>3, TopFacts
<1> QED
  BY <1>1, <1>2, <1>3, <1>4, <1>5

\* Counting back from the tail of the current table leads to the entry.
LEMMA CoversNow ==
  ASSUME IInv, NEW c \in Consumer,
         cons[c].at \in {"header", "htail", "hkey", "entry", "move", "empty"}
  PROVE  LET p == cons[c].p IN Covers(p, Len(headers[p]), Tab(p).tail, cons[c].index)
<1>1. PICK p \in Producer : p = cons[c].p
  BY HasIndex
<1>2. PICK i \in Nat : i = cons[c].index
  BY HasIndex
<1>3. PICK j \in 0 .. N(p) - 1 : /\ Key(p, Slot(p, j)) = Base(i)
                                 /\ Base(i) = Top(p) - j * BLOCK_SIZE
  BY <1>1, <1>2, HasIndex, LiveEntry
<1>4. Key(p, Slot(p, 0)) = Top(p)
  BY <1>1, <1>2, HasIndex, LiveEntry
<1>5. Top(p) = Base(i) + j * BLOCK_SIZE
  <2>1. Top(p) \in Int /\ j \in Int
    BY TopFacts, TableFacts
  <2>2. j * BLOCK_SIZE \in Int
    BY <2>1, BlockSize
  <2> QED
    BY <1>3, <2>1, <2>2
<1>6. Slot(p, 0) = Tab(p).index[Tab(p).tail + 1]
  <2>1. Back(Tab(p).tail, 0, N(p)) = Tab(p).tail
    <3>1. PICK n \in Nat, t \in Nat : n = N(p) /\ t = Tab(p).tail /\ t < n
      BY TableFacts
    <3>2. Back(t, 0, n) = t
      BY <3>1 DEF Back
    <3> QED
      BY <3>1, <3>2
  <2> QED
    BY <2>1 DEF Slot
<1> QED
  BY <1>1, <1>2, <1>3, <1>4, <1>5, <1>6 DEF Covers, Slot, Tab, N

\* A consumer that has computed an entry finds a block there.
LEMMA FoundEntry ==
  ASSUME IInv, NEW c \in Consumer, cons[c].at = "entry"
  PROVE  LET p == cons[c].p IN
         /\ cons[c].entry \in 1 .. Len(entries[p])
         /\ Key(p, cons[c].entry) = Base(cons[c].index) /\ Value(p, cons[c].entry) \in Block
<1>1. PICK p \in Producer : p = cons[c].p
  BY HasIndex
<1>2. PICK i \in Nat : i = cons[c].index /\ Todo(p, i) /\ Base(i) <= Newest(p)
  BY <1>1, HasIndex
<1>3. cons[c].entry \in 1 .. Len(entries[p]) /\ Key(p, cons[c].entry) = Base(i)
  BY <1>1, <1>2, HasIndex DEF Reading
<1>4. PICK e \in 1 .. Len(entries[p]) : Key(p, e) = Base(i) /\ Value(p, e) \in Block
  BY <1>2 DEF IInv, ElementInv, Installed
<1>5. Mult(Base(i))
  BY BaseMult
<1>6. e = cons[c].entry
  BY <1>3, <1>4, <1>5, EntriesDiffer
<1> QED
  BY <1>1, <1>2, <1>3, <1>4, <1>6
\* The blocks that have been made.
LEMMA MadeBlocks ==
  ASSUME IInv
  PROVE  made \in Nat /\ 1 .. made \subseteq Block /\ \A b \in Block : b \in Nat /\ b > 0
<1>1. MaxBlock \in Nat /\ made \in 0 .. MaxBlock
  BY ImplicitProducerAssumption DEF IInv, ElementInv, ElementTypes
<1> QED
  BY <1>1 DEF Block

-----------------------------------------------------------------------------
(***************************************************************************)
(* ImplicitProducer, the elements: what a step leaves alone                *)
(***************************************************************************)

\* The index of producer q, and q itself, are as before.
SameIndex(q) == headers'[q] = headers[q] /\ entries'[q] = entries[q]
SameProducer(q) ==
  prod'[q] = prod[q] /\ tailIndex'[q] = tailIndex[q] /\ tailBlock'[q] = tailBlock[q]

\* Nothing more is to be read or to be done than before.
NoMore(q) == \A i \in Int : /\ Todo(q, i)' => Todo(q, i)
                            /\ Pending(q, i)' => Pending(q, i)
SameTodo(q) == \A i \in Int : Todo(q, i)' <=> Todo(q, i)

\* The index of a producer that does not move.
LEMMA IndexSame ==
  ASSUME NEW q \in Producer, SameIndex(q)
  PROVE  /\ \A e : Key(q, e)' = Key(q, e) /\ Value(q, e)' = Value(q, e)
         /\ N(q)' = N(q) /\ \A j : Slot(q, j)' = Slot(q, j)
         /\ \A h, t, i : Covers(q, h, t, i)' <=> Covers(q, h, t, i)
         /\ Tab(q)' = Tab(q)
<1>1. Tab(q)' = Tab(q)
  BY DEF SameIndex, Tab
<1>2. N(q)' = N(q)
  BY <1>1 DEF N
<1>3. \A j : Slot(q, j)' = Slot(q, j)
  BY <1>1, <1>2 DEF Slot
<1>4. \A e : Key(q, e)' = Key(q, e) /\ Value(q, e)' = Value(q, e)
  BY DEF SameIndex, Key, Value
<1>5. ASSUME NEW h, NEW t, NEW i PROVE Covers(q, h, t, i)' <=> Covers(q, h, t, i)
  BY DEF SameIndex, Covers, Key
<1> QED
  BY <1>1, <1>2, <1>3, <1>4, <1>5

\* What the invariant says of its index.
LEMMA ProducerSame ==
  ASSUME NEW q \in Producer, SameIndex(q), SameProducer(q)
  PROVE  /\ Top(q)' = Top(q) /\ Newest(q)' = Newest(q)
         /\ Ring(q) => Ring(q)'
         /\ Window(q) => Window(q)'
         /\ Phase(q) => Phase(q)'
<1>1. Top(q)' = Top(q) /\ Newest(q)' = Newest(q)
  BY DEF SameProducer, Top, Newest
<1>2. ASSUME Ring(q) PROVE Ring(q)'
  BY <1>2, IndexSame DEF Ring, Table, SameIndex
<1>3. \A e : (Unused(q, e)' <=> Unused(q, e)) /\ (Early(q, e)' <=> Early(q, e))
  BY <1>1, IndexSame DEF Unused, Early, SameProducer
<1>4. ASSUME Window(q) PROVE Window(q)'
  BY <1>1, <1>3, <1>4, IndexSame DEF Window, SameProducer
<1>5. ASSUME Phase(q) PROVE Phase(q)'
  BY <1>5, IndexSame DEF Phase, SameProducer
<1> QED
  BY <1>1, <1>2, <1>4, <1>5

\* Its blocks are installed as before.
LEMMA InstalledSame ==
  ASSUME NEW q \in Producer, SameIndex(q), SameProducer(q), NoMore(q), Installed(q)
  PROVE  Installed(q)'
<1>1. Newest(q)' = Newest(q)
  BY ProducerSame
<1>2. Len(entries'[q]) = Len(entries[q])
  BY DEF SameIndex
<1> QED
  BY <1>1, <1>2, IndexSame DEF Installed, NoMore

\* What is finished of a block.
LEMMA FinishedSame ==
  ASSUME NEW q \in Producer, SameTodo(q), NEW k \in Int
  PROVE  Finished(q, k)' = Finished(q, k)
  BY BlockSize DEF Finished, SameTodo

\* A block that an entry leads to, in which nothing changes.
LEMMA HoldsSame ==
  ASSUME IInv, NEW q \in Producer, NEW e \in 1 .. Len(entries[q]), Holds(q, e),
         Key(q, e)' = Key(q, e), Value(q, e)' = Value(q, e),
         NoMore(q), SameTodo(q), tailIndex'[q] = tailIndex[q],
         prod'[q].at = "publish" => prod[q].at = "publish",
         elementsCompletelyDequeued'[Value(q, e)] = elementsCompletelyDequeued[Value(q, e)],
         elements'[Value(q, e)] = elements[Value(q, e)]
  PROVE  Holds(q, e)'
<1>1. PICK k \in Nat, v \in Int : k = Key(q, e) /\ v = Value(q, e)
  BY SlotFacts
<1>2. Finished(q, k)' = Finished(q, k)
  BY FinishedSame
<1>3. k = Key(q, e)' /\ v = Value(q, e)'
  BY <1>1
<1>4. elementsCompletelyDequeued'[v] = Cardinality(Finished(q, k)')
  BY <1>1, <1>2 DEF Holds
<1>5. ASSUME NEW i \in k .. k + BLOCK_SIZE - 1,
             i < tailIndex'[q] \/ (i = tailIndex'[q] /\ prod'[q].at = "publish"), Pending(q, i)'
      PROVE  elements'[v][i % BLOCK_SIZE] = <<q, i>>
  <2>1. i \in Int
    BY <1>1, BlockSize
  <2>2. Pending(q, i)
    BY <1>5, <2>1 DEF NoMore
  <2>3. i \in Key(q, e) .. Key(q, e) + BLOCK_SIZE - 1
    BY <1>1
  <2> QED
    BY <1>1, <1>5, <2>2, <2>3 DEF Holds
<1> QED
  BY <1>1, <1>3, <1>4, <1>5 DEF Holds

\* The entries of q, if their blocks are left alone and nobody gets them.
LEMMA EntriesSame ==
  ASSUME IInv, NEW q \in Producer, SameIndex(q), SameProducer(q), NoMore(q), SameTodo(q),
         \A e \in 1 .. Len(entries[q]) : Value(q, e) \in Block =>
           /\ elementsCompletelyDequeued'[Value(q, e)] = elementsCompletelyDequeued[Value(q, e)]
           /\ elements'[Value(q, e)] = elements[Value(q, e)]
           /\ Alone(q, e)'
  PROVE  Entries(q)'
<1>1. Len(entries'[q]) = Len(entries[q])
  BY DEF SameIndex
<1>2. ASSUME NEW e \in 1 .. Len(entries[q]), Value(q, e) \in Block PROVE Holds(q, e)' /\ Alone(q, e)'
  <2>1. Holds(q, e)
    BY <1>2 DEF IInv, ElementInv, Entries
  <2> QED
    BY <1>2, <2>1, IndexSame, HoldsSame DEF SameProducer
<1>3. \A e : Value(q, e)' = Value(q, e)
  BY IndexSame
<1> QED
  BY <1>1, <1>2, <1>3 DEF Entries

\* A consumer that does not move.
LEMMA ReadingSame ==
  ASSUME IInv, NEW q \in Producer, NEW d \in Consumer, Reading(d, q),
         cons'[d] = cons[d], SameIndex(q),
         headIndex'[q] \in Nat, headIndex[q] <= headIndex'[q],
         cons[d].at \in {"header", "htail", "hkey", "entry", "move", "empty"} =>
           \A x \in Consumer : Works(x, q, cons[d].index)' => x = d,
         cons[d].at = "clear" =>
           /\ Finished(q, Base(cons[d].index))' = Finished(q, Base(cons[d].index))
           /\ \A x \in Consumer : cons'[x].at = "clear" /\ cons'[x].block = cons[d].block => x = d
  PROVE  Reading(d, q)'
<1>1. cons[d].at \in {"header", "htail", "hkey", "entry", "move", "empty", "clear"} =>
        cons'[d].index \in Nat /\ cons'[d].index < headIndex'[q]
  BY TopFacts DEF Reading
<1>4. Len(headers'[q]) = Len(headers[q]) /\ Len(entries'[q]) = Len(entries[q])
  BY DEF SameIndex
<1>5. PICK h, t, u, i : h = cons[d].h /\ t = cons[d].tail /\ i = cons[d].index /\ u = headers[q][h].tail
  OBVIOUS
<1>6. (Covers(q, h, t, i)' <=> Covers(q, h, t, i)) /\ (Covers(q, h, u, i)' <=> Covers(q, h, u, i))
  BY IndexSame
<1>7. /\ cons'[d].at = "htail" /\ cons'[d].h < Len(headers'[q]) => Covers(q, h, u, i)'
      /\ cons'[d].at = "hkey" => Covers(q, h, t, i)'
  BY <1>4, <1>5, <1>6 DEF Reading
<1>8. /\ h = cons'[d].h /\ t = cons'[d].tail /\ i = cons'[d].index /\ u = headers'[q][cons'[d].h].tail
      /\ headers'[q] = headers[q] /\ entries'[q] = entries[q]
      /\ \A e : Key(q, e)' = Key(q, e) /\ Value(q, e)' = Value(q, e)
  BY <1>5, IndexSame DEF SameIndex
<1> QED
  BY <1>1, <1>4, <1>7, <1>8 DEF Reading

\* A consumer that does not move, while nothing is finished.
LEMMA ReadsOn ==
  ASSUME IInv, NEW c \in Consumer, OnlyCons(c), NEW d \in Consumer, d # c, cons[d].at # "idle",
         SameIndex(cons[d].p), SameTodo(cons[d].p),
         headIndex'[cons[d].p] \in Nat, headIndex[cons[d].p] <= headIndex'[cons[d].p],
         \A q, i : i < headIndex[q] /\ Works(c, q, i)' => Works(c, q, i),
         cons'[c].at # "clear"
  PROVE  Reading(d, cons[d].p)'
<1>1. PICK q \in Producer : q = cons[d].p
  BY DEF IInv, CountInv, CountTypes, Asking
<1>2. cons'[d] = cons[d]
  BY DEF OnlyCons
<1>3. Reading(d, q)
  BY <1>1 DEF IInv, ElementInv
<1>4. PICK i : i = cons[d].index
  OBVIOUS
<1>5. ASSUME cons[d].at \in {"header", "htail", "hkey", "entry", "move", "empty"},
             NEW x \in Consumer, Works(x, q, i)'
      PROVE  x = d
  <2>1. i < headIndex[q] /\ \A y \in Consumer : Works(y, q, i) => y = d
    BY <1>3, <1>4, <1>5 DEF Reading
  <2>2. Works(x, q, i)
    BY <1>5, <2>1 DEF OnlyCons, Works
  <2> QED
    BY <2>1, <2>2
<1>6. ASSUME cons[d].at = "clear"
      PROVE  /\ Finished(q, Base(i))' = Finished(q, Base(i))
             /\ \A x \in Consumer : cons'[x].at = "clear" /\ cons'[x].block = cons[d].block => x = d
  <2>1. i \in Nat
    BY <1>3, <1>4, <1>6 DEF Reading
  <2>2. PICK k \in Int : k = Base(i)
    BY <2>1, BaseFacts
  <2>3. Finished(q, k)' = Finished(q, k)
    BY <1>1, FinishedSame
  <2>4. \A x \in Consumer : cons'[x].at = "clear" => cons'[x] = cons[x]
    BY DEF OnlyCons
  <2> QED
    BY <1>3, <1>6, <2>2, <2>3, <2>4 DEF Reading
<1>7. Reading(d, q)'
  BY <1>1, <1>2, <1>3, <1>4, <1>5, <1>6, ReadingSame
<1> QED
  BY <1>1, <1>2, <1>7

-----------------------------------------------------------------------------
(***************************************************************************)
(* ImplicitProducer, the elements: the steps of a consumer                 *)
(***************************************************************************)

\* The step of c does not change what is to be read, done or given back.
Still(c) ==
  /\ \A q, i : (Works(c, q, i)' <=> Works(c, q, i)) /\ (Unread(c, q, i)' <=> Unread(c, q, i))
  /\ cons[c].at \notin {"clear", "free"} /\ cons'[c].at \notin {"clear", "free"}

\* What is to be done stays the same, then.
LEMMA WorkSame ==
  ASSUME NEW c \in Consumer, OnlyCons(c), Still(c), headIndex' = headIndex, NEW q \in Producer
  PROVE  /\ NoMore(q) /\ SameTodo(q)
         /\ \A x \in Consumer : \A i : Works(x, q, i)' => Works(x, q, i)
<1>1. ASSUME NEW x \in Consumer, NEW i
      PROVE  (Works(x, q, i)' <=> Works(x, q, i)) /\ (Unread(x, q, i)' <=> Unread(x, q, i))
  <2>1. CASE x = c
    BY <2>1 DEF Still
  <2>2. CASE x # c
    BY <2>2 DEF OnlyCons, Works, Unread
  <2> QED
    BY <2>1, <2>2
<1> QED
  BY <1>1 DEF NoMore, SameTodo, Todo, Pending

\* Nobody gets a block.
LEMMA AloneSame ==
  ASSUME entries' = entries, prod' = prod, made' = made, freeBlocks' = freeBlocks,
         \A x \in Consumer : cons'[x].at = "free" => cons'[x] = cons[x],
         NEW q \in Producer, NEW e, Alone(q, e)
  PROVE  Alone(q, e)'
<1>1. \A r, f : Value(r, f)' = Value(r, f)
  BY DEF Value
<1>2. \A b : Reserved(b)' <=> Reserved(b)
  BY DEF Reserved
<1>3. \A x \in Consumer : \A b : Returned(x, b)' => Returned(x, b)
  BY DEF Returned
<1> QED
  BY <1>1, <1>2, <1>3 DEF Alone

\* The blocks that threads have on their own.
LEMMA BlocksSame ==
  ASSUME IInv, prod' = prod, made' = made, freeBlocks' = freeBlocks,
         \A q \in Producer : prod[q].at = "value" =>
           elementsCompletelyDequeued'[prod[q].block] = elementsCompletelyDequeued[prod[q].block],
         \A x \in Consumer : cons'[x].at = "free" => cons'[x] = cons[x]
  PROVE  Blocks'
<1>1. \A x \in Consumer : \A b : Returned(x, b)' => Returned(x, b) /\ cons'[x] = cons[x]
  BY DEF Returned
<1>2. Blocks
  BY DEF IInv, ElementInv
<1> QED
  BY <1>1, <1>2 DEF Blocks

\* No producer moves.
LEMMA IndexKept ==
  ASSUME IInv, UNCHANGED <<tailIndex, tailBlock, indexVars, prod>>, NEW q \in Producer, NoMore(q)
  PROVE  /\ SameIndex(q) /\ SameProducer(q)
         /\ Ring(q)' /\ Window(q)' /\ Phase(q)' /\ Installed(q)'
<1>1. SameIndex(q) /\ SameProducer(q)
  BY DEF indexVars, SameIndex, SameProducer
<1>2. Ring(q) /\ Window(q) /\ Phase(q) /\ Installed(q)
  BY DEF IInv, ElementInv
<1> QED
  BY <1>1, <1>2, ProducerSame, InstalledSame

\* A step that only moves one consumer, and does not change what is to be done.
LEMMA KeepStep ==
  ASSUME IInv, CountInv', NEW c \in Consumer, OnlyCons(c),
         UNCHANGED <<tailIndex, tailBlock, indexVars, blockVars, prod, taken>>,
         \A q \in Producer : NoMore(q) /\ SameTodo(q) /\ headIndex[q] <= headIndex'[q],
         \A q, i : i < headIndex[q] /\ Works(c, q, i)' => Works(c, q, i),
         cons[c].at \notin {"clear", "free"}, cons'[c].at \notin {"clear", "free"},
         cons'[c].at # "idle" => Reading(c, cons[c].p)'
  PROVE  IInv'
<1> USE DEF IInv, ElementInv
<1>1. /\ UNCHANGED <<headers, entries, elements, elementsCompletelyDequeued, made, freeBlocks>>
      /\ \A x \in Consumer : cons'[x].at = "free" => cons'[x] = cons[x]
  BY DEF indexVars, blockVars, OnlyCons
<1>2. ElementTypes'
  BY <1>1 DEF ElementTypes
<1>3. ASSUME NEW q \in Producer
      PROVE  SameIndex(q) /\ SameProducer(q) /\ Ring(q)' /\ Window(q)' /\ Phase(q)' /\ Installed(q)'
  BY IndexKept
<1>4. ASSUME NEW q \in Producer PROVE Entries(q)'
  <2>1. ASSUME NEW e \in 1 .. Len(entries[q]), Value(q, e) \in Block PROVE Alone(q, e)'
    <3>1. Alone(q, e)
      BY <2>1 DEF Entries
    <3> QED
      BY <1>1, <3>1, AloneSame
  <2> QED
    BY <1>1, <1>3, <2>1, EntriesSame
<1>5. Blocks'
  BY <1>1, BlocksSame
<1>6. ASSUME NEW d \in Consumer, d # c, cons'[d].at # "idle" PROVE Reading(d, cons[d].p)'
  <2>1. cons[d].at # "idle"
    BY <1>6 DEF OnlyCons
  <2>2. PICK q \in Producer : q = cons[d].p
    BY <2>1 DEF CountInv, CountTypes, Asking
  <2>3. headIndex'[q] \in Nat
    BY DEF CountInv, CountTypes
  <2> QED
    BY <1>3, <1>6, <2>1, <2>2, <2>3, ReadsOn
<1>7. DequeuedExact'
  BY DEF DequeuedExact
<1> QED
  BY <1>2, <1>3, <1>4, <1>5, <1>6, <1>7

\* A consumer goes on with the same element.
LEMMA StillStep ==
  ASSUME IInv, CountInv', NEW c \in Consumer, OnlyCons(c), Still(c),
         UNCHANGED <<tailIndex, headIndex, tailBlock, indexVars, blockVars, prod, taken>>,
         cons'[c].at # "idle" => Reading(c, cons[c].p)'
  PROVE  IInv'
<1>1. \A q \in Producer : NoMore(q) /\ SameTodo(q) /\ headIndex[q] <= headIndex'[q]
  BY WorkSame, TopFacts
<1> QED
  BY <1>1, KeepStep DEF Still

\* The steps of a consumer that has no element yet.
LEMMA CalmStep ==
  ASSUME IInv, CountInv', NEW c \in Consumer, OnlyCons(c),
         UNCHANGED <<tailIndex, headIndex, tailBlock, indexVars, blockVars, prod, taken>>,
         cons[c].at \in {"idle", "tail", "overcommit", "check", "count", "recheck", "giveup", "head"},
         cons'[c].at \in {"idle", "tail", "overcommit", "check", "count", "recheck", "giveup", "head"}
  PROVE  IInv'
<1>1. Still(c)
  BY DEF Still, Works, Unread
<1>2. Reading(c, cons[c].p)'
  BY DEF Reading
<1> QED
  BY <1>1, <1>2, StillStep

\* A consumer on the way to its element has the index for itself.
LEMMA GoesOn ==
  ASSUME IInv, NEW c \in Consumer, OnlyCons(c), headIndex' = headIndex,
         cons[c].at \in {"header", "htail", "hkey", "entry"},
         cons'[c].at \in {"htail", "hkey", "entry", "move"},
         cons'[c].p = cons[c].p, cons'[c].index = cons[c].index
  PROVE  /\ Still(c) /\ cons[c].p \in Producer
         /\ cons'[c].index \in Nat /\ cons'[c].index < headIndex'[cons[c].p]
         /\ \A d \in Consumer : Works(d, cons[c].p, cons[c].index)' => d = c
<1>1. Still(c)
  BY DEF Still, Works, Unread
<1>2. PICK p \in Producer : p = cons[c].p
  BY HasIndex
<1>3. PICK i \in Nat : i = cons[c].index
  BY HasIndex
<1>4. i < headIndex'[p] /\ \A d \in Consumer : Works(d, p, i) => d = c
  BY <1>2, <1>3, HasIndex DEF Reading
<1>5. \A d \in Consumer : Works(d, p, i)' => d = c
  BY <1>1, <1>4, WorkSame
<1> QED
  BY <1>1, <1>2, <1>3, <1>4, <1>5

\* header: the current table.
LEMMA HeaderStep ==
  ASSUME IInv, CountInv', NEW c \in Consumer, header(c)
  PROVE  IInv'
<1>1. OnlyCons(c) /\ cons'[c] = [at |-> "htail", p |-> cons[c].p, index |-> cons[c].index,
                                 h |-> Len(headers[cons[c].p])]
  BY Goes DEF header, OnlyCons, IInv, CountInv, CountTypes
<1>2. /\ UNCHANGED <<tailIndex, headIndex, tailBlock, indexVars, blockVars, prod, taken>>
      /\ headers' = headers /\ cons[c].at = "header"
  BY DEF header, countVars, indexVars
<1>3. /\ Still(c) /\ cons[c].p \in Producer
      /\ cons'[c].index \in Nat /\ cons'[c].index < headIndex'[cons[c].p]
      /\ \A d \in Consumer : Works(d, cons[c].p, cons[c].index)' => d = c
  BY <1>1, <1>2, GoesOn
<1>4. Reading(c, cons[c].p)'
  BY <1>1, <1>2, <1>3, TableFacts DEF Reading
<1> QED
  BY <1>1, <1>2, <1>3, <1>4, StillStep

\* htail: its tail, from which the entry can be found, even if the table has been
\* replaced in between.
LEMMA HtailStep ==
  ASSUME IInv, CountInv', NEW c \in Consumer, htail(c)
  PROVE  IInv'
<1>1. OnlyCons(c) /\ cons'[c] = [at |-> "hkey", p |-> cons[c].p, index |-> cons[c].index, h |-> cons[c].h,
                                 tail |-> headers[cons[c].p][cons[c].h].tail]
  BY Goes DEF htail, OnlyCons, IInv, CountInv, CountTypes
<1>2. /\ UNCHANGED <<tailIndex, headIndex, tailBlock, indexVars, blockVars, prod, taken>>
      /\ headers' = headers /\ entries' = entries /\ cons[c].at = "htail"
  BY DEF htail, countVars, indexVars
<1>3. /\ Still(c) /\ cons[c].p \in Producer
      /\ cons'[c].index \in Nat /\ cons'[c].index < headIndex'[cons[c].p]
      /\ \A d \in Consumer : Works(d, cons[c].p, cons[c].index)' => d = c
  BY <1>1, <1>2, GoesOn
<1> PICK p \in Producer : p = cons[c].p
  BY <1>3
<1>4. PICK h, i, t : h = cons[c].h /\ i = cons[c].index /\ t = headers[p][h].tail
  OBVIOUS
<1>5. h \in 1 .. Len(headers[p]) /\ (h < Len(headers[p]) => Covers(p, h, t, i))
  BY <1>2, <1>4, HasIndex DEF Reading
<1>6. Covers(p, h, t, i)
  <2>1. CASE h = Len(headers[p])
    BY <1>2, <1>4, <2>1, CoversNow DEF Tab
  <2>2. CASE h # Len(headers[p])
    BY <1>5, <2>2, TableFacts
  <2> QED
    BY <2>1, <2>2
<1>7. t \in 0 .. Len(headers[p][h].index) - 1
  <2>1. Table(p, h) /\ headers[p][h] \in HeaderType
    BY <1>5, TableFacts DEF IInv, ElementInv, Ring
  <2> QED
    BY <1>4, <2>1 DEF Table, HeaderType
<1>8. Covers(p, h, t, i)'
  BY <1>2, <1>6, IndexSame DEF SameIndex
<1>9. Reading(c, cons[c].p)'
  BY <1>1, <1>2, <1>3, <1>4, <1>5, <1>7, <1>8 DEF Reading
<1> QED
  BY <1>1, <1>2, <1>3, <1>9, StillStep

\* hkey: the entry that is computed is the one of the block.
LEMMA HkeyStep ==
  ASSUME IInv, CountInv', NEW c \in Consumer, hkey(c)
  PROVE  IInv'
<1>1. /\ UNCHANGED <<tailIndex, headIndex, tailBlock, indexVars, blockVars, prod, taken>>
      /\ headers' = headers /\ entries' = entries /\ cons[c].at = "hkey"
  BY DEF hkey, countVars, indexVars
<1>2. PICK p \in Producer, i \in Nat, h \in Nat, t \in Nat :
        p = cons[c].p /\ i = cons[c].index /\ h = cons[c].h /\ t = cons[c].tail
  <2>1. PICK p \in Producer : p = cons[c].p /\ cons[c].index \in Nat /\ Reading(c, p)
    BY <1>1, HasIndex
  <2>2. cons[c].h \in 1 .. Len(headers[p]) /\ cons[c].h \in Nat
    BY <1>1, <2>1, TableFacts DEF Reading
  <2>3. headers[p][cons[c].h] \in HeaderType
    BY <2>2, TableFacts
  <2>4. cons[c].tail \in Nat
    BY <1>1, <2>1, <2>3 DEF Reading, HeaderType
  <2> QED
    BY <2>1, <2>2, <2>4
<1>3. PICK base : base = Key(p, headers[p][h].index[t + 1])
  OBVIOUS
<1>4. PICK e : e = EntryFor(headers[p][h], t, base, i)
  OBVIOUS
<1>5. cgoto(c, [at |-> "entry", p |-> p, index |-> i, entry |-> e])
  BY <1>2, <1>3, <1>4, Zenon DEF hkey, Key
<1>6. OnlyCons(c) /\ cons'[c] = [at |-> "entry", p |-> p, index |-> i, entry |-> e]
  BY <1>5, Goes DEF OnlyCons, IInv, CountInv, CountTypes
<1>7. /\ Still(c)
      /\ cons'[c].index \in Nat /\ cons'[c].index < headIndex'[p]
      /\ \A d \in Consumer : Works(d, p, cons[c].index)' => d = c
  BY <1>1, <1>2, <1>6, GoesOn
<1>8. /\ h \in 1 .. Len(headers[p]) /\ t \in 0 .. Len(headers[p][h].index) - 1 /\ Covers(p, h, t, i)
  BY <1>1, <1>2, HasIndex DEF Reading
<1>9. Table(p, h) /\ headers[p][h] \in HeaderType
  <2>1. Ring(p) /\ headers[p] \in Seq(HeaderType)
    BY TableFacts DEF IInv, ElementInv
  <2>2. Table(p, h)
    BY <1>8, <2>1 DEF Ring
  <2>3. headers[p][h] \in HeaderType
    BY <1>8, <2>1
  <2> QED
    BY <2>2, <2>3
<1>10. e \in 1 .. Len(entries[p]) /\ Key(p, e) = Base(i)
  <2>1. PICK n \in Nat : n = Len(headers[p][h].index) /\ n > 1
    BY <1>9 DEF Table, HeaderType
  <2>2. PICK j \in 0 .. n - 1 :
          /\ base = Base(i) + j * BLOCK_SIZE
          /\ Key(p, headers[p][h].index[Back(t, j, n) + 1]) = Base(i)
    BY <1>3, <1>8, <2>1 DEF Covers
  <2>3. PICK k \in Int, l \in Int : k = Base(i) /\ l = base /\ l = k + j * BLOCK_SIZE
    <3>1. Base(i) \in Int /\ j * BLOCK_SIZE \in Int
      BY BaseFacts, BlockSize
    <3> QED
      BY <2>2, <3>1
  <2>4. (t + (k - l) \div BLOCK_SIZE) % n = Back(t, j, n)
    BY <1>8, <2>1, <2>3, OffsetIs
  <2>5. e = headers[p][h].index[Back(t, j, n) + 1]
    BY <1>4, <2>1, <2>3, <2>4, Zenon DEF EntryFor, Base
  <2>6. PICK x \in 0 .. n - 1 : x = Back(t, j, n)
    <3>1. t - j \in Int
      BY <2>1
    <3>2. n > 0
      BY <2>1
    <3>3. (t - j) % n \in 0 .. n - 1
      BY <3>1, <3>2, ModIn
    <3> QED
      BY <3>3 DEF Back
  <2>7. PICK y \in 1 .. n : y = x + 1
    OBVIOUS
  <2>8. headers[p][h].index[y] \in 1 .. Len(entries[p])
    BY <1>9, <2>1 DEF Table
  <2> QED
    BY <2>2, <2>5, <2>6, <2>7, <2>8
<1>11. Key(p, e)' = Base(i)
  BY <1>1, <1>10 DEF Key
<1>12. Reading(c, cons[c].p)'
  BY <1>1, <1>2, <1>6, <1>7, <1>10, <1>11 DEF Reading
<1> QED
  BY <1>1, <1>6, <1>7, <1>12, StillStep

\* entry: it leads to a block.
LEMMA EntryStep ==
  ASSUME IInv, CountInv', NEW c \in Consumer, entry(c)
  PROVE  IInv'
<1>1. /\ UNCHANGED <<tailIndex, headIndex, tailBlock, indexVars, blockVars, prod, taken>>
      /\ headers' = headers /\ entries' = entries /\ cons[c].at = "entry"
  BY DEF entry, countVars, indexVars
<1> PICK p \in Producer, i \in Nat : p = cons[c].p /\ i = cons[c].index
  BY <1>1, HasIndex
<1>2. PICK e, b : e = cons[c].entry /\ b = Value(p, e)
  OBVIOUS
<1>3. OnlyCons(c) /\ cons'[c] = [at |-> "move", p |-> p, index |-> i, entry |-> e, block |-> b]
  BY <1>2, Goes DEF entry, Using, Value, OnlyCons, IInv, CountInv, CountTypes
<1>4. /\ Still(c)
      /\ cons'[c].index \in Nat /\ cons'[c].index < headIndex'[p]
      /\ \A d \in Consumer : Works(d, p, cons[c].index)' => d = c
  BY <1>1, <1>2, <1>3, GoesOn
<1>5. e \in 1 .. Len(entries[p]) /\ Key(p, e) = Base(i) /\ b \in Block
  BY <1>1, <1>2, FoundEntry
<1>6. Key(p, e)' = Base(i) /\ Value(p, e)' = b
  BY <1>1, <1>2, <1>5 DEF Key, Value
<1>7. Reading(c, cons[c].p)'
  BY <1>1, <1>2, <1>3, <1>4, <1>5, <1>6 DEF Reading
<1> QED
  BY <1>1, <1>3, <1>4, <1>7, StillStep

\* headIndex.fetch_add: the consumer gets an index that nobody has.
LEMMA DequeueStep ==
  ASSUME IInv, CountInv', NEW c \in Consumer, dequeue(c)
  PROVE  IInv'
<1>1. PICK p \in Producer : p = cons[c].p
  BY DEF dequeue, IInv, CountInv, CountTypes, Asking
<1>2. PICK k \in Nat : k = headIndex[p]
  BY TopFacts
<1>3. OnlyCons(c) /\ cons'[c] = [at |-> "header", p |-> p, index |-> k] /\ cons[c].at = "head"
  BY <1>1, <1>2, Goes DEF dequeue, OnlyCons, IInv, CountInv, CountTypes
<1>4. /\ UNCHANGED <<tailIndex, tailBlock, indexVars, blockVars, prod, taken>>
      /\ headIndex' = [headIndex EXCEPT ![p] = k + 1]
  BY <1>1, <1>2 DEF dequeue
<1>5. headIndex'[p] = k + 1 /\ \A q \in Producer : q # p => headIndex'[q] = headIndex[q]
  BY <1>4 DEF IInv, CountInv, CountTypes
<1>6. ASSUME NEW x \in Consumer, NEW q, NEW i
      PROVE  /\ x # c => (Works(x, q, i)' <=> Works(x, q, i)) /\ (Unread(x, q, i)' <=> Unread(x, q, i))
             /\ ~Works(c, q, i) /\ ~Unread(c, q, i)
             /\ Works(c, q, i)' <=> q = p /\ i = k
             /\ Unread(c, q, i)' <=> q = p /\ i = k
  BY <1>3 DEF OnlyCons, Works, Unread
<1>7. ASSUME NEW q \in Producer PROVE NoMore(q) /\ SameTodo(q) /\ headIndex[q] <= headIndex'[q]
  <2>1. CASE q = p
    <3>1. ASSUME NEW i \in Int PROVE (Todo(q, i)' <=> Todo(q, i)) /\ (Pending(q, i)' <=> Pending(q, i))
      <4>1. (i >= headIndex'[q] \/ i = k) <=> i >= headIndex[q]
        BY <1>2, <1>5, <2>1
      <4> QED
        BY <1>6, <2>1, <4>1 DEF Todo, Pending
    <3> QED
      BY <1>2, <1>5, <2>1, <3>1 DEF NoMore, SameTodo
  <2>2. CASE q # p
    <3>1. headIndex'[q] = headIndex[q] /\ headIndex[q] \in Nat
      BY <1>5, <2>2, TopFacts
    <3>2. \A i : (Todo(q, i)' <=> Todo(q, i)) /\ (Pending(q, i)' <=> Pending(q, i))
      BY <1>6, <2>2, <3>1 DEF Todo, Pending
    <3> QED
      BY <3>1, <3>2 DEF NoMore, SameTodo
  <2> QED
    BY <2>1, <2>2
<1>8. \A q, i : i < headIndex[q] /\ Works(c, q, i)' => Works(c, q, i)
  BY <1>2, <1>6
<1>9. Reading(c, cons[c].p)'
  <2>1. ASSUME NEW d \in Consumer, d # c, Works(d, p, k)' PROVE FALSE
    <3>1. Works(d, p, k)
      BY <1>6, <2>1
    <3>2. cons[d].at # "idle" /\ cons[d].p = p /\ cons[d].index = k
      BY <3>1 DEF Works
    <3>3. Reading(d, p)
      BY <3>2 DEF IInv, ElementInv
    <3>4. k < headIndex[p]
      BY <3>1, <3>2, <3>3 DEF Reading, Works
    <3> QED
      BY <1>2, <3>4
  <2> QED
    BY <1>3, <1>5, <2>1 DEF Reading
<1> QED
  BY <1>3, <1>4, <1>7, <1>8, <1>9, KeepStep

\* The block in which a consumer works.
LEMMA HasBlock ==
  ASSUME IInv, NEW c \in Consumer, cons[c].at \in {"move", "empty", "clear"}
  PROVE  LET p == cons[c].p
             e == cons[c].entry
             i == cons[c].index
         IN  /\ p \in Producer /\ i \in Nat /\ i < headIndex[p] /\ i < tailIndex[p]
             /\ e \in 1 .. Len(entries[p]) /\ Key(p, e) = Base(i)
             /\ Value(p, e) = cons[c].block /\ cons[c].block \in Block
             /\ Holds(p, e) /\ Alone(p, e)
<1>1. PICK p \in Producer : p = cons[c].p
  BY DEF IInv, CountInv, CountTypes, Asking
<1>2. Reading(c, p)
  BY <1>1 DEF IInv, ElementInv
<1>3. /\ cons[c].index \in Nat /\ cons[c].index < headIndex[p]
      /\ cons[c].entry \in 1 .. Len(entries[p]) /\ Key(p, cons[c].entry) = Base(cons[c].index)
      /\ Value(p, cons[c].entry) = cons[c].block /\ cons[c].block \in Block
  BY <1>2 DEF Reading
<1>4. Holds(p, cons[c].entry) /\ Alone(p, cons[c].entry)
  BY <1>3 DEF IInv, ElementInv, Entries
<1>5. cons[c].index < tailIndex[p]
  BY <1>3, TopFacts
<1> QED
  BY <1>1, <1>3, <1>4, <1>5

\* move: the element is the one that was enqueued there.
LEMMA MoveStep ==
  ASSUME IInv, CountInv', NEW c \in Consumer, move(c)
  PROVE  IInv'
<1> USE DEF IInv, ElementInv
<1>1. PICK p \in Producer, i \in Nat : p = cons[c].p /\ i = cons[c].index
  BY HasBlock DEF move
<1>2. PICK e \in 1 .. Len(entries[p]), b \in Block : e = cons[c].entry /\ b = cons[c].block
  BY <1>1, HasBlock DEF move
<1>3. /\ cons[c].at = "move" /\ i < headIndex[p] /\ i < tailIndex[p] /\ Key(p, e) = Base(i)
      /\ Value(p, e) = b /\ Holds(p, e) /\ Alone(p, e)
  BY <1>1, <1>2, HasBlock DEF move
<1>4. OnlyCons(c) /\ cons'[c] = [at |-> "empty", p |-> p, index |-> i, entry |-> e, block |-> b]
  BY <1>1, <1>2, Goes DEF move, Using, OnlyCons, CountInv, CountTypes
<1>5. /\ UNCHANGED <<tailIndex, headIndex, tailBlock, indexVars, elementsCompletelyDequeued, made,
                     freeBlocks, prod, headers, entries>>
      /\ elements' = [elements EXCEPT ![b][i % BLOCK_SIZE] = <<>>]
      /\ taken' = [taken EXCEPT ![p] = @ \cup {[index |-> i, element |-> elements[b][i % BLOCK_SIZE]]}]
  BY <1>1, <1>2 DEF move, countVars, indexVars
<1>6. PICK m \in 0 .. BLOCK_SIZE - 1 : m = i % BLOCK_SIZE
  BY BaseFacts
<1>7. /\ \A v \in Block : v # b => elements'[v] = elements[v]
      /\ \A x \in 0 .. BLOCK_SIZE - 1 : x # m => elements'[b][x] = elements[b][x]
      /\ elements' = [v \in Block |-> [x \in 0 .. BLOCK_SIZE - 1 |-> elements'[v][x]]]
  BY <1>5, <1>6 DEF ElementTypes
<1>8. ElementTypes'
  BY <1>5, <1>7 DEF ElementTypes
<1>9. \A x \in Consumer : Works(x, p, i) => x = c
  BY <1>1, <1>3 DEF Reading
<1>10. ASSUME NEW q, NEW x \in Consumer, NEW j
       PROVE  (Works(x, q, j)' <=> Works(x, q, j)) /\ (Unread(x, q, j)' => Unread(x, q, j) /\ x # c)
  BY <1>1, <1>3, <1>4 DEF OnlyCons, Works, Unread
<1>11. ASSUME NEW q \in Producer PROVE NoMore(q) /\ SameTodo(q)
  BY <1>5, <1>10 DEF NoMore, SameTodo, Todo, Pending
<1>12. ASSUME NEW q \in Producer
       PROVE  SameIndex(q) /\ SameProducer(q) /\ Ring(q)' /\ Window(q)' /\ Phase(q)' /\ Installed(q)'
  BY <1>5, <1>11, IndexKept
<1>13. ~Pending(p, i)'
  <2>1. ~(i >= headIndex'[p])
    BY <1>3, <1>5, TopFacts
  <2>2. ASSUME NEW x \in Consumer, Unread(x, p, i)' PROVE FALSE
    <3>1. Unread(x, p, i) /\ x # c
      BY <1>10, <2>2
    <3>2. Works(x, p, i)
      BY <3>1 DEF Unread, Works
    <3> QED
      BY <1>9, <3>1, <3>2
  <2> QED
    BY <2>1, <2>2 DEF Pending
<1>14. elements[b][i % BLOCK_SIZE] = <<p, i>>
  <2>1. Pending(p, i)
    BY <1>1, <1>3 DEF Pending, Unread
  <2>2. i \in Key(p, e) .. Key(p, e) + BLOCK_SIZE - 1
    BY <1>3, BaseMult
  <2> QED
    BY <1>3, <2>1, <2>2 DEF Holds
<1>15. DequeuedExact'
  <2>1. taken'[p] = taken[p] \cup {[index |-> i, element |-> <<p, i>>]}
    BY <1>5, <1>14 DEF ElementTypes
  <2>2. \A q \in Producer : q # p => taken'[q] = taken[q]
    BY <1>5 DEF ElementTypes
  <2>3. ASSUME NEW x \in taken'[p] PROVE x.element = <<p, x.index>>
    <3>1. CASE x \in taken[p]
      BY <3>1 DEF DequeuedExact
    <3>2. CASE x = [index |-> i, element |-> <<p, i>>]
      BY <3>2
    <3> QED
      BY <2>1, <3>1, <3>2
  <2> QED
    BY <2>2, <2>3 DEF DequeuedExact
<1>16. \A x \in Consumer : cons'[x].at = "free" => cons'[x] = cons[x]
  BY <1>4 DEF OnlyCons
<1>17. ASSUME NEW q \in Producer, NEW f \in 1 .. Len(entries[q]), Value(q, f) \in Block
       PROVE  Holds(q, f)' /\ Alone(q, f)'
  <2>1. Holds(q, f) /\ Alone(q, f)
    BY <1>17 DEF Entries
  <2>2. Alone(q, f)'
    BY <1>5, <1>16, <2>1, AloneSame
  <2>3. CASE Value(q, f) # b
    <3>1. elements'[Value(q, f)] = elements[Value(q, f)]
      BY <1>7, <1>17, <2>3
    <3>2. Key(q, f)' = Key(q, f) /\ Value(q, f)' = Value(q, f)
      BY <1>12, IndexSame
    <3>3. Holds(q, f)'
      BY <1>5, <1>11, <2>1, <3>1, <3>2, HoldsSame
    <3> QED
      BY <2>2, <3>3
  <2>4. CASE Value(q, f) = b
    <3>1. q = p /\ f = e
      BY <1>3, <2>4 DEF Alone
    <3>2. PICK k \in Int : k = Base(i) /\ Mult(k) /\ i \in k .. k + BLOCK_SIZE - 1
      BY BaseFacts, BaseMult
    <3>3. Key(p, e)' = k /\ Value(p, e)' = b /\ Key(p, e) = k
      BY <1>3, <1>12, <3>2, IndexSame
    <3>4. Finished(p, k)' = Finished(p, k)
      BY <1>11, FinishedSame
    <3>5. ASSUME NEW j \in k .. k + BLOCK_SIZE - 1,
                 j < tailIndex'[p] \/ (j = tailIndex'[p] /\ prod'[p].at = "publish"), Pending(p, j)'
          PROVE  elements'[b][j % BLOCK_SIZE] = <<p, j>>
      <4>1. j \in Int /\ j # i
        BY <1>13, <3>5, BlockSize
      <4>2. Pending(p, j)
        BY <1>11, <3>5, <4>1 DEF NoMore
      <4>3. elements[b][j % BLOCK_SIZE] = <<p, j>>
        BY <1>3, <1>5, <3>3, <3>5, <4>2 DEF Holds
      <4>4. PICK r \in 0 .. BLOCK_SIZE - 1 : r = j % BLOCK_SIZE /\ r # m
        <5>1. j % BLOCK_SIZE = j - k /\ i % BLOCK_SIZE = i - k
          BY <3>2, MultFacts
        <5>2. j % BLOCK_SIZE \in 0 .. BLOCK_SIZE - 1
          BY <4>1, BaseFacts
        <5> QED
          BY <1>6, <4>1, <5>1, <5>2
      <4> QED
        BY <1>7, <4>3, <4>4
    <3>6. Holds(p, e)'
      BY <1>3, <1>5, <3>3, <3>4, <3>5 DEF Holds
    <3> QED
      BY <2>2, <3>1, <3>6
  <2> QED
    BY <2>3, <2>4
<1>18. ASSUME NEW q \in Producer PROVE Entries(q)'
  <2>1. Len(entries'[q]) = Len(entries[q]) /\ \A f : Value(q, f)' = Value(q, f)
    BY <1>12, IndexSame DEF SameIndex
  <2> QED
    BY <1>17, <2>1 DEF Entries
<1>19. Blocks'
  BY <1>5, <1>16, BlocksSame
<1>20. ASSUME NEW d \in Consumer, cons'[d].at # "idle" PROVE Reading(d, cons[d].p)'
  <2>1. CASE d # c
    <3>1. cons[d].at # "idle" /\ cons'[c].at # "clear"
      BY <1>4, <1>20, <2>1 DEF OnlyCons
    <3>2. PICK q \in Producer : q = cons[d].p
      BY <3>1 DEF CountInv, CountTypes, Asking
    <3>3. headIndex'[q] \in Nat /\ headIndex[q] <= headIndex'[q]
      BY <1>5, TopFacts
    <3>4. \A r, j : j < headIndex[r] /\ Works(c, r, j)' => Works(c, r, j)
      BY <1>10
    <3> QED
      BY <1>4, <1>11, <1>12, <2>1, <3>1, <3>2, <3>3, <3>4, ReadsOn
  <2>2. CASE d = c
    <3>1. \A x \in Consumer : Works(x, p, i)' => x = c
      BY <1>9, <1>10
    <3>2. Key(p, e)' = Base(i) /\ Value(p, e)' = b /\ e \in 1 .. Len(entries'[p])
      BY <1>3, <1>5, <1>12, IndexSame
    <3>3. Reading(c, p)'
      BY <1>3, <1>4, <1>5, <3>1, <3>2 DEF Reading
    <3> QED
      BY <1>4, <2>2, <3>3
  <2> QED
    BY <2>1, <2>2
<1> QED
  BY <1>8, <1>12, <1>15, <1>18, <1>19, <1>20

\* How many indices of a block are finished.
LEMMA FinishedCount ==
  ASSUME NEW q, NEW k \in Int
  PROVE  /\ Finished(q, k) \subseteq k .. k + BLOCK_SIZE - 1
         /\ IsFiniteSet(Finished(q, k)) /\ Cardinality(Finished(q, k)) \in Nat
         /\ Cardinality(Finished(q, k)) = BLOCK_SIZE => Finished(q, k) = k .. k + BLOCK_SIZE - 1
<1>1. Finished(q, k) \subseteq k .. k + BLOCK_SIZE - 1
  BY DEF Finished
<1>2. PICK l \in Int : l = k + BLOCK_SIZE - 1 /\ k <= l
  BY BlockSize
<1>3. IsFiniteSet(k .. l) /\ Cardinality(k .. l) = l - k + 1
  BY <1>2, FS_Interval
<1>4. Cardinality(k .. l) = BLOCK_SIZE
  BY <1>2, <1>3, BlockSize
<1>5. IsFiniteSet(Finished(q, k)) /\ Cardinality(Finished(q, k)) \in Nat
  BY <1>1, <1>2, <1>3, FS_Subset, FS_CardinalityType
<1>6. Cardinality(Finished(q, k)) = Cardinality(k .. l) => Finished(q, k) = k .. l
  BY <1>1, <1>2, <1>3, FS_Subset
<1> QED
  BY <1>1, <1>2, <1>4, <1>5, <1>6

\* A block is only cleared when nothing is to be done in it.
LEMMA ClearIsFinished ==
  ASSUME IInv, NEW d \in Consumer, cons[d].at = "clear", NEW i \in Nat,
         Base(i) = Base(cons[d].index)
  PROVE  ~Todo(cons[d].p, i)
<1>1. PICK q \in Producer : q = cons[d].p /\ cons[d].index \in Nat
  BY HasBlock
<1>2. Reading(d, q)
  BY <1>1 DEF IInv, ElementInv
<1>3. i \in Base(i) .. Base(i) + BLOCK_SIZE - 1
  BY BaseMult
<1>4. i \in Finished(q, Base(i))
  BY <1>2, <1>3 DEF Reading
<1> QED
  BY <1>1, <1>4 DEF Finished

\* set_empty: one more element of the block is done, and who does the last
\* clears the entry.
LEMMA SetEmptyStep ==
  ASSUME IInv, CountInv', NEW c \in Consumer, set_empty(c)
  PROVE  IInv'
<1> USE DEF IInv, ElementInv
<1>1. PICK p \in Producer, i \in Nat : p = cons[c].p /\ i = cons[c].index
  BY HasBlock DEF set_empty
<1>2. PICK e \in 1 .. Len(entries[p]), b \in Block : e = cons[c].entry /\ b = cons[c].block
  BY <1>1, HasBlock DEF set_empty
<1>3. /\ cons[c].at = "empty" /\ i < headIndex[p] /\ i < tailIndex[p] /\ Key(p, e) = Base(i)
      /\ Value(p, e) = b /\ Holds(p, e) /\ Alone(p, e)
  BY <1>1, <1>2, HasBlock DEF set_empty
<1>4. PICK n \in Nat : n = elementsCompletelyDequeued[b]
  BY DEF ElementTypes
<1>5. /\ OnlyCons(c)
      /\ \/ cons'[c] = [at |-> "idle"]
         \/ n = BLOCK_SIZE - 1 /\ cons'[c] = [at |-> "clear", p |-> p, index |-> i, entry |-> e, block |-> b]
  <2>1. PICK r : cgoto(c, r) /\ (r = Idle \/ (n = BLOCK_SIZE - 1 /\ r = Using("clear", c, b)))
    BY <1>2, <1>4 DEF set_empty
  <2> QED
    BY <1>1, <1>2, <2>1, Goes DEF Using, Idle, OnlyCons, CountInv, CountTypes
<1>6. /\ UNCHANGED <<tailIndex, headIndex, tailBlock, indexVars, elements, made,
                     freeBlocks, prod, headers, entries, taken>>
      /\ elementsCompletelyDequeued' = [elementsCompletelyDequeued EXCEPT ![b] = n + 1]
  BY <1>2, <1>4 DEF set_empty, countVars, indexVars
<1>7. /\ elementsCompletelyDequeued'[b] = n + 1
      /\ \A v \in Block : v # b => elementsCompletelyDequeued'[v] = elementsCompletelyDequeued[v]
      /\ elementsCompletelyDequeued' \in [Block -> Nat]
  BY <1>6 DEF ElementTypes
<1>8. ElementTypes'
  BY <1>6, <1>7 DEF ElementTypes
<1>9. Works(c, p, i) /\ \A x \in Consumer : Works(x, p, i) => x = c
  BY <1>1, <1>3 DEF Reading, Works
<1>10. ASSUME NEW q, NEW x \in Consumer, NEW j
       PROVE  /\ Works(x, q, j)' <=> Works(x, q, j) /\ x # c
              /\ Unread(x, q, j)' <=> Unread(x, q, j)
              /\ Works(c, q, j) <=> q = p /\ j = i
  BY <1>1, <1>3, <1>5 DEF OnlyCons, Works, Unread
<1>11. ASSUME NEW q \in Producer, NEW j \in Int
       PROVE  /\ Todo(q, j)' <=> Todo(q, j) /\ ~(q = p /\ j = i)
              /\ Pending(q, j)' <=> Pending(q, j)
  <2>1. Pending(q, j)' <=> Pending(q, j)
    BY <1>6, <1>10 DEF Pending
  <2>2. CASE q = p /\ j = i
    <3>1. ~(i >= headIndex'[p])
      BY <1>3, <1>6, TopFacts
    <3> QED
      BY <1>9, <1>10, <2>1, <2>2, <3>1 DEF Todo
  <2>3. CASE ~(q = p /\ j = i)
    BY <1>6, <1>10, <2>1, <2>3 DEF Todo
  <2> QED
    BY <2>2, <2>3
<1>12. ASSUME NEW q \in Producer
       PROVE  /\ NoMore(q) /\ SameIndex(q) /\ SameProducer(q)
              /\ Ring(q)' /\ Window(q)' /\ Phase(q)' /\ Installed(q)'
  <2>1. NoMore(q)
    BY <1>11 DEF NoMore
  <2> QED
    BY <1>6, <2>1, IndexKept
<1>13. PICK k \in Int : k = Base(i) /\ Mult(k) /\ i \in k .. k + BLOCK_SIZE - 1
  <2>1. Base(i) \in Int
    BY BaseFacts
  <2>2. Mult(Base(i)) /\ i \in Base(i) .. Base(i) + BLOCK_SIZE - 1
    BY BaseMult
  <2> QED
    BY <2>1, <2>2
<1>14. ASSUME NEW q \in Producer, NEW l \in Int, Mult(l), ~(q = p /\ l = k)
       PROVE  Finished(q, l)' = Finished(q, l)
  <2>1. ASSUME NEW j \in l .. l + BLOCK_SIZE - 1 PROVE Todo(q, j)' <=> Todo(q, j)
    <3>0. \A x \in l .. l + BLOCK_SIZE - 1 : Base(x) = l
      BY <1>14, MultFacts
    <3>1. j \in Int /\ Base(j) = l
      BY <3>0, BlockSize
    <3>2. ~(q = p /\ j = i)
      BY <1>13, <1>14, <3>1
    <3> QED
      BY <1>11, <3>1, <3>2
  <2> QED
    BY <2>1 DEF Finished
<1>15. /\ Finished(p, k)' = Finished(p, k) \cup {i} /\ i \notin Finished(p, k)
       /\ Cardinality(Finished(p, k)') = n + 1
  <2>1. Todo(p, i)
    BY <1>9 DEF Todo
  <2>2. ASSUME NEW j \in k .. k + BLOCK_SIZE - 1 PROVE Todo(p, j)' <=> Todo(p, j) /\ j # i
    <3>1. j \in Int
      BY BlockSize
    <3> QED
      BY <1>11, <3>1
  <2>3. Finished(p, k)' = Finished(p, k) \cup {i} /\ i \notin Finished(p, k)
    BY <1>13, <2>1, <2>2 DEF Finished
  <2>4. Cardinality(Finished(p, k)) = n
    BY <1>3, <1>4, <1>13 DEF Holds
  <2>5. IsFiniteSet(Finished(p, k))
    BY FinishedCount
  <2>6. Cardinality(Finished(p, k) \cup {i}) = n + 1
    BY <2>3, <2>4, <2>5, FS_AddElement
  <2> QED
    BY <2>3, <2>6
<1>16. \A x \in Consumer : cons'[x].at = "free" => cons'[x] = cons[x]
  BY <1>5 DEF OnlyCons
<1>17. ASSUME NEW q \in Producer, NEW f \in 1 .. Len(entries[q]), Value(q, f) \in Block
       PROVE  Holds(q, f)' /\ Alone(q, f)'
  <2>1. Holds(q, f) /\ Alone(q, f)
    BY <1>17 DEF Entries
  <2>2. Alone(q, f)'
    BY <1>6, <1>16, <2>1, AloneSame
  <2>3. PICK l \in Int, v \in Block : l = Key(q, f) /\ v = Value(q, f)
    BY <1>17, SlotFacts
  <2>4. Mult(l)
    BY <2>1, <2>3, EntryKey DEF Holds
  <2>5. l = Key(q, f)' /\ v = Value(q, f)'
    BY <1>12, <2>3, IndexSame
  <2>6. elementsCompletelyDequeued'[v] = Cardinality(Finished(q, l)')
    <3>1. CASE v = b
      <4>1. q = p /\ f = e
        BY <1>3, <2>3, <3>1 DEF Alone
      <4> QED
        BY <1>3, <1>7, <1>13, <1>15, <2>3, <3>1, <4>1
    <3>2. CASE v # b
      <4>1. ~(q = p /\ l = k)
        <5> SUFFICES ASSUME q = p, l = k PROVE FALSE
          OBVIOUS
        <5>1. f = e
          BY <1>3, <1>13, <2>3, <2>4, EntriesDiffer
        <5> QED
          BY <1>3, <2>3, <3>2, <5>1
      <4>2. Finished(q, l)' = Finished(q, l)
        BY <1>14, <2>4, <4>1
      <4> QED
        BY <1>7, <2>1, <2>3, <3>2, <4>2 DEF Holds
    <3> QED
      BY <3>1, <3>2
  <2>7. ASSUME NEW j \in l .. l + BLOCK_SIZE - 1,
               j < tailIndex'[q] \/ (j = tailIndex'[q] /\ prod'[q].at = "publish"), Pending(q, j)'
        PROVE  elements'[v][j % BLOCK_SIZE] = <<q, j>>
    <3>1. j \in Int
      BY BlockSize
    <3>2. Pending(q, j)
      BY <1>11, <2>7, <3>1
    <3> QED
      BY <1>6, <2>1, <2>3, <2>7, <3>2 DEF Holds
  <2>8. Holds(q, f)'
    BY <2>1, <2>3, <2>5, <2>6, <2>7 DEF Holds
  <2> QED
    BY <2>2, <2>8
<1>18. ASSUME NEW q \in Producer PROVE Entries(q)'
  <2>1. Len(entries'[q]) = Len(entries[q]) /\ \A f : Value(q, f)' = Value(q, f)
    BY <1>12, IndexSame DEF SameIndex
  <2> QED
    BY <1>17, <2>1 DEF Entries
<1>19. Blocks'
  <2>1. ASSUME NEW q \in Producer, prod[q].at = "value"
        PROVE  elementsCompletelyDequeued'[prod[q].block] = elementsCompletelyDequeued[prod[q].block]
    <3>1. prod[q].block \in Block
      BY <2>1, MadeBlocks DEF Blocks
    <3>2. prod[q].block # b
      <4>1. Reserved(prod[q].block)
        BY <2>1, Zenon DEF Reserved
      <4> QED
        BY <1>3, <4>1 DEF Alone
    <3> QED
      BY <1>7, <3>1, <3>2
  <2> QED
    BY <1>6, <1>16, <2>1, BlocksSame
<1>20. ASSUME NEW d \in Consumer, cons[d].at = "clear", cons[d].p = p, Base(cons[d].index) = k PROVE FALSE
  <2>1. ~Todo(p, i)
    BY <1>13, <1>20, ClearIsFinished
  <2> QED
    BY <1>9, <2>1 DEF Todo
<1>21. ASSUME NEW d \in Consumer, cons[d].at = "clear", cons[d].block = b PROVE FALSE
  <2>1. PICK q \in Producer, f \in 1 .. Len(entries[cons[d].p]) : q = cons[d].p /\ f = cons[d].entry
    BY <1>21, HasBlock
  <2>2. Value(q, f) = b /\ Key(q, f) = Base(cons[d].index)
    BY <1>21, <2>1, HasBlock
  <2>3. q = p /\ f = e
    BY <1>3, <2>1, <2>2 DEF Alone
  <2> QED
    BY <1>3, <1>13, <1>20, <1>21, <2>1, <2>2, <2>3
<1>22. ASSUME NEW d \in Consumer, d # c, cons'[d].at # "idle" PROVE Reading(d, cons[d].p)'
  <2>1. cons'[d] = cons[d]
    BY <1>5, <1>22 DEF OnlyCons
  <2>2. PICK q \in Producer : q = cons[d].p
    BY <1>22, <2>1 DEF CountInv, CountTypes, Asking
  <2>3. headIndex'[q] \in Nat /\ headIndex[q] <= headIndex'[q] /\ Reading(d, q)
    BY <1>6, <1>22, <2>1, <2>2, TopFacts
  <2>4. PICK j : j = cons[d].index
    OBVIOUS
  <2>5. cons[d].at \in {"header", "htail", "hkey", "entry", "move", "empty"} =>
          \A x \in Consumer : Works(x, q, j)' => x = d
    BY <1>10, <2>3, <2>4 DEF Reading
  <2>6. ASSUME cons[d].at = "clear"
        PROVE  /\ Finished(q, Base(j))' = Finished(q, Base(j))
               /\ \A x \in Consumer : cons'[x].at = "clear" /\ cons'[x].block = cons[d].block => x = d
    <3>1. j \in Nat
      BY <2>3, <2>4, <2>6 DEF Reading
    <3>0. j \in Int
      BY <3>1
    <3>2. PICK l \in Int : l = Base(j) /\ Mult(l)
      <4>1. Base(j) \in Int /\ Mult(Base(j))
        BY <3>0, BaseFacts, BaseMult
      <4> QED
        BY <4>1
    <3>3. ~(q = p /\ l = k)
      BY <1>20, <2>2, <2>4, <2>6, <3>2
    <3>4. Finished(q, l)' = Finished(q, l)
      BY <1>14, <3>2, <3>3
    <3>5. ASSUME NEW x \in Consumer, cons'[x].at = "clear", cons'[x].block = cons[d].block PROVE x = d
      <4>1. CASE x = c
        <5>1. cons[d].block = b
          BY <1>5, <3>5, <4>1
        <5> QED
          BY <1>21, <2>6, <5>1
      <4>2. CASE x # c
        <5>1. cons'[x] = cons[x]
          BY <1>5, <4>2 DEF OnlyCons
        <5> QED
          BY <2>3, <2>6, <3>5, <5>1 DEF Reading
      <4> QED
        BY <4>1, <4>2
    <3> QED
      BY <3>2, <3>4, <3>5
  <2>7. Reading(d, q)'
    BY <1>12, <2>1, <2>3, <2>4, <2>5, <2>6, ReadingSame
  <2> QED
    BY <2>1, <2>2, <2>7
<1>23. ASSUME cons'[c].at # "idle" PROVE Reading(c, cons[c].p)'
  <2>1. n = BLOCK_SIZE - 1 /\ cons'[c] = [at |-> "clear", p |-> p, index |-> i, entry |-> e, block |-> b]
    BY <1>5, <1>23
  <2>2. Key(p, e)' = Base(i) /\ Value(p, e)' = b /\ e \in 1 .. Len(entries'[p])
    BY <1>3, <1>6, <1>12, IndexSame
  <2>3. Finished(p, k)' = k .. k + BLOCK_SIZE - 1
    <3>1. n + 1 = BLOCK_SIZE
      BY <2>1, BlockSize
    <3>2. Cardinality(Finished(p, k)') = BLOCK_SIZE
      BY <1>15, <3>1
    <3>3. Finished(p, k)' \subseteq k .. k + BLOCK_SIZE - 1
      BY DEF Finished
    <3>4. PICK l \in Int : l = k + BLOCK_SIZE - 1 /\ k <= l
      BY BlockSize
    <3>5. IsFiniteSet(k .. l) /\ Cardinality(k .. l) = l - k + 1
      BY <3>4, FS_Interval
    <3>6. Cardinality(k .. l) = BLOCK_SIZE
      BY <3>4, <3>5, BlockSize
    <3> QED
      BY <3>2, <3>3, <3>4, <3>5, <3>6, FS_Subset
  <2>4. \A d \in Consumer : cons'[d].at = "clear" /\ cons'[d].block = b => d = c
    BY <1>5, <1>21 DEF OnlyCons
  <2>5. i < headIndex'[p]
    BY <1>3, <1>6
  <2>6. Reading(c, p)'
    BY <1>13, <2>1, <2>2, <2>3, <2>4, <2>5 DEF Reading
  <2> QED
    BY <2>1, <2>6
<1>24. DequeuedExact'
  BY <1>6 DEF DequeuedExact
<1> QED
  BY <1>8, <1>12, <1>18, <1>19, <1>22, <1>23, <1>24

-----------------------------------------------------------------------------
(***************************************************************************)
(* ImplicitProducer, the elements: what a step of the index changes        *)
(***************************************************************************)

\* Entry e of p becomes r.
Stored(p, e, r) == entries' = [entries EXCEPT ![p] = [entries[p] EXCEPT ![e] = r]]

\* The key or the value of one entry is stored.
LEMMA StoreEntry ==
  ASSUME IInv, NEW p \in Producer, NEW e \in 1 .. Len(entries[p]), NEW r \in EntryType,
         Stored(p, e, r)
  PROVE  /\ entries' \in [Producer -> Seq(EntryType)]
         /\ \A q \in Producer : Len(entries'[q]) = Len(entries[q])
         /\ \A q \in Producer : q # p => entries'[q] = entries[q]
         /\ Key(p, e)' = r.key /\ Value(p, e)' = r.value
         /\ \A f \in 1 .. Len(entries[p]) :
              f # e => Key(p, f)' = Key(p, f) /\ Value(p, f)' = Value(p, f)
<1>1. entries \in [Producer -> Seq(EntryType)]
  BY DEF IInv, ElementInv, ElementTypes
<1>2. PICK s \in Seq(EntryType) : s = entries[p]
  BY <1>1
<1>3. PICK t : t = [s EXCEPT ![e] = r]
  OBVIOUS
<1>4. /\ t \in Seq(EntryType) /\ Len(t) = Len(s) /\ t[e] = r
      /\ \A f \in 1 .. Len(s) : f # e => t[f] = s[f]
  BY <1>2, <1>3, ExceptSeq
<1>5. entries' = [entries EXCEPT ![p] = t]
  BY <1>2, <1>3 DEF Stored
<1>6. entries'[p] = t /\ \A q \in Producer : q # p => entries'[q] = entries[q]
  BY <1>1, <1>5
<1>7. entries' \in [Producer -> Seq(EntryType)]
  BY <1>1, <1>4, <1>5
<1> QED
  BY <1>2, <1>4, <1>6, <1>7 DEF Key, Value

\* Entry e of producer p gets a new value, or a new key.
StoresValue(p, e, v) == entries' = [entries EXCEPT ![p][e].value = v]
StoresKey(p, e, k) == entries' = [entries EXCEPT ![p][e].key = k]

\* value.store
LEMMA StoreValue ==
  ASSUME IInv, NEW p \in Producer, NEW e \in 1 .. Len(entries[p]), NEW v \in Int,
         StoresValue(p, e, v)
  PROVE  /\ entries' \in [Producer -> Seq(EntryType)]
         /\ \A q \in Producer : Len(entries'[q]) = Len(entries[q])
         /\ \A q \in Producer : q # p => entries'[q] = entries[q]
         /\ Value(p, e)' = v /\ \A f \in 1 .. Len(entries[p]) : Key(p, f)' = Key(p, f)
         /\ \A f \in 1 .. Len(entries[p]) : f # e => Value(p, f)' = Value(p, f)
<1>1. entries[p][e] \in EntryType
  BY TableFacts
<1>2. PICK r \in EntryType : r = [entries[p][e] EXCEPT !.value = v]
  BY <1>1 DEF EntryType
<1>3. r.key = Key(p, e) /\ r.value = v
  BY <1>1, <1>2 DEF EntryType, Key
<1>4. Stored(p, e, r)
  BY <1>2 DEF Stored, StoresValue
<1> QED
  BY <1>3, <1>4, StoreEntry

\* key.store
LEMMA StoreKey ==
  ASSUME IInv, NEW p \in Producer, NEW e \in 1 .. Len(entries[p]), NEW k \in Nat,
         StoresKey(p, e, k)
  PROVE  /\ entries' \in [Producer -> Seq(EntryType)]
         /\ \A q \in Producer : Len(entries'[q]) = Len(entries[q])
         /\ \A q \in Producer : q # p => entries'[q] = entries[q]
         /\ Key(p, e)' = k /\ \A f \in 1 .. Len(entries[p]) : Value(p, f)' = Value(p, f)
         /\ \A f \in 1 .. Len(entries[p]) : f # e => Key(p, f)' = Key(p, f)
<1>1. entries[p][e] \in EntryType
  BY TableFacts
<1>2. PICK r \in EntryType : r = [entries[p][e] EXCEPT !.key = k]
  BY <1>1 DEF EntryType
<1>3. r.value = Value(p, e) /\ r.key = k
  BY <1>1, <1>2 DEF EntryType, Value
<1>4. Stored(p, e, r)
  BY <1>2 DEF Stored, StoresKey
<1> QED
  BY <1>3, <1>4, StoreEntry

\* The tables are the same, and the entries as many.
LEMMA RingSame ==
  ASSUME NEW q \in Producer, headers'[q] = headers[q], Len(entries'[q]) = Len(entries[q])
  PROVE  /\ N(q)' = N(q) /\ Tab(q)' = Tab(q) /\ \A j : Slot(q, j)' = Slot(q, j)
         /\ Ring(q) => Ring(q)'
<1>1. Tab(q)' = Tab(q)
  BY DEF Tab
<1>2. N(q)' = N(q)
  BY <1>1 DEF N
<1>3. \A j : Slot(q, j)' = Slot(q, j)
  BY <1>1, <1>2 DEF Slot
<1> QED
  BY <1>1, <1>2, <1>3 DEF Ring, Table

\* Whoever counts back in a table finds the same.
LEMMA CoversKept ==
  ASSUME IInv, NEW q \in Producer, NEW h \in 1 .. Len(headers[q]),
         NEW t \in 0 .. Len(headers[q][h].index) - 1, NEW i,
         headers'[q][h].index = headers[q][h].index,
         \A f \in 1 .. Len(entries[q]) : Key(q, f)' = Key(q, f), Covers(q, h, t, i)
  PROVE  Covers(q, h, t, i)'
<1>1. Table(q, h) /\ headers[q][h] \in HeaderType
  BY TableFacts DEF IInv, ElementInv, Ring
<1>2. PICK n \in Nat : n = Len(headers[q][h].index) /\ n > 1
  BY <1>1 DEF Table, HeaderType
<1>3. \A x \in 1 .. n : headers[q][h].index[x] \in 1 .. Len(entries[q])
  BY <1>1, <1>2 DEF Table
<1>4. PICK j \in 0 .. n - 1 :
        /\ Key(q, headers[q][h].index[t + 1]) = Base(i) + j * BLOCK_SIZE
        /\ Key(q, headers[q][h].index[Back(t, j, n) + 1]) = Base(i)
  BY <1>2 DEF Covers
<1>5. PICK u \in 0 .. n - 1 : u = t
  BY <1>2
<1>6. PICK y \in 1 .. n : y = t + 1
  BY <1>5
<1>7. PICK x \in 1 .. n : x = Back(t, j, n) + 1
  <2>1. u - j \in Int /\ n > 0
    BY <1>2
  <2>2. (u - j) % n \in 0 .. n - 1
    BY <2>1, ModIn
  <2>3. Back(t, j, n) \in 0 .. n - 1
    BY <1>5, <2>2 DEF Back
  <2> QED
    BY <2>3
<1>8. PICK f \in 1 .. Len(entries[q]), g \in 1 .. Len(entries[q]) :
        f = headers[q][h].index[y] /\ g = headers[q][h].index[x]
  BY <1>3
<1>9. Key(q, f)' = Base(i) + j * BLOCK_SIZE /\ Key(q, g)' = Base(i)
  BY <1>4, <1>6, <1>7, <1>8
<1>10. f = headers'[q][h].index[t + 1] /\ g = headers'[q][h].index[Back(t, j, n) + 1]
  BY <1>6, <1>7, <1>8
<1>11. n = Len(headers'[q][h].index)
  BY <1>2
<1> QED
  BY <1>9, <1>10, <1>11, Zenon DEF Covers

\* Counting back leads to a block in which something is to be done as before.
KeepsCovers(q) ==
  \A h \in 1 .. Len(headers[q]) : \A t \in 0 .. Len(headers[q][h].index) - 1 : \A i \in Nat :
    Todo(q, i) /\ Base(i) <= Newest(q) /\ Covers(q, h, t, i) => Covers(q, h, t, i)'

\* A step that keeps what consumers may have read of the index.
IndexStep(q) ==
  /\ Len(headers'[q]) \in Nat /\ Len(headers[q]) <= Len(headers'[q])
  /\ Len(entries'[q]) \in Nat /\ Len(entries[q]) <= Len(entries'[q])
  /\ \A h \in 1 .. Len(headers[q]) :
       /\ headers'[q][h].index = headers[q][h].index
       /\ h < Len(headers'[q]) => headers'[q][h].tail = headers[q][h].tail
  /\ \A f \in 1 .. Len(entries[q]) : Value(q, f) \in Block => Key(q, f)' = Key(q, f)
  /\ KeepsCovers(q)

\* A consumer that does not move, while the index changes.
LEMMA ReadingKept ==
  ASSUME IInv, NEW d \in Consumer, cons[d].at # "idle", cons'[d] = cons[d], IndexStep(cons[d].p),
         headIndex'[cons[d].p] = headIndex[cons[d].p],
         cons[d].at \in {"header", "htail", "hkey", "entry", "move", "empty"} =>
           \A x \in Consumer : Works(x, cons[d].p, cons[d].index)' => x = d,
         cons[d].at \in {"move", "empty", "clear"} =>
           Value(cons[d].p, cons[d].entry)' = Value(cons[d].p, cons[d].entry),
         cons[d].at = "clear" =>
           /\ Finished(cons[d].p, Base(cons[d].index))' = Finished(cons[d].p, Base(cons[d].index))
           /\ \A x \in Consumer : cons'[x].at = "clear" /\ cons'[x].block = cons[d].block => x = d
  PROVE  Reading(d, cons[d].p)'
<1>1. PICK q \in Producer : q = cons[d].p
  BY DEF IInv, CountInv, CountTypes, Asking
<1>2. Reading(d, q)
  BY <1>1 DEF IInv, ElementInv
<1>3. /\ Len(headers[q]) \in Nat /\ Len(headers'[q]) \in Nat /\ Len(headers[q]) <= Len(headers'[q])
      /\ Len(entries[q]) \in Nat /\ Len(entries'[q]) \in Nat /\ Len(entries[q]) <= Len(entries'[q])
  BY <1>1, TableFacts DEF IndexStep
<1>4. ASSUME cons[d].at = "htail"
      PROVE  /\ cons[d].h \in 1 .. Len(headers'[q])
             /\ cons[d].h < Len(headers'[q]) =>
                  Covers(q, cons[d].h, headers[q][cons[d].h].tail, cons[d].index)'
  <2>1. PICK h \in 1 .. Len(headers[q]), i \in Nat : h = cons[d].h /\ i = cons[d].index
    BY <1>2, <1>4 DEF Reading
  <2>2. PICK t : t = headers[q][h].tail
    OBVIOUS
  <2>3. Covers(q, h, t, i)
    <3>1. CASE h = Len(headers[q])
      BY <1>1, <1>4, <2>1, <2>2, <3>1, CoversNow DEF Tab
    <3>2. CASE h # Len(headers[q])
      BY <1>2, <1>3, <1>4, <2>1, <2>2, <3>2 DEF Reading
    <3> QED
      BY <3>1, <3>2
  <2>4. t \in 0 .. Len(headers[q][h].index) - 1
    <3>1. Table(q, h) /\ headers[q][h] \in HeaderType
      BY TableFacts DEF IInv, ElementInv, Ring
    <3> QED
      BY <2>2, <3>1 DEF Table, HeaderType
  <2>5. Todo(q, i) /\ Base(i) <= Newest(q)
    BY <1>1, <1>4, <2>1, HasIndex
  <2>6. Covers(q, h, t, i)'
    BY <1>1, <2>3, <2>4, <2>5 DEF IndexStep, KeepsCovers
  <2>7. h < Len(headers'[q]) => headers'[q][h].tail = t
    BY <1>1, <2>2 DEF IndexStep
  <2> QED
    BY <1>3, <2>1, <2>2, <2>6, <2>7
<1>5. ASSUME cons[d].at = "hkey"
      PROVE  /\ cons[d].h \in 1 .. Len(headers'[q])
             /\ cons[d].tail \in 0 .. Len(headers'[q][cons[d].h].index) - 1
             /\ Covers(q, cons[d].h, cons[d].tail, cons[d].index)'
  <2>1. PICK h \in 1 .. Len(headers[q]), i \in Nat : h = cons[d].h /\ i = cons[d].index
    BY <1>2, <1>5 DEF Reading
  <2>2. PICK t : t = cons[d].tail
    OBVIOUS
  <2>3. Covers(q, h, t, i) /\ t \in 0 .. Len(headers[q][h].index) - 1
    BY <1>2, <1>5, <2>1, <2>2 DEF Reading
  <2>4. Todo(q, i) /\ Base(i) <= Newest(q)
    BY <1>1, <1>5, <2>1, HasIndex
  <2>5. Covers(q, h, t, i)'
    BY <1>1, <2>3, <2>4 DEF IndexStep, KeepsCovers
  <2>6. headers'[q][h].index = headers[q][h].index
    BY <1>1 DEF IndexStep
  <2> QED
    BY <1>3, <2>1, <2>2, <2>3, <2>5, <2>6
<1>6. ASSUME cons[d].at \in {"entry", "move", "empty", "clear"}
      PROVE  cons[d].entry \in 1 .. Len(entries'[q]) /\ Key(q, cons[d].entry)' = Base(cons[d].index)
  <2>1. PICK f \in 1 .. Len(entries[q]) : f = cons[d].entry
    BY <1>2, <1>6 DEF Reading
  <2>2. Key(q, f) = Base(cons[d].index)
    BY <1>2, <1>6, <2>1 DEF Reading
  <2>3. Value(q, f) \in Block
    BY <1>1, <1>6, <2>1, FoundEntry, HasBlock
  <2>4. Key(q, f)' = Key(q, f)
    BY <1>1, <2>3 DEF IndexStep
  <2> QED
    BY <1>3, <2>1, <2>2, <2>4
<1>7. ASSUME cons[d].at \in {"move", "empty", "clear"}
      PROVE  Value(q, cons[d].entry)' = cons[d].block
  BY <1>1, <1>2, <1>7 DEF Reading
<1>8. Reading(d, q)'
  BY <1>1, <1>2, <1>4, <1>5, <1>6, <1>7 DEF Reading
<1> QED
  BY <1>1, <1>8

\* The keys and the tables are the same, but for the tail of the current one.
LEMMA KeysKept ==
  ASSUME IInv, NEW q \in Producer, Len(headers'[q]) = Len(headers[q]), Len(entries'[q]) = Len(entries[q]),
         \A h \in 1 .. Len(headers[q]) :
           /\ headers'[q][h].index = headers[q][h].index
           /\ h < Len(headers[q]) => headers'[q][h].tail = headers[q][h].tail,
         \A f \in 1 .. Len(entries[q]) : Key(q, f)' = Key(q, f)
  PROVE  IndexStep(q)
<1>1. KeepsCovers(q)
  BY CoversKept DEF KeepsCovers
<1> QED
  BY <1>1, TableFacts DEF IndexStep

\* clear: the entry is given up when nobody needs it.
LEMMA ClearStep ==
  ASSUME IInv, CountInv', NEW c \in Consumer, clear(c)
  PROVE  IInv'
<1> USE DEF IInv, ElementInv
<1>1. PICK p \in Producer, i \in Nat : p = cons[c].p /\ i = cons[c].index
  BY HasBlock DEF clear
<1>2. PICK e \in 1 .. Len(entries[p]), b \in Block : e = cons[c].entry /\ b = cons[c].block
  BY <1>1, HasBlock DEF clear
<1>3. /\ cons[c].at = "clear" /\ Key(p, e) = Base(i)
      /\ Value(p, e) = b /\ Holds(p, e) /\ Alone(p, e)
  BY <1>1, <1>2, HasBlock DEF clear
<1>4. OnlyCons(c) /\ cons'[c] = [at |-> "free", p |-> p, index |-> i, entry |-> e, block |-> b]
  BY <1>1, <1>2, Goes DEF clear, Using, OnlyCons, CountInv, CountTypes
<1>5. /\ UNCHANGED <<tailIndex, headIndex, tailBlock, elements, elementsCompletelyDequeued, made,
                     freeBlocks, prod, headers, taken>>
      /\ entries' = [entries EXCEPT ![p][e].value = 0]
  BY <1>1, <1>2 DEF clear, countVars, blockVars
<1>6. /\ entries' \in [Producer -> Seq(EntryType)]
      /\ \A q \in Producer : Len(entries'[q]) = Len(entries[q])
      /\ \A q \in Producer : q # p => entries'[q] = entries[q]
      /\ Value(p, e)' = 0 /\ \A f \in 1 .. Len(entries[p]) : Key(p, f)' = Key(p, f)
      /\ \A f \in 1 .. Len(entries[p]) : f # e => Value(p, f)' = Value(p, f)
  <2>1. StoresValue(p, e, 0)
    BY <1>5 DEF StoresValue
  <2> QED
    BY <2>1, StoreValue
<1>7. ASSUME NEW q \in Producer, NEW f \in 1 .. Len(entries[q])
      PROVE  Key(q, f)' = Key(q, f) /\ (~(q = p /\ f = e) => Value(q, f)' = Value(q, f))
  BY <1>6 DEF Key, Value
<1>8. ElementTypes'
  BY <1>5, <1>6 DEF ElementTypes
<1>9. ASSUME NEW q, NEW x \in Consumer, NEW j
      PROVE  (Works(x, q, j)' <=> Works(x, q, j)) /\ (Unread(x, q, j)' <=> Unread(x, q, j))
  BY <1>3, <1>4 DEF OnlyCons, Works, Unread
<1>10. ASSUME NEW q \in Producer PROVE NoMore(q) /\ SameTodo(q)
  BY <1>5, <1>9 DEF NoMore, SameTodo, Todo, Pending
<1>11. ASSUME NEW j \in Nat, Todo(p, j) PROVE Base(j) # Base(i)
  BY <1>1, <1>3, <1>11, ClearIsFinished
<1>12. 0 \notin Block
  BY MadeBlocks
<1>13. ASSUME NEW q \in Producer PROVE /\ N(q)' = N(q) /\ \A j : Slot(q, j)' = Slot(q, j)
                                       /\ Ring(q)' /\ IndexStep(q)
  <2>1. headers'[q] = headers[q] /\ Len(entries'[q]) = Len(entries[q])
    BY <1>5, <1>6
  <2> QED
    BY <1>7, <2>1, RingSame, KeysKept
<1>14. ASSUME NEW q \in Producer, q # p PROVE SameIndex(q) /\ SameProducer(q)
  BY <1>5, <1>6, <1>14 DEF SameIndex, SameProducer
<1>15. Top(p)' = Top(p) /\ Newest(p)' = Newest(p)
  BY <1>5 DEF Top, Newest
<1>16. Window(p)'
  <2>1. \A f \in 1 .. Len(entries[p]) : (Unused(p, f) => Unused(p, f)') /\ (Early(p, f) => Early(p, f)')
    <3>1. ~Unused(p, e) /\ ~Early(p, e)
      BY <1>3, EntryKey
    <3> QED
      BY <1>5, <1>7, <1>15, <3>1 DEF Unused, Early
  <2>2. \A j \in 0 .. N(p) - 1 : Slot(p, j) \in 1 .. Len(entries[p])
    BY SlotFacts
  <2>3. 0 \in 0 .. N(p) - 1 /\ 1 \in 0 .. N(p) - 1
    BY TableFacts
  <2>4. Window(p)
    OBVIOUS
  <2>5. ASSUME NEW j \in 0 .. N(p) - 1
        PROVE  \/ Unused(p, Slot(p, j))'
               \/ Key(p, Slot(p, j))' = Top(p)' - j * BLOCK_SIZE
               \/ j = N(p)' - 1 /\ Early(p, Slot(p, j))'
    <3>1. PICK f \in 1 .. Len(entries[p]) : f = Slot(p, j) /\ f = Slot(p, j)'
      BY <1>13, <2>2
    <3>2. Unused(p, f) \/ Key(p, f) = Top(p) - j * BLOCK_SIZE \/ (j = N(p) - 1 /\ Early(p, f))
      BY <2>4, <3>1 DEF Window
    <3>3. Unused(p, f)' \/ Key(p, f)' = Top(p)' - j * BLOCK_SIZE \/ (j = N(p)' - 1 /\ Early(p, f)')
      BY <1>6, <1>13, <1>15, <2>1, <3>2
    <3> QED
      BY <3>1, <3>3
  <2>6. Key(p, Slot(p, 0))' = Key(p, Slot(p, 0)) /\ Key(p, Slot(p, 1))' = Key(p, Slot(p, 1))
    <3>1. PICK f, g : f = Slot(p, 0) /\ g = Slot(p, 1) /\ f = Slot(p, 0)' /\ g = Slot(p, 1)'
      BY <1>13
    <3>2. Key(p, f)' = Key(p, f) /\ Key(p, g)' = Key(p, g)
      BY <1>6, <2>2, <2>3, <3>1
    <3> QED
      BY <3>1, <3>2
  <2> QED
    BY <1>5, <1>13, <1>15, <2>4, <2>5, <2>6 DEF Window
<1>17. Phase(p)'
  <2>1. PICK f \in 1 .. Len(entries[p]), g \in 1 .. Len(entries[p]) :
          /\ f = Slot(p, 0) /\ f = Slot(p, 0)'
          /\ g = Slot(p, N(p) - 1) /\ g = Slot(p, N(p) - 1)'
    <3>1. 0 \in 0 .. N(p) - 1 /\ N(p) - 1 \in 0 .. N(p) - 1
      BY TableFacts
    <3>2. Slot(p, N(p) - 1)' = Slot(p, N(p) - 1)
      <4>1. PICK j : j = N(p) - 1 /\ j = N(p)' - 1
        BY <1>13
      <4> QED
        BY <1>13, <4>1
    <3> QED
      BY <1>13, <3>1, <3>2, SlotFacts
  <2>2. Phase(p)
    OBVIOUS
  <2>3. /\ Value(p, f)' = Value(p, f) \/ (f = e /\ Value(p, f)' = 0)
        /\ Value(p, g)' = Value(p, g) \/ (g = e /\ Value(p, g)' = 0)
        /\ Key(p, f)' = Key(p, f) /\ Key(p, g)' = Key(p, g)
    BY <1>6, <1>7
  <2>4. tailIndex[p] % BLOCK_SIZE # 0 \/ prod[p].at \in {"construct", "publish"} => f # e
    <3> SUFFICES ASSUME tailIndex[p] % BLOCK_SIZE # 0 \/ prod[p].at \in {"construct", "publish"}, f = e
                 PROVE  FALSE
      OBVIOUS
    <3>1. Top(p) = Base(tailIndex[p]) /\ tailIndex[p] \in Nat
      BY TopFacts DEF Top
    <3>2. Base(tailIndex[p]) >= 0
      <4>1. PICK x \in Int : x = tailIndex[p] /\ x >= 0
        BY <3>1
      <4> QED
        BY <4>1, BaseFacts
    <3>3. Key(p, e) = Base(tailIndex[p])
      BY <2>1, <3>1, <3>2 DEF Window
    <3>4. Todo(p, tailIndex[p])
      BY TopFacts DEF Todo
    <3> QED
      BY <1>3, <1>11, <3>1, <3>3, <3>4
  <2>5. N(p)' = N(p) /\ tailIndex' = tailIndex /\ tailBlock' = tailBlock /\ prod' = prod
    BY <1>5, <1>13
  <2> QED
    BY <1>12, <2>1, <2>2, <2>3, <2>4, <2>5 DEF Phase
<1>18. ASSUME NEW q \in Producer PROVE Installed(q)'
  <2>1. CASE q # p
    BY <1>10, <1>14, <2>1, InstalledSame
  <2>2. CASE q = p
    <3>1. ASSUME NEW j \in Nat, Base(j) <= Newest(p), Todo(p, j)'
          PROVE  \E f \in 1 .. Len(entries'[p]) : Key(p, f)' = Base(j) /\ Value(p, f)' \in Block
      <4>1. Todo(p, j)
        BY <1>10, <3>1 DEF SameTodo
      <4>2. PICK f \in 1 .. Len(entries[p]) : Key(p, f) = Base(j) /\ Value(p, f) \in Block
        BY <3>1, <4>1 DEF Installed
      <4>3. f # e
        BY <1>3, <1>11, <4>1, <4>2
      <4> QED
        BY <1>6, <4>2, <4>3
    <3> QED
      BY <1>15, <2>2, <3>1 DEF Installed
  <2> QED
    BY <2>1, <2>2
<1>19. ASSUME NEW q \in Producer, NEW f \in 1 .. Len(entries[q]), Value(q, f)' \in Block
       PROVE  Holds(q, f)' /\ Alone(q, f)'
  <2>1. ~(q = p /\ f = e) /\ Value(q, f)' = Value(q, f) /\ Key(q, f)' = Key(q, f)
    BY <1>6, <1>7, <1>12, <1>19
  <2>2. Holds(q, f) /\ Alone(q, f)
    BY <1>19, <2>1 DEF Entries
  <2>3. Holds(q, f)'
    BY <1>5, <1>10, <2>1, <2>2, HoldsSame
  <2>4. PICK v \in Block : v = Value(q, f) /\ v = Value(q, f)' /\ v # b
    BY <1>3, <1>19, <2>1 DEF Alone
  <2>5. v <= made' /\ v \notin freeBlocks' /\ ~Reserved(v)'
    BY <1>5, <2>2, <2>4 DEF Alone, Reserved
  <2>6. ASSUME NEW x \in Consumer PROVE ~Returned(x, v)'
    BY <1>4, <2>2, <2>4 DEF Alone, Returned, OnlyCons
  <2>7. ASSUME NEW r \in Producer, NEW g \in 1 .. Len(entries'[r]), Value(r, g)' = v
        PROVE  r = q /\ g = f
    <3>1. g \in 1 .. Len(entries[r]) /\ ~(r = p /\ g = e)
      BY <1>6, <1>12, <2>7
    <3>2. Value(r, g) = v
      BY <1>7, <2>7, <3>1
    <3> QED
      BY <2>2, <2>4, <3>1, <3>2 DEF Alone
  <2>8. Alone(q, f)'
    BY <2>4, <2>5, <2>6, <2>7 DEF Alone
  <2> QED
    BY <2>3, <2>8
<1>20. ASSUME NEW q \in Producer PROVE Entries(q)'
  BY <1>6, <1>19 DEF Entries
<1>21. Blocks'
  <2>1. ASSUME NEW x \in Consumer, NEW v PROVE Returned(x, v)' <=> Returned(x, v) \/ (x = c /\ v = b)
    BY <1>3, <1>4 DEF Returned, OnlyCons
  <2>2. \A x \in Consumer : ~Returned(x, b)
    BY <1>3 DEF Alone
  <2>3. ASSUME NEW q \in Producer, prod[q].at = "value" PROVE prod[q].block # b
    <3>1. Reserved(prod[q].block)
      BY <2>3, Zenon DEF Reserved
    <3> QED
      BY <1>3, <3>1 DEF Alone
  <2>4. b \in 1 .. made /\ b \notin freeBlocks
    BY <1>3, MadeBlocks DEF Alone
  <2>5. Blocks
    OBVIOUS
  <2>6. ASSUME NEW q \in Producer, prod'[q].at = "value"
        PROVE  /\ prod'[q].block \in 1 .. made' /\ prod'[q].block \notin freeBlocks'
               /\ elementsCompletelyDequeued'[prod'[q].block] = 0
               /\ \A r \in Producer : prod'[r].at = "value" /\ prod'[r].block = prod'[q].block => r = q
               /\ \A x \in Consumer : ~Returned(x, prod[q].block)'
    <3>1. PICK v : v = prod[q].block
      OBVIOUS
    <3>2. \A x \in Consumer : ~Returned(x, v)
      BY <1>5, <2>5, <2>6, <3>1 DEF Blocks
    <3>3. \A x \in Consumer : ~Returned(x, v)'
      BY <1>5, <2>1, <2>3, <2>6, <3>1, <3>2
    <3> QED
      BY <1>5, <2>5, <2>6, <3>1, <3>3 DEF Blocks
  <2>7. ASSUME NEW x \in Consumer, cons'[x].at = "free"
        PROVE  /\ cons'[x].block \in 1 .. made' /\ cons'[x].block \notin freeBlocks'
               /\ \A d \in Consumer : Returned(d, cons[x].block)' => d = x
    <3>1. CASE x = c
      BY <1>4, <1>5, <2>1, <2>2, <2>4, <3>1
    <3>2. CASE x # c
      <4>1. cons'[x] = cons[x]
        BY <1>4, <3>2 DEF OnlyCons
      <4>2. PICK v : v = cons[x].block
        OBVIOUS
      <4>3. v # b
        BY <2>2, <2>7, <4>1, <4>2 DEF Returned
      <4>4. \A d \in Consumer : Returned(d, v)' => d = x
        BY <2>1, <2>5, <2>7, <4>1, <4>2, <4>3 DEF Blocks
      <4> QED
        BY <1>5, <2>5, <2>7, <4>1, <4>2, <4>4 DEF Blocks
    <3> QED
      BY <3>1, <3>2
  <2> QED
    BY <2>6, <2>7 DEF Blocks
<1>22. ASSUME NEW d \in Consumer, cons'[d].at # "idle" PROVE Reading(d, cons[d].p)'
  <2>1. CASE d = c
    BY <1>4, <2>1 DEF Reading
  <2>2. CASE d # c
    <3>1. cons'[d] = cons[d] /\ cons[d].at # "idle"
      BY <1>4, <1>22, <2>2 DEF OnlyCons
    <3>2. PICK q \in Producer : q = cons[d].p
      BY <3>1 DEF CountInv, CountTypes, Asking
    <3>3. Reading(d, q)
      BY <3>1, <3>2
    <3>4. PICK j, f : j = cons[d].index /\ f = cons[d].entry
      OBVIOUS
    <3>5. cons[d].at \in {"header", "htail", "hkey", "entry", "move", "empty"} =>
            \A x \in Consumer : Works(x, q, j)' => x = d
      BY <1>9, <3>3, <3>4 DEF Reading
    <3>6. ASSUME cons[d].at \in {"move", "empty", "clear"} PROVE Value(q, f)' = Value(q, f)
      <4>1. /\ f \in 1 .. Len(entries[q]) /\ j \in Nat /\ Key(q, f) = Base(j)
            /\ Value(q, f) = cons[d].block
        BY <3>2, <3>4, <3>6, HasBlock
      <4>2. ~(q = p /\ f = e)
        <5> SUFFICES ASSUME q = p, f = e PROVE FALSE
          OBVIOUS
        <5>1. CASE cons[d].at = "clear"
          <6>1. cons[d].block = b
            BY <1>3, <4>1
          <6> QED
            BY <1>1, <1>2, <1>3, <2>2, <5>1, <6>1 DEF Reading
        <5>2. CASE cons[d].at # "clear"
          <6>1. Todo(p, j)
            BY <3>2, <3>4, <3>6, <5>2, HasIndex
          <6> QED
            BY <1>3, <1>11, <4>1, <6>1
        <5> QED
          BY <5>1, <5>2
      <4> QED
        BY <1>7, <4>1, <4>2
    <3>7. ASSUME cons[d].at = "clear"
          PROVE  /\ Finished(q, Base(j))' = Finished(q, Base(j))
                 /\ \A x \in Consumer : cons'[x].at = "clear" /\ cons'[x].block = cons[d].block => x = d
      <4>1. j \in Nat
        BY <3>3, <3>4, <3>7 DEF Reading
      <4>2. PICK l \in Int : l = Base(j)
        BY <4>1, BaseFacts
      <4>3. Finished(q, l)' = Finished(q, l)
        BY <1>10, FinishedSame
      <4>4. \A x \in Consumer : cons'[x].at = "clear" => cons'[x] = cons[x]
        BY <1>4 DEF OnlyCons
      <4> QED
        BY <3>3, <3>7, <4>2, <4>3, <4>4 DEF Reading
    <3>8. IndexStep(q) /\ headIndex'[q] = headIndex[q]
      BY <1>5, <1>13
    <3> QED
      BY <3>1, <3>2, <3>4, <3>5, <3>6, <3>7, <3>8, ReadingKept
  <2> QED
    BY <2>1, <2>2
<1>23. DequeuedExact'
  BY <1>5 DEF DequeuedExact
<1>24. ASSUME NEW q \in Producer, q # p PROVE Window(q)' /\ Phase(q)'
  BY <1>14, <1>24, ProducerSame
<1> QED
  BY <1>8, <1>13, <1>16, <1>17, <1>18, <1>20, <1>21, <1>22, <1>23, <1>24

\* add_block_to_free_list: the block that goes back is nobody's.
LEMMA FreeStep ==
  ASSUME IInv, CountInv', NEW c \in Consumer, add_block_to_free_list(c)
  PROVE  IInv'
<1> USE DEF IInv, ElementInv
<1>1. /\ UNCHANGED <<tailIndex, headIndex, tailBlock, indexVars, elements, elementsCompletelyDequeued,
                     made, prod, taken, entries>>
      /\ freeBlocks' = freeBlocks \cup {cons[c].block} /\ cons[c].at = "free"
  BY DEF add_block_to_free_list, countVars, indexVars
<1>2. OnlyCons(c) /\ cons'[c] = [at |-> "idle"]
  BY Goes DEF add_block_to_free_list, Idle, OnlyCons, CountInv, CountTypes
<1>3. PICK b : b = cons[c].block /\ Returned(c, b)
  BY <1>1, Zenon DEF Returned
<1>4. b \in 1 .. made /\ \A d \in Consumer : Returned(d, b) => d = c
  BY <1>1, <1>3 DEF Blocks
<1>5. ElementTypes'
  BY <1>1, <1>3, <1>4 DEF ElementTypes, indexVars
<1>7. ASSUME NEW q, NEW x \in Consumer, NEW j
      PROVE  (Works(x, q, j)' <=> Works(x, q, j)) /\ (Unread(x, q, j)' <=> Unread(x, q, j))
  BY <1>1, <1>2 DEF OnlyCons, Works, Unread
<1>8. ASSUME NEW q \in Producer PROVE NoMore(q) /\ SameTodo(q)
  BY <1>1, <1>7 DEF NoMore, SameTodo, Todo, Pending
<1>9. ASSUME NEW q \in Producer
      PROVE  SameIndex(q) /\ SameProducer(q) /\ Ring(q)' /\ Window(q)' /\ Phase(q)' /\ Installed(q)'
  BY <1>1, <1>8, IndexKept
<1>10. ASSUME NEW x \in Consumer, NEW v PROVE Returned(x, v)' <=> Returned(x, v) /\ x # c
  BY <1>2 DEF Returned, OnlyCons
<1>11. ASSUME NEW q \in Producer PROVE Entries(q)'
  <2>1. ASSUME NEW e \in 1 .. Len(entries[q]), Value(q, e) \in Block PROVE Alone(q, e)'
    <3>1. Alone(q, e) /\ Value(q, e) # b
      BY <1>3, <2>1 DEF Entries, Alone
    <3>2. \A r, f : Value(r, f)' = Value(r, f)
      BY <1>1 DEF Value
    <3>3. \A v : Reserved(v)' <=> Reserved(v)
      BY <1>1 DEF Reserved
    <3> QED
      BY <1>1, <1>3, <1>10, <3>1, <3>2, <3>3 DEF Alone
  <2> QED
    BY <1>1, <1>8, <1>9, <2>1, EntriesSame
<1>12. Blocks'
  <2>1. Blocks
    OBVIOUS
  <2>2. ASSUME NEW q \in Producer, prod[q].at = "value" PROVE prod[q].block # b
    BY <1>3, <2>1, <2>2 DEF Blocks
  <2>3. ASSUME NEW x \in Consumer, cons'[x].at = "free"
        PROVE  cons'[x] = cons[x] /\ cons[x].block # b
    BY <1>2, <1>4, <2>3 DEF OnlyCons, Returned
  <2>4. \A x \in Consumer : \A v : Returned(x, v)' => Returned(x, v)
    BY <1>10
  <2> QED
    BY <1>1, <1>3, <2>1, <2>2, <2>3, <2>4 DEF Blocks
<1>13. ASSUME NEW d \in Consumer, cons'[d].at # "idle" PROVE Reading(d, cons[d].p)'
  <2>1. d # c /\ cons[d].at # "idle" /\ cons'[c].at # "clear"
    BY <1>2, <1>13 DEF OnlyCons
  <2>2. PICK q \in Producer : q = cons[d].p
    BY <2>1 DEF CountInv, CountTypes, Asking
  <2>3. headIndex'[q] \in Nat /\ headIndex[q] <= headIndex'[q]
    BY <1>1, TopFacts
  <2>4. \A r, j : j < headIndex[r] /\ Works(c, r, j)' => Works(c, r, j)
    BY <1>7
  <2> QED
    BY <1>2, <1>8, <1>9, <2>1, <2>2, <2>3, <2>4, ReadsOn
<1>14. DequeuedExact'
  BY <1>1 DEF DequeuedExact
<1> QED
  BY <1>5, <1>9, <1>11, <1>12, <1>13, <1>14

-----------------------------------------------------------------------------
(***************************************************************************)
(* ImplicitProducer, the elements: what the steps of a producer share       *)
(***************************************************************************)

\* Only producer p moves.
OnlyProd(p) ==
  prod' = [q \in Producer |-> prod'[q]] /\ \A q \in Producer : q # p => prod'[q] = prod[q]

\* Where a producer goes.
LEMMA GoesTo ==
  ASSUME IInv, NEW p \in Producer, NEW r, pgoto(p, r)
  PROVE  prod'[p] = r /\ OnlyProd(p)
<1>1. prod = [q \in Producer |-> prod[q]]
  BY DEF IInv, ElementInv, ElementTypes
<1> QED
  BY <1>1 DEF pgoto, OnlyProd

\* A step of producer p.
Moves(p) ==
  /\ OnlyProd(p) /\ UNCHANGED <<headIndex, cons, taken>>
  /\ \A q \in Producer : q # p => SameIndex(q) /\ SameProducer(q)

\* It does not change what is to be done.
LEMMA MovesTodo ==
  ASSUME NEW p \in Producer, Moves(p), NEW q \in Producer
  PROVE  /\ NoMore(q) /\ SameTodo(q)
         /\ \A x, i : Works(x, q, i)' <=> Works(x, q, i)
         /\ \A x, b : Returned(x, b)' <=> Returned(x, b)
<1>1. \A x, i : (Works(x, q, i)' <=> Works(x, q, i)) /\ (Unread(x, q, i)' <=> Unread(x, q, i))
  BY DEF Moves, Works, Unread
<1>2. \A x, b : Returned(x, b)' <=> Returned(x, b)
  BY DEF Moves, Returned
<1> QED
  BY <1>1, <1>2 DEF Moves, NoMore, SameTodo, Todo, Pending

\* What remains to be shown of a step of producer p.
LEMMA ProduceStep ==
  ASSUME IInv, CountInv', NEW p \in Producer, Moves(p), ElementTypes',
         Ring(p)', Window(p)', Phase(p)', Installed(p)', IndexStep(p),
         \A f \in 1 .. Len(entries[p]) : Value(p, f) \in Block => Value(p, f)' = Value(p, f),
         \A q \in Producer : Entries(q)', Blocks'
  PROVE  IInv'
<1> USE DEF IInv, ElementInv
<1>1. ASSUME NEW q \in Producer PROVE Ring(q)' /\ Window(q)' /\ Phase(q)' /\ Installed(q)'
  <2>1. CASE q = p
    BY <2>1
  <2>2. CASE q # p
    <3>1. SameIndex(q) /\ SameProducer(q) /\ NoMore(q)
      BY <2>2, MovesTodo DEF Moves
    <3> QED
      BY <3>1, ProducerSame, InstalledSame
  <2> QED
    BY <2>1, <2>2
<1>2. ASSUME NEW d \in Consumer, cons'[d].at # "idle" PROVE Reading(d, cons[d].p)'
  <2>1. cons' = cons /\ cons[d].at # "idle" /\ headIndex' = headIndex
    BY <1>2 DEF Moves
  <2>2. PICK q \in Producer : q = cons[d].p
    BY <2>1 DEF CountInv, CountTypes, Asking
  <2>3. Reading(d, q)
    BY <2>1, <2>2
  <2>4. PICK i, e : i = cons[d].index /\ e = cons[d].entry
    OBVIOUS
  <2>5. cons[d].at \in {"header", "htail", "hkey", "entry", "move", "empty"} =>
          \A x \in Consumer : Works(x, q, i)' => x = d
    BY <2>3, <2>4, MovesTodo DEF Reading
  <2>9. cons'[d] = cons[d] /\ \A x \in Consumer : cons'[x] = cons[x]
    BY <2>1
  <2>6. ASSUME cons[d].at = "clear"
        PROVE  /\ Finished(q, Base(i))' = Finished(q, Base(i))
               /\ \A x \in Consumer : cons'[x].at = "clear" /\ cons'[x].block = cons[d].block => x = d
    <3>1. i \in Nat
      BY <2>3, <2>4, <2>6 DEF Reading
    <3>4. i \in Int
      BY <3>1
    <3>5. Base(i) \in Int
      BY <3>4, BaseFacts
    <3>2. PICK l \in Int : l = Base(i)
      BY <3>5
    <3>3. Finished(q, l)' = Finished(q, l)
      BY MovesTodo, FinishedSame
    <3> QED
      BY <2>3, <2>6, <2>9, <3>2, <3>3 DEF Reading
  <2>7. CASE q = p
    <3>1. ASSUME cons[d].at \in {"move", "empty", "clear"} PROVE Value(q, e)' = Value(q, e)
      <4>1. e \in 1 .. Len(entries[q]) /\ Value(q, e) \in Block
        BY <2>2, <2>4, <3>1, HasBlock
      <4> QED
        BY <2>7, <4>1
    <3> QED
      BY <2>1, <2>2, <2>4, <2>5, <2>6, <2>7, <2>9, <3>1, ReadingKept
  <2>8. CASE q # p
    <3>1. SameIndex(q) /\ headIndex'[q] \in Nat /\ headIndex[q] <= headIndex'[q]
      BY <2>1, <2>8, TopFacts DEF Moves
    <3>2. Reading(d, q)'
      BY <2>1, <2>3, <2>4, <2>5, <2>6, <3>1, ReadingSame
    <3> QED
      BY <2>2, <2>9, <3>2
  <2> QED
    BY <2>7, <2>8
<1>3. DequeuedExact'
  BY DEF DequeuedExact, Moves
<1> QED
  BY <1>1, <1>2, <1>3 DEF Moves

\* The blocks are where they were.
SameBlocks(p) ==
  /\ \A f \in 1 .. Len(entries[p]) : Value(p, f) \in Block => Value(p, f)' = Value(p, f)
  /\ \A f \in 1 .. Len(entries'[p]) : Value(p, f)' \in Block =>
       /\ f \in 1 .. Len(entries[p])
       /\ Value(p, f)' = Value(p, f) /\ Key(p, f)' = Key(p, f)

\* And for the other producers.
LEMMA SameBlocksAll ==
  ASSUME NEW p \in Producer, Moves(p), SameBlocks(p), NEW q \in Producer,
         NEW f \in 1 .. Len(entries'[q]), Value(q, f)' \in Block
  PROVE  f \in 1 .. Len(entries[q]) /\ Value(q, f)' = Value(q, f) /\ Key(q, f)' = Key(q, f)
<1>1. CASE q = p
  BY <1>1 DEF SameBlocks
<1>2. CASE q # p
  BY <1>2 DEF Moves, SameIndex, Value, Key
<1> QED
  BY <1>1, <1>2

\* Nobody gets the block of an entry.
LEMMA AloneKept ==
  ASSUME IInv, NEW p \in Producer, Moves(p), SameBlocks(p), NEW q \in Producer,
         NEW f \in 1 .. Len(entries'[q]), Value(q, f)' \in Block,
         Value(q, f) <= made', Value(q, f) \notin freeBlocks', ~Reserved(Value(q, f))'
  PROVE  Alone(q, f)'
<1>1. f \in 1 .. Len(entries[q]) /\ Value(q, f)' = Value(q, f)
  BY SameBlocksAll
<1>2. Alone(q, f)
  BY <1>1 DEF IInv, ElementInv, Entries
<1>3. PICK v \in Block : v = Value(q, f) /\ v = Value(q, f)'
  BY <1>1
<1>4. v <= made' /\ v \notin freeBlocks' /\ ~Reserved(v)'
  <2>1. ~Reserved(v)'
    BY <1>1, <1>3
  <2> QED
    BY <1>1, <1>3, <2>1
<1>5. \A x \in Consumer : ~Returned(x, v)'
  BY <1>2, <1>3, MovesTodo DEF Alone
<1>6. ASSUME NEW r \in Producer, NEW g \in 1 .. Len(entries'[r]), Value(r, g)' = v
      PROVE  r = q /\ g = f
  BY <1>2, <1>3, <1>6, SameBlocksAll DEF Alone
<1> QED
  BY <1>3, <1>4, <1>5, <1>6 DEF Alone

\* An entry that nobody has disturbed.
LEMMA EntryKept ==
  ASSUME IInv, NEW p \in Producer, Moves(p), SameBlocks(p), NEW q \in Producer,
         NEW f \in 1 .. Len(entries'[q]), Value(q, f)' \in Block,
         tailIndex'[q] = tailIndex[q], prod'[q].at = "publish" => prod[q].at = "publish",
         elementsCompletelyDequeued'[Value(q, f)] = elementsCompletelyDequeued[Value(q, f)],
         elements'[Value(q, f)] = elements[Value(q, f)],
         Value(q, f) <= made', Value(q, f) \notin freeBlocks', ~Reserved(Value(q, f))'
  PROVE  Holds(q, f)' /\ Alone(q, f)'
<1>1. f \in 1 .. Len(entries[q]) /\ Value(q, f)' = Value(q, f) /\ Key(q, f)' = Key(q, f)
  BY SameBlocksAll
<1>2. Holds(q, f)
  BY <1>1 DEF IInv, ElementInv, Entries
<1>3. Holds(q, f)'
  BY <1>1, <1>2, MovesTodo, HoldsSame
<1>4. Alone(q, f)'
  BY AloneKept
<1> QED
  BY <1>3, <1>4

\* A step that changes nothing but the index.
LEMMA IndexOnly ==
  ASSUME IInv, CountInv', NEW p \in Producer, Moves(p), SameBlocks(p), IndexStep(p),
         UNCHANGED <<tailIndex, tailBlock, elements, elementsCompletelyDequeued, made, freeBlocks>>,
         prod[p].at # "value", prod'[p].at \notin {"value", "publish"},
         headers' \in [Producer -> Seq(HeaderType)], entries' \in [Producer -> Seq(EntryType)],
         Newest(p)' = Newest(p), Ring(p)', Window(p)', Phase(p)'
  PROVE  IInv'
<1> USE DEF IInv, ElementInv
<1>1. ElementTypes'
  BY DEF ElementTypes, Moves, OnlyProd
<1>2. Installed(p)'
  <2>1. ASSUME NEW i \in Nat, Base(i) <= Newest(p), Todo(p, i)'
        PROVE  \E f \in 1 .. Len(entries'[p]) : Key(p, f)' = Base(i) /\ Value(p, f)' \in Block
    <3>1. Todo(p, i)
      BY <2>1, MovesTodo DEF SameTodo
    <3>2. PICK f \in 1 .. Len(entries[p]) : Key(p, f) = Base(i) /\ Value(p, f) \in Block
      BY <2>1, <3>1 DEF Installed
    <3>3. f \in 1 .. Len(entries'[p])
      BY TableFacts DEF IndexStep
    <3> QED
      BY <3>2, <3>3 DEF IndexStep, SameBlocks
  <2> QED
    BY <2>1 DEF Installed
<1>3. \A b : Reserved(b)' <=> Reserved(b)
  BY DEF Reserved, Moves, OnlyProd
<1>4. ASSUME NEW q \in Producer PROVE Entries(q)'
  <2>1. ASSUME NEW f \in 1 .. Len(entries'[q]), Value(q, f)' \in Block PROVE Holds(q, f)' /\ Alone(q, f)'
    <3>1. f \in 1 .. Len(entries[q]) /\ Value(q, f) \in Block
      BY <2>1, SameBlocksAll
    <3>2. Alone(q, f)
      BY <3>1 DEF Entries
    <3>3. PICK v : v = Value(q, f)
      OBVIOUS
    <3>4. v <= made' /\ v \notin freeBlocks' /\ ~Reserved(v)'
      BY <1>3, <3>2, <3>3 DEF Alone
    <3>5. v = Value(q, f)'
      BY <2>1, <3>3, SameBlocksAll
    <3>6. prod'[q].at = "publish" => prod[q].at = "publish"
      BY DEF Moves, OnlyProd
    <3> QED
      BY <2>1, <3>3, <3>4, <3>5, <3>6, EntryKept
  <2> QED
    BY <2>1 DEF Entries
<1>5. Blocks'
  <2>1. ASSUME NEW q \in Producer, prod'[q].at = "value" PROVE prod'[q] = prod[q]
    BY <2>1 DEF Moves, OnlyProd
  <2>2. \A x, b : Returned(x, b)' <=> Returned(x, b)
    BY MovesTodo
  <2>3. Blocks
    OBVIOUS
  <2>4. cons' = cons
    BY DEF Moves
  <2> QED
    BY <2>1, <2>2, <2>3, <2>4 DEF Blocks
<1> QED
  BY <1>1, <1>2, <1>4, <1>5, ProduceStep DEF SameBlocks

-----------------------------------------------------------------------------
(***************************************************************************)
(* ImplicitProducer, the elements: the steps of a producer                 *)
(***************************************************************************)

\* A step that changes nothing but where the producer is.
LEMMA PlainStep ==
  ASSUME IInv, CountInv', NEW p \in Producer, OnlyProd(p),
         UNCHANGED <<tailIndex, headIndex, tailBlock, headers, entries, elements,
                     elementsCompletelyDequeued, made, freeBlocks, cons, taken>>,
         prod[p].at \notin {"tail", "value"},
         prod'[p].at \notin {"tail", "requisition", "value", "publish"},
         Top(p)' = Top(p), Newest(p)' = Newest(p), Phase(p)'
  PROVE  IInv'
<1> USE DEF IInv, ElementInv
<1>1. ASSUME NEW q \in Producer PROVE SameIndex(q)
  BY DEF SameIndex
<1>2. Moves(p)
  BY <1>1 DEF Moves, OnlyProd, SameProducer
<1>3. /\ \A e : Key(p, e)' = Key(p, e) /\ Value(p, e)' = Value(p, e)
      /\ N(p)' = N(p) /\ \A j : Slot(p, j)' = Slot(p, j)
  BY <1>1, IndexSame
<1>4. SameBlocks(p)
  BY <1>3 DEF SameBlocks
<1>5. IndexStep(p)
  BY <1>3, KeysKept
<1>6. Ring(p)'
  BY RingSame
<1>7. \A e : (Unused(p, e)' <=> Unused(p, e)) /\ (Early(p, e)' <=> Early(p, e))
  BY <1>3 DEF Unused, Early
<1>8. Window(p)'
  BY <1>3, <1>7 DEF Window
<1>9. headers' \in [Producer -> Seq(HeaderType)] /\ entries' \in [Producer -> Seq(EntryType)]
  BY DEF ElementTypes
<1> QED
  BY <1>2, <1>4, <1>5, <1>6, <1>8, <1>9, IndexOnly

\* enqueue begins.
LEMMA EnqueueStep ==
  ASSUME IInv, CountInv', NEW p \in Producer, enqueue(p)
  PROVE  IInv'
<1>1. /\ UNCHANGED <<tailIndex, headIndex, tailBlock, headers, entries, elements,
                     elementsCompletelyDequeued, made, freeBlocks, cons, taken>>
      /\ prod[p].at = "idle"
  BY DEF enqueue, countVars, indexVars, blockVars
<1>2. PICK r : pgoto(p, r) /\ r = [at |-> IF tailIndex[p] % BLOCK_SIZE = 0 THEN "insert" ELSE "construct"]
  BY DEF enqueue
<1>3. OnlyProd(p) /\ prod'[p] = r
  BY <1>2, GoesTo
<1>4. /\ tailIndex[p] % BLOCK_SIZE = 0 => prod'[p].at = "insert"
      /\ tailIndex[p] % BLOCK_SIZE # 0 => prod'[p].at = "construct"
  BY <1>2, <1>3
<1>5. Top(p)' = Top(p) /\ Newest(p)' = Newest(p)
  BY <1>1, <1>4, TopFacts DEF Top, Newest
<1>6. N(p)' = N(p) /\ \A j : Slot(p, j)' = Slot(p, j)
  BY <1>1, RingSame
<1>7. Value(p, Slot(p, 0))' = Value(p, Slot(p, 0))
  BY <1>1, <1>6 DEF Value
<1>8. Phase(p)
  BY DEF IInv, ElementInv
<1>9. Phase(p)'
  BY <1>1, <1>4, <1>7, <1>8 DEF Phase
<1> QED
  BY <1>1, <1>3, <1>4, <1>5, <1>9, PlainStep

\* A position that goes past the end of a ring.
LEMMA Wraps ==
  ASSUME NEW n \in Nat, n > 0, NEW a \in Nat, a < n + n
  PROVE  (a < n => a % n = a) /\ (a >= n => a % n = a - n)
  OBVIOUS

\* Counting forth is counting back.
LEMMA ForthBack ==
  ASSUME NEW n \in Nat, n > 0, NEW t \in 0 .. n - 1, NEW j \in 0 .. n - 1, NEW i \in 1 .. n, i = n - j
  PROVE  (t + i) % n = Back(t, j, n)
<1>1. PICK a \in Nat : a = t + i /\ a < n + n
  OBVIOUS
<1>2. CASE j <= t
  <2>1. a >= n /\ a - n = t - j
    BY <1>1, <1>2
  <2>2. a % n = a - n
    BY <1>1, <2>1, Wraps
  <2>3. Back(t, j, n) = t - j
    BY <1>2, BackIs
  <2> QED
    BY <1>1, <2>1, <2>2, <2>3
<1>3. CASE j > t
  <2>1. a < n /\ a = t - j + n
    BY <1>1, <1>3
  <2>2. a % n = a
    BY <1>1, <2>1, Wraps
  <2>3. Back(t, j, n) = t - j + n
    BY <1>3, BackIs
  <2> QED
    BY <1>1, <2>1, <2>2, <2>3
<1> QED
  BY <1>2, <1>3

\* Two sequences, one after the other.
LEMMA Joined ==
  ASSUME NEW S, NEW s \in Seq(S), NEW u \in Seq(S), NEW v, v = s \o u
  PROVE  /\ v \in Seq(S) /\ Len(v) = Len(s) + Len(u) /\ Len(s) \in Nat /\ Len(u) \in Nat
         /\ \A i \in 1 .. Len(s) : v[i] = s[i]
         /\ \A i \in 1 .. Len(u) : v[Len(s) + i] = u[i]
<1>1. Len(s) \in Nat /\ Len(u) \in Nat
  OBVIOUS
<1>2. /\ v \in Seq(S) /\ Len(v) = Len(s) + Len(u)
      /\ \A i \in 1 .. Len(s) + Len(u) : v[i] = IF i <= Len(s) THEN s[i] ELSE u[i - Len(s)]
  BY ConcatProperties
<1>3. ASSUME NEW i \in 1 .. Len(u) PROVE v[Len(s) + i] = u[i]
  <2>1. PICK x \in 1 .. Len(s) + Len(u) : x = Len(s) + i /\ ~(x <= Len(s)) /\ x - Len(s) = i
    BY <1>1
  <2> QED
    BY <1>2, <2>1
<1> QED
  BY <1>1, <1>2, <1>3

\* In the same way for numbers.
LEMMA JoinedNumbers ==
  ASSUME NEW s \in Seq(Nat), NEW u \in Seq(Nat), NEW v, v = s \o u
  PROVE  /\ v \in Seq(Nat) /\ Len(v) = Len(s) + Len(u) /\ Len(s) \in Nat /\ Len(u) \in Nat
         /\ \A i \in 1 .. Len(s) : v[i] = s[i]
         /\ \A i \in 1 .. Len(u) : v[Len(s) + i] = u[i]
<1>1. Len(s) \in Nat /\ Len(u) \in Nat
  OBVIOUS
<1>2. /\ v \in Seq(Nat) /\ Len(v) = Len(s) + Len(u)
      /\ \A i \in 1 .. Len(s) + Len(u) : v[i] = IF i <= Len(s) THEN s[i] ELSE u[i - Len(s)]
  BY ConcatProperties
<1>3. ASSUME NEW i \in 1 .. Len(u) PROVE v[Len(s) + i] = u[i]
  <2>1. PICK x \in 1 .. Len(s) + Len(u) : x = Len(s) + i /\ ~(x <= Len(s)) /\ x - Len(s) = i
    BY <1>1
  <2> QED
    BY <1>2, <2>1
<1> QED
  BY <1>1, <1>2, <1>3

\* First the old entries, the oldest first, then the ones after l.
Doubles(n, t, idx, l, ix) ==
  /\ \A i \in 1 .. n : ix[i] = idx[((t + i) % n) + 1]
  /\ \A i \in 1 .. n : ix[n + i] = l + i

\* Counting back in a table of twice the size, which begins with the old entries.
LEMMA NewIndexTable ==
  ASSUME NEW n \in Nat, n > 1, NEW t \in Nat, t < n, NEW idx \in Seq(Nat), NEW l \in Nat,
         NEW ix \in Seq(Nat), NEW m \in Nat, m = n + n,
         Doubles(n, t, idx, l, ix)
  PROVE  /\ \A j \in 0 .. n - 1 : ix[Back(n - 1, j, m) + 1] = idx[Back(t, j, n) + 1]
         /\ \A j \in n .. m - 1 : ix[Back(n - 1, j, m) + 1] = l + (m - j)
<1>0. PICK u \in 0 .. m - 1 : u = n - 1
  OBVIOUS
<1>1. ASSUME NEW j \in 0 .. n - 1 PROVE ix[Back(n - 1, j, m) + 1] = idx[Back(t, j, n) + 1]
  <2>2. Back(u, j, m) = u - j
    <3>1. j \in 0 .. m - 1 /\ j <= u /\ m > 0
      BY <1>0
    <3> QED
      BY <3>1, BackIs
  <2>3. PICK i \in 1 .. n : i = n - j
    OBVIOUS
  <2>6. (t + i) % n = Back(t, j, n)
    BY <2>3, ForthBack
  <2>7. ix[i] = idx[Back(t, j, n) + 1]
    BY <2>6 DEF Doubles
  <2>8. Back(n - 1, j, m) + 1 = i
    BY <1>0, <2>2, <2>3
  <2> QED
    BY <2>7, <2>8
<1>2. ASSUME NEW j \in n .. m - 1 PROVE ix[Back(n - 1, j, m) + 1] = l + (m - j)
  <2>2. Back(u, j, m) = u - j + m
    <3>1. j \in 0 .. m - 1 /\ j > u /\ m > 0
      BY <1>0
    <3> QED
      BY <3>1, BackIs
  <2>3. PICK i \in 1 .. n : i = m - j
    <3>1. m - j \in 1 .. n
      OBVIOUS
    <3> QED
      BY <3>1
  <2>4. Back(n - 1, j, m) + 1 = n + i
    BY <1>0, <2>2, <2>3
  <2> QED
    BY <2>3, <2>4 DEF Doubles
<1> QED
  BY <1>1, <1>2

\* A larger table is made.
Grows(p) ==
  LET n == new_block_index(headers[p], entries[p])
  IN  headers' = [headers EXCEPT ![p] = n.hs] /\ entries' = [entries EXCEPT ![p] = n.es]

\* Producer p has one table more.
Adds(p, h) == headers' = [headers EXCEPT ![p] = Append(headers[p], h)]

\* What it is, in terms of the old one.
LEMMA GrowsTo ==
  ASSUME IInv, NEW p \in Producer, Grows(p)
  PROVE  \E ix \in Seq(Nat) :
           /\ Len(ix) = N(p) + N(p)
           /\ Doubles(N(p), Tab(p).tail, Tab(p).index, Len(entries[p]), ix)
           /\ Adds(p, [tail |-> N(p) - 1, index |-> ix])
<1>0. PICK n \in Nat, l \in Nat : n = N(p) /\ l = Len(entries[p])
  BY TableFacts
<1>1. PICK h : h = Tab(p) /\ h = Last(headers[p]) /\ h \in HeaderType
  BY TableFacts
<1>2. PICK t \in 0 .. n - 1 : t = h.tail /\ n > 1
  BY <1>0, <1>1, TableFacts
<1>3. PICK idx \in Seq(Nat) : idx = h.index /\ Len(idx) = n
  BY <1>0, <1>1 DEF N, HeaderType
<1>4. ASSUME NEW i \in 1 .. n PROVE idx[((t + i) % n) + 1] \in Nat
  <2>1. PICK a \in Int : a = t + i
    OBVIOUS
  <2>2. PICK r \in 0 .. n - 1 : r = a % n
    BY <1>2, ModIn
  <2>3. PICK y \in 1 .. n : y = (a % n) + 1
    <3>1. r + 1 \in 1 .. n
      OBVIOUS
    <3> QED
      BY <2>2, <3>1
  <2> QED
    <3>1. idx[y] \in Nat
      BY <1>3
    <3> QED
      BY <2>1, <2>3, <3>1
<1>5. PICK old \in Seq(Nat) : old = [i \in 1 .. n |-> idx[((t + i) % n) + 1]] /\ Len(old) = n
  <2>1. PICK f : f = [i \in 1 .. n |-> idx[((t + i) % n) + 1]]
    OBVIOUS
  <2>2. f \in Seq(Nat) /\ Len(f) = n
    BY <1>4, <2>1
  <2> QED
    BY <2>1, <2>2
<1>6. PICK more \in Seq(Nat) : more = [i \in 1 .. n |-> l + i] /\ Len(more) = n
  <2>1. PICK f : f = [i \in 1 .. n |-> l + i]
    OBVIOUS
  <2>2. f \in Seq(Nat) /\ Len(f) = n
    BY <2>1
  <2> QED
    BY <2>1, <2>2
<1>8. PICK ix : ix = old \o more
  OBVIOUS
<1>9. ix \in Seq(Nat) /\ Len(ix) = n + n /\ \A i \in 1 .. n : ix[i] = old[i] /\ ix[n + i] = more[i]
  <2>1. /\ ix \in Seq(Nat) /\ Len(ix) = Len(old) + Len(more)
        /\ \A i \in 1 .. Len(old) : ix[i] = old[i]
        /\ \A i \in 1 .. Len(more) : ix[Len(old) + i] = more[i]
    BY <1>8, JoinedNumbers
  <2> QED
    BY <1>5, <1>6, <2>1
<1>10. headers[p] # <<>>
  BY TableFacts
<1>11. new_block_index(headers[p], entries[p]).hs = Append(headers[p], [tail |-> n - 1, index |-> ix])
  BY <1>0, <1>1, <1>2, <1>3, <1>5, <1>6, <1>8, <1>10 DEF new_block_index
<1>12. Adds(p, [tail |-> n - 1, index |-> ix])
  BY <1>11 DEF Grows, Adds
<1>13. Doubles(n, t, idx, l, ix)
  BY <1>5, <1>6, <1>9 DEF Doubles
<1> QED
  BY <1>0, <1>1, <1>2, <1>3, <1>9, <1>12, <1>13

\* The entries: the old ones and as many that are not used.
LEMMA GrowsBy ==
  ASSUME IInv, NEW p \in Producer, Grows(p)
  PROVE  /\ entries' \in [Producer -> Seq(EntryType)]
         /\ \A q \in Producer : q # p => entries'[q] = entries[q]
         /\ Len(entries'[p]) = Len(entries[p]) + N(p)
         /\ \A e \in 1 .. Len(entries[p]) : Key(p, e)' = Key(p, e) /\ Value(p, e)' = Value(p, e)
         /\ \A e \in Len(entries[p]) + 1 .. Len(entries[p]) + N(p) : Unused(p, e)'
<1>0. PICK n \in Nat, l \in Nat : n = N(p) /\ l = Len(entries[p])
  BY TableFacts
<1>2. Entry(INVALID_BLOCK_BASE, JUNK) \in EntryType
  BY DEF Entry, EntryType, INVALID_BLOCK_BASE, JUNK
<1>3. PICK fresh \in Seq(EntryType) :
        Len(fresh) = n /\ fresh = [i \in 1 .. n |-> Entry(INVALID_BLOCK_BASE, JUNK)]
  <2>1. PICK f : f = [i \in 1 .. n |-> Entry(INVALID_BLOCK_BASE, JUNK)]
    OBVIOUS
  <2>2. f \in Seq(EntryType) /\ Len(f) = n
    BY <1>2, <2>1
  <2> QED
    BY <2>1, <2>2
<1>4. PICK s \in Seq(EntryType) : s = entries[p] /\ Len(s) = l
  BY <1>0, TableFacts
<1>5. PICK v : v = s \o fresh
  OBVIOUS
<1>6. /\ v \in Seq(EntryType) /\ Len(v) = l + n
      /\ \A e \in 1 .. l : v[e] = s[e]
      /\ \A i \in 1 .. n : v[l + i] = fresh[i]
  <2>1. /\ v \in Seq(EntryType) /\ Len(v) = Len(s) + Len(fresh)
        /\ \A i \in 1 .. Len(s) : v[i] = s[i]
        /\ \A i \in 1 .. Len(fresh) : v[Len(s) + i] = fresh[i]
    BY <1>5, Joined
  <2> QED
    BY <1>3, <1>4, <2>1
<1>7. headers[p] # <<>>
  BY TableFacts
<1>8. new_block_index(headers[p], entries[p]).es = v
  <2>1. n = Len(Last(headers[p]).index)
    BY <1>0, TableFacts DEF N
  <2> QED
    BY <1>3, <1>4, <1>5, <1>7, <2>1 DEF new_block_index
<1>9. entries' = [entries EXCEPT ![p] = v]
  BY <1>8 DEF Grows
<1>10. entries \in [Producer -> Seq(EntryType)]
  BY DEF IInv, ElementInv, ElementTypes
<1>11. entries' \in [Producer -> Seq(EntryType)] /\ entries'[p] = v
  BY <1>6, <1>9, <1>10
<1>12. ASSUME NEW e \in l + 1 .. l + n PROVE Unused(p, e)'
  <2>1. PICK i \in 1 .. n : l + i = e
    <3>1. e - l \in 1 .. n
      OBVIOUS
    <3> QED
      BY <3>1
  <2>2. v[e] = Entry(INVALID_BLOCK_BASE, JUNK)
    BY <1>3, <1>6, <2>1
  <2> QED
    BY <1>11, <2>2 DEF Unused, Key, Value, Entry
<1> QED
  BY <1>0, <1>4, <1>6, <1>9, <1>10, <1>11, <1>12 DEF Key, Value

\* The tables after that.
LEMMA GrownTable ==
  ASSUME IInv, NEW p \in Producer, Grows(p)
  PROVE  /\ headers' \in [Producer -> Seq(HeaderType)]
         /\ \A q \in Producer : q # p => headers'[q] = headers[q]
         /\ Len(headers'[p]) = Len(headers[p]) + 1
         /\ \A h \in 1 .. Len(headers[p]) : headers'[p][h] = headers[p][h]
         /\ N(p)' = N(p) + N(p) /\ Tab(p)'.tail = N(p) - 1
         /\ \A j \in 0 .. N(p) - 1 : Slot(p, j)' = Slot(p, j)
         /\ \A j \in N(p) .. N(p) + N(p) - 1 : Slot(p, j)' = Len(entries[p]) + (N(p) + N(p) - j)
<1>0. PICK n \in Nat, l \in Nat : n = N(p) /\ l = Len(entries[p])
  BY TableFacts
<1>1. PICK ix \in Seq(Nat) :
           /\ Len(ix) = n + n
           /\ Doubles(n, Tab(p).tail, Tab(p).index, l, ix)
           /\ Adds(p, [tail |-> n - 1, index |-> ix])
  BY <1>0, GrowsTo
<1>2. n > 1
  BY <1>0, TableFacts
<1>3. PICK H : H = [tail |-> n - 1, index |-> ix]
  OBVIOUS
<1>4. H \in HeaderType /\ H.tail = n - 1 /\ H.index = ix
  BY <1>2, <1>3 DEF HeaderType
<1>5. headers \in [Producer -> Seq(HeaderType)] /\ headers[p] \in Seq(HeaderType)
  BY DEF IInv, ElementInv, ElementTypes
<1>6. PICK s : s = Append(headers[p], H)
  OBVIOUS
<1>7. /\ s \in Seq(HeaderType) /\ Len(s) = Len(headers[p]) + 1 /\ s[Len(s)] = H
      /\ \A h \in 1 .. Len(headers[p]) : s[h] = headers[p][h]
  BY <1>4, <1>5, <1>6, AppendProperties
<1>8. headers' = [headers EXCEPT ![p] = s]
  BY <1>1, <1>3, <1>6 DEF Adds
<1>9. headers' \in [Producer -> Seq(HeaderType)] /\ headers'[p] = s
  BY <1>5, <1>7, <1>8
<1>10. Tab(p)' = H
  BY <1>7, <1>9 DEF Tab
<1>11. N(p)' = n + n /\ Tab(p)'.tail = n - 1 /\ Tab(p)'.index = ix
  BY <1>1, <1>4, <1>10 DEF N
<1>12. PICK t \in Nat, idx \in Seq(Nat) : t < n /\ t = Tab(p).tail /\ idx = Tab(p).index
  BY <1>0, TableFacts DEF HeaderType
<1>13. PICK m \in Nat : m = n + n
  OBVIOUS
<1>14. /\ \A j \in 0 .. n - 1 : ix[Back(n - 1, j, m) + 1] = idx[Back(t, j, n) + 1]
       /\ \A j \in n .. m - 1 : ix[Back(n - 1, j, m) + 1] = l + (m - j)
  <2>1. Doubles(n, t, idx, l, ix)
    BY <1>1, <1>12
  <2> QED
    BY <1>2, <1>12, <1>13, <2>1, NewIndexTable
<1>15. \A j : Slot(p, j) = idx[Back(t, j, n) + 1]
  BY <1>0, <1>12 DEF Slot
<1>16. \A j : Slot(p, j)' = ix[Back(n - 1, j, m) + 1]
  BY <1>11, <1>13 DEF Slot
<1>17. \A q \in Producer : q # p => headers'[q] = headers[q]
  BY <1>5, <1>8
<1>18. /\ \A j \in 0 .. n - 1 : Slot(p, j)' = Slot(p, j)
       /\ \A j \in n .. n + n - 1 : Slot(p, j)' = l + (n + n - j)
  <2>1. ASSUME NEW j \in 0 .. n - 1 PROVE Slot(p, j)' = Slot(p, j)
    BY <1>14, <1>15, <1>16
  <2>2. ASSUME NEW j \in n .. n + n - 1 PROVE Slot(p, j)' = l + (n + n - j)
    <3>1. j \in n .. m - 1 /\ m - j = n + n - j
      BY <1>13
    <3> QED
      BY <1>14, <1>16, <3>1
  <2> QED
    BY <2>1, <2>2
<1> QED
  BY <1>0, <1>7, <1>9, <1>11, <1>17, <1>18

\* The larger table leads to each entry, by one position.
LEMMA GrownRing ==
  ASSUME IInv, NEW p \in Producer, Grows(p)
  PROVE  Ring(p)'
<1>0. PICK n \in Nat, l \in Nat : n = N(p) /\ n > 1 /\ l = Len(entries[p])
  BY TableFacts
<1>1. /\ Len(headers'[p]) = Len(headers[p]) + 1 /\ Len(headers[p]) \in Nat
      /\ \A h \in 1 .. Len(headers[p]) : headers'[p][h] = headers[p][h]
      /\ N(p)' = n + n /\ Tab(p)'.tail = n - 1 /\ Len(entries'[p]) = l + n
  BY <1>0, GrownTable, GrowsBy, TableFacts
<1>2. /\ \A j \in 0 .. n - 1 : Slot(p, j)' = Slot(p, j)
      /\ \A j \in n .. n + n - 1 : Slot(p, j)' = l + (n + n - j)
  BY <1>0, GrownTable
<1>3. ASSUME NEW j \in 0 .. n - 1 PROVE Slot(p, j)' \in 1 .. l
  BY <1>0, <1>2, SlotFacts
<1>4. ASSUME NEW j \in n .. n + n - 1 PROVE Slot(p, j)' \in l + 1 .. l + n
  <2>1. l + (n + n - j) \in l + 1 .. l + n
    OBVIOUS
  <2> QED
    BY <1>2, <2>1
<1>5. ASSUME NEW j \in 0 .. n + n - 1 PROVE Slot(p, j)' \in 1 .. l + n
  <2>1. CASE j \in 0 .. n - 1
    BY <1>3, <2>1
  <2>2. CASE j \in n .. n + n - 1
    BY <1>4, <2>2
  <2> QED
    BY <2>1, <2>2
<1>6. ASSUME NEW h \in 1 .. Len(headers'[p]) PROVE Table(p, h)'
  <2>1. CASE h \in 1 .. Len(headers[p])
    <3>1. Table(p, h)
      BY <2>1 DEF IInv, ElementInv, Ring
    <3>2. headers'[p][h] = headers[p][h]
      BY <1>1, <2>1
    <3>3. 1 .. l \subseteq 1 .. Len(entries'[p])
      BY <1>1
    <3> QED
      BY <1>0, <3>1, <3>2, <3>3 DEF Table
  <2>2. CASE h = Len(headers'[p])
    <3>1. headers'[p][h] = Tab(p)'
      BY <2>2 DEF Tab
    <3>2. Len(Tab(p)'.index) = n + n
      BY <1>1 DEF N
    <3>3. ASSUME NEW x \in 1 .. n + n PROVE Tab(p)'.index[x] \in 1 .. l + n
      <4>1. PICK m \in Nat, u \in Nat : m = n + n /\ u = n - 1 /\ u < m /\ m > 0
        BY <1>0
      <4>2. PICK y \in 0 .. m - 1 : y = x - 1
        BY <4>1
      <4>3. u \in 0 .. m - 1
        BY <4>1
      <4>4. PICK j \in 0 .. m - 1 : y = Back(u, j, m)
        BY <4>1, <4>3, BackAll
      <4>5. Slot(p, j)' = Tab(p)'.index[y + 1]
        BY <1>1, <4>1, <4>4 DEF Slot
      <4>6. y + 1 = x /\ j \in 0 .. n + n - 1
        BY <4>1, <4>2
      <4> QED
        BY <1>5, <4>5, <4>6
    <3> QED
      BY <1>0, <1>1, <3>1, <3>2, <3>3 DEF Table
  <2> QED
    BY <1>1, <2>1, <2>2
<1>7. ASSUME NEW e \in 1 .. l + n PROVE \E j \in 0 .. n + n - 1 : e = Slot(p, j)'
  <2>1. CASE e \in 1 .. l
    <3>1. PICK j \in 0 .. n - 1 : e = Slot(p, j)
      BY <1>0, <2>1 DEF IInv, ElementInv, Ring
    <3>2. j \in 0 .. n + n - 1
      OBVIOUS
    <3> QED
      BY <1>2, <3>1, <3>2
  <2>2. CASE e \in l + 1 .. l + n
    <3>1. PICK j \in n .. n + n - 1 : l + (n + n - j) = e
      <4>1. n + n - (e - l) \in n .. n + n - 1 /\ l + (n + n - (n + n - (e - l))) = e
        BY <2>2
      <4> QED
        BY <4>1
    <3>2. j \in 0 .. n + n - 1
      OBVIOUS
    <3> QED
      BY <1>2, <3>1, <3>2
  <2> QED
    BY <2>1, <2>2
<1>8. ASSUME NEW i \in 0 .. n + n - 1, NEW j \in 0 .. n + n - 1, Slot(p, i)' = Slot(p, j)' PROVE i = j
  <2>1. CASE i \in 0 .. n - 1 /\ j \in 0 .. n - 1
    BY <1>0, <1>2, <1>8, <2>1 DEF IInv, ElementInv, Ring
  <2>2. CASE i \in n .. n + n - 1 /\ j \in n .. n + n - 1
    BY <1>2, <1>8, <2>2
  <2>3. CASE i \in 0 .. n - 1 /\ j \in n .. n + n - 1
    BY <1>3, <1>4, <1>8, <2>3
  <2>4. CASE i \in n .. n + n - 1 /\ j \in 0 .. n - 1
    BY <1>3, <1>4, <1>8, <2>4
  <2> QED
    BY <2>1, <2>2, <2>3, <2>4
<1>9. Len(headers'[p]) > 0
  BY <1>1
<1>10. \A e \in 1 .. Len(entries'[p]) : \E j \in 0 .. N(p)' - 1 : e = Slot(p, j)'
  <2>1. Len(entries'[p]) = l + n /\ N(p)' = n + n
    BY <1>1
  <2> QED
    BY <1>7, <2>1
<1>11. \A i, j \in 0 .. N(p)' - 1 : Slot(p, i)' = Slot(p, j)' => i = j
  <2>1. N(p)' = n + n
    BY <1>1
  <2> QED
    BY <1>8, <2>1
<1> QED
  BY <1>6, <1>9, <1>10, <1>11 DEF Ring

\* insert_block_index_entry, when the next entry is not free.
LEMMA GrowStep ==
  ASSUME IInv, CountInv', NEW p \in Producer, Grows(p), OnlyProd(p),
         prod[p].at = "insert", prod'[p].at = "key", Value(p, Slot(p, N(p) - 1)) # 0,
         UNCHANGED <<tailIndex, headIndex, tailBlock, elements, elementsCompletelyDequeued, made,
                     freeBlocks, cons, taken>>
  PROVE  IInv'
<1> USE DEF IInv, ElementInv
<1>0. PICK n \in Nat, l \in Nat : n = N(p) /\ n > 1 /\ l = Len(entries[p])
  BY TableFacts
<1>1. /\ headers' \in [Producer -> Seq(HeaderType)] /\ entries' \in [Producer -> Seq(EntryType)]
      /\ \A q \in Producer : q # p => headers'[q] = headers[q] /\ entries'[q] = entries[q]
      /\ Len(headers'[p]) = Len(headers[p]) + 1 /\ Len(headers[p]) \in Nat
      /\ \A h \in 1 .. Len(headers[p]) : headers'[p][h] = headers[p][h]
  BY GrownTable, GrowsBy, TableFacts
<1>2. /\ N(p)' = n + n /\ Len(entries'[p]) = l + n
      /\ \A e \in 1 .. l : Key(p, e)' = Key(p, e) /\ Value(p, e)' = Value(p, e)
      /\ \A e \in l + 1 .. l + n : Unused(p, e)'
      /\ \A j \in 0 .. n - 1 : Slot(p, j)' = Slot(p, j)
      /\ \A j \in n .. n + n - 1 : Slot(p, j)' = l + (n + n - j)
  BY <1>0, GrownTable, GrowsBy
<1>3. Moves(p)
  BY <1>1 DEF Moves, OnlyProd, SameIndex, SameProducer
<1>4. -1 \notin Block
  BY MadeBlocks
<1>5. SameBlocks(p)
  <2>1. ASSUME NEW e \in 1 .. l + n, Value(p, e)' \in Block PROVE e \in 1 .. l
    <3>1. ~(e \in l + 1 .. l + n)
      BY <1>2, <1>4, <2>1 DEF Unused, JUNK
    <3> QED
      BY <3>1
  <2> QED
    BY <1>0, <1>2, <2>1 DEF SameBlocks
<1>6. IndexStep(p)
  <2>1. KeepsCovers(p)
    <3>1. \A h \in 1 .. Len(headers[p]) : headers'[p][h].index = headers[p][h].index
      BY <1>1
    <3>2. \A f \in 1 .. Len(entries[p]) : Key(p, f)' = Key(p, f)
      BY <1>0, <1>2
    <3> QED
      BY <3>1, <3>2, CoversKept DEF KeepsCovers
  <2>2. Len(headers'[p]) \in Nat /\ Len(headers[p]) <= Len(headers'[p])
    BY <1>1
  <2>3. Len(entries'[p]) \in Nat /\ Len(entries[p]) <= Len(entries'[p])
    BY <1>0, <1>2
  <2>4. \A h \in 1 .. Len(headers[p]) :
          headers'[p][h].index = headers[p][h].index /\ headers'[p][h].tail = headers[p][h].tail
    BY <1>1
  <2>5. \A f \in 1 .. Len(entries[p]) : Key(p, f)' = Key(p, f)
    BY <1>0, <1>2
  <2> QED
    BY <2>1, <2>2, <2>3, <2>4, <2>5 DEF IndexStep
<1>7. Ring(p)'
  BY GrownRing
<1>8. Top(p)' = Top(p) /\ Newest(p)' = Newest(p)
  BY DEF Top, Newest
<1>9. Window(p)'
  <2>1. ASSUME NEW j \in 0 .. n + n - 1
        PROVE  Unused(p, Slot(p, j))' \/ Key(p, Slot(p, j))' = Top(p)' - j * BLOCK_SIZE
    <3>1. CASE j \in 0 .. n - 1
      <4>1. PICK e \in 1 .. l : e = Slot(p, j) /\ e = Slot(p, j)'
        BY <1>0, <1>2, <3>1, SlotFacts
      <4>2. Unused(p, e) \/ Key(p, e) = Top(p) - j * BLOCK_SIZE \/ (j = N(p) - 1 /\ Early(p, e))
        BY <1>0, <3>1, <4>1 DEF Window
      <4>3. ~(j = N(p) - 1 /\ Early(p, e))
        BY <4>1 DEF Early
      <4>4. Unused(p, e)' \/ Key(p, e)' = Top(p)' - j * BLOCK_SIZE
        BY <1>2, <1>8, <4>2, <4>3 DEF Unused
      <4> QED
        BY <4>1, <4>4
    <3>2. CASE j \in n .. n + n - 1
      <4>1. PICK e \in l + 1 .. l + n : e = Slot(p, j)'
        <5>1. l + (n + n - j) \in l + 1 .. l + n
          BY <3>2
        <5> QED
          BY <1>2, <3>2, <5>1
      <4>2. Unused(p, e)'
        BY <1>2
      <4> QED
        BY <4>1, <4>2
    <3> QED
      BY <3>1, <3>2
  <2>2. Top(p)' >= 0 => Key(p, Slot(p, 0))' = Top(p)'
    <3>0. 0 \in 0 .. n - 1 /\ 0 \in 0 .. N(p) - 1
      BY <1>0
    <3>1. PICK e \in 1 .. l : e = Slot(p, 0) /\ e = Slot(p, 0)'
      <4>1. Slot(p, 0) \in 1 .. l
        BY <1>0, <3>0, SlotFacts
      <4>2. Slot(p, 0)' = Slot(p, 0)
        BY <1>2, <3>0
      <4> QED
        BY <4>1, <4>2
    <3>2. Key(p, e)' = Key(p, e)
      BY <1>2
    <3>3. Top(p) >= 0 => Key(p, e) = Top(p)
      BY <3>1 DEF Window
    <3> QED
      BY <1>8, <3>1, <3>2, <3>3
  <2> QED
    BY <1>2, <2>1, <2>2 DEF Window
<1>10. Phase(p)'
  <2>1. PICK m \in Nat : m = n + n - 1 /\ m = N(p)' - 1
    <3>1. N(p)' = n + n
      BY <1>2
    <3>2. n > 1
      BY <1>0
    <3>3. n + n - 1 \in Nat
      BY <3>2
    <3>4. N(p)' - 1 = n + n - 1
      BY <3>1
    <3> QED
      BY <3>3, <3>4
  <2>2. PICK e \in l + 1 .. l + n : e = Slot(p, m)'
    <3>1. m \in n .. n + n - 1 /\ l + (n + n - m) \in l + 1 .. l + n
      BY <1>0, <2>1
    <3> QED
      BY <1>2, <3>1
  <2>3. Key(p, e)' = INVALID_BLOCK_BASE
    BY <1>2 DEF Unused
  <2>4. Key(p, Slot(p, N(p) - 1))' = INVALID_BLOCK_BASE
    BY <2>1, <2>2, <2>3
  <2>5. tailIndex[p] % BLOCK_SIZE = 0
    BY DEF Phase
  <2> QED
    BY <2>4, <2>5 DEF Phase
<1> QED
  BY <1>1, <1>3, <1>5, <1>6, <1>7, <1>8, <1>9, <1>10, IndexOnly

\* insert_block_index_entry
LEMMA InsertStep ==
  ASSUME IInv, CountInv', NEW p \in Producer, insert(p)
  PROVE  IInv'
<1>1. /\ UNCHANGED <<tailIndex, headIndex, tailBlock, elements, elementsCompletelyDequeued, made,
                     freeBlocks, cons, taken>>
      /\ prod[p].at = "insert" /\ pgoto(p, [at |-> "key"])
  BY DEF insert, countVars, blockVars
<1>2. OnlyProd(p) /\ prod'[p] = [at |-> "key"]
  BY <1>1, GoesTo
<1>3. PICK e : e = TailEntry(p) /\ e = Slot(p, N(p) - 1)
  BY SlotFacts
<1>4. CASE Key(p, e) = INVALID_BLOCK_BASE \/ Value(p, e) = 0
  <2>1. UNCHANGED <<headers, entries>>
    BY <1>3, <1>4 DEF insert, indexVars, Key, Value
  <2>2. Top(p)' = Top(p) /\ Newest(p)' = Newest(p)
    BY <1>1, <1>2 DEF Top, Newest
  <2>3. N(p)' = N(p) /\ \A j : Slot(p, j)' = Slot(p, j)
    BY <2>1, RingSame
  <2>4. Slot(p, N(p) - 1)' = e
    <3>1. PICK m : m = N(p) - 1 /\ m = N(p)' - 1
      BY <2>3
    <3> QED
      BY <1>3, <2>3, <3>1
  <2>5. Key(p, e)' = Key(p, e) /\ Value(p, e)' = Value(p, e)
    BY <2>1 DEF Key, Value
  <2>6. tailIndex[p] % BLOCK_SIZE = 0
    BY <1>1 DEF IInv, ElementInv, Phase
  <2>7. Phase(p)'
    <3>1. Key(p, Slot(p, N(p) - 1))' = INVALID_BLOCK_BASE \/ Value(p, Slot(p, N(p) - 1))' = 0
      BY <1>4, <2>4, <2>5
    <3> QED
      BY <1>1, <1>2, <2>6, <3>1 DEF Phase
  <2> QED
    BY <1>1, <1>2, <2>1, <2>2, <2>7, PlainStep
<1>5. CASE ~(Key(p, e) = INVALID_BLOCK_BASE \/ Value(p, e) = 0)
  <2>1. Grows(p)
    BY <1>3, <1>5 DEF insert, Grows, Key, Value
  <2> QED
    BY <1>1, <1>2, <1>3, <1>5, <2>1, GrowStep
<1> QED
  BY <1>4, <1>5

\* An entry that counting back relies on does not get another key: it leads to a
\* block, or a block after it is to be read, so it is not the next to be used.
LEMMA TailKept ==
  ASSUME IInv, NEW p \in Producer, NEW i \in Nat, Todo(p, i), Base(i) <= Newest(p),
         NEW j \in Nat, NEW f \in 1 .. Len(entries[p]), Key(p, f) = Base(i) + j * BLOCK_SIZE,
         f = Slot(p, N(p) - 1), Value(p, f) \notin Block
  PROVE  Key(p, f) = tailIndex[p]
<1>0. PICK n \in Nat, t \in Int : n = N(p) /\ n > 1 /\ t = Top(p)
  BY TableFacts, TopFacts
<1>1. PICK x \in 0 .. n - 1 :
        /\ f = Slot(p, x)
        /\ Unused(p, f) \/ Key(p, f) = t - x * BLOCK_SIZE \/ Early(p, f)
  BY <1>0, EntryCases
<1>2. x = n - 1
  <2>1. n - 1 \in 0 .. n - 1
    BY <1>0
  <2> QED
    BY <1>0, <1>1, <2>1 DEF IInv, ElementInv, Ring
<1>3. PICK k \in Int : k = Base(i) /\ Mult(k)
  BY BaseMult DEF Mult
<1>4. ~Unused(p, f)
  <2>1. Mult(k + j * BLOCK_SIZE) /\ k + j * BLOCK_SIZE \in Int
    BY <1>3, MultFacts DEF Mult
  <2>2. PICK l \in Int : l = k + j * BLOCK_SIZE
    BY <2>1
  <2> QED
    BY <1>3, <2>1, <2>2, MultFacts DEF Unused
<1>5. CASE Key(p, f) = t - x * BLOCK_SIZE
  <2>1. PICK y \in 0 .. n - 1 :
          Key(p, Slot(p, y)) = k /\ Value(p, Slot(p, y)) \in Block /\ k = t - y * BLOCK_SIZE
    BY <1>0, <1>3, LiveEntry
  <2>2. y # x
    BY <1>1, <2>1
  <2>3. t - y * BLOCK_SIZE + j * BLOCK_SIZE = t - x * BLOCK_SIZE
    BY <1>3, <1>5, <2>1
  <2>4. y \in Int /\ j \in Int /\ x \in Int /\ y - j \in Int
    OBVIOUS
  <2>5. (y - j) * BLOCK_SIZE = y * BLOCK_SIZE - j * BLOCK_SIZE
    BY <2>4, Mults
  <2>6. y * BLOCK_SIZE \in Int /\ j * BLOCK_SIZE \in Int /\ x * BLOCK_SIZE \in Int
    BY <2>4, Mults
  <2>7. (y - j) * BLOCK_SIZE = x * BLOCK_SIZE
    BY <2>3, <2>5, <2>6
  <2>8. PICK z \in Int : z = y - j
    BY <2>4
  <2>9. z = x
    BY <2>4, <2>7, <2>8, Mults
  <2> QED
    BY <1>2, <2>2, <2>8, <2>9
<1>6. CASE Early(p, f)
  BY <1>6 DEF Early
<1> QED
  BY <1>1, <1>4, <1>5, <1>6

\* So counting back leads to the same blocks.
LEMMA KeyCovers ==
  ASSUME IInv, NEW p \in Producer, NEW e \in 1 .. Len(entries[p]), e = Slot(p, N(p) - 1),
         Value(p, e) \notin Block, headers'[p] = headers[p], Key(p, e)' = tailIndex[p],
         \A f \in 1 .. Len(entries[p]) : f # e => Key(p, f)' = Key(p, f)
  PROVE  KeepsCovers(p)
<1> SUFFICES ASSUME NEW h \in 1 .. Len(headers[p]), NEW t \in 0 .. Len(headers[p][h].index) - 1,
                    NEW i \in Nat,
                    Todo(p, i), Base(i) <= Newest(p), Covers(p, h, t, i)
             PROVE  Covers(p, h, t, i)'
  BY DEF KeepsCovers
<1>1. Table(p, h) /\ headers[p][h] \in HeaderType
  <2>1. Ring(p)
    BY DEF IInv, ElementInv
  <2>2. Table(p, h)
    BY <2>1 DEF Ring
  <2>3. headers[p][h] \in HeaderType
    BY TableFacts
  <2> QED
    BY <2>2, <2>3
<1>2. PICK n \in Nat : n = Len(headers[p][h].index) /\ n > 1
  BY <1>1 DEF Table, HeaderType
<1>3. \A x \in 1 .. n : headers[p][h].index[x] \in 1 .. Len(entries[p])
  BY <1>1, <1>2 DEF Table
<1>4. PICK j \in 0 .. n - 1 :
        /\ Key(p, headers[p][h].index[t + 1]) = Base(i) + j * BLOCK_SIZE
        /\ Key(p, headers[p][h].index[Back(t, j, n) + 1]) = Base(i)
  BY <1>2 DEF Covers
<1>5. PICK y \in 1 .. n : y = t + 1
  <2>1. t + 1 \in 1 .. n
    BY <1>2
  <2> QED
    BY <2>1
<1>6. PICK x \in 1 .. n : x = Back(t, j, n) + 1
  <2>1. PICK u \in 0 .. n - 1 : u = t
    BY <1>2
  <2>2. Back(u, j, n) \in 0 .. n - 1
    <3>1. n > 0
      BY <1>2
    <3> QED
      BY <3>1, BackIs
  <2> QED
    BY <2>1, <2>2
<1>7. PICK f \in 1 .. Len(entries[p]), g \in 1 .. Len(entries[p]) :
        f = headers[p][h].index[y] /\ g = headers[p][h].index[x]
  BY <1>3
<1>8. Key(p, f) = Base(i) + j * BLOCK_SIZE /\ Key(p, g) = Base(i)
  BY <1>4, <1>5, <1>6, <1>7
<1>9. Key(p, f)' = Base(i) + j * BLOCK_SIZE
  <2>1. CASE f = e
    <3>1. j \in Nat
      OBVIOUS
    <3>2. Key(p, f) = tailIndex[p]
      BY <1>8, <2>1, <3>1, TailKept
    <3> QED
      BY <1>8, <2>1, <3>2
  <2>2. CASE f # e
    BY <1>8, <2>2
  <2> QED
    BY <2>1, <2>2
<1>10. g # e
  <2>1. PICK d \in 1 .. Len(entries[p]) : Key(p, d) = Base(i) /\ Value(p, d) \in Block
    BY DEF IInv, ElementInv, Installed
  <2>2. Mult(Base(i))
    BY BaseMult
  <2>3. d = g
    BY <1>8, <2>1, <2>2, EntriesDiffer
  <2> QED
    BY <2>1, <2>3
<1>11. Key(p, g)' = Base(i)
  BY <1>8, <1>10
<1>12. f = headers'[p][h].index[t + 1] /\ g = headers'[p][h].index[Back(t, j, n) + 1]
  BY <1>5, <1>6, <1>7
<1>13. n = Len(headers'[p][h].index)
  BY <1>2
<1> QED
  BY <1>9, <1>11, <1>12, <1>13, Zenon DEF Covers

\* key.store
LEMMA KeyStep ==
  ASSUME IInv, CountInv', NEW p \in Producer, key(p)
  PROVE  IInv'
<1> USE DEF IInv, ElementInv
<1>1. /\ UNCHANGED <<tailIndex, headIndex, tailBlock, headers, elements, elementsCompletelyDequeued, made,
                     freeBlocks, cons, taken>>
      /\ prod[p].at = "key" /\ pgoto(p, [at |-> "tail"])
  BY DEF key, countVars, blockVars
<1>2. OnlyProd(p) /\ prod'[p] = [at |-> "tail"]
  BY <1>1, GoesTo
<1>3. PICK n \in Nat, k \in Nat : n = N(p) /\ n > 1 /\ k = tailIndex[p] /\ k % BLOCK_SIZE = 0
  BY <1>1, TableFacts, TopFacts DEF Phase
<1>4. n - 1 \in 0 .. n - 1 /\ 0 \in 0 .. n - 1 /\ n - 1 # 0
  BY <1>3
<1>5. PICK e \in 1 .. Len(entries[p]) : e = TailEntry(p) /\ e = Slot(p, n - 1)
  BY <1>3, <1>4, SlotFacts
<1>6. Value(p, e) = 0 \/ Value(p, e) = JUNK
  <2>1. Key(p, e) = INVALID_BLOCK_BASE \/ Value(p, e) = 0
    BY <1>1, <1>3, <1>5 DEF Phase
  <2> QED
    BY <2>1, EntryKey DEF Unused
<1>7. Value(p, e) \notin Block
  BY <1>6, MadeBlocks DEF JUNK
<1>8. /\ entries' \in [Producer -> Seq(EntryType)]
      /\ \A q \in Producer : Len(entries'[q]) = Len(entries[q])
      /\ \A q \in Producer : q # p => entries'[q] = entries[q]
      /\ Key(p, e)' = k /\ \A f \in 1 .. Len(entries[p]) : Value(p, f)' = Value(p, f)
      /\ \A f \in 1 .. Len(entries[p]) : f # e => Key(p, f)' = Key(p, f)
  <2>1. StoresKey(p, e, k)
    BY <1>3, <1>5 DEF key, StoresKey
  <2> QED
    BY <2>1, StoreKey
<1>9. N(p)' = N(p) /\ (\A j : Slot(p, j)' = Slot(p, j)) /\ Ring(p)'
  BY <1>1, <1>8, RingSame
<1>10. Moves(p)
  BY <1>1, <1>2, <1>8 DEF Moves, OnlyProd, SameIndex, SameProducer
<1>11. SameBlocks(p)
  BY <1>7, <1>8 DEF SameBlocks
<1>12. IndexStep(p)
  <2>1. KeepsCovers(p)
    BY <1>1, <1>3, <1>5, <1>7, <1>8, KeyCovers
  <2>2. Len(headers'[p]) \in Nat /\ Len(headers[p]) <= Len(headers'[p])
    BY <1>1, TableFacts
  <2>3. Len(entries'[p]) \in Nat /\ Len(entries[p]) <= Len(entries'[p])
    BY <1>8, TableFacts
  <2>4. \A h \in 1 .. Len(headers[p]) : headers'[p][h] = headers[p][h]
    BY <1>1
  <2>5. \A f \in 1 .. Len(entries[p]) : Value(p, f) \in Block => Key(p, f)' = Key(p, f)
    BY <1>7, <1>8
  <2> QED
    BY <2>1, <2>2, <2>3, <2>4, <2>5 DEF IndexStep
<1>13. Top(p)' = Top(p) /\ Newest(p)' = Newest(p)
  BY <1>1, <1>2 DEF Top, Newest
<1>14. Top(p) < k
  <2>1. Top(p) = k - BLOCK_SIZE
    BY <1>1, <1>3, TopFacts DEF Top
  <2> QED
    BY <2>1, BlockSize
<1>15. Window(p)'
  <2>1. Early(p, e)'
    BY <1>1, <1>2, <1>3, <1>6, <1>8, <1>13, <1>14 DEF Early
  <2>2. ASSUME NEW j \in 0 .. n - 1
        PROVE  \/ Unused(p, Slot(p, j))' \/ Key(p, Slot(p, j))' = Top(p)' - j * BLOCK_SIZE
               \/ (j = n - 1 /\ Early(p, Slot(p, j))')
    <3>1. PICK f \in 1 .. Len(entries[p]) : f = Slot(p, j) /\ f = Slot(p, j)'
      BY <1>3, <1>9, SlotFacts
    <3>2. CASE j = n - 1
      BY <1>5, <2>1, <3>1, <3>2
    <3>3. CASE j # n - 1
      <4>1. f # e
        <5>1. \A a, b \in 0 .. n - 1 : Slot(p, a) = Slot(p, b) => a = b
          BY <1>3 DEF Ring
        <5>2. PICK m \in 0 .. n - 1 : m = n - 1
          BY <1>4
        <5> QED
          BY <1>5, <3>1, <3>3, <5>1, <5>2
      <4>2. Unused(p, f) \/ Key(p, f) = Top(p) - j * BLOCK_SIZE
        BY <1>3, <3>1, <3>3 DEF Window
      <4>3. Unused(p, f)' \/ Key(p, f)' = Top(p)' - j * BLOCK_SIZE
        BY <1>8, <1>13, <4>1, <4>2 DEF Unused
      <4> QED
        BY <3>1, <4>3
    <3> QED
      BY <3>2, <3>3
  <2>3. Top(p)' >= 0 => Key(p, Slot(p, 0))' = Top(p)'
    <3>1. PICK f \in 1 .. Len(entries[p]) : f = Slot(p, 0) /\ f = Slot(p, 0)'
      BY <1>3, <1>4, <1>9, SlotFacts
    <3>2. f # e
      BY <1>3, <1>5, <3>1, SlotFacts
    <3>3. Top(p) >= 0 => Key(p, f) = Top(p)
      BY <3>1 DEF Window
    <3>4. Top(p)' >= 0 => Key(p, f)' = Top(p)'
      BY <1>8, <1>13, <3>2, <3>3
    <3> QED
      BY <3>1, <3>4
  <2> QED
    BY <1>2, <1>3, <1>9, <2>2, <2>3 DEF Window
<1>16. Phase(p)'
  <2>1. PICK m : m = N(p) - 1 /\ m = N(p)' - 1 /\ e = Slot(p, m)'
    BY <1>3, <1>5, <1>9
  <2>2. Key(p, Slot(p, N(p) - 1))' = tailIndex'[p] /\ Value(p, Slot(p, N(p) - 1))' \notin Block
    BY <1>1, <1>3, <1>7, <1>8, <2>1
  <2> QED
    BY <1>1, <1>2, <1>3, <2>2 DEF Phase
<1>17. headers' \in [Producer -> Seq(HeaderType)]
  BY <1>1 DEF ElementTypes
<1>18. prod[p].at # "value" /\ prod'[p].at \notin {"value", "publish"}
  BY <1>1, <1>2
<1> QED
  BY <1>1, <1>8, <1>9, <1>10, <1>11, <1>12, <1>13, <1>15, <1>16, <1>17, <1>18, IndexOnly

\* The tail of the current table is stored.
SetsTail(p, u) == headers' = [headers EXCEPT ![p][Len(headers[p])].tail = u]

\* What that changes.
LEMMA StoreTail ==
  ASSUME IInv, NEW p \in Producer, NEW u \in Nat, SetsTail(p, u)
  PROVE  /\ headers' \in [Producer -> Seq(HeaderType)]
         /\ \A q \in Producer : q # p => headers'[q] = headers[q]
         /\ Len(headers'[p]) = Len(headers[p])
         /\ \A h \in 1 .. Len(headers[p]) :
              /\ headers'[p][h].index = headers[p][h].index
              /\ h < Len(headers[p]) => headers'[p][h] = headers[p][h]
         /\ Tab(p)'.tail = u /\ Tab(p)'.index = Tab(p).index /\ N(p)' = N(p)
<1>1. headers \in [Producer -> Seq(HeaderType)]
  BY DEF IInv, ElementInv, ElementTypes
<1>2. PICK s \in Seq(HeaderType) : s = headers[p] /\ Len(s) \in Nat /\ Len(s) > 0
  BY TableFacts
<1>3. PICK l \in 1 .. Len(s) : l = Len(s)
  BY <1>2
<1>4. s[l] \in HeaderType
  BY <1>2
<1>5. PICK r \in HeaderType : r = [s[l] EXCEPT !.tail = u]
  BY <1>4 DEF HeaderType
<1>6. r.tail = u /\ r.index = s[l].index
  BY <1>4, <1>5 DEF HeaderType
<1>7. PICK v : v = [s EXCEPT ![l] = r]
  OBVIOUS
<1>8. /\ v \in Seq(HeaderType) /\ Len(v) = Len(s) /\ v[l] = r
      /\ \A h \in 1 .. Len(s) : h # l => v[h] = s[h]
  BY <1>2, <1>7, ExceptSeq
<1>9. headers' = [headers EXCEPT ![p] = v]
  BY <1>2, <1>3, <1>5, <1>7 DEF SetsTail
<1>10. headers'[p] = v /\ headers' \in [Producer -> Seq(HeaderType)]
  BY <1>1, <1>8, <1>9
<1>11. \A q \in Producer : q # p => headers'[q] = headers[q]
  BY <1>1, <1>9
<1>12. Tab(p) = s[l] /\ Tab(p)' = r
  BY <1>2, <1>3, <1>8, <1>10 DEF Tab
<1>13. N(p)' = N(p)
  BY <1>6, <1>12 DEF N
<1>14. ASSUME NEW h \in 1 .. Len(s) PROVE v[h].index = s[h].index /\ (h < Len(s) => v[h] = s[h])
  BY <1>2, <1>3, <1>6, <1>8
<1> QED
  BY <1>2, <1>6, <1>8, <1>10, <1>11, <1>12, <1>13, <1>14

\* It turns the ring.
LEMMA TurnRing ==
  ASSUME IInv, NEW p \in Producer, NEW u \in Nat, u < N(p), SetsTail(p, u),
         Len(entries'[p]) = Len(entries[p])
  PROVE  Ring(p)'
<1>0. PICK n \in Nat, t \in Nat : n = N(p) /\ n > 1 /\ t = Tab(p).tail /\ t < n
  BY TableFacts
<1>1. /\ Len(headers'[p]) = Len(headers[p]) /\ Len(headers[p]) \in Nat /\ Len(headers[p]) > 0
      /\ \A h \in 1 .. Len(headers[p]) :
           /\ headers'[p][h].index = headers[p][h].index
           /\ h < Len(headers[p]) => headers'[p][h] = headers[p][h]
      /\ Tab(p)'.tail = u /\ Tab(p)'.index = Tab(p).index /\ N(p)' = n
  BY <1>0, StoreTail, TableFacts
<1>2. PICK ix : ix = Tab(p).index /\ ix = Tab(p)'.index
  BY <1>1
<1>3. \A j : Slot(p, j) = ix[Back(t, j, n) + 1] /\ Slot(p, j)' = ix[Back(u, j, n) + 1]
  BY <1>0, <1>1, <1>2 DEF Slot
<1>4. t \in 0 .. n - 1 /\ u \in 0 .. n - 1 /\ n > 0
  BY <1>0
<1>5. Ring(p)
  BY DEF IInv, ElementInv
<1>6. ASSUME NEW h \in 1 .. Len(headers[p]) PROVE Table(p, h)'
  <2>1. Table(p, h)
    BY <1>5 DEF Ring
  <2>2. headers'[p][h].index = headers[p][h].index
    BY <1>1
  <2>3. headers'[p][h].tail < Len(headers[p][h].index)
    <3>1. CASE h = Len(headers[p])
      BY <1>0, <1>1, <3>1 DEF Tab, N
    <3>2. CASE h # Len(headers[p])
      <4>1. h < Len(headers[p])
        BY <1>1, <3>2
      <4> QED
        BY <1>1, <2>1, <4>1 DEF Table
    <3> QED
      BY <3>1, <3>2
  <2> QED
    BY <2>1, <2>2, <2>3 DEF Table
<1>7. ASSUME NEW e \in 1 .. Len(entries[p]) PROVE \E j \in 0 .. n - 1 : e = Slot(p, j)'
  <2>1. PICK j \in 0 .. n - 1 : e = Slot(p, j)
    BY <1>0, <1>5 DEF Ring
  <2>2. PICK y \in 0 .. n - 1 : y = Back(t, j, n)
    BY <1>4, BackIs
  <2>3. PICK i \in 0 .. n - 1 : y = Back(u, i, n)
    BY <1>4, BackAll
  <2> QED
    BY <1>3, <2>1, <2>2, <2>3
<1>8. ASSUME NEW i \in 0 .. n - 1, NEW j \in 0 .. n - 1, Slot(p, i)' = Slot(p, j)' PROVE i = j
  <2>1. PICK y \in 0 .. n - 1, z \in 0 .. n - 1 : y = Back(u, i, n) /\ z = Back(u, j, n)
    BY <1>4, BackIs
  <2>2. PICK a \in 0 .. n - 1, b \in 0 .. n - 1 : y = Back(t, a, n) /\ z = Back(t, b, n)
    <3>1. \A x \in 0 .. n - 1 : \E c \in 0 .. n - 1 : x = Back(t, c, n)
      BY <1>4, BackAll
    <3> QED
      BY <3>1
  <2>3. Slot(p, a) = Slot(p, b)
    BY <1>3, <1>8, <2>1, <2>2
  <2>4. a = b
    BY <1>0, <1>5, <2>3 DEF Ring
  <2>5. \A c, d \in 0 .. n - 1 : Back(u, c, n) = Back(u, d, n) => c = d
    BY <1>4, BackAll
  <2> QED
    BY <2>1, <2>2, <2>4, <2>5
<1> QED
  BY <1>1, <1>6, <1>7, <1>8 DEF Ring

\* tail.store: one entry on.
LEMMA TurnOn ==
  ASSUME IInv, NEW p \in Producer, SetsTail(p, NewTail(p))
  PROVE  /\ NewTail(p) \in Nat /\ NewTail(p) < N(p) /\ N(p)' = N(p)
         /\ Slot(p, 0)' = Slot(p, N(p) - 1)
         /\ \A j \in 1 .. N(p) - 1 : Slot(p, j)' = Slot(p, j - 1)
<1>0. PICK n \in Nat, t \in Nat : n = N(p) /\ n > 1 /\ t = Tab(p).tail /\ t < n
  BY TableFacts
<1>1. NewTail(p) = (t + 1) % n
  BY <1>0, SlotFacts
<1>2. t \in 0 .. n - 1
  BY <1>0
<1>3. PICK u \in Nat : u = (t + 1) % n /\ u = NewTail(p) /\ u < n
  BY <1>0, <1>1, <1>2, NextBack
<1>4. Tab(p)'.tail = u /\ Tab(p)'.index = Tab(p).index /\ N(p)' = n
  BY <1>0, <1>3, StoreTail
<1>5. PICK ix : ix = Tab(p).index
  OBVIOUS
<1>6. \A j : Slot(p, j) = ix[Back(t, j, n) + 1] /\ Slot(p, j)' = ix[Back(u, j, n) + 1]
  BY <1>0, <1>4, <1>5 DEF Slot
<1>7. /\ \A j \in 1 .. n - 1 : Back(u, j, n) = Back(t, j - 1, n)
      /\ Back(u, 0, n) = Back(t, n - 1, n)
  BY <1>0, <1>2, <1>3, NextBack
<1> QED
  BY <1>0, <1>3, <1>4, <1>6, <1>7

\* rewind_block_index_tail: one entry back.
LEMMA TurnBack ==
  ASSUME IInv, NEW p \in Producer, NEW u, u = (Tab(p).tail - 1) % N(p), SetsTail(p, u)
  PROVE  /\ u \in Nat /\ u < N(p) /\ N(p)' = N(p)
         /\ Slot(p, N(p) - 1)' = Slot(p, 0)
         /\ \A j \in 0 .. N(p) - 2 : Slot(p, j)' = Slot(p, j + 1)
<1>0. PICK n \in Nat, t \in Nat : n = N(p) /\ n > 1 /\ t = Tab(p).tail /\ t < n
  BY TableFacts
<1>2. t \in 0 .. n - 1
  BY <1>0
<1>3. PICK w \in Nat : w = u /\ w = (t - 1) % n /\ w < n
  BY <1>0, <1>2, PrevBack
<1>4. Tab(p)'.tail = w /\ Tab(p)'.index = Tab(p).index /\ N(p)' = n
  BY <1>0, <1>3, StoreTail
<1>5. PICK ix : ix = Tab(p).index
  OBVIOUS
<1>6. \A j : Slot(p, j) = ix[Back(t, j, n) + 1] /\ Slot(p, j)' = ix[Back(w, j, n) + 1]
  BY <1>0, <1>4, <1>5 DEF Slot
<1>7. /\ \A j \in 0 .. n - 2 : Back(w, j, n) = Back(t, j + 1, n)
      /\ Back(w, n - 1, n) = Back(t, 0, n)
  BY <1>0, <1>2, <1>3, PrevBack
<1>8. PICK m : m = n - 1 /\ m = N(p) - 1 /\ m = N(p)' - 1
  BY <1>0, <1>4
<1>9. Slot(p, m)' = Slot(p, 0)
  BY <1>6, <1>7, <1>8
<1>10. Slot(p, N(p) - 1)' = Slot(p, 0)
  BY <1>8, <1>9
<1> QED
  BY <1>0, <1>3, <1>4, <1>6, <1>7, <1>10

\* tail.store
LEMMA TailStep ==
  ASSUME IInv, CountInv', NEW p \in Producer, tail(p)
  PROVE  IInv'
<1> USE DEF IInv, ElementInv
<1>1. /\ UNCHANGED <<tailIndex, headIndex, tailBlock, entries, elements, elementsCompletelyDequeued, made,
                     freeBlocks, cons, taken>>
      /\ prod[p].at = "tail" /\ pgoto(p, [at |-> "requisition", entry |-> TailEntry(p)])
  BY DEF tail, countVars, blockVars
<1>2. OnlyProd(p) /\ prod'[p] = [at |-> "requisition", entry |-> TailEntry(p)]
  BY <1>1, GoesTo
<1>3. SetsTail(p, NewTail(p))
  BY DEF tail, SetsTail
<1>4. PICK n \in Nat, k \in Nat, u \in Nat :
        /\ n = N(p) /\ n > 1 /\ k = tailIndex[p] /\ k % BLOCK_SIZE = 0
        /\ u = NewTail(p) /\ u < n
  BY <1>1, <1>3, TableFacts, TopFacts, TurnOn DEF Phase
<1>5. /\ N(p)' = n /\ Slot(p, 0)' = Slot(p, n - 1)
      /\ \A j \in 1 .. n - 1 : Slot(p, j)' = Slot(p, j - 1)
  BY <1>3, <1>4, TurnOn
<1>6. /\ headers' \in [Producer -> Seq(HeaderType)]
      /\ \A q \in Producer : q # p => headers'[q] = headers[q]
      /\ Len(headers'[p]) = Len(headers[p])
      /\ \A h \in 1 .. Len(headers[p]) :
           /\ headers'[p][h].index = headers[p][h].index
           /\ h < Len(headers[p]) => headers'[p][h].tail = headers[p][h].tail
  BY <1>3, <1>4, StoreTail
<1>7. Ring(p)'
  BY <1>1, <1>3, <1>4, TurnRing
<1>8. \A e : Key(p, e)' = Key(p, e) /\ Value(p, e)' = Value(p, e)
  BY <1>1 DEF Key, Value
<1>9. Moves(p)
  BY <1>1, <1>2, <1>6 DEF Moves, OnlyProd, SameIndex, SameProducer
<1>10. SameBlocks(p)
  BY <1>1, <1>8 DEF SameBlocks
<1>11. IndexStep(p)
  BY <1>1, <1>6, <1>8, KeysKept
<1>12. Top(p) = k - BLOCK_SIZE /\ Top(p)' = k /\ Newest(p)' = Newest(p)
  BY <1>1, <1>2, <1>4, TopFacts DEF Top, Newest
<1>13. PICK e : e = Slot(p, n - 1) /\ e = Slot(p, 0)' /\ e = TailEntry(p)
  BY <1>4, <1>5, SlotFacts
<1>14. Key(p, e) = k /\ Value(p, e) \notin Block
  BY <1>1, <1>4, <1>13 DEF Phase
<1>15. Window(p)'
  <2>1. ASSUME NEW j \in 0 .. n - 1
        PROVE  Unused(p, Slot(p, j))' \/ Key(p, Slot(p, j))' = Top(p)' - j * BLOCK_SIZE
    <3>1. CASE j = 0
      <4>1. 0 * BLOCK_SIZE = 0
        BY BlockSize
      <4>2. Key(p, e)' = Top(p)' - j * BLOCK_SIZE
        BY <1>8, <1>12, <1>14, <3>1, <4>1
      <4> QED
        BY <1>13, <3>1, <4>2
    <3>2. CASE j # 0
      <4>1. PICK i \in 0 .. n - 1 : i = j - 1 /\ i # n - 1
        BY <3>2
      <4>2. PICK f : f = Slot(p, i) /\ f = Slot(p, j)'
        BY <1>5, <3>2, <4>1
      <4>3. Unused(p, f) \/ Key(p, f) = Top(p) - i * BLOCK_SIZE
        BY <1>4, <4>1, <4>2 DEF Window
      <4>4. k - BLOCK_SIZE - i * BLOCK_SIZE = k - j * BLOCK_SIZE
        <5>1. j \in Int /\ i \in Int
          OBVIOUS
        <5>2. (j - 1) * BLOCK_SIZE = j * BLOCK_SIZE - BLOCK_SIZE /\ j * BLOCK_SIZE \in Int
          BY <5>1, Mults
        <5> QED
          BY <4>1, <5>1, <5>2, BlockSize
      <4>5. Unused(p, f)' \/ Key(p, f)' = Top(p)' - j * BLOCK_SIZE
        BY <1>8, <1>12, <4>3, <4>4 DEF Unused
      <4> QED
        BY <4>2, <4>5
    <3> QED
      BY <3>1, <3>2
  <2>2. Key(p, Slot(p, 0))' = Top(p)'
    BY <1>8, <1>12, <1>13, <1>14
  <2>3. Top(p)' >= BLOCK_SIZE => Key(p, Slot(p, 1))' = Top(p)' - BLOCK_SIZE
    <3>1. PICK f : f = Slot(p, 0) /\ f = Slot(p, 1)'
      <4>1. 1 \in 1 .. n - 1 /\ 1 - 1 = 0
        BY <1>4
      <4> QED
        BY <1>5, <4>1
    <3>2. Top(p) >= 0 => Key(p, f) = Top(p)
      BY <3>1 DEF Window
    <3>3. k >= BLOCK_SIZE => k - BLOCK_SIZE >= 0
      BY BlockSize
    <3>4. Top(p)' >= BLOCK_SIZE => Key(p, f)' = Top(p)' - BLOCK_SIZE
      BY <1>8, <1>12, <3>2, <3>3
    <3> QED
      BY <3>1, <3>4
  <2> QED
    BY <1>5, <2>1, <2>2, <2>3 DEF Window
<1>16. Phase(p)'
  <2>1. prod'[p].entry = Slot(p, 0)' /\ Value(p, Slot(p, 0))' \notin Block
    BY <1>2, <1>8, <1>13, <1>14
  <2> QED
    BY <1>1, <1>2, <1>4, <2>1 DEF Phase
<1>17. entries' \in [Producer -> Seq(EntryType)]
  BY <1>1 DEF ElementTypes
<1>18. prod[p].at # "value" /\ prod'[p].at \notin {"value", "publish"}
  BY <1>1, <1>2
<1> QED
  BY <1>1, <1>6, <1>7, <1>9, <1>10, <1>11, <1>12, <1>15, <1>16, <1>17, <1>18, IndexOnly

\* requisition_block finds no block, and the index is rewound.
Rewinds(p) ==
  /\ prod[p].at = "requisition" /\ pgoto(p, Idle)
  /\ SetsTail(p, (Tab(p).tail - 1) % N(p)) /\ StoresValue(p, prod[p].entry, 0)
  /\ UNCHANGED <<tailIndex, headIndex, tailBlock, elements, elementsCompletelyDequeued, made,
                 freeBlocks, cons, taken>>

\* The entry is the next one again.
LEMMA RewindStep ==
  ASSUME IInv, CountInv', NEW p \in Producer, Rewinds(p)
  PROVE  IInv'
<1> USE DEF IInv, ElementInv
<1>1. /\ UNCHANGED <<tailIndex, headIndex, tailBlock, elements, elementsCompletelyDequeued, made,
                     freeBlocks, cons, taken>>
      /\ prod[p].at = "requisition" /\ pgoto(p, Idle)
  BY DEF Rewinds
<1>2. OnlyProd(p) /\ prod'[p] = [at |-> "idle"]
  BY <1>1, GoesTo DEF Idle
<1>3. PICK u : u = (Tab(p).tail - 1) % N(p) /\ SetsTail(p, u)
  BY DEF Rewinds
<1>4. PICK n \in Nat, k \in Nat :
        /\ n = N(p) /\ n > 1 /\ k = tailIndex[p] /\ k % BLOCK_SIZE = 0
        /\ u \in Nat /\ u < n
  BY <1>1, <1>3, TableFacts, TopFacts, TurnBack DEF Phase
<1>5. /\ N(p)' = n /\ Slot(p, N(p) - 1)' = Slot(p, 0)
      /\ \A j \in 0 .. n - 2 : Slot(p, j)' = Slot(p, j + 1)
  BY <1>3, <1>4, TurnBack
<1>6. /\ headers' \in [Producer -> Seq(HeaderType)]
      /\ \A q \in Producer : q # p => headers'[q] = headers[q]
      /\ Len(headers'[p]) = Len(headers[p])
      /\ \A h \in 1 .. Len(headers[p]) :
           /\ headers'[p][h].index = headers[p][h].index
           /\ h < Len(headers[p]) => headers'[p][h].tail = headers[p][h].tail
  BY <1>3, <1>4, StoreTail
<1>7. PICK e \in 1 .. Len(entries[p]) : e = Slot(p, 0) /\ e = prod[p].entry /\ Value(p, e) \notin Block
  <2>1. 0 \in 0 .. N(p) - 1
    BY <1>4
  <2> QED
    BY <1>1, <2>1, SlotFacts DEF Phase
<1>8. /\ entries' \in [Producer -> Seq(EntryType)]
      /\ \A q \in Producer : Len(entries'[q]) = Len(entries[q])
      /\ \A q \in Producer : q # p => entries'[q] = entries[q]
      /\ Value(p, e)' = 0 /\ \A f \in 1 .. Len(entries[p]) : Key(p, f)' = Key(p, f)
      /\ \A f \in 1 .. Len(entries[p]) : f # e => Value(p, f)' = Value(p, f)
  <2>1. StoresValue(p, e, 0)
    BY <1>7 DEF Rewinds
  <2> QED
    BY <2>1, StoreValue
<1>9. Ring(p)'
  BY <1>3, <1>4, <1>8, TurnRing
<1>10. Moves(p)
  BY <1>1, <1>2, <1>6, <1>8 DEF Moves, OnlyProd, SameIndex, SameProducer
<1>11. SameBlocks(p)
  <2>1. 0 \notin Block
    BY MadeBlocks
  <2> QED
    BY <1>7, <1>8, <2>1 DEF SameBlocks
<1>12. IndexStep(p)
  BY <1>6, <1>8, KeysKept
<1>13. Top(p) = k /\ Top(p)' = k - BLOCK_SIZE /\ Newest(p)' = Newest(p)
  BY <1>1, <1>2, <1>4, TopFacts DEF Top, Newest
<1>14. Window(p)'
  <2>1. PICK m \in 0 .. n - 1 : m = n - 1 /\ m = N(p)' - 1 /\ m = N(p) - 1
    <3>1. n - 1 \in 0 .. n - 1
      BY <1>4
    <3> QED
      BY <1>4, <1>5, <3>1
  <2>2. e = Slot(p, m)'
    BY <1>5, <1>7, <2>1
  <2>3. Key(p, e) = k
    BY <1>7, <1>13 DEF Window
  <2>4. Early(p, e)'
    <3>1. k - BLOCK_SIZE < k
      BY BlockSize
    <3> QED
      BY <1>1, <1>4, <1>8, <1>13, <2>3, <3>1 DEF Early
  <2>5. ASSUME NEW j \in 0 .. n - 1, j # m
        PROVE  Unused(p, Slot(p, j))' \/ Key(p, Slot(p, j))' = Top(p)' - j * BLOCK_SIZE
    <3>1. PICK i \in 0 .. n - 1 : i = j + 1 /\ i # 0
      <4>1. j + 1 \in 0 .. n - 1 /\ j + 1 # 0
        BY <2>1, <2>5
      <4> QED
        BY <4>1
    <3>2. PICK f \in 1 .. Len(entries[p]) : f = Slot(p, i) /\ f = Slot(p, j)'
      <4>1. j \in 0 .. n - 2
        BY <2>1, <2>5
      <4> QED
        BY <1>4, <1>5, <3>1, <4>1, SlotFacts
    <3>3. f # e
      <4>1. \A a, b \in 0 .. n - 1 : Slot(p, a) = Slot(p, b) => a = b
        BY <1>4 DEF Ring
      <4>2. 0 \in 0 .. n - 1
        BY <1>4
      <4> QED
        BY <1>7, <3>1, <3>2, <4>1, <4>2
    <3>4. ~Early(p, f)
      BY <1>4, <1>13 DEF Early
    <3>5. Unused(p, f) \/ Key(p, f) = Top(p) - i * BLOCK_SIZE
      BY <1>4, <3>2, <3>4 DEF Window
    <3>6. k - i * BLOCK_SIZE = k - BLOCK_SIZE - j * BLOCK_SIZE
      <4>1. j \in Int /\ i \in Int
        OBVIOUS
      <4>2. (j + 1) * BLOCK_SIZE = j * BLOCK_SIZE + BLOCK_SIZE /\ j * BLOCK_SIZE \in Int
        BY <4>1, Mults
      <4> QED
        BY <3>1, <4>1, <4>2, BlockSize
    <3>7. Unused(p, f)' \/ Key(p, f)' = Top(p)' - j * BLOCK_SIZE
      BY <1>8, <1>13, <3>3, <3>5, <3>6 DEF Unused
    <3> QED
      BY <3>2, <3>7
  <2>6. Top(p)' >= 0 => Key(p, Slot(p, 0))' = Top(p)'
    <3>1. 0 \in 0 .. n - 2 /\ 0 + 1 = 1 /\ 1 \in 0 .. n - 1
      BY <1>4
    <3>2. PICK f \in 1 .. Len(entries[p]) : f = Slot(p, 1) /\ f = Slot(p, 0)'
      BY <1>4, <1>5, <3>1, SlotFacts
    <3>3. Top(p) >= BLOCK_SIZE => Key(p, f) = Top(p) - BLOCK_SIZE
      BY <1>1, <3>2 DEF Window
    <3>4. k - BLOCK_SIZE >= 0 => k >= BLOCK_SIZE
      BY BlockSize
    <3>5. Top(p)' >= 0 => Key(p, f)' = Top(p)'
      BY <1>8, <1>13, <3>3, <3>4
    <3> QED
      BY <3>2, <3>5
  <2>7. Early(p, Slot(p, m))'
    BY <2>2, <2>4
  <2> QED
    BY <1>2, <1>5, <2>1, <2>5, <2>6, <2>7 DEF Window
<1>15. Phase(p)'
  BY <1>1, <1>2, <1>4 DEF Phase
<1>16. prod[p].at # "value" /\ prod'[p].at \notin {"value", "publish"}
  BY <1>1, <1>2
<1> QED
  BY <1>1, <1>6, <1>8, <1>9, <1>10, <1>11, <1>12, <1>13, <1>14, <1>15, <1>16, IndexOnly

\* A step that keeps the index as it is.
LEMMA IndexIsSame ==
  ASSUME IInv, NEW p \in Producer, OnlyProd(p),
         UNCHANGED <<headers, entries, tailBlock, headIndex, cons, taken>>,
         \A q \in Producer : q # p => tailIndex'[q] = tailIndex[q]
  PROVE  /\ Moves(p) /\ SameBlocks(p) /\ IndexStep(p) /\ Ring(p)'
         /\ \A q, e : Key(q, e)' = Key(q, e) /\ Value(q, e)' = Value(q, e)
         /\ N(p)' = N(p) /\ \A j : Slot(p, j)' = Slot(p, j)
<1>1. ASSUME NEW q \in Producer PROVE SameIndex(q)
  BY DEF SameIndex
<1>2. Moves(p)
  BY <1>1 DEF Moves, OnlyProd, SameProducer
<1>3. \A q, e : Key(q, e)' = Key(q, e) /\ Value(q, e)' = Value(q, e)
  BY DEF Key, Value
<1>4. SameBlocks(p)
  BY <1>3 DEF SameBlocks
<1>5. IndexStep(p)
  BY <1>3, KeysKept
<1>6. Ring(p)' /\ N(p)' = N(p) /\ \A j : Slot(p, j)' = Slot(p, j)
  BY RingSame DEF IInv, ElementInv
<1> QED
  BY <1>2, <1>3, <1>4, <1>5, <1>6

\* And what is installed.
LEMMA InstalledKept ==
  ASSUME IInv, NEW p \in Producer, Moves(p), UNCHANGED entries, Newest(p)' = Newest(p)
  PROVE  Installed(p)'
<1>1. \A e : Key(p, e)' = Key(p, e) /\ Value(p, e)' = Value(p, e)
  BY DEF Key, Value
<1>2. Installed(p)
  BY DEF IInv, ElementInv
<1>3. ASSUME NEW i \in Nat PROVE Todo(p, i)' => Todo(p, i)
  BY MovesTodo DEF SameTodo
<1> QED
  BY <1>1, <1>2, <1>3 DEF Installed

\* requisition_block finds block b.
Gets(p, b) ==
  /\ prod[p].at = "requisition"
  /\ pgoto(p, [at |-> "value", entry |-> prod[p].entry, block |-> b])
  /\ elementsCompletelyDequeued' = [elementsCompletelyDequeued EXCEPT ![b] = 0]
  /\ made' \in 0 .. MaxBlock /\ made <= made' /\ freeBlocks' \subseteq freeBlocks
  /\ b \in 1 .. made' /\ b \notin freeBlocks' /\ (b > made \/ b \in freeBlocks)
  /\ UNCHANGED <<tailIndex, headIndex, tailBlock, headers, entries, elements, cons, taken>>

\* Nobody else has the block.
LEMMA GetStep ==
  ASSUME IInv, CountInv', NEW p \in Producer, NEW b, Gets(p, b)
  PROVE  IInv'
<1> USE DEF IInv, ElementInv
<1>1. /\ UNCHANGED <<tailIndex, headIndex, tailBlock, headers, entries, elements, cons, taken>>
      /\ prod[p].at = "requisition"
  BY DEF Gets
<1>2. OnlyProd(p) /\ prod'[p] = [at |-> "value", entry |-> prod[p].entry, block |-> b]
  BY GoesTo DEF Gets
<1>3. /\ Moves(p) /\ SameBlocks(p) /\ IndexStep(p) /\ Ring(p)'
      /\ \A q, e : Key(q, e)' = Key(q, e) /\ Value(q, e)' = Value(q, e)
      /\ N(p)' = N(p) /\ \A j : Slot(p, j)' = Slot(p, j)
  BY <1>1, <1>2, IndexIsSame
<1>4. /\ made \in Nat /\ made' \in Nat /\ made <= made' /\ freeBlocks' \subseteq freeBlocks
      /\ b \in Nat /\ b <= made' /\ b >= 1 /\ b \notin freeBlocks' /\ (b > made \/ b \in freeBlocks)
      /\ freeBlocks \subseteq 1 .. made /\ b \in Block
  BY MadeBlocks, ImplicitProducerAssumption DEF Gets, ElementTypes, Block
<1>5. /\ elementsCompletelyDequeued' \in [Block -> Nat] /\ elementsCompletelyDequeued'[b] = 0
      /\ \A v \in Block : v # b => elementsCompletelyDequeued'[v] = elementsCompletelyDequeued[v]
  BY <1>4 DEF Gets, ElementTypes
<1>6. ElementTypes'
  <2>1. freeBlocks' \subseteq 1 .. made' /\ made' \in 0 .. MaxBlock
    BY <1>4 DEF Gets
  <2> QED
    BY <1>1, <1>2, <1>5, <2>1 DEF ElementTypes, OnlyProd
<1>7. Top(p)' = Top(p) /\ Newest(p)' = Newest(p)
  BY <1>1, <1>2 DEF Top, Newest
<1>8. Window(p)'
  <2>1. \A e : (Unused(p, e)' <=> Unused(p, e)) /\ (Early(p, e)' <=> Early(p, e))
    BY <1>1, <1>2, <1>3, <1>7 DEF Unused, Early
  <2>2. Window(p)
    OBVIOUS
  <2> QED
    BY <1>2, <1>3, <1>7, <2>1, <2>2 DEF Window
<1>9. Phase(p)'
  <2>1. Phase(p)
    OBVIOUS
  <2>2. prod'[p].entry = Slot(p, 0)' /\ Value(p, Slot(p, 0))' \notin Block /\ tailIndex[p] % BLOCK_SIZE = 0
    BY <1>1, <1>2, <1>3, <2>1 DEF Phase
  <2> QED
    BY <1>1, <1>2, <2>2 DEF Phase
<1>10. Installed(p)'
  BY <1>1, <1>3, <1>7, InstalledKept
<1>11. Blocks
  OBVIOUS
<1>12. ASSUME NEW q \in Producer, prod[q].at = "value" PROVE prod[q].block # b /\ prod[q].block \in Block
  BY <1>4, <1>11, <1>12, MadeBlocks DEF Blocks
<1>13. ASSUME NEW v, v # b PROVE Reserved(v)' => Reserved(v)
  BY <1>2, <1>13 DEF Reserved, OnlyProd
<1>14. ASSUME NEW q \in Producer PROVE Entries(q)'
  <2>1. ASSUME NEW f \in 1 .. Len(entries'[q]), Value(q, f)' \in Block PROVE Holds(q, f)' /\ Alone(q, f)'
    <3>1. f \in 1 .. Len(entries[q]) /\ Value(q, f) \in Block
      BY <2>1, <1>3, SameBlocksAll
    <3>2. Alone(q, f)
      BY <3>1 DEF Entries
    <3>3. PICK v \in Block : v = Value(q, f) /\ v = Value(q, f)'
      BY <1>3, <3>1
    <3>4. v <= made /\ v \notin freeBlocks /\ v \in Nat
      BY <3>2, <3>3, MadeBlocks DEF Alone
    <3>5. v # b /\ v <= made' /\ v \notin freeBlocks'
      BY <1>4, <3>4
    <3>6. ~Reserved(v)'
      BY <1>13, <3>2, <3>3, <3>5 DEF Alone
    <3>7. prod'[q].at = "publish" => prod[q].at = "publish"
      BY <1>2 DEF OnlyProd
    <3>8. /\ elementsCompletelyDequeued'[v] = elementsCompletelyDequeued[v] /\ elements'[v] = elements[v]
          /\ tailIndex'[q] = tailIndex[q]
      BY <1>1, <1>5, <3>5
    <3> QED
      BY <1>3, <2>1, <3>3, <3>5, <3>6, <3>7, <3>8, EntryKept
  <2> QED
    BY <2>1 DEF Entries
<1>15. Blocks'
  <2>1. \A x, v : Returned(x, v)' <=> Returned(x, v)
    BY <1>3, MovesTodo
  <2>2. \A x \in Consumer : ~Returned(x, b)
    BY <1>4, <1>11 DEF Blocks, Returned
  <2>3. ASSUME NEW q \in Producer, prod'[q].at = "value"
        PROVE  /\ prod'[q].block \in 1 .. made' /\ prod'[q].block \notin freeBlocks'
               /\ elementsCompletelyDequeued'[prod'[q].block] = 0
               /\ \A r \in Producer : prod'[r].at = "value" /\ prod'[r].block = prod'[q].block => r = q
               /\ \A x \in Consumer : ~Returned(x, prod'[q].block)
    <3>1. CASE q = p
      <4>1. ASSUME NEW r \in Producer, r # p, prod'[r].at = "value" PROVE prod'[r].block # b
        BY <1>2, <1>12, <4>1 DEF OnlyProd
      <4> QED
        BY <1>2, <1>4, <1>5, <2>2, <3>1, <4>1
    <3>2. CASE q # p
      <4>1. prod'[q] = prod[q] /\ prod[q].at = "value"
        BY <1>2, <2>3, <3>2 DEF OnlyProd
      <4>2. PICK v \in Block : v = prod[q].block /\ v # b
        BY <1>12, <4>1
      <4>3. /\ v \in 1 .. made /\ v \notin freeBlocks
            /\ elementsCompletelyDequeued[v] = 0
            /\ \A r \in Producer : prod[r].at = "value" /\ prod[r].block = v => r = q
            /\ \A x \in Consumer : ~Returned(x, v)
        BY <1>11, <4>1, <4>2 DEF Blocks
      <4>4. ASSUME NEW r \in Producer, prod'[r].at = "value", prod'[r].block = v PROVE r = q
        <5>1. CASE r = p
          BY <1>2, <4>2, <4>4, <5>1
        <5>2. CASE r # p
          BY <1>2, <4>3, <4>4, <5>2 DEF OnlyProd
        <5> QED
          BY <5>1, <5>2
      <4> QED
        BY <1>4, <1>5, <4>1, <4>2, <4>3, <4>4
    <3> QED
      BY <3>1, <3>2
  <2>4. ASSUME NEW x \in Consumer, cons[x].at = "free"
        PROVE  /\ cons[x].block \in 1 .. made' /\ cons[x].block \notin freeBlocks'
               /\ \A d \in Consumer : Returned(d, cons[x].block) => d = x
    BY <1>4, <1>11, <2>4 DEF Blocks
  <2>5. ASSUME NEW q \in Producer, prod'[q].at = "value" PROVE \A x \in Consumer : ~Returned(x, prod[q].block)'
    <3>1. PICK v : v = prod'[q].block
      OBVIOUS
    <3>2. \A x \in Consumer : ~Returned(x, v)'
      BY <2>1, <2>3, <2>5, <3>1
    <3> QED
      BY <3>1, <3>2
  <2>6. ASSUME NEW x \in Consumer, cons'[x].at = "free"
        PROVE  \A d \in Consumer : Returned(d, cons[x].block)' => d = x
    <3>1. PICK v : v = cons[x].block /\ v = cons'[x].block
      BY <1>1
    <3>2. \A d \in Consumer : Returned(d, v)' => d = x
      BY <1>1, <2>1, <2>4, <2>6, <3>1
    <3> QED
      BY <3>1, <3>2
  <2> QED
    BY <1>1, <2>3, <2>4, <2>5, <2>6 DEF Blocks
<1> QED
  BY <1>3, <1>6, <1>8, <1>9, <1>10, <1>14, <1>15, ProduceStep DEF SameBlocks

\* requisition_block
LEMMA RequisitionStep ==
  ASSUME IInv, CountInv', NEW p \in Producer, requisition_block(p)
  PROVE  IInv'
<1>0. /\ UNCHANGED <<tailIndex, headIndex, tailBlock, elements, cons, taken>> /\ prod[p].at = "requisition"
  BY DEF requisition_block, countVars
<1>1. /\ made \in Nat /\ made \in 0 .. MaxBlock /\ freeBlocks \subseteq 1 .. made
      /\ MaxBlock \in Nat /\ initialBlockPoolSize \in Nat /\ initialBlockPoolSize <= MaxBlock
  BY ImplicitProducerAssumption DEF IInv, ElementInv, ElementTypes
<1>2. CASE /\ made < initialBlockPoolSize \/ (freeBlocks = {} /\ made < MaxBlock)
           /\ made' = made + 1
           /\ pgoto(p, [at |-> "value", entry |-> prod[p].entry, block |-> made + 1])
           /\ elementsCompletelyDequeued' = [elementsCompletelyDequeued EXCEPT ![made + 1] = 0]
           /\ UNCHANGED <<headers, entries, freeBlocks>>
  <2>1. PICK b : /\ b = made + 1
                 /\ pgoto(p, [at |-> "value", entry |-> prod[p].entry, block |-> b])
                 /\ elementsCompletelyDequeued' = [elementsCompletelyDequeued EXCEPT ![b] = 0]
    BY <1>2, Zenon
  <2>2. /\ made' \in 0 .. MaxBlock /\ made <= made' /\ b \in 1 .. made' /\ b > made
        /\ b \notin freeBlocks' /\ freeBlocks' \subseteq freeBlocks
    BY <1>1, <1>2, <2>1
  <2>3. Gets(p, b)
    BY <1>0, <1>2, <2>1, <2>2 DEF Gets
  <2> QED
    BY <2>3, GetStep
<1>3. CASE /\ made >= initialBlockPoolSize
           /\ \E b \in freeBlocks :
                /\ freeBlocks' = freeBlocks \ {b}
                /\ pgoto(p, [at |-> "value", entry |-> prod[p].entry, block |-> b])
                /\ elementsCompletelyDequeued' = [elementsCompletelyDequeued EXCEPT ![b] = 0]
           /\ UNCHANGED <<headers, entries, made>>
  <2>1. PICK b \in freeBlocks :
                /\ freeBlocks' = freeBlocks \ {b}
                /\ pgoto(p, [at |-> "value", entry |-> prod[p].entry, block |-> b])
                /\ elementsCompletelyDequeued' = [elementsCompletelyDequeued EXCEPT ![b] = 0]
    BY <1>3
  <2>2. /\ made' = made /\ made' \in 0 .. MaxBlock /\ made <= made' /\ b \in 1 .. made' /\ b \in freeBlocks
        /\ b \notin freeBlocks' /\ freeBlocks' \subseteq freeBlocks
    BY <1>1, <1>3, <2>1
  <2>3. UNCHANGED <<headers, entries>>
    BY <1>3
  <2>4. Gets(p, b)
    BY <1>0, <2>1, <2>2, <2>3 DEF Gets
  <2> QED
    BY <2>4, GetStep
<1>4. CASE /\ made = MaxBlock /\ freeBlocks = {}
           /\ headers' = [headers EXCEPT ![p][Len(headers[p])].tail =
                            (@ - 1) % Len(Last(headers[p]).index)]
           /\ entries' = [entries EXCEPT ![p][prod[p].entry].value = 0]
           /\ pgoto(p, Idle)
           /\ UNCHANGED <<elementsCompletelyDequeued, made, freeBlocks>>
  <2>1. Last(headers[p]) = Tab(p)
    BY TableFacts
  <2>2. SetsTail(p, (Tab(p).tail - 1) % N(p))
    BY <1>4, <2>1 DEF SetsTail, N, Tab
  <2>3. StoresValue(p, prod[p].entry, 0)
    BY <1>4 DEF StoresValue
  <2>4. Rewinds(p)
    BY <1>0, <1>4, <2>2, <2>3 DEF Rewinds
  <2> QED
    BY <2>4, RewindStep
<1> QED
  BY <1>2, <1>3, <1>4 DEF requisition_block

\* value.store: the block is installed.
LEMMA ValueStep ==
  ASSUME IInv, CountInv', NEW p \in Producer, value(p)
  PROVE  IInv'
<1> USE DEF IInv, ElementInv
<1>1. /\ UNCHANGED <<tailIndex, headIndex, headers, elements, elementsCompletelyDequeued, made, freeBlocks,
                     cons, taken>>
      /\ prod[p].at = "value" /\ pgoto(p, [at |-> "construct"])
  BY DEF value, countVars, blockVars
<1>2. OnlyProd(p) /\ prod'[p] = [at |-> "construct"]
  BY <1>1, GoesTo
<1>3. PICK n \in Nat, k \in Nat : n = N(p) /\ n > 1 /\ k = tailIndex[p] /\ k % BLOCK_SIZE = 0
  BY <1>1, TableFacts, TopFacts DEF Phase
<1>4. Blocks
  OBVIOUS
<1>5. PICK b \in Block : b = prod[p].block
  BY <1>1, <1>4, MadeBlocks DEF Blocks
<1>6. /\ b <= made /\ b \notin freeBlocks /\ elementsCompletelyDequeued[b] = 0
      /\ \A q \in Producer : prod[q].at = "value" /\ prod[q].block = b => q = p
      /\ \A x \in Consumer : ~Returned(x, b)
  BY <1>1, <1>4, <1>5, MadeBlocks DEF Blocks
<1>7. Reserved(b)
  BY <1>1, <1>5, Zenon DEF Reserved
<1>8. PICK e \in 1 .. Len(entries[p]) : e = Slot(p, 0) /\ e = prod[p].entry /\ Value(p, e) \notin Block
  <2>1. 0 \in 0 .. N(p) - 1
    BY <1>3
  <2> QED
    BY <1>1, <2>1, SlotFacts DEF Phase
<1>9. /\ entries' \in [Producer -> Seq(EntryType)]
      /\ \A q \in Producer : Len(entries'[q]) = Len(entries[q])
      /\ \A q \in Producer : q # p => entries'[q] = entries[q]
      /\ Value(p, e)' = b /\ \A f \in 1 .. Len(entries[p]) : Key(p, f)' = Key(p, f)
      /\ \A f \in 1 .. Len(entries[p]) : f # e => Value(p, f)' = Value(p, f)
  <2>1. StoresValue(p, e, b)
    BY <1>5, <1>8 DEF value, StoresValue
  <2>2. b \in Int
    BY MadeBlocks
  <2> QED
    BY <2>1, <2>2, StoreValue
<1>10. /\ tailBlock' \in [Producer -> Nat] /\ tailBlock'[p] = b
       /\ \A q \in Producer : q # p => tailBlock'[q] = tailBlock[q]
  <2>1. b \in Nat /\ tailBlock \in [Producer -> Nat] /\ tailBlock' = [tailBlock EXCEPT ![p] = b]
    BY <1>5, MadeBlocks DEF value, ElementTypes
  <2> QED
    BY <2>1
<1>11. ElementTypes'
  BY <1>1, <1>2, <1>9, <1>10 DEF ElementTypes, OnlyProd
<1>12. Moves(p)
  BY <1>1, <1>2, <1>9, <1>10 DEF Moves, OnlyProd, SameIndex, SameProducer
<1>13. N(p)' = N(p) /\ (\A j : Slot(p, j)' = Slot(p, j)) /\ Ring(p)'
  BY <1>1, <1>9, RingSame
<1>14. IndexStep(p)
  BY <1>1, <1>9, KeysKept
<1>15. ASSUME NEW q \in Producer, NEW f \in 1 .. Len(entries[q])
       PROVE  Key(q, f)' = Key(q, f) /\ (~(q = p /\ f = e) => Value(q, f)' = Value(q, f))
  BY <1>9 DEF Key, Value
<1>16. Top(p) = k /\ Top(p)' = k /\ Newest(p) = k - BLOCK_SIZE /\ Newest(p)' = k
  BY <1>1, <1>2, <1>3, TopFacts DEF Top, Newest
<1>17. Key(p, e) = k
  BY <1>8, <1>16 DEF Window
<1>18. Mult(k) /\ k # INVALID_BLOCK_BASE
  <2>1. Mult(k)
    BY <1>3, TopFacts
  <2> QED
    BY <2>1, MultFacts
<1>19. Window(p)'
  <2>1. ASSUME NEW f \in 1 .. Len(entries[p]) PROVE Unused(p, f) => Unused(p, f)'
    BY <1>9, <1>17, <1>18 DEF Unused
  <2>2. \A f : ~Early(p, f)
    BY <1>3, <1>16 DEF Early
  <2>3. ASSUME NEW j \in 0 .. n - 1
        PROVE  Unused(p, Slot(p, j))' \/ Key(p, Slot(p, j))' = Top(p)' - j * BLOCK_SIZE
    <3>1. PICK f \in 1 .. Len(entries[p]) : f = Slot(p, j) /\ f = Slot(p, j)'
      BY <1>3, <1>13, SlotFacts
    <3>2. Unused(p, f) \/ Key(p, f) = Top(p) - j * BLOCK_SIZE
      BY <1>3, <2>2, <3>1 DEF Window
    <3>3. Unused(p, f)' \/ Key(p, f)' = Top(p)' - j * BLOCK_SIZE
      BY <1>9, <1>16, <2>1, <3>2
    <3> QED
      BY <3>1, <3>3
  <2>4. Key(p, Slot(p, 0))' = Top(p)'
    <3>1. e = Slot(p, 0)' /\ Key(p, e)' = k
      BY <1>8, <1>9, <1>13, <1>17
    <3> QED
      BY <1>16, <3>1
  <2> QED
    BY <1>2, <1>3, <1>13, <2>3, <2>4 DEF Window
<1>20. Phase(p)'
  <2>1. Value(p, Slot(p, 0))' = tailBlock'[p] /\ tailBlock'[p] \in Block
    <3>1. e = Slot(p, 0)'
      BY <1>8, <1>13
    <3> QED
      BY <1>9, <1>10, <3>1
  <2> QED
    BY <1>2, <2>1 DEF Phase
<1>21. Installed(p)'
  <2>1. ASSUME NEW i \in Nat, Base(i) <= k, Todo(p, i)'
        PROVE  \E f \in 1 .. Len(entries'[p]) : Key(p, f)' = Base(i) /\ Value(p, f)' \in Block
    <3>1. CASE Base(i) <= Newest(p)
      <4>1. Todo(p, i)
        BY <1>12, <2>1, MovesTodo DEF SameTodo
      <4>2. PICK f \in 1 .. Len(entries[p]) : Key(p, f) = Base(i) /\ Value(p, f) \in Block
        BY <3>1, <4>1 DEF Installed
      <4>3. f # e
        BY <1>8, <4>2
      <4> QED
        BY <1>9, <4>2, <4>3
    <3>2. CASE ~(Base(i) <= Newest(p))
      <4>1. PICK a \in Int : a = Base(i) /\ Mult(a)
        BY BaseMult DEF Mult
      <4>2. a <= k /\ a > k - BLOCK_SIZE
        BY <1>16, <2>1, <3>2, <4>1, BlockSize
      <4>3. a < k => a + BLOCK_SIZE <= k
        BY <1>18, <4>1, MultApart
      <4>4. a = k
        BY <4>2, <4>3, BlockSize
      <4> QED
        BY <1>9, <1>17, <4>1, <4>4
    <3> QED
      BY <3>1, <3>2
  <2> QED
    BY <1>16, <2>1 DEF Installed
<1>22. \A x, v : Returned(x, v)' <=> Returned(x, v)
  BY <1>12, MovesTodo
<1>23. ASSUME NEW v PROVE Reserved(v)' <=> Reserved(v) /\ v # b
  <2>1. ASSUME NEW q \in Producer, prod'[q].at = "value", prod'[q].block = v
        PROVE  prod[q].at = "value" /\ prod[q].block = v /\ q # p
    BY <1>2, <2>1 DEF OnlyProd
  <2>2. ASSUME NEW q \in Producer, prod[q].at = "value", prod[q].block = v, v # b
        PROVE  prod'[q].at = "value" /\ prod'[q].block = v
    BY <1>2, <1>5, <2>2 DEF OnlyProd
  <2>3. ASSUME Reserved(v)' PROVE Reserved(v) /\ v # b
    BY <1>6, <2>1, <2>3 DEF Reserved
  <2>4. ASSUME Reserved(v), v # b PROVE Reserved(v)'
    BY <2>2, <2>4 DEF Reserved
  <2> QED
    BY <2>3, <2>4
<1>24. ASSUME NEW q \in Producer, NEW f \in 1 .. Len(entries[q]), Value(q, f) \in Block PROVE Value(q, f) # b
  BY <1>7, <1>24 DEF Entries, Alone
<1>25. ASSUME NEW q \in Producer, NEW f \in 1 .. Len(entries[q]), Value(q, f)' \in Block, ~(q = p /\ f = e)
       PROVE  Holds(q, f)' /\ Alone(q, f)'
  <2>1. Value(q, f)' = Value(q, f) /\ Key(q, f)' = Key(q, f)
    BY <1>15, <1>25
  <2>2. Holds(q, f) /\ Alone(q, f)
    BY <1>25, <2>1 DEF Entries
  <2>3. prod'[q].at = "publish" => prod[q].at = "publish"
    BY <1>2 DEF OnlyProd
  <2>4. Holds(q, f)'
    BY <1>1, <1>12, <2>1, <2>2, <2>3, MovesTodo, HoldsSame
  <2>5. PICK v \in Block : v = Value(q, f) /\ v = Value(q, f)' /\ v # b
    BY <1>24, <1>25, <2>1
  <2>6. v <= made' /\ v \notin freeBlocks' /\ ~Reserved(v)' /\ \A x \in Consumer : ~Returned(x, v)'
    BY <1>1, <1>22, <1>23, <2>2, <2>5 DEF Alone
  <2>7. ASSUME NEW r \in Producer, NEW g \in 1 .. Len(entries'[r]), Value(r, g)' = v
        PROVE  r = q /\ g = f
    <3>1. g \in 1 .. Len(entries[r]) /\ ~(r = p /\ g = e)
      BY <1>9, <2>5, <2>7
    <3>2. Value(r, g) = v
      BY <1>15, <2>7, <3>1
    <3> QED
      BY <2>2, <2>5, <3>1, <3>2 DEF Alone
  <2>8. Alone(q, f)'
    BY <2>5, <2>6, <2>7 DEF Alone
  <2> QED
    BY <2>4, <2>8
<1>26. Holds(p, e)'
  <2>1. Finished(p, k)' = {}
    <3>1. headIndex'[p] \in Nat /\ headIndex'[p] <= k
      BY <1>1, <1>3, TopFacts
    <3>2. \A i \in k .. k + BLOCK_SIZE - 1 : Todo(p, i)'
      BY <3>1, BlockSize DEF Todo
    <3> QED
      BY <3>2 DEF Finished
  <2>2. Cardinality({}) = 0
    BY FS_EmptySet
  <2>3. ASSUME NEW i \in k .. k + BLOCK_SIZE - 1
        PROVE  ~(i < tailIndex'[p] \/ (i = tailIndex'[p] /\ prod'[p].at = "publish"))
    <3>1. i >= k /\ i \in Int
      BY BlockSize
    <3> QED
      BY <1>1, <1>2, <1>3, <3>1
  <2>4. Key(p, e)' = k /\ Value(p, e)' = b
    BY <1>9, <1>17
  <2>5. elementsCompletelyDequeued'[b] = Cardinality(Finished(p, k)')
    BY <1>1, <1>6, <2>1, <2>2
  <2>6. k # INVALID_BLOCK_BASE
    BY <1>18
  <2> QED
    BY <2>3, <2>4, <2>5, <2>6 DEF Holds
<1>27. Alone(p, e)'
  <2>1. b <= made' /\ b \notin freeBlocks' /\ ~Reserved(b)' /\ \A x \in Consumer : ~Returned(x, b)'
    BY <1>1, <1>6, <1>22, <1>23
  <2>2. ASSUME NEW r \in Producer, NEW g \in 1 .. Len(entries'[r]), Value(r, g)' = b
        PROVE  r = p /\ g = e
    BY <1>9, <1>15, <1>24, <2>2
  <2>3. Value(p, e)' = b
    BY <1>9
  <2> QED
    BY <2>1, <2>2, <2>3 DEF Alone
<1>28. ASSUME NEW q \in Producer PROVE Entries(q)'
  <2>1. ASSUME NEW f \in 1 .. Len(entries[q]), Value(q, f)' \in Block PROVE Holds(q, f)' /\ Alone(q, f)'
    <3>1. CASE q = p /\ f = e
      BY <1>26, <1>27, <3>1
    <3>2. CASE ~(q = p /\ f = e)
      BY <1>25, <2>1, <3>2
    <3> QED
      BY <3>1, <3>2
  <2> QED
    BY <1>9, <2>1 DEF Entries
<1>29. Blocks'
  <2>1. ASSUME NEW q \in Producer, prod'[q].at = "value" PROVE prod'[q] = prod[q]
    BY <1>2, <2>1 DEF OnlyProd
  <2> QED
    BY <1>1, <1>4, <1>22, <2>1 DEF Blocks
<1>30. \A f \in 1 .. Len(entries[p]) : Value(p, f) \in Block => Value(p, f)' = Value(p, f)
  BY <1>8, <1>9
<1> QED
  BY <1>11, <1>12, <1>13, <1>14, <1>19, <1>20, <1>21, <1>28, <1>29, <1>30, ProduceStep

\* The producer is between an element and the next.
LEMMA InBlock ==
  ASSUME IInv, NEW p \in Producer, prod[p].at \in {"construct", "publish"}
  PROVE  \E b \in Block, e \in 1 .. Len(entries[p]), k \in Nat :
           /\ k = tailIndex[p] /\ b = tailBlock[p] /\ e = Slot(p, 0)
           /\ Value(p, e) = b /\ Key(p, e) = Base(k) /\ Top(p) = Base(k) /\ Newest(p) = Base(k)
           /\ Holds(p, e) /\ Alone(p, e)
<1> USE DEF IInv, ElementInv
<1>1. PICK k \in Nat : k = tailIndex[p]
  BY TopFacts
<1>2. Top(p) = Base(k) /\ Newest(p) = Base(k)
  BY <1>1 DEF Top, Newest
<1>3. PICK e \in 1 .. Len(entries[p]) : e = Slot(p, 0)
  <2>1. 0 \in 0 .. N(p) - 1
    BY TableFacts
  <2> QED
    BY <2>1, SlotFacts
<1>4. Value(p, e) = tailBlock[p] /\ tailBlock[p] \in Block
  BY <1>3 DEF Phase
<1>5. Base(k) >= 0
  <2>1. k \in Int /\ k >= 0
    OBVIOUS
  <2> QED
    BY <2>1, BaseFacts
<1>6. Key(p, e) = Base(k)
  BY <1>2, <1>3, <1>5 DEF Window
<1>7. Holds(p, e) /\ Alone(p, e)
  BY <1>4 DEF Entries
<1> QED
  BY <1>1, <1>2, <1>3, <1>4, <1>6, <1>7

\* construct: nobody has yet an index for the slot.
LEMMA ConstructStep ==
  ASSUME IInv, CountInv', NEW p \in Producer, construct(p)
  PROVE  IInv'
<1> USE DEF IInv, ElementInv
<1>1. /\ UNCHANGED <<tailIndex, headIndex, tailBlock, headers, entries, elementsCompletelyDequeued, made,
                     freeBlocks, cons, taken>>
      /\ prod[p].at = "construct" /\ pgoto(p, [at |-> "publish"])
  BY DEF construct, countVars, indexVars
<1>2. OnlyProd(p) /\ prod'[p] = [at |-> "publish"]
  BY <1>1, GoesTo
<1>3. /\ Moves(p) /\ SameBlocks(p) /\ IndexStep(p) /\ Ring(p)'
      /\ \A q, f : Key(q, f)' = Key(q, f) /\ Value(q, f)' = Value(q, f)
      /\ N(p)' = N(p) /\ \A j : Slot(p, j)' = Slot(p, j)
  BY <1>1, <1>2, IndexIsSame
<1>4. PICK b \in Block, e \in 1 .. Len(entries[p]), k \in Nat :
           /\ k = tailIndex[p] /\ b = tailBlock[p] /\ e = Slot(p, 0)
           /\ Value(p, e) = b /\ Key(p, e) = Base(k) /\ Top(p) = Base(k) /\ Newest(p) = Base(k)
           /\ Holds(p, e) /\ Alone(p, e)
  BY <1>1, InBlock
<1>5. PICK m \in 0 .. BLOCK_SIZE - 1 : m = k % BLOCK_SIZE
  BY BaseFacts
<1>6. PICK z : z = <<p, k>>
  OBVIOUS
<1>7. elements' = [elements EXCEPT ![b][m] = z]
  BY <1>4, <1>5, <1>6 DEF construct
<1>8. /\ \A v \in Block : v # b => elements'[v] = elements[v]
      /\ \A x \in 0 .. BLOCK_SIZE - 1 : x # m => elements'[b][x] = elements[b][x]
      /\ elements'[b][m] = z
      /\ elements' = [v \in Block |-> [x \in 0 .. BLOCK_SIZE - 1 |-> elements'[v][x]]]
  <2>1. elements = [v \in Block |-> [x \in 0 .. BLOCK_SIZE - 1 |-> elements[v][x]]]
    BY DEF ElementTypes
  <2>2. /\ \A v \in Block : v # b => elements'[v] = elements[v]
        /\ \A x \in 0 .. BLOCK_SIZE - 1 : x # m => elements'[b][x] = elements[b][x]
        /\ elements' = [v \in Block |-> [x \in 0 .. BLOCK_SIZE - 1 |-> elements'[v][x]]]
    BY <1>7, <2>1
  <2>3. elements'[b] = [elements[b] EXCEPT ![m] = z]
    BY <1>7, <2>1
  <2>4. elements[b] = [x \in 0 .. BLOCK_SIZE - 1 |-> elements[b][x]]
    BY <2>1
  <2>5. elements'[b][m] = z
    BY <2>3, <2>4
  <2> QED
    BY <2>2, <2>5
<1>9. ElementTypes'
  BY <1>1, <1>2, <1>8 DEF ElementTypes, OnlyProd
<1>10. Top(p)' = Top(p) /\ Newest(p)' = Newest(p)
  BY <1>1, <1>2 DEF Top, Newest
<1>11. Window(p)'
  <2>1. \A f : (Unused(p, f)' <=> Unused(p, f)) /\ (Early(p, f)' <=> Early(p, f))
    BY <1>1, <1>2, <1>3, <1>10 DEF Unused, Early
  <2>2. Window(p)
    OBVIOUS
  <2> QED
    BY <1>2, <1>3, <1>10, <2>1, <2>2 DEF Window
<1>12. Phase(p)'
  <2>1. Value(p, Slot(p, 0))' = tailBlock'[p] /\ tailBlock'[p] \in Block
    BY <1>1, <1>3, <1>4
  <2> QED
    BY <1>2, <2>1 DEF Phase
<1>13. Installed(p)'
  BY <1>1, <1>3, <1>10, InstalledKept
<1>14. \A v : Reserved(v)' <=> Reserved(v)
  BY <1>1, <1>2 DEF Reserved, OnlyProd
<1>15. \A x, v : Returned(x, v)' <=> Returned(x, v)
  BY <1>3, MovesTodo
<1>16. ASSUME NEW q \in Producer, NEW f \in 1 .. Len(entries'[q]), Value(q, f)' \in Block
       PROVE  Holds(q, f)' /\ Alone(q, f)'
  <2>1. f \in 1 .. Len(entries[q]) /\ Value(q, f) \in Block
    BY <1>3, <1>16, SameBlocksAll
  <2>2. Holds(q, f) /\ Alone(q, f)
    BY <2>1 DEF Entries
  <2>3. PICK v \in Block : v = Value(q, f) /\ v = Value(q, f)'
    BY <1>3, <2>1
  <2>4. v <= made' /\ v \notin freeBlocks' /\ ~Reserved(v)'
    BY <1>1, <1>14, <2>2, <2>3 DEF Alone
  <2>5. Alone(q, f)'
    BY <1>3, <1>16, <2>3, <2>4, AloneKept
  <2>6. CASE q # p
    <3>1. v # b
      BY <1>4, <2>1, <2>3, <2>6 DEF Alone
    <3>2. prod'[q].at = "publish" => prod[q].at = "publish"
      BY <1>2, <2>6 DEF OnlyProd
    <3>3. elements'[v] = elements[v]
      BY <1>8, <3>1
    <3> QED
      BY <1>1, <1>3, <1>16, <2>3, <2>4, <3>2, <3>3, EntryKept
  <2>7. CASE q = p
    <3>1. PICK l \in Nat : l = Key(p, f) /\ Mult(l) /\ l = Key(p, f)'
      BY <1>3, <2>1, <2>2, <2>7, EntryKey, SlotFacts DEF Holds
    <3>2. Finished(p, l)' = Finished(p, l)
      BY <1>3, MovesTodo, FinishedSame
    <3>3. ASSUME NEW i \in l .. l + BLOCK_SIZE - 1,
                 i < k \/ i = k, Pending(p, i)'
          PROVE  elements'[v][i % BLOCK_SIZE] = <<p, i>>
      <4>1. i \in Int /\ Base(i) = l /\ i % BLOCK_SIZE = i - l /\ i % BLOCK_SIZE \in 0 .. BLOCK_SIZE - 1
        BY <3>1, BlockSize, BaseFacts, MultFacts
      <4>2. Pending(p, i)
        BY <1>3, <3>3, <4>1, MovesTodo DEF NoMore
      <4>3. CASE i = k
        <5>1. f = e
          BY <1>4, <2>1, <2>7, <3>1, <4>1, <4>3, EntriesDiffer
        <5>2. v = b /\ i % BLOCK_SIZE = m
          BY <1>4, <1>5, <2>3, <2>7, <4>3, <5>1
        <5> QED
          BY <1>6, <1>8, <4>3, <5>2
      <4>4. CASE i < k
        <5>1. elements[v][i % BLOCK_SIZE] = <<p, i>>
          BY <1>4, <2>2, <2>3, <2>7, <3>1, <3>3, <4>2, <4>4 DEF Holds
        <5>2. CASE v # b
          BY <1>8, <5>1, <5>2
        <5>3. CASE v = b
          <6>1. f = e
            <7>1. Value(p, f) = Value(p, e)
              BY <1>4, <2>3, <2>7, <5>3
            <7> QED
              BY <1>4, <2>1, <2>7, <7>1 DEF Alone
          <6>2. l = Base(k) /\ k \in Int
            <7>1. Key(p, e) = Base(k)
              BY <1>4
            <7>2. l = Key(p, e)
              BY <3>1, <6>1
            <7> QED
              BY <7>1, <7>2
          <6>3. k % BLOCK_SIZE = k - l
            BY <6>2, BaseFacts
          <6>4. PICK r \in 0 .. BLOCK_SIZE - 1 : r = i % BLOCK_SIZE
            BY <4>1
          <6>5. r = i - l /\ m = k - l
            BY <1>5, <4>1, <6>3, <6>4
          <6>6. r # m
            BY <4>1, <4>4, <6>2, <6>5
          <6> QED
            BY <1>8, <5>1, <5>3, <6>4, <6>6
        <5> QED
          BY <5>2, <5>3
      <4> QED
        BY <3>3, <4>3, <4>4
    <3>4. l # INVALID_BLOCK_BASE /\ elementsCompletelyDequeued'[v] = Cardinality(Finished(p, l)')
      BY <1>1, <2>2, <2>3, <2>7, <3>1, <3>2 DEF Holds
    <3>5. Holds(p, f)'
      BY <1>1, <1>4, <2>3, <2>7, <3>1, <3>3, <3>4 DEF Holds
    <3> QED
      BY <2>5, <2>7, <3>5
  <2> QED
    BY <2>6, <2>7
<1>17. ASSUME NEW q \in Producer PROVE Entries(q)'
  BY <1>16 DEF Entries
<1>18. Blocks'
  <2>1. ASSUME NEW q \in Producer, prod'[q].at = "value" PROVE prod'[q] = prod[q]
    BY <1>2, <2>1 DEF OnlyProd
  <2>2. Blocks
    OBVIOUS
  <2> QED
    BY <1>1, <1>15, <2>1, <2>2 DEF Blocks
<1> QED
  BY <1>3, <1>9, <1>11, <1>12, <1>13, <1>17, <1>18, ProduceStep DEF SameBlocks

\* publish: the element is there before tailIndex says so.
LEMMA PublishStep ==
  ASSUME IInv, CountInv', NEW p \in Producer, publish(p)
  PROVE  IInv'
<1> USE DEF IInv, ElementInv
<1>1. /\ UNCHANGED <<headIndex, tailBlock, headers, entries, elements, elementsCompletelyDequeued, made,
                     freeBlocks, cons, taken>>
      /\ prod[p].at = "publish" /\ pgoto(p, Idle)
  BY DEF publish, indexVars, blockVars
<1>2. OnlyProd(p) /\ prod'[p] = [at |-> "idle"]
  BY <1>1, GoesTo DEF Idle
<1>3. PICK b \in Block, e \in 1 .. Len(entries[p]), k \in Nat :
           /\ k = tailIndex[p] /\ b = tailBlock[p] /\ e = Slot(p, 0)
           /\ Value(p, e) = b /\ Key(p, e) = Base(k) /\ Top(p) = Base(k) /\ Newest(p) = Base(k)
           /\ Holds(p, e) /\ Alone(p, e)
  BY <1>1, InBlock
<1>4. tailIndex'[p] = k + 1 /\ \A q \in Producer : q # p => tailIndex'[q] = tailIndex[q]
  BY <1>3 DEF publish, CountInv, CountTypes
<1>5. /\ Moves(p) /\ SameBlocks(p) /\ IndexStep(p) /\ Ring(p)'
      /\ \A q, f : Key(q, f)' = Key(q, f) /\ Value(q, f)' = Value(q, f)
      /\ N(p)' = N(p) /\ \A j : Slot(p, j)' = Slot(p, j)
  BY <1>1, <1>2, <1>4, IndexIsSame
<1>6. ElementTypes'
  BY <1>1, <1>2 DEF ElementTypes, OnlyProd
<1>7. Top(p)' = Base(k) /\ Newest(p)' = Base(k)
  <2>1. (k + 1) - 1 = k
    OBVIOUS
  <2>2. Base(tailIndex'[p] - 1) = Base(k)
    BY <1>4, <2>1
  <2> QED
    BY <1>2, <2>2 DEF Top, Newest, Base
<1>8. Window(p)'
  <2>1. \A f : Unused(p, f)' <=> Unused(p, f)
    BY <1>5 DEF Unused
  <2>2. ASSUME NEW f, Early(p, f) PROVE FALSE
    <3>1. Base(k) < k /\ k % BLOCK_SIZE = 0
      BY <1>3, <2>2 DEF Early
    <3>2. k \in Int /\ k % BLOCK_SIZE = k - Base(k) /\ Base(k) \in Int
      BY BaseFacts
    <3> QED
      BY <3>1, <3>2
  <2>3. Window(p)
    OBVIOUS
  <2>4. Top(p)' = Top(p)
    BY <1>3, <1>7
  <2> QED
    BY <1>2, <1>5, <2>1, <2>2, <2>3, <2>4 DEF Window
<1>9. Phase(p)'
  <2>1. Value(p, Slot(p, 0))' = tailBlock'[p] /\ tailBlock'[p] \in Block
    BY <1>1, <1>3, <1>5
  <2> QED
    BY <1>2, <2>1 DEF Phase
<1>10. Installed(p)'
  <2>1. Newest(p)' = Newest(p)
    BY <1>3, <1>7
  <2> QED
    BY <1>1, <1>5, <2>1, InstalledKept
<1>11. \A v : Reserved(v)' <=> Reserved(v)
  BY <1>1, <1>2 DEF Reserved, OnlyProd
<1>12. \A x, v : Returned(x, v)' <=> Returned(x, v)
  BY <1>5, MovesTodo
<1>13. ASSUME NEW q \in Producer, NEW f \in 1 .. Len(entries'[q]), Value(q, f)' \in Block
       PROVE  Holds(q, f)' /\ Alone(q, f)'
  <2>1. f \in 1 .. Len(entries[q]) /\ Value(q, f) \in Block
    BY <1>5, <1>13, SameBlocksAll
  <2>2. Holds(q, f) /\ Alone(q, f)
    BY <2>1 DEF Entries
  <2>3. PICK v \in Block : v = Value(q, f) /\ v = Value(q, f)'
    BY <1>5, <2>1
  <2>4. v <= made' /\ v \notin freeBlocks' /\ ~Reserved(v)'
    BY <1>1, <1>11, <2>2, <2>3 DEF Alone
  <2>5. Alone(q, f)'
    BY <1>5, <1>13, <2>3, <2>4, AloneKept
  <2>6. CASE q # p
    <3>1. prod'[q].at = "publish" => prod[q].at = "publish"
      BY <1>2, <2>6 DEF OnlyProd
    <3> QED
      BY <1>1, <1>4, <1>5, <1>13, <2>3, <2>4, <2>6, <3>1, EntryKept
  <2>7. CASE q = p
    <3>1. PICK l \in Nat : l = Key(p, f) /\ l = Key(p, f)'
      BY <1>5, <2>1, <2>7, SlotFacts
    <3>2. Finished(p, l)' = Finished(p, l)
      BY <1>5, MovesTodo, FinishedSame
    <3>3. ASSUME NEW i \in l .. l + BLOCK_SIZE - 1, i < k + 1, Pending(p, i)'
          PROVE  elements'[v][i % BLOCK_SIZE] = <<p, i>>
      <4>1. i \in Int /\ (i < k \/ i = k)
        BY <3>3, BlockSize
      <4>2. Pending(p, i)
        BY <3>3, <4>1, <1>5, MovesTodo DEF NoMore
      <4>3. elements[v][i % BLOCK_SIZE] = <<p, i>>
        BY <1>1, <1>3, <2>2, <2>3, <2>7, <3>1, <4>1, <4>2 DEF Holds
      <4> QED
        BY <1>1, <4>3
    <3>4. l # INVALID_BLOCK_BASE /\ elementsCompletelyDequeued'[v] = Cardinality(Finished(p, l)')
      BY <1>1, <2>2, <2>3, <2>7, <3>1, <3>2 DEF Holds
    <3>5. Holds(p, f)'
      BY <1>2, <1>4, <2>3, <2>7, <3>1, <3>3, <3>4 DEF Holds
    <3> QED
      BY <2>5, <2>7, <3>5
  <2> QED
    BY <2>6, <2>7
<1>14. ASSUME NEW q \in Producer PROVE Entries(q)'
  BY <1>13 DEF Entries
<1>15. Blocks'
  <2>1. ASSUME NEW q \in Producer, prod'[q].at = "value" PROVE prod'[q] = prod[q]
    BY <1>2, <2>1 DEF OnlyProd
  <2>2. Blocks
    OBVIOUS
  <2> QED
    BY <1>1, <1>12, <2>1, <2>2 DEF Blocks
<1> QED
  BY <1>5, <1>6, <1>8, <1>9, <1>10, <1>14, <1>15, ProduceStep DEF SameBlocks

-----------------------------------------------------------------------------
(***************************************************************************)
(* ImplicitProducer, the elements: all steps                               *)
(***************************************************************************)

\* The search for an element, up to the claim on headIndex.
LEMMA SearchStep ==
  ASSUME IInv, CountInv', NEW c \in Consumer, Searches(c) \/ claim(c) \/ recheck(c) \/ giveup(c)
  PROVE  IInv'
<1>1. CountInv /\ cons = [d \in Consumer |-> cons[d]]
  BY DEF IInv, CountInv, CountTypes
<1>2. UNCHANGED <<tailIndex, headIndex, tailBlock, indexVars, blockVars, prod, taken>>
  BY DEF Searches, try_dequeue, loadTail, overcommit, check, claim, recheck, giveup, countVars
<1>3. /\ OnlyCons(c)
      /\ cons[c].at \in {"idle", "tail", "overcommit", "check", "count", "recheck", "giveup", "head"}
      /\ cons'[c].at \in {"idle", "tail", "overcommit", "check", "count", "recheck", "giveup", "head"}
  <2>1. CASE Searches(c)
    BY <1>1, <2>1, SearchCounts
  <2>2. CASE claim(c)
    <3>1. PICK r : cgoto(c, r) /\ r.at = "recheck"
      BY <2>2 DEF claim
    <3> QED
      BY <1>1, <2>2, <3>1, Goes DEF OnlyCons, claim
  <2>3. CASE recheck(c)
    <3>1. PICK r : cgoto(c, r) /\ r.at \in {"head", "giveup"}
      BY <2>3 DEF recheck
    <3> QED
      BY <1>1, <2>3, <3>1, Goes DEF OnlyCons, recheck
  <2>4. CASE giveup(c)
    <3>1. cons[c].rest \subseteq Producer /\ tryNext(c) /\ cons[c].at = "giveup"
      BY <1>1, <2>4 DEF giveup, CountInv, CountTypes, Asking
    <3> QED
      BY <1>1, <3>1, NextTry
  <2> QED
    BY <2>1, <2>2, <2>3, <2>4
<1> QED
  BY <1>2, <1>3, CalmStep

\* No step at all.
LEMMA NoStep ==
  ASSUME IInv, CountInv', UNCHANGED queueVars
  PROVE  IInv'
<1> USE DEF IInv, ElementInv
<1>1. /\ UNCHANGED <<tailIndex, headIndex, tailBlock, headers, entries, elements,
                     elementsCompletelyDequeued, made, freeBlocks, prod, cons, taken>>
      /\ \A x \in Consumer : cons'[x] = cons[x]
  BY DEF queueVars
<1>2. ElementTypes'
  BY <1>1 DEF ElementTypes
<1>3. /\ \A x, q, i : (Works(x, q, i)' <=> Works(x, q, i)) /\ (Unread(x, q, i)' <=> Unread(x, q, i))
      /\ \A x, b : Returned(x, b)' <=> Returned(x, b)
  BY <1>1 DEF Works, Unread, Returned
<1>4. ASSUME NEW q \in Producer PROVE NoMore(q) /\ SameTodo(q)
  BY <1>1, <1>3 DEF NoMore, SameTodo, Todo, Pending
<1>5. ASSUME NEW q \in Producer
      PROVE  SameIndex(q) /\ SameProducer(q) /\ Ring(q)' /\ Window(q)' /\ Phase(q)' /\ Installed(q)'
  BY <1>1, <1>4, IndexKept DEF indexVars
<1>6. ASSUME NEW q \in Producer PROVE Entries(q)'
  <2>1. ASSUME NEW e \in 1 .. Len(entries[q]), Value(q, e) \in Block PROVE Alone(q, e)'
    <3>1. Alone(q, e)
      BY <2>1 DEF Entries
    <3> QED
      BY <1>1, <3>1, AloneSame
  <2> QED
    BY <1>1, <1>4, <1>5, <2>1, EntriesSame
<1>7. Blocks'
  BY <1>1, BlocksSame
<1>8. ASSUME NEW d \in Consumer, cons'[d].at # "idle" PROVE Reading(d, cons[d].p)'
  <2>1. cons[d].at # "idle" /\ cons'[d] = cons[d]
    BY <1>1, <1>8
  <2>2. PICK q \in Producer : q = cons[d].p
    BY <2>1 DEF CountInv, CountTypes, Asking
  <2>3. Reading(d, q)
    BY <2>1, <2>2
  <2>4. PICK i : i = cons[d].index
    OBVIOUS
  <2>5. cons[d].at \in {"header", "htail", "hkey", "entry", "move", "empty"} =>
          \A x \in Consumer : Works(x, q, i)' => x = d
    BY <1>3, <2>3, <2>4 DEF Reading
  <2>6. ASSUME cons[d].at = "clear"
        PROVE  /\ Finished(q, Base(i))' = Finished(q, Base(i))
               /\ \A x \in Consumer : cons'[x].at = "clear" /\ cons'[x].block = cons[d].block => x = d
    <3>1. i \in Nat
      BY <2>3, <2>4, <2>6 DEF Reading
    <3>2. i \in Int
      BY <3>1
    <3>3. Base(i) \in Int
      BY <3>2, BaseFacts
    <3>4. PICK l \in Int : l = Base(i)
      BY <3>3
    <3>5. Finished(q, l)' = Finished(q, l)
      BY <1>4, FinishedSame
    <3> QED
      BY <1>1, <2>3, <2>6, <3>4, <3>5 DEF Reading
  <2>7. headIndex'[q] \in Nat /\ headIndex[q] <= headIndex'[q]
    BY <1>1, TopFacts
  <2>8. Reading(d, q)'
    BY <1>5, <2>1, <2>3, <2>4, <2>5, <2>6, <2>7, ReadingSame
  <2> QED
    BY <2>1, <2>2, <2>8
<1>9. DequeuedExact'
  BY <1>1 DEF DequeuedExact
<1> QED
  BY <1>1, <1>2, <1>5, <1>6, <1>7, <1>8, <1>9

\* Every step keeps the invariant.
LEMMA ElementNext == IInv /\ [QueueNext]_queueVars => IInv'
<1> SUFFICES ASSUME IInv, [QueueNext]_queueVars PROVE IInv'
  OBVIOUS
<1>1. CountInv'
  BY CountNext DEF IInv
<1>2. ASSUME NEW p \in Producer, Produces(p) PROVE IInv'
  BY <1>1, <1>2, EnqueueStep, InsertStep, KeyStep, TailStep, RequisitionStep, ValueStep, ConstructStep,
     PublishStep DEF Produces
<1>3. ASSUME NEW c \in Consumer, Handles(c) PROVE IInv'
  BY <1>1, <1>3, HeaderStep, HtailStep, HkeyStep, EntryStep, MoveStep, SetEmptyStep, ClearStep, FreeStep
     DEF Handles
<1>4. ASSUME NEW c \in Consumer, Searches(c) \/ claim(c) \/ recheck(c) \/ giveup(c) PROVE IInv'
  BY <1>1, <1>4, SearchStep
<1>5. ASSUME NEW c \in Consumer, dequeue(c) PROVE IInv'
  BY <1>1, <1>5, DequeueStep
<1>6. CASE UNCHANGED queueVars
  BY <1>1, <1>6, NoStep
<1> QED
  BY <1>2, <1>3, <1>4, <1>5, <1>6 DEF QueueNext, Produces, Searches, Handles

\* At first a producer has one table, whose entries are all unused.
LEMMA FirstTable ==
  ASSUME QueueInit, NEW p \in Producer
  PROVE  LET n == IMPLICIT_INITIAL_INDEX_SIZE IN
         /\ headers[p] \in Seq(HeaderType) /\ entries[p] \in Seq(EntryType)
         /\ Len(headers[p]) = 1 /\ Len(entries[p]) = n /\ N(p) = n
         /\ Tab(p) = headers[p][1] /\ Tab(p).tail = n - 1
         /\ \A i \in 1 .. n : Tab(p).index[i] = i /\ Unused(p, i)
         /\ \A j \in 0 .. n - 1 : Slot(p, j) = n - j
<1>1. PICK n \in Nat : n = IMPLICIT_INITIAL_INDEX_SIZE /\ n > 1
  BY ImplicitProducerAssumption
<1>2. PICK ix : ix = [i \in 1 .. n |-> i]
  OBVIOUS
<1>3. ix \in Seq(Nat) /\ Len(ix) = n /\ \A i \in 1 .. n : ix[i] = i
  BY <1>2
<1>4. PICK h : h = [tail |-> n - 1, index |-> ix]
  OBVIOUS
<1>5. h \in HeaderType /\ h.tail = n - 1 /\ h.index = ix
  BY <1>1, <1>3, <1>4 DEF HeaderType
<1>6. headers[p] = <<h>>
  BY <1>1, <1>2, <1>4 DEF QueueInit, new_block_index
<1>7. headers[p] \in Seq(HeaderType) /\ Len(headers[p]) = 1 /\ headers[p][1] = h
  BY <1>5, <1>6
<1>8. Tab(p) = h /\ N(p) = n
  BY <1>3, <1>5, <1>7 DEF Tab, N
<1>9. entries[p] = [i \in 1 .. n |-> [key |-> 1, value |-> -1]]
  BY <1>1 DEF QueueInit, new_block_index, Entry, INVALID_BLOCK_BASE, JUNK
<1>10. [key |-> 1, value |-> -1] \in EntryType
  BY DEF EntryType
<1>11. entries[p] \in Seq(EntryType) /\ Len(entries[p]) = n
  BY <1>1, <1>9, <1>10
<1>12. \A i \in 1 .. n : Unused(p, i)
  BY <1>9 DEF Unused, Key, Value, INVALID_BLOCK_BASE, JUNK
<1>13. ASSUME NEW j \in 0 .. n - 1 PROVE Slot(p, j) = n - j
  <2>1. Back(n - 1, j, n) = n - 1 - j
    BY <1>1, BackIs
  <2>2. n - 1 - j + 1 = n - j /\ n - j \in 1 .. n
    BY <1>1
  <2> QED
    BY <1>3, <1>5, <1>8, <2>1, <2>2 DEF Slot
<1> QED
  BY <1>1, <1>3, <1>5, <1>7, <1>8, <1>11, <1>12, <1>13

\* Nothing has been enqueued at first.
LEMMA ElementInit == QueueInit => IInv
<1> SUFFICES ASSUME QueueInit PROVE IInv
  OBVIOUS
<1>1. CountInv
  BY CountInit
<1>2. PICK n \in Nat : n = IMPLICIT_INITIAL_INDEX_SIZE /\ n > 1
  BY ImplicitProducerAssumption
<1>3. /\ \A p \in Producer : prod[p] = [at |-> "idle"] /\ tailIndex[p] = 0 /\ headIndex[p] = 0
      /\ \A c \in Consumer : cons[c] = [at |-> "idle"]
      /\ \A p \in Producer : taken[p] = {}
  BY DEF QueueInit, Idle
<1>4. ElementTypes
  <2>1. headers \in [Producer -> Seq(HeaderType)] /\ entries \in [Producer -> Seq(EntryType)]
    <3>1. headers = [p \in Producer |-> headers[p]] /\ entries = [p \in Producer |-> entries[p]]
      BY DEF QueueInit
    <3>2. \A p \in Producer : headers[p] \in Seq(HeaderType) /\ entries[p] \in Seq(EntryType)
      BY FirstTable
    <3> QED
      BY <3>1, <3>2
  <2>2. tailBlock \in [Producer -> Nat] /\ elementsCompletelyDequeued \in [Block -> Nat]
    BY DEF QueueInit
  <2>3. elements = [b \in Block |-> [i \in 0 .. BLOCK_SIZE - 1 |-> elements[b][i]]]
    BY DEF QueueInit
  <2>4. made \in 0 .. MaxBlock /\ freeBlocks \subseteq 1 .. made
    BY ImplicitProducerAssumption DEF QueueInit
  <2>5. prod = [p \in Producer |-> prod[p]] /\ taken = [p \in Producer |-> taken[p]]
    BY DEF QueueInit
  <2> QED
    BY <2>1, <2>2, <2>3, <2>4, <2>5 DEF ElementTypes
<1>5. ASSUME NEW p \in Producer PROVE Ring(p) /\ Window(p) /\ Phase(p) /\ Installed(p) /\ Entries(p)
  <2>1. /\ Len(headers[p]) = 1 /\ Len(entries[p]) = n /\ N(p) = n
        /\ Tab(p) = headers[p][1] /\ Tab(p).tail = n - 1
        /\ \A i \in 1 .. n : Tab(p).index[i] = i /\ Unused(p, i)
        /\ \A j \in 0 .. n - 1 : Slot(p, j) = n - j
    BY <1>2, FirstTable
  <2>2. Len(headers[p][1].index) = n
    BY <2>1 DEF N
  <2>3. Ring(p)
    <3>1. Table(p, 1)
      BY <1>2, <2>1, <2>2 DEF Table
    <3>2. ASSUME NEW e \in 1 .. n PROVE \E j \in 0 .. n - 1 : e = Slot(p, j)
      <4>1. PICK j \in 0 .. n - 1 : j = n - e
        BY <1>2
      <4>2. Slot(p, j) = n - j
        BY <2>1
      <4>3. n - j = e
        BY <1>2, <4>1
      <4> QED
        BY <4>2, <4>3
    <3>3. ASSUME NEW i \in 0 .. n - 1, NEW j \in 0 .. n - 1, Slot(p, i) = Slot(p, j) PROVE i = j
      <4>1. n - i = n - j
        BY <2>1, <3>3
      <4> QED
        BY <1>2, <4>1
    <3>4. \A h \in 1 .. Len(headers[p]) : Table(p, h)
      BY <2>1, <3>1
    <3>5. \A e \in 1 .. Len(entries[p]) : \E j \in 0 .. N(p) - 1 : e = Slot(p, j)
      <4>1. Len(entries[p]) = n /\ N(p) = n
        BY <2>1
      <4> QED
        BY <3>2, <4>1
    <3>6. \A i, j \in 0 .. N(p) - 1 : Slot(p, i) = Slot(p, j) => i = j
      <4>1. N(p) = n
        BY <2>1
      <4> QED
        BY <3>3, <4>1
    <3>7. Len(headers[p]) > 0
      BY <2>1
    <3> QED
      BY <3>4, <3>5, <3>6, <3>7 DEF Ring
  <2>4. Base(0 - 1) < 0
    <3>1. PICK i \in Int : i = 0 - 1
      OBVIOUS
    <3>2. Base(i) \in Int /\ Base(i) <= i
      BY BaseFacts
    <3> QED
      BY <3>1, <3>2
  <2>5. Top(p) < 0 /\ Newest(p) < 0
    BY <1>3, <2>4 DEF Top, Newest
  <2>6. Window(p)
    <3>1. ASSUME NEW j \in 0 .. n - 1 PROVE Unused(p, Slot(p, j))
      <4>1. Slot(p, j) \in 1 .. n
        BY <1>2, <2>1
      <4> QED
        BY <2>1, <4>1
    <3>2. ~(Top(p) >= 0)
      <4>1. Top(p) \in Int
        <5>1. PICK i \in Int : i = 0 - 1
          OBVIOUS
        <5> QED
          BY <1>3, <5>1, BaseFacts DEF Top
      <4> QED
        BY <2>5, <4>1
    <3> QED
      BY <1>3, <2>1, <3>1, <3>2 DEF Window
  <2>7. Phase(p)
    <3>1. 0 % BLOCK_SIZE = 0
      BY BlockSize
    <3> QED
      BY <1>3, <3>1 DEF Phase
  <2>8. Installed(p)
    <3>1. ASSUME NEW i \in Nat PROVE ~(Base(i) <= Newest(p))
      <4>1. i \in Int /\ i >= 0
        OBVIOUS
      <4>2. Base(i) >= 0 /\ Base(i) \in Int
        BY <4>1, BaseFacts
      <4>3. Newest(p) \in Int
        <5>1. PICK l \in Int : l = 0 - 1
          OBVIOUS
        <5> QED
          BY <1>3, <5>1, BaseFacts DEF Newest
      <4> QED
        BY <2>5, <4>2, <4>3
    <3> QED
      BY <3>1 DEF Installed
  <2>9. Entries(p)
    <3>1. ASSUME NEW e \in 1 .. n PROVE Value(p, e) \notin Block
      <4>1. Value(p, e) = -1
        BY <2>1 DEF Unused, JUNK
      <4> QED
        BY <4>1, ImplicitProducerAssumption DEF Block
    <3> QED
      BY <2>1, <3>1 DEF Entries
  <2> QED
    BY <2>3, <2>6, <2>7, <2>8, <2>9
<1>6. Blocks
  BY <1>3 DEF Blocks
<1>7. \A c \in Consumer : cons[c].at = "idle"
  BY <1>3
<1>8. DequeuedExact
  BY <1>3 DEF DequeuedExact
<1> QED
  BY <1>1, <1>4, <1>5, <1>6, <1>7, <1>8 DEF IInv, ElementInv

\* ImplicitProducer: what is dequeued at an index is what was enqueued there,
\* and the index entry that a consumer computes is the one of its block, for any
\* number of threads, any sizes and any interleaving.
THEOREM ElementsAreSafe == QueueSpec => []ElementsSafe
<1>1. IInv => ElementsSafe
  <2> SUFFICES ASSUME IInv PROVE ElementsSafe
    OBVIOUS
  <2>1. DequeuedExact
    BY DEF IInv, ElementInv
  <2>2. IndexFound
    <3>1. ASSUME NEW p \in Producer PROVE headIndex[p] <= tailIndex[p]
      BY TopFacts
    <3>2. ASSUME NEW p \in Producer, NEW c \in Consumer, cons[c].at = "entry", cons[c].p = p
          PROVE  /\ entries[p][cons[c].entry].key = cons[c].index - (cons[c].index % BLOCK_SIZE)
                 /\ entries[p][cons[c].entry].value \in Block
      BY <3>2, FoundEntry DEF Key, Value, Base
    <3> QED
      BY <3>1, <3>2 DEF IndexFound
  <2>3. AttemptsSettle
    BY CountsSettle DEF IInv
  <2> QED
    BY <2>1, <2>2, <2>3 DEF ElementsSafe
<1> QED
  BY <1>1, ElementInit, ElementNext, PTL DEF QueueSpec

=============================================================================
