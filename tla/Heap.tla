-------------------------------- MODULE Heap --------------------------------
(***************************************************************************)
(* CHeap (src/src/common/Heap.cpp): a binary min-heap of linked nodes.     *)
(* A heap is a record: min is the root, nelts the number of elements, and  *)
(* node gives left, right and parent of each node.  Nodes are positive     *)
(* numbers, 0 stands for NULL; time gives the key that less_than compares. *)
(***************************************************************************)
EXTENDS Integers

Unlinked == [left |-> 0, right |-> 0, parent |-> 0]

heap_init(nodes) == [min |-> 0, nelts |-> 0, node |-> [n \in nodes |-> Unlinked]]

less_than(time, a, b) == time[a] < time[b]

\* The node that the path to position p of the complete tree ends at.
At(h, p) ==
  LET at[i \in 1 .. p] ==
        IF i = 1 THEN h.min
        ELSE IF i % 2 = 1 THEN h.node[at[i \div 2]].right ELSE h.node[at[i \div 2]].left
  IN  at[p]

\* Make n, or NULL, the child at position p.
PutAt(h, p, n) ==
  IF p = 1 THEN [h EXCEPT !.min = n]
  ELSE IF p % 2 = 1 THEN [h EXCEPT !.node[At(h, p \div 2)].right = n]
  ELSE [h EXCEPT !.node[At(h, p \div 2)].left = n]

\* n becomes the parent of node k, if there is one.
Adopt(h, k, n) == IF k = 0 THEN h ELSE [h EXCEPT !.node[k].parent = n]

\* Where old hung below its parent, or at the root, new hangs now.
Replace(h, up, old, new) ==
  IF up = 0 THEN [h EXCEPT !.min = new]
  ELSE IF h.node[up].left = old THEN [h EXCEPT !.node[up].left = new]
  ELSE [h EXCEPT !.node[up].right = new]

\* Child moves up, parent moves down.
heap_node_swap(h, parent, child) ==
  LET P == h.node[parent]
      C == h.node[child]
      onLeft == P.left = child
      moved == [h EXCEPT !.node[parent] = [C EXCEPT !.parent = child],
                         !.node[child] = IF onLeft THEN [P EXCEPT !.left = parent]
                                         ELSE [P EXCEPT !.right = parent]]
      sibling == Adopt(moved, IF onLeft THEN P.right ELSE P.left, child)
  IN  Replace(Adopt(Adopt(sibling, C.left, parent), C.right, parent), P.parent, parent, child)

\* Node n rises while it is less than its parent.
walkUp(h, time, n) ==
  LET up[k \in 0 .. h.nelts] ==
        IF k = 0 THEN h
        ELSE LET g == up[k - 1]
                 p == g.node[n].parent
             IN  IF p # 0 /\ less_than(time, n, p) THEN heap_node_swap(g, p, n) ELSE g
  IN  up[h.nelts]

\* The least of node n and its children.
Smallest(h, time, n) ==
  LET l == h.node[n].left
      r == h.node[n].right
      s == IF l # 0 /\ less_than(time, l, n) THEN l ELSE n
  IN  IF r # 0 /\ less_than(time, r, s) THEN r ELSE s

\* Node n sinks while a child is less.
walkDown(h, time, n) ==
  LET down[k \in 0 .. h.nelts] ==
        IF k = 0 THEN h
        ELSE LET g == down[k - 1]
                 s == Smallest(g, time, n)
             IN  IF s # n THEN heap_node_swap(g, n, s) ELSE g
  IN  down[h.nelts]

\* The new node goes to the first free place of the bottom row, and rises.
heap_insert(h, time, newnode) ==
  LET p == h.nelts + 1
      parent == IF p = 1 THEN h.min ELSE At(h, p \div 2)
      g == [h EXCEPT !.node[newnode] = [Unlinked EXCEPT !.parent = parent], !.nelts = p]
  IN  walkUp(PutAt(g, p, newnode), time, newnode)

\* The links that a removed node keeps: none is read before heap_insert resets them.
Forget(h, node) == [h EXCEPT !.node[node] = Unlinked]

\* Fault: the node that takes the free place only sinks.
heap_remove_NoWalkUp(h, time, node) ==
  IF h.nelts = 0 THEN h
  ELSE LET last == At(h, h.nelts)
           g == [PutAt(h, h.nelts, 0) EXCEPT !.nelts = @ - 1]
           n == g.node[node]
           placed == Replace(Adopt(Adopt([g EXCEPT !.node[last] = n], n.left, last),
                                   n.right, last), n.parent, node, last)
       IN  IF last = node THEN Forget(g, node) ELSE Forget(walkDown(placed, time, last), node)

\* The last node of the bottom row takes the place of the removed one, and sinks
\* or rises from there.
heap_remove(h, time, node) ==
  IF h.nelts = 0 THEN h
  ELSE LET last == At(h, h.nelts)
           g == [PutAt(h, h.nelts, 0) EXCEPT !.nelts = @ - 1]
           n == g.node[node]
           placed == Replace(Adopt(Adopt([g EXCEPT !.node[last] = n], n.left, last),
                                   n.right, last), n.parent, node, last)
       IN  IF last = node THEN Forget(g, node)
           ELSE Forget(walkUp(walkDown(placed, time, last), time, last), node)

-----------------------------------------------------------------------------
(***************************************************************************)
(* The nodes form a complete tree whose links agree, and no node is less   *)
(* than its parent.                                                        *)
(***************************************************************************)
Nodes(h) == {At(h, p) : p \in 1 .. h.nelts}

IsHeap(h, time) ==
  /\ h.nelts = 0 => h.min = 0
  /\ \A p \in 1 .. h.nelts :
       LET n == At(h, p)
           child(c) == IF c <= h.nelts THEN At(h, c) ELSE 0
       IN  /\ n \in DOMAIN h.node
           /\ \A q \in 1 .. p - 1 : At(h, q) # n
           /\ h.node[n] = [left |-> child(2 * p), right |-> child(2 * p + 1),
                           parent |-> IF p = 1 THEN 0 ELSE At(h, p \div 2)]
           /\ p > 1 => ~less_than(time, n, h.node[n].parent)

=============================================================================
