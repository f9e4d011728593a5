------------------------------- MODULE UvHeap -------------------------------
(***************************************************************************)
(* The heap of libuv's timers (src/heap-inl.h): a binary tree of nodes     *)
(* linked by pointers and changed in place.  A node is named by its rank   *)
(* in the strict order less_than (timer_less_than compares the due time    *)
(* and then the start_id, which no two timers share), so a timer that is   *)
(* started again is another node.                                          *)
(***************************************************************************)
EXTENDS Naturals, FiniteSets

CONSTANT Nodes \* positive numbers

NULL == 0

VARIABLE heap \* the struct, and the links of the nodes that are in the heap

heap_init == [min |-> NULL, nelts |-> 0, node |-> [n \in {} |-> NULL]]

Init == heap = heap_init

In(h) == DOMAIN h.node

less_than(a, b) == a < b

\* The end of the path to place k, with the places numbered row by row.
RECURSIVE At(_, _)
At(h, k) ==
  IF k = 1 THEN h.min
  ELSE LET p == h.node[At(h, k \div 2)]
       IN  IF k % 2 = 1 THEN p.right ELSE p.left

\* n->parent = p, unless n is NULL.
Parent(h, n, p) == IF n = NULL THEN h ELSE [h EXCEPT !.node[n].parent = p]

\* The link from p to old, or from the heap when p is NULL, leads to new.
Replace(h, p, old, new) ==
  IF p = NULL THEN [h EXCEPT !.min = new]
  ELSE IF h.node[p].left = old THEN [h EXCEPT !.node[p].left = new]
  ELSE [h EXCEPT !.node[p].right = new]

heap_node_swap(h, parent, child) ==
  LET p == h.node[parent]
      c == h.node[child]
      left == p.left = child
      h1 == [h EXCEPT !.node[parent] = [c EXCEPT !.parent = child],
                      !.node[child] = IF left THEN [p EXCEPT !.left = parent]
                                      ELSE [p EXCEPT !.right = parent]]
      h2 == Parent(h1, IF left THEN p.right ELSE p.left, child)
      h3 == Parent(Parent(h2, c.left, parent), c.right, parent)
  IN  Replace(h3, p.parent, parent, child)

RECURSIVE WalkUp(_, _)
WalkUp(h, n) ==
  LET p == h.node[n].parent
  IN  IF p # NULL /\ less_than(n, p) THEN WalkUp(heap_node_swap(h, p, n), n) ELSE h

RECURSIVE WalkDown(_, _)
WalkDown(h, n) ==
  LET child == {h.node[n].left, h.node[n].right} \ {NULL}
      less == {c \in child : less_than(c, n)}
  IN  IF less = {} THEN h
      ELSE LET smallest == CHOOSE c \in less : \A d \in less : ~less_than(d, c)
           IN  WalkDown(heap_node_swap(h, n, smallest), n)

heap_insert(h, n) ==
  LET k == h.nelts + 1
      p == IF k = 1 THEN NULL ELSE At(h, k \div 2)
      new == [left |-> NULL, right |-> NULL, parent |-> p]
      h1 == [h EXCEPT !.nelts = k,
                      !.node = [m \in In(h) \cup {n} |-> IF m = n THEN new ELSE h.node[m]]]
      h2 == IF k = 1 THEN [h1 EXCEPT !.min = n]
            ELSE IF k % 2 = 1 THEN [h1 EXCEPT !.node[p].right = n]
            ELSE [h1 EXCEPT !.node[p].left = n]
  IN  WalkUp(h2, n)

\* The last node of the bottom row takes the place of n.
Filled(h, n, child) ==
  LET h1 == [h EXCEPT !.node[child] = h.node[n]]
      h2 == Parent(Parent(h1, h.node[n].left, child), h.node[n].right, child)
  IN  Replace(h2, h.node[n].parent, n, child)

\* Mutant: the node that fills the gap is taken to be the largest.
OnlyDown(h, child) == WalkDown(h, child)

Mended(h, child) == WalkUp(WalkDown(h, child), child)

heap_remove(h, n) ==
  LET child == At(h, h.nelts)
      h1 == Replace([h EXCEPT !.nelts = @ - 1], h.node[child].parent, child, NULL)
      h2 == IF child = n THEN h1 ELSE Mended(Filled(h1, n, child), child)
  IN  [h2 EXCEPT !.node = [m \in In(h) \ {n} |-> h2.node[m]]]

\* uv_timer_start and uv_timer_stop.
Start(n) == n \notin In(heap) /\ heap' = heap_insert(heap, n)
Stop(n) == n \in In(heap) /\ heap' = heap_remove(heap, n)

Next == \E n \in Nodes : Start(n) \/ Stop(n)

Spec == Init /\ [][Next]_heap

-----------------------------------------------------------------------------

\* "the root is the lowest element in the set, [...] and it's always a complete
\* binary tree" (the comment on struct heap): the nodes fill the rows from the
\* left, every link has its counterpart, and no timer is due before its parent,
\* whichever node heap_remove took out and wherever the last one was put.
HeapSound ==
  LET places == 1 .. heap.nelts
      link(k) == IF k \in places THEN At(heap, k) ELSE NULL
  IN  /\ {At(heap, k) : k \in places} = In(heap)
      /\ heap.nelts = Cardinality(In(heap))
      /\ \A k \in places :
           heap.node[At(heap, k)] =
             [left |-> link(2 * k), right |-> link(2 * k + 1), parent |-> link(k \div 2)]
      /\ \A n \in In(heap) :
           heap.node[n].parent # NULL => less_than(heap.node[n].parent, n)

=============================================================================
