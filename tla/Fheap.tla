------------------------------- MODULE Fheap --------------------------------
(***************************************************************************)
(* The Fibonacci heap of fheap.c: nodes in circular lists of siblings, the *)
(* roots in one list that is entered at the node of least key.             *)
(*                                                                         *)
(* The functions of the code are operators from heap to heap.              *)
(***************************************************************************)
EXTENDS Integers, Sequences, FiniteSets, FiniteSetsExt, SequencesExt

CONSTANTS n_nodes,   \* the nodes are 0 .. n_nodes - 1
          MAX_LIVE,  \* bound: a node is added while fewer are in the heap
          MAX_CHANGES, \* bound: deletions and smaller keys in a larger heap
          FILLED,    \* how many nodes some heaps have at first, before a del_min
          Keys       \* less than NONE, the largest u32, which del_min never finds

VARIABLES fheap,     \* nodes, root_list_by_rank, min_root
          key_of     \* history: the keys of the nodes that are in the heap

vars == <<fheap, key_of>>

NONE == -1           \* ~0
Nodes == 0 .. n_nodes - 1
Ranks == 0 .. n_nodes

NewNode(key) ==
  [parent |-> NONE, first_child |-> NONE, next_sibling |-> NONE, prev_sibling |-> NONE,
   key |-> key, rank |-> 0, is_marked |-> FALSE, is_valid |-> FALSE]

fheap_init ==
  [nodes |-> [n \in Nodes |-> NewNode(0)], min_root |-> NONE,
   root_list |-> [k \in Ranks |-> NONE]]

Key(f, n) == f.nodes[n].key
Parent(f, n) == f.nodes[n].parent

-----------------------------------------------------------------------------
(* ni_to_add goes after ni; the first two nodes of a list are each other's *)
(* neighbours.                                                             *)
fheap_node_add_sibling(f, ni, ni_to_add) ==
  LET next == f.nodes[ni].next_sibling
      p == Parent(f, ni)
      linked ==
        IF next = NONE
        THEN [f.nodes EXCEPT ![ni].next_sibling = ni_to_add, ![ni].prev_sibling = ni_to_add,
                             ![ni_to_add].next_sibling = ni, ![ni_to_add].prev_sibling = ni]
        ELSE [f.nodes EXCEPT ![ni_to_add].prev_sibling = ni, ![ni_to_add].next_sibling = next,
                             ![ni].next_sibling = ni_to_add, ![next].prev_sibling = ni_to_add]
      nodes == [linked EXCEPT ![ni_to_add].parent = p]
  IN  [f EXCEPT !.nodes = IF p = NONE THEN nodes ELSE [nodes EXCEPT ![p].rank = @ + 1]]

fheap_add(f, ni, key) ==
  LET g == [f EXCEPT !.nodes[ni] = NewNode(key)]
  IN  IF f.min_root = NONE THEN [g EXCEPT !.min_root = ni]
      ELSE [fheap_node_add_sibling(g, f.min_root, ni)
              EXCEPT !.min_root = IF Key(g, f.min_root) > key THEN ni ELSE @]

\* Mutant: an only node has itself as its sibling.
NextSibling(f, ni) == f.nodes[ni].next_sibling

(* What fheap_node_remove returns: a sibling of ni, if it has one.         *)
Sibling(f, ni) ==
  IF f.nodes[ni].prev_sibling = ni THEN NONE ELSE f.nodes[ni].next_sibling

fheap_node_remove_internal(f, ni, invalidate) ==
  LET n == f.nodes[ni]
      nodes1 == IF n.parent = NONE THEN f.nodes
                ELSE [f.nodes EXCEPT ![n.parent].rank = @ - 1,
                                     ![n.parent].first_child = Sibling(f, ni)]
      nodes2 == IF n.prev_sibling = NONE THEN nodes1
                ELSE [nodes1 EXCEPT ![n.prev_sibling].next_sibling = n.next_sibling]
      nodes3 == IF n.next_sibling = NONE THEN nodes2
                ELSE [nodes2 EXCEPT ![n.next_sibling].prev_sibling = n.prev_sibling]
  IN  [f EXCEPT !.nodes = [nodes3 EXCEPT ![ni].next_sibling = ni, ![ni].prev_sibling = ni,
                                         ![ni].parent = NONE, ![ni].is_valid = ~invalidate]]

fheap_node_remove(f, ni) == fheap_node_remove_internal(f, ni, FALSE)

(* hi becomes a child of lo.                                               *)
MadeChild(f, lo, hi) ==
  LET g == fheap_node_remove(f, hi)
      first == g.nodes[lo].first_child
      h == IF first = NONE
           THEN [g EXCEPT !.nodes[hi].parent = lo, !.nodes[lo].first_child = hi,
                          !.nodes[lo].rank = 1]
           ELSE fheap_node_add_sibling(g, first, hi)
  IN  [h EXCEPT !.nodes[hi].is_marked = FALSE]

(* Roots of the same rank are linked until this one has a rank of its own. *)
RECURSIVE fheap_link_root(_, _)
fheap_link_root(f, ni) ==
  LET k == f.nodes[ni].rank
      ri == f.root_list[k]
      g == [f EXCEPT !.root_list[k] = NONE]
      lo == IF Key(f, ni) < Key(f, ri) THEN ni ELSE ri
      hi == IF lo = ni THEN ri ELSE ni
  IN  IF ri = NONE THEN [f EXCEPT !.root_list[k] = ni]
      ELSE fheap_link_root(MadeChild(g, lo, hi), lo)

(* The loop of fheap_del_min: ri, and the roots after it up to last; the   *)
(* next one is read before ri may become a child.                          *)
RECURSIVE LinkRoots(_, _, _)
LinkRoots(f, ri, last) ==
  LET next == f.nodes[ri].next_sibling
      g == fheap_link_root([f EXCEPT !.nodes[ri].parent = NONE], ri)
  IN  IF ri = last THEN g ELSE LinkRoots(g, next, last)

(* The new minimum is the first of least key in root_list_by_rank, which   *)
(* is emptied.                                                             *)
LeastRoot(f) ==
  LET ranks == {k \in Ranks : f.root_list[k] # NONE}
      least == {k \in ranks : \A j \in ranks : Key(f, f.root_list[k]) <= Key(f, f.root_list[j])}
  IN  [f EXCEPT !.min_root = IF least = {} THEN NONE ELSE f.root_list[Min(least)],
                !.root_list = [k \in Ranks |-> NONE]]

(* The circular list of the root's children is spliced into that of the    *)
(* roots.                                                                  *)
Spliced(f) ==
  LET r == f.min_root
      c == f.nodes[r].first_child
      cn == f.nodes[c].next_sibling
      rn == f.nodes[r].next_sibling
      nodes1 == [f.nodes EXCEPT ![r].next_sibling = cn]
      nodes2 == [nodes1 EXCEPT ![c].next_sibling = rn]
      nodes3 == [nodes2 EXCEPT ![cn].prev_sibling = r]
  IN  IF c = NONE THEN f ELSE [f EXCEPT !.nodes = [nodes3 EXCEPT ![rn].prev_sibling = c]]

fheap_del_min(f) ==
  LET g == Spliced(f)
      ri == Sibling(g, f.min_root)
      h == [fheap_node_remove_internal(g, f.min_root, TRUE) EXCEPT !.min_root = NONE]
  IN  IF ri = NONE THEN h
      ELSE LeastRoot(LinkRoots(h, ri, h.nodes[ri].prev_sibling))

(* A node that loses a second child becomes a root.  The cut itself clears *)
(* the parent, so that the cuts never cascade further.                     *)
fheap_mark_parent(f, pi) ==
  LET p == f.nodes[pi]
      cut == fheap_node_add_sibling(fheap_node_remove(f, pi), f.min_root, pi)
  IN  IF p.parent = NONE THEN f
      ELSE IF ~p.is_marked THEN [f EXCEPT !.nodes[pi].is_marked = TRUE]
      ELSE [cut EXCEPT !.nodes[pi].is_marked = FALSE]

MovedToRoots(f, ni) == fheap_node_add_sibling(fheap_node_remove(f, ni), f.min_root, ni)

fheap_decrease_key(f, ni, new_key) ==
  LET r_key == IF ni = f.min_root THEN new_key ELSE Key(f, f.min_root)
      g == [f EXCEPT !.nodes[ni].key = new_key]
      h == IF Parent(f, ni) = NONE THEN g
           ELSE MovedToRoots(fheap_mark_parent(g, Parent(f, ni)), ni)
  IN  IF new_key < r_key THEN [h EXCEPT !.min_root = ni] ELSE h

(* fheap_del asserts that a root it is given is the least one.             *)
MayDelete(f, ni) == Parent(f, ni) = NONE => ni = f.min_root

(* The loop over the children moves each out of the circle it walks: the   *)
(* last child is then its own next sibling, and the walk goes on among the *)
(* roots, moving the children there once more, until it comes to the first *)
(* one, which is behind them.                                              *)
RECURSIVE ChildrenMoved(_, _, _)
ChildrenMoved(f, ci, first) ==
  LET next == f.nodes[ci].next_sibling
      g == MovedToRoots(f, ci)
  IN  IF next = first THEN g ELSE ChildrenMoved(g, next, first)

fheap_del(f, ni) ==
  IF Parent(f, ni) = NONE THEN fheap_del_min(f)
  ELSE LET g == fheap_mark_parent(f, Parent(f, ni))
           c == g.nodes[ni].first_child
           h == IF c = NONE THEN g ELSE ChildrenMoved(g, c, c)
       IN  fheap_node_remove_internal(h, ni, TRUE)

-----------------------------------------------------------------------------
InHeap == DOMAIN key_of
Without(n) == [m \in InHeap \ {n} |-> key_of[m]]
With(n, key) == [m \in InHeap \cup {n} |-> IF m = n THEN key ELSE key_of[m]]

(* Some heaps begin as a single tree, the nodes 1 .. FILLED - 1 below one  *)
(* of them, so that inner nodes have enough children to be cut.            *)
Filled == FoldLeft(LAMBDA f, n : fheap_add(f, n, Max(Keys)), fheap_init,
                   [n \in 1 .. FILLED |-> n - 1])

Init ==
  \/ fheap = fheap_init /\ key_of = <<>>
  \/ /\ fheap = fheap_del_min(Filled)
     /\ key_of = [n \in (0 .. FILLED - 1) \ {Filled.min_root} |-> Max(Keys)]

MayChange ==
  Cardinality(InHeap) > MAX_LIVE =>
    FILLED - Cardinality({n \in InHeap : key_of[n] = Max(Keys)}) <= MAX_CHANGES

Add ==
  \E key \in Keys :
    LET ni == Min(Nodes \ InHeap) IN
    /\ Cardinality(InHeap) < MAX_LIVE
    /\ fheap' = fheap_add(fheap, ni, key)
    /\ key_of' = With(ni, key)

DelMin ==
  /\ fheap.min_root # NONE /\ MayChange
  /\ fheap' = fheap_del_min(fheap)
  /\ key_of' = Without(fheap.min_root)

DecreaseKey ==
  \E ni \in InHeap, key \in Keys :
    /\ key < key_of[ni] /\ MayChange
    /\ fheap' = fheap_decrease_key(fheap, ni, key)
    /\ key_of' = With(ni, key)

Del ==
  \E ni \in InHeap :
    /\ MayDelete(fheap, ni) /\ MayChange
    /\ fheap' = fheap_del(fheap, ni)
    /\ key_of' = Without(ni)

Next == Add \/ DelMin \/ DecreaseKey \/ Del

Spec == Init /\ [][Next]_vars

-----------------------------------------------------------------------------
RECURSIVE Circle(_, _, _)
Circle(f, n, seen) ==
  IF n = NONE \/ n \in seen THEN seen ELSE Circle(f, f.nodes[n].next_sibling, seen \cup {n})
Children(f, n) == Circle(f, f.nodes[n].first_child, {})
Roots(f) == Circle(f, f.min_root, {})

(* What fheap_validate asserts of the nodes it is given.  *)
fheap_validate(f, nodes) ==
  \A n \in nodes :
    LET node == f.nodes[n]
    IN  /\ node.key >= Key(f, f.min_root)
        /\ node.rank = Cardinality(Children(f, n))
        /\ \A m \in Children(f, n) : Key(f, m) >= node.key
        /\ node.next_sibling # NONE =>
             /\ f.nodes[node.next_sibling].prev_sibling = n
             /\ f.nodes[node.prev_sibling].next_sibling = n

(* Whatever is added, deleted and decreased, fheap_validate holds of every *)
(* node in the heap and not only of those it takes for valid, and nothing  *)
(* is lost from the lists: the roots and the children of every node are    *)
(* the nodes that name it as their parent, with the keys they were given,  *)
(* so that min_root has the least key of all.                              *)
HeapOrdered ==
  /\ fheap.min_root = NONE <=> InHeap = {}
  /\ fheap_validate(fheap, InHeap)
  /\ Roots(fheap) = {n \in InHeap : Parent(fheap, n) = NONE}
  /\ \A n \in InHeap :
       /\ fheap.nodes[n].key = key_of[n]
       /\ Children(fheap, n) = {m \in InHeap : Parent(fheap, m) = n}
=============================================================================
