------------------------------- MODULE Graph -------------------------------
(***************************************************************************)
(* Graphs (graph.c, graph.h): a pool of nodes, each with a vector of links *)
(* in either direction and, for a direction, a hash from a node to the     *)
(* position of the link that visits it.  A link is kept twice, as a next   *)
(* link of its source and as a prev link of its destination.  A failed     *)
(* ASSERT, or the null pointer a missing half would give, ends the program *)
(* (asserted): the build with assertions enabled.                          *)
(***************************************************************************)
EXTENDS Naturals, Sequences, FiniteSets, Functions

CONSTANTS N_NODES,      \* nodes are 0 .. N_NODES - 1
          Distances,    \* distances of links
          MAX_LINKS     \* bound on the links of the graph

VARIABLES nodes,        \* the vector of nodes, by index
          freed,        \* indices on the pool's free list
          asserted,     \* an assertion has failed
          links,        \* the distances of the links that were set
          disturbed     \* "no", "moved": a deleted node moved a link of another,
                        \* "del_link": graph_del_link has run

vars == <<nodes, freed, asserted, links, disturbed>>

EmptyDir == [links |-> <<>>, link_index_by_node_index |-> <<>>]

EmptyNode == [next |-> EmptyDir, prev |-> EmptyDir]

\* A function that is a little larger or smaller than f.
With(f, x, y) == [z \in DOMAIN f \cup {x} |-> IF z = x THEN y ELSE f[z]]
Without(f, x) == Restrict(f, DOMAIN f \ {x})

--------------------------------------------------------------------------
(* One direction of a node.  Positions of links count from 0.              *)

HasLink(d, n) == n \in DOMAIN d.link_index_by_node_index

\* The position the hash gives, which may be past the end of the links.
graph_dir_get_link_to_node(d, n) == d.link_index_by_node_index[n]

InBounds(d, n) == graph_dir_get_link_to_node(d, n) < Len(d.links)

graph_dir_add_link(d, n, distance, self) ==
    [links |-> Append(d.links, [node_index |-> n, distance |-> distance,
                                link_to_self_index |-> self]),
     link_index_by_node_index |-> With(d.link_index_by_node_index, n, Len(d.links))]

\* The last link takes the place of the deleted one; its entry in the hash and
\* the link_to_self_index of its other half are left as they are.
graph_dir_del_link(d, n) ==
    LET li   == graph_dir_get_link_to_node(d, n)
        last == Len(d.links)
    IN  [links |-> SubSeq(IF li + 1 < last THEN [d.links EXCEPT ![li + 1] = d.links[last]]
                          ELSE d.links, 1, last - 1),
         link_index_by_node_index |-> Without(d.link_index_by_node_index, n)]

MovesALink(d, n) == graph_dir_get_link_to_node(d, n) + 1 # Len(d.links)

--------------------------------------------------------------------------
Init == /\ nodes = <<>>
        /\ freed = {}
        /\ asserted = FALSE
        /\ links = <<>>
        /\ disturbed = "no"

\* pool_validate_index: empty nodes up to index i.
pool_validate_index(i) ==
    [k \in DOMAIN nodes \cup 0..i |-> IF k \in DOMAIN nodes THEN nodes[k] ELSE EmptyNode]

\* Both halves of the link from src to dst get the distance or are made.
PrevHalfKept(ns, src, dst, distance) ==
    LET next == ns[src].next
        li   == graph_dir_get_link_to_node(next, dst)
    IN  IF HasLink(next, dst)
        THEN [ns EXCEPT ![src].next.links[li + 1].distance = distance]
        ELSE [[ns EXCEPT
                 ![src].next = graph_dir_add_link(@, dst, distance, Len(ns[dst].prev.links))]
              EXCEPT ![dst].prev = graph_dir_add_link(@, src, distance, Len(next.links))]

LinkSet(ns, src, dst, distance) ==
    LET next == ns[src].next
        prev == ns[dst].prev
        li   == graph_dir_get_link_to_node(next, dst)
        lp   == graph_dir_get_link_to_node(prev, src)
    IN  IF HasLink(next, dst)
        THEN [[ns EXCEPT ![src].next.links[li + 1].distance = distance]
              EXCEPT ![dst].prev.links[lp + 1].distance = distance]
        ELSE [[ns EXCEPT
                 ![src].next = graph_dir_add_link(@, dst, distance, Len(prev.links))]
              EXCEPT ![dst].prev = graph_dir_add_link(@, src, distance, Len(next.links))]

CanSetLink(ns, src, dst) ==
    LET next == ns[src].next
        prev == ns[dst].prev
    IN  \/ HasLink(next, dst) /\ InBounds(next, dst) /\ HasLink(prev, src) /\ InBounds(prev, src)
        \/ ~HasLink(next, dst) /\ ~HasLink(prev, src)

Bounded(es) == Cardinality(DOMAIN links \cup es) <= MAX_LINKS

\* A failed ASSERT, or a null pointer read.
Assert == asserted' = TRUE /\ UNCHANGED <<nodes, links>>

graph_set_link(src, dst, distance) ==
    /\ ~asserted /\ Bounded({<<src, dst>>}) /\ {src, dst} \cap freed = {}
    /\ \E ns \in {pool_validate_index(IF src > dst THEN src ELSE dst)} :
         IF CanSetLink(ns, src, dst)
         THEN /\ nodes' = LinkSet(ns, src, dst, distance)
              /\ links' = With(links, <<src, dst>>, distance)
              /\ UNCHANGED asserted
         ELSE Assert
    /\ UNCHANGED <<freed, disturbed>>

\* graph_set_bidirectional_link, which unformat_graph does for each link it reads.
graph_set_bidirectional_link(src, dst, distance) ==
    /\ ~asserted /\ Bounded({<<src, dst>>, <<dst, src>>}) /\ {src, dst} \cap freed = {}
    /\ \E ns \in {pool_validate_index(IF src > dst THEN src ELSE dst)} :
         IF CanSetLink(ns, src, dst) /\ CanSetLink(LinkSet(ns, src, dst, distance), dst, src)
         THEN /\ nodes' = LinkSet(LinkSet(ns, src, dst, distance), dst, src, distance)
              /\ links' = With(With(links, <<src, dst>>, distance), <<dst, src>>, distance)
              /\ UNCHANGED asserted
         ELSE Assert
    /\ UNCHANGED <<freed, disturbed>>

Live(n) == n \in DOMAIN nodes \ freed

\* graph_del_link deletes the next links of both nodes and no prev link.
graph_del_link(src, dst) ==
    /\ ~asserted /\ Live(src) /\ Live(dst)
    /\ LET one == [nodes EXCEPT ![src].next = graph_dir_del_link(@, dst)]
           Can(ns, a, b) == HasLink(ns[a].next, b) /\ InBounds(ns[a].next, b)
       IN  IF Can(nodes, src, dst) /\ Can(one, dst, src)
           THEN /\ nodes' = [one EXCEPT ![dst].next = graph_dir_del_link(@, src)]
                /\ UNCHANGED asserted
           ELSE asserted' = TRUE /\ UNCHANGED nodes
    /\ links' = Without(links, <<src, dst>>)
    /\ disturbed' = "del_link"
    /\ UNCHANGED freed

\* The nodes at the other end of a direction's links.
Visited(d) == {d.links[i].node_index : i \in DOMAIN d.links}

OtherHalvesFound(src) ==
    /\ \A n \in Visited(nodes[src].next) : HasLink(nodes[n].prev, src) /\ InBounds(nodes[n].prev, src)
    /\ \A n \in Visited(nodes[src].prev) : HasLink(nodes[n].next, src) /\ InBounds(nodes[n].next, src)

\* Every other half of src's links deleted, and src's own links freed.  The
\* two loops of graph_del_node touch different directions.
NextHalvesLeft(src) ==
    [n \in DOMAIN nodes |->
        IF n = src THEN EmptyNode
        ELSE [nodes[n] EXCEPT
                !.prev = IF n \in Visited(nodes[src].next) THEN graph_dir_del_link(@, src) ELSE @]]

OtherHalvesDeleted(src) ==
    [n \in DOMAIN nodes |->
        IF n = src THEN EmptyNode
        ELSE [nodes[n] EXCEPT
                !.prev = IF n \in Visited(nodes[src].next) THEN graph_dir_del_link(@, src) ELSE @,
                !.next = IF n \in Visited(nodes[src].prev) THEN graph_dir_del_link(@, src) ELSE @]]

MovesLinks(src) ==
    \/ \E n \in Visited(nodes[src].next) \ {src} : MovesALink(nodes[n].prev, src)
    \/ \E n \in Visited(nodes[src].prev) \ {src} : MovesALink(nodes[n].next, src)

\* graph_del_node.  The freed node's words are overwritten with ones, and no
\* one may use the index again until pool_get returns it.
graph_del_node(src) ==
    /\ ~asserted /\ Live(src)
    /\ \/ /\ OtherHalvesFound(src)
          /\ nodes' = OtherHalvesDeleted(src)
          /\ freed' = freed \cup {src}
          /\ disturbed' = IF disturbed = "no" /\ MovesLinks(src) THEN "moved" ELSE disturbed
          /\ UNCHANGED asserted
       \/ /\ ~OtherHalvesFound(src)
          /\ asserted' = TRUE
          /\ UNCHANGED <<nodes, freed, disturbed>>
    /\ links' = Restrict(links, {e \in DOMAIN links : e[1] # src /\ e[2] # src})

Next == \E src, dst \in 0 .. N_NODES - 1 :
          \/ \E distance \in Distances :
               graph_set_link(src, dst, distance) \/ graph_set_bidirectional_link(src, dst, distance)
          \/ graph_del_link(src, dst)
          \/ graph_del_node(src)

Spec == Init /\ [][Next]_vars

--------------------------------------------------------------------------
\* What the source keeps about its next link, and the destination about its
\* prev link, in the vector and through the hash.
Half(d, n, distance, other, m) ==
    /\ HasLink(d, n) /\ InBounds(d, n)
    /\ LET l == d.links[graph_dir_get_link_to_node(d, n) + 1] IN
         /\ l.node_index = n /\ l.distance = distance
         /\ l.link_to_self_index = graph_dir_get_link_to_node(other, m)

\* As long as no deletion has moved a link, the graph is the links that were
\* set: each one has both its halves, they agree on the distance and lead to
\* each other, there are no others, and no assertion of graph.c fails.
BothHalvesAgree ==
    disturbed = "no" =>
      /\ ~asserted
      /\ \A e \in DOMAIN links :
           /\ Half(nodes[e[1]].next, e[2], links[e], nodes[e[2]].prev, e[1])
           /\ Half(nodes[e[2]].prev, e[1], links[e], nodes[e[1]].next, e[2])
      /\ \A n \in DOMAIN nodes :
           /\ \A k \in Visited(nodes[n].next) : <<n, k>> \in DOMAIN links
           /\ \A k \in Visited(nodes[n].prev) : <<k, n>> \in DOMAIN links

\* A deleted node leaves no link behind, as long as graph_del_link is not
\* used: "Delete source node and all links from other nodes from/to source"
\* (graph.c:62).
NodesAreDeleted ==
    disturbed # "del_link" =>
      \A n \in DOMAIN nodes :
        (Visited(nodes[n].next) \cup Visited(nodes[n].prev)) \cap freed = {}
=============================================================================
