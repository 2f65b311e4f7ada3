----------------------------- MODULE VectorGraph -----------------------------
(***************************************************************************)
(* The HNSW index of index/hnsw.py: the layered graph as it is built, one  *)
(* vector after the other, repaired, and searched with a filter.           *)
(*                                                                         *)
(* A vector is a point; only distances count.  The build is sequential: an *)
(* action is the descent of a new node, its wiring in one layer, or one    *)
(* reverse link with the pruning it sets off.  Nodes are the row numbers   *)
(* 1, 2, ... and stand for their external ids too.  A build reads no       *)
(* vector before its turn, so a vector and its random level are chosen     *)
(* when its node is inserted.                                              *)
(***************************************************************************)
EXTENDS Integers, Sequences, FiniteSets, SequencesExt

CONSTANTS
    Points,          \* where vectors may lie
    Distance,        \* 1 - dot, between two points
    Size,            \* how many vectors the index is built from
    M,               \* edges a node may have on a layer, twice that on layer 0
    EfConstruction,  \* how many candidates an insertion looks at
    MaxVisits,       \* the budget of a search
    DefaultVisits,   \* the budget of an index that is given none
    Draws,           \* bound: the levels each node may draw
    MaxLevel,        \* bound: the highest of them
    Queries          \* bound: the searches that are made

ASSUME GraphAssumption ==
    /\ Distance \in [Points \X Points -> Nat]
    /\ Size \in Nat \ {0}
    /\ M \in Nat \ {0, 1}               \* 1 / log(m)
    /\ EfConstruction \in Nat \ {0}
    /\ MaxVisits \in Nat /\ DefaultVisits \in Nat
    /\ MaxLevel \in Nat
    /\ Draws \in [1..Size -> SUBSET (0..MaxLevel)]
    /\ \A q \in Queries : /\ q.point \in Points
                          /\ q.k \in Nat \ {0}
                          /\ q.effort \in Nat \ {0}
                          /\ q.admissible \subseteq 1..Size

VARIABLES
    at,       \* the points of the nodes inserted so far
    level,    \* and their levels
    graph,    \* per layer, the edges of each node on it, in order
    entry,    \* the entry point, 0 for None
    top,      \* _max_level
    pc,
    layer,    \* the layer the last node is wired on
    points,   \* entry_points of that layer
    links,    \* neighbours that have no link back yet
    hits      \* the last search and what it found

vars == <<at, level, graph, entry, top, pc, layer, points, links, hits>>

Layers == 0..MaxLevel
Nodes == 1..Len(at)
New == Len(at)
NoHits == [rows |-> <<>>]

Init ==
    /\ at = <<>>
    /\ level = <<>>
    /\ graph = [l \in Layers |-> <<>>]
    /\ entry = 0
    /\ top = 0
    /\ pc = "insert"
    /\ layer = 0
    /\ points = {}
    /\ links = <<>>
    /\ hits = NoHits

-----------------------------------------------------------------------------
(* Distances, and the order of (distance, row).                            *)

Lower(i, j) == IF i < j THEN i ELSE j

From(p, i) == Distance[<<p, at[i]>>]

Closer(p, i, j) == From(p, i) < From(p, j) \/ (From(p, i) = From(p, j) /\ i < j)

Sorted(p, S) ==
    [n \in 1..Cardinality(S) |->
        CHOOSE i \in S : Cardinality({j \in S : Closer(p, j, i)}) = n - 1]

\* The heap of results drops the farthest, of equals the first row.
Farthest(p, S) ==
    CHOOSE i \in S : \A j \in S \ {i} :
        From(p, i) > From(p, j) \/ (From(p, i) = From(p, j) /\ i < j)

-----------------------------------------------------------------------------
(* _search_layer: best first, from the nodes `from`, for the `ef` nearest  *)
(* admissible nodes.                                                       *)

\* Faulty: only admissible nodes are expanded.
WalksAdmissible(i, admissible) == i \in admissible

\* The filter is for what is found, never for the way there.
Walks(i, admissible) == TRUE

\* Faulty: the results count as full as soon as they hold one.
BoundedEarly(s, ef) == s.results # {}

Bounded(s, ef) == Cardinality(s.results) >= ef

\* A neighbour that was not among those seen before.
Visit(p, ef, admissible, seen, s, i) ==
    LET met == [s EXCEPT !.visited = @ \union {i}, !.visits = @ + 1]
        grown == s.results \union ({i} \intersect admissible)
        worst == Farthest(p, grown)
    IN  IF i \in seen THEN s
        ELSE IF Bounded(s, ef) /\ From(p, i) >= From(p, Farthest(p, s.results)) THEN met
        ELSE [met EXCEPT !.frontier = @ \union (IF Walks(i, admissible) THEN {i} ELSE {}),
                         !.results = IF Cardinality(grown) > ef THEN grown \ {worst} ELSE grown]

Adjacent(edges, i) == IF i \in DOMAIN edges THEN edges[i] ELSE <<>>

\* One neighbour of the node after the other.
Meet(p, ef, admissible, s, node, next) ==
    LET met[n \in 0..Len(next)] ==
            IF n = 0 THEN [s EXCEPT !.frontier = @ \ {node}]
            ELSE Visit(p, ef, admissible, s.visited, met[n - 1], next[n])
    IN  met[Len(next)]

\* The nearest of the frontier is expanded, unless the search is over.  The
\* budget is looked at when a neighbour was new.
Expand(p, ef, l, admissible, budget, s) ==
    LET node == Sorted(p, s.frontier)[1]
        all == Meet(p, ef, admissible, s, node, Adjacent(graph[l], node))
    IN  IF s.over \/ s.frontier = {} THEN s
        ELSE IF Bounded(s, ef) /\ From(p, node) > From(p, Farthest(p, s.results))
        THEN [s EXCEPT !.over = TRUE]
        ELSE [all EXCEPT !.over = all.visits # s.visits /\ all.visits >= budget]

SearchLayer(p, from, ef, l, admissible, budget) ==
    LET run[n \in 0..Len(at)] ==
            IF n = 0
            THEN [frontier |-> from, visited |-> from, visits |-> 0, over |-> FALSE,
                  results |-> from \intersect admissible]
            ELSE Expand(p, ef, l, admissible, budget, run[n - 1])
    IN  run[Len(at)]

NoBudget == Size + 1

\* The descent through the layers above `to`, one node wide.
Descent(p, to) ==
    LET best[n \in 0..top] ==
            IF n = 0 THEN {entry}
            ELSE SearchLayer(p, best[n - 1], 1, top + 1 - n, Nodes, NoBudget).results
    IN  best[top - Lower(to, top)]

-----------------------------------------------------------------------------
(* _select_neighbours: near ones that are not near each other, then the    *)
(* nearest of the others.                                                  *)

Keep(p, m, kept, i) ==
    IF Len(kept) < m /\ \A j \in ToSet(kept) : Distance[<<at[j], at[i]>>] >= From(p, i)
    THEN Append(kept, i) ELSE kept

Diverse(p, near, m) ==
    LET kept[n \in 0..Len(near)] ==
            IF n = 0 THEN <<>> ELSE Keep(p, m, kept[n - 1], near[n])
    IN  kept[Len(near)]

SelectNeighbours(p, S, m) ==
    LET kept == Diverse(p, Sorted(p, S), m)
        others == Sorted(p, S \ ToSet(kept))
    IN  kept \o SubSeq(others, 1, IF Len(others) < m - Len(kept) THEN Len(others)
                                  ELSE m - Len(kept))

Budget(l) == IF l = 0 THEN 2 * M ELSE M

-----------------------------------------------------------------------------
(* _insert                                                                 *)

OnLayer(l, i, edges) == [j \in DOMAIN graph[l] \union {i} |-> IF j = i THEN edges ELSE graph[l][j]]

\* The first node is the entry point; another descends to its own level.
Insert(p, lv) ==
    /\ pc = "insert"
    /\ Len(at) < Size
    /\ lv \in Draws[Len(at) + 1]
    /\ at' = Append(at, p)
    /\ level' = Append(level, lv)
    /\ \/ /\ entry = 0
          /\ graph' = [l \in Layers |-> IF l <= lv THEN OnLayer(l, 1, <<>>) ELSE graph[l]]
          /\ entry' = 1
          /\ top' = lv
          /\ UNCHANGED <<pc, layer, points>>
       \/ /\ entry # 0
          /\ points' = Descent(p, lv)
          /\ layer' = Lower(lv, top)
          /\ pc' = "wire"
          /\ UNCHANGED <<graph, entry, top>>
    /\ UNCHANGED <<links, hits>>

\* The neighbours of the new node on one layer.
Wire ==
    LET p == at[New]
        near == SearchLayer(p, points, EfConstruction, layer, Nodes, NoBudget).results
        neighbours == SelectNeighbours(p, near, Budget(layer))
    IN  /\ pc = "wire"
        /\ graph' = [graph EXCEPT ![layer] = OnLayer(layer, New, neighbours)]
        /\ points' = near
        /\ links' = neighbours
        /\ pc' = "link"
        /\ UNCHANGED <<at, level, entry, top, layer, hits>>

\* The node being inserted survives every prune, in the place of the last.
Survives(chosen) ==
    IF New \in ToSet(chosen) THEN chosen ELSE [chosen EXCEPT ![Len(chosen)] = New]

\* A node that would lose its only edge takes the place of one that has others.
Rescue(b, kept, i) ==
    LET last == SelectLastInSeq(kept, LAMBDA j : j # New /\ Len(graph[layer][j]) > 1)
    IN  IF i \in ToSet(kept) \/ graph[layer][i] # <<b>> \/ last = 0 THEN kept
        ELSE [kept EXCEPT ![last] = i]

Protect(b, adjacency, chosen) ==
    LET kept[n \in 0..Len(adjacency)] ==
            IF n = 0 THEN chosen ELSE Rescue(b, kept[n - 1], adjacency[n])
    IN  kept[Len(adjacency)]

\* Faulty: what is pruned keeps its edge to the node that pruned it.
KeepsStale(l, b, kept, gone) == [graph[l] EXCEPT ![b] = kept]

Over(edges, l) == Len(edges) > Budget(l)

\* The edges to b of the nodes b has pruned go, too.
Pruned(l, b, kept, gone) ==
    [i \in DOMAIN graph[l] |->
        IF i = b THEN kept ELSE IF i \in gone THEN RemoveFirst(graph[l][i], b) ELSE graph[l][i]]

\* The link back from the next neighbour.
Link ==
    LET b == Head(links)
        adjacency == Append(graph[layer][b], New)
        chosen == Survives(SelectNeighbours(at[b], ToSet(adjacency), Budget(layer)))
        kept == IF Over(adjacency, layer) THEN Protect(b, adjacency, chosen) ELSE adjacency
    IN  /\ pc = "link"
        /\ links # <<>>
        /\ graph' = [graph EXCEPT
                        ![layer] = Pruned(layer, b, kept, ToSet(adjacency) \ ToSet(kept))]
        /\ links' = Tail(links)
        /\ UNCHANGED <<at, level, entry, top, pc, layer, points, hits>>

NextLayer ==
    /\ pc = "link"
    /\ links = <<>>
    /\ layer > 0
    /\ layer' = layer - 1
    /\ pc' = "wire"
    /\ UNCHANGED <<at, level, graph, entry, top, points, links, hits>>

\* Faulty: range(self._max_level, ...).
AboveAndTop(lv) == top..lv

Above(lv) == top + 1..lv

\* A node that is higher than all before is alone up there, and the new entry.
Inserted ==
    LET lv == level[New]
    IN  /\ pc = "link"
        /\ links = <<>>
        /\ layer = 0
        /\ graph' = [l \in Layers |->
                        IF l \in Above(lv) THEN OnLayer(l, New, <<>>) ELSE graph[l]]
        /\ IF lv > top THEN top' = lv /\ entry' = New ELSE UNCHANGED <<top, entry>>
        /\ points' = {}
        /\ pc' = "insert"
        /\ UNCHANGED <<at, level, layer, links, hits>>

-----------------------------------------------------------------------------
(* _repair_connectivity: every component of layer 0 is joined to the       *)
(* largest one, between the two nodes that are closest.                    *)

\* The nodes S and those that an edge from or to them leads to.
Grown(nodes, edges, S) ==
    S \union {j \in nodes : \E i \in S : \/ j \in ToSet(Adjacent(edges, i))
                                         \/ i \in ToSet(Adjacent(edges, j))}

Component(nodes, edges, i) ==
    LET grown[n \in 0..Cardinality(nodes)] ==
            IF n = 0 THEN {i} ELSE Grown(nodes, edges, grown[n - 1])
    IN  grown[Cardinality(nodes)]

Components == {Component(Nodes, graph[0], i) : i \in Nodes}

First(S) == CHOOSE i \in S : \A j \in S : i <= j

\* Of equally large components, that of the first node.
Largest ==
    CHOOSE C \in Components : \A D \in Components :
        \/ Cardinality(C) > Cardinality(D)
        \/ Cardinality(C) = Cardinality(D) /\ First(C) <= First(D)

\* The ends of the bridge between components C and D.
Bridge(C, D) ==
    CHOOSE e \in C \X D : \A f \in C \X D :
        LET d == Distance[<<at[e[1]], at[e[2]]>>]
            c == Distance[<<at[f[1]], at[f[2]]>>]
        IN  d < c \/ (d = c /\ (e[1] < f[1] \/ (e[1] = f[1] /\ e[2] <= f[2])))

\* Faulty: nothing is bridged.
NoBridges(edges, bridges) == edges

Joined(edges, e) == [edges EXCEPT ![e[1]] = Append(@, e[2]), ![e[2]] = Append(@, e[1])]

Bridged(edges, bridges) ==
    LET joined[n \in 0..Len(bridges)] ==
            IF n = 0 THEN edges ELSE Joined(joined[n - 1], bridges[n])
    IN  joined[Len(bridges)]

Repair ==
    LET largest == Largest
        others == Components \ {largest}
        bridges == [n \in 1..Cardinality(others) |->
                       Bridge(CHOOSE C \in others :
                                  Cardinality({D \in others : First(D) < First(C)}) = n - 1,
                              largest)]
    IN  /\ pc = "insert"
        /\ Len(at) = Size
        /\ graph' = [graph EXCEPT ![0] = Bridged(@, bridges)]
        /\ pc' = "built"
        /\ UNCHANGED <<at, level, entry, top, layer, points, links, hits>>

-----------------------------------------------------------------------------
(* save and load: the edges of a layer end to end, and where each node's   *)
(* begin; a node without edges is not in a graph that was loaded.          *)

Saved(edges) ==
    [indices |-> FlattenSeq([i \in Nodes |-> Adjacent(edges, i)]),
     indptr |-> [n \in 0..Len(at) |-> Len(FlattenSeq([i \in 1..n |-> Adjacent(edges, i)]))]]

Loaded(file) ==
    [i \in {j \in Nodes : file.indptr[j] > file.indptr[j - 1]} |->
        SubSeq(file.indices, file.indptr[i - 1] + 1, file.indptr[i])]

Reload ==
    /\ pc = "built"
    /\ hits = NoHits
    /\ graph' = [l \in Layers |-> IF l <= top THEN Loaded(Saved(graph[l])) ELSE graph[l]]
    /\ pc' = "loaded"
    /\ UNCHANGED <<at, level, entry, top, layer, points, links, hits>>

-----------------------------------------------------------------------------
(* search                                                                  *)

Built == pc \in {"built", "loaded"}

\* load() makes an index from what is in the file, which the budget is not.
VisitLimit == IF pc = "loaded" THEN DefaultVisits ELSE MaxVisits

Ef(q) == IF q.effort < q.k THEN q.k ELSE q.effort

Search(q) ==
    LET s == SearchLayer(q.point, Descent(q.point, 0), Ef(q), 0, q.admissible, VisitLimit)
        found == Sorted(q.point, s.results)
    IN  /\ Built
        /\ hits = NoHits
        /\ hits' = [query |-> q, visits |-> s.visits,
                    rows |-> SubSeq(found, 1, Lower(q.k, Len(found)))]
        /\ UNCHANGED <<at, level, graph, entry, top, pc, layer, points, links>>

\* The caller takes the hits; the index is ready for the next search.
Return ==
    /\ hits # NoHits
    /\ hits' = NoHits
    /\ UNCHANGED <<at, level, graph, entry, top, pc, layer, points, links>>

Next ==
    \/ \E p \in Points, lv \in Layers : Insert(p, lv)
    \/ Wire \/ Link \/ NextLayer \/ Inserted \/ Repair \/ Reload
    \/ \E q \in Queries : Search(q)
    \/ Return

Spec == Init /\ [][Next]_vars

-----------------------------------------------------------------------------
(* Properties.                                                             *)

\* What is yet to be linked back to the new node.
Pending(l, i, j) == pc = "link" /\ l = layer /\ i = New /\ j \in ToSet(links)

\* Every edge has its reverse, on every layer and between any two links of an
\* insertion, whatever pruning has dropped (test_edges_are_bidirectional): what
\* can be left can be come back to.  No edge leads back or twice to a node
\* (test_no_self_loops).  Until the bridges are built no node is over its budget
\* (test_degree_stays_within_budget), those protected from pruning included.
EdgesGoBothWays ==
    \A l \in Layers : \A i \in DOMAIN graph[l] :
        /\ \A j \in ToSet(graph[l][i]) :
              i # j /\ (i \in ToSet(graph[l][j]) \/ Pending(l, i, j))
        /\ IsInjective(graph[l][i])
        /\ Built \/ Len(graph[l][i]) <= Budget(l)

\* "A node can never be born unreachable" (03-benchmarks.md): when an insertion
\* is over the new node has an edge on every layer where it is not alone.
BornLinked ==
    pc = "insert" /\ at # <<>> =>
        \A l \in 0..level[New] : DOMAIN graph[l] # {New} => graph[l][New] # <<>>

\* Once it is repaired, layer 0 is one component: no vector is out of reach of
\* the entry point (_repair_connectivity).
AllReachable == Built => Component(Nodes, graph[0], entry) = Nodes

\* A filter never leaves a search short: within its budget it returns k hits, or
\* all there are, however small its effort (search: "silently returning short is
\* worse than the clamp"), because the walk is not filtered.
SearchIsFull ==
    hits # NoHits /\ hits.visits < VisitLimit =>
        Len(hits.rows) = Lower(hits.query.k, Cardinality(hits.query.admissible))

\* What brute force would find.
Nearest(q) ==
    SubSeq(Sorted(q.point, q.admissible), 1, Lower(q.k, Cardinality(q.admissible)))

\* A search whose effort is as large as the filter is selective is exact, order
\* and ties included: greed costs recall only beyond that.
SearchIsExact ==
    hits # NoHits /\ hits.visits < VisitLimit
        /\ Ef(hits.query) >= Cardinality(hits.query.admissible)
    => hits.rows = Nearest(hits.query)

=============================================================================
