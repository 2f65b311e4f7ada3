-------------------------- MODULE VectorGraphProofs --------------------------
(***************************************************************************)
(* Proofs about VectorGraph, for every table of distances, every number of *)
(* vectors and of layers, and all budgets: the invariant of the graph      *)
(* while it is built, that its repair joins all components, and that a     *)
(* search, whatever its filter, finds what it should.                      *)
(***************************************************************************)
EXTENDS VectorGraph, ListLemmas

\* An insertion is under way.
Inserting == pc \in {"wire", "link"}

\* The nodes whose insertion is over.
Settled == {i \in Nodes : Inserting => i # New}

\* The new node is wired on layer l.
Wired(l) ==
    Inserting /\ l <= level[New] /\ l <= top /\ (l > layer \/ (pc = "link" /\ l = layer))

GraphTypeOK ==
    /\ at \in Seq(Points) /\ Len(at) \in 0..Size
    /\ level \in [Nodes -> Layers]
    /\ graph \in [Layers -> UNION {[D -> Seq(Nodes)] : D \in SUBSET Nodes}]
    /\ entry \in 0..Len(at) /\ (entry = 0 <=> Len(at) = 0) /\ (entry = 0 => pc = "insert")
    /\ top \in Layers /\ layer \in Layers
    /\ pc \in {"insert", "wire", "link", "built", "loaded"}
    /\ points \subseteq Nodes
    /\ links \in Seq(Nodes)

\* A settled node is on the layers up to its level, the new one where it is wired.
Placed ==
    pc # "loaded" =>
        \A l \in Layers : DOMAIN graph[l] =
            {i \in Settled : level[i] >= l} \union {i \in {New} : Wired(l)}

\* The entry point is a settled node, and none is higher.
EntryIsTop ==
    entry # 0 => entry \in Settled /\ level[entry] = top /\ \A i \in Settled : level[i] <= top

\* Edges lead to nodes of their layer.
WithinLayer == \A l \in Layers : \A i \in DOMAIN graph[l] : ToSet(graph[l][i]) \subseteq DOMAIN graph[l]

\* The search of the next layer begins on it, and not at the new node.
StartsThere ==
    Inserting =>
        /\ entry # 0 /\ layer <= level[New] /\ layer <= top
        /\ points # {} /\ \A i \in points : i \in Settled /\ level[i] >= layer

\* What is to be linked back is an edge of the new node, and not linked yet.
LinksAhead ==
    pc = "link" =>
        /\ IsInjective(links) /\ ToSet(links) \subseteq ToSet(graph[layer][New])
        /\ \A j \in ToSet(links) : New \notin ToSet(graph[layer][j])

\* Where it is wired the new node has an edge.
WiredLinked == \A l \in Layers : Wired(l) => graph[l][New] # <<>>

GraphInv ==
    /\ GraphTypeOK /\ Placed /\ EntryIsTop /\ WithinLayer /\ StartsThere
    /\ EdgesGoBothWays /\ LinksAhead /\ WiredLinked /\ BornLinked /\ AllReachable

-----------------------------------------------------------------------------
(* Lists.                                                                  *)

\* A list without one of its elements.
LEMMA Removing ==
    ASSUME NEW S, NEW s \in Seq(S), IsInjective(s), NEW e
    PROVE  /\ RemoveFirst(s, e) \in Seq(S) /\ IsInjective(RemoveFirst(s, e))
           /\ Len(RemoveFirst(s, e)) = IF e \in ToSet(s) THEN Len(s) - 1 ELSE Len(s)
           /\ ToSet(RemoveFirst(s, e)) = ToSet(s) \ {e}
<1>1. PICK N \in Nat : N = Len(s) /\ DOMAIN s = 1..N
  BY LenProperties
<1>2. CASE e \notin ToSet(s)
  <2>1. RemoveFirst(s, e) = s
    BY <1>1, <1>2 DEF RemoveFirst, ToSet
  <2> QED BY <1>2, <2>1
<1>3. CASE e \in ToSet(s)
  <2>1. PICK k \in 1..N : s[k] = e
    BY <1>1, <1>3 DEF ToSet
  <2>2. {i \in 1..Len(s) : s[i] = e} = {k}
    BY <1>1, <2>1 DEF IsInjective
  <2>3. Min({k}) = k
    BY DEF Min
  <2>4. RemoveFirst(s, e) = SubSeq(s, 1, k - 1) \o SubSeq(s, k + 1, N)
    <3>1. SelectInSeq(s, LAMBDA v : v = e) = k
      BY <2>2, <2>3 DEF SelectInSeq
    <3> QED BY <1>1, <2>1, <3>1 DEF RemoveFirst, RemoveAt
  <2>5. PICK t, u : t = SubSeq(s, 1, k - 1) /\ u = SubSeq(s, k + 1, N)
    OBVIOUS
  <2>6. /\ t \in Seq(S) /\ Len(t) = (k - 1) - 1 + 1 /\ IsInjective(t)
        /\ ToSet(t) = {s[i] : i \in 1..k - 1}
    <3>1. PICK a \in 1..Len(s) + 1, b \in 0..Len(s) : a = 1 /\ b = k - 1
      BY <1>1
    <3>2. b \in a - 1..Len(s)
      BY <3>1
    <3>3. /\ t \in Seq(S) /\ Len(t) = b - a + 1 /\ IsInjective(t) /\ ToSet(t) = Part(s, a, b)
      BY <2>5, <3>1, <3>2, Slicing
    <3> QED BY <3>1, <3>3 DEF Part
  <2>7. /\ u \in Seq(S) /\ Len(u) = N - (k + 1) + 1 /\ IsInjective(u)
        /\ ToSet(u) = {s[i] : i \in k + 1..N}
    <3>1. PICK a \in 1..Len(s) + 1 : a = k + 1
      BY <1>1
    <3>2. N \in a - 1..Len(s)
      BY <1>1, <3>1
    <3>3. /\ u \in Seq(S) /\ Len(u) = N - a + 1 /\ IsInjective(u) /\ ToSet(u) = Part(s, a, N)
      BY <2>5, <3>1, <3>2, Slicing
    <3> QED BY <3>1, <3>3 DEF Part
  <2>8. \A i \in 1..k - 1, j \in k + 1..N : s[i] # s[j]
    BY <1>1 DEF IsInjective
  <2>9. ToSet(t) \intersect ToSet(u) = {}
    BY <2>6, <2>7, <2>8
  <2>10. ToSet(t) \union ToSet(u) = ToSet(s) \ {e}
    <3>1. \A i \in 1..N : s[i] = e <=> i = k
      BY <1>1, <2>1 DEF IsInjective
    <3>2. \A i : i \in 1..N /\ i # k <=> i \in 1..k - 1 \/ i \in k + 1..N
      OBVIOUS
    <3>3. ToSet(s) \ {e} = {s[i] : i \in 1..N} \ {e}
      BY <1>1 DEF ToSet
    <3> QED BY <2>6, <2>7, <3>1, <3>2, <3>3
  <2>11. Len(t) + Len(u) = N - 1
    BY <2>6, <2>7
  <2>12. /\ t \o u \in Seq(S) /\ Len(t \o u) = Len(t) + Len(u)
         /\ IsInjective(t \o u) /\ ToSet(t \o u) = ToSet(t) \union ToSet(u)
    <3>1. t \in Seq(S) /\ u \in Seq(S) /\ IsInjective(t) /\ IsInjective(u)
      BY <2>6, <2>7
    <3> QED BY <2>9, <3>1, Joining
  <2> QED BY <1>1, <1>3, <2>4, <2>5, <2>10, <2>11, <2>12
<1> QED BY <1>2, <1>3

\* One element takes the place of another.
Replaced(s, i, e) == [s EXCEPT ![i] = e]

\* The others stay.
LEMMA Replacing ==
    ASSUME NEW S, NEW s \in Seq(S), IsInjective(s), NEW i \in 1..Len(s), NEW e \in S, e \notin ToSet(s)
    PROVE  /\ Replaced(s, i, e) \in Seq(S) /\ IsInjective(Replaced(s, i, e))
           /\ Len(Replaced(s, i, e)) = Len(s)
           /\ ToSet(Replaced(s, i, e)) = (ToSet(s) \ {s[i]}) \union {e}
<1>1. PICK t : t = Replaced(s, i, e) /\ t = [s EXCEPT ![i] = e]
  BY DEF Replaced
<1>2. PICK n \in Nat : n = Len(s) /\ DOMAIN s = 1..n
  BY LenProperties
<1>3. t \in Seq(S) /\ Len(t) = n /\ DOMAIN t = 1..n
  BY <1>1, <1>2, ExceptSeq
<1>4. \A k \in 1..n : t[k] = IF k = i THEN e ELSE s[k]
  BY <1>1, <1>2
<1>5. \A k \in 1..n : s[k] # e
  BY <1>2 DEF ToSet
<1>6. \A j, k \in 1..n : s[j] = s[k] => j = k
  BY <1>2 DEF IsInjective
<1>7. IsInjective(t)
  BY <1>3, <1>4, <1>5, <1>6 DEF IsInjective
<1>8. ToSet(t) = (ToSet(s) \ {s[i]}) \union {e}
  <2>1. ToSet(t) = {t[k] : k \in 1..n} /\ ToSet(s) = {s[k] : k \in 1..n}
    BY <1>2, <1>3 DEF ToSet
  <2>2. i \in 1..n
    BY <1>2
  <2> QED BY <1>4, <1>5, <1>6, <2>1, <2>2
<1> QED BY <1>1, <1>2, <1>3, <1>7, <1>8

-----------------------------------------------------------------------------
(* Orders.                                                                 *)

\* The nodes in the order of their distances are all there, each once.
LEMMA SortedLists ==
    ASSUME at \in Seq(Points), NEW p \in Points, NEW S \in SUBSET Nodes
    PROVE  /\ IsFiniteSet(S) /\ Cardinality(S) \in Nat
           /\ Sorted(p, S) \in [1..Cardinality(S) -> S]
           /\ IsInjective(Sorted(p, S))
           /\ ToSet(Sorted(p, S)) = S
<1>1. Len(at) \in Nat /\ Nodes = 1..Len(at)
  BY LenProperties DEF Nodes
<1>2. IsFiniteSet(S) /\ Cardinality(S) \in Nat
  <2>1. IsFiniteSet(1..Len(at))
    BY <1>1, FS_Interval
  <2>2. IsFiniteSet(S)
    BY <1>1, <2>1, FS_Subset
  <2> QED BY <2>2, FS_CardinalityType
<1>3. \A i \in S : From(p, i) \in Nat /\ i \in Nat
  <2>1. \A i \in S : at[i] \in Points
    BY <1>1
  <2>2. \A x \in Points : Distance[<<p, x>>] \in Nat
    BY GraphAssumption
  <2> QED BY <1>1, <2>1, <2>2 DEF From
<1>4. PICK R : R = {e \in S \X S : Closer(p, e[1], e[2])}
  OBVIOUS
<1>5. \A i, j \in S : <<i, j>> \in R <=> Closer(p, i, j)
  BY <1>4
<1>6. Orders(R, S)
  BY <1>3, <1>5 DEF Orders, Closer
<1>7. Sorted(p, S) = Sorting(R, S)
  <2> DEFINE Here(n) == CHOOSE i \in S : Cardinality({j \in S : Closer(p, j, i)}) = n - 1
             There(n) == CHOOSE i \in S : Cardinality({j \in S : <<j, i>> \in R}) = n - 1
  <2>1. \A k \in S : {j \in S : Closer(p, j, k)} = {j \in S : <<j, k>> \in R}
    BY <1>5
  <2>2. \A n : Here(n) = There(n)
    BY <2>1, Zenon
  <2>3. Sorted(p, S) = [n \in 1..Cardinality(S) |-> Here(n)]
    BY DEF Sorted
  <2>4. Sorting(R, S) = [n \in 1..Cardinality(S) |-> There(n)]
    BY DEF Sorting
  <2> HIDE DEF Here, There
  <2> QED BY <2>2, <2>3, <2>4
<1>8. PICK N, s : N = Cardinality(S) /\ s = Sorting(R, S)
  OBVIOUS
<1>9. s \in [1..N -> S] /\ IsInjective(s) /\ ToSet(s) = S
  BY <1>2, <1>6, <1>8, SortingSorts
<1> QED BY <1>2, <1>7, <1>8, <1>9

-----------------------------------------------------------------------------
(* The selection of neighbours.                                            *)

\* The near ones that are kept are some of those given, each once, and not too many.
LEMMA DiverseOnes ==
    ASSUME NEW p, NEW S, NEW near \in Seq(S), IsInjective(near), NEW m \in Nat
    PROVE  /\ Diverse(p, near, m) \in Seq(S) /\ IsInjective(Diverse(p, near, m))
           /\ ToSet(Diverse(p, near, m)) \subseteq ToSet(near) /\ Len(Diverse(p, near, m)) <= m
<1> DEFINE Sat(g) == g = [n \in 0..Len(near) |-> IF n = 0 THEN <<>> ELSE Keep(p, m, g[n - 1], near[n])]
<1>1. PICK N \in Nat : N = Len(near) /\ DOMAIN near = 1..N
  BY LenProperties
<1>2. \A s \in Seq(S), n \in 1..N : Keep(p, m, s, near[n]) \in Seq(S)
  BY <1>1, ElementOfSeq, AppendProperties DEF Keep
<1>3. \E g : Sat(g)
  <2>1. PICK T, a, G : /\ T = Seq(S) /\ a = <<>>
                       /\ G = [n \in 1..N |-> [x \in Seq(S) |-> Keep(p, m, x, near[n])]]
    OBVIOUS
  <2>2. a \in T /\ G \in Steps(N, T)
    BY <1>2, <2>1, EmptySeq DEF Steps
  <2>3. PICK f \in [0..N -> T] : f[0] = a /\ \A n \in 1..N : f[n] = G[n][f[n - 1]]
    <3>1. Runs(N, T, a, G) # {}
      BY <2>2, Iterates
    <3> QED BY <3>1 DEF Runs
  <2>4. ASSUME NEW n \in 1..N PROVE f[n] = Keep(p, m, f[n - 1], near[n])
    <3>1. f[n - 1] \in T
      BY <2>3
    <3> QED BY <2>1, <2>3, <3>1
  <2>5. Sat(f)
    BY <1>1, <2>1, <2>3, <2>4
  <2> QED BY <2>5
<1>4. PICK g : g = CHOOSE h : Sat(h)
  OBVIOUS
<1>5. Diverse(p, near, m) = g[N]
  BY <1>1, <1>4 DEF Diverse
<1>6. Sat(g)
  <2> HIDE DEF Sat
  <2> QED BY <1>3, <1>4
<1>7. g[0] = <<>> /\ \A n \in 1..N : g[n] = Keep(p, m, g[n - 1], near[n])
  BY <1>1, <1>6
<1> HIDE DEF Sat
<1> DEFINE Ok(n) == /\ g[n] \in Seq(S) /\ IsInjective(g[n]) /\ Len(g[n]) <= m
                    /\ ToSet(g[n]) \subseteq {near[k] : k \in 1..n}
           P == [n \in 0..N |-> Ok(n)]
<1>8. Ok(0)
  <2>1. <<>> \in Seq(S) /\ Len(<<>>) = 0 /\ DOMAIN <<>> = {}
    BY EmptySeq
  <2> QED BY <1>7, <2>1 DEF IsInjective, ToSet
<1>9. ASSUME NEW n \in 1..N, Ok(n - 1) PROVE Ok(n)
  <2>1. n - 1 \in 0..N /\ near[n] \in S
    BY <1>1, ElementOfSeq
  <2>2. CASE g[n] = g[n - 1]
    <3>1. {near[k] : k \in 1..n - 1} \subseteq {near[k] : k \in 1..n}
      OBVIOUS
    <3> QED BY <1>9, <2>2, <3>1
  <2>3. CASE Len(g[n - 1]) < m /\ g[n] = Append(g[n - 1], near[n])
    <3>1. near[n] \notin ToSet(g[n - 1])
      <4>1. \A k \in 1..n - 1 : near[k] # near[n]
        BY <1>1 DEF IsInjective
      <4> QED BY <1>9, <4>1
    <3>2. /\ g[n] \in Seq(S) /\ Len(g[n]) = Len(g[n - 1]) + 1
          /\ IsInjective(g[n]) /\ ToSet(g[n]) = ToSet(g[n - 1]) \union {near[n]}
      BY <1>9, <2>1, <2>3, <3>1, Appending
    <3>3. Len(g[n - 1]) \in Nat
      BY <1>9, LenProperties
    <3>4. {near[k] : k \in 1..n - 1} \subseteq {near[k] : k \in 1..n} /\ near[n] \in {near[k] : k \in 1..n}
      OBVIOUS
    <3> QED BY <1>9, <2>3, <3>2, <3>3, <3>4
  <2> QED BY <1>7, <2>2, <2>3 DEF Keep
<1>10. \A n \in 0..N : Ok(n)
  <2> HIDE DEF Ok
  <2>1. P \in [0..N -> BOOLEAN]
    BY DEF Ok
  <2>2. P[0] /\ \A n \in 1..N : P[n - 1] => P[n]
    BY <1>8, <1>9
  <2> HIDE DEF P
  <2>3. \A n \in 0..N : P[n]
    BY <2>1, <2>2, UpTo
  <2> QED BY <2>3 DEF P
<1>11. {near[k] : k \in 1..N} = ToSet(near)
  BY <1>1 DEF ToSet
<1>12. Ok(N)
  <2> HIDE DEF Ok
  <2> QED BY <1>10
<1> QED BY <1>1, <1>5, <1>11, <1>12

\* The neighbours are chosen from S, each once, as many as there are up to m.
LEMMA Selecting ==
    ASSUME at \in Seq(Points), NEW p \in Points, NEW S \in SUBSET Nodes, NEW m \in Nat
    PROVE  /\ SelectNeighbours(p, S, m) \in Seq(S) /\ IsInjective(SelectNeighbours(p, S, m))
           /\ ToSet(SelectNeighbours(p, S, m)) \subseteq S
           /\ Len(SelectNeighbours(p, S, m)) = Lower(Cardinality(S), m)
<1>1. PICK near, c : near = Sorted(p, S) /\ c = Cardinality(S)
  OBVIOUS
<1>2. /\ IsFiniteSet(S) /\ c \in Nat
      /\ near \in [1..c -> S] /\ IsInjective(near) /\ ToSet(near) = S
  BY <1>1, SortedLists
<1>3. near \in Seq(S)
  BY <1>2, SeqDef
<1>4. PICK kept : kept = Diverse(p, near, m)
  OBVIOUS
<1>5. kept \in Seq(S) /\ IsInjective(kept) /\ ToSet(kept) \subseteq S /\ Len(kept) <= m
  BY <1>2, <1>3, <1>4, DiverseOnes
<1>6. PICK k \in Nat : k = Len(kept) /\ k = Cardinality(ToSet(kept)) /\ IsFiniteSet(ToSet(kept))
  BY <1>5, Distinct
<1>7. PICK R, others, r : R = S \ ToSet(kept) /\ others = Sorted(p, R) /\ r = Cardinality(R)
  OBVIOUS
<1>8. R \in SUBSET Nodes
  BY <1>7
<1>9. r \in Nat /\ others \in [1..r -> R] /\ IsInjective(others) /\ ToSet(others) = R
  BY <1>7, <1>8, SortedLists
<1>10. r = c - k
  <2>1. S \intersect ToSet(kept) = ToSet(kept)
    BY <1>5
  <2>2. Cardinality(S \ ToSet(kept)) = Cardinality(S) - Cardinality(S \intersect ToSet(kept))
    BY <1>2, FS_Difference
  <2> QED BY <1>1, <1>6, <1>7, <2>1, <2>2
<1>11. others \in Seq(S) /\ Len(others) = r
  <2>1. others \in [1..r -> S]
    BY <1>7, <1>9
  <2> QED BY <1>9, <2>1, Listed
<1>12. PICK b \in 0..r : b = IF r < m - k THEN r ELSE m - k
  BY <1>5, <1>6, <1>9
<1>13. PICK rest : rest = SubSeq(others, 1, b)
  OBVIOUS
<1>14. /\ rest \in Seq(S) /\ Len(rest) = b - 1 + 1 /\ IsInjective(rest)
       /\ ToSet(rest) = {others[i] : i \in 1..b}
  <2>1. PICK a \in 1..Len(others) + 1 : a = 1
    BY <1>9, <1>11
  <2>2. b \in a - 1..Len(others)
    BY <1>9, <1>11, <1>12, <2>1
  <2>3. /\ rest \in Seq(S) /\ Len(rest) = b - a + 1 /\ IsInjective(rest)
        /\ ToSet(rest) = Part(others, a, b)
    <3>1. others \in Seq(S) /\ IsInjective(others)
      BY <1>9, <1>11
    <3> QED BY <1>13, <2>1, <2>2, <3>1, Slicing
  <2> QED BY <2>1, <2>3 DEF Part
<1>15. ToSet(kept) \intersect ToSet(rest) = {}
  <2>1. \A i \in 1..b : others[i] \in R
    BY <1>9
  <2> QED BY <1>7, <1>14, <2>1
<1>16. /\ kept \o rest \in Seq(S) /\ Len(kept \o rest) = Len(kept) + Len(rest)
       /\ IsInjective(kept \o rest) /\ ToSet(kept \o rest) = ToSet(kept) \union ToSet(rest)
  <2>1. kept \in Seq(S) /\ rest \in Seq(S) /\ IsInjective(kept) /\ IsInjective(rest)
    BY <1>5, <1>14
  <2> QED BY <1>15, <2>1, Joining
<1>17. SelectNeighbours(p, S, m) = kept \o rest
  <2>1. SelectNeighbours(p, S, m) = kept \o SubSeq(others, 1, IF Len(others) < m - Len(kept) THEN Len(others)
                                                              ELSE m - Len(kept))
    BY <1>1, <1>4, <1>7 DEF SelectNeighbours
  <2> QED BY <1>6, <1>11, <1>12, <1>13, <2>1
<1>18. ToSet(rest) \subseteq S
  <2>1. \A i \in 1..b : others[i] \in R
    BY <1>9
  <2> QED BY <1>7, <1>14, <2>1
<1>19. Len(kept) + Len(rest) = Lower(c, m)
  BY <1>2, <1>5, <1>6, <1>10, <1>12, <1>14, SMTT(20) DEF Lower
<1> QED BY <1>1, <1>5, <1>16, <1>17, <1>18, <1>19

-----------------------------------------------------------------------------
(* The search of a layer.                                                  *)

\* What a search on the nodes D keeps; it never loses all it has found.
SearchStates(D) ==
    [frontier : SUBSET D, visited : SUBSET D, visits : Nat, over : BOOLEAN,
     results : (SUBSET D) \ {{}}]

\* What a search knows keeps its shape when it meets a neighbour.
LEMMA Visiting ==
    ASSUME NEW D, IsFiniteSet(D), NEW p, NEW ef \in Nat \ {0}, NEW admissible, NEW seen,
           NEW s \in SearchStates(D), NEW i \in D
    PROVE  Visit(p, ef, admissible, seen, s, i) \in SearchStates(D)
<1>1. PICK met : met = [s EXCEPT !.visited = @ \union {i}, !.visits = @ + 1]
  OBVIOUS
<1>2. PICK grown, worst : /\ grown = s.results \union ({i} \intersect admissible)
                          /\ worst = Farthest(p, grown)
  OBVIOUS
<1>0. /\ s.frontier \in SUBSET D /\ s.visited \in SUBSET D /\ s.visits \in Nat
      /\ s.over \in BOOLEAN /\ s.results \in SUBSET D /\ s.results # {}
  BY DEF SearchStates
<1>3. met \in SearchStates(D)
  <2>1. PICK v, k : v = s.visited \union {i} /\ k = s.visits + 1
    OBVIOUS
  <2>2. v \in SUBSET D /\ k \in Nat
    BY <1>0, <2>1
  <2>3. met = [s EXCEPT !.visited = v, !.visits = k]
    BY <1>1, <2>1 DEF SearchStates
  <2> QED BY <2>2, <2>3 DEF SearchStates
<1>4. grown \in SUBSET D /\ grown # {}
  BY <1>0, <1>2
<1>5. Cardinality(grown) > ef => grown \ {worst} # {}
  <2> SUFFICES ASSUME Cardinality(grown) > ef, grown = {worst} PROVE FALSE
    BY <1>4
  <2>1. Cardinality(grown) = 1
    BY FS_Singleton
  <2> QED BY <2>1
<1>6. PICK f, r : /\ f = s.frontier \union (IF Walks(i, admissible) THEN {i} ELSE {})
                  /\ r = IF Cardinality(grown) > ef THEN grown \ {worst} ELSE grown
  OBVIOUS
<1>7. f \in SUBSET D /\ r \in (SUBSET D) \ {{}}
  BY <1>0, <1>4, <1>5, <1>6
<1>8. [met EXCEPT !.frontier = f, !.results = r] \in SearchStates(D)
  BY <1>3, <1>7 DEF SearchStates
<1>9. [met EXCEPT !.frontier = @ \union (IF Walks(i, admissible) THEN {i} ELSE {}),
                  !.results = IF Cardinality(grown) > ef THEN grown \ {worst} ELSE grown]
      = [met EXCEPT !.frontier = f, !.results = r]
  BY <1>1, <1>3, <1>6 DEF SearchStates
<1> QED BY <1>1, <1>2, <1>3, <1>8, <1>9 DEF Visit

\* It keeps its shape when a node is expanded, too.
LEMMA Expanding ==
    ASSUME NEW D, IsFiniteSet(D), NEW l, \A i : Adjacent(graph[l], i) \in Seq(D), NEW p,
           NEW ef \in Nat \ {0}, NEW admissible, NEW budget \in Nat, NEW s \in SearchStates(D)
    PROVE  Expand(p, ef, l, admissible, budget, s) \in SearchStates(D)
<1>1. PICK node : node = Sorted(p, s.frontier)[1]
  OBVIOUS
<1>2. PICK next, N : next = Adjacent(graph[l], node) /\ N = Len(next)
  OBVIOUS
<1>3. next \in Seq(D)
  BY <1>2
<1>4. N \in Nat /\ \A n \in 1..N : next[n] \in D
  BY <1>2, <1>3, LenProperties, ElementOfSeq
<1>5. PICK first : first = [s EXCEPT !.frontier = @ \ {node}]
  OBVIOUS
<1>6. first \in SearchStates(D)
  BY <1>5 DEF SearchStates
<1> DEFINE Sat(g) == g = [n \in 0..Len(next) |->
               IF n = 0 THEN [s EXCEPT !.frontier = @ \ {node}]
               ELSE Visit(p, ef, admissible, s.visited, g[n - 1], next[n])]
<1>7. \A x \in SearchStates(D), n \in 1..N :
         Visit(p, ef, admissible, s.visited, x, next[n]) \in SearchStates(D)
  BY <1>4, Visiting
<1>8. \E g : Sat(g)
  <2>1. PICK T, G : /\ T = SearchStates(D)
                    /\ G = [n \in 1..N |->
                              [x \in T |-> Visit(p, ef, admissible, s.visited, x, next[n])]]
    OBVIOUS
  <2>2. first \in T /\ G \in Steps(N, T)
    BY <1>6, <1>7, <2>1 DEF Steps
  <2>3. PICK f \in [0..N -> T] : f[0] = first /\ \A n \in 1..N : f[n] = G[n][f[n - 1]]
    <3>1. Runs(N, T, first, G) # {}
      BY <1>4, <2>2, Iterates
    <3> QED BY <3>1 DEF Runs
  <2>4. ASSUME NEW n \in 1..N
        PROVE f[n] = Visit(p, ef, admissible, s.visited, f[n - 1], next[n])
    <3>1. f[n - 1] \in T
      BY <1>4, <2>3
    <3> QED BY <2>1, <2>3, <3>1
  <2>5. Sat(f)
    BY <1>2, <1>4, <1>5, <2>3, <2>4
  <2> QED BY <2>5
<1>9. PICK g : g = CHOOSE h : Sat(h)
  OBVIOUS
<1>10. Sat(g)
  <2> HIDE DEF Sat
  <2> QED BY <1>8, <1>9
<1>11. g[0] = first /\ \A n \in 1..N : g[n] = Visit(p, ef, admissible, s.visited, g[n - 1], next[n])
  <2>1. \A n \in 0..N : g[n] = IF n = 0 THEN first
                              ELSE Visit(p, ef, admissible, s.visited, g[n - 1], next[n])
    BY <1>2, <1>5, <1>10
  <2>2. 0 \in 0..N /\ \A n \in 1..N : n \in 0..N /\ n # 0
    BY <1>4
  <2>3. g[0] = first
    BY <2>1, <2>2
  <2>4. ASSUME NEW n \in 1..N PROVE g[n] = Visit(p, ef, admissible, s.visited, g[n - 1], next[n])
    BY <2>1, <2>2
  <2> QED BY <2>3, <2>4
<1>12. g[N] \in SearchStates(D)
  <2> HIDE DEF Sat
  <2>1. PICK T : T = SearchStates(D)
    OBVIOUS
  <2>2. g[0] \in T /\ \A n \in 1..N : g[n - 1] \in T => g[n] \in T
    BY <1>6, <1>7, <1>11, <2>1
  <2>3. \A n \in 0..N : g[n] \in T
    BY <1>4, <2>2, Stays
  <2> QED BY <1>4, <2>1, <2>3
<1>13. PICK all : all = g[N] /\ all = Meet(p, ef, admissible, s, node, next)
  BY <1>2, <1>9 DEF Meet
<1>14. [all EXCEPT !.over = all.visits # s.visits /\ all.visits >= budget] \in SearchStates(D)
  <2>1. all.visits \in Nat
    BY <1>12, <1>13 DEF SearchStates
  <2>2. PICK o : o = (all.visits # s.visits /\ all.visits >= budget)
    OBVIOUS
  <2>4. o \in BOOLEAN
    BY <2>1, <2>2
  <2>3. [all EXCEPT !.over = o] \in SearchStates(D)
    BY <1>12, <1>13, <2>4 DEF SearchStates
  <2> QED BY <2>2, <2>3
<1>15. [s EXCEPT !.over = TRUE] \in SearchStates(D)
  BY DEF SearchStates
<1>16. \/ Expand(p, ef, l, admissible, budget, s) = s
       \/ Expand(p, ef, l, admissible, budget, s) = [s EXCEPT !.over = TRUE]
       \/ Expand(p, ef, l, admissible, budget, s) =
             [all EXCEPT !.over = all.visits # s.visits /\ all.visits >= budget]
  BY <1>1, <1>2, <1>13 DEF Expand
<1> QED BY <1>14, <1>15, <1>16

\* A search that starts on the nodes D of a layer finds some of them.
LEMMA Searching ==
    ASSUME Len(at) \in Nat,
           NEW D, IsFiniteSet(D), NEW l, \A i : Adjacent(graph[l], i) \in Seq(D), NEW p,
           NEW from \in SUBSET D, NEW ef \in Nat \ {0}, NEW admissible,
           from \intersect admissible # {}, NEW budget \in Nat
    PROVE  SearchLayer(p, from, ef, l, admissible, budget).results \in (SUBSET D) \ {{}}
<1>1. PICK first : first = [frontier |-> from, visited |-> from, visits |-> 0, over |-> FALSE,
                            results |-> from \intersect admissible]
  OBVIOUS
<1>2. first \in SearchStates(D)
  BY <1>1 DEF SearchStates
<1> DEFINE Sat(g) == g = [n \in 0..Len(at) |->
               IF n = 0 THEN first ELSE Expand(p, ef, l, admissible, budget, g[n - 1])]
<1>3. PICK N \in Nat : N = Len(at)
  OBVIOUS
<1>4. \A x \in SearchStates(D) : Expand(p, ef, l, admissible, budget, x) \in SearchStates(D)
  BY Expanding
<1>5. PICK T, G : /\ T = SearchStates(D)
                  /\ G = [n \in 1..N |-> [x \in T |-> Expand(p, ef, l, admissible, budget, x)]]
  OBVIOUS
<1>6. \E g : Sat(g)
  <2>1. first \in T /\ G \in Steps(N, T)
    BY <1>2, <1>4, <1>5 DEF Steps
  <2>2. PICK f \in [0..N -> T] : f[0] = first /\ \A n \in 1..N : f[n] = G[n][f[n - 1]]
    <3>1. Runs(N, T, first, G) # {}
      BY <1>3, <2>1, Iterates
    <3> QED BY <3>1 DEF Runs
  <2>3. ASSUME NEW n \in 1..N PROVE f[n] = Expand(p, ef, l, admissible, budget, f[n - 1])
    <3>1. f[n - 1] \in T
      BY <1>3, <2>2
    <3> QED BY <1>5, <2>2, <3>1
  <2>4. Sat(f)
    BY <1>3, <2>2, <2>3
  <2> QED BY <2>4
<1>7. PICK g : g = CHOOSE h : Sat(h)
  OBVIOUS
<1>8. Sat(g)
  <2> HIDE DEF Sat
  <2> QED BY <1>6, <1>7
<1>9. g[0] = first /\ \A n \in 1..N : g[n] = Expand(p, ef, l, admissible, budget, g[n - 1])
  BY <1>3, <1>8
<1>10. SearchLayer(p, from, ef, l, admissible, budget) = g[N]
  BY <1>1, <1>3, <1>7 DEF SearchLayer
<1>11. g[N] \in T
  <2> HIDE DEF Sat
  <2>1. g[0] \in T /\ \A n \in 1..N : g[n - 1] \in T => g[n] \in T
    BY <1>2, <1>4, <1>5, <1>9
  <2>2. \A n \in 0..N : g[n] \in T
    BY <1>3, <2>1, Stays
  <2> QED BY <1>3, <2>2
<1> QED BY <1>5, <1>10, <1>11 DEF SearchStates

-----------------------------------------------------------------------------
(* The layers.                                                             *)

\* The nodes are the first numbers.
LEMMA NodesAreFinite ==
    ASSUME GraphTypeOK
    PROVE  Len(at) \in Nat /\ Nodes = 1..Len(at) /\ IsFiniteSet(Nodes) /\ \A S \in SUBSET Nodes : IsFiniteSet(S)
<1>1. Len(at) \in Nat /\ Nodes = 1..Len(at)
  BY LenProperties DEF GraphTypeOK, Nodes
<1>2. IsFiniteSet(1..Len(at))
  <2>1. PICK n \in Nat : n = Len(at)
    BY <1>1
  <2> QED BY <2>1, Counted
<1> QED BY <1>1, <1>2, FS_Subset

\* The lists of edges of a layer D.
LEMMA EdgesOfLayer ==
    ASSUME GraphTypeOK, WithinLayer, NEW l \in Layers, NEW D, D = DOMAIN graph[l]
    PROVE  /\ D \in SUBSET Nodes /\ graph[l] \in [D -> Seq(D)]
           /\ \A i : Adjacent(graph[l], i) \in Seq(D)
<1>1. D \in SUBSET Nodes /\ graph[l] \in [D -> Seq(Nodes)]
  BY DEF GraphTypeOK
<1>2. ASSUME NEW i \in D PROVE graph[l][i] \in Seq(D)
  <2>1. PICK s : s = graph[l][i]
    OBVIOUS
  <2>2. s \in Seq(Nodes) /\ ToSet(s) \subseteq D
    BY <1>1, <2>1 DEF WithinLayer
  <2>3. Len(s) \in Nat /\ DOMAIN s = 1..Len(s) /\ s \in [1..Len(s) -> Nodes]
    BY <2>2, LenProperties
  <2>4. s \in [1..Len(s) -> D]
    BY <2>2, <2>3 DEF ToSet
  <2>5. s \in Seq(D)
    BY <2>3, <2>4, SeqDef
  <2> QED BY <2>1, <2>5
<1>3. <<>> \in Seq(D)
  BY EmptySeq
<1> QED BY <1>1, <1>2, <1>3 DEF Adjacent

\* Between insertions a layer has the nodes of its level and above.
LEMMA LayersBetween ==
    ASSUME Placed, pc = "insert", NEW l \in Layers
    PROVE  DOMAIN graph[l] = {i \in Nodes : level[i] >= l}
BY DEF Placed, Settled, Wired, Inserting

\* The layers of a descent, from the entry point down to the layer above `to`.
Descends(p, to, g) ==
    /\ g[0] = {entry}
    /\ \A n \in 0..top : g[n] \in (SUBSET Nodes) \ {{}}
    /\ \A n \in 1..top : g[n] = SearchLayer(p, g[n - 1], 1, top + 1 - n, Nodes, NoBudget).results
    /\ Descent(p, to) = g[top - Lower(to, top)]

\* On each of them a descent is at some nodes, also in an index that was loaded.
LEMMA DescendingStepwise ==
    ASSUME GraphTypeOK, WithinLayer, entry # 0, NEW p, NEW to \in Nat
    PROVE  \E g : Descends(p, to, g)
<1> DEFINE Sat(g) == g = [n \in 0..top |->
               IF n = 0 THEN {entry}
               ELSE SearchLayer(p, g[n - 1], 1, top + 1 - n, Nodes, NoBudget).results]
<1>1. PICK N \in Nat : N = top
  BY GraphAssumption DEF GraphTypeOK, Layers
<1>2. PICK first, T : first = {entry} /\ T = (SUBSET Nodes) \ {{}}
  OBVIOUS
<1>3. first \in T
  <2>1. entry # 0 /\ entry \in 0..Len(at)
    BY DEF GraphTypeOK
  <2> QED BY <1>2, <2>1, NodesAreFinite
<1>4. \A n \in 1..N, x \in T : SearchLayer(p, x, 1, top + 1 - n, Nodes, NoBudget).results \in T
  <2> SUFFICES ASSUME NEW n \in 1..N, NEW x \in T
               PROVE  SearchLayer(p, x, 1, top + 1 - n, Nodes, NoBudget).results \in T
    OBVIOUS
  <2>1. PICK D, l : D = Nodes /\ l = top + 1 - n /\ l \in Layers /\ IsFiniteSet(D)
    BY <1>1, NodesAreFinite, GraphAssumption DEF GraphTypeOK, Layers
  <2>2. PICK E : E = DOMAIN graph[l]
    OBVIOUS
  <2>3. E \in SUBSET D /\ \A i : Adjacent(graph[l], i) \in Seq(E)
    BY <2>1, <2>2, EdgesOfLayer
  <2>4. \A i : Adjacent(graph[l], i) \in Seq(D)
    BY <2>3, SeqMonotonic
  <2>5. x \in SUBSET D /\ x \intersect D # {} /\ Len(at) \in Nat
    BY <1>2, <2>1, NodesAreFinite
  <2>6. PICK ef \in Nat \ {0}, budget \in Nat : ef = 1 /\ budget = NoBudget
    BY GraphAssumption DEF NoBudget
  <2>7. PICK A : A = Nodes
    OBVIOUS
  <2> HIDE DEF Sat
  <2>8. SearchLayer(p, x, ef, l, A, budget).results \in (SUBSET D) \ {{}}
    <3>1. x \in SUBSET D /\ x \intersect A # {} /\ Len(at) \in Nat /\ IsFiniteSet(D)
      BY <2>1, <2>5, <2>7
    <3> QED BY <2>4, <3>1, Searching
  <2> QED BY <1>2, <2>1, <2>6, <2>7, <2>8
<1>5. \E g : Sat(g)
  <2>1. PICK G : G = [n \in 1..N |->
            [x \in T |-> SearchLayer(p, x, 1, top + 1 - n, Nodes, NoBudget).results]]
    OBVIOUS
  <2>2. G \in Steps(N, T)
    BY <1>4, <2>1 DEF Steps
  <2>3. PICK f \in [0..N -> T] : f[0] = first /\ \A n \in 1..N : f[n] = G[n][f[n - 1]]
    <3>1. Runs(N, T, first, G) # {}
      BY <1>3, <2>2, Iterates
    <3> QED BY <3>1 DEF Runs
  <2>4. ASSUME NEW n \in 1..N
        PROVE  f[n] = SearchLayer(p, f[n - 1], 1, top + 1 - n, Nodes, NoBudget).results
    <3>1. f[n - 1] \in T
      BY <2>3
    <3> QED BY <2>1, <2>3, <3>1
  <2>5. Sat(f)
    BY <1>1, <1>2, <2>3, <2>4
  <2> QED BY <2>5
<1>6. PICK g : g = CHOOSE h : Sat(h)
  OBVIOUS
<1>7. Sat(g)
  <2> HIDE DEF Sat
  <2> QED BY <1>5, <1>6
<1>8. /\ g[0] = first
      /\ \A n \in 1..N : g[n] = SearchLayer(p, g[n - 1], 1, top + 1 - n, Nodes, NoBudget).results
  <2>1. \A n \in 0..N : g[n] = IF n = 0 THEN {entry}
                 ELSE SearchLayer(p, g[n - 1], 1, top + 1 - n, Nodes, NoBudget).results
    BY <1>1, <1>7
  <2>2. 0 \in 0..N /\ \A n \in 1..N : n \in 0..N /\ n # 0
    OBVIOUS
  <2>3. g[0] = {entry}
    BY <2>1, <2>2
  <2>4. ASSUME NEW n \in 1..N
        PROVE  g[n] = SearchLayer(p, g[n - 1], 1, top + 1 - n, Nodes, NoBudget).results
    BY <2>1, <2>2
  <2> QED BY <1>2, <2>3, <2>4
<1>9. PICK k \in 0..N : k = top - Lower(to, top)
  BY <1>1 DEF Lower
<1>10. Descent(p, to) = g[k]
  BY <1>6, <1>9 DEF Descent
<1> HIDE DEF Sat
<1>11. g[0] \in T /\ \A n \in 1..N : g[n - 1] \in T => g[n] \in T
  BY <1>3, <1>4, <1>8
<1>12. \A n \in 0..N : g[n] \in T
  BY <1>11, Stays
<1> QED BY <1>1, <1>2, <1>8, <1>9, <1>10, <1>12 DEF Descends

\* The descent ends on the layer above the one it leads to, if there is one.
LEMMA Descending ==
    ASSUME GraphTypeOK, Placed, EntryIsTop, WithinLayer, pc = "insert", entry # 0,
           NEW p, NEW to \in Nat
    PROVE  /\ Descent(p, to) \in (SUBSET Nodes) \ {{}}
           /\ \A i \in Descent(p, to) : level[i] >= Lower(to, top)
<1>1. PICK N \in Nat : N = top
  BY GraphAssumption DEF GraphTypeOK, Layers
<1>2. PICK first, T : first = {entry} /\ T = (SUBSET Nodes) \ {{}}
  OBVIOUS
<1>3. first \in T /\ level[entry] = N /\ Len(at) \in Nat /\ NoBudget \in Nat /\ 1 \in Nat \ {0}
  <2>1. entry \in Nodes /\ level[entry] = top
    BY DEF EntryIsTop, Settled
  <2>2. Len(at) \in Nat
    BY NodesAreFinite
  <2>3. NoBudget \in Nat
    BY GraphAssumption DEF NoBudget
  <2> QED BY <1>1, <1>2, <2>1, <2>2, <2>3
<1>4. \A n \in 1..N : N + 1 - n \in 1..N /\ N + 1 - n \in Layers
  BY <1>1, GraphAssumption DEF GraphTypeOK, Layers
<1>5. ASSUME NEW n \in 1..N, NEW x \in T, NEW D, DOMAIN graph[N + 1 - n] \subseteq D, D \in SUBSET Nodes,
             x \in SUBSET D
      PROVE  SearchLayer(p, x, 1, top + 1 - n, Nodes, NoBudget).results \in (SUBSET D) \ {{}}
  <2>1. PICK l \in Layers : l = top + 1 - n /\ l = N + 1 - n
    BY <1>1, <1>4
  <2>2. PICK E : E = DOMAIN graph[l]
    OBVIOUS
  <2>3. \A i : Adjacent(graph[l], i) \in Seq(E)
    BY <2>2, EdgesOfLayer
  <2>4. E \subseteq D
    BY <1>5, <2>1, <2>2
  <2>5. \A i : Adjacent(graph[l], i) \in Seq(D)
    BY <2>3, <2>4, SeqMonotonic
  <2>6. PICK A : A = Nodes
    OBVIOUS
  <2>7. x \intersect A # {} /\ IsFiniteSet(D)
    BY <1>2, <1>5, <2>6, NodesAreFinite
  <2>8. PICK ef \in Nat \ {0}, budget \in Nat : ef = 1 /\ budget = NoBudget
    BY <1>3
  <2>9. SearchLayer(p, x, ef, l, A, budget).results \in (SUBSET D) \ {{}}
    BY <1>3, <1>5, <2>5, <2>7, Searching
  <2> QED BY <2>1, <2>6, <2>8, <2>9
<1>6. PICK g : Descends(p, to, g)
  BY DescendingStepwise
<1>7. /\ g[0] = first /\ \A n \in 1..N : g[n - 1] \in T /\ g[n] \in T
      /\ \A n \in 1..N : g[n] = SearchLayer(p, g[n - 1], 1, top + 1 - n, Nodes, NoBudget).results
  <2>1. \A n \in 1..N : n - 1 \in 0..N /\ n \in 0..N
    OBVIOUS
  <2> QED BY <1>1, <1>2, <1>6, <2>1 DEF Descends
<1>8. PICK k \in 0..N : k = top - Lower(to, top) /\ N - k = Lower(to, top)
  BY <1>1 DEF Lower
<1>9. Descent(p, to) = g[k]
  BY <1>6, <1>8 DEF Descends
<1> DEFINE Ok(n) == g[n] \in T /\ \A i \in g[n] : level[i] >= N - n
           P == [n \in 0..N |-> Ok(n)]
<1>10. Ok(0)
  BY <1>1, <1>2, <1>3, <1>7
<1>11. ASSUME NEW n \in 1..N, Ok(n - 1) PROVE Ok(n)
  <2>1. PICK D : D = DOMAIN graph[N + 1 - n]
    OBVIOUS
  <2>2. D = {i \in Nodes : level[i] >= N + 1 - n}
    BY <1>4, <2>1, LayersBetween
  <2>3. g[n - 1] \in T /\ \A i \in g[n - 1] : level[i] >= N - (n - 1)
    BY <1>11
  <2>4. N - (n - 1) = N + 1 - n
    OBVIOUS
  <2>5. g[n - 1] \in SUBSET D
    BY <1>2, <2>2, <2>3, <2>4
  <2>6. g[n] \in (SUBSET D) \ {{}}
    <3>1. SearchLayer(p, g[n - 1], 1, top + 1 - n, Nodes, NoBudget).results \in (SUBSET D) \ {{}}
      BY <1>5, <2>1, <2>2, <2>3, <2>5
    <3> QED BY <1>7, <3>1
  <2>7. \A i \in Nodes : level[i] \in Int
    BY DEF GraphTypeOK, Layers
  <2>8. \A i \in g[n] : level[i] >= N - n
    <3> SUFFICES ASSUME NEW i \in g[n] PROVE level[i] >= N - n
      OBVIOUS
    <3>1. i \in Nodes /\ level[i] >= N + 1 - n
      BY <2>2, <2>6
    <3> QED BY <2>7, <3>1
  <2> QED BY <1>2, <2>2, <2>6, <2>8
<1>12. Ok(k)
  <2> HIDE DEF Ok
  <2>1. P \in [0..N -> BOOLEAN]
    BY DEF Ok
  <2>2. P[0] /\ \A n \in 1..N : P[n - 1] => P[n]
    BY <1>10, <1>11
  <2> HIDE DEF P
  <2>3. \A n \in 0..N : P[n]
    BY <2>1, <2>2, UpTo
  <2> QED BY <2>3 DEF P
<1> QED BY <1>2, <1>8, <1>9, <1>12

-----------------------------------------------------------------------------
(* What a node keeps of its edges.                                         *)

\* The last of a list that passes a test is one of them.
LEMMA Rescuing ==
    ASSUME NEW S, NEW kept \in Seq(S), IsInjective(kept), New \in ToSet(kept), NEW b, NEW i \in S
    PROVE  /\ Rescue(b, kept, i) \in Seq(S) /\ IsInjective(Rescue(b, kept, i))
           /\ Len(Rescue(b, kept, i)) = Len(kept) /\ New \in ToSet(Rescue(b, kept, i))
<1>1. PICK n \in Nat : n = Len(kept) /\ DOMAIN kept = 1..n
  BY LenProperties
<1>2. PICK last : last = SelectLastInSeq(kept, LAMBDA j : j # New /\ Len(graph[layer][j]) > 1)
  OBVIOUS
<1>3. PICK I : I = {k \in 1..n : kept[k] # New /\ Len(graph[layer][kept[k]]) > 1}
  OBVIOUS
<1>4. last = IF I # {} THEN Max(I) ELSE 0
  BY <1>1, <1>2, <1>3 DEF SelectLastInSeq
<1>5. I # {} => Max(I) \in I
  <2> SUFFICES ASSUME NEW x \in I PROVE Max(I) \in I
    OBVIOUS
  <2>1. \E m \in I : \A k \in I : m >= k
    <3>1. PICK J : J = {n - k : k \in I}
      OBVIOUS
    <3>2. J \subseteq Nat /\ n - x \in J
      BY <1>3, <3>1
    <3>3. PICK m \in J : \A k \in J : ~(<<k, m>> \in OpToRel(<, Nat))
      BY <3>2, NatLessThanWellFounded, WFMin
    <3>4. PICK y \in I : m = n - y
      BY <3>1
    <3>5. ASSUME NEW k \in I PROVE y >= k
      <4>1. n - k \in J /\ n - k \in Nat /\ m \in Nat
        BY <3>1, <3>2
      <4>2. ~(n - k < m)
        BY <3>3, <4>1 DEF OpToRel
      <4> QED BY <1>3, <3>4, <4>2
    <3> QED BY <3>5
  <2>2. PICK m : m = CHOOSE y \in I : \A k \in I : y >= k
    OBVIOUS
  <2>3. m \in I
    BY <2>1, <2>2
  <2> QED BY <2>2, <2>3 DEF Max
<1>6. CASE i \in ToSet(kept) \/ graph[layer][i] # <<b>> \/ last = 0
  <2>1. Rescue(b, kept, i) = kept
    BY <1>2, <1>6 DEF Rescue
  <2> QED BY <2>1
<1>7. CASE ~(i \in ToSet(kept) \/ graph[layer][i] # <<b>> \/ last = 0)
  <2>1. last \in 1..n /\ kept[last] # New
    BY <1>3, <1>4, <1>5, <1>7
  <2>2. Rescue(b, kept, i) = Replaced(kept, last, i)
    BY <1>2, <1>7 DEF Rescue, Replaced
  <2>3. /\ Replaced(kept, last, i) \in Seq(S) /\ IsInjective(Replaced(kept, last, i))
        /\ Len(Replaced(kept, last, i)) = Len(kept)
        /\ ToSet(Replaced(kept, last, i)) = (ToSet(kept) \ {kept[last]}) \union {i}
    <3>1. last \in 1..Len(kept) /\ i \notin ToSet(kept)
      BY <1>1, <1>7, <2>1
    <3> QED BY <3>1, Replacing
  <2> QED BY <2>1, <2>2, <2>3
<1> QED BY <1>6, <1>7

\* The new node is in what survives.
LEMMA Surviving ==
    ASSUME NEW S, New \in S, NEW chosen \in Seq(S), IsInjective(chosen), chosen # <<>>
    PROVE  /\ Survives(chosen) \in Seq(S) /\ IsInjective(Survives(chosen))
           /\ Len(Survives(chosen)) = Len(chosen) /\ New \in ToSet(Survives(chosen))
<1>1. Len(chosen) \in 1..Len(chosen)
  BY LenProperties, EmptySeq
<1>2. CASE New \in ToSet(chosen)
  BY <1>2 DEF Survives
<1>3. CASE New \notin ToSet(chosen)
  <2>1. PICK last, new : last = Len(chosen) /\ new = New
    OBVIOUS
  <2>2. Survives(chosen) = Replaced(chosen, last, new)
    BY <1>3, <2>1 DEF Survives, Replaced
  <2>3. last \in 1..Len(chosen) /\ new \in S /\ new \notin ToSet(chosen)
    BY <1>1, <1>3, <2>1
  <2>4. /\ Replaced(chosen, last, new) \in Seq(S) /\ IsInjective(Replaced(chosen, last, new))
        /\ Len(Replaced(chosen, last, new)) = Len(chosen)
        /\ ToSet(Replaced(chosen, last, new)) = (ToSet(chosen) \ {chosen[last]}) \union {new}
    BY <2>3, Replacing
  <2> QED BY <2>1, <2>2, <2>4
<1> QED BY <1>2, <1>3

\* And in what is protected.
LEMMA Protecting ==
    ASSUME NEW S, NEW adjacency \in Seq(S), NEW chosen \in Seq(S), IsInjective(chosen),
           New \in ToSet(chosen), NEW b
    PROVE  /\ Protect(b, adjacency, chosen) \in Seq(S) /\ IsInjective(Protect(b, adjacency, chosen))
           /\ Len(Protect(b, adjacency, chosen)) = Len(chosen)
           /\ New \in ToSet(Protect(b, adjacency, chosen))
<1> DEFINE Sat(g) == g = [n \in 0..Len(adjacency) |->
               IF n = 0 THEN chosen ELSE Rescue(b, g[n - 1], adjacency[n])]
<1>1. PICK N \in Nat : N = Len(adjacency) /\ \A n \in 1..N : adjacency[n] \in S
  BY LenProperties, ElementOfSeq
<1>2. PICK T : T = {s \in Seq(S) : IsInjective(s) /\ Len(s) = Len(chosen) /\ New \in ToSet(s)}
  OBVIOUS
<1>3. chosen \in T
  BY <1>2
<1>4. ASSUME NEW n \in 1..N, NEW s \in T PROVE Rescue(b, s, adjacency[n]) \in T
  <2>1. s \in Seq(S) /\ IsInjective(s) /\ Len(s) = Len(chosen) /\ New \in ToSet(s)
    BY <1>2
  <2>2. adjacency[n] \in S
    BY <1>1
  <2>3. /\ Rescue(b, s, adjacency[n]) \in Seq(S) /\ IsInjective(Rescue(b, s, adjacency[n]))
        /\ Len(Rescue(b, s, adjacency[n])) = Len(s) /\ New \in ToSet(Rescue(b, s, adjacency[n]))
    BY <2>1, <2>2, Rescuing
  <2> QED BY <1>2, <2>1, <2>3
<1>5. \E g : Sat(g)
  <2>1. PICK G : G = [n \in 1..N |-> [s \in T |-> Rescue(b, s, adjacency[n])]]
    OBVIOUS
  <2>2. G \in Steps(N, T)
    BY <1>4, <2>1 DEF Steps
  <2>3. PICK f \in [0..N -> T] : f[0] = chosen /\ \A n \in 1..N : f[n] = G[n][f[n - 1]]
    <3>1. Runs(N, T, chosen, G) # {}
      BY <1>3, <2>2, Iterates
    <3> QED BY <3>1 DEF Runs
  <2>4. ASSUME NEW n \in 1..N PROVE f[n] = Rescue(b, f[n - 1], adjacency[n])
    <3>1. f[n - 1] \in T
      BY <2>3
    <3> QED BY <2>1, <2>3, <3>1
  <2>5. Sat(f)
    BY <1>1, <2>3, <2>4
  <2> QED BY <2>5
<1>6. PICK g : g = CHOOSE h : Sat(h)
  OBVIOUS
<1>7. Sat(g)
  <2> HIDE DEF Sat
  <2> QED BY <1>5, <1>6
<1>8. g[0] = chosen /\ \A n \in 1..N : g[n] = Rescue(b, g[n - 1], adjacency[n])
  BY <1>1, <1>7
<1>9. Protect(b, adjacency, chosen) = g[N]
  BY <1>1, <1>6 DEF Protect
<1>10. g[N] \in T
  <2> HIDE DEF Sat
  <2>1. g[0] \in T /\ \A n \in 1..N : g[n - 1] \in T => g[n] \in T
    BY <1>3, <1>4, <1>8
  <2>2. \A n \in 0..N : g[n] \in T
    BY <2>1, Stays
  <2> QED BY <2>2
<1> QED BY <1>2, <1>9, <1>10

\* The edges that Link leaves a neighbour with.
KeptEdges(b) ==
    LET adjacency == Append(graph[layer][b], New)
        chosen == Survives(SelectNeighbours(at[b], ToSet(adjacency), Budget(layer)))
    IN  IF Over(adjacency, layer) THEN Protect(b, adjacency, chosen) ELSE adjacency

\* They are some of those it had and the one to the new node, within the budget.
LEMMA Keeping ==
    ASSUME GraphTypeOK, WithinLayer, EdgesGoBothWays, NEW b \in DOMAIN graph[layer],
           New \in DOMAIN graph[layer], New \notin ToSet(graph[layer][b])
    PROVE  /\ KeptEdges(b) \in Seq(Nodes) /\ IsInjective(KeptEdges(b)) /\ New \in ToSet(KeptEdges(b))
           /\ ToSet(KeptEdges(b)) \subseteq ToSet(graph[layer][b]) \union {New}
           /\ Len(KeptEdges(b)) <= Budget(layer)
<1>1. PICK l, new, D : l = layer /\ new = New /\ D = DOMAIN graph[l]
  OBVIOUS
<1>2. l \in Layers /\ at \in Seq(Points)
  BY <1>1 DEF GraphTypeOK
<1>3. D \in SUBSET Nodes /\ graph[l] \in [D -> Seq(D)]
  BY <1>1, <1>2, EdgesOfLayer
<1>4. PICK edges, adjacency, S : /\ edges = graph[l][b] /\ adjacency = Append(edges, new)
                                 /\ S = ToSet(adjacency)
  OBVIOUS
<1>5. edges \in Seq(Nodes) /\ IsInjective(edges) /\ new \notin ToSet(edges) /\ new \in Nodes
  <2>1. edges \in Seq(D)
    BY <1>1, <1>3, <1>4
  <2>2. edges \in Seq(Nodes)
    BY <1>3, <2>1, SeqMonotonic
  <2>3. IsInjective(edges)
    BY <1>1, <1>2, <1>4 DEF EdgesGoBothWays
  <2> QED BY <1>1, <1>3, <1>4, <2>2, <2>3
<1>6. PICK V : V = Nodes
  OBVIOUS
<1>7. /\ adjacency \in Seq(V) /\ Len(adjacency) = Len(edges) + 1
      /\ IsInjective(adjacency) /\ S = ToSet(edges) \union {new}
  BY <1>4, <1>5, <1>6, Appending
<1>8. adjacency \in Seq(S) /\ S \subseteq V
  BY <1>4, <1>7, Elements
<1>9. PICK m \in Nat \ {0} : m = Budget(l)
  BY GraphAssumption DEF Budget
<1>10. PICK p \in Points : p = at[b]
  BY <1>1, <1>2, <1>3, ElementOfSeq DEF Nodes
<1>11. PICK selected : selected = SelectNeighbours(p, S, m)
  OBVIOUS
<1>12. /\ selected \in Seq(S) /\ IsInjective(selected)
       /\ Len(selected) <= m /\ selected # <<>>
  <2>1. S \in SUBSET Nodes /\ m \in Nat
    BY <1>6, <1>8
  <2>2. selected \in Seq(S) /\ IsInjective(selected) /\ Len(selected) = Lower(Cardinality(S), m)
    BY <1>2, <1>11, <2>1, Selecting
  <2>3. Cardinality(S) \in Nat /\ Cardinality(S) # 0
    <3>1. IsFiniteSet(S)
      BY <2>1, NodesAreFinite
    <3>2. S # {}
      BY <1>7
    <3> QED BY <3>1, <3>2, FS_CardinalityType, FS_EmptySet
  <2>4. Len(<<>>) = 0
    BY EmptySeq
  <2> QED BY <2>2, <2>3, <2>4 DEF Lower
<1>13. PICK chosen : chosen = Survives(selected)
  OBVIOUS
<1>14. /\ chosen \in Seq(S) /\ IsInjective(chosen) /\ Len(chosen) <= m /\ New \in ToSet(chosen)
  <2>1. New \in S
    BY <1>1, <1>7
  <2> QED BY <1>12, <1>13, <2>1, Surviving
<1>15. PICK protected : protected = Protect(b, adjacency, chosen)
  OBVIOUS
<1>16. /\ protected \in Seq(S) /\ IsInjective(protected) /\ Len(protected) <= m
       /\ New \in ToSet(protected)
  BY <1>8, <1>14, <1>15, Protecting
<1>17. PICK kept : kept = IF Over(adjacency, layer) THEN protected ELSE adjacency
  OBVIOUS
<1>18. KeptEdges(b) = kept
  BY <1>1, <1>4, <1>9, <1>10, <1>11, <1>13, <1>15, <1>17 DEF KeptEdges
<1>19. Len(kept) <= m
  <2>1. Len(adjacency) \in Nat
    BY <1>7, LenProperties
  <2> QED BY <1>1, <1>9, <1>16, <1>17, <2>1 DEF Over
<1>20. kept \in Seq(S) /\ IsInjective(kept) /\ New \in ToSet(kept)
  BY <1>1, <1>4, <1>7, <1>8, <1>16, <1>17
<1>21. kept \in Seq(Nodes) /\ ToSet(kept) \subseteq S
  <2>1. kept \in Seq(Nodes)
    BY <1>6, <1>8, <1>20, SeqMonotonic
  <2>2. ToSet(kept) \subseteq S
    BY <1>20, Elements
  <2> QED BY <2>1, <2>2
<1> QED BY <1>1, <1>4, <1>7, <1>9, <1>18, <1>19, <1>20, <1>21

-----------------------------------------------------------------------------
(* The steps of an insertion.                                              *)

\* One more node, and its level.
LEMMA OneMore ==
    ASSUME GraphTypeOK, NEW p \in Points, NEW lv \in Layers, Insert(p, lv)
    PROVE  /\ at' \in Seq(Points) /\ Len(at') = Len(at) + 1 /\ Len(at') \in 0..Size
           /\ Nodes' = Nodes \union {New'} /\ New' = Len(at) + 1 /\ New' \notin Nodes
           /\ level' \in [Nodes' -> Layers] /\ level'[New'] = lv
           /\ \A i \in Nodes : level'[i] = level[i]
           /\ Len(at) \in Nat /\ Nodes = 1..Len(at)
<1>1. Len(at) \in Nat /\ Nodes = 1..Len(at) /\ Len(at) < Size /\ Size \in Nat
  BY NodesAreFinite, GraphAssumption DEF Insert
<1>2. at' \in Seq(Points) /\ Len(at') = Len(at) + 1
  BY AppendProperties DEF Insert, GraphTypeOK
<1>3. Nodes' = Nodes \union {New'} /\ New' = Len(at) + 1 /\ New' \notin Nodes
  BY <1>1, <1>2 DEF Nodes, New
<1>4. PICK n \in Nat : n = Len(at) /\ Nodes = 1..n /\ Nodes' = 1..n + 1
  BY <1>1, <1>2 DEF Nodes
<1>5. level \in Seq(Layers) /\ Len(level) = n
  BY <1>4, Listed DEF GraphTypeOK
<1>6. /\ level' \in Seq(Layers) /\ Len(level') = n + 1
      /\ (\A i \in 1..n : level'[i] = level[i]) /\ level'[n + 1] = lv
  BY <1>5, AppendProperties DEF Insert
<1>7. level' \in [1..n + 1 -> Layers]
  BY <1>6, LenProperties
<1> QED BY <1>1, <1>2, <1>3, <1>4, <1>6, <1>7

\* The first node.
LEMMA FirstInserted ==
    ASSUME GraphInv, NEW p \in Points, NEW lv \in Layers, Insert(p, lv), entry = 0
    PROVE  GraphInv'
<1> USE DEF GraphInv
<1>1. pc = "insert" /\ Len(at) = 0 /\ Nodes = {} /\ New' = 1 /\ Nodes' = {1} /\ Len(at') = 1
  BY OneMore, NodesAreFinite DEF Insert, GraphTypeOK
<1>2. /\ graph' = [l \in Layers |-> IF l <= lv THEN OnLayer(l, 1, <<>>) ELSE graph[l]]
      /\ entry' = 1 /\ top' = lv
      /\ UNCHANGED <<pc, layer, points, links>>
  BY DEF Insert
<1>3. \A l \in Layers : DOMAIN graph[l] = {}
  BY <1>1 DEF GraphTypeOK
<1>4. \A l \in Layers : graph'[l] = IF l <= lv THEN [j \in {1} |-> <<>>] ELSE graph[l]
  BY <1>2, <1>3 DEF OnLayer
<1>5. \A l \in Layers : DOMAIN graph'[l] = IF l <= lv THEN {1} ELSE {}
  BY <1>3, <1>4
<1>6. \A l \in Layers : \A i \in DOMAIN graph'[l] : i = 1 /\ l <= lv /\ graph'[l][i] = <<>>
  BY <1>4, <1>5
<1>7. <<>> \in Seq({1}) /\ ToSet(<<>>) = {} /\ IsInjective(<<>>) /\ Len(<<>>) = 0
  BY EmptySeq DEF ToSet, IsInjective
<1>8. GraphTypeOK'
  <2>1. graph' \in [Layers -> UNION {[D -> Seq(Nodes')] : D \in SUBSET Nodes'}]
    <3>1. ASSUME NEW l \in Layers
          PROVE  graph'[l] \in UNION {[D -> Seq(Nodes')] : D \in SUBSET Nodes'}
      <4>1. PICK D : D = DOMAIN graph'[l]
        OBVIOUS
      <4>2. D \in SUBSET Nodes'
        BY <1>1, <1>5, <4>1
      <4>3. graph'[l] \in [D -> Seq(Nodes')]
        BY <1>1, <1>3, <1>4, <1>5, <1>7, <4>1 DEF GraphTypeOK
      <4> QED BY <4>2, <4>3
    <3> QED BY <1>2, <3>1
  <2>2. links' \in Seq(Nodes')
    <3>1. links \in Seq({})
      BY <1>1 DEF GraphTypeOK
    <3>2. links \in Seq({1})
      BY <3>1, SeqMonotonic
    <3> QED BY <1>1, <1>2, <3>2
  <2> QED BY <1>1, <1>2, <2>1, <2>2, OneMore DEF GraphTypeOK, Layers
<1>9. level'[1] = lv /\ ~Inserting' /\ Settled' = {1}
  BY <1>1, <1>2, OneMore DEF Inserting, Settled
<1>10. Placed'
  BY <1>1, <1>5, <1>9 DEF Placed, Wired
<1>11. EntryIsTop'
  BY <1>2, <1>9 DEF EntryIsTop, Layers
<1>12. WithinLayer'
  BY <1>6, <1>7 DEF WithinLayer
<1>13. StartsThere' /\ LinksAhead' /\ WiredLinked'
  BY <1>1, <1>2, <1>9 DEF StartsThere, LinksAhead, WiredLinked, Wired, Inserting
<1>14. EdgesGoBothWays'
  BY <1>6, <1>7, GraphAssumption DEF EdgesGoBothWays, Budget
<1>15. BornLinked'
  <2>1. 0..lv \subseteq Layers /\ \A l \in 0..lv : l <= lv
    BY GraphAssumption DEF Layers
  <2>2. \A l \in 0..level'[New'] : DOMAIN graph'[l] = {New'}
    BY <1>1, <1>5, <1>9, <2>1
  <2> QED BY <2>2 DEF BornLinked
<1>16. AllReachable'
  BY <1>1, <1>2 DEF AllReachable, Built
<1> QED BY <1>8, <1>10, <1>11, <1>12, <1>13, <1>14, <1>15, <1>16

\* Another node descends.
LEMMA NextInserted ==
    ASSUME GraphInv, NEW p \in Points, NEW lv \in Layers, Insert(p, lv), entry # 0
    PROVE  GraphInv'
<1> USE DEF GraphInv
<1>1. /\ pc = "insert" /\ pc' = "wire" /\ points' = Descent(p, lv) /\ layer' = Lower(lv, top)
      /\ UNCHANGED <<graph, entry, top, links>>
  BY DEF Insert
<1>2. /\ Nodes' = Nodes \union {New'} /\ New' \notin Nodes
      /\ level' \in [Nodes' -> Layers] /\ level'[New'] = lv /\ \A i \in Nodes : level'[i] = level[i]
  BY OneMore
<1>3. lv \in Nat /\ top \in Nat /\ top \in Layers /\ layer' \in Layers /\ layer' <= lv /\ layer' <= top
  BY <1>1, GraphAssumption DEF GraphTypeOK, Layers, Lower
<1>4. Settled = Nodes /\ Settled' = Nodes /\ Inserting'
  BY <1>1, <1>2 DEF Settled, Inserting
<1>5. points' \in (SUBSET Nodes) \ {{}} /\ \A i \in points' : level[i] >= layer'
  BY <1>1, <1>3, Descending
<1>6. \A l \in Layers : ~Wired(l)'
  BY <1>1, <1>2, <1>3, GraphAssumption DEF Wired, Lower, Layers
<1>7. GraphTypeOK'
  <2>1. graph' \in [Layers -> UNION {[D -> Seq(Nodes')] : D \in SUBSET Nodes'}]
    <3>1. ASSUME NEW l \in Layers
          PROVE  graph[l] \in UNION {[D -> Seq(Nodes')] : D \in SUBSET Nodes'}
      <4>1. PICK D : D \in SUBSET Nodes /\ graph[l] \in [D -> Seq(Nodes)]
        BY DEF GraphTypeOK
      <4>2. Seq(Nodes) \subseteq Seq(Nodes')
        BY <1>2, SeqMonotonic
      <4>3. D \in SUBSET Nodes' /\ graph[l] \in [D -> Seq(Nodes')]
        BY <1>2, <4>1, <4>2
      <4> QED BY <4>3
    <3>2. graph' = [l \in Layers |-> graph[l]]
      BY <1>1 DEF GraphTypeOK
    <3> QED BY <3>1, <3>2
  <2>2. links' \in Seq(Nodes')
    BY <1>1, <1>2, SeqMonotonic DEF GraphTypeOK
  <2>3. points' \subseteq Nodes'
    BY <1>2, <1>5
  <2>4. entry' \in 0..Len(at') /\ (entry' = 0 <=> Len(at') = 0)
    BY <1>1, OneMore DEF GraphTypeOK
  <2> QED BY <1>1, <1>2, <1>3, <2>1, <2>2, <2>3, <2>4, OneMore DEF GraphTypeOK
<1>8. Placed'
  <2> SUFFICES ASSUME NEW l \in Layers
               PROVE  DOMAIN graph'[l] = {i \in Settled' : level'[i] >= l} \union {i \in {New'} : Wired(l)'}
    BY DEF Placed
  <2>1. DOMAIN graph[l] = {i \in Nodes : level[i] >= l}
    BY <1>1, LayersBetween
  <2>2. {i \in {New'} : Wired(l)'} = {}
    BY <1>6
  <2>3. {i \in Settled' : level'[i] >= l} = {i \in Nodes : level[i] >= l}
    BY <1>2, <1>4
  <2> QED BY <1>1, <2>1, <2>2, <2>3
<1>9. EntryIsTop'
  BY <1>1, <1>2, <1>4 DEF EntryIsTop
<1>10. WithinLayer'
  BY <1>1 DEF WithinLayer
<1>11. StartsThere'
  BY <1>1, <1>2, <1>3, <1>4, <1>5 DEF StartsThere
<1>12. LinksAhead' /\ BornLinked'
  BY <1>1 DEF LinksAhead, BornLinked
<1>13. WiredLinked'
  BY <1>6 DEF WiredLinked
<1>14. EdgesGoBothWays'
  BY <1>1 DEF EdgesGoBothWays, Pending, Built, Budget
<1>15. AllReachable'
  BY <1>1 DEF AllReachable, Built
<1> QED BY <1>7, <1>8, <1>9, <1>10, <1>11, <1>12, <1>13, <1>14, <1>15

\* The new node is wired on a layer.
LEMMA IsWired ==
    ASSUME GraphInv, Wire
    PROVE  GraphInv'
<1> USE DEF GraphInv
<1>1. PICK p, near, neighbours :
         /\ p = at[New]
         /\ near = SearchLayer(p, points, EfConstruction, layer, Nodes, NoBudget).results
         /\ neighbours = SelectNeighbours(p, near, Budget(layer))
  OBVIOUS
<1>2. /\ pc = "wire" /\ pc' = "link" /\ points' = near /\ links' = neighbours
      /\ graph' = [graph EXCEPT ![layer] = OnLayer(layer, New, neighbours)]
      /\ UNCHANGED <<at, level, entry, top, layer>>
  BY <1>1 DEF Wire
<1>3. /\ Inserting /\ Inserting' /\ Nodes' = Nodes /\ New' = New /\ Settled' = Settled
      /\ \A l : Wired(l)' <=> Inserting /\ l <= level[New] /\ l <= top /\ (l > layer \/ l = layer)
  BY <1>2 DEF Inserting, Nodes, New, Settled, Wired
<1>4. /\ layer \in Layers /\ layer \in Nat /\ Len(at) \in Nat /\ Nodes = 1..Len(at) /\ New \in Nodes
      /\ entry # 0 /\ layer <= level[New] /\ layer <= top
  BY <1>3, NodesAreFinite, GraphAssumption DEF GraphTypeOK, StartsThere, Layers, New
<1>5. PICK l, new, D : l = layer /\ new = New /\ D = DOMAIN graph[l]
  OBVIOUS
<1>6. l \in Layers /\ new \in Nodes /\ D = {i \in Settled : level[i] >= l}
  <2>1. ~Wired(l)
    BY <1>2, <1>4, <1>5 DEF Wired
  <2> QED BY <1>2, <1>4, <1>5, <2>1 DEF Placed
<1>7. D \in SUBSET Nodes /\ graph[l] \in [D -> Seq(D)] /\ \A i : Adjacent(graph[l], i) \in Seq(D)
  BY <1>5, <1>6, EdgesOfLayer
<1>8. new \notin D
  BY <1>3, <1>5, <1>6 DEF Settled
<1>9. near \in (SUBSET D) \ {{}}
  <2>1. PICK from, ef, all, budget : /\ from = points /\ ef = EfConstruction
                                     /\ all = Nodes /\ budget = NoBudget
    OBVIOUS
  <2>2. from \in SUBSET D /\ from \intersect all # {}
    BY <1>3, <1>4, <1>5, <1>6, <1>7, <2>1 DEF StartsThere
  <2>3. ef \in Nat \ {0} /\ budget \in Nat
    BY <2>1, GraphAssumption DEF NoBudget
  <2>4. IsFiniteSet(D) /\ Len(at) \in Nat
    BY <1>7, NodesAreFinite
  <2>5. SearchLayer(p, from, ef, l, all, budget).results \in (SUBSET D) \ {{}}
    BY <1>7, <2>2, <2>3, <2>4, Searching
  <2> QED BY <1>1, <1>5, <2>1, <2>5
<1>10. /\ neighbours \in Seq(D) /\ IsInjective(neighbours) /\ neighbours # <<>>
       /\ ToSet(neighbours) \subseteq D /\ Len(neighbours) <= Budget(l)
  <2>1. PICK m \in Nat \ {0} : m = Budget(l)
    BY GraphAssumption DEF Budget
  <2>2. at \in Seq(Points) /\ p \in Points
    BY <1>1, <1>4, ElementOfSeq DEF GraphTypeOK
  <2>3. near \in SUBSET Nodes /\ m \in Nat
    BY <1>7, <1>9
  <2>4. neighbours = SelectNeighbours(p, near, m)
    BY <1>1, <1>5, <2>1
  <2>5. /\ neighbours \in Seq(near) /\ IsInjective(neighbours)
        /\ Len(neighbours) = Lower(Cardinality(near), m)
    BY <2>2, <2>3, <2>4, Selecting
  <2>6. Cardinality(near) \in Nat /\ Cardinality(near) # 0
    BY <1>9, <2>3, NodesAreFinite, FS_CardinalityType, FS_EmptySet
  <2>7. neighbours \in Seq(D)
    BY <1>9, <2>5, SeqMonotonic
  <2>8. Len(<<>>) = 0
    BY EmptySeq
  <2> QED BY <2>1, <2>5, <2>6, <2>7, <2>8, Elements DEF Lower
<1>11. /\ \A k \in Layers : k # l => graph'[k] = graph[k]
       /\ DOMAIN graph'[l] = D \union {new} /\ graph'[l][new] = neighbours
       /\ \A i \in D : graph'[l][i] = graph[l][i]
  <2>1. graph'[l] = [j \in D \union {new} |-> IF j = new THEN neighbours ELSE graph[l][j]]
    BY <1>2, <1>5, <1>6 DEF GraphTypeOK, OnLayer
  <2>2. \A k \in Layers : k # l => graph'[k] = graph[k]
    BY <1>2, <1>5 DEF GraphTypeOK
  <2> QED BY <1>8, <2>1, <2>2
<1>12. GraphTypeOK'
  <2>1. graph' \in [Layers -> UNION {[C -> Seq(Nodes')] : C \in SUBSET Nodes'}]
    <3>1. PICK E : E = [j \in D \union {new} |-> IF j = new THEN neighbours ELSE graph[l][j]]
      OBVIOUS
    <3>2. Seq(D) \subseteq Seq(Nodes)
      BY <1>7, SeqMonotonic
    <3>3. E \in [D \union {new} -> Seq(Nodes)] /\ D \union {new} \in SUBSET Nodes
      BY <1>6, <1>7, <1>10, <3>1, <3>2
    <3>4. E \in UNION {[C -> Seq(Nodes)] : C \in SUBSET Nodes}
      BY <3>3
    <3>5. graph' = [graph EXCEPT ![l] = E]
      BY <1>2, <1>5, <3>1 DEF OnLayer
    <3> QED BY <1>3, <3>4, <3>5 DEF GraphTypeOK
  <2>2. points' \subseteq Nodes' /\ links' \in Seq(Nodes')
    BY <1>2, <1>3, <1>7, <1>9, <1>10, SeqMonotonic
  <2> QED BY <1>2, <1>3, <2>1, <2>2 DEF GraphTypeOK
<1>13. Placed'
  <2> SUFFICES ASSUME NEW k \in Layers
               PROVE  DOMAIN graph'[k] = {i \in Settled : level[i] >= k} \union {i \in {New} : Wired(k)'}
    BY <1>2, <1>3 DEF Placed
  <2>1. CASE k = l
    BY <1>3, <1>4, <1>5, <1>6, <1>11, <2>1
  <2>2. CASE k # l
    <3>1. Wired(k)' <=> Wired(k)
      BY <1>2, <1>3, <1>5, <2>2 DEF Wired
    <3> QED BY <1>2, <1>11, <2>2, <3>1 DEF Placed
  <2> QED BY <2>1, <2>2
<1>14. EntryIsTop'
  BY <1>2, <1>3 DEF EntryIsTop
<1>15. WithinLayer'
  <2> SUFFICES ASSUME NEW k \in Layers, NEW i \in DOMAIN graph'[k]
               PROVE  ToSet(graph'[k][i]) \subseteq DOMAIN graph'[k]
    BY DEF WithinLayer
  <2>1. CASE k # l
    BY <1>11, <2>1 DEF WithinLayer
  <2>2. CASE k = l /\ i = new
    BY <1>10, <1>11, <2>2
  <2>3. CASE k = l /\ i # new
    <3>1. i \in D /\ ToSet(graph[l][i]) \subseteq D
      BY <1>5, <1>6, <1>11, <2>3 DEF WithinLayer
    <3> QED BY <1>11, <2>3, <3>1
  <2> QED BY <2>1, <2>2, <2>3
<1>16. StartsThere'
  <2>1. \A i \in points' : i \in Settled /\ level[i] >= layer
    BY <1>2, <1>5, <1>6, <1>9
  <2> QED BY <1>2, <1>3, <1>4, <1>9, <2>1 DEF StartsThere
<1>17. \A i \in D : new \notin ToSet(graph[l][i])
  BY <1>5, <1>6, <1>8 DEF WithinLayer
<1>18. LinksAhead'
  <2>1. \A j \in ToSet(neighbours) : new \notin ToSet(graph'[l][j])
    BY <1>10, <1>11, <1>17
  <2> QED BY <1>2, <1>3, <1>5, <1>10, <1>11, <2>1 DEF LinksAhead
<1>19. EdgesGoBothWays'
  <2> SUFFICES ASSUME NEW k \in Layers, NEW i \in DOMAIN graph'[k]
               PROVE  /\ \A j \in ToSet(graph'[k][i]) :
                            i # j /\ (i \in ToSet(graph'[k][j]) \/ Pending(k, i, j)')
                      /\ IsInjective(graph'[k][i])
                      /\ Built' \/ Len(graph'[k][i]) <= Budget(k)
    BY DEF EdgesGoBothWays, Budget
  <2>1. ~Built /\ \A h, j : ~Pending(k, h, j)
    BY <1>2 DEF Built, Pending
  <2>2. CASE k # l
    BY <1>11, <2>1, <2>2 DEF EdgesGoBothWays
  <2>3. CASE k = l /\ i = new
    <3>1. \A j \in ToSet(neighbours) : Pending(l, new, j)'
      BY <1>2, <1>3, <1>5 DEF Pending
    <3> QED BY <1>8, <1>10, <1>11, <2>3, <3>1
  <2>4. CASE k = l /\ i # new
    <3>1. i \in D /\ ToSet(graph[l][i]) \subseteq D /\ graph'[l][i] = graph[l][i]
      BY <1>5, <1>6, <1>11, <2>4 DEF WithinLayer
    <3>2. /\ \A j \in ToSet(graph[l][i]) : i # j /\ i \in ToSet(graph[l][j])
          /\ IsInjective(graph[l][i]) /\ Len(graph[l][i]) <= Budget(l)
      BY <1>5, <1>6, <2>1, <2>4, <3>1 DEF EdgesGoBothWays
    <3> QED BY <1>11, <2>4, <3>1, <3>2
  <2> QED BY <2>2, <2>3, <2>4
<1>20. WiredLinked'
  <2> SUFFICES ASSUME NEW k \in Layers, Wired(k)' PROVE graph'[k][New] # <<>>
    BY <1>3 DEF WiredLinked
  <2>1. CASE k = l
    BY <1>5, <1>10, <1>11, <2>1
  <2>2. CASE k # l
    <3>1. Wired(k)
      BY <1>2, <1>3, <1>5, <2>2 DEF Wired
    <3> QED BY <1>11, <2>2, <3>1 DEF WiredLinked
  <2> QED BY <2>1, <2>2
<1>21. BornLinked' /\ AllReachable'
  BY <1>2 DEF BornLinked, AllReachable, Built
<1> QED BY <1>12, <1>13, <1>14, <1>15, <1>16, <1>18, <1>19, <1>20, <1>21

\* A neighbour is linked back, and drops what is over its budget.
LEMMA IsLinked ==
    ASSUME GraphInv, Link
    PROVE  GraphInv'
<1> USE DEF GraphInv
<1>1. PICK b, kept, gone : /\ b = Head(links) /\ kept = KeptEdges(b)
                           /\ gone = ToSet(Append(graph[layer][b], New)) \ ToSet(kept)
  OBVIOUS
<1>2. /\ pc = "link" /\ links # <<>> /\ links' = Tail(links)
      /\ graph' = [graph EXCEPT ![layer] = Pruned(layer, b, kept, gone)]
      /\ UNCHANGED <<at, level, entry, top, pc, layer, points>>
  BY <1>1 DEF Link, KeptEdges
<1>3. /\ Inserting /\ Inserting' /\ Nodes' = Nodes /\ New' = New /\ Settled' = Settled
      /\ \A l : Wired(l)' <=> Wired(l)
  BY <1>2 DEF Inserting, Nodes, New, Settled, Wired
<1>4. /\ layer \in Layers /\ Len(at) \in Nat /\ Nodes = 1..Len(at) /\ New \in Nodes
      /\ layer <= level[New] /\ layer <= top
  BY <1>3, NodesAreFinite DEF GraphTypeOK, StartsThere, New
<1>5. PICK l, new, D : l = layer /\ new = New /\ D = DOMAIN graph[l]
  OBVIOUS
<1>6. l \in Layers /\ new \in D
  BY <1>2, <1>3, <1>4, <1>5 DEF Placed, Wired
<1>7. D \in SUBSET Nodes /\ graph[l] \in [D -> Seq(D)]
  BY <1>5, <1>6, EdgesOfLayer
<1>8. \A i \in D : /\ graph[l][i] \in Seq(D) /\ ToSet(graph[l][i]) \subseteq D
                   /\ IsInjective(graph[l][i]) /\ Len(graph[l][i]) <= Budget(l)
  BY <1>2, <1>5, <1>6, <1>7 DEF WithinLayer, EdgesGoBothWays, Built
<1>9. \A i \in D : \A j \in ToSet(graph[l][i]) :
         i # j /\ (i \in ToSet(graph[l][j]) \/ (i = new /\ j \in ToSet(links)))
  BY <1>5, <1>6 DEF EdgesGoBothWays, Pending
<1>10. /\ links \in Seq(Nodes) /\ IsInjective(links) /\ ToSet(links) \subseteq ToSet(graph[l][new])
       /\ \A j \in ToSet(links) : new \notin ToSet(graph[l][j])
  BY <1>2, <1>5 DEF LinksAhead, GraphTypeOK
<1>11. /\ links' \in Seq(Nodes) /\ IsInjective(links')
       /\ ToSet(links') = ToSet(links) \ {b} /\ b \in ToSet(links)
  <2>1. PICK N \in Nat \ {0} : N = Len(links) /\ DOMAIN links = 1..N
    BY <1>2, <1>10, EmptySeq, LenProperties
  <2>2. PICK t : t = SubSeq(links, 2, N) /\ t = links'
    BY <1>2, <1>10, <2>1, TailIsSubSeq
  <2>3. PICK a \in 1..Len(links) + 1 : a = 2
    BY <2>1
  <2>4. N \in a - 1..Len(links)
    BY <2>1, <2>3
  <2>5. /\ SubSeq(links, a, N) \in Seq(Nodes) /\ IsInjective(SubSeq(links, a, N))
        /\ ToSet(SubSeq(links, a, N)) = {links[i] : i \in a..N}
    BY <1>10, <2>3, <2>4, Slicing DEF Part
  <2>6. b = links[1]
    BY <1>1, <1>10, <2>1
  <2>7. ToSet(links) = {links[i] : i \in 1..N}
    BY <2>1 DEF ToSet
  <2>8. \A i \in 1..N : i # 1 <=> links[i] # b
    BY <1>10, <2>1, <2>6 DEF IsInjective
  <2>9. {links[i] : i \in a..N} = {links[i] : i \in 1..N} \ {b}
    <3>1. \A i : i \in a..N <=> i \in 1..N /\ i # 1
      BY <2>1, <2>3
    <3> QED BY <2>8, <3>1
  <2>10. b \in ToSet(links)
    BY <2>1, <2>6, <2>7
  <2> QED BY <2>2, <2>3, <2>5, <2>7, <2>9, <2>10
<1>12. b \in D /\ b # new /\ new \notin ToSet(graph[l][b]) /\ b \in ToSet(graph[l][new])
  BY <1>6, <1>8, <1>9, <1>10, <1>11
<1>13. /\ kept \in Seq(Nodes) /\ IsInjective(kept) /\ new \in ToSet(kept)
       /\ ToSet(kept) \subseteq ToSet(graph[l][b]) \union {new} /\ Len(kept) <= Budget(l)
  BY <1>1, <1>5, <1>6, <1>12, Keeping
<1>14. gone = ToSet(graph[l][b]) \ ToSet(kept)
  <2>1. PICK s, V : s = graph[l][b] /\ V = Nodes
    OBVIOUS
  <2>2. s \in Seq(V) /\ IsInjective(s) /\ new \in V /\ new \notin ToSet(s)
    BY <1>6, <1>7, <1>8, <1>12, <2>1, SeqMonotonic
  <2>3. ToSet(Append(s, new)) = ToSet(s) \union {new}
    BY <2>2, Appending
  <2> QED BY <1>1, <1>5, <1>13, <2>1, <2>3
<1>15. /\ \A k \in Layers : k # l => graph'[k] = graph[k]
       /\ DOMAIN graph'[l] = D
       /\ \A i \in D : graph'[l][i] = IF i = b THEN kept
                                      ELSE IF i \in gone THEN RemoveFirst(graph[l][i], b)
                                      ELSE graph[l][i]
  <2>1. graph'[l] = [i \in D |-> IF i = b THEN kept
                                 ELSE IF i \in gone THEN RemoveFirst(graph[l][i], b)
                                 ELSE graph[l][i]]
    BY <1>2, <1>5, <1>6 DEF GraphTypeOK, Pruned
  <2>2. \A k \in Layers : k # l => graph'[k] = graph[k]
    BY <1>2, <1>5 DEF GraphTypeOK
  <2> QED BY <2>1, <2>2
<1>16. PICK E : \A i \in D : E[i] = ToSet(graph[l][i])
  <2>1. PICK E : E = [i \in D |-> ToSet(graph[l][i])]
    OBVIOUS
  <2> QED BY <2>1
<1>17. PICK F : \A i \in D : F[i] = ToSet(graph'[l][i])
  <2>1. PICK F : F = [i \in D |-> ToSet(graph'[l][i])]
    OBVIOUS
  <2> QED BY <2>1
<1>18. ASSUME NEW i \in D
       PROVE  /\ graph'[l][i] \in Seq(Nodes) /\ IsInjective(graph'[l][i]) /\ Len(graph'[l][i]) <= Budget(l)
              /\ F[i] = IF i = b THEN ToSet(kept) ELSE IF i \in gone THEN E[i] \ {b} ELSE E[i]
  <2>1. PICK s, V : s = graph[l][i] /\ V = Nodes
    OBVIOUS
  <2>2. s \in Seq(V) /\ IsInjective(s) /\ Len(s) <= Budget(l) /\ Len(s) \in Nat
    BY <1>7, <1>8, <2>1, SeqMonotonic, LenProperties
  <2>3. CASE i = b
    BY <1>13, <1>15, <1>17, <2>3
  <2>4. CASE i # b /\ i \in gone
    <3>1. /\ RemoveFirst(s, b) \in Seq(V) /\ IsInjective(RemoveFirst(s, b))
          /\ Len(RemoveFirst(s, b)) = IF b \in ToSet(s) THEN Len(s) - 1 ELSE Len(s)
          /\ ToSet(RemoveFirst(s, b)) = ToSet(s) \ {b}
      BY <2>2, Removing
    <3>2. graph'[l][i] = RemoveFirst(s, b)
      BY <1>15, <2>1, <2>4
    <3>3. Len(RemoveFirst(s, b)) <= Budget(l)
      BY <2>2, <3>1, GraphAssumption DEF Budget
    <3>4. F[i] = ToSet(RemoveFirst(s, b)) /\ E[i] = ToSet(s)
      BY <1>16, <1>17, <2>1, <3>2
    <3> QED BY <2>1, <2>4, <3>1, <3>2, <3>3, <3>4
  <2>5. CASE i # b /\ i \notin gone
    BY <1>15, <1>16, <1>17, <2>1, <2>2, <2>5
  <2> QED BY <2>3, <2>4, <2>5
<1>19. /\ \A i \in D : E[i] \subseteq D
       /\ \A i \in D : \A j \in E[i] : i # j /\ (i \in E[j] \/ (i = new /\ j \in ToSet(links)))
       /\ new \notin E[b] /\ b \in E[new] /\ gone = E[b] \ ToSet(kept)
       /\ ToSet(kept) \subseteq E[b] \union {new}
       /\ ToSet(links) \subseteq E[new] /\ \A j \in ToSet(links) : new \notin E[j]
  <2>1. \A i \in D : E[i] \subseteq D
    BY <1>8, <1>16
  <2>2. \A i \in D : \A j \in E[i] : i # j /\ (i \in E[j] \/ (i = new /\ j \in ToSet(links)))
    BY <1>9, <1>16, <2>1
  <2>3. new \notin E[b] /\ b \in E[new] /\ gone = E[b] \ ToSet(kept) /\ ToSet(kept) \subseteq E[b] \union {new}
    BY <1>6, <1>12, <1>13, <1>14, <1>16
  <2>4. ToSet(links) \subseteq E[new]
    BY <1>6, <1>10, <1>16
  <2>5. \A j \in ToSet(links) : j \in D /\ new \notin E[j]
    BY <1>6, <1>10, <1>16, <2>1, <2>4
  <2> QED BY <2>1, <2>2, <2>3, <2>4, <2>5
<1>20. F[new] = E[new]
  BY <1>6, <1>12, <1>13, <1>18, <1>19
<1>21. \A i \in D : \A j \in F[i] : i # j /\ (i \in F[j] \/ (i = new /\ j \in ToSet(links')))
  <2> SUFFICES ASSUME NEW i \in D, NEW j \in F[i]
               PROVE  i # j /\ (i \in F[j] \/ (i = new /\ j \in ToSet(links')))
    OBVIOUS
  <2>1. CASE i = b
    <3>1. j \in ToSet(kept)
      BY <1>18, <2>1
    <3>2. CASE j = new
      BY <1>6, <1>12, <1>19, <1>20, <2>1, <3>2
    <3>3. CASE j # new
      <4>1. j \in E[b] /\ j \notin gone /\ j \in D
        BY <1>12, <1>19, <3>1, <3>3
      <4>2. j # b /\ b \in E[j]
        BY <1>12, <1>19, <4>1
      <4> QED BY <1>18, <2>1, <4>1, <4>2
    <3> QED BY <3>2, <3>3
  <2>2. CASE i # b /\ i \in gone
    <3>1. j \in E[i] /\ j # b /\ i # new /\ j \in D
      <4>1. F[i] = E[i] \ {b}
        BY <1>18, <2>2
      <4>2. j \in E[i] /\ j # b
        BY <4>1
      <4>3. i # new
        BY <1>13, <1>19, <2>2
      <4> QED BY <1>19, <4>2, <4>3
    <3>2. i # j /\ i \in E[j]
      BY <1>19, <3>1
    <3> QED BY <1>18, <2>2, <3>1, <3>2
  <2>3. CASE i # b /\ i \notin gone
    <3>1. j \in E[i] /\ j \in D /\ i # j
      BY <1>18, <1>19, <2>3
    <3>2. CASE j = b
      <4>1. i \in ToSet(kept)
        BY <1>13, <1>12, <1>19, <2>3, <3>1, <3>2
      <4> QED BY <1>18, <3>1, <3>2, <4>1
    <3>3. CASE j # b
      <4>1. i \in E[j] \/ (i = new /\ j \in ToSet(links'))
        BY <1>11, <1>19, <3>1, <3>3
      <4> QED BY <1>18, <2>3, <3>1, <3>3, <4>1
    <3> QED BY <3>2, <3>3
  <2> QED BY <2>1, <2>2, <2>3
<1>22. \A i \in D : F[i] \subseteq D
  <2> SUFFICES ASSUME NEW i \in D PROVE F[i] \subseteq D
    OBVIOUS
  <2>1. CASE i = b
    <3>1. F[i] = ToSet(kept) /\ ToSet(kept) \subseteq E[i] \union {new} /\ E[i] \subseteq D
      BY <1>18, <1>19, <2>1
    <3> QED BY <1>6, <3>1
  <2>2. CASE i # b
    BY <1>18, <1>19, <2>2
  <2> QED BY <2>1, <2>2
<1>23. GraphTypeOK'
  <2>1. graph' \in [Layers -> UNION {[C -> Seq(Nodes')] : C \in SUBSET Nodes'}]
    <3>1. PICK H : H = Pruned(layer, b, kept, gone)
      OBVIOUS
    <3>2. graph' = [graph EXCEPT ![l] = H] /\ H = graph'[l]
      BY <1>2, <1>5, <1>6, <3>1 DEF GraphTypeOK
    <3>3. H \in [D -> Seq(Nodes)]
      <4>1. H = [i \in D |-> H[i]]
        BY <1>5, <3>1 DEF Pruned
      <4> QED BY <1>18, <3>2, <4>1
    <3>4. H \in UNION {[C -> Seq(Nodes)] : C \in SUBSET Nodes}
      BY <1>7, <3>3
    <3> QED BY <1>3, <3>2, <3>4 DEF GraphTypeOK
  <2>2. points' \subseteq Nodes' /\ links' \in Seq(Nodes')
    BY <1>2, <1>3, <1>11 DEF GraphTypeOK
  <2> QED BY <1>2, <1>3, <2>1, <2>2 DEF GraphTypeOK
<1>24. \A k \in Layers : DOMAIN graph'[k] = DOMAIN graph[k]
  BY <1>5, <1>15
<1>25. Placed'
  BY <1>2, <1>3, <1>24 DEF Placed
<1>26. EntryIsTop'
  BY <1>2, <1>3 DEF EntryIsTop
<1>27. WithinLayer'
  <2> SUFFICES ASSUME NEW k \in Layers, NEW i \in DOMAIN graph'[k]
               PROVE  ToSet(graph'[k][i]) \subseteq DOMAIN graph'[k]
    BY DEF WithinLayer
  <2>1. CASE k # l
    BY <1>15, <2>1 DEF WithinLayer
  <2>2. CASE k = l
    BY <1>15, <1>17, <1>22, <2>2
  <2> QED BY <2>1, <2>2
<1>28. StartsThere'
  BY <1>2, <1>3 DEF StartsThere
<1>29. LinksAhead'
  <2>1. ToSet(links') \subseteq F[new] /\ F[new] = ToSet(graph'[l][new])
    BY <1>6, <1>11, <1>17, <1>19, <1>20
  <2>2. ASSUME NEW j \in ToSet(links') PROVE new \notin ToSet(graph'[l][j])
    <3>1. j \in D /\ j # b /\ new \notin E[j]
      BY <1>6, <1>11, <1>19
    <3>2. new \notin F[j]
      BY <1>18, <3>1
    <3> QED BY <1>17, <3>1, <3>2
  <2> QED BY <1>2, <1>3, <1>5, <1>11, <2>1, <2>2 DEF LinksAhead
<1>30. EdgesGoBothWays'
  <2> SUFFICES ASSUME NEW k \in Layers, NEW i \in DOMAIN graph'[k]
               PROVE  /\ \A j \in ToSet(graph'[k][i]) :
                            i # j /\ (i \in ToSet(graph'[k][j]) \/ Pending(k, i, j)')
                      /\ IsInjective(graph'[k][i])
                      /\ Built' \/ Len(graph'[k][i]) <= Budget(k)
    BY DEF EdgesGoBothWays, Budget
  <2>1. CASE k # l
    <3>1. ~Built /\ \A h, j : ~Pending(k, h, j)
      BY <1>2, <1>5, <2>1 DEF Built, Pending
    <3> QED BY <1>15, <2>1, <3>1 DEF EdgesGoBothWays
  <2>2. CASE k = l
    <3>1. i \in D /\ F[i] = ToSet(graph'[k][i])
      BY <1>15, <1>17, <2>2
    <3>2. \A j \in F[i] : F[j] = ToSet(graph'[k][j])
      BY <1>17, <1>22, <2>2, <3>1
    <3>3. \A j \in ToSet(links') : Pending(l, new, j)'
      BY <1>2, <1>3, <1>5 DEF Pending
    <3> QED BY <1>18, <1>21, <2>2, <3>1, <3>2, <3>3
  <2> QED BY <2>1, <2>2
<1>31. WiredLinked'
  <2> SUFFICES ASSUME NEW k \in Layers, Wired(k) PROVE graph'[k][new] # <<>>
    BY <1>3, <1>5 DEF WiredLinked
  <2>1. CASE k # l
    BY <1>5, <1>15, <2>1 DEF WiredLinked
  <2>2. CASE k = l
    <3>1. graph'[l][new] = graph[l][new]
      BY <1>6, <1>12, <1>13, <1>15, <1>19
    <3> QED BY <1>5, <2>2, <3>1 DEF WiredLinked
  <2> QED BY <2>1, <2>2
<1>32. BornLinked' /\ AllReachable'
  BY <1>2 DEF BornLinked, AllReachable, Built
<1> QED BY <1>23, <1>25, <1>26, <1>27, <1>28, <1>29, <1>30, <1>31, <1>32

\* On to the layer below.
LEMMA IsDescended ==
    ASSUME GraphInv, NextLayer
    PROVE  GraphInv'
<1> USE DEF GraphInv
<1>1. /\ pc = "link" /\ pc' = "wire" /\ links = <<>> /\ layer > 0 /\ layer' = layer - 1
      /\ UNCHANGED <<at, level, graph, entry, top, points, links>>
  BY DEF NextLayer
<1>2. /\ Inserting /\ Inserting' /\ Nodes' = Nodes /\ New' = New /\ Settled' = Settled
  BY <1>1 DEF Inserting, Nodes, New, Settled
<1>3. /\ layer \in Nat /\ layer' \in Layers /\ top \in Nat /\ \A i \in Nodes : level[i] \in Nat
      /\ New \in Nodes /\ Settled \subseteq Nodes
  BY <1>1, <1>2, NodesAreFinite, GraphAssumption DEF GraphTypeOK, StartsThere, Layers, New, Settled
<1>4. \A l \in Layers : Wired(l)' <=> Wired(l)
  <2>1. \A l \in Layers : l \in Nat
    BY GraphAssumption DEF Layers
  <2>2. \A l \in Layers : l > layer' <=> l > layer \/ l = layer
    BY <1>1, <1>3, <2>1
  <2> QED BY <1>1, <1>2, <2>2 DEF Wired
<1>5. GraphTypeOK'
  BY <1>1, <1>2, <1>3 DEF GraphTypeOK
<1>6. Placed'
  BY <1>1, <1>2, <1>4 DEF Placed
<1>7. EntryIsTop' /\ WithinLayer' /\ LinksAhead' /\ BornLinked'
  BY <1>1, <1>2 DEF EntryIsTop, WithinLayer, LinksAhead, BornLinked
<1>8. StartsThere'
  <2>1. layer <= level[New] /\ layer <= top /\ \A i \in points : i \in Settled /\ level[i] >= layer
    BY <1>2 DEF StartsThere
  <2>2. layer' <= level[New] /\ layer' <= top /\ \A i \in points : i \in Settled /\ level[i] >= layer'
    BY <1>1, <1>3, <2>1
  <2> QED BY <1>1, <1>2, <2>2 DEF StartsThere
<1>9. WiredLinked'
  BY <1>1, <1>2, <1>4 DEF WiredLinked
<1>10. EdgesGoBothWays'
  <2>1. ToSet(links) = {}
    BY <1>1, EmptySeq DEF ToSet
  <2>2. \A k, i, j : ~Pending(k, i, j)
    BY <2>1 DEF Pending
  <2> QED BY <1>1, <2>2 DEF EdgesGoBothWays, Built, Budget
<1>11. AllReachable'
  BY <1>1 DEF AllReachable, Built
<1> QED BY <1>5, <1>6, <1>7, <1>8, <1>9, <1>10, <1>11

\* The insertion is over.
LEMMA IsInserted ==
    ASSUME GraphInv, Inserted
    PROVE  GraphInv'
<1> USE DEF GraphInv
<1>1. PICK new, lv : new = New /\ lv = level[New]
  OBVIOUS
<1>2. /\ pc = "link" /\ pc' = "insert" /\ links = <<>> /\ layer = 0 /\ points' = {}
      /\ graph' = [l \in Layers |-> IF l \in Above(lv) THEN OnLayer(l, New, <<>>) ELSE graph[l]]
      /\ IF lv > top THEN top' = lv /\ entry' = New ELSE UNCHANGED <<top, entry>>
      /\ UNCHANGED <<at, level, layer, links>>
  BY <1>1 DEF Inserted
<1>3. /\ Inserting /\ ~Inserting' /\ Nodes' = Nodes /\ New' = new /\ Settled = Nodes \ {new} /\ Settled' = Nodes
  BY <1>1, <1>2 DEF Inserting, Nodes, New, Settled
<1>4. /\ new \in Nodes /\ lv \in Layers /\ lv \in Nat /\ top \in Nat /\ top \in Layers /\ entry # 0
      /\ \A i \in Nodes : level[i] \in Nat
      /\ Len(at) \in Nat /\ Nodes = 1..Len(at)
  BY <1>1, <1>3, NodesAreFinite, GraphAssumption DEF GraphTypeOK, StartsThere, Layers, New
<1>5. \A l \in Layers : l \in Nat /\ (Wired(l) <=> l <= lv /\ l <= top)
  <2>1. \A l \in Layers : l \in Nat
    BY GraphAssumption DEF Layers
  <2>2. \A l \in Layers : l > layer \/ l = layer
    BY <1>2, <2>1
  <2> QED BY <1>1, <1>2, <1>3, <2>1, <2>2 DEF Wired
<1>6. \A l \in Layers : l \in Above(lv) <=> top < l /\ l <= lv
  BY <1>4, <1>5 DEF Above
<1>7. \A l \in Layers : DOMAIN graph[l] = {i \in Settled : level[i] >= l} \union {i \in {new} : l <= lv /\ l <= top}
  BY <1>1, <1>2, <1>5 DEF Placed
<1>8. \A i \in Settled : level[i] <= top
  BY <1>4 DEF EntryIsTop
<1>9. ASSUME NEW l \in Layers, l \in Above(lv)
      PROVE  graph'[l] = [j \in {new} |-> <<>>] /\ DOMAIN graph'[l] = {new} /\ graph'[l][new] = <<>>
  <2>1. DOMAIN graph[l] = {}
    <3>1. \A i \in Settled : ~(level[i] >= l)
      BY <1>3, <1>4, <1>5, <1>6, <1>8, <1>9
    <3>2. ~(l <= top)
      BY <1>4, <1>5, <1>6, <1>9
    <3> QED BY <1>7, <3>1, <3>2
  <2>2. graph'[l] = [j \in {new} |-> <<>>]
    BY <1>1, <1>2, <1>9, <2>1 DEF OnLayer
  <2> QED BY <2>2
<1>10. \A l \in Layers : l \notin Above(lv) => graph'[l] = graph[l]
  BY <1>2
<1>11. ASSUME NEW l \in Layers PROVE DOMAIN graph'[l] = {i \in Nodes : level[i] >= l}
  <2>1. CASE l \in Above(lv)
    <3>1. \A i \in Nodes : level[i] >= l <=> i = new
      BY <1>1, <1>3, <1>4, <1>5, <1>6, <1>8, <2>1
    <3> QED BY <1>4, <1>9, <2>1, <3>1
  <2>2. CASE l \notin Above(lv)
    <3>1. \A i \in Nodes : level[i] >= l <=> (i \in Settled /\ level[i] >= l) \/ (i = new /\ l <= lv /\ l <= top)
      BY <1>1, <1>3, <1>4, <1>5, <1>6, <2>2
    <3> QED BY <1>3, <1>4, <1>7, <1>10, <2>2, <3>1
  <2> QED BY <2>1, <2>2
<1>12. <<>> \in Seq(Nodes) /\ ToSet(<<>>) = {} /\ IsInjective(<<>>) /\ Len(<<>>) = 0
  BY EmptySeq DEF ToSet, IsInjective
<1>13. GraphTypeOK'
  <2>1. graph' \in [Layers -> UNION {[C -> Seq(Nodes')] : C \in SUBSET Nodes'}]
    <3>1. ASSUME NEW l \in Layers
          PROVE  graph'[l] \in UNION {[C -> Seq(Nodes)] : C \in SUBSET Nodes}
      <4>1. CASE l \in Above(lv)
        <5>1. graph'[l] \in [{new} -> Seq(Nodes)] /\ {new} \in SUBSET Nodes
          BY <1>4, <1>9, <1>12, <4>1
        <5> QED BY <5>1
      <4>2. CASE l \notin Above(lv)
        BY <1>10, <4>2 DEF GraphTypeOK
      <4> QED BY <4>1, <4>2
    <3> QED BY <1>2, <1>3, <3>1
  <2>2. entry' \in 0..Len(at) /\ entry' # 0 /\ Len(at) # 0 /\ top' \in Layers
    BY <1>1, <1>2, <1>4 DEF GraphTypeOK
  <2> QED BY <1>2, <1>3, <2>1, <2>2 DEF GraphTypeOK
<1>14. Placed'
  BY <1>2, <1>3, <1>11 DEF Placed, Wired
<1>15. EntryIsTop'
  BY <1>1, <1>2, <1>3, <1>4, <1>8 DEF EntryIsTop
<1>16. WithinLayer'
  BY <1>9, <1>10, <1>12 DEF WithinLayer
<1>17. StartsThere' /\ LinksAhead' /\ WiredLinked'
  BY <1>2, <1>3 DEF StartsThere, LinksAhead, WiredLinked, Wired
<1>18. EdgesGoBothWays'
  <2>1. ToSet(links) = {}
    BY <1>2, EmptySeq DEF ToSet
  <2>2. ~Built /\ \A k, i, j : ~Pending(k, i, j)
    BY <1>2, <2>1 DEF Pending, Built
  <2>3. \A l \in Layers : 0 <= Budget(l)
    BY GraphAssumption DEF Budget
  <2> SUFFICES ASSUME NEW l \in Layers, NEW i \in DOMAIN graph'[l]
               PROVE  /\ \A j \in ToSet(graph'[l][i]) :
                            i # j /\ (i \in ToSet(graph'[l][j]) \/ Pending(l, i, j)')
                      /\ IsInjective(graph'[l][i])
                      /\ Built' \/ Len(graph'[l][i]) <= Budget(l)
    BY DEF EdgesGoBothWays, Budget
  <2>4. CASE l \in Above(lv)
    <3>1. graph'[l][i] = <<>>
      BY <1>9, <2>4
    <3> QED BY <1>12, <2>3, <3>1
  <2>5. CASE l \notin Above(lv)
    BY <1>10, <2>2, <2>5 DEF EdgesGoBothWays
  <2> QED BY <2>4, <2>5
<1>19. BornLinked'
  <2> SUFFICES ASSUME NEW l \in 0..lv, DOMAIN graph'[l] # {new} PROVE graph'[l][new] # <<>>
    BY <1>1, <1>2, <1>3 DEF BornLinked
  <2>1. l \in Layers /\ l <= lv
    BY <1>4, GraphAssumption DEF Layers
  <2>2. l \notin Above(lv) /\ Wired(l)
    BY <1>4, <1>5, <1>6, <1>9, <2>1
  <2> QED BY <1>1, <1>10, <2>1, <2>2 DEF WiredLinked
<1>20. AllReachable'
  BY <1>2 DEF AllReachable, Built
<1> QED BY <1>13, <1>14, <1>15, <1>16, <1>17, <1>18, <1>19, <1>20

-----------------------------------------------------------------------------
(* The components.                                                         *)

\* No edge leads out of S, or into it.
Closed(nodes, edges, S) ==
    /\ S \subseteq nodes
    /\ \A i \in S, j \in nodes :
          j \in ToSet(Adjacent(edges, i)) \/ i \in ToSet(Adjacent(edges, j)) => j \in S

\* A component is the smallest closed set around a node.
LEMMA ComponentIsClosed ==
    ASSUME NEW nodes, IsFiniteSet(nodes), NEW edges, NEW i \in nodes
    PROVE  /\ i \in Component(nodes, edges, i)
           /\ Closed(nodes, edges, Component(nodes, edges, i))
           /\ \A S : Closed(nodes, edges, S) /\ i \in S => Component(nodes, edges, i) \subseteq S
<1> DEFINE Sat(g) == g = [n \in 0..Cardinality(nodes) |-> IF n = 0 THEN {i} ELSE Grown(nodes, edges, g[n - 1])]
<1>1. PICK N \in Nat : N = Cardinality(nodes)
  BY FS_CardinalityType
<1>2. \A S \in SUBSET nodes : Grown(nodes, edges, S) \in SUBSET nodes /\ S \subseteq Grown(nodes, edges, S)
  BY DEF Grown
<1>3. PICK T : T = SUBSET nodes
  OBVIOUS
<1>4. PICK first : first = {i} /\ first \in T
  BY <1>3
<1>5. \E g : Sat(g)
  <2>1. PICK G : G = [n \in 1..N |-> [S \in T |-> Grown(nodes, edges, S)]]
    OBVIOUS
  <2>2. G \in Steps(N, T)
    BY <1>2, <1>3, <2>1 DEF Steps
  <2>3. PICK f \in [0..N -> T] : f[0] = first /\ \A n \in 1..N : f[n] = G[n][f[n - 1]]
    <3>1. Runs(N, T, first, G) # {}
      BY <1>4, <2>2, Iterates
    <3> QED BY <3>1 DEF Runs
  <2>4. ASSUME NEW n \in 1..N PROVE f[n] = Grown(nodes, edges, f[n - 1])
    <3>1. f[n - 1] \in T
      BY <2>3
    <3> QED BY <2>1, <2>3, <3>1
  <2>5. Sat(f)
    BY <1>1, <1>4, <2>3, <2>4
  <2> QED BY <2>5
<1>6. PICK g : g = CHOOSE h : Sat(h)
  OBVIOUS
<1>7. Sat(g)
  <2> HIDE DEF Sat
  <2> QED BY <1>5, <1>6
<1>8. g[0] = {i} /\ \A n \in 1..N : g[n] = Grown(nodes, edges, g[n - 1])
  <2>1. \A n \in 0..N : g[n] = IF n = 0 THEN {i} ELSE Grown(nodes, edges, g[n - 1])
    BY <1>1, <1>7
  <2>2. 0 \in 0..N /\ \A n \in 1..N : n \in 0..N /\ n # 0
    OBVIOUS
  <2>3. g[0] = {i}
    BY <2>1, <2>2
  <2>4. ASSUME NEW n \in 1..N PROVE g[n] = Grown(nodes, edges, g[n - 1])
    BY <2>1, <2>2
  <2> QED BY <2>3, <2>4
<1>9. Component(nodes, edges, i) = g[N]
  BY <1>1, <1>6 DEF Component
<1> HIDE DEF Sat
<1>10. \A n \in 0..N : g[n] \in T
  <2>1. g[0] \in T /\ \A n \in 1..N : g[n - 1] \in T => g[n] \in T
    BY <1>2, <1>3, <1>4, <1>8
  <2> QED BY <2>1, Stays
<1>11. \A n \in 0..N : IsFiniteSet(g[n]) /\ Cardinality(g[n]) \in Nat /\ Cardinality(g[n]) <= N
  BY <1>1, <1>3, <1>10, FS_Subset, FS_CardinalityType
<1> DEFINE Ok(n) == i \in g[n] /\ (Grown(nodes, edges, g[n]) = g[n] \/ Cardinality(g[n]) >= n + 1)
           P == [n \in 0..N |-> Ok(n)]
<1>12. Ok(0)
  <2>1. Cardinality({i}) = 1
    BY FS_Singleton
  <2> QED BY <1>8, <2>1
<1>13. ASSUME NEW n \in 1..N, Ok(n - 1) PROVE Ok(n)
  <2>1. n - 1 \in 0..N /\ n \in 0..N
    OBVIOUS
  <2>2. PICK S, U : S = g[n - 1] /\ U = g[n]
    OBVIOUS
  <2>3. U = Grown(nodes, edges, S) /\ S \subseteq U
    BY <1>2, <1>3, <1>8, <1>10, <2>1, <2>2
  <2>4. i \in U
    BY <1>13, <2>2, <2>3
  <2>5. CASE U = S
    BY <2>2, <2>3, <2>4, <2>5
  <2>6. CASE U # S
    <3>1. Cardinality(S) >= (n - 1) + 1
      BY <1>13, <2>2, <2>3, <2>6
    <3>2. /\ IsFiniteSet(U) /\ Cardinality(S) \in Nat /\ Cardinality(U) \in Nat
      BY <1>11, <2>1, <2>2
    <3>3. Cardinality(S) <= Cardinality(U) /\ Cardinality(S) # Cardinality(U)
      BY <2>3, <2>6, <3>2, FS_Subset
    <3>4. Cardinality(U) >= n + 1
      BY <3>1, <3>2, <3>3
    <3> QED BY <2>2, <2>4, <3>4
  <2> QED BY <2>5, <2>6
<1>14. Ok(N)
  <2> HIDE DEF Ok
  <2>1. P \in [0..N -> BOOLEAN]
    BY DEF Ok
  <2>2. P[0] /\ \A n \in 1..N : P[n - 1] => P[n]
    BY <1>12, <1>13
  <2> HIDE DEF P
  <2>3. \A n \in 0..N : P[n]
    BY <2>1, <2>2, UpTo
  <2> QED BY <2>3 DEF P
<1>15. Grown(nodes, edges, g[N]) = g[N] /\ i \in g[N]
  BY <1>11, <1>14
<1>16. Closed(nodes, edges, g[N])
  <2>1. g[N] \subseteq nodes
    BY <1>3, <1>10
  <2>2. ASSUME NEW k \in g[N], NEW j \in nodes,
               j \in ToSet(Adjacent(edges, k)) \/ k \in ToSet(Adjacent(edges, j))
        PROVE  j \in g[N]
    <3>1. j \in Grown(nodes, edges, g[N])
      BY <2>2 DEF Grown
    <3> QED BY <1>15, <3>1
  <2> QED BY <2>1, <2>2 DEF Closed
<1>17. ASSUME NEW S, Closed(nodes, edges, S), i \in S PROVE g[N] \subseteq S
  <2>1. PICK V : V = SUBSET S
    OBVIOUS
  <2>2. g[0] \in V
    BY <1>8, <1>17, <2>1
  <2>3. ASSUME NEW n \in 1..N, g[n - 1] \in V PROVE g[n] \in V
    <3>1. PICK U : U = g[n - 1]
      OBVIOUS
    <3>2. Grown(nodes, edges, U) \subseteq S
      BY <1>17, <2>1, <2>3, <3>1 DEF Grown, Closed
    <3> QED BY <1>8, <2>1, <3>1, <3>2
  <2>4. \A n \in 0..N : g[n] \in V
    BY <2>2, <2>3, Stays
  <2> QED BY <2>1, <2>4
<1> QED BY <1>9, <1>15, <1>16, <1>17

\* Two components are the same or have no node in common.
LEMMA ComponentsAreApart ==
    ASSUME NEW nodes, IsFiniteSet(nodes), NEW edges, NEW i \in nodes,
           NEW k \in Component(nodes, edges, i)
    PROVE  k \in nodes /\ Component(nodes, edges, k) = Component(nodes, edges, i)
<1>1. PICK C, D : C = Component(nodes, edges, i) /\ D = Component(nodes, edges, k)
  OBVIOUS
<1>2. i \in C /\ Closed(nodes, edges, C) /\ k \in C /\ k \in nodes
  BY <1>1, ComponentIsClosed DEF Closed
<1>3. k \in D /\ Closed(nodes, edges, D) /\ \A S : Closed(nodes, edges, S) /\ k \in S => D \subseteq S
  BY <1>1, <1>2, ComponentIsClosed
<1>4. D \subseteq C
  BY <1>2, <1>3
<1>5. i \in D
  <2> SUFFICES ASSUME i \notin D PROVE FALSE
    OBVIOUS
  <2>1. PICK E : E = nodes \ D
    OBVIOUS
  <2>2. Closed(nodes, edges, E)
    BY <1>3, <2>1 DEF Closed
  <2>3. C \subseteq E
    BY <1>1, <2>1, <2>2, ComponentIsClosed
  <2> QED BY <1>2, <1>3, <2>1, <2>3
<1>6. C \subseteq D
  BY <1>1, <1>3, <1>5, ComponentIsClosed
<1> QED BY <1>1, <1>2, <1>4, <1>6

-----------------------------------------------------------------------------
(* The repair.                                                             *)

\* The first node of a set of nodes.
LEMMA FirstIsFirst ==
    ASSUME NEW S, S \subseteq Nat, S # {}
    PROVE  First(S) \in S /\ First(S) \in Nat /\ \A i \in S : First(S) <= i
<1>1. PICK f : f = [i \in S |-> i]
  OBVIOUS
<1>2. f \in [S -> Nat]
  BY <1>1
<1>3. \E i \in S : \A j \in S : i <= j
  <2>1. \E i \in S : \A j \in S : f[i] <= f[j]
    BY <1>2, HasLeast
  <2> QED BY <1>1, <2>1
<1>4. PICK m : m = CHOOSE i \in S : \A j \in S : i <= j
  OBVIOUS
<1>5. m \in S /\ \A j \in S : m <= j
  BY <1>3, <1>4
<1> QED BY <1>4, <1>5 DEF First

\* Edges of which each has its reverse, and none leads back or twice to a node.
Mutual(D, edges) ==
    /\ edges \in [D -> Seq(D)]
    /\ \A i \in D : /\ IsInjective(edges[i])
                    /\ \A j \in ToSet(edges[i]) : i # j /\ i \in ToSet(edges[j])

\* Where the bridge between a and b leads to from i.
OtherEnd(i, a, b) == {j \in {b} : i = a} \union {j \in {a} : i = b}

\* A bridge between nodes that have no edge.
LEMMA JoiningIsMutual ==
    ASSUME NEW D, NEW edges, Mutual(D, edges), NEW e, NEW a \in D, NEW b \in D,
           e[1] = a, e[2] = b, a # b, b \notin ToSet(edges[a])
    PROVE  /\ Mutual(D, Joined(edges, e))
           /\ \A i \in D : ToSet(Joined(edges, e)[i]) = ToSet(edges[i]) \union OtherEnd(i, a, b)
<1>1. a = e[1] /\ b = e[2] /\ a # b
  OBVIOUS
<1>2. PICK new : new = Joined(edges, e)
  OBVIOUS
<1>3. new = [i \in D |-> IF i = a THEN Append(edges[a], b)
                         ELSE IF i = b THEN Append(edges[b], a) ELSE edges[i]]
  BY <1>1, <1>2 DEF Joined, Mutual
<1>4. \A i \in D : /\ edges[i] \in Seq(D) /\ ToSet(edges[i]) \subseteq D /\ IsInjective(edges[i])
                   /\ \A j \in ToSet(edges[i]) : i # j /\ i \in ToSet(edges[j])
  BY Elements DEF Mutual
<1>5. b \notin ToSet(edges[a]) /\ a \notin ToSet(edges[b])
  BY <1>1, <1>4
<1>6. /\ new[a] \in Seq(D) /\ IsInjective(new[a]) /\ ToSet(new[a]) = ToSet(edges[a]) \union {b}
  <2>1. PICK s : s = edges[a]
    OBVIOUS
  <2>2. s \in Seq(D) /\ IsInjective(s) /\ b \notin ToSet(s)
    BY <1>4, <1>5, <2>1
  <2>3. new[a] = Append(s, b)
    BY <1>3, <2>1
  <2> QED BY <2>1, <2>2, <2>3, Appending
<1>7. /\ new[b] \in Seq(D) /\ IsInjective(new[b]) /\ ToSet(new[b]) = ToSet(edges[b]) \union {a}
  <2>1. PICK s : s = edges[b]
    OBVIOUS
  <2>2. s \in Seq(D) /\ IsInjective(s) /\ a \notin ToSet(s)
    BY <1>4, <1>5, <2>1
  <2>3. new[b] = Append(s, a)
    BY <1>1, <1>3, <2>1
  <2> QED BY <2>1, <2>2, <2>3, Appending
<1>8. \A i \in D : i # a /\ i # b => new[i] = edges[i]
  BY <1>3
<1>9. \A i \in D : ToSet(new[i]) =
         ToSet(edges[i]) \union {j \in {b} : i = a} \union {j \in {a} : i = b}
  <2> SUFFICES ASSUME NEW i \in D
               PROVE  ToSet(new[i]) = ToSet(edges[i]) \union {j \in {b} : i = a} \union {j \in {a} : i = b}
    OBVIOUS
  <2>1. CASE i = a
    BY <1>1, <1>6, <2>1
  <2>2. CASE i = b
    BY <1>1, <1>7, <2>2
  <2>3. CASE i # a /\ i # b
    BY <1>8, <2>3
  <2> QED BY <2>1, <2>2, <2>3
<1>10. PICK E, F : \A i \in D : E[i] = ToSet(edges[i]) /\ F[i] = ToSet(new[i])
  <2>1. PICK E, F : E = [i \in D |-> ToSet(edges[i])] /\ F = [i \in D |-> ToSet(new[i])]
    OBVIOUS
  <2> QED BY <2>1
<1>11. /\ \A i \in D : E[i] \subseteq D /\ \A j \in E[i] : i # j /\ i \in E[j]
       /\ \A i \in D : F[i] = E[i] \union {j \in {b} : i = a} \union {j \in {a} : i = b}
  <2>1. ASSUME NEW i \in D PROVE E[i] \subseteq D /\ \A j \in E[i] : i # j /\ i \in E[j]
    <3>1. E[i] = ToSet(edges[i]) /\ E[i] \subseteq D
      BY <1>4, <1>10
    <3>2. \A j \in E[i] : E[j] = ToSet(edges[j])
      BY <1>10, <3>1
    <3> QED BY <1>4, <3>1, <3>2
  <2>2. ASSUME NEW i \in D
        PROVE  F[i] = E[i] \union {j \in {b} : i = a} \union {j \in {a} : i = b}
    <3>1. E[i] = ToSet(edges[i]) /\ F[i] = ToSet(new[i])
      BY <1>10
    <3> QED BY <1>9, <3>1
  <2> QED BY <2>1, <2>2
<1>12. ASSUME NEW i \in D, NEW j \in F[i] PROVE j \in D /\ i # j /\ i \in F[j]
  <2>1. CASE j \in E[i]
    BY <1>11, <2>1
  <2>2. CASE i = a /\ j = b
    BY <1>1, <1>11, <2>2
  <2>3. CASE i = b /\ j = a
    BY <1>1, <1>11, <2>3
  <2> QED BY <1>11, <1>12, <2>1, <2>2, <2>3
<1>13. \A i \in D : new[i] \in Seq(D) /\ IsInjective(new[i])
  BY <1>4, <1>6, <1>7, <1>8
<1>14. new \in [D -> Seq(D)]
  BY <1>3, <1>13
<1>15. Mutual(D, new)
  <2>1. \A i \in D : \A j \in ToSet(new[i]) : i # j /\ i \in ToSet(new[j])
    BY <1>10, <1>12
  <2> QED BY <1>13, <1>14, <2>1 DEF Mutual
<1> QED BY <1>1, <1>2, <1>9, <1>15 DEF OtherEnd

\* No edge leads from one class of nodes, as C tells them, to another.
Inside(D, edges, C) == \A i \in D : \A j \in ToSet(edges[i]) : C[i] = C[j]

\* Bridges from different classes to class L.
BridgesTo(D, C, L, bridges) ==
    /\ Len(bridges) \in Nat
    /\ \A n \in 1..Len(bridges) : /\ bridges[n][1] \in D /\ bridges[n][2] \in D
                                  /\ C[bridges[n][1]] # L /\ C[bridges[n][2]] = L
    /\ \A m, n \in 1..Len(bridges) : C[bridges[m][1]] = C[bridges[n][1]] => m = n

\* Bridges between classes that had no edge between them leave the layer mutual.
LEMMA Bridging ==
    ASSUME NEW D, NEW edges, Mutual(D, edges), NEW C, Inside(D, edges, C),
           NEW L, NEW bridges, BridgesTo(D, C, L, bridges)
    PROVE  /\ Mutual(D, Bridged(edges, bridges))
           /\ \A i \in D : ToSet(edges[i]) \subseteq ToSet(Bridged(edges, bridges)[i])
           /\ \A n \in 1..Len(bridges) : bridges[n][2] \in ToSet(Bridged(edges, bridges)[bridges[n][1]])
<1> DEFINE Sat(g) == g = [n \in 0..Len(bridges) |-> IF n = 0 THEN edges ELSE Joined(g[n - 1], bridges[n])]
<1>1. PICK N \in Nat : N = Len(bridges)
  BY DEF BridgesTo
<1>2. PICK T : T = [D -> Seq(D)]
  OBVIOUS
<1>3. edges \in T
  BY <1>2 DEF Mutual
<1>4. ASSUME NEW n \in 1..N, NEW x \in T PROVE Joined(x, bridges[n]) \in T
  <2>1. PICK a \in D, b \in D : a = bridges[n][1] /\ b = bridges[n][2] /\ a # b
    BY <1>1 DEF BridgesTo
  <2>2. \A i \in D : x[i] \in Seq(D)
    BY <1>2
  <2>3. Append(x[a], b) \in Seq(D) /\ Append(x[b], a) \in Seq(D)
    BY <2>2, AppendProperties
  <2>4. Joined(x, bridges[n]) = [i \in D |-> IF i = a THEN Append(x[a], b)
                                            ELSE IF i = b THEN Append(x[b], a) ELSE x[i]]
    BY <1>2, <2>1 DEF Joined
  <2> QED BY <1>2, <2>2, <2>3, <2>4
<1>5. \E g : Sat(g)
  <2>1. PICK G : G = [n \in 1..N |-> [x \in T |-> Joined(x, bridges[n])]]
    OBVIOUS
  <2>2. G \in Steps(N, T)
    BY <1>4, <2>1 DEF Steps
  <2>3. PICK f \in [0..N -> T] : f[0] = edges /\ \A n \in 1..N : f[n] = G[n][f[n - 1]]
    <3>1. Runs(N, T, edges, G) # {}
      BY <1>3, <2>2, Iterates
    <3> QED BY <3>1 DEF Runs
  <2>4. ASSUME NEW n \in 1..N PROVE f[n] = Joined(f[n - 1], bridges[n])
    <3>1. f[n - 1] \in T
      BY <2>3
    <3> QED BY <2>1, <2>3, <3>1
  <2>5. Sat(f)
    BY <1>1, <2>3, <2>4
  <2> QED BY <2>5
<1>6. PICK g : g = CHOOSE h : Sat(h)
  OBVIOUS
<1>7. Sat(g)
  <2> HIDE DEF Sat
  <2> QED BY <1>5, <1>6
<1>8. g[0] = edges /\ \A n \in 1..N : g[n] = Joined(g[n - 1], bridges[n])
  <2>1. \A n \in 0..N : g[n] = IF n = 0 THEN edges ELSE Joined(g[n - 1], bridges[n])
    BY <1>1, <1>7
  <2>2. 0 \in 0..N /\ \A n \in 1..N : n \in 0..N /\ n # 0
    OBVIOUS
  <2>3. g[0] = edges
    BY <2>1, <2>2
  <2>4. ASSUME NEW n \in 1..N PROVE g[n] = Joined(g[n - 1], bridges[n])
    BY <2>1, <2>2
  <2> QED BY <2>3, <2>4
<1>9. Bridged(edges, bridges) = g[N]
  BY <1>1, <1>6 DEF Bridged
<1> HIDE DEF Sat
<1>10. PICK A, B : \A n \in 1..N : A[n] = bridges[n][1] /\ B[n] = bridges[n][2] /\ A[n] \in D /\ B[n] \in D
  <2>1. PICK A, B : A = [n \in 1..N |-> bridges[n][1]] /\ B = [n \in 1..N |-> bridges[n][2]]
    OBVIOUS
  <2>2. \A n \in 1..N : A[n] = bridges[n][1] /\ B[n] = bridges[n][2]
    BY <2>1
  <2>3. \A n \in 1..N : bridges[n][1] \in D /\ bridges[n][2] \in D
    BY <1>1 DEF BridgesTo
  <2> QED BY <2>2, <2>3
<1>11. /\ \A n \in 1..N : C[A[n]] # L /\ C[B[n]] = L
       /\ \A m, n \in 1..N : C[A[m]] = C[A[n]] => m = n
  BY <1>1, <1>10 DEF BridgesTo
<1> DEFINE Ok(n) ==
      /\ Mutual(D, g[n])
      /\ \A i \in D : /\ ToSet(edges[i]) \subseteq ToSet(g[n][i])
                      /\ \A j \in ToSet(g[n][i]) :
                            \/ C[i] = C[j]
                            \/ \E k \in 1..n : \/ C[i] = C[A[k]] /\ C[j] = L
                                               \/ C[j] = C[A[k]] /\ C[i] = L
      /\ \A k \in 1..n : B[k] \in ToSet(g[n][A[k]])
           P == [n \in 0..N |-> Ok(n)]
<1>12. Ok(0)
  BY <1>8 DEF Inside
<1>13. ASSUME NEW n \in 1..N, Ok(n - 1) PROVE Ok(n)
  <2>1. n - 1 \in 0..N
    OBVIOUS
  <2>2. PICK old, new, a, b : /\ old = g[n - 1] /\ new = g[n]
                               /\ a = A[n] /\ b = B[n] /\ a \in D /\ b \in D
    BY <1>10
  <2>3. /\ Mutual(D, old)
        /\ \A i \in D : ToSet(edges[i]) \subseteq ToSet(old[i])
        /\ \A k \in 1..n - 1 : B[k] \in ToSet(old[A[k]])
    BY <1>13, <2>2
  <2>4. \A i \in D : \A j \in ToSet(old[i]) :
           \/ C[i] = C[j]
           \/ \E k \in 1..n - 1 : \/ C[i] = C[A[k]] /\ C[j] = L
                                  \/ C[j] = C[A[k]] /\ C[i] = L
    BY <1>13, <2>2
  <2>5. a # b /\ b \notin ToSet(old[a])
    <3>1. C[a] # L /\ C[b] = L
      BY <1>11, <2>2
    <3>2. \A k \in 1..n - 1 : C[a] # C[A[k]]
      BY <1>11, <2>2
    <3>3. a # b
      BY <3>1
    <3>4. ASSUME b \in ToSet(old[a]) PROVE FALSE
      <4>1. \/ C[a] = C[b]
            \/ \E k \in 1..n - 1 : \/ C[a] = C[A[k]] /\ C[b] = L
                                   \/ C[b] = C[A[k]] /\ C[a] = L
        BY <2>2, <2>4, <3>4
      <4> QED BY <3>1, <3>2, <4>1
    <3> QED BY <3>3, <3>4
  <2>6. PICK e : e = bridges[n] /\ e[1] = a /\ e[2] = b
    BY <1>1, <1>10, <2>2
  <2>7. new = Joined(old, e)
    BY <1>8, <2>2, <2>6
  <2>8. /\ Mutual(D, new)
        /\ \A i \in D : ToSet(new[i]) =
              ToSet(old[i]) \union {j \in {b} : i = a} \union {j \in {a} : i = b}
    <3>1. a \in D /\ b \in D /\ Mutual(D, old)
      BY <2>2, <2>3
    <3>2. /\ Mutual(D, Joined(old, e))
          /\ \A i \in D : ToSet(Joined(old, e)[i]) = ToSet(old[i]) \union OtherEnd(i, a, b)
      <4>1. e[1] = a /\ e[2] = b /\ a # b /\ b \notin ToSet(old[a])
        BY <2>5, <2>6
      <4>2. Mutual(D, Joined(old, e))
        BY <3>1, <4>1, JoiningIsMutual
      <4>3. ASSUME NEW i \in D PROVE ToSet(Joined(old, e)[i]) = ToSet(old[i]) \union OtherEnd(i, a, b)
        BY <3>1, <4>1, JoiningIsMutual
      <4> QED BY <4>2, <4>3
    <3> QED BY <2>7, <3>2 DEF OtherEnd
  <2>9. \A i \in D : ToSet(edges[i]) \subseteq ToSet(new[i])
    BY <2>3, <2>8
  <2>10. ASSUME NEW i \in D, NEW j \in ToSet(new[i])
         PROVE  \/ C[i] = C[j]
                \/ \E k \in 1..n : \/ C[i] = C[A[k]] /\ C[j] = L
                                   \/ C[j] = C[A[k]] /\ C[i] = L
    <3>1. CASE j \in ToSet(old[i])
      BY <2>4, <3>1
    <3>2. CASE i = a /\ j = b
      BY <1>11, <2>2, <3>2
    <3>3. CASE i = b /\ j = a
      BY <1>11, <2>2, <3>3
    <3> QED BY <2>8, <2>10, <3>1, <3>2, <3>3
  <2>11. ASSUME NEW k \in 1..n PROVE B[k] \in ToSet(new[A[k]])
    <3>1. A[k] \in D
      BY <1>10
    <3>2. CASE k = n
      BY <2>2, <2>8, <3>2
    <3>3. CASE k # n
      <4>1. k \in 1..n - 1
        BY <3>3
      <4> QED BY <2>3, <2>8, <3>1, <4>1
    <3> QED BY <3>2, <3>3
  <2> QED BY <2>2, <2>8, <2>9, <2>10, <2>11
<1>14. Ok(N)
  <2> HIDE DEF Ok
  <2>1. P \in [0..N -> BOOLEAN]
    BY DEF Ok
  <2>2. P[0] /\ \A n \in 1..N : P[n - 1] => P[n]
    BY <1>12, <1>13
  <2> HIDE DEF P
  <2>3. \A n \in 0..N : P[n]
    BY <2>1, <2>2, UpTo
  <2> QED BY <2>3 DEF P
<1> QED BY <1>1, <1>9, <1>10, <1>14

\* The components of the lowest layer, and the largest of them.
LEMMA LargestIsOne ==
    ASSUME GraphTypeOK, Nodes # {}
    PROVE  /\ Largest \in Components /\ IsFiniteSet(Components)
           /\ \A C \in Components : C \in SUBSET Nodes /\ C # {} /\ IsFiniteSet(C)
<1>1. PICK V, edges : V = Nodes /\ edges = graph[0]
  OBVIOUS
<1>2. PICK X : X = Components /\ X = {Component(V, edges, i) : i \in V}
  BY <1>1 DEF Components
<1>3. IsFiniteSet(V) /\ V # {} /\ V \subseteq Nat /\ \A S \in SUBSET V : IsFiniteSet(S)
  BY <1>1, NodesAreFinite
<1>4. \A C \in X : C \in SUBSET V /\ C # {}
  BY <1>2, <1>3, ComponentIsClosed DEF Closed
<1>5. IsFiniteSet(X)
  <2>1. IsFiniteSet(SUBSET V)
    BY <1>3, FS_SUBSET
  <2> QED BY <1>4, <2>1, FS_Subset
<1>6. PICK N \in Nat : N = Cardinality(V)
  BY <1>3, FS_CardinalityType
<1>7. \A C \in X : Cardinality(C) \in Nat /\ Cardinality(C) <= N
  BY <1>3, <1>4, <1>6, FS_Subset, FS_CardinalityType
<1>8. PICK B \in X : \A C \in X : Cardinality(B) >= Cardinality(C)
  <2>1. PICK f : f = [C \in X |-> N - Cardinality(C)]
    OBVIOUS
  <2>2. f \in [X -> Nat]
    BY <1>7, <2>1
  <2>3. X # {}
    BY <1>2, <1>3
  <2>4. PICK B \in X : \A C \in X : f[B] <= f[C]
    BY <2>2, <2>3, HasLeast
  <2>5. \A C \in X : Cardinality(B) >= Cardinality(C)
    BY <1>7, <2>1, <2>4
  <2> QED BY <2>5
<1>9. PICK Y : Y = {C \in X : Cardinality(C) = Cardinality(B)}
  OBVIOUS
<1>10. \A C \in X : First(C) \in Nat
  BY <1>3, <1>4, FirstIsFirst
<1>11. PICK L \in Y : \A C \in Y : First(L) <= First(C)
  <2>1. PICK f : f = [C \in Y |-> First(C)]
    OBVIOUS
  <2>2. f \in [Y -> Nat]
    BY <1>9, <1>10, <2>1
  <2>3. Y # {}
    BY <1>9
  <2>4. PICK L \in Y : \A C \in Y : f[L] <= f[C]
    BY <2>2, <2>3, HasLeast
  <2> QED BY <2>1, <2>4
<1>12. L \in X /\ \A D \in X : \/ Cardinality(L) > Cardinality(D)
                               \/ Cardinality(L) = Cardinality(D) /\ First(L) <= First(D)
  BY <1>7, <1>8, <1>9, <1>11
<1>13. Largest \in X
  BY <1>2, <1>12 DEF Largest
<1> QED BY <1>1, <1>2, <1>3, <1>4, <1>5, <1>13

\* A bridge leads from one set to the other.
LEMMA BridgeIsOne ==
    ASSUME GraphTypeOK, NEW C \in SUBSET Nodes, NEW D \in SUBSET Nodes, C # {}, D # {}
    PROVE  Bridge(C, D) \in C \X D
<1> DEFINE Length(e) == Distance[<<at[e[1]], at[e[2]]>>]
<1>1. \A i \in Nodes : i \in Nat /\ at[i] \in Points
  BY NodesAreFinite, ElementOfSeq DEF GraphTypeOK
<1>2. PICK X : X = C \X D
  OBVIOUS
<1>3. X # {} /\ \A e \in X : e[1] \in Nat /\ e[2] \in Nat /\ Length(e) \in Nat
  <2>1. X # {}
    <3>1. PICK x \in C, y \in D : TRUE
      OBVIOUS
    <3>2. <<x, y>> \in X
      BY <1>2
    <3> QED BY <3>2
  <2>2. ASSUME NEW e \in X PROVE e[1] \in Nat /\ e[2] \in Nat /\ Length(e) \in Nat
    <3>1. e[1] \in Nodes /\ e[2] \in Nodes
      BY <1>2
    <3>2. <<at[e[1]], at[e[2]]>> \in Points \X Points
      BY <1>1, <3>1
    <3> QED BY <1>1, <3>1, <3>2, GraphAssumption
  <2> QED BY <2>1, <2>2
<1> HIDE DEF Length
<1>4. PICK a \in X : \A e \in X : Length(a) <= Length(e)
  <2>1. PICK f : f = [e \in X |-> Length(e)]
    OBVIOUS
  <2>2. f \in [X -> Nat]
    BY <1>3, <2>1
  <2>3. PICK a \in X : \A e \in X : f[a] <= f[e]
    BY <1>3, <2>2, HasLeast
  <2> QED BY <2>1, <2>3
<1>5. PICK Y : Y = {e \in X : Length(e) = Length(a)}
  OBVIOUS
<1>6. PICK b \in Y : \A e \in Y : b[1] <= e[1]
  <2>1. PICK f : f = [e \in Y |-> e[1]]
    OBVIOUS
  <2>2. f \in [Y -> Nat] /\ Y # {}
    BY <1>3, <1>5, <2>1
  <2>3. PICK b \in Y : \A e \in Y : f[b] <= f[e]
    BY <2>2, HasLeast
  <2> QED BY <2>1, <2>3
<1>7. PICK Z : Z = {e \in Y : e[1] = b[1]}
  OBVIOUS
<1>8. PICK c \in Z : \A e \in Z : c[2] <= e[2]
  <2>1. PICK f : f = [e \in Z |-> e[2]]
    OBVIOUS
  <2>2. f \in [Z -> Nat] /\ Z # {}
    BY <1>3, <1>5, <1>7, <2>1
  <2>3. PICK c \in Z : \A e \in Z : f[c] <= f[e]
    BY <2>2, HasLeast
  <2> QED BY <2>1, <2>3
<1>9. c \in X /\ Length(c) = Length(a) /\ c[1] = b[1]
  BY <1>5, <1>7
<1>10. ASSUME NEW f \in X
       PROVE  \/ Length(c) < Length(f)
              \/ /\ Length(c) = Length(f)
                 /\ c[1] < f[1] \/ (c[1] = f[1] /\ c[2] <= f[2])
  <2>1. CASE Length(f) # Length(a)
    BY <1>3, <1>4, <1>9, <2>1
  <2>2. CASE Length(f) = Length(a) /\ f[1] # b[1]
    <3>1. b[1] <= f[1] /\ b[1] \in Nat /\ f[1] \in Nat
      BY <1>3, <1>5, <1>6, <2>2
    <3> QED BY <1>9, <2>2, <3>1
  <2>3. CASE Length(f) = Length(a) /\ f[1] = b[1]
    <3>1. c[2] <= f[2]
      BY <1>5, <1>7, <1>8, <2>3
    <3> QED BY <1>9, <2>3, <3>1
  <2> QED BY <2>1, <2>2, <2>3
<1> DEFINE Shortest(e) == \A f \in X : LET d == Length(e)
                                           h == Length(f)
                                       IN  d < h \/ (d = h /\ (e[1] < f[1] \/ (e[1] = f[1] /\ e[2] <= f[2])))
<1>11. Shortest(c)
  BY <1>10
<1>12. Bridge(C, D) = CHOOSE e \in X : Shortest(e)
  BY <1>2 DEF Bridge, Length
<1> HIDE DEF Shortest
<1>13. Bridge(C, D) \in X
  BY <1>9, <1>11, <1>12
<1> QED BY <1>2, <1>13

\* The layer is repaired.
LEMMA IsRepaired ==
    ASSUME GraphInv, Repair
    PROVE  GraphInv'
<1> USE DEF GraphInv
<1>1. PICK L, others, bridges :
         /\ L = Largest /\ others = Components \ {L}
         /\ bridges = [n \in 1..Cardinality(others) |->
                         Bridge(CHOOSE C \in others :
                                    Cardinality({D \in others : First(D) < First(C)}) = n - 1, L)]
  OBVIOUS
<1>2. /\ pc = "insert" /\ pc' = "built" /\ Len(at) = Size
      /\ graph' = [graph EXCEPT ![0] = Bridged(graph[0], bridges)]
      /\ UNCHANGED <<at, level, entry, top, layer, points, links>>
  BY <1>1 DEF Repair
<1>3. 0 \in Layers /\ Len(at) \in Nat /\ Nodes # {} /\ Nodes = 1..Len(at)
  <2>1. GraphTypeOK
    OBVIOUS
  <2>2. Len(at) \in Nat /\ Nodes = 1..Len(at)
    BY <2>1, NodesAreFinite
  <2>3. Len(at) # 0
    BY <1>2, GraphAssumption
  <2>4. 1 \in Nodes
    BY <2>2, <2>3
  <2>5. 0 \in Layers
    BY GraphAssumption DEF Layers
  <2> QED BY <2>2, <2>4, <2>5
<1>4. PICK V, edges : V = Nodes /\ edges = graph[0]
  OBVIOUS
<1>5. IsFiniteSet(V) /\ V \subseteq Nat
  BY <1>3, <1>4, NodesAreFinite
<1>6. /\ Nodes' = Nodes /\ New' = New /\ Settled' = Nodes /\ Settled = Nodes /\ ~Inserting /\ ~Inserting'
      /\ entry \in V
  BY <1>2, <1>3, <1>4 DEF Nodes, New, Settled, Inserting, GraphTypeOK
<1>7. DOMAIN edges = V
  <2>1. \A i \in Nodes : level[i] >= 0
    BY GraphAssumption DEF GraphTypeOK, Layers
  <2> QED BY <1>2, <1>3, <1>4, <2>1, LayersBetween
<1>8. Mutual(V, edges)
  <2>1. edges \in [V -> Seq(V)]
    BY <1>3, <1>4, <1>7, EdgesOfLayer
  <2>2. ~Built /\ \A k, i, j : ~Pending(k, i, j)
    BY <1>2 DEF Built, Pending
  <2> QED BY <1>3, <1>4, <1>7, <2>1, <2>2 DEF Mutual, EdgesGoBothWays
<1>9. PICK X : X = Components /\ X = {Component(V, edges, i) : i \in V}
  BY <1>4 DEF Components
<1>10. PICK C : C = [i \in V |-> Component(V, edges, i)]
  OBVIOUS
<1>11. \A i \in V : /\ C[i] \in X /\ i \in C[i] /\ C[i] \subseteq V
                    /\ \A k \in C[i] : C[k] = C[i]
                    /\ Closed(V, edges, C[i])
                    /\ \A S : Closed(V, edges, S) /\ i \in S => C[i] \subseteq S
  <2> SUFFICES ASSUME NEW i \in V
               PROVE  /\ C[i] \in X /\ i \in C[i] /\ C[i] \subseteq V
                      /\ \A k \in C[i] : C[k] = C[i]
                      /\ Closed(V, edges, C[i])
                      /\ \A S : Closed(V, edges, S) /\ i \in S => C[i] \subseteq S
    OBVIOUS
  <2>1. C[i] = Component(V, edges, i) /\ C[i] \in X
    BY <1>9, <1>10
  <2>2. /\ i \in C[i] /\ Closed(V, edges, C[i])
        /\ \A S : Closed(V, edges, S) /\ i \in S => C[i] \subseteq S
    BY <1>5, <2>1, ComponentIsClosed
  <2>3. C[i] \subseteq V
    BY <2>2 DEF Closed
  <2>4. \A k \in C[i] : C[k] = C[i]
    BY <1>5, <1>10, <2>1, <2>3, ComponentsAreApart
  <2> QED BY <2>1, <2>2, <2>3, <2>4
<1>12. /\ L \in X /\ IsFiniteSet(X) /\ IsFiniteSet(others)
       /\ \A Y \in X : Y \in SUBSET V /\ Y # {} /\ \E i \in V : Y = C[i]
  <2>1. /\ L \in X /\ IsFiniteSet(X) /\ \A Y \in X : Y \in SUBSET V /\ Y # {}
    BY <1>1, <1>3, <1>4, <1>9, LargestIsOne
  <2>2. IsFiniteSet(others)
    BY <1>1, <1>9, <2>1, FS_Subset
  <2>3. \A Y \in X : \E i \in V : Y = C[i]
    BY <1>9, <1>10
  <2> QED BY <2>1, <2>2, <2>3
<1>13. \A Y \in X : \A k \in Y : k \in V /\ C[k] = Y
  BY <1>11, <1>12
<1>14. PICK K \in Nat : K = Cardinality(others)
  BY <1>12, FS_CardinalityType
<1>15. PICK R : R = {e \in others \X others : First(e[1]) < First(e[2])}
  OBVIOUS
<1>16. \A Y \in others : Y \in X /\ Y # L /\ First(Y) \in Y /\ First(Y) \in Nat
  BY <1>1, <1>5, <1>9, <1>12, FirstIsFirst
<1>17. \A Y, Z \in others : <<Y, Z>> \in R <=> First(Y) < First(Z)
  BY <1>15
<1>18. Orders(R, others)
  <2>1. \A Y, Z \in others : First(Y) = First(Z) => Y = Z
    BY <1>13, <1>16
  <2>2. \A Y \in others : First(Y) \in Nat
    BY <1>16
  <2> QED BY <1>17, <2>1, <2>2 DEF Orders
<1> DEFINE Rank(Y) == Cardinality({D \in others : First(D) < First(Y)})
<1>19. /\ \A n \in 1..K : \E Y \in others : \A Z \in others : Rank(Z) = n - 1 <=> Z = Y
       /\ \A Y \in others : \E n \in 1..K : Rank(Y) = n - 1
  <2>1. \A Y \in others : {D \in others : <<D, Y>> \in R} = {D \in others : First(D) < First(Y)}
    BY <1>17
  <2>2. /\ \A n \in 1..K : \E Y \in others :
              \A Z \in others : Cardinality({D \in others : <<D, Z>> \in R}) = n - 1 <=> Z = Y
        /\ \A Y \in others : \E n \in 1..K : Cardinality({D \in others : <<D, Y>> \in R}) = n - 1
    BY <1>12, <1>14, <1>18, RanksAreUnique
  <2> QED BY <2>1, <2>2
<1>20. bridges = [n \in 1..K |-> Bridge(CHOOSE Y \in others : Rank(Y) = n - 1, L)]
  BY <1>1, <1>14
<1> HIDE DEF Rank
<1>21. PICK cn : cn = [n \in 1..K |-> CHOOSE Y \in others : Rank(Y) = n - 1]
  OBVIOUS
<1>22. \A n \in 1..K : cn[n] \in others /\ Rank(cn[n]) = n - 1 /\ bridges[n] = Bridge(cn[n], L)
  BY <1>19, <1>20, <1>21
<1>23. \A m, n \in 1..K : cn[m] = cn[n] => m = n
  <2> SUFFICES ASSUME NEW m \in 1..K, NEW n \in 1..K, cn[m] = cn[n] PROVE m - 1 = n - 1
    OBVIOUS
  <2> QED BY <1>22
<1>24. ASSUME NEW Y \in others PROVE \E n \in 1..K : cn[n] = Y
  <2>1. PICK n \in 1..K : Rank(Y) = n - 1
    BY <1>19
  <2>2. PICK Z \in others : \A W \in others : Rank(W) = n - 1 <=> W = Z
    BY <1>19
  <2>3. cn[n] = Z /\ Y = Z
    BY <1>22, <2>1, <2>2
  <2> QED BY <2>3
<1>25. \A n \in 1..K : bridges[n] \in cn[n] \X L
  <2> SUFFICES ASSUME NEW n \in 1..K PROVE Bridge(cn[n], L) \in cn[n] \X L
    BY <1>22
  <2>1. /\ cn[n] \in SUBSET Nodes /\ cn[n] # {} /\ L \in SUBSET Nodes /\ L # {}
    BY <1>4, <1>12, <1>16, <1>22
  <2> QED BY <2>1, BridgeIsOne
<1>26. \A n \in 1..K : /\ bridges[n] \in V \X V /\ bridges[n][1] \in V /\ bridges[n][2] \in V
                       /\ C[bridges[n][1]] = cn[n] /\ C[bridges[n][2]] = L /\ cn[n] # L
  <2> SUFFICES ASSUME NEW n \in 1..K
               PROVE  /\ bridges[n] \in V \X V /\ bridges[n][1] \in V /\ bridges[n][2] \in V
                      /\ C[bridges[n][1]] = cn[n] /\ C[bridges[n][2]] = L /\ cn[n] # L
    OBVIOUS
  <2>1. cn[n] \in X /\ cn[n] # L
    BY <1>16, <1>22
  <2>2. bridges[n] \in cn[n] \X L
    BY <1>25
  <2>3. bridges[n][1] \in cn[n] /\ bridges[n][2] \in L
    BY <2>2
  <2>4. bridges[n][1] \in V /\ bridges[n][2] \in V /\ C[bridges[n][1]] = cn[n] /\ C[bridges[n][2]] = L
    BY <1>12, <1>13, <2>1, <2>3
  <2>5. bridges[n] \in V \X V
    BY <1>12, <2>1, <2>2
  <2> QED BY <2>1, <2>4, <2>5
<1>27. bridges \in Seq(V \X V) /\ Len(bridges) = K
  <2>1. PICK W : W = V \X V
    OBVIOUS
  <2>2. bridges \in [1..K -> W]
    BY <1>20, <1>26, <2>1
  <2> QED BY <2>1, <2>2, Listed
<1>28. PICK new : new = Bridged(edges, bridges)
  OBVIOUS
<1>29. /\ Mutual(V, new)
       /\ \A i \in V : ToSet(edges[i]) \subseteq ToSet(new[i])
       /\ \A n \in 1..K : bridges[n][2] \in ToSet(new[bridges[n][1]])
  <2>1. ASSUME NEW i \in V, NEW j \in ToSet(edges[i]) PROVE C[i] = C[j]
    <3>1. j \in V
      BY <1>8, Elements DEF Mutual
    <3>2. j \in C[i]
      BY <1>7, <1>11, <3>1 DEF Closed, Adjacent
    <3> QED BY <1>11, <3>2
  <2>2. Inside(V, edges, C)
    BY <2>1 DEF Inside
  <2>3. BridgesTo(V, C, L, bridges)
    <3>1. \A m, n \in 1..K : C[bridges[m][1]] = C[bridges[n][1]] => m = n
      BY <1>23, <1>26
    <3> QED BY <1>26, <1>27, <3>1 DEF BridgesTo
  <2>4. /\ Mutual(V, Bridged(edges, bridges))
        /\ \A i \in V : ToSet(edges[i]) \subseteq ToSet(Bridged(edges, bridges)[i])
        /\ \A n \in 1..Len(bridges) :
              bridges[n][2] \in ToSet(Bridged(edges, bridges)[bridges[n][1]])
    BY <1>8, <2>2, <2>3, Bridging
  <2> QED BY <1>27, <1>28, <2>4
<1>30. /\ graph' = [graph EXCEPT ![0] = new] /\ graph'[0] = new /\ DOMAIN new = V
       /\ \A k \in Layers : k # 0 => graph'[k] = graph[k]
  BY <1>2, <1>3, <1>4, <1>28, <1>29 DEF GraphTypeOK, Mutual
<1>31. GraphTypeOK'
  <2>1. graph' \in [Layers -> UNION {[D -> Seq(Nodes')] : D \in SUBSET Nodes'}]
    <3>1. new \in UNION {[D -> Seq(Nodes)] : D \in SUBSET Nodes}
      BY <1>4, <1>29 DEF Mutual
    <3>2. PICK U : U = UNION {[D -> Seq(Nodes)] : D \in SUBSET Nodes}
      OBVIOUS
    <3>3. graph \in [Layers -> U]
      BY <3>2 DEF GraphTypeOK
    <3>4. graph' \in [Layers -> U]
      BY <1>30, <3>1, <3>2, <3>3
    <3> QED BY <1>6, <3>2, <3>4
  <2>2. entry # 0
    BY <1>3, <1>4, <1>6
  <2> QED BY <1>2, <1>6, <2>1, <2>2 DEF GraphTypeOK
<1>32. \A k \in Layers : DOMAIN graph'[k] = DOMAIN graph[k]
  BY <1>4, <1>7, <1>30
<1>33. Placed'
  <2> SUFFICES ASSUME NEW l \in Layers
               PROVE  DOMAIN graph'[l] = {i \in Settled' : level'[i] >= l} \union {i \in {New'} : Wired(l)'}
    BY DEF Placed
  <2>1. DOMAIN graph[l] = {i \in Nodes : level[i] >= l}
    BY <1>2, LayersBetween
  <2>2. {i \in {New'} : Wired(l)'} = {}
    BY <1>6 DEF Wired
  <2> QED BY <1>2, <1>6, <1>32, <2>1, <2>2
<1>34. EntryIsTop'
  BY <1>2, <1>6 DEF EntryIsTop
<1>35. WithinLayer'
  <2> SUFFICES ASSUME NEW k \in Layers, NEW i \in DOMAIN graph'[k]
               PROVE  ToSet(graph'[k][i]) \subseteq DOMAIN graph'[k]
    BY DEF WithinLayer
  <2>1. CASE k = 0
    <3>1. new[i] \in Seq(V)
      BY <1>29, <1>30, <2>1 DEF Mutual
    <3> QED BY <1>30, <2>1, <3>1, Elements
  <2>2. CASE k # 0
    BY <1>30, <2>2 DEF WithinLayer
  <2> QED BY <2>1, <2>2
<1>36. StartsThere' /\ LinksAhead' /\ WiredLinked' /\ BornLinked'
  BY <1>2, <1>6 DEF StartsThere, LinksAhead, WiredLinked, Wired, BornLinked
<1>37. EdgesGoBothWays'
  <2> SUFFICES ASSUME NEW k \in Layers, NEW i \in DOMAIN graph'[k]
               PROVE  /\ \A j \in ToSet(graph'[k][i]) : i # j /\ i \in ToSet(graph'[k][j])
                      /\ IsInjective(graph'[k][i])
    BY <1>2 DEF EdgesGoBothWays, Built
  <2>1. CASE k = 0
    BY <1>29, <1>30, <2>1 DEF Mutual
  <2>2. CASE k # 0
    <3>1. \A h, j : ~Pending(k, h, j)
      BY <1>2 DEF Pending
    <3> QED BY <1>30, <2>2, <3>1 DEF EdgesGoBothWays
  <2> QED BY <2>1, <2>2
<1>38. PICK S : S = Component(V, new, entry)
  OBVIOUS
<1>39. entry \in S /\ Closed(V, new, S)
  BY <1>5, <1>6, <1>38, ComponentIsClosed
<1>40. Closed(V, edges, S)
  BY <1>7, <1>29, <1>30, <1>39 DEF Closed, Adjacent
<1>41. \A i \in S : i \in V /\ C[i] \subseteq S
  BY <1>11, <1>39, <1>40 DEF Closed
<1>42. \A n \in 1..K : bridges[n][1] \in S <=> bridges[n][2] \in S
  BY <1>26, <1>29, <1>30, <1>39 DEF Closed, Adjacent
<1>43. \A Y \in X : \A k \in Y : k \in S => Y \subseteq S
  BY <1>13, <1>41
<1>44. \A n \in 1..K : bridges[n][1] \in cn[n] /\ bridges[n][2] \in L /\ cn[n] \in X
  BY <1>11, <1>16, <1>22, <1>26
<1>45. L \subseteq S
  <2>1. CASE C[entry] = L
    BY <1>6, <1>39, <1>41, <2>1
  <2>2. CASE C[entry] # L
    <3>1. C[entry] \in others
      BY <1>1, <1>6, <1>9, <1>11, <2>2
    <3>2. PICK n \in 1..K : cn[n] = C[entry]
      BY <1>24, <3>1
    <3>3. cn[n] \subseteq S
      BY <1>39, <1>41, <3>2
    <3>4. bridges[n][2] \in S
      BY <1>42, <1>44, <3>3
    <3> QED BY <1>12, <1>43, <1>44, <3>4
  <2> QED BY <2>1, <2>2
<1>46. V \subseteq S
  <2> SUFFICES ASSUME NEW i \in V PROVE i \in S
    OBVIOUS
  <2>1. CASE C[i] = L
    BY <1>11, <1>45, <2>1
  <2>2. CASE C[i] # L
    <3>1. C[i] \in others
      BY <1>1, <1>9, <1>11, <2>2
    <3>2. PICK n \in 1..K : cn[n] = C[i]
      BY <1>24, <3>1
    <3>3. bridges[n][1] \in S
      BY <1>42, <1>44, <1>45
    <3>4. cn[n] \subseteq S
      BY <1>43, <1>44, <3>3
    <3> QED BY <1>11, <3>2, <3>4
  <2> QED BY <2>1, <2>2
<1>47. AllReachable'
  <2>1. S = V
    BY <1>39, <1>46 DEF Closed
  <2> QED BY <1>2, <1>4, <1>6, <1>30, <1>38, <2>1 DEF AllReachable
<1> QED BY <1>31, <1>33, <1>34, <1>35, <1>36, <1>37, <1>47

-----------------------------------------------------------------------------
(* Saving and loading.                                                     *)

\* A layer that was saved and loaded has the edges that it had.
LEMMA LoadingWhatWasSaved ==
    ASSUME GraphTypeOK, NEW D \in SUBSET Nodes, NEW edges \in [D -> Seq(Nodes)]
    PROVE  Loaded(Saved(edges)) = [i \in {j \in D : edges[j] # <<>>} |-> edges[i]]
<1>0. PICK N \in Nat : N = Len(at) /\ Nodes = 1..N
  BY NodesAreFinite
<1>1. PICK V : N = Len(at) /\ V = Nodes /\ V = 1..N
  BY <1>0
<1>2. PICK s : s = [i \in 1..N |-> Adjacent(edges, i)]
  OBVIOUS
<1>3. PICK S : S = Seq(V)
  OBVIOUS
<1>4. /\ \A i \in 1..N : s[i] = Adjacent(edges, i) /\ s[i] \in Seq(V)
      /\ \A i \in D : s[i] = edges[i]
      /\ \A i \in 1..N : s[i] # <<>> <=> i \in D /\ edges[i] # <<>>
  <2>1. <<>> \in Seq(V)
    BY EmptySeq
  <2>2. \A i \in 1..N : s[i] = IF i \in D THEN edges[i] ELSE <<>>
    BY <1>2 DEF Adjacent
  <2> QED BY <1>1, <1>2, <2>1, <2>2
<1>5. s \in [1..N -> Seq(V)]
  BY <1>2, <1>4
<1>6. PICK h \in [0..N -> Seq(V)] : Laid(N, s, h)
  <2>1. PICK G : G = [n \in 1..N |-> [x \in S |-> x \o s[n]]]
    OBVIOUS
  <2>2. \A n \in 1..N, x \in S : x \o s[n] \in S
    BY <1>3, <1>4, ConcatProperties
  <2>3. G \in Steps(N, S)
    BY <2>1, <2>2 DEF Steps
  <2>4. PICK a \in S : a = <<>>
    BY <1>3, EmptySeq
  <2>5. Runs(N, S, a, G) # {}
    BY <2>3, Iterates
  <2>6. PICK h \in [0..N -> S] : h[0] = a /\ \A n \in 1..N : h[n] = G[n][h[n - 1]]
    BY <2>5 DEF Runs
  <2>7. ASSUME NEW n \in 1..N PROVE h[n] = h[n - 1] \o s[n]
    <3>1. h[n - 1] \in S
      BY <2>6
    <3> QED BY <2>1, <2>6, <3>1
  <2>8. Laid(N, s, h)
    BY <2>4, <2>6, <2>7 DEF Laid
  <2> QED BY <1>3, <2>6, <2>8
<1>7. ASSUME NEW n \in 0..N PROVE FlattenSeq([i \in 1..n |-> s[i]]) = h[n]
  <2>1. PICK t : t = [i \in 1..n |-> s[i]]
    OBVIOUS
  <2>2. t \in [1..n -> S]
    BY <1>3, <1>4, <2>1
  <2>3. t \in Seq(S) /\ Len(t) = n
    BY <2>2, Listed
  <2>4. PICK k : k = [m \in 0..n |-> h[m]]
    OBVIOUS
  <2>5. k \in [0..n -> Seq(V)]
    BY <1>6, <2>4
  <2>6. Laid(n, t, k)
    <3>1. k[0] = <<>>
      BY <1>6, <2>4 DEF Laid
    <3>2. ASSUME NEW m \in 1..n PROVE k[m] = k[m - 1] \o t[m]
      <4>1. m \in 1..N /\ m - 1 \in 0..n /\ m \in 0..n
        OBVIOUS
      <4> QED BY <1>6, <2>1, <2>4, <4>1 DEF Laid
    <3> QED BY <3>1, <3>2 DEF Laid
  <2>7. t \in Seq(Seq(V))
    BY <1>3, <2>3
  <2>8. FlattenSeq(t) = k[n]
    BY <2>3, <2>5, <2>6, <2>7, Flattening
  <2> QED BY <2>1, <2>4, <2>8
<1>8. PICK file : file = Saved(edges)
  OBVIOUS
<1>9. file.indices = h[N] /\ \A n \in 0..N : file.indptr[n] = Len(h[n])
  <2>1. file.indices = FlattenSeq([i \in 1..N |-> Adjacent(edges, i)])
    BY <1>1, <1>8 DEF Saved
  <2>2. file.indices = h[N]
    BY <1>2, <1>7, <2>1
  <2>3. ASSUME NEW n \in 0..N PROVE file.indptr[n] = Len(h[n])
    <3>1. file.indptr[n] = Len(FlattenSeq([i \in 1..n |-> Adjacent(edges, i)]))
      BY <1>1, <1>8 DEF Saved
    <3>2. [i \in 1..n |-> Adjacent(edges, i)] = [i \in 1..n |-> s[i]]
      BY <1>4
    <3> QED BY <1>7, <3>1, <3>2
  <2> QED BY <2>2, <2>3
<1>10. \A n \in 1..N : /\ Len(h[n]) = Len(h[n - 1]) + Len(s[n])
                       /\ SubSeq(h[N], Len(h[n - 1]) + 1, Len(h[n])) = s[n]
  <2>1. s \in [1..N -> Seq(V)] /\ h \in [0..N -> Seq(V)] /\ Laid(N, s, h)
    BY <1>5, <1>6
  <2>2. FoundAgain(N, s, h)
    BY <2>1, Slices
  <2> QED BY <2>2 DEF FoundAgain
<1>11. ASSUME NEW n \in 1..N
       PROVE  /\ file.indptr[n] > file.indptr[n - 1] <=> s[n] # <<>>
              /\ SubSeq(file.indices, file.indptr[n - 1] + 1, file.indptr[n]) = s[n]
  <2>1. n \in 0..N /\ n - 1 \in 0..N
    OBVIOUS
  <2>2. PICK a, b, c : a = h[n - 1] /\ b = h[n] /\ c = s[n] /\ a \in Seq(V) /\ c \in Seq(V)
    BY <1>4, <1>6, <2>1
  <2>3. file.indptr[n] = Len(b) /\ file.indptr[n - 1] = Len(a) /\ Len(b) = Len(a) + Len(c)
    BY <1>9, <1>10, <2>1, <2>2
  <2>4. Len(a) \in Nat /\ Len(c) \in Nat
    BY <2>2, LenProperties
  <2>5. Len(c) = 0 <=> c = <<>>
    BY <2>2, EmptySeq
  <2>6. file.indptr[n] > file.indptr[n - 1] <=> s[n] # <<>>
    <3>1. PICK x \in Nat, y \in Nat, z \in Nat :
             x = file.indptr[n - 1] /\ y = file.indptr[n] /\ z = Len(c) /\ y = x + z
      BY <2>3, <2>4
    <3>2. y > x <=> z # 0
      BY <3>1
    <3> QED BY <2>2, <2>5, <3>1, <3>2
  <2>7. SubSeq(file.indices, file.indptr[n - 1] + 1, file.indptr[n]) = s[n]
    BY <1>9, <1>10, <2>1
  <2> QED BY <2>6, <2>7
<1>12. {j \in V : file.indptr[j] > file.indptr[j - 1]} = {j \in D : edges[j] # <<>>}
  BY <1>1, <1>4, <1>11
<1>13. PICK E : E = {j \in D : edges[j] # <<>>} /\ E \subseteq 1..N
  BY <1>1
<1>14. Loaded(file) = [i \in E |-> SubSeq(file.indices, file.indptr[i - 1] + 1, file.indptr[i])]
  BY <1>1, <1>12, <1>13 DEF Loaded
<1>15. \A i \in E : SubSeq(file.indices, file.indptr[i - 1] + 1, file.indptr[i]) = edges[i]
  BY <1>4, <1>11, <1>13
<1> QED BY <1>8, <1>13, <1>14, <1>15

\* The graph is saved and loaded.
LEMMA IsReloaded ==
    ASSUME GraphInv, Reload
    PROVE  GraphInv'
<1> USE DEF GraphInv
<1>1. /\ pc = "built" /\ pc' = "loaded"
      /\ graph' = [l \in Layers |-> IF l <= top THEN Loaded(Saved(graph[l])) ELSE graph[l]]
      /\ UNCHANGED <<at, level, entry, top, layer, points, links>>
  BY DEF Reload
<1>2. Nodes' = Nodes /\ New' = New /\ Settled' = Settled /\ ~Inserting'
  BY <1>1 DEF Nodes, New, Settled, Inserting
<1>3. ASSUME NEW l \in Layers
      PROVE  \E D, E \in SUBSET Nodes :
                /\ D = DOMAIN graph[l] /\ graph[l] \in [D -> Seq(D)] /\ E \subseteq D
                /\ \A i \in D : i \notin E => graph[l][i] = <<>>
                /\ graph'[l] = [i \in E |-> graph[l][i]]
  <2>1. PICK D \in SUBSET Nodes : D = DOMAIN graph[l] /\ graph[l] \in [D -> Seq(D)]
    BY EdgesOfLayer
  <2>2. CASE l <= top
    <3>1. PICK edges : edges = graph[l]
      OBVIOUS
    <3>2. Seq(D) \subseteq Seq(Nodes)
      BY SeqMonotonic
    <3>3. edges \in [D -> Seq(Nodes)]
      BY <2>1, <3>1, <3>2
    <3>4. Loaded(Saved(edges)) = [i \in {j \in D : edges[j] # <<>>} |-> edges[i]]
      BY <3>3, LoadingWhatWasSaved
    <3>5. graph'[l] = Loaded(Saved(edges))
      BY <1>1, <2>2, <3>1
    <3>6. PICK E : E = {j \in D : edges[j] # <<>>}
      OBVIOUS
    <3>7. E \in SUBSET D /\ (\A i \in D : i \notin E => edges[i] = <<>>) /\ graph'[l] = [i \in E |-> edges[i]]
      BY <3>4, <3>5, <3>6
    <3>8. E \in SUBSET Nodes /\ E \subseteq D /\ graph'[l] = [i \in E |-> graph[l][i]]
             /\ \A i \in D : i \notin E => graph[l][i] = <<>>
      BY <2>1, <3>1, <3>7
    <3> QED BY <2>1, <3>8
  <2>3. CASE ~(l <= top)
    <3>1. graph'[l] = graph[l] /\ graph[l] = [i \in D |-> graph[l][i]]
      BY <1>1, <2>1, <2>3
    <3> QED BY <2>1, <3>1
  <2> QED BY <2>2, <2>3
<1>4. ASSUME NEW l \in Layers
      PROVE  /\ DOMAIN graph'[l] \subseteq DOMAIN graph[l] /\ DOMAIN graph'[l] \subseteq Nodes
             /\ \A i \in DOMAIN graph'[l] : graph'[l][i] = graph[l][i]
             /\ \A i \in DOMAIN graph[l] : \A j \in ToSet(graph[l][i]) :
                   /\ i # j /\ i \in DOMAIN graph'[l] /\ j \in DOMAIN graph'[l]
                   /\ i \in ToSet(graph[l][j])
             /\ \A i : Adjacent(graph'[l], i) = Adjacent(graph[l], i)
             /\ graph'[l] \in UNION {[D -> Seq(Nodes)] : D \in SUBSET Nodes}
  <2>1. PICK D, E \in SUBSET Nodes :
           /\ D = DOMAIN graph[l] /\ graph[l] \in [D -> Seq(D)] /\ E \subseteq D
           /\ \A i \in D : i \notin E => graph[l][i] = <<>>
           /\ graph'[l] = [i \in E |-> graph[l][i]]
    BY <1>3
  <2>2. DOMAIN graph'[l] = E /\ \A i \in E : graph'[l][i] = graph[l][i]
    BY <2>1
  <2>3. ToSet(<<>>) = {}
    BY EmptySeq DEF ToSet
  <2>4. ASSUME NEW i \in D, NEW j \in ToSet(graph[l][i])
        PROVE  i # j /\ i \in E /\ j \in E /\ i \in ToSet(graph[l][j])
    <3>1. ~Pending(l, i, j)
      BY <1>1 DEF Pending
    <3>2. i # j /\ i \in ToSet(graph[l][j])
      BY <2>1, <3>1 DEF EdgesGoBothWays
    <3>3. j \in D
      BY <2>1, Elements
    <3> QED BY <2>1, <2>3, <3>2, <3>3
  <2>5. \A i : Adjacent(graph'[l], i) = Adjacent(graph[l], i)
    BY <2>1, <2>2 DEF Adjacent
  <2>6. graph'[l] \in UNION {[C -> Seq(Nodes)] : C \in SUBSET Nodes}
    <3>1. Seq(D) \subseteq Seq(Nodes)
      BY SeqMonotonic
    <3>2. graph'[l] \in [E -> Seq(Nodes)] /\ E \in SUBSET Nodes
      BY <2>1, <2>2, <3>1
    <3> QED BY <3>2
  <2> QED BY <2>1, <2>2, <2>4, <2>5, <2>6
<1>5. GraphTypeOK'
  <2>1. PICK U : U = UNION {[D -> Seq(Nodes)] : D \in SUBSET Nodes}
    OBVIOUS
  <2>2. \A l \in Layers : graph'[l] \in U
    BY <1>4, <2>1
  <2>3. graph' \in [Layers -> U]
    BY <1>1, <2>2
  <2> QED BY <1>1, <1>2, <2>1, <2>3 DEF GraphTypeOK
<1>6. Placed' /\ EntryIsTop' /\ StartsThere' /\ LinksAhead' /\ WiredLinked' /\ BornLinked'
  BY <1>1, <1>2 DEF Placed, EntryIsTop, StartsThere, LinksAhead, WiredLinked, Wired, BornLinked
<1>7. WithinLayer'
  <2> SUFFICES ASSUME NEW l \in Layers, NEW i \in DOMAIN graph'[l]
               PROVE  ToSet(graph'[l][i]) \subseteq DOMAIN graph'[l]
    BY DEF WithinLayer
  <2> QED BY <1>4
<1>8. EdgesGoBothWays'
  <2> SUFFICES ASSUME NEW l \in Layers, NEW i \in DOMAIN graph'[l]
               PROVE  /\ \A j \in ToSet(graph'[l][i]) : i # j /\ i \in ToSet(graph'[l][j])
                      /\ IsInjective(graph'[l][i])
    BY <1>1 DEF EdgesGoBothWays, Built
  <2>1. i \in DOMAIN graph[l] /\ graph'[l][i] = graph[l][i]
    BY <1>4
  <2>2. IsInjective(graph[l][i])
    BY <2>1 DEF EdgesGoBothWays
  <2>3. \A j \in ToSet(graph[l][i]) : i # j /\ i \in ToSet(graph'[l][j])
    BY <1>4, <2>1
  <2> QED BY <2>1, <2>2, <2>3
<1>9. AllReachable'
  <2>1. 0 \in Layers
    BY GraphAssumption DEF Layers
  <2>2. PICK V, old, new : /\ V = Nodes /\ IsFiniteSet(V) /\ old = graph[0] /\ new = graph'[0]
                           /\ \A i : Adjacent(new, i) = Adjacent(old, i)
    BY <1>4, <2>1, NodesAreFinite
  <2>3. Component(V, old, entry) = V
    BY <1>1, <2>2 DEF AllReachable, Built
  <2>4. entry \in V
    <3>1. entry # 0 /\ entry \in 0..Len(at)
      BY <1>1 DEF GraphTypeOK
    <3> QED BY <2>2, <3>1, NodesAreFinite
  <2>5. PICK C : C = Component(V, new, entry)
    OBVIOUS
  <2>6. entry \in C /\ Closed(V, new, C)
    BY <2>2, <2>4, <2>5, ComponentIsClosed
  <2>7. Closed(V, old, C)
    BY <2>2, <2>6 DEF Closed
  <2>8. V \subseteq C
    BY <2>2, <2>3, <2>4, <2>6, <2>7, ComponentIsClosed
  <2>9. C = V
    BY <2>6, <2>8 DEF Closed
  <2> QED BY <1>1, <1>2, <2>2, <2>5, <2>9 DEF AllReachable
<1> QED BY <1>5, <1>6, <1>7, <1>8, <1>9

-----------------------------------------------------------------------------
(* What a search with a filter finds.                                      *)

\* What such a search keeps; it may have found nothing.
WalkStates(D) ==
    [frontier : SUBSET D, visited : SUBSET D, visits : Nat, over : BOOLEAN, results : SUBSET D]

\* A search that has not found enough has kept every admissible node it visited,
\* and has been to the neighbours of all it has expanded, those in X excepted.
Thorough(D, l, ef, A, X, s) ==
    /\ s \in WalkStates(D)
    /\ s.frontier \subseteq s.visited /\ s.results \subseteq s.visited \intersect A
    /\ Cardinality(s.results) < ef =>
          /\ s.results = s.visited \intersect A
          /\ \A i \in s.visited \ (s.frontier \union X) :
                ToSet(Adjacent(graph[l], i)) \subseteq s.visited

\* A result is only dropped for another, once there are enough.
LEMMA Dropping ==
    ASSUME NEW R, IsFiniteSet(R), NEW G, IsFiniteSet(G), R \subseteq G, NEW w, NEW ef \in Nat
    PROVE  /\ Cardinality(R) \in Nat /\ Cardinality(G) \in Nat /\ Cardinality(G \ {w}) \in Nat
           /\ Cardinality(R) <= Cardinality(G)
           /\ Cardinality(G) > ef => Cardinality(G \ {w}) >= ef
<1>1. Cardinality(R) \in Nat /\ Cardinality(G) \in Nat /\ Cardinality(R) <= Cardinality(G)
  BY FS_Subset, FS_CardinalityType
<1>2. CASE w \in G
  <2>1. IsFiniteSet(G \ {w}) /\ Cardinality(G \ {w}) = Cardinality(G) - 1
    BY <1>2, FS_RemoveElement
  <2>2. Cardinality(G \ {w}) \in Nat
    BY <2>1, FS_CardinalityType
  <2> QED BY <1>1, <2>1, <2>2
<1>3. CASE w \notin G
  <2>1. G \ {w} = G
    BY <1>3
  <2> QED BY <1>1, <2>1
<1> QED BY <1>2, <1>3

\* The step t of such a search s that has met i.
HasMet(D, l, ef, A, X, seen, s, i, t) ==
    /\ Thorough(D, l, ef, A, X, t) /\ i \in t.visited /\ s.visited \subseteq t.visited
    /\ t.frontier \intersect seen \subseteq s.frontier

\* It stays thorough when it meets a neighbour: a node it had seen before does
\* not come back to the frontier, and no other is missed.
LEMMA VisitingAll ==
    ASSUME NEW D, IsFiniteSet(D), NEW l, NEW p, NEW ef \in Nat \ {0}, NEW A, NEW X,
           NEW s, Thorough(D, l, ef, A, X, s), NEW seen \in SUBSET s.visited, NEW i \in D
    PROVE  HasMet(D, l, ef, A, X, seen, s, i, Visit(p, ef, A, seen, s, i))
<1>0. PICK t : t = Visit(p, ef, A, seen, s, i)
  OBVIOUS
<1> SUFFICES /\ Thorough(D, l, ef, A, X, t) /\ i \in t.visited /\ s.visited \subseteq t.visited
             /\ t.frontier \intersect seen \subseteq s.frontier
  BY <1>0 DEF HasMet
<1>1. /\ s.frontier \in SUBSET D /\ s.visited \in SUBSET D /\ s.visits \in Nat
      /\ s.over \in BOOLEAN /\ s.results \in SUBSET D
      /\ s = [frontier |-> s.frontier, visited |-> s.visited, visits |-> s.visits,
              over |-> s.over, results |-> s.results]
  BY DEF Thorough, WalkStates
<1>2. PICK grown, worst : /\ grown = s.results \union ({i} \intersect A)
                          /\ worst = Farthest(p, grown)
  OBVIOUS
<1>3. PICK v, k : v = s.visited \union {i} /\ k = s.visits + 1
  OBVIOUS
<1>4. PICK met : met = [s EXCEPT !.visited = @ \union {i}, !.visits = @ + 1]
  OBVIOUS
<1>5. met = [frontier |-> s.frontier, visited |-> v, visits |-> k, over |-> s.over,
             results |-> s.results]
  BY <1>1, <1>3, <1>4
<1>6. PICK f, r : /\ f = s.frontier \union {i}
                  /\ r = IF Cardinality(grown) > ef THEN grown \ {worst} ELSE grown
  OBVIOUS
<1>7. /\ IsFiniteSet(s.results) /\ IsFiniteSet(grown) /\ s.results \subseteq grown
      /\ grown \in SUBSET D /\ v \in SUBSET D /\ k \in Nat
  <2>1. s.results \subseteq grown /\ grown \in SUBSET D /\ v \in SUBSET D /\ k \in Nat
    BY <1>1, <1>2, <1>3
  <2> QED BY <1>1, <2>1, FS_Subset
<1>8. /\ Cardinality(s.results) \in Nat /\ Cardinality(grown) \in Nat
      /\ Cardinality(grown \ {worst}) \in Nat /\ Cardinality(s.results) <= Cardinality(grown)
      /\ Cardinality(grown) > ef => Cardinality(grown \ {worst}) >= ef
  BY <1>7, Dropping
<1>9. CASE i \in seen
  <2>1. t = s
    BY <1>0, <1>9 DEF Visit
  <2> QED BY <1>9, <2>1
<1>10. CASE i \notin seen /\ Bounded(s, ef) /\ From(p, i) >= From(p, Farthest(p, s.results))
  <2>1. t = met
    BY <1>0, <1>4, <1>10 DEF Visit
  <2>2. Cardinality(s.results) >= ef
    BY <1>10 DEF Bounded
  <2>3. /\ t.frontier = s.frontier /\ t.visited = v /\ t.results = s.results /\ t \in WalkStates(D)
    BY <1>1, <1>5, <1>7, <2>1 DEF WalkStates
  <2>4. ~(Cardinality(t.results) < ef)
    BY <1>8, <2>2, <2>3
  <2>5. s.frontier \subseteq s.visited /\ s.results \subseteq s.visited \intersect A
    BY DEF Thorough
  <2>6. Thorough(D, l, ef, A, X, t)
    BY <1>3, <2>3, <2>4, <2>5 DEF Thorough
  <2> QED BY <1>3, <2>3, <2>6
<1>11. CASE i \notin seen /\ ~(Bounded(s, ef) /\ From(p, i) >= From(p, Farthest(p, s.results)))
  <2>1. t = [met EXCEPT !.frontier = @ \union (IF Walks(i, A) THEN {i} ELSE {}),
                        !.results = IF Cardinality(grown) > ef THEN grown \ {worst} ELSE grown]
    BY <1>0, <1>2, <1>4, <1>11 DEF Visit
  <2>2. t = [frontier |-> f, visited |-> v, visits |-> k, over |-> s.over, results |-> r]
    BY <1>5, <1>6, <2>1 DEF Walks
  <2>3. r \in SUBSET D /\ f \in SUBSET D /\ r \subseteq grown
    BY <1>1, <1>6, <1>7
  <2>4. t.frontier = f /\ t.visited = v /\ t.results = r /\ t \in WalkStates(D)
    BY <1>1, <1>7, <2>2, <2>3 DEF WalkStates
  <2>5. s.frontier \subseteq s.visited /\ s.results \subseteq s.visited \intersect A
    BY DEF Thorough
  <2>6. f \subseteq v /\ r \subseteq v \intersect A
    BY <1>2, <1>3, <1>6, <2>3, <2>5
  <2>7. ASSUME Cardinality(r) < ef
        PROVE  /\ r = v \intersect A
               /\ \A n \in v \ (f \union X) : ToSet(Adjacent(graph[l], n)) \subseteq v
    <3>1. r = grown /\ Cardinality(s.results) < ef
      BY <1>6, <1>8, <2>7
    <3>2. /\ s.results = s.visited \intersect A
          /\ \A n \in s.visited \ (s.frontier \union X) :
                ToSet(Adjacent(graph[l], n)) \subseteq s.visited
      BY <3>1 DEF Thorough
    <3>3. r = v \intersect A
      BY <1>2, <1>3, <3>1, <3>2
    <3>4. v \ (f \union X) \subseteq s.visited \ (s.frontier \union X) /\ s.visited \subseteq v
      BY <1>3, <1>6
    <3> QED BY <3>2, <3>3, <3>4
  <2>8. Thorough(D, l, ef, A, X, t)
    BY <2>4, <2>6, <2>7 DEF Thorough
  <2> QED BY <1>3, <1>6, <1>11, <2>4, <2>8
<1> QED BY <1>9, <1>10, <1>11

\* The search x knows what s did, and the first n of the neighbours, too.
Met(s, next, n, x) ==
    /\ s.visited \subseteq x.visited
    /\ \A m \in 1..n : next[m] \in x.visited

\* The search t after node has been expanded in s.
HasExpanded(D, l, ef, A, s, node, t) ==
    /\ Thorough(D, l, ef, A, {}, t) /\ s.visited \subseteq t.visited
    /\ t.frontier \intersect s.visited \subseteq s.frontier \ {node}

\* When all neighbours of a node are met, the search is thorough about it, too.
LEMMA MeetingAll ==
    ASSUME NEW D, IsFiniteSet(D), NEW l, NEW p, NEW ef \in Nat \ {0}, NEW A,
           NEW s, Thorough(D, l, ef, A, {}, s), NEW node \in s.frontier,
           NEW next \in Seq(D), next = Adjacent(graph[l], node)
    PROVE  HasExpanded(D, l, ef, A, s, node, Meet(p, ef, A, s, node, next))
<1>0. PICK all : all = Meet(p, ef, A, s, node, next)
  OBVIOUS
<1>1. PICK N \in Nat : N = Len(next) /\ DOMAIN next = 1..N /\ \A n \in 1..N : next[n] \in D
  BY LenProperties, ElementOfSeq
<1>2. PICK X : X = {node}
  OBVIOUS
<1>3. PICK first : first = [s EXCEPT !.frontier = @ \ {node}]
  OBVIOUS
<1>4. /\ s \in WalkStates(D) /\ first \in WalkStates(D)
      /\ first.frontier = s.frontier \ {node} /\ first.visited = s.visited /\ first.results = s.results
  BY <1>3 DEF Thorough, WalkStates
<1>5. Thorough(D, l, ef, A, X, first)
  <2>1. s.frontier \subseteq s.visited /\ s.results \subseteq s.visited \intersect A
    BY DEF Thorough
  <2>2. ASSUME Cardinality(first.results) < ef
        PROVE  /\ first.results = first.visited \intersect A
               /\ \A i \in first.visited \ (first.frontier \union X) :
                     ToSet(Adjacent(graph[l], i)) \subseteq first.visited
    <3>1. /\ s.results = s.visited \intersect A
          /\ \A i \in s.visited \ (s.frontier \union {}) :
                ToSet(Adjacent(graph[l], i)) \subseteq s.visited
      BY <1>4, <2>2 DEF Thorough
    <3>2. first.visited \ (first.frontier \union X) \subseteq s.visited \ (s.frontier \union {})
      BY <1>2, <1>4
    <3> QED BY <1>4, <3>1, <3>2
  <2> QED BY <1>4, <2>1, <2>2 DEF Thorough
<1> DEFINE Ok(n, x) == /\ Thorough(D, l, ef, A, X, x) /\ Met(s, next, n, x)
                       /\ x.frontier \intersect s.visited \subseteq s.frontier \ {node}
           Sat(g) == g = [n \in 0..Len(next) |->
               IF n = 0 THEN [s EXCEPT !.frontier = @ \ {node}]
               ELSE Visit(p, ef, A, s.visited, g[n - 1], next[n])]
<1>6. Ok(0, first)
  BY <1>4, <1>5 DEF Met
<1>7. ASSUME NEW n \in 1..N, NEW x, Ok(n - 1, x)
      PROVE  Ok(n, Visit(p, ef, A, s.visited, x, next[n]))
  <2>1. PICK i \in D : i = next[n]
    BY <1>1
  <2>2. PICK seen : seen = s.visited
    OBVIOUS
  <2>3. Thorough(D, l, ef, A, X, x) /\ seen \subseteq x.visited
    BY <1>7, <2>2 DEF Met
  <2>4. PICK t : t = Visit(p, ef, A, seen, x, i)
    OBVIOUS
  <2>5. /\ Thorough(D, l, ef, A, X, t) /\ i \in t.visited /\ x.visited \subseteq t.visited
        /\ t.frontier \intersect seen \subseteq x.frontier
    <3>1. seen \in SUBSET x.visited
      BY <2>3
    <3>2. HasMet(D, l, ef, A, X, seen, x, i, Visit(p, ef, A, seen, x, i))
      BY <2>3, <3>1, VisitingAll
    <3> QED BY <2>4, <3>2 DEF HasMet
  <2>6. Met(s, next, n, t)
    <3>1. \A m \in 1..n : m = n \/ m \in 1..n - 1
      OBVIOUS
    <3> QED BY <1>7, <2>1, <2>5, <3>1 DEF Met
  <2>7. t.frontier \intersect s.visited \subseteq s.frontier \ {node}
    BY <1>7, <2>2, <2>5
  <2> QED BY <2>1, <2>2, <2>4, <2>5, <2>6, <2>7
<1>8. \E g : Sat(g)
  <2>1. PICK T : T = WalkStates(D)
    OBVIOUS
  <2>2. PICK G : G = [n \in 1..N |-> [x \in T |->
                        IF Visit(p, ef, A, s.visited, x, next[n]) \in T
                        THEN Visit(p, ef, A, s.visited, x, next[n]) ELSE x]]
    OBVIOUS
  <2>3. first \in T /\ G \in Steps(N, T)
    BY <1>4, <2>1, <2>2 DEF Steps
  <2>4. PICK f \in [0..N -> T] : f[0] = first /\ \A n \in 1..N : f[n] = G[n][f[n - 1]]
    <3>1. Runs(N, T, first, G) # {}
      BY <2>3, Iterates
    <3> QED BY <3>1 DEF Runs
  <2>5. PICK Good : Good = {n \in 0..N : Ok(n, f[n])}
    OBVIOUS
  <2>6. ASSUME NEW n \in 1..N, n - 1 \in Good
        PROVE  f[n] = Visit(p, ef, A, s.visited, f[n - 1], next[n]) /\ n \in Good
    <3>1. PICK x, y : x = f[n - 1] /\ y = Visit(p, ef, A, s.visited, x, next[n])
      OBVIOUS
    <3>2. Ok(n - 1, x)
      BY <2>5, <2>6, <3>1
    <3> HIDE DEF Ok
    <3>3. Ok(n, y)
      BY <1>7, <3>1, <3>2
    <3>4. x \in T /\ y \in T
      BY <2>1, <3>2, <3>3 DEF Ok, Thorough
    <3>5. f[n] = y
      BY <2>2, <2>4, <3>1, <3>4
    <3> QED BY <2>5, <3>1, <3>3, <3>5
  <2>7. 0 \in Good
    <3> HIDE DEF Ok
    <3> QED BY <1>6, <2>4, <2>5
  <2>8. \A n \in 0..N : n \in Good
    BY <2>6, <2>7, Counting
  <2>9. ASSUME NEW n \in 1..N PROVE f[n] = Visit(p, ef, A, s.visited, f[n - 1], next[n])
    <3>1. n - 1 \in Good
      BY <2>8
    <3> QED BY <2>6, <3>1
  <2>10. Sat(f)
    BY <1>1, <1>3, <2>4, <2>9
  <2> QED BY <2>10
<1>9. PICK g : g = CHOOSE h : Sat(h)
  OBVIOUS
<1>10. Sat(g)
  <2> HIDE DEF Sat
  <2> QED BY <1>8, <1>9
<1>11. g[0] = first /\ \A n \in 1..N : g[n] = Visit(p, ef, A, s.visited, g[n - 1], next[n])
  <2>1. \A n \in 0..N : g[n] = IF n = 0 THEN first ELSE Visit(p, ef, A, s.visited, g[n - 1], next[n])
    BY <1>1, <1>3, <1>10
  <2>2. 0 \in 0..N /\ \A n \in 1..N : n \in 0..N /\ n # 0
    OBVIOUS
  <2>3. g[0] = first
    BY <2>1, <2>2
  <2>4. ASSUME NEW n \in 1..N PROVE g[n] = Visit(p, ef, A, s.visited, g[n - 1], next[n])
    BY <2>1, <2>2
  <2> QED BY <2>3, <2>4
<1>12. all = g[N]
  BY <1>0, <1>1, <1>9 DEF Meet
<1> HIDE DEF Sat
<1>13. Ok(N, all)
  <2>1. PICK Good : Good = {n \in 0..N : Ok(n, g[n])}
    OBVIOUS
  <2> HIDE DEF Ok
  <2>2. 0 \in Good
    BY <1>6, <1>11, <2>1
  <2>3. ASSUME NEW n \in 1..N, n - 1 \in Good PROVE n \in Good
    <3>1. PICK x : x = g[n - 1]
      OBVIOUS
    <3>2. Ok(n - 1, x)
      BY <2>1, <2>3, <3>1
    <3>3. Ok(n, g[n])
      BY <1>7, <1>11, <3>1, <3>2
    <3> QED BY <2>1, <3>3
  <2>4. \A n \in 0..N : n \in Good
    BY <2>2, <2>3, Counting
  <2> QED BY <1>12, <2>1, <2>4
<1>14. ToSet(next) \subseteq all.visited
  BY <1>1, <1>13 DEF Met, ToSet
<1>15. Thorough(D, l, ef, A, {}, all)
  <2>1. /\ all \in WalkStates(D) /\ all.frontier \subseteq all.visited
        /\ all.results \subseteq all.visited \intersect A
    BY <1>13 DEF Thorough
  <2>2. ASSUME Cardinality(all.results) < ef
        PROVE  /\ all.results = all.visited \intersect A
               /\ \A i \in all.visited \ (all.frontier \union {}) :
                     ToSet(Adjacent(graph[l], i)) \subseteq all.visited
    <3>1. /\ all.results = all.visited \intersect A
          /\ \A i \in all.visited \ (all.frontier \union X) :
                ToSet(Adjacent(graph[l], i)) \subseteq all.visited
      BY <1>13, <2>2 DEF Thorough
    <3>2. \A i \in all.visited \ (all.frontier \union {}) :
             i = node \/ i \in all.visited \ (all.frontier \union X)
      BY <1>2
    <3> QED BY <1>14, <3>1, <3>2
  <2> QED BY <2>1, <2>2 DEF Thorough
<1> QED BY <1>0, <1>13, <1>15 DEF Met, HasExpanded

\* A search s of the nodes D that began at `from`, after n rounds: it is over
\* early only because it has found enough, and each round expands a node.
Searched(D, l, ef, A, from, budget, n, s) ==
    /\ Thorough(D, l, ef, A, {}, s) /\ from \subseteq s.visited
    /\ s.over /\ s.visits < budget => Cardinality(s.results) >= ef
    /\ s.over \/ s.frontier = {} \/ Cardinality(s.visited \ s.frontier) >= n

\* One more round.
LEMMA ExpandingAll ==
    ASSUME at \in Seq(Points), NEW D \in SUBSET Nodes, IsFiniteSet(D), NEW l,
           \A i : Adjacent(graph[l], i) \in Seq(D), NEW p \in Points, NEW ef \in Nat \ {0}, NEW A,
           NEW from, NEW budget \in Nat, NEW n \in Nat \ {0},
           NEW s, Searched(D, l, ef, A, from, budget, n - 1, s)
    PROVE  Searched(D, l, ef, A, from, budget, n, Expand(p, ef, l, A, budget, s))
<1>1. PICK node, t : node = Sorted(p, s.frontier)[1] /\ t = Expand(p, ef, l, A, budget, s)
  OBVIOUS
<1>2. PICK next : next = Adjacent(graph[l], node)
  OBVIOUS
<1>3. /\ Thorough(D, l, ef, A, {}, s) /\ from \subseteq s.visited /\ s \in WalkStates(D)
      /\ s.frontier \in SUBSET D /\ s.visited \in SUBSET D /\ s.results \in SUBSET D
  BY DEF Searched, Thorough, WalkStates
<1>4. CASE s.over \/ s.frontier = {}
  <2>1. t = s
    BY <1>1, <1>4 DEF Expand
  <2> QED BY <1>1, <1>4, <2>1 DEF Searched
<1>5. CASE /\ ~s.over /\ s.frontier # {} /\ Bounded(s, ef)
           /\ From(p, node) > From(p, Farthest(p, s.results))
  <2>1. t = [s EXCEPT !.over = TRUE]
    BY <1>1, <1>5 DEF Expand
  <2>2. /\ t \in WalkStates(D) /\ t.over = TRUE /\ t.frontier = s.frontier
        /\ t.visited = s.visited /\ t.results = s.results
    BY <1>3, <2>1 DEF WalkStates
  <2>3. Thorough(D, l, ef, A, {}, t)
    BY <1>3, <2>2 DEF Thorough
  <2> QED BY <1>1, <1>3, <1>5, <2>2, <2>3 DEF Searched, Bounded
<1>6. CASE /\ ~s.over /\ s.frontier # {}
           /\ ~(Bounded(s, ef) /\ From(p, node) > From(p, Farthest(p, s.results)))
  <2>1. PICK all : all = Meet(p, ef, A, s, node, next)
    OBVIOUS
  <2>2. t = [all EXCEPT !.over = all.visits # s.visits /\ all.visits >= budget]
    BY <1>1, <1>2, <1>6, <2>1 DEF Expand
  <2>3. node \in s.frontier
    <3>1. PICK F \in SUBSET Nodes : F = s.frontier
      BY <1>3
    <3>2. /\ IsFiniteSet(F) /\ Cardinality(F) \in Nat /\ Sorted(p, F) \in [1..Cardinality(F) -> F]
      BY SortedLists
    <3>3. Cardinality(F) # 0
      BY <1>6, <3>1, <3>2, FS_EmptySet
    <3>4. 1 \in 1..Cardinality(F)
      BY <3>2, <3>3
    <3> QED BY <1>1, <3>1, <3>2, <3>4
  <2>4. HasExpanded(D, l, ef, A, s, node, all)
    <3>1. next \in Seq(D)
      BY <1>2
    <3>2. HasExpanded(D, l, ef, A, s, node, Meet(p, ef, A, s, node, next))
      BY <1>2, <1>3, <2>3, <3>1, MeetingAll
    <3> QED BY <2>1, <3>2
  <2>5. Thorough(D, l, ef, A, {}, all) /\ all \in WalkStates(D)
    BY <2>4 DEF HasExpanded, Thorough
  <2>6. PICK o \in BOOLEAN : o = (all.visits # s.visits /\ all.visits >= budget)
    <3>1. all.visits \in Nat
      BY <2>5 DEF WalkStates
    <3>2. PICK o : o = (all.visits # s.visits /\ all.visits >= budget)
      OBVIOUS
    <3>3. o \in BOOLEAN
      BY <3>1, <3>2
    <3> QED BY <3>2, <3>3
  <2>7. /\ t \in WalkStates(D) /\ t.over = o /\ t.visits = all.visits /\ t.frontier = all.frontier
        /\ t.visited = all.visited /\ t.results = all.results
    <3>1. t = [all EXCEPT !.over = o]
      BY <2>2, <2>6
    <3> QED BY <2>5, <3>1 DEF WalkStates
  <2>8. Thorough(D, l, ef, A, {}, t)
    BY <2>5, <2>7 DEF Thorough
  <2>9. t.over => ~(t.visits < budget)
    BY <2>5, <2>6, <2>7 DEF WalkStates
  <2>10. Cardinality(t.visited \ t.frontier) >= n
    <3>1. PICK E, F : E = s.visited \ s.frontier /\ F = t.visited \ t.frontier
      OBVIOUS
    <3>2. E \union {node} \subseteq F /\ node \notin E
      <4>1. s.visited \subseteq all.visited /\ all.frontier \intersect s.visited \subseteq s.frontier \ {node}
        BY <2>4 DEF HasExpanded
      <4>2. node \in s.visited
        BY <1>3, <2>3 DEF Thorough
      <4> QED BY <2>3, <2>7, <3>1, <4>1, <4>2
    <3>3. IsFiniteSet(E) /\ IsFiniteSet(F)
      <4>1. E \in SUBSET D /\ F \in SUBSET D
        BY <1>3, <2>7, <3>1 DEF WalkStates
      <4> QED BY <4>1, FS_Subset
    <3>4. IsFiniteSet(E \union {node}) /\ Cardinality(E \union {node}) = Cardinality(E) + 1
      BY <3>2, <3>3, FS_AddElement
    <3>5. Cardinality(E) \in Nat /\ Cardinality(F) \in Nat /\ Cardinality(E \union {node}) <= Cardinality(F)
      BY <3>2, <3>3, FS_Subset, FS_CardinalityType
    <3>6. Cardinality(E) >= n - 1
      BY <1>6, <3>1 DEF Searched
    <3> QED BY <3>1, <3>4, <3>5, <3>6
  <2>11. from \subseteq t.visited
    BY <1>3, <2>4, <2>7 DEF HasExpanded
  <2> QED BY <1>1, <2>8, <2>9, <2>10, <2>11 DEF Searched
<1> QED BY <1>4, <1>5, <1>6

\* What such a search has found when it is over, unless its budget was used up.
HasFound(D, l, ef, A, from, budget, s) ==
    /\ s.results \subseteq D \intersect A
    /\ s.visits < budget =>
          \/ Cardinality(s.results) >= ef
          \/ /\ s.results = s.visited \intersect A /\ from \subseteq s.visited /\ s.visited \subseteq D
             /\ \A i \in s.visited : ToSet(Adjacent(graph[l], i)) \subseteq s.visited

\* There are as many rounds as nodes: enough to expand them all.
LEMMA SearchingAll ==
    ASSUME at \in Seq(Points), NEW D \in SUBSET Nodes, IsFiniteSet(D), NEW l,
           \A i : Adjacent(graph[l], i) \in Seq(D), NEW p \in Points, NEW ef \in Nat \ {0}, NEW A,
           NEW from \in SUBSET D, NEW budget \in Nat
    PROVE  HasFound(D, l, ef, A, from, budget, SearchLayer(p, from, ef, l, A, budget))
<1>1. PICK first : first = [frontier |-> from, visited |-> from, visits |-> 0, over |-> FALSE,
                            results |-> from \intersect A]
  OBVIOUS
<1>2. PICK N \in Nat : N = Len(at) /\ Nodes = 1..N
  BY LenProperties DEF Nodes
<1> DEFINE Ok(n, x) == Searched(D, l, ef, A, from, budget, n, x)
           Sat(g) == g = [n \in 0..Len(at) |->
               IF n = 0 THEN first ELSE Expand(p, ef, l, A, budget, g[n - 1])]
<1>3. Ok(0, first)
  <2>1. /\ first \in WalkStates(D) /\ first.frontier = from /\ first.visited = from
        /\ first.results = from \intersect A /\ first.over = FALSE
    BY <1>1 DEF WalkStates
  <2>2. Thorough(D, l, ef, A, {}, first)
    BY <2>1 DEF Thorough
  <2>3. Cardinality(first.visited \ first.frontier) >= 0
    <3>1. PICK E : E = first.visited \ first.frontier
      OBVIOUS
    <3>2. E \in SUBSET D
      BY <2>1, <3>1
    <3>3. Cardinality(E) \in Nat
      BY <3>2, FS_Subset, FS_CardinalityType
    <3> QED BY <3>1, <3>3
  <2> QED BY <2>1, <2>2, <2>3 DEF Searched
<1>4. ASSUME NEW n \in 1..N, NEW x, Ok(n - 1, x) PROVE Ok(n, Expand(p, ef, l, A, budget, x))
  <2>1. n \in Nat \ {0} /\ Searched(D, l, ef, A, from, budget, n - 1, x)
    BY <1>4
  <2> HIDE DEF Ok, Sat
  <2>2. Searched(D, l, ef, A, from, budget, n, Expand(p, ef, l, A, budget, x))
    BY <2>1, ExpandingAll
  <2> QED BY <2>2 DEF Ok
<1>5. \A n \in 0..N : \A x : Ok(n, x) => x \in WalkStates(D)
  BY DEF Searched, Thorough
<1>6. \E g : Sat(g)
  <2>1. PICK T : T = WalkStates(D)
    OBVIOUS
  <2>2. PICK G : G = [n \in 1..N |-> [x \in T |->
                        IF Expand(p, ef, l, A, budget, x) \in T
                        THEN Expand(p, ef, l, A, budget, x) ELSE x]]
    OBVIOUS
  <2>3. first \in T /\ G \in Steps(N, T)
    BY <1>2, <1>3, <1>5, <2>1, <2>2 DEF Steps
  <2>4. PICK f \in [0..N -> T] : f[0] = first /\ \A n \in 1..N : f[n] = G[n][f[n - 1]]
    <3>1. Runs(N, T, first, G) # {}
      BY <2>3, Iterates
    <3> QED BY <3>1 DEF Runs
  <2>5. PICK Good : Good = {n \in 0..N : Ok(n, f[n])}
    OBVIOUS
  <2> HIDE DEF Ok
  <2>6. ASSUME NEW n \in 1..N, n - 1 \in Good
        PROVE  f[n] = Expand(p, ef, l, A, budget, f[n - 1]) /\ n \in Good
    <3>1. PICK x, y : x = f[n - 1] /\ y = Expand(p, ef, l, A, budget, x)
      OBVIOUS
    <3>2. Ok(n - 1, x)
      BY <2>5, <2>6, <3>1
    <3>3. Ok(n, y)
      BY <1>4, <3>1, <3>2
    <3>4. x \in T /\ y \in T
      <4>1. n - 1 \in 0..N /\ n \in 0..N
        OBVIOUS
      <4> QED BY <1>5, <2>1, <3>2, <3>3, <4>1
    <3>5. f[n] = y
      BY <2>2, <2>4, <3>1, <3>4
    <3> QED BY <2>5, <3>1, <3>3, <3>5
  <2>7. 0 \in Good
    BY <1>3, <2>4, <2>5
  <2>8. \A n \in 0..N : n \in Good
    BY <2>6, <2>7, Counting
  <2>9. ASSUME NEW n \in 1..N PROVE f[n] = Expand(p, ef, l, A, budget, f[n - 1])
    <3>1. n - 1 \in Good
      BY <2>8
    <3> QED BY <2>6, <3>1
  <2>10. Sat(f)
    BY <1>2, <2>4, <2>9
  <2> QED BY <2>10
<1>7. PICK g : g = CHOOSE h : Sat(h)
  OBVIOUS
<1>8. Sat(g)
  <2> HIDE DEF Sat
  <2> QED BY <1>6, <1>7
<1>9. g[0] = first /\ \A n \in 1..N : g[n] = Expand(p, ef, l, A, budget, g[n - 1])
  BY <1>2, <1>8
<1>10. SearchLayer(p, from, ef, l, A, budget) = g[N]
  BY <1>1, <1>2, <1>7 DEF SearchLayer
<1> HIDE DEF Sat
<1>11. Ok(N, g[N])
  <2>1. PICK Good : Good = {n \in 0..N : Ok(n, g[n])}
    OBVIOUS
  <2> HIDE DEF Ok
  <2>2. 0 \in Good
    BY <1>3, <1>9, <2>1
  <2>3. ASSUME NEW n \in 1..N, n - 1 \in Good PROVE n \in Good
    <3>1. PICK x : x = g[n - 1]
      OBVIOUS
    <3>2. Ok(n - 1, x)
      BY <2>1, <2>3, <3>1
    <3>3. Ok(n, g[n])
      BY <1>4, <1>9, <3>1, <3>2
    <3> QED BY <2>1, <3>3
  <2>4. \A n \in 0..N : n \in Good
    BY <2>2, <2>3, Counting
  <2> QED BY <2>1, <2>4
<1>12. PICK s : s = g[N]
  OBVIOUS
<1>13. /\ Thorough(D, l, ef, A, {}, s) /\ from \subseteq s.visited
       /\ s.over /\ s.visits < budget => Cardinality(s.results) >= ef
       /\ s.over \/ s.frontier = {} \/ Cardinality(s.visited \ s.frontier) >= N
  BY <1>11, <1>12 DEF Searched
<1>14. /\ s.frontier \in SUBSET D /\ s.visited \in SUBSET D /\ s.results \in SUBSET D
       /\ s.frontier \subseteq s.visited /\ s.results \subseteq s.visited \intersect A
  BY <1>13 DEF Thorough, WalkStates
<1>15. s.over \/ s.frontier = {}
  <2> SUFFICES ASSUME s.frontier # {}, Cardinality(s.visited \ s.frontier) >= N PROVE FALSE
    BY <1>13
  <2>1. PICK E : E = s.visited \ s.frontier
    OBVIOUS
  <2>2. E \subseteq 1..N /\ E # 1..N
    BY <1>2, <1>14, <2>1
  <2>3. IsFiniteSet(1..N) /\ Cardinality(1..N) = N
    BY Counted
  <2>4. /\ IsFiniteSet(E) /\ Cardinality(E) \in Nat /\ Cardinality(E) <= N
        /\ Cardinality(E) # N
    BY <2>2, <2>3, FS_Subset, FS_CardinalityType
  <2> QED BY <2>1, <2>4
<1>16. CASE s.over
  BY <1>10, <1>12, <1>13, <1>14, <1>16 DEF HasFound
<1>17. CASE s.frontier = {} /\ Cardinality(s.results) < ef
  <2>1. /\ s.results = s.visited \intersect A
        /\ \A i \in s.visited \ (s.frontier \union {}) : ToSet(Adjacent(graph[l], i)) \subseteq s.visited
    BY <1>13, <1>17 DEF Thorough
  <2>2. \A i \in s.visited : ToSet(Adjacent(graph[l], i)) \subseteq s.visited
    BY <1>17, <2>1
  <2> QED BY <1>10, <1>12, <1>13, <1>14, <2>1, <2>2 DEF HasFound
<1>18. CASE Cardinality(s.results) >= ef
  BY <1>10, <1>12, <1>14, <1>18 DEF HasFound
<1>19. Cardinality(s.results) \in Nat
  BY <1>14, FS_Subset, FS_CardinalityType
<1> QED BY <1>15, <1>16, <1>17, <1>18, <1>19

\* A set of nodes of a graph that is one component, from which no edge leads out,
\* has all nodes, for every edge has its reverse.
LEMMA NothingOutside ==
    ASSUME GraphInv, Built, NEW V \in (SUBSET Nodes) \ {{}},
           \A i \in V : ToSet(Adjacent(graph[0], i)) \subseteq V
    PROVE  V = Nodes
<1> USE DEF GraphInv
<1>1. PICK D, edges : D = Nodes /\ edges = graph[0] /\ IsFiniteSet(D)
  BY NodesAreFinite
<1>2. 0 \in Layers
  BY GraphAssumption DEF Layers
<1>3. PICK i \in V : i \in D
  BY <1>1
<1>4. entry \in D
  <2>1. entry # 0 /\ entry \in 0..Len(at)
    BY DEF GraphTypeOK, Built
  <2> QED BY <1>1, <2>1, NodesAreFinite
<1>5. Component(D, edges, entry) = D
  BY <1>1 DEF AllReachable
<1>6. Component(D, edges, i) = D
  <2>1. PICK e \in D : e = entry
    BY <1>4
  <2>2. i \in Component(D, edges, e)
    BY <1>3, <1>5, <2>1
  <2>3. Component(D, edges, i) = Component(D, edges, e)
    BY <1>1, <2>2, ComponentsAreApart
  <2> QED BY <1>5, <2>1, <2>3
<1>7. \A j, k : k \in ToSet(Adjacent(edges, j)) => j \in ToSet(Adjacent(edges, k))
  <2> SUFFICES ASSUME NEW j, NEW k \in ToSet(Adjacent(edges, j)) PROVE j \in ToSet(Adjacent(edges, k))
    OBVIOUS
  <2>1. j \in DOMAIN edges /\ k \in ToSet(edges[j])
    BY EmptySeq DEF Adjacent, ToSet
  <2>2. ~Pending(0, j, k)
    BY DEF Pending, Built
  <2>3. j \in ToSet(edges[k])
    BY <1>1, <1>2, <2>1, <2>2 DEF EdgesGoBothWays
  <2>4. k \in DOMAIN edges
    BY <1>1, <1>2, <2>1 DEF WithinLayer
  <2> QED BY <2>3, <2>4 DEF Adjacent
<1>8. Closed(D, edges, V)
  <2>1. V \subseteq D
    BY <1>1
  <2>2. ASSUME NEW k \in V, NEW j \in D,
               j \in ToSet(Adjacent(edges, k)) \/ k \in ToSet(Adjacent(edges, j))
        PROVE  j \in V
    BY <1>1, <1>7, <2>2
  <2> QED BY <2>1, <2>2 DEF Closed
<1>9. D \subseteq V
  BY <1>1, <1>3, <1>6, <1>8, ComponentIsClosed
<1> QED BY <1>1, <1>9

\* The descent of a search ends at nodes.
LEMMA DescendingToSearch ==
    ASSUME GraphInv, Built, NEW p
    PROVE  Descent(p, 0) \in (SUBSET Nodes) \ {{}}
<1>1. GraphTypeOK /\ WithinLayer /\ entry # 0
  BY DEF GraphInv, GraphTypeOK, Built
<1>2. PICK g : Descends(p, 0, g)
  BY <1>1, DescendingStepwise
<1>3. top - Lower(0, top) \in 0..top
  BY <1>1, GraphAssumption DEF GraphTypeOK, Layers, Lower
<1> QED BY <1>2, <1>3 DEF Descends

\* All that were to be indexed are, when the index is searched; a search that was
\* within its budget is full, and exact if its effort is as large as its filter.
HitsInv ==
    /\ Built => Len(at) = Size
    /\ hits # NoHits => Built
    /\ SearchIsFull /\ SearchIsExact

\* As many rows as were asked for or as there are, and all if that many were kept.
RightHits(rows, p, A, k, ef) ==
    /\ Len(rows) = Lower(k, Cardinality(A))
    /\ ef >= Cardinality(A) => rows = SubSeq(Sorted(p, A), 1, Lower(k, Cardinality(A)))

\* The hits of a search that has kept R of the admissible nodes A.
LEMMA Cutting ==
    ASSUME at \in Seq(Points), NEW p \in Points, NEW A \in SUBSET Nodes, NEW R \in SUBSET A,
           NEW k \in Nat \ {0}, NEW ef \in Nat \ {0}, k <= ef, R = A \/ Cardinality(R) >= ef,
           NEW rows, rows = SubSeq(Sorted(p, R), 1, Lower(k, Len(Sorted(p, R))))
    PROVE  RightHits(rows, p, A, k, ef)
<1>1. /\ IsFiniteSet(R) /\ IsFiniteSet(A) /\ Cardinality(R) \in Nat /\ Cardinality(A) \in Nat
      /\ Sorted(p, R) \in [1..Cardinality(R) -> R] /\ IsInjective(Sorted(p, R))
  <2>1. R \in SUBSET Nodes
    OBVIOUS
  <2> QED BY <2>1, SortedLists
<1>2. PICK n, s : n = Cardinality(R) /\ s = Sorted(p, R) /\ n \in Nat /\ s \in [1..n -> R]
  BY <1>1
<1>3. s \in Seq(R) /\ Len(s) = n
  BY <1>2, Listed
<1>4. PICK b : b = Lower(k, n) /\ b \in 0..n
  BY <1>2 DEF Lower
<1>5. Len(rows) = b
  <2>1. PICK a : a = 1 /\ a \in 1..Len(s) + 1 /\ b \in a - 1..Len(s)
    BY <1>2, <1>3, <1>4
  <2>2. Len(SubSeq(s, a, b)) = b - a + 1
    BY <1>1, <1>2, <1>3, <2>1, Slicing
  <2>3. rows = SubSeq(s, a, b)
    BY <1>2, <1>3, <1>4, <2>1
  <2> QED BY <1>2, <1>4, <2>1, <2>2, <2>3
<1>6. n <= Cardinality(A)
  BY <1>1, <1>2, FS_Subset
<1>7. Lower(k, n) = Lower(k, Cardinality(A))
  BY <1>1, <1>2, <1>6 DEF Lower
<1>8. ASSUME ef >= Cardinality(A) PROVE R = A
  <2> SUFFICES ASSUME R # A PROVE FALSE
    OBVIOUS
  <2>1. Cardinality(R) <= Cardinality(A) /\ Cardinality(R) # Cardinality(A)
    BY <1>1, FS_Subset
  <2> QED BY <1>1, <1>8, <2>1
<1> QED BY <1>2, <1>3, <1>4, <1>5, <1>7, <1>8 DEF RightHits

\* A search finds enough, or all there are, for nothing is outside what it visits.
LEMMA IsSearched ==
    ASSUME GraphInv, HitsInv, NEW q \in Queries, Search(q)
    PROVE  HitsInv'
<1>1. PICK s, found : /\ s = SearchLayer(q.point, Descent(q.point, 0), Ef(q), 0, q.admissible, VisitLimit)
                      /\ found = Sorted(q.point, s.results)
                      /\ hits' = [query |-> q, visits |-> s.visits,
                                  rows |-> SubSeq(found, 1, Lower(q.k, Len(found)))]
  BY DEF Search
<1>2. /\ Built /\ UNCHANGED <<at, level, graph, entry, top, pc, layer, points, links>>
  BY DEF Search
<1>3. /\ GraphTypeOK /\ WithinLayer /\ at \in Seq(Points)
  BY DEF GraphInv, GraphTypeOK
<1>4. PICK p \in Points, k \in Nat \ {0}, ef \in Nat \ {0}, A \in SUBSET Nodes, budget \in Nat :
           /\ p = q.point /\ k = q.k /\ ef = Ef(q) /\ A = q.admissible
           /\ budget = VisitLimit
  <2>1. q.admissible \in SUBSET Nodes
    BY <1>2, GraphAssumption DEF HitsInv, Nodes
  <2>2. Ef(q) \in Nat \ {0}
    BY GraphAssumption DEF Ef
  <2>3. q.point \in Points /\ q.k \in Nat \ {0} /\ VisitLimit \in Nat
    BY GraphAssumption DEF VisitLimit
  <2> QED BY <2>1, <2>2, <2>3
<1>5. k <= ef
  BY <1>4 DEF Ef
<1>0. PICK D : D = Nodes
  OBVIOUS
<1>6. PICK from : from = Descent(p, 0) /\ from \in (SUBSET D) \ {{}}
  BY <1>2, <1>0, DescendingToSearch
<1>7. PICK l : l = 0 /\ l \in Layers
  BY GraphAssumption DEF Layers
<1>8. HasFound(D, l, ef, A, from, budget, s)
  <2>1. IsFiniteSet(D) /\ D \in SUBSET Nodes /\ from \in SUBSET D
    BY <1>3, <1>0, <1>6, NodesAreFinite
  <2>2. \A i : Adjacent(graph[l], i) \in Seq(D)
    <3>1. PICK E : E = DOMAIN graph[l]
      OBVIOUS
    <3>2. E \in SUBSET D /\ \A i : Adjacent(graph[l], i) \in Seq(E)
      BY <1>3, <1>0, <1>7, <3>1, EdgesOfLayer
    <3> QED BY <3>2, SeqMonotonic
  <2>3. HasFound(D, l, ef, A, from, budget, SearchLayer(p, from, ef, l, A, budget))
    BY <1>3, <2>1, <2>2, SearchingAll
  <2> QED BY <1>1, <1>4, <1>6, <1>7, <2>3
<1>9. PICK R : R = s.results
  OBVIOUS
<1>10. R \in SUBSET A
  BY <1>8, <1>9 DEF HasFound
<1>11. s.visits < VisitLimit => R = A \/ Cardinality(R) >= ef
  <2> SUFFICES ASSUME s.visits < budget, ~(Cardinality(R) >= ef) PROVE R = A
    BY <1>4
  <2>1. PICK V : V = s.visited
    OBVIOUS
  <2>2. /\ R = V \intersect A /\ from \subseteq V /\ V \subseteq D
        /\ \A i \in V : ToSet(Adjacent(graph[0], i)) \subseteq V
    BY <1>7, <1>8, <1>9, <2>1 DEF HasFound
  <2>3. V \in (SUBSET Nodes) \ {{}}
    BY <1>0, <1>6, <2>2
  <2>4. V = Nodes
    BY <1>2, <2>2, <2>3, NothingOutside
  <2> QED BY <1>4, <2>2, <2>4
<1>12. PICK rows : rows = SubSeq(Sorted(p, R), 1, Lower(k, Len(Sorted(p, R))))
  OBVIOUS
<1>13. /\ hits'.query = q /\ hits'.visits = s.visits /\ hits'.rows = rows
  BY <1>1, <1>4, <1>9, <1>12
<1>14. ASSUME s.visits < VisitLimit
       PROVE  RightHits(rows, p, A, k, ef)
  <2>1. R = A \/ Cardinality(R) >= ef
    BY <1>11, <1>14
  <2> QED BY <1>3, <1>5, <1>10, <1>12, <2>1, Cutting
<1>18. VisitLimit' = VisitLimit
  BY <1>2 DEF VisitLimit
<1>15. SearchIsFull'
  BY <1>4, <1>13, <1>14, <1>18 DEF SearchIsFull, RightHits
<1>16. SearchIsExact'
  <2>1. Nearest(q)' = Nearest(q)
    BY <1>2 DEF Nearest, Sorted, Closer, From
  <2>2. ASSUME s.visits < VisitLimit, Ef(q) >= Cardinality(q.admissible) PROVE rows = Nearest(q)
    BY <1>4, <1>14, <2>2 DEF Nearest, RightHits
  <2> QED BY <1>13, <1>18, <2>1, <2>2 DEF SearchIsExact
<1>17. (Built => Len(at) = Size)' /\ (hits # NoHits => Built)'
  BY <1>2 DEF HitsInv, Built
<1> QED BY <1>15, <1>16, <1>17 DEF HitsInv

\* What leaves the index alone leaves the last hits as full and as exact.
LEMMA IndexAside ==
    ASSUME HitsInv, UNCHANGED <<at, pc, hits>>
    PROVE  HitsInv'
<1>1. SearchIsFull'
  BY DEF HitsInv, SearchIsFull, VisitLimit
<1>2. SearchIsExact'
  <2>1. PICK q : q = hits.query
    OBVIOUS
  <2>2. Nearest(q)' = Nearest(q)
    BY DEF Nearest, Sorted, Closer, From
  <2> QED BY <2>1, <2>2 DEF HitsInv, SearchIsExact, VisitLimit
<1> QED BY <1>1, <1>2 DEF HitsInv, Built

\* Without hits there is nothing to show.
LEMMA NothingFound ==
    ASSUME hits' = NoHits, (Built => Len(at) = Size)'
    PROVE  HitsInv'
BY DEF HitsInv, SearchIsFull, SearchIsExact

-----------------------------------------------------------------------------
(* The theorems.                                                           *)

\* What only changes the hits leaves the graph alone.
LEMMA HitsAside ==
    ASSUME GraphInv, UNCHANGED <<at, level, graph, entry, top, pc, layer, points, links>>
    PROVE  GraphInv'
<1>1. /\ Nodes' = Nodes /\ New' = New /\ Settled' = Settled
      /\ Inserting' <=> Inserting
      /\ \A l \in Layers : Wired(l)' <=> Wired(l)
  BY DEF Nodes, New, Settled, Inserting, Wired
<1>2. GraphTypeOK' /\ Placed' /\ EntryIsTop' /\ WithinLayer' /\ StartsThere' /\ LinksAhead' /\ WiredLinked'
  <2>1. GraphTypeOK' /\ EntryIsTop' /\ WithinLayer' /\ StartsThere' /\ LinksAhead'
    BY <1>1 DEF GraphInv, GraphTypeOK, EntryIsTop, WithinLayer, StartsThere, LinksAhead
  <2>2. WiredLinked'
    BY <1>1 DEF GraphInv, WiredLinked
  <2>3. Placed'
    <3> SUFFICES ASSUME pc # "loaded", NEW l \in Layers
                 PROVE  DOMAIN graph[l] =
                           {i \in Settled' : level'[i] >= l} \union {i \in {New'} : Wired(l)'}
      BY DEF Placed
    <3>1. DOMAIN graph[l] = {i \in Settled : level[i] >= l} \union {i \in {New} : Wired(l)}
      BY DEF GraphInv, Placed
    <3> QED BY <1>1, <3>1
  <2> QED BY <2>1, <2>2, <2>3
<1>3. EdgesGoBothWays' /\ BornLinked' /\ AllReachable'
  BY <1>1 DEF GraphInv, EdgesGoBothWays, BornLinked, AllReachable, Pending, Built
<1> QED BY <1>2, <1>3 DEF GraphInv

\* There is no graph to begin with.
LEMMA GraphInit ==
    ASSUME Init
    PROVE  GraphInv
<1>1. /\ at = <<>> /\ Len(at) = 0 /\ Nodes = {} /\ at \in Seq(Points) /\ links = <<>>
      /\ level = <<>> /\ DOMAIN level = {} /\ links \in Seq(Nodes) /\ pc = "insert" /\ entry = 0
      /\ top = 0 /\ layer = 0 /\ points = {}
  BY EmptySeq DEF Init, Nodes
<1>2. 0 \in Layers /\ Size \in Nat
  BY GraphAssumption DEF Layers
<1>3. /\ ~Inserting /\ ~Built /\ Settled = {} /\ \A l \in Layers : ~Wired(l)
      /\ \A l \in Layers : graph[l] = <<>> /\ DOMAIN graph[l] = {}
  BY <1>1 DEF Init, Inserting, Built, Settled, Wired
<1>4. GraphTypeOK
  <2>1. level \in [Nodes -> Layers]
    BY <1>1
  <2>2. graph \in [Layers -> UNION {[D -> Seq(Nodes)] : D \in SUBSET Nodes}]
    <3>1. PICK U : U = UNION {[D -> Seq(Nodes)] : D \in SUBSET Nodes}
      OBVIOUS
    <3>2. <<>> \in [{} -> Seq(Nodes)]
      BY <1>1, <1>3, <1>2
    <3>3. <<>> \in U
      BY <3>1, <3>2
    <3> QED BY <3>1, <3>3 DEF Init
  <2> QED BY <1>1, <1>2, <2>1, <2>2 DEF GraphTypeOK
<1>5. Placed /\ EntryIsTop /\ WithinLayer /\ StartsThere /\ LinksAhead /\ WiredLinked
  <2>1. Placed /\ WithinLayer
    BY <1>1, <1>3 DEF Placed, WithinLayer, New
  <2> QED BY <1>1, <1>3, <2>1 DEF EntryIsTop, StartsThere, LinksAhead, WiredLinked
<1>6. EdgesGoBothWays /\ BornLinked /\ AllReachable
  BY <1>1, <1>3 DEF EdgesGoBothWays, BornLinked, AllReachable
<1> QED BY <1>4, <1>5, <1>6 DEF GraphInv

\* The invariant of the graph, from the first insertion to the searches of an
\* index that was loaded: _insert, _repair_connectivity, save and load.
THEOREM GraphInvariant == Spec => []GraphInv
<1>1. Init => GraphInv
  BY GraphInit
<1>2. GraphInv /\ [Next]_vars => GraphInv'
  <2> SUFFICES ASSUME GraphInv, [Next]_vars PROVE GraphInv'
    OBVIOUS
  <2>1. ASSUME NEW p \in Points, NEW lv \in Layers, Insert(p, lv) PROVE GraphInv'
    <3>1. CASE entry = 0
      BY <2>1, <3>1, FirstInserted
    <3>2. CASE entry # 0
      BY <2>1, <3>2, NextInserted
    <3> QED BY <3>1, <3>2
  <2>2. CASE Wire
    BY <2>2, IsWired
  <2>3. CASE Link
    BY <2>3, IsLinked
  <2>4. CASE NextLayer
    BY <2>4, IsDescended
  <2>5. CASE Inserted
    BY <2>5, IsInserted
  <2>6. CASE Repair
    BY <2>6, IsRepaired
  <2>7. CASE Reload
    BY <2>7, IsReloaded
  <2>8. ASSUME NEW q \in Queries, Search(q) PROVE GraphInv'
    <3>1. UNCHANGED <<at, level, graph, entry, top, pc, layer, points, links>>
      BY <2>8 DEF Search
    <3> QED BY <3>1, HitsAside
  <2>9. CASE Return
    <3>1. UNCHANGED <<at, level, graph, entry, top, pc, layer, points, links>>
      BY <2>9 DEF Return
    <3> QED BY <3>1, HitsAside
  <2>10. CASE UNCHANGED vars
    <3>1. UNCHANGED <<at, level, graph, entry, top, pc, layer, points, links>>
      BY <2>10 DEF vars
    <3> QED BY <3>1, HitsAside
  <2> QED BY <2>1, <2>2, <2>3, <2>4, <2>5, <2>6, <2>7, <2>8, <2>9, <2>10 DEF Next
<1> QED BY <1>1, <1>2, PTL DEF Spec

\* Every edge has its reverse, whatever pruning, protection, repair, saving and
\* loading do to it, and no node is over its budget before the repair.
THEOREM EdgesAlwaysGoBothWays == Spec => []EdgesGoBothWays
<1>1. GraphInv => EdgesGoBothWays
  BY DEF GraphInv
<1> QED BY <1>1, GraphInvariant, PTL

\* No node is born without an edge on a layer where there are others.
THEOREM AlwaysBornLinked == Spec => []BornLinked
<1>1. GraphInv => BornLinked
  BY DEF GraphInv
<1> QED BY <1>1, GraphInvariant, PTL

\* After the repair the lowest layer is one component, also of an index that was
\* saved and loaded.
THEOREM AlwaysReachable == Spec => []AllReachable
<1>1. GraphInv => AllReachable
  BY DEF GraphInv
<1> QED BY <1>1, GraphInvariant, PTL

\* The invariant of the searches: whatever index is searched, as it was built or
\* as it was loaded, its hits are as many and as near as they should be.
THEOREM HitsInvariant == Spec => []HitsInv
<1>1. Init => HitsInv
  BY DEF Init, HitsInv, Built, SearchIsFull, SearchIsExact
<1>2. GraphInv /\ HitsInv /\ [Next]_vars => HitsInv'
  <2> SUFFICES ASSUME GraphInv, HitsInv, [Next]_vars PROVE HitsInv'
    OBVIOUS
  <2>1. ASSUME ~Built, ~Built', UNCHANGED hits PROVE HitsInv'
    BY <2>1, NothingFound DEF HitsInv
  <2>2. ASSUME NEW p \in Points, NEW lv \in Layers, Insert(p, lv) PROVE HitsInv'
    BY <2>1, <2>2 DEF Insert, Built
  <2>3. CASE Wire \/ Link \/ NextLayer \/ Inserted
    <3>1. ~Built /\ ~Built' /\ hits' = hits
      BY <2>3 DEF Wire, Link, NextLayer, Inserted, Built
    <3> QED BY <2>1, <3>1
  <2>4. CASE Repair
    <3>1. ~Built /\ Len(at) = Size /\ at' = at /\ hits' = hits
      BY <2>4 DEF Repair, Built
    <3> QED BY <3>1, NothingFound DEF HitsInv
  <2>5. CASE Reload
    <3>1. Built /\ hits = NoHits /\ at' = at /\ hits' = hits
      BY <2>5 DEF Reload, Built
    <3> QED BY <3>1, NothingFound DEF HitsInv
  <2>6. ASSUME NEW q \in Queries, Search(q) PROVE HitsInv'
    BY <2>6, IsSearched
  <2>7. CASE Return
    <3>1. hits' = NoHits /\ at' = at /\ pc' = pc
      BY <2>7 DEF Return
    <3> QED BY <3>1, NothingFound DEF HitsInv, Built
  <2>8. CASE UNCHANGED vars
    BY <2>8, IndexAside DEF vars
  <2> QED BY <2>2, <2>3, <2>4, <2>5, <2>6, <2>7, <2>8 DEF Next
<1> QED BY <1>1, <1>2, GraphInvariant, PTL DEF Spec

\* A search within its budget returns as many hits as were asked for, or all that
\* are admissible: the filter of search() never leaves it short.
THEOREM SearchesAreFull == Spec => []SearchIsFull
<1>1. HitsInv => SearchIsFull
  BY DEF HitsInv
<1> QED BY <1>1, HitsInvariant, PTL

\* A search whose effort is as large as its filter is selective returns what brute
\* force would, in the same order.
THEOREM SearchesAreExact == Spec => []SearchIsExact
<1>1. HitsInv => SearchIsExact
  BY DEF HitsInv
<1> QED BY <1>1, HitsInvariant, PTL

=============================================================================
