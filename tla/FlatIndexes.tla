----------------------------- MODULE FlatIndexes -----------------------------
(***************************************************************************)
(* The two indexes that keep every vector as it is: brute force            *)
(* (index/brute.py), which is what the API serves and what the others are  *)
(* measured by, and the inverted file (index/ivf.py) over the cells of a   *)
(* spherical k-means (index/kmeans.py).                                    *)
(*                                                                         *)
(* A unit vector is a place on the sphere; only distances count.  Vectors  *)
(* are the rows 1, 2, ... of the build, which stand for their ids.  Where  *)
(* numpy chooses among equals, any choice is possible.                     *)
(***************************************************************************)
EXTENDS Integers, Sequences, FiniteSets, SequencesExt

CONSTANTS
    Places,          \* the sphere
    CosineDistance,  \* 1 - dot, between two places
    Corpora,         \* bound: what an index is built from
    Lists,           \* n_lists, as requested; 0 for None
    Iterations,      \* of k-means
    Searches         \* bound: the searches that are made

VARIABLES
    index,      \* "brute" or "ivf"
    vectors,    \* as they were given to build
    centroids,  \* those chosen so far
    cells,      \* assignments: per vector, its cell
    cell,       \* the cell whose centroid is moved next
    round,      \* iterations so far
    settled,    \* hardly anything has changed cells in this iteration
    step,       \* what the build does next
    ids,        \* the rows in the order they are kept in
    offsets,    \* where the slice of each cell begins, and where the last ends
    answer      \* the last search and what it found

flatVars == <<index, vectors, centroids, cells, cell, round, settled, step, ids, offsets, answer>>

Rows == DOMAIN vectors
NoAnswer == [rows |-> <<>>]

FlatInit ==
    /\ index = "none"
    /\ vectors = <<>>
    /\ centroids = <<>>
    /\ cells = <<>>
    /\ cell = 0
    /\ round = 0
    /\ settled = FALSE
    /\ step = "build"
    /\ ids = <<>>
    /\ offsets = <<0>>
    /\ answer = NoAnswer

\* build: brute force is done with that, and so is an empty inverted file.
Build(name, v) ==
    /\ step = "build"
    /\ index' = name
    /\ vectors' = v
    /\ cells' = [i \in DOMAIN v |-> 1]
    /\ ids' = [i \in DOMAIN v |-> i]
    /\ step' = IF name = "ivf" /\ v # <<>> THEN "seed" ELSE "built"
    /\ UNCHANGED <<centroids, cell, round, settled, offsets, answer>>

-----------------------------------------------------------------------------
(* kmeans                                                                  *)

Least(S) == CHOOSE x \in S : \A y \in S : x <= y

AtMost(a, b) == IF a < b THEN a ELSE b

\* sqrt(n) cells, unless asked for otherwise; never more than vectors.
CellsFor(n) ==
    LET root == CHOOSE r \in 0..n : r * r <= n /\ n < (r + 1) * (r + 1)
    IN  AtMost(IF Lists = 0 THEN root ELSE Lists, n)

Cells == CellsFor(Len(vectors))

\* How far a vector is from the centroid that is closest to it.
Closest(i) == Least({CosineDistance[<<vectors[i], centroids[c]>>] : c \in DOMAIN centroids})

\* kmeans_plusplus_init: away from the seeds chosen so far, if anything is.
MaySeed(i) ==
    centroids # <<>> /\ (\E j \in Rows : Closest(j) > 0) => Closest(i) > 0

Seed(i) ==
    /\ step = "seed"
    /\ MaySeed(i)
    /\ centroids' = Append(centroids, vectors[i])
    /\ step' = IF Len(centroids) + 1 = Cells THEN "assign" ELSE "seed"
    /\ UNCHANGED <<index, vectors, cells, cell, round, settled, ids, offsets, answer>>

\* assign: of equally near centroids, the first.
CellOf(i) ==
    Least({c \in DOMAIN centroids : CosineDistance[<<vectors[i], centroids[c]>>] = Closest(i)})

Assign ==
    /\ step = "assign"
    /\ cells' = [i \in Rows |-> CellOf(i)]
    /\ settled' = (10000 * Cardinality({i \in Rows : cells'[i] # cells[i]}) < Len(vectors))
    /\ round' = round + 1
    /\ cell' = 1
    /\ step' = "move"
    /\ UNCHANGED <<index, vectors, centroids, ids, offsets, answer>>

Spread(p, S) == FoldSet(LAMBDA i, n : n + CosineDistance[<<vectors[i], p>>], 0, S)

\* The mean of the members points to where they are nearest in sum; to nowhere if they
\* cancel out, and then any vector is taken.  An empty cell gets the vector served worst.
Centres(c) ==
    LET members == {i \in Rows : cells[i] = c}
        least == Least({Spread(p, members) : p \in Places})
        best == {p \in Places : Spread(p, members) = least}
        worst == Least({i \in Rows : \A j \in Rows : Closest(j) <= Closest(i)})
    IN  IF members = {} THEN {vectors[worst]}
        ELSE IF best = Places THEN {vectors[i] : i \in Rows}
        ELSE {CHOOSE p \in best : TRUE}

Move(p) ==
    /\ step = "move"
    /\ p \in Centres(cell)
    /\ centroids' = [centroids EXCEPT ![cell] = p]
    /\ IF cell < Cells
       THEN cell' = cell + 1 /\ step' = step
       ELSE cell' = 0 /\ step' = IF settled \/ round = Iterations THEN "permute" ELSE "assign"
    /\ UNCHANGED <<index, vectors, cells, round, settled, ids, offsets, answer>>

-----------------------------------------------------------------------------
(* IVFFlatIndex.build                                                      *)

\* Faulty: the assignments of the last iteration, from before the centroids moved.
AssignedBefore(i) == cells[i]

\* kmeans assigns once more at its end.
Assigned(i) == CellOf(i)

InCells(c, i, j) == c[i] < c[j] \/ (c[i] = c[j] /\ i < j)

\* A stable sort into the order of the cells, and the first position of each.
Permute ==
    /\ step = "permute"
    /\ cells' = [i \in Rows |-> Assigned(i)]
    /\ ids' = [n \in Rows |->
                  CHOOSE i \in Rows : Cardinality({j \in Rows : InCells(cells', j, i)}) = n - 1]
    /\ offsets' = [c \in 1..Cells + 1 |-> Cardinality({i \in Rows : cells'[i] < c})]
    /\ step' = "built"
    /\ UNCHANGED <<index, vectors, centroids, cell, round, settled, answer>>

-----------------------------------------------------------------------------
(* search.  A search has a point, a k, an effort, and may have a filter.   *)

\* argpartition: n of S such that none outside is nearer.
NearestSets(S, n, far) ==
    {T \in SUBSET S : Cardinality(T) = n /\ \A x \in T, y \in S \ T : far[x] <= far[y]}

\* Faulty: the mask is over ids, not over positions.
MaskOfIds(q) == DOMAIN ids \intersect q.admissible

\* compile_mask
Admitted(q) == {n \in DOMAIN ids : ids[n] \in q.admissible}

Far(q, n) == CosineDistance[<<q.point, vectors[ids[n]]>>]

\* S by increasing (far, key)
Ordered(S, far, key) ==
    LET before(i) == {j \in S : far[j] < far[i] \/ (far[j] = far[i] /\ key[j] < key[i])}
    IN  [n \in 1..Cardinality(S) |-> CHOOSE i \in S : Cardinality(before(i)) = n - 1]

\* (distance, id)
InOrder(q, T) ==
    LET sorted == Ordered(T, [n \in T |-> Far(q, n)], ids)
    IN  [n \in DOMAIN sorted |-> ids[sorted[n]]]

Slice(c) == offsets[c] + 1..offsets[c + 1]

Span(q, P) ==
    (UNION {Slice(c) : c \in P}) \intersect (IF q.filtered THEN Admitted(q) ELSE Rows)

CellFar(q, c) == CosineDistance[<<q.point, centroids[c]>>]

Wanted(q) == AtMost(q.k, Len(ids))

MinProbes(q) == AtMost(q.effort, Cells)

\* Faulty: the effort is a budget under a filter, too.
StopsAtBudget(q, order, m) == m >= MinProbes(q)

Stops(q, order, m) ==
    /\ m >= MinProbes(q)
    /\ Cardinality(Span(q, {order[n] : n \in 1..m})) >= Wanted(q)

\* _probe_until_k: cells nearest first until k rows are found; any order of equals.
ProbeUntilK(q) ==
    LET orders == {o \in SetToSeqs(1..Cells) :
                       \A n \in 1..Cells - 1 : CellFar(q, o[n]) <= CellFar(q, o[n + 1])}
        last(o) == Least({Cells} \union {m \in 1..Cells : Stops(q, o, m)})
    IN  {{o[n] : n \in 1..last(o)} : o \in orders}

Probes(q) ==
    IF q.filtered THEN ProbeUntilK(q)
    ELSE NearestSets(1..Cells, MinProbes(q), [c \in 1..Cells |-> CellFar(q, c)])

\* BruteForceIndex scans all, or all that is admissible.
Candidates(q) ==
    IF index = "ivf" THEN {Span(q, P) : P \in Probes(q)}
    ELSE {IF q.filtered THEN Admitted(q) ELSE Rows}

SearchResults(q) ==
    {InOrder(q, T) : T \in UNION {NearestSets(C, AtMost(Wanted(q), Cardinality(C)),
                                              [n \in C |-> Far(q, n)]) : C \in Candidates(q)}}

Ask(q) ==
    /\ step = "built"
    /\ answer = NoAnswer
    /\ \E rows \in SearchResults(q) : answer' = [query |-> q, rows |-> rows]
    /\ UNCHANGED <<index, vectors, centroids, cells, cell, round, settled, step, ids, offsets>>

\* The caller takes the answer.
Take ==
    /\ answer # NoAnswer
    /\ answer' = NoAnswer
    /\ UNCHANGED <<index, vectors, centroids, cells, cell, round, settled, step, ids, offsets>>

FlatNext ==
    \/ \E name \in {"brute", "ivf"}, v \in Corpora : Build(name, v)
    \/ \E i \in Rows : Seed(i)
    \/ Assign
    \/ \E p \in Places : Move(p)
    \/ Permute
    \/ \E q \in Searches : Ask(q)
    \/ Take

-----------------------------------------------------------------------------
(* Properties.                                                             *)

\* When the file is built, the slices of the cells are disjoint, make up all rows, and hold each
\* vector in a cell whose centroid is nearest to it, whatever the last iteration has
\* moved (build, kmeans): a vector elsewhere is found by none of the probes meant for it.
ListsHoldNearest ==
    index = "ivf" /\ step = "built" =>
        /\ {ids[n] : n \in DOMAIN ids} = Rows
        /\ offsets[1] = 0 /\ offsets[Cells + 1] = Len(ids)
        /\ \A c \in 1..Cells : offsets[c] <= offsets[c + 1]
        /\ \A c, d \in 1..Cells : \A n \in Slice(c) :
              CosineDistance[<<vectors[ids[n]], centroids[c]>>]
                 <= CosineDistance[<<vectors[ids[n]], centroids[d]>>]

\* A filter never leaves a search short, and nothing else is returned: k rows, or all that are
\* admissible, whatever the effort ("probing continues until k admissible candidates are
\* found", IVFFlatIndex.search; "must never pad", test_ivf_filtered.py).
NeverShort ==
    answer # NoAnswer /\ answer.query.filtered =>
        /\ Len(answer.rows) = AtMost(answer.query.k, Cardinality(answer.query.admissible \intersect Rows))
        /\ IsInjective(answer.rows)
        /\ ToSet(answer.rows) \subseteq answer.query.admissible

\* What exact search over all that may be found has for distances.
Oracle(q) ==
    LET S == IF q.filtered THEN q.admissible \intersect Rows ELSE Rows
        far == [i \in S |-> CosineDistance[<<q.point, vectors[i]>>]]
        sorted == Ordered(S, far, [i \in S |-> i])
    IN  [n \in 1..AtMost(q.k, Cardinality(S)) |-> far[sorted[n]]]

\* At full effort every index gives the distances of exact search, with or without a filter
\* ("at full effort matches the oracle, distance for distance", test_index_conformance.py).
FullEffortIsExact ==
    answer # NoAnswer /\ (index = "brute" \/ answer.query.effort >= Cells) =>
        Oracle(answer.query) = [n \in DOMAIN answer.rows |->
                                   CosineDistance[<<answer.query.point, vectors[answer.rows[n]]>>]]

\* A filter costs a search no row, and full effort no distance.
FlatSearchIsSound == NeverShort /\ FullEffortIsExact

=============================================================================
