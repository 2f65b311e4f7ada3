----------------------------- MODULE Measurement -----------------------------
(***************************************************************************)
(* What the benchmarks say of an index: recall against an exhaustive scan  *)
(* (bench/metrics.py, runner.py), and a filter pushed into the search      *)
(* against one applied to its result (bench/strategies.py, temporal.py).   *)
(*                                                                         *)
(* Functions of the last search of the index.  A recall is the number of   *)
(* hits, out of k; queries are not averaged.  Where the scan chooses among *)
(* equals, its result is any of several.                                   *)
(***************************************************************************)
EXTENDS FlatIndexes

-----------------------------------------------------------------------------
(* metrics.py                                                              *)

DistanceOf(q, i) == CosineDistance[<<q.point, vectors[i]>>]

\* compute_ground_truth: the ids of the k nearest of all.
GroundTruths(q) == NearestSets(Rows, q.k, [i \in Rows |-> DistanceOf(q, i)])

\* The k-th distance of the truth, the same in all of them.
Threshold(q) ==
    LET truth == CHOOSE T \in GroundTruths(q) : TRUE
    IN  CHOOSE d \in {DistanceOf(q, i) : i \in truth} : \A i \in truth : DistanceOf(q, i) <= d

TopK(q, rows) == ToSet(SubSeq(rows, 1, AtMost(q.k, Len(rows))))

\* Faulty: no slack for ties.
WithinStrict(q, i) == DistanceOf(q, i) < Threshold(q)

\* Distances are exact here, so that ties need no TIE_EPSILON.
Within(q, i) == DistanceOf(q, i) <= Threshold(q)

RecallWithTies(q, rows) == Cardinality({i \in TopK(q, rows) : Within(q, i)})

RecallById(q, rows, truth) == Cardinality(TopK(q, rows) \intersect truth)

-----------------------------------------------------------------------------
(* strategies.py                                                           *)

\* round, half to even, of a / b.
Rounded(a, b) ==
    LET q == a \div b
        r == 2 * (a % b)
    IN  IF r < b \/ (r = b /\ q % 2 = 0) THEN q ELSE q + 1

MaxOverfetch == 512

\* 1 / selectivity.  The selectivity counts all admissible ids, also those that
\* have been held out of the index (held_out_split).
RequiredOverfetch(q) ==
    LET n == Cardinality(q.admissible)
    IN  IF n = 0 THEN MaxOverfetch
        ELSE AtMost(MaxOverfetch, IF n > Len(ids) THEN 1 ELSE Rounded(Len(ids), n))

\* post_filter_search: the filter comes after the cut.
PostFilterSearch(q, overfetch) ==
    {LET admitted == {n \in DOMAIN raw : raw[n] \in q.admissible}
         place == [n \in admitted |-> n]
         kept == Ordered(admitted, place, place)
     IN  [n \in 1..AtMost(q.k, Cardinality(admitted)) |-> raw[kept[n]]] :
        raw \in SearchResults([q EXCEPT !.k = @ * overfetch, !.filtered = FALSE])}

-----------------------------------------------------------------------------
(* temporal.py                                                             *)

\* sweep_one: by the overfetch of its plan, what filtering after the search may give at the
\* effort of a search with a filter, which is the third plan.
SweepOne(q) == [o \in {1, RequiredOverfetch(q)} |-> PostFilterSearch(q, o)]

OverfetchLevels == 1..3

\* measure_collapse: the same by the levels, on the exhaustive index.
MeasureCollapse(q) == [o \in OverfetchLevels |-> PostFilterSearch(q, o)]

-----------------------------------------------------------------------------
(* Properties.                                                             *)

\* Recall by id never exceeds the tie-aware one, and falls short of it only where equal
\* distances straddle the cut: "that gap is a measure of corpus duplication"
\* (recall_by_id), of nothing else.  At full effort the tie-aware recall is 1.
GapIsDuplication ==
    answer # NoAnswer /\ ~answer.query.filtered /\ answer.query.k <= Len(vectors) =>
        LET q == answer.query
        IN  /\ \A truth \in GroundTruths(q) :
                  RecallById(q, answer.rows, truth) <= RecallWithTies(q, answer.rows)
            /\ \A truth \in GroundTruths(q) : GroundTruths(q) = {truth} =>
                  RecallById(q, answer.rows, truth) = RecallWithTies(q, answer.rows)
            /\ index = "brute" \/ q.effort >= Cells => RecallWithTies(q, answer.rows) = q.k

Distances(q, rows) == [n \in DOMAIN rows |-> DistanceOf(q, rows[n])]

AsGood(far, other) == Len(other) <= Len(far) /\ \A n \in DOMAIN other : far[n] <= other[n]

\* No two cells are equally far, so that both searches probe them in the same order.
Unambiguous(q) ==
    index = "ivf" => \A c, d \in 1..Cells : CellFar(q, c) = CellFar(q, d) => c = d

\* No row that is not fetched is as near as one that is: the cut does not separate equals.
CutsClean(q, fetched) ==
    \A S, T \in NearestSets(Rows, AtMost(fetched, Len(ids)), [i \in Rows |-> DistanceOf(q, i)]) : S = T

\* What the sweep and the collapse are meant to show, place by place: at no effort does filtering
\* after the search give more or nearer rows than a filter "pushed down into the index's own
\* traversal", however much is fetched; where all is fetched and all cells are probed it gives
\* as good; and of an exhaustive scan, fetching more never gives less, unless duplicates are
\* cut apart.
PushdownIsNeverBeaten ==
    answer # NoAnswer /\ answer.query.filtered /\ Unambiguous(answer.query) =>
        LET q == answer.query
            far == Distances(q, answer.rows)
            plots == IF index = "brute" THEN {SweepOne(q), MeasureCollapse(q)} ELSE {SweepOne(q)}
            exact == index = "brute" \/ q.effort >= Cells
        IN  \A plot \in plots : \A o \in DOMAIN plot : \A got \in plot[o] :
              /\ AsGood(far, Distances(q, got))
              /\ exact /\ q.k * o >= Len(ids) => Distances(q, got) = far
              /\ index = "brute" => \A other \in plots : \A more \in DOMAIN other : \A better \in other[more] :
                    more > o /\ CutsClean(q, q.k * more) => AsGood(Distances(q, better), Distances(q, got))

=============================================================================
