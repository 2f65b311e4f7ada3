--------------------------- MODULE MCVectorIndexes ---------------------------
(* The graph is that of MCVectorGraph.  The flat indexes hold four
   vectors at four of the eight places of a circle, each opposite another. *)
EXTENDS VectorIndexes, MCVectorGraph

\* 1 - cos of multiples of 45 degrees, in tenths.
MCCosine == [e \in Places \X Places |->
                LET a == IF e[1] < e[2] THEN e[2] - e[1] ELSE e[1] - e[2]
                IN  CASE a \in {1, 7} -> 3 [] a \in {2, 6} -> 10 [] a \in {3, 5} -> 17
                      [] a = 4 -> 20 [] a = 0 -> 0]

MCCorpora == {<<>>} \union [1..4 -> {0, 1, 4, 5}]

MCSearches == [point : {5}, k : {1, 2}, effort : {1, 2}, filtered : {TRUE}, admissible : {S \union {9} : S \in SUBSET (1..4)}]
                \union [point : {5}, k : {2}, effort : {1, 2}, filtered : {FALSE}, admissible : {{}}]
=============================================================================
