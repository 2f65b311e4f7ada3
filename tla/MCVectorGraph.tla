---------------------------- MODULE MCVectorGraph ----------------------------
(* Points on an arc: 1 - cos of an angle grows with the angle.              *)
EXTENDS VectorGraph

MCDistance == [e \in Points \X Points |-> IF e[1] < e[2] THEN e[2] - e[1] ELSE e[1] - e[2]]

\* The first node is low, the second raises the top; later ones are on either layer.
MCDraws == [i \in 1..Size |-> IF i \in {2, 3, 5} THEN {1} ELSE IF i = 4 THEN {0, 1} ELSE {0}]

MCQueries == [point : {3}, k : {2}, effort : {1},
              admissible : {S \in SUBSET (1..Size) : Cardinality(S) <= 2 \/ S = 1..Size}]
=============================================================================
