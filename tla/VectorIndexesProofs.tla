------------------------- MODULE VectorIndexesProofs -------------------------
(***************************************************************************)
(* Proofs about FlatIndexes and Measurement, and the port they are behind: *)
(* for any distances, corpora, numbers of cells and iterations, and any    *)
(* searches.  An inverted file holds each vector once, in the slice of a   *)
(* cell whose centroid is nearest to it; every search returns the nearest  *)
(* of enough candidates; and what the benchmarks say of them follows.      *)
(*                                                                         *)
(* Candidates are positions of the file, results are rows: the orders that *)
(* sort the one are renamed into orders that sort the other.               *)
(***************************************************************************)
EXTENDS VectorIndexes, VectorGraphProofs

-----------------------------------------------------------------------------
(* Sorted lists.                                                           *)

\* The first n of a list without repetitions are n.
LEMMA Beginning ==
    ASSUME NEW S, NEW N \in Nat, NEW s \in [1..N -> S], IsInjective(s), NEW n \in 0..N
    PROVE  IsFiniteSet(Part(s, 1, n)) /\ Cardinality(Part(s, 1, n)) = n
<1>1. PICK t, P : t = [i \in 1..n |-> s[i]] /\ P = Part(s, 1, n)
  OBVIOUS
<1>2. n \in Nat /\ \A i \in 1..n : i \in 1..N
  OBVIOUS
<1>3. P = {s[i] : i \in 1..n}
  BY <1>1 DEF Part
<1>4. t \in [1..n -> P] /\ DOMAIN t = 1..n
  BY <1>1, <1>3
<1>5. t \in Seq(P) /\ Len(t) = n
  BY <1>2, <1>4, Listed
<1>6. IsInjective(t)
  BY <1>1, <1>2, <1>4 DEF IsInjective
<1>7. ToSet(t) = P
  BY <1>1, <1>3, <1>4 DEF ToSet
<1>8. Len(t) \in Nat /\ IsFiniteSet(ToSet(t)) /\ Cardinality(ToSet(t)) = Len(t)
  BY <1>5, <1>6, Distinct
<1> QED BY <1>1, <1>5, <1>7, <1>8

\* The list s is all of S, each once, by increasing value of far.
Sorts(s, S, far) ==
    /\ s \in [1..Cardinality(S) -> S] /\ IsInjective(s) /\ ToSet(s) = S
    /\ \A m, n \in 1..Cardinality(S) : m < n => far[s[m]] <= far[s[n]]

\* Elements that are all before the nth of a list are fewer than n.
LEMMA FewBefore ==
    ASSUME NEW S, NEW N \in Nat, NEW s \in [1..N -> S], IsInjective(s), ToSet(s) = S,
           NEW n \in 1..N, NEW A \in SUBSET S, \A m \in 1..N : s[m] \in A => m < n
    PROVE  IsFiniteSet(A) /\ Cardinality(A) < n
<1>1. PICK P : P = Part(s, 1, n - 1)
  OBVIOUS
<1>2. n - 1 \in 0..N
  OBVIOUS
<1>3. IsFiniteSet(P) /\ Cardinality(P) = n - 1
  BY <1>1, <1>2, Beginning
<1>4. A \subseteq P
  <2> SUFFICES ASSUME NEW x \in A PROVE x \in P
    OBVIOUS
  <2>1. PICK m \in 1..N : s[m] = x
    BY DEF ToSet
  <2>2. m \in 1..n - 1
    BY <2>1
  <2> QED BY <1>1, <2>1, <2>2 DEF Part
<1>5. IsFiniteSet(A) /\ Cardinality(A) <= Cardinality(P)
  BY <1>3, <1>4, FS_Subset
<1>6. Cardinality(A) \in Nat
  BY <1>5, FS_CardinalityType
<1> QED BY <1>3, <1>5, <1>6

\* What is in S only is not nearer than what is in T.
NoneNearer(S, T, far) == \A x \in T : \A y \in S \ T : far[x] <= far[y]

\* Of two such lists, the nth of the second is then not farther than that of the first.
LEMMA NotFarther ==
    ASSUME NEW S, IsFiniteSet(S), NEW T, IsFiniteSet(T), NEW far, \A x \in S \union T : far[x] \in Nat,
           NEW a, Sorts(a, S, far), NEW b, Sorts(b, T, far), NoneNearer(S, T, far),
           NEW n, n \in 1..Cardinality(S), n \in 1..Cardinality(T)
    PROVE  far[b[n]] <= far[a[n]]
<1>0. PICK N \in Nat, L \in Nat : N = Cardinality(S) /\ L = Cardinality(T)
  BY FS_CardinalityType
<1>10. /\ a \in [1..N -> S] /\ IsInjective(a) /\ n \in 1..N
       /\ \A i, j \in 1..N : i < j => far[a[i]] <= far[a[j]]
  BY <1>0 DEF Sorts
<1>11. /\ b \in [1..L -> T] /\ IsInjective(b) /\ ToSet(b) = T /\ n \in 1..L
       /\ \A i, j \in 1..L : i < j => far[b[i]] <= far[b[j]]
  BY <1>0 DEF Sorts
<1>1. a[n] \in S /\ b[n] \in T /\ far[a[n]] \in Nat /\ far[b[n]] \in Nat
  BY <1>10, <1>11
<1> SUFFICES ASSUME far[a[n]] < far[b[n]] PROVE FALSE
  BY <1>1
<1>2. PICK A : A = Part(a, 1, n)
  OBVIOUS
<1>3. Cardinality(A) = n
  <2>1. a \in [1..N -> S] /\ IsInjective(a)
    BY <1>10
  <2>2. \A m \in 0..N : IsFiniteSet(Part(a, 1, m)) /\ Cardinality(Part(a, 1, m)) = m
    BY <2>1, Beginning
  <2> QED BY <1>2, <1>10, <2>2
<1>4. \A x \in A : x \in S /\ far[x] <= far[a[n]]
  <2> SUFFICES ASSUME NEW i \in 1..n PROVE a[i] \in S /\ far[a[i]] <= far[a[n]]
    BY <1>2 DEF Part
  <2>1. i \in 1..N /\ (i < n \/ i = n)
    BY <1>10
  <2>2. a[i] \in S
    BY <1>10, <2>1
  <2> QED BY <1>1, <1>10, <2>1, <2>2
<1>5. A \in SUBSET T
  BY <1>1, <1>4 DEF NoneNearer
<1>6. \A m \in 1..L : b[m] \in A => m < n
  <2> SUFFICES ASSUME NEW m \in 1..L, b[m] \in A, n <= m PROVE FALSE
    BY <1>11
  <2>1. far[b[m]] <= far[a[n]] /\ far[b[m]] \in Nat
    BY <1>4
  <2>2. far[b[n]] <= far[b[m]]
    BY <1>1, <1>11
  <2> QED BY <1>1, <2>1, <2>2
<1>7. Cardinality(A) < n
  <2>1. b \in [1..L -> T] /\ IsInjective(b) /\ ToSet(b) = T
    BY <1>11
  <2>2. n \in 1..L
    BY <1>11
  <2> QED BY <1>5, <1>6, <2>1, <2>2, FewBefore
<1> QED BY <1>3, <1>7, <1>10

\* If nothing outside T is nearer than what is in T, the list of T is place by
\* place as near as that of all, whoever comes first of equals.
LEMMA NearestAsFar ==
    ASSUME NEW S, IsFiniteSet(S), NEW T, T \subseteq S, NEW far, \A x \in S : far[x] \in Nat,
           NEW a, Sorts(a, S, far), NEW b, Sorts(b, T, far), NoneNearer(S, T, far),
           NEW n \in 1..Cardinality(T)
    PROVE  n \in 1..Cardinality(S) /\ far[a[n]] = far[b[n]]
<1>1. /\ IsFiniteSet(T) /\ Cardinality(T) <= Cardinality(S)
      /\ Cardinality(S) \in Nat /\ Cardinality(T) \in Nat
  BY FS_Subset, FS_CardinalityType
<1>2. n \in 1..Cardinality(S) /\ n \in 1..Cardinality(T)
  BY <1>1
<1>3. \A x : x \in S \union T => far[x] \in Nat
  OBVIOUS
<1>4. NoneNearer(T, S, far)
  BY DEF NoneNearer
<1>5. far[b[n]] <= far[a[n]]
  BY <1>1, <1>2, <1>3, NotFarther
<1>6. S \union T = T \union S
  OBVIOUS
<1>7. far[a[n]] <= far[b[n]]
  BY <1>1, <1>2, <1>3, <1>4, <1>6, NotFarther
<1>8. a[n] \in S /\ b[n] \in S
  BY <1>2 DEF Sorts
<1> QED BY <1>2, <1>5, <1>7, <1>8

-----------------------------------------------------------------------------
(* The build of an inverted file.                                          *)

\* Integer square roots exist.
LEMMA HasRoot ==
    ASSUME NEW N \in Nat
    PROVE  \E r \in 0..N : r * r <= N /\ N < (r + 1) * (r + 1)
<1>1. PICK T : T = {n \in 0..N : \E r \in 0..n : r * r <= n /\ n < (r + 1) * (r + 1)}
  OBVIOUS
<1>2. 0 \in T
  <2>1. 0 \in 0..N /\ 0 \in 0..0 /\ 0 * 0 <= 0 /\ 0 < (0 + 1) * (0 + 1)
    OBVIOUS
  <2> QED BY <1>1, <2>1
<1>3. ASSUME NEW n \in 1..N, n - 1 \in T PROVE n \in T
  <2>1. PICK r \in 0..n - 1 : r * r <= n - 1 /\ n - 1 < (r + 1) * (r + 1)
    BY <1>1, <1>3
  <2>2. PICK x, y : x = (r + 1) * (r + 1) /\ y = (r + 2) * (r + 2)
    OBVIOUS
  <2>3. x \in Nat /\ y \in Nat /\ x < y
    <3>1. r \in Nat
      OBVIOUS
    <3>2. (r + 2) * (r + 2) = (r + 1) * (r + 1) + 2 * r + 3
      BY <3>1
    <3>3. (r + 1) * (r + 1) \in Nat
      BY <3>1
    <3> QED BY <2>2, <3>1, <3>2, <3>3
  <2>4. CASE n < x
    <3>1. r \in 0..n /\ r * r \in Nat
      OBVIOUS
    <3> QED BY <1>1, <2>1, <2>2, <2>4, <3>1
  <2>5. CASE ~(n < x)
    <3>1. n = x
      BY <2>1, <2>2, <2>3, <2>5
    <3>2. PICK k \in 0..n : k = r + 1
      OBVIOUS
    <3>3. k * k <= n /\ n < (k + 1) * (k + 1)
      <4>1. k * k = x
        BY <2>2, <3>2
      <4>2. k + 1 = r + 2
        BY <3>2
      <4>3. (k + 1) * (k + 1) = y
        BY <2>2, <4>2
      <4> QED BY <2>3, <3>1, <4>1, <4>3
    <3> QED BY <1>1, <3>3
  <2> QED BY <2>4, <2>5
<1>4. \A n \in 0..N : n \in T
  BY <1>2, <1>3, Counting
<1>5. N \in T
  BY <1>4
<1> QED BY <1>1, <1>5

\* There are no more cells than vectors, and one at least if there are any.
LEMMA CellsInRange ==
    ASSUME NEW n \in Nat
    PROVE  CellsFor(n) \in 0..n /\ (n # 0 => CellsFor(n) >= 1)
<1>1. PICK root : root = CHOOSE r \in 0..n : r * r <= n /\ n < (r + 1) * (r + 1)
  OBVIOUS
<1>2. root \in 0..n /\ n < (root + 1) * (root + 1)
  BY <1>1, HasRoot
<1>3. CellsFor(n) = AtMost(IF Lists = 0 THEN root ELSE Lists, n)
  BY <1>1 DEF CellsFor
<1>4. n # 0 => root # 0
  BY <1>2
<1>5. Lists \in Nat
  BY FlatAssumption
<1> QED BY <1>2, <1>3, <1>4, <1>5 DEF AtMost

\* Rows in the order of their cells, and where of N rows each of the K cells begins.
ByCells(R, c) == [n \in R |-> CHOOSE i \in R : Cardinality({j \in R : InCells(c, j, i)}) = n - 1]
\* The rows in the cells before d.
Below(N, c, d) == {i \in 1..N : c[i] < d}
\* How many there are, by the cell: where its slice begins.
Begins(N, K, c) == [d \in 1..K + 1 |-> Cardinality(Below(N, c, d))]

\* The rows in the order s are in slices at o, one for each of the K cells.
Sliced(N, K, c, s, o) ==
    /\ s \in [1..N -> 1..N] /\ IsInjective(s) /\ ToSet(s) = 1..N
    /\ o \in [1..K + 1 -> Nat] /\ o[1] = 0 /\ o[K + 1] = N
    /\ \A d \in 1..K : o[d] <= o[d + 1]
    /\ \A d \in 1..K : \A n \in o[d] + 1..o[d + 1] : n \in 1..N /\ c[s[n]] = d

\* The nth row comes after those of lower cells and not after those of higher ones.
LEMMA AmongSlices ==
    ASSUME NEW N \in Nat, NEW K \in Nat, NEW c \in [1..N -> 1..K],
           NEW s \in [1..N -> 1..N], IsInjective(s), ToSet(s) = 1..N,
           \A m, n \in 1..N : InCells(c, s[m], s[n]) <=> m < n,
           NEW n \in 1..N, NEW d, d = c[s[n]]
    PROVE  Cardinality(Below(N, c, d)) < n /\ n <= Cardinality(Below(N, c, d + 1))
<1>1. \A m \in 0..N : IsFiniteSet(Part(s, 1, m)) /\ Cardinality(Part(s, 1, m)) = m
  BY Beginning
<1>2. n - 1 \in 0..N /\ n \in 0..N
  OBVIOUS
<1>3. PICK i \in 1..N : i = s[n]
  OBVIOUS
<1>4. d \in 1..K /\ d = c[i]
  BY <1>3
<1>5. PICK A, B : /\ A = Below(N, c, d) /\ A = {j \in 1..N : c[j] < d}
                  /\ B = Below(N, c, d + 1) /\ B = {j \in 1..N : c[j] < d + 1}
  BY DEF Below
<1>6. A \subseteq Part(s, 1, n - 1)
  <2> SUFFICES ASSUME NEW j \in 1..N, c[j] < d PROVE j \in Part(s, 1, n - 1)
    BY <1>5
  <2>1. PICK m \in 1..N : s[m] = j
    BY DEF ToSet
  <2>2. InCells(c, s[m], s[n])
    BY <1>3, <1>4, <2>1 DEF InCells
  <2>3. m < n
    BY <2>2
  <2>4. m \in 1..n - 1
    BY <2>3
  <2> QED BY <2>1, <2>4 DEF Part
<1>7. Part(s, 1, n) \subseteq B
  <2> SUFFICES ASSUME NEW m \in 1..n PROVE s[m] \in 1..N /\ c[s[m]] < d + 1
    BY <1>5 DEF Part
  <2>1. m \in 1..N /\ ~(n < m)
    OBVIOUS
  <2>2. ~InCells(c, s[n], s[m])
    BY <2>1
  <2>3. s[m] \in 1..N /\ c[s[m]] \in 1..K
    BY <2>1
  <2> QED BY <1>3, <1>4, <2>2, <2>3 DEF InCells
<1>8. IsFiniteSet(1..N)
  BY Counted
<1>9. Cardinality(A) <= n - 1
  <2>1. IsFiniteSet(Part(s, 1, n - 1)) /\ Cardinality(Part(s, 1, n - 1)) = n - 1
    BY <1>1, <1>2
  <2> QED BY <1>6, <2>1, FS_Subset
<1>10. n <= Cardinality(B)
  <2>1. IsFiniteSet(Part(s, 1, n)) /\ Cardinality(Part(s, 1, n)) = n
    BY <1>1, <1>2
  <2>2. IsFiniteSet(B)
    BY <1>5, <1>8, FS_Subset
  <2> QED BY <1>7, <2>1, <2>2, FS_Subset
<1>11. Cardinality(A) \in Nat
  <2>1. A \subseteq 1..N
    BY <1>5
  <2>2. IsFiniteSet(A)
    BY <1>8, <2>1, FS_Subset
  <2> QED BY <2>2, FS_CardinalityType
<1> QED BY <1>5, <1>9, <1>10, <1>11

\* They are, sorted by their cells and cut where the next cell begins.
LEMMA SortedBySlices ==
    ASSUME NEW N \in Nat, NEW K \in Nat, NEW c \in [1..N -> 1..K],
           NEW s, s = ByCells(1..N, c), NEW o, o = Begins(N, K, c)
    PROVE  Sliced(N, K, c, s, o)
<1>1. IsFiniteSet(1..N) /\ Cardinality(1..N) = N
  BY Counted
<1>2. PICK S : S = 1..N
  OBVIOUS
<1>3. PICK R : R = {e \in S \X S : InCells(c, e[1], e[2])}
  OBVIOUS
<1>4. \A i, j \in S : <<i, j>> \in R <=> InCells(c, i, j)
  BY <1>3
<1>5. Orders(R, S)
  <2>1. \A i \in S : i \in Nat /\ c[i] \in Nat
    BY <1>2
  <2>2. \A i, j \in S : <<i, j>> \in R <=> c[i] < c[j] \/ (c[i] = c[j] /\ i < j)
    BY <1>4 DEF InCells
  <2>3. \A i \in S : <<i, i>> \notin R
    BY <2>1, <2>2
  <2>4. ASSUME NEW i \in S, NEW j \in S, i # j PROVE <<i, j>> \in R \/ <<j, i>> \in R
    <3>1. i \in Nat /\ j \in Nat /\ c[i] \in Nat /\ c[j] \in Nat
      BY <2>1
    <3> QED BY <2>2, <2>4, <3>1
  <2>5. \A i, j, k \in S : <<i, j>> \in R /\ <<j, k>> \in R => <<i, k>> \in R
    BY <2>1, <2>2
  <2> QED BY <2>3, <2>4, <2>5 DEF Orders
<1>6. s = Sorting(R, S)
  <2> DEFINE Here(n) == CHOOSE i \in S : Cardinality({j \in S : InCells(c, j, i)}) = n - 1
             There(n) == CHOOSE i \in S : Cardinality({j \in S : <<j, i>> \in R}) = n - 1
  <2>1. \A i \in S : {j \in S : InCells(c, j, i)} = {j \in S : <<j, i>> \in R}
    BY <1>4
  <2>2. \A n : Here(n) = There(n)
    BY <2>1, Zenon
  <2>3. s = [n \in 1..N |-> Here(n)]
    BY <1>2 DEF ByCells
  <2>4. Sorting(R, S) = [n \in 1..N |-> There(n)]
    BY <1>1, <1>2 DEF Sorting
  <2> HIDE DEF Here, There
  <2> QED BY <2>2, <2>3, <2>4
<1>7. /\ Sorting(R, S) \in [1..Cardinality(S) -> S]
      /\ IsInjective(Sorting(R, S)) /\ ToSet(Sorting(R, S)) = S
      /\ \A m, n \in 1..Cardinality(S) : <<Sorting(R, S)[m], Sorting(R, S)[n]>> \in R <=> m < n
  BY <1>1, <1>2, <1>5, SortingSorts
<1>8. /\ s \in [1..N -> 1..N] /\ IsInjective(s) /\ ToSet(s) = 1..N
      /\ \A m, n \in 1..N : InCells(c, s[m], s[n]) <=> m < n
  BY <1>1, <1>2, <1>4, <1>6, <1>7
<1>9. \A d \in 1..K + 1 : IsFiniteSet(Below(N, c, d)) /\ Cardinality(Below(N, c, d)) \in Nat
  BY <1>1, FS_Subset, FS_CardinalityType DEF Below
<1>10. \A d \in 1..K + 1 : o[d] = Cardinality(Below(N, c, d))
  BY DEF Begins
<1>11. o \in [1..K + 1 -> Nat]
  BY <1>9 DEF Begins
<1>12. o[1] = 0
  <2>1. Below(N, c, 1) = {}
    BY DEF Below
  <2>2. 1 \in 1..K + 1
    OBVIOUS
  <2> QED BY <1>10, <2>1, <2>2, FS_EmptySet
<1>13. o[K + 1] = N
  <2>1. Below(N, c, K + 1) = 1..N
    BY DEF Below
  <2>2. K + 1 \in 1..K + 1
    OBVIOUS
  <2> QED BY <1>1, <1>10, <2>1, <2>2
<1>14. \A d, e \in 1..K + 1 : d <= e => o[d] <= o[e]
  <2> SUFFICES ASSUME NEW d \in 1..K + 1, NEW e \in 1..K + 1, d <= e PROVE o[d] <= o[e]
    OBVIOUS
  <2>1. Below(N, c, d) \subseteq Below(N, c, e)
    BY DEF Below
  <2>2. Cardinality(Below(N, c, d)) <= Cardinality(Below(N, c, e))
    BY <1>9, <2>1, FS_Subset
  <2> QED BY <1>10, <2>2
<1>15. \A d \in 1..K : d \in 1..K + 1 /\ d + 1 \in 1..K + 1
  OBVIOUS
<1>16. ASSUME NEW n \in 1..N PROVE o[c[s[n]]] < n /\ n <= o[c[s[n]] + 1]
  <2>1. PICK d : d = c[s[n]]
    OBVIOUS
  <2>2. d \in 1..K /\ d \in 1..K + 1 /\ d + 1 \in 1..K + 1
    BY <1>8, <1>15, <2>1
  <2>3. Cardinality(Below(N, c, d)) < n /\ n <= Cardinality(Below(N, c, d + 1))
    BY <1>8, <2>1, <2>2, AmongSlices
  <2> QED BY <1>10, <2>1, <2>2, <2>3
<1>17. ASSUME NEW d \in 1..K, NEW n \in o[d] + 1..o[d + 1] PROVE n \in 1..N /\ c[s[n]] = d
  <2>1. o[d] \in Nat /\ o[d + 1] \in Nat /\ o[d + 1] <= N
    <3>1. K + 1 \in 1..K + 1 /\ d + 1 <= K + 1
      OBVIOUS
    <3> QED BY <1>11, <1>13, <1>14, <1>15, <3>1
  <2>2. n \in 1..N
    BY <2>1
  <2>3. PICK e \in 1..K : e = c[s[n]]
    BY <1>8, <2>2
  <2>4. o[e] < n /\ n <= o[e + 1] /\ o[e] \in Nat /\ o[e + 1] \in Nat
    BY <1>11, <1>15, <1>16, <2>2, <2>3
  <2>5. ~(e < d)
    <3> SUFFICES ASSUME e < d PROVE FALSE
      OBVIOUS
    <3>1. e + 1 \in 1..K + 1 /\ d \in 1..K + 1 /\ e + 1 <= d
      BY <1>15
    <3>2. o[e + 1] <= o[d]
      BY <1>14, <3>1
    <3> QED BY <2>1, <2>4, <3>2
  <2>6. ~(d < e)
    <3> SUFFICES ASSUME d < e PROVE FALSE
      OBVIOUS
    <3>1. d + 1 \in 1..K + 1 /\ e \in 1..K + 1 /\ d + 1 <= e
      BY <1>15
    <3>2. o[d + 1] <= o[e]
      BY <1>14, <3>1
    <3> QED BY <2>1, <2>4, <3>2
  <2> QED BY <2>2, <2>3, <2>5, <2>6
<1>18. \A d \in 1..K : o[d] <= o[d + 1]
  BY <1>14, <1>15
<1> QED BY <1>8, <1>11, <1>12, <1>13, <1>17, <1>18 DEF Sliced

\* A search is answered when the index is built.
FlatTypeOK ==
    /\ index \in {"none", "brute", "ivf"} /\ vectors \in Seq(Places) /\ centroids \in Seq(Places)
    /\ step \in {"build", "seed", "assign", "move", "permute", "built"}
    /\ answer # NoAnswer => step = "built" /\ answer.query \in Searches

\* Cells are made of vectors, and have a centroid each once all seeds are chosen.
Seeded ==
    /\ step = "build" => index = "none" /\ centroids = <<>> /\ offsets = <<0>>
    /\ step \in {"seed", "assign", "move", "permute"} => index = "ivf" /\ vectors # <<>>
    /\ step = "seed" => Len(centroids) < Cells
    /\ step \in {"assign", "move", "permute"} => Len(centroids) = Cells
    /\ step = "move" => cell \in 1..Cells
    /\ step = "built" => index # "none"

\* What is kept is every row once, and in an inverted file each in the slice of a cell.
Kept ==
    step = "built" =>
        /\ ids \in [Rows -> Rows] /\ IsInjective(ids) /\ ToSet(ids) = Rows
        /\ index = "ivf" => /\ Len(centroids) = Cells /\ offsets \in [1..Cells + 1 -> Nat]
                          /\ \A c \in 1..Cells : Slice(c) \subseteq Rows

\* The invariant of the files.
FilesOfFlat == FlatTypeOK /\ Seeded /\ Kept /\ ListsHoldNearest

\* The rows are numbered.
LEMMA RowsAreNumbered ==
    ASSUME vectors \in Seq(Places)
    PROVE  Rows = 1..Len(vectors) /\ Len(vectors) \in Nat /\ \A i \in Rows : vectors[i] \in Places
BY LenProperties, ElementOfSeq DEF Rows

\* The cell of a vector is one whose centroid is nearest to it.
LEMMA CellIsNearest ==
    ASSUME vectors \in Seq(Places), centroids \in Seq(Places), centroids # <<>>, NEW i \in Rows
    PROVE  /\ CellOf(i) \in 1..Len(centroids)
           /\ \A d \in 1..Len(centroids) :
                 CosineDistance[<<vectors[i], centroids[CellOf(i)]>>]
                    <= CosineDistance[<<vectors[i], centroids[d]>>]
<1>1. PICK K \in Nat : K = Len(centroids) /\ DOMAIN centroids = 1..K /\ K # 0
  BY LenProperties, EmptySeq
<1>2. PICK f : f = [c \in 1..K |-> CosineDistance[<<vectors[i], centroids[c]>>]]
  OBVIOUS
<1>3. f \in [1..K -> Nat]
  <2>1. \A c \in 1..K : <<vectors[i], centroids[c]>> \in Places \X Places
    BY <1>1, RowsAreNumbered, ElementOfSeq
  <2>2. \A e \in Places \X Places : CosineDistance[e] \in Nat
    BY FlatAssumption
  <2> QED BY <1>2, <2>1, <2>2
<1>4. PICK c \in 1..K : \A d \in 1..K : f[c] <= f[d]
  <2>1. 1 \in 1..K
    BY <1>1
  <2> QED BY <1>3, <2>1, HasLeast
<1>5. PICK V : V = {f[d] : d \in 1..K}
  OBVIOUS
<1>6. Closest(i) = Least(V)
  BY <1>1, <1>2, <1>5 DEF Closest
<1>7. Least(V) \in V /\ \A v \in V : Least(V) <= v
  <2>1. f[c] \in V /\ \A v \in V : f[c] <= v
    BY <1>4, <1>5
  <2> QED BY <2>1 DEF Least
<1>8. PICK near, C : /\ near = Closest(i) /\ \A e \in 1..K : near <= f[e]
                      /\ C = {d \in 1..K : f[d] = near} /\ C # {} /\ C \subseteq Nat
  <2>1. PICK e \in 1..K : Least(V) = f[e]
    BY <1>5, <1>7
  <2>2. \A d \in 1..K : f[e] <= f[d]
    BY <1>5, <1>7, <2>1
  <2>3. e \in {d \in 1..K : f[d] = f[e]} /\ {d \in 1..K : f[d] = f[e]} \subseteq Nat
    OBVIOUS
  <2> QED BY <1>6, <2>1, <2>2, <2>3
<1>9. CellOf(i) = Least(C)
  <2>1. C = {d \in 1..K : CosineDistance[<<vectors[i], centroids[d]>>] = near}
    BY <1>2, <1>8
  <2> QED BY <1>1, <1>8, <2>1 DEF CellOf
<1>10. Least(C) \in C
  <2>1. PICK x \in C : \A y \in C : x <= y
    <3>1. PICK g : g = [y \in C |-> y]
      OBVIOUS
    <3>2. g \in [C -> Nat]
      BY <1>8, <3>1
    <3>3. \E x \in C : \A y \in C : g[x] <= g[y]
      BY <1>8, <3>2, HasLeast
    <3> QED BY <3>1, <3>3
  <2> QED BY <2>1 DEF Least
<1>11. PICK e : e = CellOf(i)
  OBVIOUS
<1>12. e \in 1..K /\ f[e] = near
  BY <1>8, <1>9, <1>10, <1>11
<1>13. \A d \in 1..K : f[d] = CosineDistance[<<vectors[i], centroids[d]>>]
  BY <1>2
<1> QED BY <1>1, <1>8, <1>11, <1>12, <1>13

\* Nothing is built at first.
LEMMA FlatStarts == FlatInit => FilesOfFlat
BY DEF FlatInit, FilesOfFlat, FlatTypeOK, Seeded, Kept, ListsHoldNearest

\* Brute force keeps the rows as they are given, and an inverted file of none
\* has nothing to keep.
LEMMA BuildStep ==
    ASSUME FilesOfFlat, NEW name \in {"brute", "ivf"}, NEW v \in Corpora, Build(name, v)
    PROVE  FilesOfFlat'
<1>1. /\ index' = name /\ vectors' = v /\ v \in Seq(Places) /\ DOMAIN v = Rows' /\ answer = NoAnswer
      /\ ids' = [i \in DOMAIN v |-> i]
      /\ step' = IF name = "ivf" /\ v # <<>> THEN "seed" ELSE "built"
      /\ centroids' = <<>> /\ centroids = <<>> /\ offsets' = <<0>> /\ answer' = answer
  BY FlatAssumption DEF Build, FilesOfFlat, FlatTypeOK, Seeded, Rows
<1>2. FlatTypeOK'
  BY <1>1 DEF FilesOfFlat, FlatTypeOK
<1>3. Cells' \in 0..Len(v) /\ (v # <<>> => Cells' >= 1)
  <2>1. PICK n \in Nat : n = Len(v)
    BY <1>1, LenProperties
  <2>2. Cells' = CellsFor(n)
    BY <1>1, <2>1 DEF Cells
  <2>3. v # <<>> => n # 0
    BY <1>1, <2>1, EmptySeq
  <2> QED BY <2>1, <2>2, <2>3, CellsInRange
<1>4. Seeded'
  BY <1>1, <1>3 DEF Seeded
<1>5. Rows' = 1..Len(v) /\ Len(v) \in Nat
  BY <1>1, LenProperties
<1>6. ids' \in [Rows' -> Rows'] /\ IsInjective(ids') /\ ToSet(ids') = Rows'
  BY <1>1, <1>5 DEF IsInjective, ToSet
<1>7. CASE step' = "built" /\ index' = "ivf"
  <2>1. v = <<>> /\ Rows' = {} /\ Cells' = 0 /\ ids' = <<>>
    BY <1>1, <1>3, <1>5, <1>7
  <2>2. Kept'
    BY <1>1, <1>6, <2>1 DEF Kept
  <2>3. ListsHoldNearest'
    BY <1>1, <2>1 DEF ListsHoldNearest
  <2> QED BY <1>2, <1>4, <2>2, <2>3 DEF FilesOfFlat
<1>8. CASE ~(step' = "built" /\ index' = "ivf")
  BY <1>2, <1>4, <1>6, <1>8 DEF FilesOfFlat, Kept, ListsHoldNearest
<1> QED BY <1>7, <1>8

\* Each seed brings the cells nearer to their number.
LEMMA SeedStep ==
    ASSUME FilesOfFlat, NEW i \in Rows, Seed(i)
    PROVE  FilesOfFlat'
<1>1. /\ vectors' = vectors /\ vectors \in Seq(Places) /\ index' = index /\ index = "ivf" /\ vectors # <<>>
      /\ answer' = answer /\ answer = NoAnswer /\ Cells' = Cells
      /\ step' = IF Len(centroids) + 1 = Cells THEN "assign" ELSE "seed"
      /\ centroids' = Append(centroids, vectors[i]) /\ centroids \in Seq(Places) /\ Len(centroids) < Cells
  BY DEF Seed, FilesOfFlat, FlatTypeOK, Seeded, Cells
<1>2. centroids' \in Seq(Places) /\ Len(centroids') = Len(centroids) + 1 /\ Len(centroids) \in Nat
  BY <1>1, RowsAreNumbered, AppendProperties, LenProperties
<1>3. Cells \in Nat
  BY <1>1, LenProperties, CellsInRange DEF Cells
<1>4. FlatTypeOK'
  BY <1>1, <1>2 DEF FilesOfFlat, FlatTypeOK
<1>5. Seeded'
  BY <1>1, <1>2, <1>3 DEF Seeded
<1> QED BY <1>1, <1>4, <1>5 DEF FilesOfFlat, Kept, ListsHoldNearest

\* There is a cell to begin with.
LEMMA AssignStep ==
    ASSUME FilesOfFlat, Assign
    PROVE  FilesOfFlat'
<1>1. /\ vectors' = vectors /\ vectors \in Seq(Places) /\ index' = index /\ index = "ivf" /\ vectors # <<>>
      /\ answer' = answer /\ answer = NoAnswer /\ Cells' = Cells /\ step' = "move" /\ cell' = 1
      /\ centroids' = centroids /\ centroids \in Seq(Places) /\ Len(centroids) = Cells
  BY DEF Assign, FilesOfFlat, FlatTypeOK, Seeded, Cells
<1>2. Cells \in Nat /\ Cells >= 1
  BY <1>1, LenProperties, EmptySeq, CellsInRange DEF Cells
<1>3. FlatTypeOK'
  BY <1>1 DEF FilesOfFlat, FlatTypeOK
<1>4. Seeded'
  BY <1>1, <1>2 DEF Seeded
<1> QED BY <1>1, <1>3, <1>4 DEF FilesOfFlat, Kept, ListsHoldNearest

\* A centroid takes the place of one.
LEMMA MoveStep ==
    ASSUME FilesOfFlat, NEW p \in Places, Move(p)
    PROVE  FilesOfFlat'
<1>1. /\ vectors' = vectors /\ vectors \in Seq(Places) /\ index' = index /\ index = "ivf" /\ vectors # <<>>
      /\ answer' = answer /\ answer = NoAnswer /\ Cells' = Cells /\ step' \in {"move", "assign", "permute"}
      /\ centroids' = [centroids EXCEPT ![cell] = p] /\ cell \in 1..Len(centroids)
      /\ centroids \in Seq(Places) /\ Len(centroids) = Cells
  BY DEF Move, FilesOfFlat, FlatTypeOK, Seeded, Cells
<1>2. centroids' \in Seq(Places) /\ Len(centroids') = Len(centroids)
  BY <1>1, ExceptSeq
<1>3. FlatTypeOK'
  BY <1>1, <1>2 DEF FilesOfFlat, FlatTypeOK
<1>4. step' = "move" => cell' \in 1..Cells
  <2>1. Cells \in Nat /\ cell \in 1..Cells
    BY <1>1, LenProperties
  <2>2. step' = "move" => cell < Cells /\ cell' = cell + 1
    BY DEF Move
  <2> QED BY <2>1, <2>2
<1>5. Seeded'
  BY <1>1, <1>2, <1>4 DEF Seeded
<1> QED BY <1>1, <1>3, <1>5 DEF FilesOfFlat, Kept, ListsHoldNearest

\* The slices are those of the cells with the nearest centroids.
LEMMA PermuteStep ==
    ASSUME FilesOfFlat, Permute
    PROVE  FilesOfFlat'
<1>1. /\ vectors' = vectors /\ vectors \in Seq(Places) /\ index' = index /\ index = "ivf" /\ vectors # <<>>
      /\ answer' = answer /\ answer = NoAnswer /\ Cells' = Cells /\ step' = "built" /\ Rows' = Rows
      /\ centroids' = centroids /\ centroids \in Seq(Places) /\ Len(centroids) = Cells
  BY DEF Permute, FilesOfFlat, FlatTypeOK, Seeded, Cells, Rows
<1>2. PICK N \in Nat, K \in Nat : N = Len(vectors) /\ Rows = 1..N /\ K = Cells /\ K >= 1
  BY <1>1, RowsAreNumbered, LenProperties, EmptySeq, CellsInRange DEF Cells
<1>3. centroids # <<>>
  BY <1>1, <1>2, EmptySeq
<1>4. PICK c, s, o : c = cells' /\ s = ids' /\ o = offsets'
  OBVIOUS
<1>5. c = [i \in 1..N |-> CellOf(i)]
  BY <1>2, <1>4 DEF Permute, Assigned
<1>6. ASSUME NEW i \in 1..N
      PROVE  /\ c[i] \in 1..K
             /\ \A d \in 1..K : CosineDistance[<<vectors[i], centroids[c[i]]>>]
                                  <= CosineDistance[<<vectors[i], centroids[d]>>]
  <2>1. i \in Rows /\ c[i] = CellOf(i)
    BY <1>2, <1>5
  <2>2. /\ CellOf(i) \in 1..Len(centroids)
        /\ \A d \in 1..Len(centroids) :
              CosineDistance[<<vectors[i], centroids[CellOf(i)]>>]
                 <= CosineDistance[<<vectors[i], centroids[d]>>]
    BY <1>1, <1>3, <2>1, CellIsNearest
  <2> QED BY <1>1, <1>2, <2>1, <2>2
<1>7. c \in [1..N -> 1..K]
  BY <1>5, <1>6
<1>8. s = ByCells(1..N, c)
  <2>1. ids' = ByCells(Rows, cells')
    BY DEF Permute, ByCells
  <2> QED BY <1>2, <1>4, <2>1
<1>9. o = Begins(N, K, c)
  BY <1>2, <1>4 DEF Permute, Begins, Below
<1>10. Sliced(N, K, c, s, o)
  BY <1>7, <1>8, <1>9, SortedBySlices
<1>11. FlatTypeOK'
  BY <1>1 DEF FilesOfFlat, FlatTypeOK
<1>12. Seeded'
  BY <1>1, <1>2 DEF Seeded
<1>13. \A d \in 1..K : Slice(d)' = o[d] + 1..o[d + 1]
  BY <1>4 DEF Slice
<1>14. Kept'
  <2>1. \A d \in 1..K : Slice(d)' \subseteq 1..N
    BY <1>10, <1>13 DEF Sliced
  <2> QED BY <1>1, <1>2, <1>4, <1>10, <2>1 DEF Kept, Sliced
<1>15. ListsHoldNearest'
  <2>1. {s[n] : n \in DOMAIN s} = 1..N /\ Len(s) = N
    <3>1. s \in [1..N -> 1..N] /\ ToSet(s) = 1..N
      BY <1>10 DEF Sliced
    <3> QED BY <3>1, Listed DEF ToSet
  <2>2. o[1] = 0 /\ o[K + 1] = N /\ \A d \in 1..K : o[d] <= o[d + 1]
    BY <1>10 DEF Sliced
  <2>3. ASSUME NEW d \in 1..K, NEW e \in 1..K, NEW n \in o[d] + 1..o[d + 1]
        PROVE  CosineDistance[<<vectors[s[n]], centroids[d]>>] <= CosineDistance[<<vectors[s[n]], centroids[e]>>]
    <3>1. s[n] \in 1..N /\ c[s[n]] = d
      BY <1>10 DEF Sliced
    <3> QED BY <1>6, <3>1
  <2>4. {ids'[n] : n \in DOMAIN ids'} = Rows' /\ offsets'[1] = 0 /\ offsets'[Cells' + 1] = Len(ids')
    BY <1>1, <1>2, <1>4, <2>1, <2>2
  <2>5. \A d \in 1..Cells' : offsets'[d] <= offsets'[d + 1]
    BY <1>1, <1>2, <1>4, <2>2
  <2>6. \A d, e \in 1..Cells' : \A n \in Slice(d)' :
          CosineDistance[<<vectors'[ids'[n]], centroids'[d]>>]
             <= CosineDistance[<<vectors'[ids'[n]], centroids'[e]>>]
    <3> SUFFICES ASSUME NEW d \in 1..K, NEW e \in 1..K, NEW n \in Slice(d)'
                 PROVE  CosineDistance[<<vectors'[ids'[n]], centroids'[d]>>]
                          <= CosineDistance[<<vectors'[ids'[n]], centroids'[e]>>]
      BY <1>1, <1>2
    <3>1. n \in o[d] + 1..o[d + 1]
      BY <1>13
    <3>2. vectors'[ids'[n]] = vectors[s[n]] /\ centroids' = centroids
      BY <1>1, <1>4
    <3> QED BY <2>3, <3>1, <3>2
  <2> QED BY <2>4, <2>5, <2>6 DEF ListsHoldNearest
<1> QED BY <1>11, <1>12, <1>14, <1>15 DEF FilesOfFlat

\* What a search reads stays as it is.
LEMMA SearchStep ==
    ASSUME FilesOfFlat,
           UNCHANGED <<index, vectors, centroids, cell, step, ids, offsets>>,
           answer' # NoAnswer => answer'.query \in Searches /\ step = "built"
    PROVE  FilesOfFlat'
<1>1. Cells' = Cells /\ Rows' = Rows /\ \A c : Slice(c)' = Slice(c)
  BY DEF Cells, Rows, Slice
<1>2. FlatTypeOK' /\ Seeded'
  BY <1>1 DEF FilesOfFlat, FlatTypeOK, Seeded
<1>3. Kept' /\ ListsHoldNearest'
  BY <1>1 DEF FilesOfFlat, Kept, ListsHoldNearest
<1> QED BY <1>2, <1>3 DEF FilesOfFlat

\* FilesOfFlat is kept by every step of the flat indexes.
LEMMA FlatSteps ==
    ASSUME FilesOfFlat, FlatNext \/ UNCHANGED flatVars
    PROVE  FilesOfFlat'
<1>1. CASE \E name \in {"brute", "ivf"}, v \in Corpora : Build(name, v)
  BY <1>1, BuildStep
<1>2. CASE \E i \in Rows : Seed(i)
  BY <1>2, SeedStep
<1>3. CASE Assign
  BY <1>3, AssignStep
<1>4. CASE \E p \in Places : Move(p)
  BY <1>4, MoveStep
<1>5. CASE Permute
  BY <1>5, PermuteStep
<1>6. CASE \E q \in Searches : Ask(q)
  <2>1. PICK q \in Searches : Ask(q)
    BY <1>6
  <2>2. answer'.query = q /\ step = "built" /\ UNCHANGED <<index, vectors, centroids, cell, step, ids, offsets>>
    BY <2>1 DEF Ask
  <2> QED BY <2>2, SearchStep
<1>7. CASE Take
  <2>1. answer' = NoAnswer /\ UNCHANGED <<index, vectors, centroids, cell, step, ids, offsets>>
    BY <1>7 DEF Take
  <2> QED BY <2>1, SearchStep
<1>8. CASE UNCHANGED flatVars
  <2>1. UNCHANGED <<index, vectors, centroids, cell, step, ids, offsets, answer>>
    BY <1>8 DEF flatVars
  <2>2. answer # NoAnswer => answer.query \in Searches /\ step = "built"
    BY DEF FilesOfFlat, FlatTypeOK
  <2> QED BY <2>1, <2>2, SearchStep
<1> QED BY <1>1, <1>2, <1>3, <1>4, <1>5, <1>6, <1>7, <1>8 DEF FlatNext

\* The elements of S by increasing value of far, the lower key first where it is equal.
Sooner(far, key, S) == {e \in S \X S : far[e[1]] < far[e[2]] \/ (far[e[1]] = far[e[2]] /\ key[e[1]] < key[e[2]])}

\* They can be sorted that way.
LEMMA SoonerSorts ==
    ASSUME NEW S, IsFiniteSet(S), NEW far, \A x \in S : far[x] \in Nat,
           NEW key, \A x \in S : key[x] \in Nat, \A x, y \in S : key[x] = key[y] => x = y
    PROVE  Sorts(Sorting(Sooner(far, key, S), S), S, far)
<1>1. PICK R : R = Sooner(far, key, S)
  OBVIOUS
<1>2. \A x, y \in S : <<x, y>> \in R <=> far[x] < far[y] \/ (far[x] = far[y] /\ key[x] < key[y])
  BY <1>1 DEF Sooner
<1>3. Orders(R, S)
  <2>1. \A i \in S : <<i, i>> \notin R
    BY <1>2
  <2>2. ASSUME NEW i \in S, NEW j \in S, i # j PROVE <<i, j>> \in R \/ <<j, i>> \in R
    <3>1. far[i] \in Nat /\ far[j] \in Nat /\ key[i] \in Nat /\ key[j] \in Nat /\ key[i] # key[j]
      BY <2>2
    <3> QED BY <1>2, <3>1
  <2>3. \A i, j, k \in S : <<i, j>> \in R /\ <<j, k>> \in R => <<i, k>> \in R
    BY <1>2
  <2> QED BY <2>1, <2>2, <2>3 DEF Orders
<1>4. PICK s, N : s = Sorting(R, S) /\ N = Cardinality(S)
  OBVIOUS
<1>5. /\ N \in Nat /\ s \in [1..N -> S] /\ IsInjective(s) /\ ToSet(s) = S
      /\ \A m, n \in 1..N : <<s[m], s[n]>> \in R <=> m < n
  BY <1>3, <1>4, SortingSorts
<1>6. ASSUME NEW m \in 1..N, NEW n \in 1..N, m < n PROVE far[s[m]] <= far[s[n]]
  <2>1. s[m] \in S /\ s[n] \in S /\ <<s[m], s[n]>> \in R
    BY <1>5, <1>6
  <2> QED BY <1>2, <2>1
<1> QED BY <1>1, <1>4, <1>5, <1>6 DEF Sorts

\* That is how they are ordered.
LEMMA OrderedSorts ==
    ASSUME NEW S, IsFiniteSet(S), NEW far, \A x \in S : far[x] \in Nat,
           NEW key, \A x \in S : key[x] \in Nat, \A x, y \in S : key[x] = key[y] => x = y
    PROVE  Sorts(Ordered(S, far, key), S, far)
<1> DEFINE before(i) == {j \in S : far[j] < far[i] \/ (far[j] = far[i] /\ key[j] < key[i])}
           Here(n) == CHOOSE i \in S : Cardinality(before(i)) = n - 1
<1>1. PICK R : R = Sooner(far, key, S)
  OBVIOUS
<1> DEFINE There(n) == CHOOSE i \in S : Cardinality({j \in S : <<j, i>> \in R}) = n - 1
<1>2. \A i \in S : before(i) = {j \in S : <<j, i>> \in R}
  BY <1>1 DEF Sooner
<1>3. Ordered(S, far, key) = [n \in 1..Cardinality(S) |-> Here(n)]
  BY DEF Ordered
<1>4. Sorting(R, S) = [n \in 1..Cardinality(S) |-> There(n)]
  BY DEF Sorting
<1>5. \A n : Here(n) = There(n)
  <2> HIDE DEF before
  <2> QED BY <1>2, Zenon
<1>6. Ordered(S, far, key) = Sorting(R, S)
  <2> HIDE DEF Here, There
  <2> QED BY <1>3, <1>4, <1>5
<1> QED BY <1>1, <1>6, SoonerSorts

\* Things by their names.
Named(name, T) == {name[x] : x \in T}
\* The names in that order.
NamesAlong(name, s, N) == [n \in 1..N |-> name[s[n]]]

\* Sorted things are so under other names.
LEMMA Renaming ==
    ASSUME NEW T, IsFiniteSet(T), NEW far, NEW s, Sorts(s, T, far), NEW name, T \subseteq DOMAIN name,
           \A x, y \in T : name[x] = name[y] => x = y,
           NEW other, \A x \in T : other[name[x]] = far[x],
           NEW E, E = Named(name, T), NEW r, r = NamesAlong(name, s, Cardinality(T))
    PROVE  IsFiniteSet(E) /\ Cardinality(E) = Cardinality(T) /\ Sorts(r, E, other)
<1>1. PICK N \in Nat : N = Cardinality(T)
  BY FS_CardinalityType
<1>2. /\ s \in [1..N -> T] /\ \A m, n \in 1..N : s[m] = s[n] => m = n
      /\ \A x \in T : \E n \in 1..N : s[n] = x
      /\ \A m, n \in 1..N : m < n => far[s[m]] <= far[s[n]]
  BY <1>1 DEF Sorts, IsInjective, ToSet
<1>3. r = [n \in 1..N |-> name[s[n]]]
  BY <1>1 DEF NamesAlong
<1>4. \A n \in 1..N : s[n] \in T /\ r[n] = name[s[n]] /\ r[n] \in E
  <2> SUFFICES ASSUME NEW n \in 1..N PROVE s[n] \in T /\ r[n] = name[s[n]] /\ r[n] \in E
    OBVIOUS
  <2>1. s[n] \in T
    BY <1>2
  <2>2. r[n] = name[s[n]]
    BY <1>3
  <2> QED BY <2>1, <2>2 DEF Named
<1>5. r \in [1..N -> E] /\ IsInjective(r) /\ ToSet(r) = E
  <2>1. r \in [1..N -> E] /\ DOMAIN r = 1..N
    BY <1>3, <1>4
  <2>2. ASSUME NEW m \in 1..N, NEW n \in 1..N, r[m] = r[n] PROVE m = n
    BY <1>2, <1>4, <2>2
  <2>3. ASSUME NEW e \in E PROVE \E n \in 1..N : r[n] = e
    <3>1. PICK x \in T : e = name[x]
      BY DEF Named
    <3>2. PICK n \in 1..N : s[n] = x
      BY <1>2
    <3> QED BY <1>4, <3>1, <3>2
  <2>4. IsInjective(r)
    BY <2>1, <2>2 DEF IsInjective
  <2>5. ToSet(r) = E
    BY <1>4, <2>1, <2>3 DEF ToSet
  <2> QED BY <2>1, <2>4, <2>5
<1>6. \A m, n \in 1..N : m < n => other[r[m]] <= other[r[n]]
  <2> SUFFICES ASSUME NEW m \in 1..N, NEW n \in 1..N, m < n PROVE other[r[m]] <= other[r[n]]
    OBVIOUS
  <2>1. s[m] \in T /\ s[n] \in T /\ r[m] = name[s[m]] /\ r[n] = name[s[n]]
    BY <1>2, <1>3
  <2>2. far[s[m]] <= far[s[n]]
    BY <1>2
  <2> QED BY <2>1, <2>2
<1>7. IsFiniteSet(E) /\ Cardinality(E) = N
  <2>1. r \in Seq(E) /\ Len(r) = N
    BY <1>5, Listed
  <2> QED BY <1>5, <2>1, Distinct
<1> QED BY <1>1, <1>5, <1>6, <1>7 DEF Sorts

-----------------------------------------------------------------------------
(* Searches.                                                               *)

\* What a search may ask.
WellAsked(q) ==
    /\ q \in [point : Places, k : Nat \ {0}, effort : Nat \ {0}, filtered : BOOLEAN, admissible : SUBSET Nat]
    /\ IsFiniteSet(q.admissible)

\* The positions whose rows it may find.
Open(q) == IF q.filtered THEN Admitted(q) ELSE Rows

\* The cells that are within its effort.
NearCells(q) ==
    {c \in 1..Cells : Cardinality({d \in 1..Cells : CellFar(q, d) < CellFar(q, c)}) < MinProbes(q)}

\* It looks where it may only, everywhere at full effort, and under a filter for as
\* many as are wanted; in an inverted file no farther than its effort goes without a
\* filter, and with one that far at least.
Suffices(q, C) ==
    /\ C \subseteq Open(q)
    /\ index = "brute" \/ q.effort >= Cells => C = Open(q)
    /\ q.filtered => C = Open(q) \/ Cardinality(C) >= Wanted(q)
    /\ index = "ivf" /\ q.filtered /\ Unambiguous(q) => Span(q, NearCells(q)) \subseteq C
    /\ index = "ivf" /\ ~q.filtered => C \subseteq Span(q, NearCells(q))

\* Every row has its place in the slice of a cell.
LEMMA SlicesMakeUpRows ==
    ASSUME FilesOfFlat, step = "built", index = "ivf"
    PROVE  Cells \in Nat /\ UNION {Slice(c) : c \in 1..Cells} = Rows
<1>1. PICK K \in Nat, N \in Nat : K = Cells /\ N = Len(vectors) /\ Rows = 1..N
  BY RowsAreNumbered, CellsInRange DEF FilesOfFlat, FlatTypeOK, Cells
<1>2. PICK o : o = offsets
  OBVIOUS
<1>3. o \in [1..K + 1 -> Nat] /\ o[1] = 0 /\ o[K + 1] = N
  <2>1. ids \in [1..N -> 1..N]
    BY <1>1 DEF FilesOfFlat, Kept
  <2>2. Len(ids) = N
    BY <2>1, Listed
  <2> QED BY <1>1, <1>2, <2>2 DEF FilesOfFlat, Kept, ListsHoldNearest
<1>4. \A c : Slice(c) = o[c] + 1..o[c + 1]
  BY <1>2 DEF Slice
<1>5. \A c \in 1..K : Slice(c) \subseteq 1..N
  BY <1>1 DEF FilesOfFlat, Kept
<1>6. ASSUME NEW n \in 1..N PROVE \E c \in 1..K : n \in o[c] + 1..o[c + 1]
  <2>1. PICK T : T = {d \in 0..K : n <= o[d + 1] => \E c \in 1..K : n \in o[c] + 1..o[c + 1]}
    OBVIOUS
  <2>2. 0 \in T
    BY <1>3, <2>1
  <2>3. ASSUME NEW d \in 1..K, d - 1 \in T PROVE d \in T
    <3>1. d - 1 + 1 = d /\ d \in 0..K
      OBVIOUS
    <3>2. n <= o[d] => \E c \in 1..K : n \in o[c] + 1..o[c + 1]
      BY <2>1, <2>3, <3>1
    <3>3. o[d] \in Nat /\ o[d + 1] \in Nat
      BY <1>3
    <3>4. n <= o[d] \/ ~(n <= o[d + 1]) \/ n \in o[d] + 1..o[d + 1]
      BY <3>3
    <3> QED BY <2>1, <3>1, <3>2, <3>4
  <2>4. \A d \in 0..K : d \in T
    BY <2>2, <2>3, Counting
  <2>5. K \in T
    BY <2>4
  <2> QED BY <1>3, <2>1, <2>5
<1> QED BY <1>1, <1>4, <1>5, <1>6

\* The cells are some way off.
LEMMA CellsAreFar ==
    ASSUME FilesOfFlat, step = "built", index = "ivf", NEW q, WellAsked(q)
    PROVE  /\ Cells \in Nat /\ (\A c \in 1..Cells : CellFar(q, c) \in Nat)
           /\ MinProbes(q) \in 0..Cells /\ (q.effort >= Cells => MinProbes(q) = Cells)
<1>1. PICK K \in Nat : K = Cells
  BY SlicesMakeUpRows
<1>2. centroids \in Seq(Places) /\ Len(centroids) = K
  BY <1>1 DEF FilesOfFlat, FlatTypeOK, Kept
<1>3. ASSUME NEW c \in 1..K PROVE CellFar(q, c) \in Nat
  <2>1. <<q.point, centroids[c]>> \in Places \X Places
    BY <1>2, ElementOfSeq DEF WellAsked
  <2> QED BY <2>1, FlatAssumption DEF CellFar
<1>4. MinProbes(q) \in 0..K /\ (q.effort >= K => MinProbes(q) = K)
  BY <1>1 DEF MinProbes, AtMost, WellAsked
<1> QED BY <1>1, <1>3, <1>4

\* The nearest cells are within the effort.
LEMMA NearestAreNear ==
    ASSUME FilesOfFlat, step = "built", index = "ivf", NEW q, WellAsked(q),
           NEW P \in NearestSets(1..Cells, MinProbes(q), [c \in 1..Cells |-> CellFar(q, c)])
    PROVE  P \subseteq NearCells(q)
<1>1. PICK K \in Nat, n \in Nat : K = Cells /\ n = MinProbes(q) /\ \A c \in 1..K : CellFar(q, c) \in Nat
  BY CellsAreFar
<1>2. P \subseteq 1..K /\ Cardinality(P) = n /\ \A c \in P, d \in (1..K) \ P : CellFar(q, c) <= CellFar(q, d)
  BY <1>1 DEF NearestSets
<1>3. IsFiniteSet(P)
  BY <1>2, Counted, FS_Subset
<1>4. ASSUME NEW c \in P PROVE c \in NearCells(q)
  <2>1. PICK B : B = {d \in 1..K : CellFar(q, d) < CellFar(q, c)}
    OBVIOUS
  <2>2. B \subseteq P /\ c \notin B
    BY <1>1, <1>2, <2>1
  <2>3. Cardinality(B) <= Cardinality(P) /\ Cardinality(B) # Cardinality(P) /\ IsFiniteSet(B)
    BY <1>3, <2>2, FS_Subset
  <2>4. Cardinality(B) \in Nat /\ Cardinality(B) < n
    BY <1>1, <1>2, <2>3, FS_CardinalityType
  <2> QED BY <1>1, <1>2, <2>1, <2>4 DEF NearCells
<1> QED BY <1>4

\* The cells are all in o, none nearer than those before it.
Outward(far, o, K) ==
    /\ o \in [1..K -> 1..K] /\ IsInjective(o) /\ \A c \in 1..K : \E n \in 1..K : o[n] = c
    /\ \A n \in 1..K - 1 : far[o[n]] <= far[o[n + 1]]

\* Those that fewer than p are nearer than.
Nearby(far, K, p) == {c \in 1..K : Cardinality({d \in 1..K : far[d] < far[c]}) < p}

\* In such a list, no cell is nearer than any before it.
LEMMA OutwardAll ==
    ASSUME NEW K \in Nat, NEW far \in [1..K -> Nat], NEW o, Outward(far, o, K),
           NEW i \in 1..K, NEW n \in 1..K, i <= n
    PROVE  far[o[i]] <= far[o[n]]
<1>1. \A m \in 1..K : o[m] \in 1..K /\ far[o[m]] \in Nat
  BY DEF Outward
<1>2. PICK T : T = {m \in 0..K : i <= m => far[o[i]] <= far[o[m]]}
  OBVIOUS
<1>3. 0 \in T
  BY <1>2
<1>4. ASSUME NEW m \in 1..K, m - 1 \in T PROVE m \in T
  <2>1. CASE m <= i
    <3>1. i <= m => i = m
      BY <2>1
    <3> QED BY <1>1, <1>2, <3>1
  <2>2. CASE ~(m <= i)
    <3>1. PICK k : k = m - 1 /\ k \in 1..K - 1 /\ k \in 1..K /\ i <= k /\ k + 1 = m
      BY <2>2
    <3>2. far[o[i]] <= far[o[k]] /\ far[o[k]] <= far[o[m]]
      BY <1>2, <1>4, <3>1 DEF Outward
    <3> QED BY <1>1, <1>2, <3>1, <3>2
  <2> QED BY <2>1, <2>2
<1>5. \A m \in 0..K : m \in T
  BY <1>3, <1>4, Counting
<1>6. n \in T
  BY <1>5
<1> QED BY <1>2, <1>6

\* If no two are equally far, those nearby come first.
LEMMA NearbyComeFirst ==
    ASSUME NEW K \in Nat, NEW far \in [1..K -> Nat], NEW o, Outward(far, o, K),
           \A c, d \in 1..K : far[c] = far[d] => c = d,
           NEW l \in 0..K, NEW p \in Nat, l >= p
    PROVE  Nearby(far, K, p) \subseteq Part(o, 1, l)
<1> SUFFICES ASSUME NEW c \in Nearby(far, K, p) PROVE c \in Part(o, 1, l)
  OBVIOUS
<1>1. c \in 1..K /\ o \in [1..K -> 1..K] /\ IsInjective(o) /\ \A m, n \in 1..K : o[m] = o[n] => m = n
  BY DEF Nearby, Outward, IsInjective
<1>2. PICK B : B = {d \in 1..K : far[d] < far[c]} /\ Cardinality(B) < p
  BY DEF Nearby
<1>3. PICK n \in 1..K : o[n] = c
  BY <1>1 DEF Outward
<1> SUFFICES ASSUME ~(n <= l) PROVE FALSE
  BY <1>3 DEF Part
<1>4. \A i \in 1..l : i \in 1..K /\ i <= n /\ i # n
  OBVIOUS
<1>5. ASSUME NEW i \in 1..l PROVE o[i] \in B
  <2>1. o[i] \in 1..K /\ o[i] # c
    BY <1>1, <1>3, <1>4
  <2>2. far[o[i]] <= far[o[n]]
    BY <1>4, OutwardAll
  <2>3. far[o[i]] # far[c] /\ far[o[i]] \in Nat /\ far[c] \in Nat
    BY <1>1, <2>1
  <2> QED BY <1>2, <1>3, <2>1, <2>2, <2>3
<1>6. PICK A : A = Part(o, 1, l)
  OBVIOUS
<1>7. A \subseteq B
  BY <1>5, <1>6 DEF Part
<1>8. Cardinality(A) = l
  <2>1. \A m \in 0..K : IsFiniteSet(Part(o, 1, m)) /\ Cardinality(Part(o, 1, m)) = m
    BY <1>1, Beginning
  <2> QED BY <1>6, <2>1
<1>9. IsFiniteSet(B)
  <2>1. B \subseteq 1..K /\ IsFiniteSet(1..K)
    BY <1>2, Counted
  <2> QED BY <2>1, FS_Subset
<1>10. Cardinality(A) <= Cardinality(B) /\ Cardinality(B) \in Nat
  BY <1>7, <1>9, FS_Subset, FS_CardinalityType
<1> QED BY <1>2, <1>8, <1>10

\* Candidates are sufficient, in an inverted file because of how long it probes.
LEMMA CandidatesSuffice ==
    ASSUME FilesOfFlat, step = "built", NEW q, WellAsked(q), NEW C \in Candidates(q)
    PROVE  Suffices(q, C)
<1>1. index \in {"brute", "ivf"}
  BY DEF FilesOfFlat, FlatTypeOK, Seeded
<1>2. CASE index = "brute"
  BY <1>2 DEF Candidates, Suffices, Open
<1>3. CASE index = "ivf"
  <2>1. PICK P \in Probes(q) : C = Span(q, P)
    BY <1>3 DEF Candidates
  <2>2. PICK K \in Nat : K = Cells /\ UNION {Slice(c) : c \in 1..K} = Rows
    BY <1>3, SlicesMakeUpRows
  <2>3. Rows = DOMAIN ids
    BY DEF FilesOfFlat, Kept
  <2>4. C \subseteq Open(q)
    BY <2>1 DEF Span, Open
  <2>5. Span(q, 1..K) = Open(q)
    BY <2>2, <2>3 DEF Span, Open, Admitted
  <2>6. MinProbes(q) \in 0..K /\ (q.effort >= K => MinProbes(q) = K)
    BY <1>3, <2>2, CellsAreFar
  <2>7. CASE q.filtered
    <3>1. P \in ProbeUntilK(q)
      BY <2>1, <2>7 DEF Probes
    <3>2. PICK o \in {s \in SetToSeqs(1..K) : \A n \in 1..K - 1 : CellFar(q, s[n]) <= CellFar(q, s[n + 1])} :
            P = {o[n] : n \in 1..Least({K} \union {m \in 1..K : Stops(q, o, m)})}
      BY <2>2, <3>1 DEF ProbeUntilK
    <3>3. PICK l : l = Least({K} \union {m \in 1..K : Stops(q, o, m)})
      OBVIOUS
    <3>4. l = K \/ (l \in 1..K /\ Stops(q, o, l))
      <4>1. PICK W : W = {K} \union {m \in 1..K : Stops(q, o, m)}
        OBVIOUS
      <4>2. W \subseteq Nat /\ W # {}
        BY <4>1
      <4>3. PICK g : g = [y \in W |-> y]
        OBVIOUS
      <4>4. g \in [W -> Nat]
        BY <4>2, <4>3
      <4>5. \E x \in W : \A y \in W : x <= y
        <5>1. \E x \in W : \A y \in W : g[x] <= g[y]
          BY <4>2, <4>4, HasLeast
        <5> QED BY <4>3, <5>1
      <4>6. Least(W) \in W
        BY <4>5 DEF Least
      <4> QED BY <3>3, <4>1, <4>6
    <3>5. P = {o[n] : n \in 1..l}
      BY <3>2, <3>3
    <3>6. o \in [1..K -> 1..K] /\ IsInjective(o) /\ \A c \in 1..K : \E n \in 1..K : o[n] = c
      <4>1. Cardinality(1..K) = K /\ IsFiniteSet(1..K)
        BY Counted
      <4>2. o \in [1..K -> 1..K] /\ \A i, j \in 1..K : i # j => o[i] # o[j]
        BY <4>1 DEF SetToSeqs
      <4>3. IsInjective(o) /\ o \in Injection(1..K, 1..K)
        BY <4>2 DEF Injection, IsInjective
      <4>4. o \in Surjection(1..K, 1..K)
        BY <4>1, <4>3, FS_Injection
      <4>5. \A c \in 1..K : \E n \in 1..K : o[n] = c
        BY <4>4 DEF Surjection
      <4> QED BY <4>2, <4>3, <4>5
    <3>7. l = K => C = Open(q)
      <4>1. {o[n] : n \in 1..K} = 1..K
        BY <3>6
      <4> QED BY <2>1, <2>5, <3>5, <4>1
    <3>8. l # K => l >= MinProbes(q) /\ Cardinality(C) >= Wanted(q)
      BY <2>1, <3>4, <3>5 DEF Stops
    <3>9. q.effort >= K => l = K
      BY <2>6, <3>4, <3>8
    <3>10. ASSUME Unambiguous(q) PROVE Span(q, NearCells(q)) \subseteq C
      <4>1. l \in 0..K /\ l >= MinProbes(q) /\ MinProbes(q) \in Nat
        BY <2>6, <3>4, <3>8
      <4>2. PICK far : far = [c \in 1..K |-> CellFar(q, c)]
        OBVIOUS
      <4>3. far \in [1..K -> Nat] /\ \A c \in 1..K : far[c] = CellFar(q, c)
        BY <1>3, <2>2, <4>2, CellsAreFar
      <4>4. \A c, d \in 1..K : far[c] = far[d] => c = d
        BY <1>3, <2>2, <3>10, <4>3 DEF Unambiguous
      <4>5. Outward(far, o, K)
        <5>1. \A n \in 1..K - 1 : CellFar(q, o[n]) <= CellFar(q, o[n + 1])
          BY <3>2
        <5>2. \A n \in 1..K - 1 : far[o[n]] <= far[o[n + 1]]
          <6> SUFFICES ASSUME NEW n \in 1..K - 1 PROVE far[o[n]] <= far[o[n + 1]]
            OBVIOUS
          <6>1. n \in 1..K /\ n + 1 \in 1..K
            OBVIOUS
          <6>2. o[n] \in 1..K /\ o[n + 1] \in 1..K
            BY <3>6, <6>1
          <6> QED BY <4>3, <5>1, <6>2
        <5> QED BY <3>6, <5>2 DEF Outward
      <4>6. NearCells(q) = Nearby(far, K, MinProbes(q))
        <5>1. \A c \in 1..K : {d \in 1..K : CellFar(q, d) < CellFar(q, c)} = {d \in 1..K : far[d] < far[c]}
          BY <4>3
        <5> QED BY <2>2, <5>1 DEF NearCells, Nearby
      <4>7. NearCells(q) \subseteq P
        <5>1. PICK p \in Nat : p = MinProbes(q) /\ l >= p
          BY <4>1
        <5>2. l \in 0..K
          BY <4>1
        <5>3. far \in [1..K -> Nat]
          BY <4>3
        <5>4. Nearby(far, K, p) \subseteq Part(o, 1, l)
          BY <4>4, <4>5, <5>1, <5>2, <5>3, NearbyComeFirst
        <5> QED BY <3>5, <4>6, <5>1, <5>4 DEF Part
      <4> QED BY <2>1, <4>7 DEF Span
    <3> QED BY <1>3, <2>2, <2>4, <2>7, <3>7, <3>8, <3>9, <3>10 DEF Suffices
  <2>8. CASE ~q.filtered
    <3>1. P \in SUBSET (1..K) /\ Cardinality(P) = MinProbes(q)
      BY <2>1, <2>2, <2>8 DEF Probes, NearestSets
    <3>2. q.effort >= K => P = 1..K
      <4>1. IsFiniteSet(1..K) /\ Cardinality(1..K) = K
        BY Counted
      <4> QED BY <2>6, <3>1, <4>1, FS_Subset
    <3>3. q.effort >= K => C = Open(q)
      BY <2>1, <2>5, <3>2
    <3>4. P \subseteq NearCells(q)
      BY <1>3, <2>1, <2>8, NearestAreNear DEF Probes
    <3>5. C \subseteq Span(q, NearCells(q))
      BY <2>1, <3>4 DEF Span
    <3> QED BY <1>3, <2>2, <2>4, <2>8, <3>3, <3>5 DEF Suffices
  <2> QED BY <2>7, <2>8
<1> QED BY <1>1, <1>2, <1>3

\* How far each row is.
FarOf(q) == [i \in Rows |-> CosineDistance[<<q.point, vectors[i]>>]]

\* Every row has one position, which has one row.
LEMMA RowsHavePlaces ==
    ASSUME FilesOfFlat, step = "built", NEW q, WellAsked(q)
    PROVE  /\ Rows = 1..Len(ids) /\ Len(ids) = Len(vectors) /\ Len(vectors) \in Nat
           /\ IsFiniteSet(Rows) /\ Cardinality(Rows) = Len(ids) /\ DOMAIN ids = Rows
           /\ ids \in [Rows -> Rows] /\ (\A m, n \in Rows : ids[m] = ids[n] => m = n) /\ Named(ids, Rows) = Rows
           /\ \A i \in Rows : FarOf(q)[i] \in Nat
           /\ \A n \in Rows : Far(q, n) = FarOf(q)[ids[n]]
<1>1. PICK N \in Nat : N = Len(vectors) /\ Rows = 1..N /\ \A i \in Rows : vectors[i] \in Places
  BY RowsAreNumbered DEF FilesOfFlat, FlatTypeOK
<1>2. ids \in [Rows -> Rows] /\ IsInjective(ids) /\ ToSet(ids) = Rows
  BY DEF FilesOfFlat, Kept
<1>3. Len(ids) = N
  BY <1>1, <1>2, Listed
<1>4. Named(ids, Rows) = Rows /\ \A m, n \in Rows : ids[m] = ids[n] => m = n
  BY <1>2 DEF Named, ToSet, IsInjective
<1>5. \A i \in Rows : FarOf(q)[i] \in Nat
  <2> SUFFICES ASSUME NEW i \in Rows PROVE CosineDistance[<<q.point, vectors[i]>>] \in Nat
    BY DEF FarOf
  <2>1. <<q.point, vectors[i]>> \in Places \X Places
    BY <1>1 DEF WellAsked
  <2> QED BY <2>1, FlatAssumption
<1>6. \A n \in Rows : Far(q, n) = FarOf(q)[ids[n]]
  BY <1>2 DEF Far, FarOf
<1>7. IsFiniteSet(Rows) /\ Cardinality(Rows) = N
  BY <1>1, Counted
<1> QED BY <1>1, <1>2, <1>3, <1>4, <1>5, <1>6, <1>7

\* What the search puts in order is sorted.
LEMMA InOrderSorts ==
    ASSUME FilesOfFlat, step = "built", NEW q, WellAsked(q), NEW T, T \subseteq Rows,
           NEW E, E = Named(ids, T)
    PROVE  IsFiniteSet(T) /\ IsFiniteSet(E) /\ Cardinality(E) = Cardinality(T) /\ Sorts(InOrder(q, T), E, FarOf(q))
<1>1. /\ DOMAIN ids = Rows /\ \A m \in T : ids[m] \in Nat
      /\ \A m, n \in T : ids[m] = ids[n] => m = n
      /\ \A n \in T : Far(q, n) = FarOf(q)[ids[n]] /\ FarOf(q)[ids[n]] \in Nat
  BY RowsHavePlaces
<1>2. IsFiniteSet(T)
  BY RowsHavePlaces, FS_Subset
<1>3. PICK far : far = [n \in T |-> Far(q, n)]
  OBVIOUS
<1>4. \A n \in T : far[n] = Far(q, n) /\ far[n] \in Nat /\ FarOf(q)[ids[n]] = far[n]
  BY <1>1, <1>3
<1>5. PICK s : s = Ordered(T, far, ids)
  OBVIOUS
<1>6. Sorts(s, T, far)
  BY <1>1, <1>2, <1>4, <1>5, OrderedSorts
<1>7. InOrder(q, T) = NamesAlong(ids, s, Cardinality(T))
  <2>1. DOMAIN s = 1..Cardinality(T)
    BY <1>6 DEF Sorts
  <2>2. InOrder(q, T) = [n \in DOMAIN s |-> ids[s[n]]]
    BY <1>3, <1>5 DEF InOrder
  <2> QED BY <2>1, <2>2 DEF NamesAlong
<1> QED BY <1>1, <1>2, <1>4, <1>6, <1>7, Renaming

\* The rows that may be found.
Allowed(q) == IF q.filtered THEN q.admissible \intersect Rows ELSE Rows

\* They are those of the positions that may be.
LEMMA OpenAllows ==
    ASSUME FilesOfFlat, step = "built", NEW q, WellAsked(q)
    PROVE  /\ Named(ids, Open(q)) = Allowed(q) /\ IsFiniteSet(Allowed(q))
           /\ IsFiniteSet(Open(q)) /\ Cardinality(Open(q)) = Cardinality(Allowed(q))
           /\ Cardinality(Open(q)) \in Nat /\ Cardinality(Open(q)) <= Len(ids)
<1>1. /\ IsFiniteSet(Rows) /\ Cardinality(Rows) = Len(ids) /\ DOMAIN ids = Rows
      /\ ids \in [Rows -> Rows] /\ Named(ids, Rows) = Rows
  BY RowsHavePlaces
<1>2. Open(q) \subseteq Rows
  BY <1>1 DEF Open, Admitted
<1>3. \A i \in Rows : \E n \in Rows : i = ids[n]
  BY <1>1 DEF Named
<1>4. Named(ids, Open(q)) = Allowed(q)
  <2>1. ASSUME NEW i \in Allowed(q) PROVE i \in Named(ids, Open(q))
    <3>1. i \in Rows /\ (q.filtered => i \in q.admissible)
      BY <2>1 DEF Allowed
    <3>2. PICK n \in Rows : i = ids[n]
      BY <1>3, <3>1
    <3> QED BY <1>1, <3>1, <3>2 DEF Named, Open, Admitted
  <2>2. ASSUME NEW i \in Named(ids, Open(q)) PROVE i \in Allowed(q)
    <3>1. PICK n \in Open(q) : i = ids[n]
      BY <2>2 DEF Named
    <3> QED BY <1>1, <1>2, <3>1 DEF Open, Admitted, Allowed
  <2> QED BY <2>1, <2>2
<1>5. /\ IsFiniteSet(Open(q)) /\ IsFiniteSet(Allowed(q))
      /\ Cardinality(Allowed(q)) = Cardinality(Open(q))
  BY <1>2, <1>4, InOrderSorts
<1> QED BY <1>1, <1>2, <1>4, <1>5, FS_Subset, FS_CardinalityType

\* The rows in the cells within the effort.
Reach(q) == Named(ids, Span(q, NearCells(q)))

\* The rows found, nearest first, are E: as many of the candidates D as are wanted and there
\* are, and no other is nearer.  The candidates are all at full effort, and enough under a filter,
\* where they are those within the effort at least; without one they are no others.
Finds(q, D, E, rows) ==
    /\ D \subseteq Allowed(q)
    /\ index = "brute" \/ q.effort >= Cells => D = Allowed(q)
    /\ q.filtered => D = Allowed(q) \/ Cardinality(D) >= Wanted(q)
    /\ index = "ivf" /\ q.filtered /\ Unambiguous(q) => Reach(q) \subseteq D
    /\ index = "ivf" /\ ~q.filtered => D \subseteq Reach(q)
    /\ E \subseteq D /\ IsFiniteSet(E) /\ Cardinality(E) = AtMost(Wanted(q), Cardinality(D))
    /\ NoneNearer(D, E, FarOf(q))
    /\ Sorts(rows, E, FarOf(q))

\* A search finds the nearest among its candidates.
LEMMA SearchFindsNearest ==
    ASSUME FilesOfFlat, step = "built", NEW q, WellAsked(q), NEW rows \in SearchResults(q)
    PROVE  \E D, E : Finds(q, D, E, rows)
<1>1. PICK C \in Candidates(q) :
        \E T \in NearestSets(C, AtMost(Wanted(q), Cardinality(C)), [n \in C |-> Far(q, n)]) :
           rows = InOrder(q, T)
  BY DEF SearchResults
<1>2. Suffices(q, C)
  BY CandidatesSuffice
<1>3. C \subseteq Rows /\ DOMAIN ids = Rows
  BY <1>2, RowsHavePlaces DEF Suffices, Open, Admitted
<1>4. PICK T : /\ T \in NearestSets(C, AtMost(Wanted(q), Cardinality(C)), [n \in C |-> Far(q, n)])
               /\ rows = InOrder(q, T)
  BY <1>1
<1>5. /\ T \subseteq C /\ Cardinality(T) = AtMost(Wanted(q), Cardinality(C))
      /\ \A x \in T, y \in C \ T : Far(q, x) <= Far(q, y)
  BY <1>4 DEF NearestSets
<1>6. PICK D, E : D = Named(ids, C) /\ E = Named(ids, T)
  OBVIOUS
<1>7. IsFiniteSet(E) /\ Cardinality(E) = Cardinality(T) /\ Sorts(InOrder(q, T), E, FarOf(q))
  BY <1>3, <1>5, <1>6, InOrderSorts
<1>8. Cardinality(D) = Cardinality(C)
  BY <1>3, <1>6, InOrderSorts
<1>9. D \subseteq Allowed(q) /\ (C = Open(q) => D = Allowed(q))
  BY <1>2, <1>6, OpenAllows DEF Suffices, Named
<1>10. E \subseteq D
  BY <1>5, <1>6 DEF Named
<1>11. NoneNearer(D, E, FarOf(q))
  <2> SUFFICES ASSUME NEW x \in E, NEW y \in D \ E PROVE FarOf(q)[x] <= FarOf(q)[y]
    BY DEF NoneNearer
  <2>1. PICK m \in T : x = ids[m]
    BY <1>6 DEF Named
  <2>2. PICK n \in C : y = ids[n]
    BY <1>6 DEF Named
  <2>3. n \notin T
    BY <1>6, <2>2 DEF Named
  <2>4. Far(q, m) <= Far(q, n)
    BY <1>5, <2>3
  <2>5. m \in Rows /\ n \in Rows
    BY <1>3, <1>5
  <2> QED BY <2>1, <2>2, <2>4, <2>5, RowsHavePlaces
<1>12. /\ index = "ivf" /\ q.filtered /\ Unambiguous(q) => Reach(q) \subseteq D
       /\ index = "ivf" /\ ~q.filtered => D \subseteq Reach(q)
  BY <1>2, <1>6 DEF Suffices, Reach, Named
<1>13. Finds(q, D, E, rows)
  BY <1>2, <1>4, <1>5, <1>7, <1>8, <1>9, <1>10, <1>11, <1>12 DEF Finds, Suffices
<1> QED BY <1>13

\* A filter leaves no search short.
LEMMA NoneShort ==
    ASSUME FilesOfFlat, step = "built", NEW q, WellAsked(q), NEW rows, NEW D, NEW E, Finds(q, D, E, rows),
           q.filtered
    PROVE  /\ Len(rows) = AtMost(q.k, Cardinality(q.admissible \intersect Rows))
           /\ IsInjective(rows)
           /\ ToSet(rows) \subseteq q.admissible
<1>1. PICK n \in Nat : n = Cardinality(E)
  BY FS_CardinalityType DEF Finds
<1>2. rows \in [1..n -> E] /\ IsInjective(rows) /\ ToSet(rows) = E
  BY <1>1 DEF Finds, Sorts
<1>3. Len(rows) = n
  BY <1>2, Listed
<1>4. Allowed(q) = q.admissible \intersect Rows /\ E \subseteq Allowed(q)
  BY DEF Finds, Allowed
<1>5. PICK N \in Nat, A \in Nat : N = Len(ids) /\ A = Cardinality(Allowed(q)) /\ A <= N
  BY RowsHavePlaces, OpenAllows
<1>6. Cardinality(D) \in Nat /\ Cardinality(D) <= A
  <2>1. D \subseteq Allowed(q) /\ IsFiniteSet(Allowed(q))
    BY OpenAllows DEF Finds
  <2> QED BY <1>5, <2>1, FS_Subset, FS_CardinalityType
<1>7. n = AtMost(AtMost(q.k, N), Cardinality(D)) /\ (Cardinality(D) = A \/ Cardinality(D) >= AtMost(q.k, N))
  BY <1>1, <1>5 DEF Finds, Wanted
<1>8. n = AtMost(q.k, A)
  <2>1. q.k \in Nat
    BY DEF WellAsked
  <2> QED BY <1>5, <1>6, <1>7, <2>1 DEF AtMost
<1> QED BY <1>2, <1>3, <1>4, <1>5, <1>8

\* The distances of exact search are those of all rows in order.
LEMMA OracleSorts ==
    ASSUME FilesOfFlat, step = "built", NEW q, WellAsked(q)
    PROVE  \E a : /\ Sorts(a, Allowed(q), FarOf(q))
                  /\ Oracle(q) = [n \in 1..AtMost(q.k, Cardinality(Allowed(q))) |-> FarOf(q)[a[n]]]
<1>1. PICK S : S = Allowed(q)
  OBVIOUS
<1>2. /\ IsFiniteSet(S) /\ S \subseteq Rows /\ \A i \in S : i \in Nat /\ FarOf(q)[i] \in Nat
  <2>1. IsFiniteSet(S) /\ S \subseteq Rows
    BY <1>1, OpenAllows DEF Allowed
  <2>2. \A i \in Rows : i \in Nat /\ FarOf(q)[i] \in Nat
    <3>1. Rows = 1..Len(ids) /\ \A i \in Rows : FarOf(q)[i] \in Nat
      BY RowsHavePlaces
    <3> QED BY <3>1
  <2> QED BY <2>1, <2>2
<1>3. PICK far : far = [i \in S |-> CosineDistance[<<q.point, vectors[i]>>]]
  OBVIOUS
<1>4. \A i \in S : far[i] = FarOf(q)[i] /\ far[i] \in Nat
  BY <1>2, <1>3 DEF FarOf
<1>5. PICK key : key = [i \in S |-> i]
  OBVIOUS
<1>6. \A i \in S : key[i] = i
  BY <1>5
<1>7. PICK a : a = Ordered(S, far, key)
  OBVIOUS
<1>8. Sorts(a, S, far)
  BY <1>2, <1>4, <1>6, <1>7, OrderedSorts
<1>9. Oracle(q) = [n \in 1..AtMost(q.k, Cardinality(S)) |-> far[a[n]]]
  BY <1>1, <1>3, <1>5, <1>7 DEF Oracle, Allowed
<1>10. PICK N \in Nat : N = Cardinality(S)
  BY <1>2, FS_CardinalityType
<1>11. a \in [1..N -> S]
  BY <1>8, <1>10 DEF Sorts
<1>12. \A n \in 1..N : far[a[n]] = FarOf(q)[a[n]]
  BY <1>4, <1>11
<1>13. Sorts(a, S, FarOf(q))
  BY <1>8, <1>10, <1>12 DEF Sorts
<1>14. \A n \in 1..AtMost(q.k, N) : n \in 1..N
  BY <1>10 DEF AtMost, WellAsked
<1>15. Oracle(q) = [n \in 1..AtMost(q.k, N) |-> FarOf(q)[a[n]]]
  BY <1>9, <1>10, <1>12, <1>14
<1> QED BY <1>1, <1>10, <1>13, <1>15

\* At full effort a search has the distances of exact search.
LEMMA FullIsExact ==
    ASSUME FilesOfFlat, step = "built", NEW q, WellAsked(q), NEW rows, NEW D, NEW E, Finds(q, D, E, rows),
           index = "brute" \/ q.effort >= Cells
    PROVE  Oracle(q) = [n \in DOMAIN rows |-> CosineDistance[<<q.point, vectors[rows[n]]>>]]
<1>1. PICK S, far : S = Allowed(q) /\ far = FarOf(q)
  OBVIOUS
<1>2. /\ IsFiniteSet(S) /\ S \subseteq Rows /\ \A i \in S : far[i] \in Nat
  BY <1>1, OpenAllows, RowsHavePlaces DEF Allowed
<1>3. E \subseteq S /\ IsFiniteSet(E) /\ NoneNearer(S, E, far) /\ Sorts(rows, E, far)
  BY <1>1 DEF Finds
<1>4. PICK a : Sorts(a, S, far) /\ Oracle(q) = [n \in 1..AtMost(q.k, Cardinality(S)) |-> far[a[n]]]
  BY <1>1, OracleSorts
<1>5. PICK n \in Nat : n = Cardinality(E)
  BY <1>3, FS_CardinalityType
<1>6. n = AtMost(q.k, Cardinality(S))
  <2>1. PICK N \in Nat, A \in Nat : N = Len(ids) /\ A = Cardinality(S) /\ A <= N
    BY <1>1, RowsHavePlaces, OpenAllows
  <2>2. n = AtMost(AtMost(q.k, N), A) /\ q.k \in Nat
    BY <1>1, <1>5, <2>1 DEF Finds, Wanted, WellAsked
  <2> QED BY <2>1, <2>2 DEF AtMost
<1>7. \A m \in 1..n : far[a[m]] = far[rows[m]]
  BY <1>2, <1>3, <1>4, <1>5, NearestAsFar
<1>8. rows \in [1..n -> E]
  BY <1>3, <1>5 DEF Sorts
<1>9. \A m \in 1..n : far[rows[m]] = CosineDistance[<<q.point, vectors[rows[m]]>>]
  BY <1>1, <1>2, <1>3, <1>8 DEF FarOf
<1>10. Oracle(q) = [m \in 1..n |-> far[a[m]]]
  BY <1>4, <1>6
<1> QED BY <1>7, <1>8, <1>9, <1>10

\* What was answered is what was found.
Answered ==
    answer # NoAnswer =>
        WellAsked(answer.query) /\ \E D, E : Finds(answer.query, D, E, answer.rows)

\* What was found stands as long as what was built.
LEMMA FindsStands ==
    ASSUME UNCHANGED <<index, vectors, centroids, ids, offsets>>,
           NEW q, NEW D, NEW E, NEW rows, Finds(q, D, E, rows)
    PROVE  Finds(q, D, E, rows)'
<1>1. Rows' = Rows /\ Cells' = Cells
  BY DEF Rows, Cells
<1>2. Allowed(q)' = Allowed(q) /\ FarOf(q)' = FarOf(q) /\ Wanted(q)' = Wanted(q) /\ Admitted(q)' = Admitted(q)
  BY <1>1 DEF Allowed, FarOf, Wanted, Admitted
<1>3. \A c : CellFar(q, c)' = CellFar(q, c) /\ Slice(c)' = Slice(c)
  BY DEF CellFar, Slice
<1>4. NearCells(q)' = NearCells(q)
  <2>1. MinProbes(q)' = MinProbes(q)
    BY <1>1 DEF MinProbes
  <2>2. \A c : {d \in 1..Cells' : CellFar(q, d)' < CellFar(q, c)'} = {d \in 1..Cells : CellFar(q, d) < CellFar(q, c)}
    BY <1>1, <1>3
  <2> QED BY <1>1, <2>1, <2>2 DEF NearCells
<1>5. Unambiguous(q)' = Unambiguous(q)
  BY <1>1, <1>3 DEF Unambiguous
<1>6. Span(q, NearCells(q))' = Span(q, NearCells(q))
  BY <1>1, <1>2, <1>3, <1>4 DEF Span
<1>7. Reach(q)' = Reach(q)
  BY <1>6 DEF Reach
<1> QED BY <1>1, <1>2, <1>5, <1>7 DEF Finds

\* A search answers so.
LEMMA AskAnswers ==
    ASSUME FilesOfFlat, NEW q \in Searches, Ask(q)
    PROVE  Answered'
<1>1. PICK rows \in SearchResults(q) : answer' = [query |-> q, rows |-> rows]
  BY DEF Ask
<1>2. step = "built" /\ UNCHANGED <<index, vectors, centroids, ids, offsets>>
  BY DEF Ask
<1>3. WellAsked(q)
  BY FlatAssumption DEF WellAsked
<1>4. PICK D, E : Finds(q, D, E, rows)
  BY <1>2, <1>3, SearchFindsNearest
<1>5. Finds(q, D, E, rows)'
  BY <1>2, <1>4, FindsStands
<1>6. answer'.query = q /\ answer'.rows = rows
  BY <1>1
<1> QED BY <1>3, <1>5, <1>6 DEF Answered, Finds

\* And the answer stands until it is taken.
LEMMA AnswersStand ==
    ASSUME FilesOfFlat, Answered, FlatNext \/ UNCHANGED flatVars
    PROVE  Answered'
<1>1. CASE answer' = NoAnswer
  BY <1>1 DEF Answered
<1>2. CASE \E q \in Searches : Ask(q)
  BY <1>2, AskAnswers
<1>3. CASE answer' = answer /\ answer # NoAnswer
  <2>1. step = "built"
    BY <1>3 DEF FilesOfFlat, FlatTypeOK
  <2>2. UNCHANGED <<index, vectors, centroids, ids, offsets>>
    BY <1>3, <2>1 DEF FlatNext, Build, Seed, Assign, Move, Permute, Ask, Take, flatVars
  <2>3. PICK q : q = answer.query /\ q = answer'.query
    BY <1>3
  <2>4. PICK D, E, rows : Finds(q, D, E, rows) /\ rows = answer.rows /\ rows = answer'.rows
    BY <1>3, <2>3 DEF Answered
  <2>5. WellAsked(q)
    BY <1>3, <2>3 DEF Answered
  <2>6. Finds(q, D, E, rows)'
    BY <2>2, <2>4, FindsStands
  <2> QED BY <1>3, <2>3, <2>4, <2>5, <2>6 DEF Answered
<1>4. answer' = NoAnswer \/ answer' = answer \/ \E q \in Searches : Ask(q)
  BY DEF FlatNext, Build, Seed, Assign, Move, Permute, Take, flatVars
<1> QED BY <1>1, <1>2, <1>3, <1>4

\* Such an answer is sound.
LEMMA AnswersAreSound ==
    ASSUME FilesOfFlat, Answered
    PROVE  FlatSearchIsSound
<1> SUFFICES ASSUME answer # NoAnswer PROVE FlatSearchIsSound
  BY DEF FlatSearchIsSound, NeverShort, FullEffortIsExact
<1>1. PICK q, rows : q = answer.query /\ rows = answer.rows
  OBVIOUS
<1>2. PICK D, E : Finds(q, D, E, rows)
  BY <1>1 DEF Answered
<1>3. step = "built" /\ WellAsked(q)
  BY <1>1 DEF Answered, FilesOfFlat, FlatTypeOK
<1>4. NeverShort
  BY <1>1, <1>2, <1>3, NoneShort DEF NeverShort
<1>5. FullEffortIsExact
  <2>1. index = "brute" \/ q.effort >= Cells =>
          Oracle(q) = [n \in DOMAIN rows |-> CosineDistance[<<q.point, vectors[rows[n]]>>]]
    BY <1>2, <1>3, FullIsExact
  <2> QED BY <1>1, <2>1 DEF FullEffortIsExact
<1> QED BY <1>4, <1>5 DEF FlatSearchIsSound

-----------------------------------------------------------------------------
(* The port.                                                               *)

\* The inductive invariant: what is built is right, and the last answer was found in it.
FlatIInv == FilesOfFlat /\ Answered

\* Every step of the build, of k-means and of a search keeps it, whichever of several
\* possibilities numpy takes.
THEOREM FlatInvariant == PortSpec => []FlatIInv
<1>1. PortInit => FlatIInv
  BY FlatStarts DEF PortInit, FlatIInv, FlatInit, Answered
<1>2. FlatIInv /\ [PortNext]_portVars => FlatIInv'
  <2> SUFFICES ASSUME FlatIInv, [PortNext]_portVars PROVE FlatIInv'
    OBVIOUS
  <2>1. FlatNext \/ UNCHANGED flatVars
    BY DEF PortNext, portVars
  <2> QED BY <2>1, FlatSteps, AnswersStand DEF FlatIInv
<1> QED BY <1>1, <1>2, PTL DEF PortSpec

\* Whenever an inverted file is built, its slices make up the rows and hold each vector with a
\* centroid that is nearest to it: the last assignment of kmeans comes after the last move.
THEOREM FilesAreKept == PortSpec => []ListsHoldNearest
<1>1. FlatIInv => ListsHoldNearest
  BY DEF FlatIInv, FilesOfFlat
<1> QED BY <1>1, FlatInvariant, PTL

\* A filter leaves no search of brute force or of an inverted file short, and at full effort
\* their distances are those of exact search.
THEOREM FlatSearchesAreSound == PortSpec => []FlatSearchIsSound
<1>1. FlatIInv => FlatSearchIsSound
  BY AnswersAreSound DEF FlatIInv
<1> QED BY <1>1, FlatInvariant, PTL

\* What is proved of the graph alone holds behind the port.
THEOREM PortRefinesGraph == PortSpec => Spec
<1>1. PortInit => Init
  BY DEF PortInit
<1>2. [PortNext]_portVars => [Next]_vars
  BY DEF PortNext, portVars
<1> QED BY <1>1, <1>2, PTL DEF PortSpec, Spec

\* Of finitely many rows one is the farthest.
LEMMA HasFarthest ==
    ASSUME NEW T, IsFiniteSet(T), T # {}, T \subseteq Nat, NEW far, \A x \in T : far[x] \in Nat
    PROVE  \E m \in T : \A x \in T : far[x] <= far[m]
<1>1. PICK key : key = [x \in T |-> x]
  OBVIOUS
<1>2. \A x \in T : key[x] = x /\ key[x] \in Nat
  BY <1>1
<1>3. PICK s : Sorts(s, T, far)
  <2>1. \A x, y \in T : key[x] = key[y] => x = y
    BY <1>2
  <2>2. Sorts(Ordered(T, far, key), T, far)
    BY <1>2, <2>1, OrderedSorts
  <2> QED BY <2>2
<1>4. PICK N \in Nat : N = Cardinality(T) /\ N # 0
  BY FS_CardinalityType, FS_EmptySet
<1>5. /\ s \in [1..N -> T] /\ (\A x \in T : \E n \in 1..N : s[n] = x)
      /\ \A m, n \in 1..N : m < n => far[s[m]] <= far[s[n]]
  BY <1>3, <1>4 DEF Sorts, ToSet
<1>6. N \in 1..N /\ s[N] \in T
  BY <1>4, <1>5
<1>7. ASSUME NEW x \in T PROVE far[x] <= far[s[N]]
  <2>1. PICK n \in 1..N : s[n] = x
    BY <1>5
  <2>2. n = N \/ n < N
    OBVIOUS
  <2>3. far[x] \in Nat
    OBVIOUS
  <2> QED BY <1>5, <1>6, <2>1, <2>2, <2>3
<1> QED BY <1>6, <1>7

\* T is among the sets of k of S such that none outside is nearer.
IsNearest(T, S, k, far) == T \subseteq S /\ Cardinality(T) = k /\ NoneNearer(S, T, far)

\* Two of those reach equally far.
LEMMA NearestReachAsFar ==
    ASSUME NEW S, IsFiniteSet(S), NEW k, NEW far, \A x \in S : far[x] \in Nat,
           NEW T, IsNearest(T, S, k, far), NEW U, IsNearest(U, S, k, far), NEW x \in T
    PROVE  \E y \in U : far[x] <= far[y]
<1>1. CASE x \in U
  <2>1. far[x] \in Nat
    BY DEF IsNearest
  <2> QED BY <1>1, <2>1
<1>2. CASE x \notin U
  <2>1. IsFiniteSet(T) /\ T \subseteq S /\ U \subseteq S /\ Cardinality(T) = Cardinality(U)
    BY FS_Subset DEF IsNearest
  <2>2. ~(U \subseteq T)
    BY <1>2, <2>1, FS_Subset
  <2>3. PICK y \in U : y \notin T
    BY <2>2
  <2>4. far[x] <= far[y]
    BY <2>1, <2>3 DEF IsNearest, NoneNearer
  <2> QED BY <2>4
<1> QED BY <1>1, <1>2

\* And if another is as near as one of them, it may take its place.
LEMMA NearestIsOneOfMany ==
    ASSUME NEW S, IsFiniteSet(S), NEW k, NEW far, \A x \in S : far[x] \in Nat,
           NEW T, IsNearest(T, S, k, far), NEW m \in T, NEW i \in S, i \notin T, far[i] <= far[m]
    PROVE  \E U : IsNearest(U, S, k, far) /\ U # T
<1>1. T \subseteq S /\ IsFiniteSet(T) /\ Cardinality(T) = k /\ \A x \in T, y \in S \ T : far[x] <= far[y]
  BY FS_Subset DEF IsNearest, NoneNearer
<1>2. far[i] = far[m] /\ m \in S
  BY <1>1
<1>3. PICK V, U : V = T \ {m} /\ U = V \union {i}
  OBVIOUS
<1>4. Cardinality(U) = k
  <2>1. IsFiniteSet(V) /\ Cardinality(V) = Cardinality(T) - 1
    BY <1>1, <1>3, FS_RemoveElement
  <2>2. Cardinality(U) = Cardinality(V) + 1
    BY <1>3, <2>1, FS_AddElement
  <2>3. Cardinality(T) \in Nat
    BY <1>1, FS_CardinalityType
  <2> QED BY <1>1, <2>1, <2>2, <2>3
<1>5. ASSUME NEW x \in U, NEW y \in S \ U PROVE far[x] <= far[y]
  <2>1. x \in T \/ x = i
    BY <1>3
  <2>2. y = m \/ y \in S \ T
    BY <1>3
  <2>3. far[x] <= far[m]
    BY <1>1, <1>2, <2>1
  <2>4. CASE y = m
    BY <2>3, <2>4
  <2>5. CASE y \in S \ T
    <3>1. far[m] <= far[y] /\ far[m] \in Nat /\ far[x] \in Nat /\ far[y] \in Nat
      BY <1>1, <1>2, <2>1, <2>5
    <3> QED BY <2>3, <3>1
  <2> QED BY <2>2, <2>4, <2>5
<1>6. U \subseteq S /\ U # T
  BY <1>1, <1>3
<1> QED BY <1>4, <1>5, <1>6 DEF IsNearest, NoneNearer

-----------------------------------------------------------------------------
(* Recall.                                                                 *)

\* The truth is any of the sets of k rows such that no other is nearer.
LEMMA TruthsAreNearest ==
    ASSUME FilesOfFlat, step = "built", NEW q, WellAsked(q), NEW T
    PROVE  T \in GroundTruths(q) <=> IsNearest(T, Rows, q.k, FarOf(q))
<1>1. \A i \in Rows : DistanceOf(q, i) = FarOf(q)[i]
  BY DEF DistanceOf, FarOf
<1>2. PICK far : far = [i \in Rows |-> DistanceOf(q, i)]
  OBVIOUS
<1>3. far = FarOf(q)
  BY <1>1, <1>2 DEF FarOf
<1>4. T \in GroundTruths(q) <=> T \in NearestSets(Rows, q.k, far)
  BY <1>2 DEF GroundTruths
<1> QED BY <1>3, <1>4 DEF NearestSets, IsNearest, NoneNearer

\* The threshold is how far each of them reaches.
LEMMA ThresholdIsReach ==
    ASSUME FilesOfFlat, step = "built", NEW q, WellAsked(q), NEW T \in GroundTruths(q)
    PROVE  \E U \in GroundTruths(q) : \E m \in U :
              /\ Threshold(q) = FarOf(q)[m] /\ \A x \in U : FarOf(q)[x] <= FarOf(q)[m]
<1>1. PICK U : U = CHOOSE V \in GroundTruths(q) : TRUE
  OBVIOUS
<1>2. U \in GroundTruths(q)
  BY <1>1
<1>3. PICK far : far = FarOf(q)
  OBVIOUS
<1>4. IsNearest(U, Rows, q.k, far)
  BY <1>2, <1>3, TruthsAreNearest
<1>5. IsFiniteSet(Rows) /\ Rows \subseteq Nat /\ \A i \in Rows : far[i] \in Nat
  <2>1. IsFiniteSet(Rows) /\ Rows = 1..Len(ids) /\ \A i \in Rows : far[i] \in Nat
    BY <1>3, RowsHavePlaces
  <2> QED BY <2>1
<1>6. U \subseteq Rows /\ IsFiniteSet(U) /\ U # {}
  <2>1. U \subseteq Rows /\ Cardinality(U) # 0
    BY <1>4 DEF IsNearest, WellAsked
  <2> QED BY <1>5, <2>1, FS_Subset, FS_EmptySet
<1>7. PICK m \in U : \A x \in U : far[x] <= far[m]
  <2>1. U \subseteq Nat /\ \A x \in U : far[x] \in Nat
    BY <1>5, <1>6
  <2> QED BY <1>6, <2>1, HasFarthest
<1>8. \A i \in U : DistanceOf(q, i) = far[i] /\ far[i] \in Nat
  BY <1>3, <1>5, <1>6 DEF DistanceOf, FarOf
<1>9. PICK V : V = {DistanceOf(q, i) : i \in U}
  OBVIOUS
<1>10. Threshold(q) = CHOOSE d \in V : \A i \in U : DistanceOf(q, i) <= d
  BY <1>1, <1>9 DEF Threshold
<1>11. far[m] \in V /\ \A i \in U : DistanceOf(q, i) <= far[m]
  BY <1>7, <1>8, <1>9
<1>12. Threshold(q) \in V /\ \A i \in U : DistanceOf(q, i) <= Threshold(q)
  BY <1>10, <1>11
<1>13. PICK n \in U : Threshold(q) = far[n]
  BY <1>8, <1>9, <1>12
<1>14. \A x \in U : far[x] <= far[n]
  BY <1>8, <1>12, <1>13
<1> QED BY <1>2, <1>3, <1>13, <1>14

\* Nothing of a truth is beyond it.
LEMMA TruthsAreWithin ==
    ASSUME FilesOfFlat, step = "built", NEW q, WellAsked(q), NEW T \in GroundTruths(q), NEW i \in T
    PROVE  Within(q, i)
<1>1. PICK U \in GroundTruths(q) : \E m \in U :
              /\ Threshold(q) = FarOf(q)[m] /\ \A x \in U : FarOf(q)[x] <= FarOf(q)[m]
  BY ThresholdIsReach
<1>2. PICK m \in U : Threshold(q) = FarOf(q)[m] /\ \A x \in U : FarOf(q)[x] <= FarOf(q)[m]
  BY <1>1
<1>3. PICK far : far = FarOf(q)
  OBVIOUS
<1>4. IsNearest(T, Rows, q.k, far) /\ IsNearest(U, Rows, q.k, far)
  BY <1>3, TruthsAreNearest
<1>5. IsFiniteSet(Rows) /\ \A x \in Rows : far[x] \in Nat
  BY <1>3, RowsHavePlaces
<1>6. PICK y \in U : far[i] <= far[y]
  BY <1>4, <1>5, NearestReachAsFar
<1>7. i \in Rows /\ y \in Rows /\ m \in Rows
  BY <1>4 DEF IsNearest
<1>8. DistanceOf(q, i) = far[i] /\ far[i] \in Nat /\ far[y] \in Nat /\ far[m] \in Nat
  BY <1>3, <1>5, <1>7 DEF DistanceOf, FarOf
<1>9. far[y] <= far[m] /\ Threshold(q) = far[m]
  BY <1>2, <1>3
<1> QED BY <1>6, <1>8, <1>9 DEF Within

\* The k first of what was found are all of it.
LEMMA TopIsFound ==
    ASSUME FilesOfFlat, step = "built", NEW q, WellAsked(q), NEW rows, NEW D, NEW E, Finds(q, D, E, rows)
    PROVE  TopK(q, rows) = E /\ IsFiniteSet(E) /\ E \subseteq Rows
<1>1. PICK n \in Nat : n = Cardinality(E)
  BY FS_CardinalityType DEF Finds
<1>2. rows \in [1..n -> E] /\ ToSet(rows) = E /\ IsFiniteSet(E)
  BY <1>1 DEF Finds, Sorts
<1>3. rows \in Seq(E) /\ Len(rows) = n
  BY <1>1, <1>2, Listed
<1>4. AtMost(q.k, Len(rows)) = n
  <2>1. PICK N \in Nat, A \in Nat : N = Len(ids) /\ A = Cardinality(D)
    <3>1. IsFiniteSet(D)
      BY OpenAllows, FS_Subset DEF Finds
    <3> QED BY <3>1, RowsHavePlaces, FS_CardinalityType
  <2>2. n = AtMost(AtMost(q.k, N), A) /\ q.k \in Nat
    BY <1>1, <2>1 DEF Finds, Wanted, WellAsked
  <2> QED BY <1>3, <2>1, <2>2 DEF AtMost
<1>5. SubSeq(rows, 1, n) = rows
  BY <1>3, SubSeqFull
<1>6. E \subseteq Rows
  BY DEF Finds, Allowed
<1> QED BY <1>2, <1>4, <1>5, <1>6 DEF TopK

\* A gap between the recalls is duplication.
LEMMA AnswersGapIsDuplication ==
    ASSUME FilesOfFlat, Answered
    PROVE  GapIsDuplication
<1> SUFFICES ASSUME answer # NoAnswer, ~answer.query.filtered, answer.query.k <= Len(vectors)
             PROVE  GapIsDuplication
  BY DEF GapIsDuplication
<1>1. PICK q, rows : q = answer.query /\ rows = answer.rows
  OBVIOUS
<1>2. PICK D, E : Finds(q, D, E, rows)
  BY <1>1 DEF Answered
<1>3. step = "built" /\ WellAsked(q)
  BY <1>1 DEF Answered, FilesOfFlat, FlatTypeOK
<1>4. TopK(q, rows) = E /\ IsFiniteSet(E) /\ E \subseteq Rows
  BY <1>2, <1>3, TopIsFound
<1>5. PICK W : W = {i \in E : Within(q, i)} /\ RecallWithTies(q, rows) = Cardinality(W)
  BY <1>4 DEF RecallWithTies
<1>6. \A truth : RecallById(q, rows, truth) = Cardinality(E \intersect truth)
  BY <1>4 DEF RecallById
<1>7. ASSUME NEW truth \in GroundTruths(q)
      PROVE  E \intersect truth \subseteq W
  BY <1>3, <1>5, TruthsAreWithin
<1>8. ASSUME NEW truth \in GroundTruths(q)
      PROVE  RecallById(q, rows, truth) <= RecallWithTies(q, rows)
  <2>1. IsFiniteSet(W)
    BY <1>4, <1>5, FS_Subset
  <2>2. Cardinality(E \intersect truth) <= Cardinality(W)
    BY <1>7, <2>1, FS_Subset
  <2> QED BY <1>5, <1>6, <2>2
<1>9. ASSUME NEW truth \in GroundTruths(q), GroundTruths(q) = {truth}
      PROVE  RecallById(q, rows, truth) = RecallWithTies(q, rows)
  <2>1. PICK far : far = FarOf(q)
    OBVIOUS
  <2>2. PICK m \in truth : Threshold(q) = far[m] /\ \A x \in truth : far[x] <= far[m]
    BY <1>3, <1>9, <2>1, ThresholdIsReach
  <2>3. IsNearest(truth, Rows, q.k, far)
    BY <1>3, <2>1, TruthsAreNearest
  <2>4. IsFiniteSet(Rows) /\ \A x \in Rows : far[x] \in Nat
    BY <1>3, <2>1, RowsHavePlaces
  <2>5. ASSUME NEW i \in W, i \notin truth PROVE FALSE
    <3>1. i \in Rows /\ DistanceOf(q, i) = far[i] /\ DistanceOf(q, i) <= Threshold(q)
      BY <1>4, <1>5, <2>1 DEF Within, DistanceOf, FarOf
    <3>2. far[i] <= far[m]
      BY <2>2, <3>1
    <3>3. PICK U : IsNearest(U, Rows, q.k, far) /\ U # truth
      BY <2>2, <2>3, <2>4, <2>5, <3>1, <3>2, NearestIsOneOfMany
    <3>4. U \in GroundTruths(q)
      BY <1>3, <2>1, <3>3, TruthsAreNearest
    <3> QED BY <1>9, <3>3, <3>4
  <2>6. E \intersect truth = W
    BY <1>5, <1>7, <2>5
  <2> QED BY <1>5, <1>6, <2>6
<1>10. ASSUME index = "brute" \/ q.effort >= Cells
       PROVE  RecallWithTies(q, rows) = q.k
  <2>1. D = Rows /\ Cardinality(E) = AtMost(Wanted(q), Cardinality(D)) /\ NoneNearer(D, E, FarOf(q))
    BY <1>1, <1>2, <1>10 DEF Finds, Allowed
  <2>2. Cardinality(Rows) = Len(ids) /\ Len(ids) = Len(vectors) /\ Len(vectors) \in Nat
    BY <1>3, RowsHavePlaces
  <2>3. Cardinality(E) = q.k
    <3>1. q.k \in Nat /\ q.k <= Len(vectors)
      BY <1>1, <1>3 DEF WellAsked
    <3> QED BY <2>1, <2>2, <3>1 DEF Wanted, AtMost
  <2>4. IsNearest(E, Rows, q.k, FarOf(q))
    BY <1>4, <2>1, <2>3 DEF IsNearest
  <2>5. E \in GroundTruths(q)
    BY <1>3, <2>4, TruthsAreNearest
  <2>6. W = E
    BY <1>5, <1>7, <2>5
  <2> QED BY <1>5, <2>3, <2>6
<1> QED BY <1>1, <1>8, <1>9, <1>10 DEF GapIsDuplication

\* Recall by id falls short of the tie-aware recall only where equal distances straddle the cut,
\* and at full effort the tie-aware one is complete.
THEOREM GapsAreDuplication == PortSpec => []GapIsDuplication
<1>1. FlatIInv => GapIsDuplication
  BY AnswersGapIsDuplication DEF FlatIInv
<1> QED BY <1>1, FlatInvariant, PTL

\* The first l of a sorted list are nearest.
LEMMA Foremost ==
    ASSUME NEW K, IsFiniteSet(K), NEW far, \A x \in K : far[x] \in Nat, NEW s, Sorts(s, K, far),
           NEW l \in 0..Cardinality(K), NEW t, t = [n \in 1..l |-> s[n]], NEW G, G = Part(s, 1, l)
    PROVE  G \subseteq K /\ IsFiniteSet(G) /\ Cardinality(G) = l /\ Sorts(t, G, far) /\ NoneNearer(K, G, far)
<1>1. PICK N \in Nat : N = Cardinality(K)
  BY FS_CardinalityType
<1>2. /\ s \in [1..N -> K] /\ IsInjective(s) /\ (\A x \in K : \E n \in 1..N : s[n] = x)
      /\ \A m, n \in 1..N : m < n => far[s[m]] <= far[s[n]]
  BY <1>1 DEF Sorts, ToSet
<1>3. l \in 0..N /\ \A n \in 1..l : n \in 1..N
  BY <1>1
<1>4. IsFiniteSet(G) /\ Cardinality(G) = l
  <2>1. \A m \in 0..N : IsFiniteSet(Part(s, 1, m)) /\ Cardinality(Part(s, 1, m)) = m
    BY <1>2, Beginning
  <2> QED BY <1>3, <2>1
<1>5. G = {s[n] : n \in 1..l}
  BY DEF Part
<1>6. \A n \in 1..l : t[n] = s[n] /\ t[n] \in G
  BY <1>5
<1>7. t \in [1..l -> G] /\ DOMAIN t = 1..l
  <2>1. t = [n \in 1..l |-> s[n]]
    OBVIOUS
  <2> QED BY <1>6, <2>1
<1>8. IsInjective(t)
  BY <1>2, <1>3, <1>6, <1>7 DEF IsInjective
<1>9. ToSet(t) = G
  BY <1>5, <1>6, <1>7 DEF ToSet
<1>10. \A m, n \in 1..l : m < n => far[t[m]] <= far[t[n]]
  BY <1>2, <1>3, <1>6
<1>11. ASSUME NEW x \in G, NEW y \in K \ G PROVE far[x] <= far[y]
  <2>1. PICK m \in 1..l : x = s[m]
    BY <1>5
  <2>2. PICK n \in 1..N : y = s[n]
    BY <1>2
  <2>3. n \notin 1..l
    BY <1>5, <2>2
  <2>4. m < n /\ m \in 1..N
    BY <1>3, <2>3
  <2> QED BY <1>2, <2>1, <2>2, <2>4
<1>12. G \subseteq K
  BY <1>2, <1>3, <1>5
<1> QED BY <1>4, <1>7, <1>8, <1>9, <1>10, <1>11, <1>12 DEF Sorts, NoneNearer

-----------------------------------------------------------------------------
(* Filtering after the search.                                             *)

\* The search that is made then.
Unfiltered(q, o) == [q EXCEPT !.k = @ * o, !.filtered = FALSE]

\* It asks for the same, o times as much.
LEMMA UnfilteredAsks ==
    ASSUME NEW q, WellAsked(q), NEW o \in Nat \ {0}, NEW p, p = Unfiltered(q, o)
    PROVE  /\ WellAsked(p) /\ p.k = q.k * o /\ p.k >= q.k /\ ~p.filtered
           /\ p.point = q.point /\ p.effort = q.effort
           /\ FarOf(p) = FarOf(q) /\ NearCells(p) = NearCells(q)
<1>1. PICK k \in Nat \ {0} : k = q.k
  BY DEF WellAsked
<1>2. k * o \in Nat \ {0} /\ k * o >= k
  OBVIOUS
<1>3. /\ p.k = k * o /\ p.filtered = FALSE /\ p.point = q.point /\ p.effort = q.effort /\ p.admissible = q.admissible
      /\ p \in [point : Places, k : Nat \ {0}, effort : Nat \ {0}, filtered : BOOLEAN, admissible : SUBSET Nat]
  BY <1>1, <1>2 DEF WellAsked, Unfiltered
<1>4. FarOf(p) = FarOf(q)
  BY <1>3 DEF FarOf
<1>5. NearCells(p) = NearCells(q)
  BY <1>3 DEF NearCells, CellFar, MinProbes
<1> QED BY <1>1, <1>2, <1>3, <1>4, <1>5 DEF WellAsked

\* As many of K as are wanted and there are are G, the nearest of them.
KeepsBest(q, K, G, got) ==
    /\ G \subseteq K /\ IsFiniteSet(K) /\ IsFiniteSet(G) /\ Cardinality(G) = AtMost(q.k, Cardinality(K))
    /\ NoneNearer(K, G, FarOf(q))
    /\ Sorts(got, G, FarOf(q))

\* It keeps the best of those it has found that are admissible.
LEMMA PostFilterKeepsBest ==
    ASSUME FilesOfFlat, step = "built", NEW q, WellAsked(q), NEW o \in Nat \ {0},
           NEW got \in PostFilterSearch(q, o), NEW p, p = Unfiltered(q, o)
    PROVE  \E D, E, raw, G : Finds(p, D, E, raw) /\ KeepsBest(q, E \intersect q.admissible, G, got)
<1> DEFINE admitted(raw) == {n \in DOMAIN raw : raw[n] \in q.admissible}
           place(raw) == [n \in admitted(raw) |-> n]
<1>1. PICK raw \in SearchResults(p) :
        got = [n \in 1..AtMost(q.k, Cardinality(admitted(raw))) |->
                  raw[Ordered(admitted(raw), place(raw), place(raw))[n]]]
  BY DEF PostFilterSearch, Unfiltered
<1>2. WellAsked(p) /\ FarOf(p) = FarOf(q)
  BY UnfilteredAsks
<1>3. PICK D, E : Finds(p, D, E, raw)
  BY <1>2, SearchFindsNearest
<1>4. PICK far : far = FarOf(q)
  OBVIOUS
<1>5. IsFiniteSet(E) /\ Sorts(raw, E, far) /\ \A x \in E : far[x] \in Nat
  <2>1. E \subseteq Rows
    BY <1>3 DEF Finds, Allowed
  <2> QED BY <1>2, <1>3, <1>4, <2>1, RowsHavePlaces DEF Finds
<1>6. PICK N \in Nat : N = Cardinality(E)
  BY <1>5, FS_CardinalityType
<1>7. /\ raw \in [1..N -> E] /\ (\A m, n \in 1..N : raw[m] = raw[n] => m = n)
      /\ (\A x \in E : \E n \in 1..N : raw[n] = x)
      /\ \A m, n \in 1..N : m < n => far[raw[m]] <= far[raw[n]]
  BY <1>5, <1>6 DEF Sorts, ToSet, IsInjective
<1>8. PICK A : A = admitted(raw) /\ A = {n \in 1..N : raw[n] \in q.admissible}
  BY <1>7
<1>9. PICK P : P = place(raw) /\ P = [n \in A |-> n]
  BY <1>8
<1>10. PICK kept : kept = Ordered(A, P, P)
  OBVIOUS
<1>11. got = [n \in 1..AtMost(q.k, Cardinality(A)) |-> raw[kept[n]]]
  BY <1>1, <1>8, <1>9, <1>10
<1> HIDE DEF admitted, place
<1>12. IsFiniteSet(A) /\ A \subseteq 1..N
  <2>1. A \subseteq 1..N /\ IsFiniteSet(1..N)
    BY <1>8, Counted
  <2> QED BY <2>1, FS_Subset
<1>13. \A n \in A : P[n] = n /\ P[n] \in Nat
  BY <1>9, <1>12
<1>14. Sorts(kept, A, P)
  <2>1. \A m, n \in A : P[m] = P[n] => m = n
    BY <1>13
  <2> QED BY <1>10, <1>12, <1>13, <2>1, OrderedSorts
<1>15. PICK g : g = [n \in A |-> far[raw[n]]]
  OBVIOUS
<1>16. \A n \in A : g[n] = far[raw[n]]
  BY <1>15
<1>17. PICK L \in Nat : L = Cardinality(A)
  BY <1>12, FS_CardinalityType
<1>18. Sorts(kept, A, g)
  <2>1. /\ kept \in [1..L -> A] /\ IsInjective(kept) /\ ToSet(kept) = A
        /\ \A m, n \in 1..L : m < n => P[kept[m]] <= P[kept[n]]
    BY <1>14, <1>17 DEF Sorts
  <2>2. ASSUME NEW m \in 1..L, NEW n \in 1..L, m < n PROVE g[kept[m]] <= g[kept[n]]
    <3>1. PICK a \in A, b \in A : a = kept[m] /\ b = kept[n]
      BY <2>1
    <3>2. a <= b /\ a # b
      <4>1. a <= b
        BY <1>13, <2>1, <2>2, <3>1
      <4>2. DOMAIN kept = 1..L
        BY <2>1
      <4> QED BY <2>1, <2>2, <3>1, <4>1, <4>2 DEF IsInjective
    <3>3. a \in 1..N /\ b \in 1..N /\ a < b
      BY <1>12, <3>2
    <3>4. far[raw[a]] <= far[raw[b]]
      BY <1>7, <3>3
    <3> QED BY <1>16, <3>1, <3>4
  <2> QED BY <1>17, <2>1, <2>2 DEF Sorts
<1>19. PICK K : K = Named(raw, A) /\ K = E \intersect q.admissible
  <2>1. ASSUME NEW x \in E \intersect q.admissible PROVE \E n \in A : x = raw[n]
    <3>1. PICK n \in 1..N : raw[n] = x
      BY <1>7, <2>1
    <3> QED BY <1>8, <2>1, <3>1
  <2>2. \A n \in A : raw[n] \in E \intersect q.admissible
    BY <1>7, <1>8
  <2> QED BY <2>1, <2>2 DEF Named
<1>20. PICK r : r = NamesAlong(raw, kept, L)
  OBVIOUS
<1>21. IsFiniteSet(K) /\ Cardinality(K) = L /\ Sorts(r, K, far)
  <2>1. A \subseteq DOMAIN raw
    BY <1>7, <1>12
  <2>2. \A m, n \in A : raw[m] = raw[n] => m = n
    BY <1>7, <1>12
  <2>3. K = Named(raw, A) /\ r = NamesAlong(raw, kept, Cardinality(A))
    BY <1>17, <1>19, <1>20
  <2>4. \A n \in A : far[raw[n]] = g[n]
    BY <1>16
  <2>5. IsFiniteSet(A)
    BY <1>12
  <2>6. IsFiniteSet(K) /\ Cardinality(K) = Cardinality(A) /\ Sorts(r, K, far)
    BY <1>18, <2>1, <2>2, <2>3, <2>4, <2>5, Renaming
  <2> QED BY <1>17, <2>6
<1>22. PICK l \in 0..L : l = AtMost(q.k, L)
  BY <1>2 DEF AtMost, WellAsked
<1>23. got = [n \in 1..l |-> r[n]]
  <2>1. \A n \in 1..l : n \in 1..L
    BY <1>22
  <2>2. \A n \in 1..L : r[n] = raw[kept[n]]
    BY <1>20 DEF NamesAlong
  <2> QED BY <1>11, <1>17, <1>22, <2>1, <2>2
<1>24. PICK G : G = Part(r, 1, l)
  OBVIOUS
<1>25. G \subseteq K /\ IsFiniteSet(G) /\ Cardinality(G) = l /\ Sorts(got, G, far) /\ NoneNearer(K, G, far)
  <2>1. \A x \in K : far[x] \in Nat
    BY <1>5, <1>19
  <2>2. l \in 0..Cardinality(K)
    BY <1>21, <1>22
  <2> QED BY <1>21, <1>23, <1>24, <2>1, <2>2, Foremost
<1>26. KeepsBest(q, E \intersect q.admissible, G, got)
  BY <1>4, <1>19, <1>21, <1>22, <1>25 DEF KeepsBest
<1> QED BY <1>3, <1>26

\* Under a filter as many are found as there are and are wanted.
LEMMA FoundAreCounted ==
    ASSUME FilesOfFlat, step = "built", NEW q, WellAsked(q), NEW rows, NEW D, NEW E, Finds(q, D, E, rows),
           q.filtered \/ D = Allowed(q)
    PROVE  Cardinality(E) = AtMost(q.k, Cardinality(Allowed(q))) /\ Cardinality(Allowed(q)) \in Nat
<1>1. PICK n \in Nat : n = Cardinality(E)
  BY FS_CardinalityType DEF Finds
<1>2. PICK N \in Nat, A \in Nat : N = Len(ids) /\ A = Cardinality(Allowed(q)) /\ A <= N
  BY RowsHavePlaces, OpenAllows
<1>3. Cardinality(D) \in Nat /\ Cardinality(D) <= A
  <2>1. D \subseteq Allowed(q) /\ IsFiniteSet(Allowed(q))
    BY OpenAllows DEF Finds
  <2> QED BY <1>2, <2>1, FS_Subset, FS_CardinalityType
<1>4. n = AtMost(AtMost(q.k, N), Cardinality(D)) /\ (Cardinality(D) = A \/ Cardinality(D) >= AtMost(q.k, N))
  BY <1>1, <1>2 DEF Finds, Wanted
<1>5. q.k \in Nat
  BY DEF WellAsked
<1> QED BY <1>1, <1>2, <1>3, <1>4, <1>5 DEF AtMost

\* The nth of s is as near as that of r at least, and there is one.
AsNear(far, s, m, r, n) == n <= m /\ \A i \in 1..n : far[s[i]] <= far[r[i]]

\* The nearest of more are as near as some of them.
LEMMA MoreIsNearer ==
    ASSUME NEW L, IsFiniteSet(L), NEW far, \A x \in L : far[x] \in Nat, NEW k \in Nat,
           NEW E, E \subseteq L, IsFiniteSet(E), NoneNearer(L, E, far), NEW s, Sorts(s, E, far),
           NEW G, G \subseteq L, NEW r, Sorts(r, G, far), Cardinality(G) <= Cardinality(E)
    PROVE  AsNear(far, s, Cardinality(E), r, Cardinality(G))
<1>1. IsFiniteSet(G) /\ Cardinality(G) \in Nat /\ Cardinality(E) \in Nat
  BY FS_Subset, FS_CardinalityType
<1>2. NoneNearer(G, E, far)
  BY DEF NoneNearer
<1>3. \A x : x \in G \union E => far[x] \in Nat
  OBVIOUS
<1>4. ASSUME NEW i \in 1..Cardinality(G) PROVE far[s[i]] <= far[r[i]]
  <2>1. i \in 1..Cardinality(G) /\ i \in 1..Cardinality(E)
    BY <1>1
  <2> QED BY <1>1, <1>2, <1>3, <2>1, NotFarther
<1> QED BY <1>4 DEF AsNear

\* What a filter after the search leaves was within reach of a filter in it.
LEMMA PushdownIsAsNear ==
    ASSUME FilesOfFlat, step = "built", NEW q, WellAsked(q), q.filtered, index = "ivf" => Unambiguous(q),
           NEW rows, NEW D, NEW E, Finds(q, D, E, rows),
           NEW o \in Nat \ {0}, NEW got \in PostFilterSearch(q, o)
    PROVE  \E G : /\ IsFiniteSet(G) /\ G \subseteq Rows /\ Sorts(got, G, FarOf(q))
                  /\ AsNear(FarOf(q), rows, Cardinality(E), got, Cardinality(G))
<1>1. PICK p : p = Unfiltered(q, o)
  OBVIOUS
<1>2. PICK D2, E2, raw, G : Finds(p, D2, E2, raw) /\ KeepsBest(q, E2 \intersect q.admissible, G, got)
  BY <1>1, PostFilterKeepsBest
<1>3. ~p.filtered /\ NearCells(p) = NearCells(q)
  BY <1>1, UnfilteredAsks
<1>4. PICK K : K = E2 \intersect q.admissible
  OBVIOUS
<1>5. K \subseteq Allowed(q)
  BY <1>2, <1>3, <1>4 DEF Finds, Allowed
<1>6. K \subseteq D
  <2>1. CASE index = "ivf"
    <3>1. K \subseteq Reach(p)
      BY <1>2, <1>3, <1>4, <2>1 DEF Finds
    <3>2. ASSUME NEW i \in K PROVE i \in Reach(q)
      <4>1. PICK n \in Span(p, NearCells(p)) : i = ids[n]
        BY <3>1, <3>2 DEF Reach, Named
      <4>2. n \in UNION {Slice(c) : c \in NearCells(q)} /\ n \in Rows /\ i \in q.admissible
        BY <1>3, <1>4, <3>2, <4>1 DEF Span
      <4>3. n \in Admitted(q)
        BY <4>1, <4>2, RowsHavePlaces DEF Admitted
      <4>4. n \in Span(q, NearCells(q))
        BY <4>2, <4>3 DEF Span
      <4> QED BY <4>1, <4>4 DEF Reach, Named
    <3> QED BY <2>1, <3>2 DEF Finds
  <2>2. CASE index = "brute"
    BY <1>5, <2>2 DEF Finds
  <2>3. index \in {"brute", "ivf"}
    BY DEF FilesOfFlat, FlatTypeOK, Seeded
  <2> QED BY <2>1, <2>2, <2>3
<1>7. IsFiniteSet(Allowed(q)) /\ Allowed(q) \subseteq Rows /\ \A i \in Rows : FarOf(q)[i] \in Nat
  BY OpenAllows, RowsHavePlaces DEF Allowed
<1>8. IsFiniteSet(D) /\ D \subseteq Rows
  BY <1>7, FS_Subset DEF Finds
<1>9. /\ E \subseteq D /\ IsFiniteSet(E) /\ NoneNearer(D, E, FarOf(q)) /\ Sorts(rows, E, FarOf(q))
      /\ G \subseteq D /\ Sorts(got, G, FarOf(q)) /\ IsFiniteSet(G)
  BY <1>2, <1>4, <1>6 DEF Finds, KeepsBest
<1>10. Cardinality(G) <= Cardinality(E)
  <2>1. Cardinality(E) = AtMost(q.k, Cardinality(Allowed(q))) /\ Cardinality(Allowed(q)) \in Nat
    BY FoundAreCounted
  <2>2. Cardinality(K) \in Nat /\ Cardinality(K) <= Cardinality(Allowed(q))
    BY <1>5, <1>7, FS_Subset, FS_CardinalityType
  <2>3. Cardinality(G) = AtMost(q.k, Cardinality(K)) /\ q.k \in Nat
    BY <1>2, <1>4 DEF KeepsBest, WellAsked
  <2> QED BY <2>1, <2>2, <2>3 DEF AtMost
<1>11. AsNear(FarOf(q), rows, Cardinality(E), got, Cardinality(G))
  <2>1. \A x \in D : FarOf(q)[x] \in Nat
    BY <1>7, <1>8
  <2> QED BY <1>8, <1>9, <1>10, <2>1, MoreIsNearer
<1> QED BY <1>8, <1>9, <1>11

\* If everything was fetched, it leaves the same distances.
LEMMA AllFetchedIsAsNear ==
    ASSUME FilesOfFlat, step = "built", NEW q, WellAsked(q), q.filtered, index = "brute" \/ q.effort >= Cells,
           NEW rows, NEW D, NEW E, Finds(q, D, E, rows),
           NEW o \in Nat \ {0}, NEW got \in PostFilterSearch(q, o), q.k * o >= Len(ids)
    PROVE  \E G : /\ IsFiniteSet(G) /\ G \subseteq Rows /\ Sorts(got, G, FarOf(q))
                  /\ Cardinality(G) = Cardinality(E)
                  /\ \A i \in 1..Cardinality(E) : FarOf(q)[got[i]] = FarOf(q)[rows[i]]
<1>1. PICK p : p = Unfiltered(q, o)
  OBVIOUS
<1>2. PICK D2, E2, raw, G : Finds(p, D2, E2, raw) /\ KeepsBest(q, E2 \intersect q.admissible, G, got)
  BY <1>1, PostFilterKeepsBest
<1>3. WellAsked(p) /\ ~p.filtered /\ p.k = q.k * o /\ p.effort = q.effort
  BY <1>1, UnfilteredAsks
<1>4. PICK S, far : S = Allowed(q) /\ far = FarOf(q)
  OBVIOUS
<1>5. /\ IsFiniteSet(Rows) /\ Cardinality(Rows) = Len(ids) /\ Len(ids) \in Nat
      /\ IsFiniteSet(S) /\ S \subseteq Rows /\ \A i \in Rows : far[i] \in Nat
  BY <1>4, OpenAllows, RowsHavePlaces DEF Allowed
<1>6. D2 = Rows /\ Allowed(p) = Rows
  BY <1>2, <1>3 DEF Finds, Allowed
<1>7. E2 = Rows
  <2>1. Cardinality(E2) = AtMost(p.k, Len(ids)) /\ E2 \subseteq Rows
    BY <1>2, <1>3, <1>5, <1>6, FoundAreCounted DEF Finds
  <2>2. Cardinality(E2) = Cardinality(Rows)
    <3>1. p.k \in Nat /\ p.k >= Len(ids)
      BY <1>3 DEF WellAsked
    <3> QED BY <1>5, <2>1, <3>1 DEF AtMost
  <2> QED BY <1>5, <2>1, <2>2, FS_Subset
<1>8. E2 \intersect q.admissible = S /\ D = S
  BY <1>4, <1>7 DEF Allowed, Finds
<1>9. /\ G \subseteq S /\ IsFiniteSet(G) /\ NoneNearer(S, G, far) /\ Sorts(got, G, far)
      /\ E \subseteq S /\ NoneNearer(S, E, far) /\ Sorts(rows, E, far)
  BY <1>2, <1>4, <1>8 DEF KeepsBest, Finds
<1>10. Cardinality(G) = Cardinality(E)
  BY <1>2, <1>4, <1>8, FoundAreCounted DEF KeepsBest
<1>11. PICK a : Sorts(a, S, far)
  BY <1>4, OracleSorts
<1>12. \A i \in S : far[i] \in Nat
  BY <1>5
<1>13. \A i \in 1..Cardinality(G) : far[a[i]] = far[got[i]]
  BY <1>5, <1>9, <1>11, <1>12, NearestAsFar
<1>14. \A i \in 1..Cardinality(E) : far[a[i]] = far[rows[i]]
  BY <1>5, <1>9, <1>11, <1>12, NearestAsFar
<1>15. \A i \in 1..Cardinality(E) : far[got[i]] = far[rows[i]]
  BY <1>10, <1>13, <1>14
<1>16. G \subseteq Rows
  BY <1>5, <1>9
<1> QED BY <1>4, <1>9, <1>10, <1>15, <1>16

\* If the cut separates no equals, more than are fetched are all that were fetched, and more.
LEMMA MoreHoldsLess ==
    ASSUME FilesOfFlat, step = "built", NEW q, WellAsked(q), NEW few \in Nat \ {0}, NEW many \in Nat \ {0}, few <= many,
           CutsClean(q, many),
           NEW E1, E1 \subseteq Rows, Cardinality(E1) = AtMost(few, Len(ids)), NoneNearer(Rows, E1, FarOf(q)),
           NEW E2, E2 \subseteq Rows, Cardinality(E2) = AtMost(many, Len(ids)), NoneNearer(Rows, E2, FarOf(q))
    PROVE  E1 \subseteq E2
<1>1. PICK far, k : far = FarOf(q) /\ k = AtMost(many, Len(ids))
  OBVIOUS
<1>2. \A i \in Rows : DistanceOf(q, i) = far[i]
  BY <1>1 DEF DistanceOf, FarOf
<1>3. [i \in Rows |-> DistanceOf(q, i)] = far
  BY <1>1, <1>2 DEF FarOf
<1>4. \A S, T \in NearestSets(Rows, k, far) : S = T
  BY <1>1, <1>3 DEF CutsClean
<1>5. \A S, T : IsNearest(S, Rows, k, far) /\ IsNearest(T, Rows, k, far) => S = T
  BY <1>4 DEF NearestSets, IsNearest, NoneNearer
<1>6. IsFiniteSet(Rows) /\ Len(ids) \in Nat /\ \A i \in Rows : far[i] \in Nat
  BY <1>1, RowsHavePlaces
<1>7. IsNearest(E2, Rows, k, far)
  BY <1>1 DEF IsNearest
<1> SUFFICES ASSUME NEW x \in E1, x \notin E2 PROVE FALSE
  OBVIOUS
<1>8. IsFiniteSet(E1) /\ IsFiniteSet(E2) /\ Cardinality(E1) <= Cardinality(E2)
  <2>1. Cardinality(E1) <= Cardinality(E2)
    BY <1>6 DEF AtMost
  <2> QED BY <1>6, <2>1, FS_Subset
<1>9. PICK y \in E2 : y \notin E1
  <2>1. CASE E2 \subseteq E1
    <3>1. Cardinality(E1) \in Nat /\ Cardinality(E2) \in Nat /\ Cardinality(E2) <= Cardinality(E1)
      BY <1>8, <2>1, FS_Subset, FS_CardinalityType
    <3>2. Cardinality(E2) = Cardinality(E1)
      BY <1>8, <3>1
    <3>3. E2 = E1
      BY <1>8, <2>1, <3>2, FS_Subset
    <3> QED BY <3>3
  <2> QED BY <2>1
<1>10. far[x] <= far[y]
  BY <1>1, <1>9 DEF NoneNearer
<1>11. x \in Rows /\ y \in E2 /\ x \notin E2
  BY <1>9
<1>12. PICK U : IsNearest(U, Rows, k, far) /\ U # E2
  BY <1>6, <1>7, <1>10, <1>11, NearestIsOneOfMany
<1> QED BY <1>5, <1>7, <1>12

\* Fetching more then gives as near.
LEMMA MoreFetchedIsAsNear ==
    ASSUME FilesOfFlat, step = "built", NEW q, WellAsked(q), index = "brute",
           NEW o \in Nat \ {0}, NEW more \in Nat \ {0}, more > o, CutsClean(q, q.k * more),
           NEW got \in PostFilterSearch(q, o), NEW better \in PostFilterSearch(q, more)
    PROVE  \E G1, G2 : /\ IsFiniteSet(G1) /\ G1 \subseteq Rows /\ Sorts(got, G1, FarOf(q))
                       /\ IsFiniteSet(G2) /\ G2 \subseteq Rows /\ Sorts(better, G2, FarOf(q))
                       /\ AsNear(FarOf(q), better, Cardinality(G2), got, Cardinality(G1))
<1>1. PICK p1, p2 : p1 = Unfiltered(q, o) /\ p2 = Unfiltered(q, more)
  OBVIOUS
<1>2. PICK D1, E1, raw1, G1 : Finds(p1, D1, E1, raw1) /\ KeepsBest(q, E1 \intersect q.admissible, G1, got)
  BY <1>1, PostFilterKeepsBest
<1>3. PICK D2, E2, raw2, G2 : Finds(p2, D2, E2, raw2) /\ KeepsBest(q, E2 \intersect q.admissible, G2, better)
  BY <1>1, PostFilterKeepsBest
<1>4. PICK few, many : few = q.k * o /\ many = q.k * more
  OBVIOUS
<1>5. few \in Nat \ {0} /\ many \in Nat \ {0} /\ few <= many
  <2>1. q.k \in Nat \ {0}
    BY DEF WellAsked
  <2>2. \A k, a, b \in Nat \ {0} : a < b => k * a \in Nat \ {0} /\ k * a <= k * b
    OBVIOUS
  <2> QED BY <1>4, <2>1, <2>2
<1>6. WellAsked(p1) /\ p1.k = few /\ ~p1.filtered /\ FarOf(p1) = FarOf(q)
  BY <1>1, <1>4, UnfilteredAsks
<1>7. WellAsked(p2) /\ p2.k = many /\ ~p2.filtered /\ FarOf(p2) = FarOf(q)
  BY <1>1, <1>4, UnfilteredAsks
<1>8. /\ IsFiniteSet(Rows) /\ Cardinality(Rows) = Len(ids) /\ Len(ids) \in Nat
      /\ \A i \in Rows : FarOf(q)[i] \in Nat
  BY RowsHavePlaces
<1>9. D1 = Rows /\ D2 = Rows /\ Allowed(p1) = Rows /\ Allowed(p2) = Rows
  BY <1>2, <1>3, <1>6, <1>7 DEF Finds, Allowed
<1>10. E1 \subseteq Rows /\ Cardinality(E1) = AtMost(few, Len(ids)) /\ NoneNearer(Rows, E1, FarOf(q))
  <2>1. Cardinality(E1) = AtMost(few, Len(ids))
    BY <1>2, <1>6, <1>8, <1>9, FoundAreCounted
  <2> QED BY <1>2, <1>6, <1>9, <2>1 DEF Finds
<1>11. E2 \subseteq Rows /\ Cardinality(E2) = AtMost(many, Len(ids)) /\ NoneNearer(Rows, E2, FarOf(q))
  <2>1. Cardinality(E2) = AtMost(many, Len(ids))
    BY <1>3, <1>7, <1>8, <1>9, FoundAreCounted
  <2> QED BY <1>3, <1>7, <1>9, <2>1 DEF Finds
<1>12. E1 \subseteq E2
  <2>1. CutsClean(q, many)
    BY <1>4
  <2> QED BY <1>5, <1>10, <1>11, <2>1, MoreHoldsLess
<1>13. PICK K1, K2 : K1 = E1 \intersect q.admissible /\ K2 = E2 \intersect q.admissible
  OBVIOUS
<1>14. /\ G1 \subseteq K1 /\ IsFiniteSet(G1) /\ Cardinality(G1) = AtMost(q.k, Cardinality(K1)) /\ Sorts(got, G1, FarOf(q))
       /\ G2 \subseteq K2 /\ IsFiniteSet(G2) /\ Cardinality(G2) = AtMost(q.k, Cardinality(K2)) /\ Sorts(better, G2, FarOf(q))
       /\ NoneNearer(K2, G2, FarOf(q))
  BY <1>2, <1>3, <1>13 DEF KeepsBest
<1>15. K1 \subseteq K2 /\ IsFiniteSet(K2) /\ K2 \subseteq Rows
  <2>1. K2 \subseteq Rows /\ K1 \subseteq K2
    BY <1>11, <1>12, <1>13
  <2> QED BY <1>8, <2>1, FS_Subset
<1>16. Cardinality(G1) <= Cardinality(G2)
  <2>1. Cardinality(K1) \in Nat /\ Cardinality(K2) \in Nat /\ Cardinality(K1) <= Cardinality(K2)
    BY <1>15, FS_Subset, FS_CardinalityType
  <2>2. q.k \in Nat
    BY DEF WellAsked
  <2> QED BY <1>14, <2>1, <2>2 DEF AtMost
<1>17. AsNear(FarOf(q), better, Cardinality(G2), got, Cardinality(G1))
  <2>1. G1 \subseteq K2 /\ \A x \in K2 : FarOf(q)[x] \in Nat
    BY <1>8, <1>14, <1>15
  <2>2. q.k \in Nat
    BY DEF WellAsked
  <2> QED BY <1>14, <1>15, <1>16, <2>1, <2>2, MoreIsNearer
<1>18. G1 \subseteq Rows /\ G2 \subseteq Rows
  BY <1>14, <1>15
<1> QED BY <1>14, <1>17, <1>18

-----------------------------------------------------------------------------
(* The levels of the overfetch.                                            *)

\* At least one of something is fetched.
LEMMA OverfetchIsPositive ==
    ASSUME FilesOfFlat, step = "built", NEW q, WellAsked(q)
    PROVE  RequiredOverfetch(q) \in Nat \ {0}
<1>1. PICK n \in Nat : n = Cardinality(q.admissible)
  BY FS_CardinalityType DEF WellAsked
<1>2. PICK N \in Nat : N = Len(ids)
  BY RowsHavePlaces
<1>3. ASSUME n # 0, ~(n > N) PROVE Rounded(N, n) \in Nat \ {0}
  <2>1. N \div n \in Nat \ {0}
    BY <1>3
  <2> QED BY <2>1 DEF Rounded
<1>4. MaxOverfetch \in Nat \ {0}
  BY DEF MaxOverfetch
<1>5. RequiredOverfetch(q) = IF n = 0 THEN MaxOverfetch
                             ELSE AtMost(MaxOverfetch, IF n > N THEN 1 ELSE Rounded(N, n))
  BY <1>1, <1>2 DEF RequiredOverfetch
<1> QED BY <1>3, <1>4, <1>5 DEF AtMost

\* The distances of what is sorted.
LEMMA DistancesOfSorted ==
    ASSUME FilesOfFlat, step = "built", NEW q, WellAsked(q), NEW G, G \subseteq Rows, IsFiniteSet(G),
           NEW r, Sorts(r, G, FarOf(q))
    PROVE  /\ Cardinality(G) \in Nat /\ DOMAIN Distances(q, r) = 1..Cardinality(G) /\ Len(Distances(q, r)) = Cardinality(G)
           /\ Distances(q, r) = [i \in 1..Cardinality(G) |-> FarOf(q)[r[i]]]
<1>1. PICK n \in Nat : n = Cardinality(G)
  BY FS_CardinalityType
<1>2. r \in [1..n -> G]
  BY <1>1 DEF Sorts
<1>3. \A i \in 1..n : DistanceOf(q, r[i]) = FarOf(q)[r[i]]
  BY <1>2 DEF DistanceOf, FarOf
<1>4. Distances(q, r) = [i \in 1..n |-> DistanceOf(q, r[i])]
  BY <1>2 DEF Distances
<1>5. Distances(q, r) = [i \in 1..n |-> FarOf(q)[r[i]]]
  BY <1>3, <1>4
<1>6. Len(Distances(q, r)) = n
  BY <1>5
<1> QED BY <1>1, <1>5, <1>6

\* As near is as good.
LEMMA AsNearIsAsGood ==
    ASSUME FilesOfFlat, step = "built", NEW q, WellAsked(q),
           NEW E, E \subseteq Rows, IsFiniteSet(E), NEW rows, Sorts(rows, E, FarOf(q)),
           NEW G, G \subseteq Rows, IsFiniteSet(G), NEW got, Sorts(got, G, FarOf(q)),
           AsNear(FarOf(q), rows, Cardinality(E), got, Cardinality(G))
    PROVE  AsGood(Distances(q, rows), Distances(q, got))
<1>1. PICK m, n, a, b : m = Cardinality(E) /\ n = Cardinality(G) /\ a = Distances(q, rows) /\ b = Distances(q, got)
  OBVIOUS
<1>2. m \in Nat /\ Len(a) = m /\ a = [i \in 1..m |-> FarOf(q)[rows[i]]]
  BY <1>1, DistancesOfSorted
<1>3. n \in Nat /\ Len(b) = n /\ b = [i \in 1..n |-> FarOf(q)[got[i]]]
  BY <1>1, DistancesOfSorted
<1>4. n <= m /\ \A i \in 1..n : FarOf(q)[rows[i]] <= FarOf(q)[got[i]]
  BY <1>1 DEF AsNear
<1>5. \A i \in 1..n : i \in 1..m
  BY <1>2, <1>3, <1>4
<1>6. \A i \in DOMAIN b : a[i] <= b[i]
  BY <1>2, <1>3, <1>4, <1>5
<1>7. AsGood(a, b)
  BY <1>2, <1>3, <1>4, <1>6 DEF AsGood
<1> QED BY <1>1, <1>7

-----------------------------------------------------------------------------
(* The plots.                                                              *)

\* All that is plotted has been searched for.
LEMMA PlotsAreSearches ==
    ASSUME FilesOfFlat, step = "built", NEW q, WellAsked(q), NEW plot \in {SweepOne(q), MeasureCollapse(q)}, NEW o \in DOMAIN plot
    PROVE  o \in Nat \ {0} /\ plot[o] = PostFilterSearch(q, o)
<1>1. \A n \in {1, RequiredOverfetch(q)} : n \in Nat \ {0}
  BY OverfetchIsPositive
<1>2. \A n \in OverfetchLevels : n \in Nat \ {0}
  BY DEF OverfetchLevels
<1>3. CASE plot = SweepOne(q)
  BY <1>1, <1>3 DEF SweepOne
<1>4. CASE plot = MeasureCollapse(q)
  BY <1>2, <1>4 DEF MeasureCollapse
<1> QED BY <1>3, <1>4

\* No filtering after the search beats the answer, and more fetched is no less.
LEMMA AnswersAreNeverBeaten ==
    ASSUME FilesOfFlat, Answered
    PROVE  PushdownIsNeverBeaten
<1> SUFFICES ASSUME answer # NoAnswer, answer.query.filtered, Unambiguous(answer.query)
             PROVE  PushdownIsNeverBeaten
  BY DEF PushdownIsNeverBeaten
<1>1. PICK q, rows : q = answer.query /\ rows = answer.rows
  OBVIOUS
<1>2. PICK D, E : Finds(q, D, E, rows)
  BY <1>1 DEF Answered
<1>3. step = "built" /\ WellAsked(q) /\ q.filtered /\ Unambiguous(q)
  BY <1>1 DEF Answered, FilesOfFlat, FlatTypeOK
<1>4. E \subseteq Rows /\ IsFiniteSet(E) /\ Sorts(rows, E, FarOf(q))
  BY <1>2, <1>3, TopIsFound DEF Finds
<1>5. PICK plots : plots = IF index = "brute" THEN {SweepOne(q), MeasureCollapse(q)} ELSE {SweepOne(q)}
  OBVIOUS
<1>6. \A plot \in plots : \A o \in DOMAIN plot : o \in Nat \ {0} /\ plot[o] = PostFilterSearch(q, o)
  <2>1. \A plot \in plots : plot \in {SweepOne(q), MeasureCollapse(q)}
    BY <1>5
  <2> QED BY <1>3, <2>1, PlotsAreSearches
<1>7. ASSUME NEW o \in Nat \ {0}, NEW got \in PostFilterSearch(q, o)
      PROVE  AsGood(Distances(q, rows), Distances(q, got))
  <2>1. PICK G : /\ IsFiniteSet(G) /\ G \subseteq Rows /\ Sorts(got, G, FarOf(q))
                 /\ AsNear(FarOf(q), rows, Cardinality(E), got, Cardinality(G))
    BY <1>2, <1>3, <1>7, PushdownIsAsNear
  <2> QED BY <1>3, <1>4, <2>1, AsNearIsAsGood
<1>8. ASSUME NEW o \in Nat \ {0}, NEW got \in PostFilterSearch(q, o), index = "brute" \/ q.effort >= Cells, q.k * o >= Len(ids)
      PROVE  Distances(q, got) = Distances(q, rows)
  <2>1. PICK G : /\ IsFiniteSet(G) /\ G \subseteq Rows /\ Sorts(got, G, FarOf(q))
                 /\ Cardinality(G) = Cardinality(E)
                 /\ \A i \in 1..Cardinality(E) : FarOf(q)[got[i]] = FarOf(q)[rows[i]]
    BY <1>2, <1>3, <1>8, AllFetchedIsAsNear
  <2>2. Distances(q, rows) = [i \in 1..Cardinality(E) |-> FarOf(q)[rows[i]]]
    BY <1>3, <1>4, DistancesOfSorted
  <2>3. Distances(q, got) = [i \in 1..Cardinality(G) |-> FarOf(q)[got[i]]]
    BY <1>3, <2>1, DistancesOfSorted
  <2> QED BY <2>1, <2>2, <2>3
<1>9. ASSUME index = "brute", NEW o \in Nat \ {0}, NEW more \in Nat \ {0}, more > o, CutsClean(q, q.k * more),
             NEW got \in PostFilterSearch(q, o), NEW better \in PostFilterSearch(q, more)
      PROVE  AsGood(Distances(q, better), Distances(q, got))
  <2>1. PICK G1, G2 : /\ IsFiniteSet(G1) /\ G1 \subseteq Rows /\ Sorts(got, G1, FarOf(q))
                      /\ IsFiniteSet(G2) /\ G2 \subseteq Rows /\ Sorts(better, G2, FarOf(q))
                      /\ AsNear(FarOf(q), better, Cardinality(G2), got, Cardinality(G1))
    BY <1>3, <1>9, MoreFetchedIsAsNear
  <2> QED BY <1>3, <2>1, AsNearIsAsGood
<1>10. \A plot \in plots : \A o \in DOMAIN plot : \A got \in plot[o] :
          /\ AsGood(Distances(q, rows), Distances(q, got))
          /\ (index = "brute" \/ q.effort >= Cells) /\ q.k * o >= Len(ids) => Distances(q, got) = Distances(q, rows)
          /\ index = "brute" => \A other \in plots : \A more \in DOMAIN other : \A better \in other[more] :
                more > o /\ CutsClean(q, q.k * more) => AsGood(Distances(q, better), Distances(q, got))
  <2> SUFFICES ASSUME NEW plot \in plots, NEW o \in DOMAIN plot, NEW got \in plot[o]
               PROVE  /\ AsGood(Distances(q, rows), Distances(q, got))
                      /\ (index = "brute" \/ q.effort >= Cells) /\ q.k * o >= Len(ids)
                            => Distances(q, got) = Distances(q, rows)
                      /\ index = "brute" => \A other \in plots : \A more \in DOMAIN other : \A better \in other[more] :
                            more > o /\ CutsClean(q, q.k * more) => AsGood(Distances(q, better), Distances(q, got))
    OBVIOUS
  <2>1. o \in Nat \ {0} /\ got \in PostFilterSearch(q, o)
    BY <1>6
  <2>2. AsGood(Distances(q, rows), Distances(q, got))
    BY <1>7, <2>1
  <2>3. (index = "brute" \/ q.effort >= Cells) /\ q.k * o >= Len(ids) => Distances(q, got) = Distances(q, rows)
    BY <1>8, <2>1
  <2>4. ASSUME index = "brute", NEW other \in plots, NEW more \in DOMAIN other, NEW better \in other[more],
               more > o, CutsClean(q, q.k * more)
        PROVE  AsGood(Distances(q, better), Distances(q, got))
    <3>1. more \in Nat \ {0} /\ better \in PostFilterSearch(q, more)
      BY <1>6, <2>4
    <3> QED BY <1>9, <2>1, <2>4, <3>1
  <2> QED BY <2>2, <2>3, <2>4
<1> QED BY <1>1, <1>5, <1>10 DEF PushdownIsNeverBeaten

\* Filtering after the search never gives more or nearer rows than the filter in it, and as good
\* ones where all is fetched; fetching more gives no less unless duplicates are cut apart.
THEOREM PushdownsAreNeverBeaten == PortSpec => []PushdownIsNeverBeaten
<1>1. FlatIInv => PushdownIsNeverBeaten
  BY AnswersAreNeverBeaten DEF FlatIInv
<1> QED BY <1>1, FlatInvariant, PTL

=============================================================================
