---------------------------- MODULE ListLemmas ----------------------------
(***************************************************************************)
(* What the proofs need to know of positions, orders and lists, whatever   *)
(* is in them.                                                             *)
(***************************************************************************)
EXTENDS Integers, SequencesExt, FiniteSetTheorems, SequenceTheorems, WellFoundedInduction, TLAPS

-----------------------------------------------------------------------------
(* Recursion over positions.                                               *)

\* What holds at 0 and is passed on holds up to N.
LEMMA UpTo ==
    ASSUME NEW N \in Nat, NEW P \in [0..N -> BOOLEAN], P[0],
           \A n \in 1..N : P[n - 1] => P[n]
    PROVE  \A n \in 0..N : P[n]
<1> SUFFICES ASSUME NEW k \in 0..N, ~P[k] PROVE FALSE
  OBVIOUS
<1>1. PICK S : S = {n \in 0..N : ~P[n]}
  OBVIOUS
<1>2. S \subseteq Nat /\ k \in S
  BY <1>1
<1>3. PICK m \in S : \A n \in S : ~(<<n, m>> \in OpToRel(<, Nat))
  BY <1>2, NatLessThanWellFounded, WFMin
<1>4. m \in 0..N /\ ~P[m] /\ m # 0
  BY <1>1, <1>3
<1>5. m - 1 \notin S
  <2>1. <<m - 1, m>> \in OpToRel(<, Nat)
    BY <1>4 DEF OpToRel
  <2> QED BY <1>3, <2>1
<1>6. P[m - 1]
  BY <1>1, <1>4, <1>5
<1> QED BY <1>4, <1>6

\* What no step leaves is not left.
LEMMA Stays ==
    ASSUME NEW N \in Nat, NEW T, NEW g, g[0] \in T, \A n \in 1..N : g[n - 1] \in T => g[n] \in T
    PROVE  \A n \in 0..N : g[n] \in T
<1> DEFINE P == [n \in 0..N |-> g[n] \in T]
<1>1. P \in [0..N -> BOOLEAN]
  OBVIOUS
<1>2. P[0]
  <2>1. 0 \in 0..N
    OBVIOUS
  <2> QED BY <2>1
<1>3. ASSUME NEW n \in 1..N, P[n - 1] PROVE P[n]
  <2>1. n - 1 \in 0..N /\ n \in 0..N
    OBVIOUS
  <2> QED BY <1>3, <2>1
<1>4. \A n \in 0..N : P[n]
  <2> HIDE DEF P
  <2> QED BY <1>1, <1>2, <1>3, UpTo
<1> QED BY <1>4

\* A set that holds 0 and, with a number, the next one, too.
LEMMA Counting ==
    ASSUME NEW N \in Nat, NEW T, 0 \in T, \A n \in 1..N : n - 1 \in T => n \in T
    PROVE  \A n \in 0..N : n \in T
<1>1. PICK g : g = [n \in 0..N |-> n]
  OBVIOUS
<1>2. \A n \in 0..N : g[n] = n
  BY <1>1
<1>3. g[0] \in T
  BY <1>2
<1>4. \A n \in 1..N : g[n - 1] \in T => g[n] \in T
  <2>1. \A n \in 1..N : n - 1 \in 0..N /\ n \in 0..N
    OBVIOUS
  <2> QED BY <1>2, <2>1
<1>5. \A n \in 0..N : g[n] \in T
  BY <1>3, <1>4, Stays
<1> QED BY <1>2, <1>5

\* A step for each position, and the runs they make from a state a.
Steps(N, S) == [1..N -> [S -> S]]
Runs(N, S, a, G) == {f \in [0..N -> S] : f[0] = a /\ \A n \in 1..N : f[n] = G[n][f[n - 1]]}

\* There is such a run.
LEMMA Iterates ==
    ASSUME NEW N \in Nat, NEW S, NEW a \in S, NEW G \in Steps(N, S)
    PROVE  Runs(N, S, a, G) # {}
<1> DEFINE From0(n, f) == f \in [0..n -> S] /\ f[0] = a /\ \A k \in 1..n : f[k] = G[k][f[k - 1]]
           P == [n \in 0..N |-> \E f : From0(n, f)]
<1>1. P \in [0..N -> BOOLEAN]
  OBVIOUS
<1>2. P[0]
  <2>1. From0(0, [k \in 0..0 |-> a])
    OBVIOUS
  <2> HIDE DEF From0
  <2> QED BY <2>1
<1>3. ASSUME NEW n \in 1..N, P[n - 1] PROVE P[n]
  <2>1. PICK f : From0(n - 1, f)
    BY <1>3
  <2>2. PICK g : g = [k \in 0..n |-> IF k = n THEN G[n][f[n - 1]] ELSE f[k]]
    OBVIOUS
  <2>3. f[n - 1] \in S /\ G[n][f[n - 1]] \in S
    BY <2>1 DEF Steps
  <2>4. g \in [0..n -> S] /\ g[0] = a
    BY <2>1, <2>2, <2>3
  <2>5. ASSUME NEW k \in 1..n PROVE g[k] = G[k][g[k - 1]]
    <3>1. CASE k = n
      <4>1. g[n - 1] = f[n - 1] /\ g[n] = G[n][f[n - 1]]
        BY <2>2
      <4> QED BY <3>1, <4>1
    <3>2. CASE k # n
      <4>1. k \in 1..n - 1 /\ g[k] = f[k] /\ g[k - 1] = f[k - 1]
        BY <2>2, <3>2
      <4> QED BY <2>1, <4>1
    <3> QED BY <3>1, <3>2
  <2>6. From0(n, g)
    BY <2>4, <2>5
  <2> HIDE DEF From0
  <2> QED BY <2>6
<1>4. P[N]
  <2> HIDE DEF P
  <2>1. \A n \in 0..N : P[n]
    BY <1>1, <1>2, <1>3, UpTo
  <2> QED BY <2>1
<1> QED BY <1>4 DEF Runs

-----------------------------------------------------------------------------
(* Orders.                                                                 *)

\* R is a strict total order of S.
Orders(R, S) ==
    /\ \A i \in S : <<i, i>> \notin R
    /\ \A i, j \in S : i # j => <<i, j>> \in R \/ <<j, i>> \in R
    /\ \A i, j, k \in S : <<i, j>> \in R /\ <<j, k>> \in R => <<i, k>> \in R

\* In a finite set that is ordered, for each number below its size there is one
\* element with so many before it.
LEMMA RanksAreUnique ==
    ASSUME NEW S, IsFiniteSet(S), NEW R, Orders(R, S)
    PROVE  /\ \A n \in 1..Cardinality(S) : \E i \in S :
                 \A k \in S : Cardinality({j \in S : <<j, k>> \in R}) = n - 1 <=> k = i
           /\ \A k \in S : \E n \in 1..Cardinality(S) :
                 Cardinality({j \in S : <<j, k>> \in R}) = n - 1
<1> DEFINE Below(k) == {j \in S : <<j, k>> \in R}
           N == Cardinality(S)
<1>1. N \in Nat /\ \A k \in S : IsFiniteSet(Below(k)) /\ Cardinality(Below(k)) \in Nat
  BY FS_CardinalityType, FS_Subset
<1>2. ASSUME NEW i \in S, NEW k \in S, <<i, k>> \in R
      PROVE  Cardinality(Below(i)) < Cardinality(Below(k))
  <2>1. Below(i) \subseteq Below(k) /\ i \in Below(k) /\ i \notin Below(i)
    BY <1>2 DEF Orders
  <2>2. Cardinality(Below(i)) <= Cardinality(Below(k)) /\ Cardinality(Below(i)) # Cardinality(Below(k))
    BY <1>1, <2>1, FS_Subset
  <2> QED BY <1>1, <2>2
<1>3. ASSUME NEW k \in S PROVE Cardinality(Below(k)) < N
  <2>1. Below(k) \subseteq S /\ k \notin Below(k)
    BY DEF Orders
  <2>2. Cardinality(Below(k)) <= N /\ Cardinality(Below(k)) # N
    BY <2>1, FS_Subset
  <2> QED BY <1>1, <2>2
<1>4. PICK f : f = [k \in S |-> Cardinality(Below(k)) + 1]
  OBVIOUS
<1>5. f \in [S -> 1..N]
  <2> HIDE DEF Below, N
  <2>1. \A k \in S : Cardinality(Below(k)) + 1 \in 1..N
    BY <1>1, <1>3
  <2> QED BY <1>4, <2>1
<1>6. ASSUME NEW i \in S, NEW k \in S, f[i] = f[k] PROVE i = k
  <2>1. Cardinality(Below(i)) = Cardinality(Below(k))
    BY <1>1, <1>4, <1>6
  <2> HIDE DEF Below
  <2>2. <<i, k>> \notin R /\ <<k, i>> \notin R
    BY <1>1, <1>2, <2>1
  <2> QED BY <2>2 DEF Orders
<1>7. f \in Injection(S, 1..N)
  BY <1>5, <1>6 DEF Injection, IsInjective
<1>8. IsFiniteSet(1..N) /\ Cardinality(1..N) = N
  <2> HIDE DEF N
  <2>1. IsFiniteSet(1..N) /\ Cardinality(1..N) = IF 1 > N THEN 0 ELSE N - 1 + 1
    BY <1>1, FS_Interval
  <2> QED BY <1>1, <2>1
<1>9. f \in Surjection(S, 1..N)
  BY <1>7, <1>8, FS_Injection
<1>10. ASSUME NEW n \in 1..N PROVE \E i \in S : \A k \in S : Cardinality(Below(k)) = n - 1 <=> k = i
  <2>1. PICK i \in S : f[i] = n
    BY <1>9 DEF Surjection
  <2> HIDE DEF Below, N
  <2>2. \A k \in S : Cardinality(Below(k)) = n - 1 <=> f[k] = n
    BY <1>1, <1>4
  <2> QED BY <1>6, <2>1, <2>2
<1>11. ASSUME NEW k \in S PROVE \E n \in 1..N : Cardinality(Below(k)) = n - 1
  <2> HIDE DEF Below, N
  <2>1. f[k] \in 1..N /\ Cardinality(Below(k)) = f[k] - 1
    BY <1>1, <1>4, <1>5
  <2> QED BY <2>1
<1> QED BY <1>10, <1>11

\* The elements of S in the order R, each in the place after all before it.
Sorting(R, S) ==
    [n \in 1..Cardinality(S) |->
        CHOOSE i \in S : Cardinality({j \in S : <<j, i>> \in R}) = n - 1]

\* They are all there, each once, and none behind one it is before.
LEMMA SortingSorts ==
    ASSUME NEW S, IsFiniteSet(S), NEW R, Orders(R, S)
    PROVE  /\ Cardinality(S) \in Nat
           /\ Sorting(R, S) \in [1..Cardinality(S) -> S]
           /\ IsInjective(Sorting(R, S)) /\ ToSet(Sorting(R, S)) = S
           /\ \A m, n \in 1..Cardinality(S) : <<Sorting(R, S)[m], Sorting(R, S)[n]>> \in R <=> m < n
<1>1. PICK N \in Nat : N = Cardinality(S)
  BY FS_CardinalityType
<1>2. \A n \in 1..N : \E i \in S :
        \A k \in S : Cardinality({j \in S : <<j, k>> \in R}) = n - 1 <=> k = i
  BY <1>1, RanksAreUnique
<1>3. PICK s : s = Sorting(R, S)
  OBVIOUS
<1>4. s = [n \in 1..N |-> CHOOSE i \in S : Cardinality({j \in S : <<j, i>> \in R}) = n - 1]
  BY <1>1, <1>3 DEF Sorting
<1>5. \A n \in 1..N : s[n] \in S /\ Cardinality({j \in S : <<j, s[n]>> \in R}) = n - 1
  <2> SUFFICES ASSUME NEW n \in 1..N
               PROVE  s[n] \in S /\ Cardinality({j \in S : <<j, s[n]>> \in R}) = n - 1
    OBVIOUS
  <2> DEFINE Rank(i) == Cardinality({j \in S : <<j, i>> \in R})
  <2>1. s[n] = CHOOSE i \in S : Rank(i) = n - 1
    BY <1>4
  <2>2. \E i \in S : Rank(i) = n - 1
    BY <1>2
  <2> HIDE DEF Rank
  <2>3. s[n] \in S /\ Rank(s[n]) = n - 1
    BY <2>1, <2>2
  <2> QED BY <2>3 DEF Rank
<1>6. s \in [1..N -> S]
  BY <1>4, <1>5
<1>7. \A m, n \in 1..N : s[m] = s[n] => m = n
  <2> SUFFICES ASSUME NEW m \in 1..N, NEW n \in 1..N, s[m] = s[n] PROVE m - 1 = n - 1
    OBVIOUS
  <2> QED BY <1>5
<1>8. s \in Injection(1..N, S) /\ IsInjective(s)
  BY <1>6, <1>7 DEF Injection, IsInjective
<1>9. s \in Surjection(1..N, S)
  <2>1. Cardinality(1..N) = IF 1 > N THEN 0 ELSE N - 1 + 1
    BY FS_Interval
  <2>2. Cardinality(1..N) = N
    BY <2>1
  <2> QED BY <1>1, <1>8, <2>2, FS_Injection
<1>10. ToSet(s) = S
  BY <1>6, <1>9 DEF Surjection, ToSet
<1>11. ASSUME NEW m \in 1..N, NEW n \in 1..N, <<s[m], s[n]>> \in R PROVE m < n
  <2>1. PICK B, C : B = {j \in S : <<j, s[m]>> \in R} /\ C = {j \in S : <<j, s[n]>> \in R}
    OBVIOUS
  <2>2. s[m] \in S /\ s[n] \in S /\ Cardinality(B) = m - 1 /\ Cardinality(C) = n - 1
    BY <1>5, <2>1
  <2>3. B \subseteq C /\ s[m] \in C /\ s[m] \notin B
    BY <1>11, <2>1, <2>2 DEF Orders
  <2>4. IsFiniteSet(C)
    BY <2>1, FS_Subset
  <2>5. Cardinality(B) <= Cardinality(C) /\ Cardinality(B) # Cardinality(C)
    BY <2>3, <2>4, FS_Subset
  <2> QED BY <2>2, <2>5
<1>12. ASSUME NEW m \in 1..N, NEW n \in 1..N, m < n PROVE <<s[m], s[n]>> \in R
  <2>1. s[m] \in S /\ s[n] \in S /\ s[m] # s[n]
    BY <1>6, <1>7, <1>12
  <2>2. <<s[n], s[m]>> \notin R
    BY <1>11, <1>12
  <2> QED BY <2>1, <2>2 DEF Orders
<1> QED BY <1>1, <1>3, <1>6, <1>8, <1>10, <1>11, <1>12

\* A function into the numbers has a least value.
LEMMA HasLeast ==
    ASSUME NEW X, X # {}, NEW f \in [X -> Nat]
    PROVE  \E x \in X : \A y \in X : f[x] <= f[y]
<1>1. PICK V : V = {f[x] : x \in X}
  OBVIOUS
<1>2. V \subseteq Nat /\ V # {}
  BY <1>1
<1>3. PICK m \in V : \A v \in V : ~(<<v, m>> \in OpToRel(<, Nat))
  BY <1>2, NatLessThanWellFounded, WFMin
<1>4. PICK x \in X : m = f[x]
  BY <1>1
<1>5. ASSUME NEW y \in X PROVE f[x] <= f[y]
  <2>1. f[y] \in V /\ f[y] \in Nat /\ f[x] \in Nat
    BY <1>1
  <2>2. ~(f[y] < f[x])
    BY <1>3, <1>4, <2>1 DEF OpToRel
  <2> QED BY <2>1, <2>2
<1> QED BY <1>5

-----------------------------------------------------------------------------
(* Lists.                                                                  *)

\* The numbers up to n are n.
LEMMA Counted ==
    ASSUME NEW n \in Nat
    PROVE  IsFiniteSet(1..n) /\ Cardinality(1..n) = n
<1>1. IsFiniteSet(1..n) /\ Cardinality(1..n) = IF 1 > n THEN 0 ELSE n - 1 + 1
  BY FS_Interval
<1> QED BY <1>1

\* A function on them is a list.
LEMMA Listed ==
    ASSUME NEW S, NEW n \in Nat, NEW f \in [1..n -> S]
    PROVE  f \in Seq(S) /\ Len(f) = n
<1>1. f \in Seq(S)
  BY SeqDef
<1>2. 1..Len(f) = 1..n /\ Len(f) \in Nat
  BY <1>1, LenProperties
<1>3. Cardinality(1..Len(f)) = Len(f) /\ Cardinality(1..n) = n
  BY <1>2, Counted
<1> QED BY <1>1, <1>2, <1>3

\* A list is one of its own elements.
LEMMA Elements ==
    ASSUME NEW S, NEW s \in Seq(S)
    PROVE  ToSet(s) \subseteq S /\ s \in Seq(ToSet(s)) /\ \A i \in 1..Len(s) : s[i] \in ToSet(s)
<1>1. PICK n \in Nat : n = Len(s) /\ s \in [1..n -> S] /\ DOMAIN s = 1..n
  BY LenProperties
<1>2. ToSet(s) = {s[i] : i \in 1..n}
  BY <1>1 DEF ToSet
<1>3. PICK T : T = ToSet(s)
  OBVIOUS
<1>4. \A i \in 1..n : s[i] \in T
  BY <1>2, <1>3
<1>5. s \in [1..n -> T]
  BY <1>1, <1>4
<1>6. s \in Seq(T)
  BY <1>5, SeqDef
<1> QED BY <1>1, <1>2, <1>3, <1>4, <1>6

\* A list without repetitions is as long as its elements are many.
LEMMA Distinct ==
    ASSUME NEW S, NEW s \in Seq(S), IsInjective(s)
    PROVE  Len(s) \in Nat /\ IsFiniteSet(ToSet(s)) /\ Cardinality(ToSet(s)) = Len(s)
<1>1. PICK n \in Nat : n = Len(s) /\ s \in [1..n -> S] /\ DOMAIN s = 1..n
  BY LenProperties
<1>2. PICK T : T = ToSet(s)
  OBVIOUS
<1>3. s \in Surjection(1..n, T)
  BY <1>1, <1>2 DEF Surjection, ToSet
<1>4. s \in Injection(1..n, T)
  BY <1>3 DEF Surjection, Injection
<1>5. IsFiniteSet(T) /\ Cardinality(T) = Cardinality(1..n)
  <2>1. IsFiniteSet(1..n)
    BY Counted
  <2> QED BY <1>3, <1>4, <2>1, FS_Surjection
<1>6. Cardinality(1..n) = n
  BY Counted
<1> QED BY <1>1, <1>2, <1>5, <1>6

\* One more element.
LEMMA Appending ==
    ASSUME NEW S, NEW s \in Seq(S), IsInjective(s), NEW e \in S, e \notin ToSet(s)
    PROVE  /\ Append(s, e) \in Seq(S) /\ Len(Append(s, e)) = Len(s) + 1
           /\ IsInjective(Append(s, e)) /\ ToSet(Append(s, e)) = ToSet(s) \union {e}
<1>1. PICK t : t = Append(s, e)
  OBVIOUS
<1>2. Len(s) \in Nat /\ DOMAIN s = 1..Len(s)
  BY LenProperties
<1>3. t \in Seq(S) /\ Len(t) = Len(s) + 1 /\ DOMAIN t = 1..Len(s) + 1
  BY <1>1, <1>2, AppendProperties, LenProperties
<1>4. (\A i \in 1..Len(s) : t[i] = s[i]) /\ t[Len(s) + 1] = e
  BY <1>1, AppendProperties
<1>5. \A i \in 1..Len(s) : s[i] # e
  BY <1>2 DEF ToSet
<1>6. IsInjective(t)
  <2> SUFFICES ASSUME NEW i \in 1..Len(s) + 1, NEW k \in 1..Len(s) + 1, t[i] = t[k], i # k PROVE FALSE
    BY <1>3 DEF IsInjective
  <2>1. CASE i <= Len(s) /\ k <= Len(s)
    <3>1. s[i] = s[k]
      BY <1>2, <1>4, <2>1
    <3> QED BY <1>2, <2>1, <3>1 DEF IsInjective
  <2>2. CASE i = Len(s) + 1
    BY <1>2, <1>4, <1>5, <2>2
  <2>3. CASE k = Len(s) + 1
    BY <1>2, <1>4, <1>5, <2>3
  <2> QED BY <1>2, <2>1, <2>2, <2>3
<1>7. ToSet(t) = ToSet(s) \union {e}
  BY <1>2, <1>3, <1>4 DEF ToSet
<1> QED BY <1>1, <1>3, <1>6, <1>7

\* Two lists that have nothing in common.
LEMMA Joining ==
    ASSUME NEW S, NEW s \in Seq(S), NEW t \in Seq(S), IsInjective(s), IsInjective(t),
           ToSet(s) \intersect ToSet(t) = {}
    PROVE  /\ s \o t \in Seq(S) /\ Len(s \o t) = Len(s) + Len(t)
           /\ IsInjective(s \o t) /\ ToSet(s \o t) = ToSet(s) \union ToSet(t)
<1>1. PICK u : u = s \o t
  OBVIOUS
<1>2. PICK a \in Nat, b \in Nat : a = Len(s) /\ b = Len(t) /\ DOMAIN s = 1..a /\ DOMAIN t = 1..b
  BY LenProperties
<1>3. u \in Seq(S) /\ Len(u) = a + b
  BY <1>1, <1>2, ConcatProperties
<1>4. DOMAIN u = 1..a + b
  BY <1>3, LenProperties
<1>5. \A i \in 1..a + b : u[i] = IF i <= a THEN s[i] ELSE t[i - a]
  BY <1>1, <1>2, ConcatProperties
<1>6. \A i \in 1..a : u[i] = s[i] /\ s[i] \in ToSet(s)
  BY <1>2, <1>5 DEF ToSet
<1>7. \A i \in a + 1..a + b : u[i] = t[i - a] /\ i - a \in 1..b /\ t[i - a] \in ToSet(t)
  BY <1>2, <1>5, SMTT(20) DEF ToSet
<1>8. IsInjective(u)
  <2> SUFFICES ASSUME NEW i \in 1..a + b, NEW k \in 1..a + b, u[i] = u[k] PROVE i = k
    BY <1>4 DEF IsInjective
  <2>1. CASE i <= a /\ k <= a
    BY <1>2, <1>6, <2>1 DEF IsInjective
  <2>2. CASE i > a /\ k > a
    <3>1. i - a \in 1..b /\ k - a \in 1..b /\ t[i - a] = t[k - a]
      BY <1>7, <2>2
    <3>2. i - a = k - a
      BY <1>2, <3>1 DEF IsInjective
    <3> QED BY <3>2
  <2>3. CASE i <= a /\ k > a
    BY <1>6, <1>7, <2>3
  <2>4. CASE i > a /\ k <= a
    BY <1>6, <1>7, <2>4
  <2> QED BY <2>1, <2>2, <2>3, <2>4
<1>9. ToSet(u) = ToSet(s) \union ToSet(t)
  <2>1. ToSet(u) \subseteq ToSet(s) \union ToSet(t)
    <3> SUFFICES ASSUME NEW i \in 1..a + b PROVE u[i] \in ToSet(s) \union ToSet(t)
      BY <1>4 DEF ToSet
    <3>1. i \in 1..a \/ i \in a + 1..a + b
      OBVIOUS
    <3> QED BY <1>6, <1>7, <3>1
  <2>2. ToSet(s) \subseteq ToSet(u)
    <3> SUFFICES ASSUME NEW i \in 1..a PROVE s[i] \in ToSet(u)
      BY <1>2 DEF ToSet
    <3>1. i \in 1..a + b /\ u[i] = s[i]
      BY <1>6
    <3> QED BY <1>4, <3>1 DEF ToSet
  <2>3. ToSet(t) \subseteq ToSet(u)
    <3> SUFFICES ASSUME NEW i \in 1..b PROVE t[i] \in ToSet(u)
      BY <1>2 DEF ToSet
    <3>1. a + i \in a + 1..a + b /\ (a + i) - a = i
      OBVIOUS
    <3>2. a + i \in 1..a + b /\ u[a + i] = t[i]
      BY <1>7, <3>1
    <3> QED BY <1>4, <3>2 DEF ToSet
  <2> QED BY <2>1, <2>2, <2>3
<1> QED BY <1>1, <1>2, <1>3, <1>8, <1>9

\* The elements of a list from position a to position b.
Part(s, a, b) == {s[i] : i \in a..b}

\* A part of a list.
LEMMA Slicing ==
    ASSUME NEW S, NEW s \in Seq(S), IsInjective(s), NEW a \in 1..Len(s) + 1, NEW b \in a - 1..Len(s)
    PROVE  /\ SubSeq(s, a, b) \in Seq(S) /\ Len(SubSeq(s, a, b)) = b - a + 1
           /\ IsInjective(SubSeq(s, a, b)) /\ ToSet(SubSeq(s, a, b)) = Part(s, a, b)
<1>1. PICK t : t = SubSeq(s, a, b)
  OBVIOUS
<1>2. Len(s) \in Nat /\ DOMAIN s = 1..Len(s) /\ a \in Int /\ b \in Int
  BY LenProperties
<1>3. \A i \in a..b : s[i] \in S
  BY <1>2, ElementOfSeq
<1>4. t \in Seq(S) /\ Len(t) = IF a <= b THEN b - a + 1 ELSE 0
  BY <1>1, <1>2, <1>3, SubSeqProperties
<1>5. \A i \in 1..b - a + 1 : t[i] = s[a + i - 1]
  BY <1>1, <1>2, <1>3, SubSeqProperties
<1>6. Len(t) = b - a + 1
  BY <1>2, <1>4
<1>7. DOMAIN t = 1..b - a + 1
  BY <1>4, <1>6, LenProperties
<1>8. IsInjective(t)
  <2> SUFFICES ASSUME NEW i \in 1..b - a + 1, NEW k \in 1..b - a + 1, t[i] = t[k] PROVE i = k
    BY <1>7 DEF IsInjective
  <2>1. s[a + i - 1] = s[a + k - 1] /\ a + i - 1 \in 1..Len(s) /\ a + k - 1 \in 1..Len(s)
    BY <1>2, <1>5
  <2>2. a + i - 1 = a + k - 1
    BY <1>2, <2>1 DEF IsInjective
  <2> QED BY <1>2, <2>2
<1>9. ToSet(t) = {s[i] : i \in a..b}
  <2>1. \A i \in 1..b - a + 1 : a + i - 1 \in a..b /\ t[i] = s[a + i - 1]
    BY <1>2, <1>5
  <2>2. \A i \in a..b : i - a + 1 \in 1..b - a + 1 /\ t[i - a + 1] = s[i]
    <3> SUFFICES ASSUME NEW i \in a..b PROVE i - a + 1 \in 1..b - a + 1 /\ t[i - a + 1] = s[i]
      OBVIOUS
    <3>1. i - a + 1 \in 1..b - a + 1 /\ a + (i - a + 1) - 1 = i
      BY <1>2
    <3> QED BY <1>5, <3>1
  <2> QED BY <1>7, <2>1, <2>2 DEF ToSet
<1> QED BY <1>1, <1>4, <1>6, <1>8, <1>9 DEF Part

-----------------------------------------------------------------------------
(* Lists laid end to end.                                                  *)

\* The runs of lists laid end to end.
Laid(N, s, h) == h[0] = <<>> /\ \A n \in 1..N : h[n] = h[n - 1] \o s[n]

\* What FlattenSeq makes of a list of lists.
LEMMA Flattening ==
    ASSUME NEW S, NEW N \in Nat, NEW s \in Seq(Seq(S)), Len(s) = N,
           NEW h \in [0..N -> Seq(S)], Laid(N, s, h)
    PROVE  FlattenSeq(s) = h[N]
<1> DEFINE Sat(f) == f = [i \in 1..Len(s) |-> IF i = 1 THEN s[i] ELSE f[i - 1] \o s[i]]
<1>1. h[0] = <<>> /\ \A n \in 1..N : s[n] \in Seq(S) /\ h[n] = h[n - 1] \o s[n]
  BY ElementOfSeq DEF Laid
<1>2. CASE N = 0
  <2>1. s = <<>>
    BY <1>2, EmptySeq
  <2> QED BY <1>1, <1>2, <2>1 DEF FlattenSeq
<1>3. CASE N # 0
  <2>1. 1 \in 1..N /\ h[1] = s[1]
    <3>1. 1 \in 1..N /\ 1 - 1 = 0
      BY <1>3
    <3>2. h[1] = <<>> \o s[1] /\ s[1] \in Seq(S)
      BY <1>1, <3>1
    <3> QED BY <3>1, <3>2, ConcatEmptySeq
  <2>2. PICK e : e = [i \in 1..N |-> h[i]]
    OBVIOUS
  <2>3. Sat(e)
    <3>1. ASSUME NEW i \in 1..N PROVE h[i] = IF i = 1 THEN s[i] ELSE e[i - 1] \o s[i]
      <4>1. CASE i = 1
        BY <2>1, <4>1
      <4>2. CASE i # 1
        <5>1. i - 1 \in 1..N
          BY <4>2
        <5> QED BY <1>1, <2>2, <4>2, <5>1
      <4> QED BY <4>1, <4>2
    <3> QED BY <2>2, <3>1
  <2>4. PICK f : f = CHOOSE g : Sat(g)
    OBVIOUS
  <2>5. Sat(f)
    <3> HIDE DEF Sat
    <3> QED BY <2>3, <2>4
  <2>6. FlattenSeq(s) = f[N]
    BY <1>3, <2>4 DEF FlattenSeq
  <2>7. \A i \in 1..N : f[i] = IF i = 1 THEN s[i] ELSE f[i - 1] \o s[i]
    BY <2>5
  <2> HIDE DEF Sat
  <2>8. PICK T : T = {n \in 0..N : n = 0 \/ f[n] = h[n]}
    OBVIOUS
  <2>9. 0 \in T
    BY <2>8
  <2>10. ASSUME NEW n \in 1..N, n - 1 \in T PROVE n \in T
    <3>1. CASE n = 1
      BY <2>1, <2>7, <2>8, <3>1
    <3>2. CASE n # 1
      <4>1. n - 1 \in 0..N /\ n - 1 # 0 /\ n \in 0..N
        BY <3>2
      <4>2. f[n - 1] = h[n - 1]
        BY <2>8, <2>10, <4>1
      <4>3. f[n] = f[n - 1] \o s[n] /\ h[n] = h[n - 1] \o s[n]
        BY <1>1, <2>7, <3>2
      <4> QED BY <2>8, <4>1, <4>2, <4>3
    <3> QED BY <3>1, <3>2
  <2>11. \A n \in 0..N : n \in T
    BY <2>9, <2>10, Counting
  <2>12. f[N] = h[N]
    BY <1>3, <2>8, <2>11
  <2> QED BY <2>6, <2>12
<1> QED BY <1>2, <1>3

\* Each list is found again between where it begins and where the next one does.
FoundAgain(N, s, h) ==
    \A n \in 1..N : /\ Len(h[n]) = Len(h[n - 1]) + Len(s[n])
                   /\ SubSeq(h[N], Len(h[n - 1]) + 1, Len(h[n])) = s[n]

\* Lists that are laid end to end can be told apart again.
LEMMA Slices ==
    ASSUME NEW S, NEW N \in Nat, NEW s \in [1..N -> Seq(S)],
           NEW h \in [0..N -> Seq(S)], Laid(N, s, h)
    PROVE  FoundAgain(N, s, h)
<1>1. PICK z : \A n \in 0..N : z[n] = Len(h[n]) /\ z[n] \in Nat /\ h[n] \in Seq(S)
  <2>1. PICK z : z = [n \in 0..N |-> Len(h[n])]
    OBVIOUS
  <2>2. \A n \in 0..N : h[n] \in Seq(S)
    OBVIOUS
  <2>3. \A n \in 0..N : z[n] = Len(h[n])
    BY <2>1
  <2>4. ASSUME NEW n \in 0..N PROVE Len(h[n]) \in Nat
    BY <2>2, LenProperties
  <2> QED BY <2>2, <2>3, <2>4
<1>2. ASSUME NEW n \in 1..N
      PROVE  /\ n - 1 \in 0..N /\ n \in 0..N /\ s[n] \in Seq(S) /\ Len(s[n]) \in Nat
             /\ z[n] = z[n - 1] + Len(s[n])
             /\ \A i \in 1..z[n] : h[n][i] = IF i <= z[n - 1] THEN h[n - 1][i] ELSE s[n][i - z[n - 1]]
  <2>1. n - 1 \in 0..N /\ n \in 0..N /\ s[n] \in Seq(S) /\ Len(s[n]) \in Nat
    BY LenProperties
  <2>2. PICK a, b, c : a = h[n - 1] /\ b = s[n] /\ c = h[n]
    OBVIOUS
  <2>3. c = a \o b /\ a \in Seq(S) /\ b \in Seq(S) /\ z[n] = Len(c) /\ z[n - 1] = Len(a)
    BY <1>1, <2>1, <2>2 DEF Laid
  <2>4. /\ Len(c) = Len(a) + Len(b)
        /\ \A i \in 1..Len(a) + Len(b) : c[i] = IF i <= Len(a) THEN a[i] ELSE b[i - Len(a)]
    BY <2>3, ConcatProperties
  <2> QED BY <2>1, <2>2, <2>3, <2>4
<1>3. ASSUME NEW n \in 1..N
      PROVE  z[n] <= z[N] /\ \A i \in 1..z[n] : h[N][i] = h[n][i]
  <2>1. PICK T : T = {k \in 0..N : n <= k => z[n] <= z[k] /\ \A i \in 1..z[n] : h[k][i] = h[n][i]}
    OBVIOUS
  <2>2. 0 \in T
    BY <2>1
  <2>3. ASSUME NEW k \in 1..N, k - 1 \in T PROVE k \in T
    <3> SUFFICES ASSUME n <= k PROVE z[n] <= z[k] /\ \A i \in 1..z[n] : h[k][i] = h[n][i]
      BY <2>1
    <3>1. CASE n = k
      BY <1>1, <3>1
    <3>2. CASE n # k
      <4>1. n <= k - 1 /\ k - 1 \in 0..N
        BY <3>2
      <4>2. z[n] <= z[k - 1] /\ \A i \in 1..z[n] : h[k - 1][i] = h[n][i]
        BY <2>1, <2>3, <4>1
      <4>3. z[k - 1] \in Nat /\ z[k] \in Nat /\ z[n] \in Nat /\ z[k - 1] <= z[k]
        <5>1. z[k - 1] \in Nat /\ z[k] \in Nat /\ z[n] \in Nat
          BY <1>1, <4>1
        <5>2. PICK a, b, d : a = z[k - 1] /\ b = z[k] /\ d = Len(s[k])
          OBVIOUS
        <5>3. a \in Nat /\ b \in Nat /\ d \in Nat /\ b = a + d
          BY <1>2, <5>1, <5>2
        <5>4. a <= b
          BY <5>3
        <5> QED BY <5>1, <5>2, <5>4
      <4>4. \A i \in 1..z[k - 1] : h[k][i] = h[k - 1][i]
        <5>1. \A i \in 1..z[k] : h[k][i] = IF i <= z[k - 1] THEN h[k - 1][i] ELSE s[k][i - z[k - 1]]
          BY <1>2
        <5>2. \A i \in 1..z[k - 1] : i \in 1..z[k] /\ i <= z[k - 1]
          BY <4>3
        <5> QED BY <5>1, <5>2
      <4>5. \A i \in 1..z[n] : i \in 1..z[k - 1]
        <5>1. PICK a \in Nat, b \in Nat : a = z[n] /\ b = z[k - 1] /\ a <= b
          BY <4>2, <4>3
        <5>2. \A i \in 1..a : i \in 1..b
          BY <5>1
        <5> QED BY <5>1, <5>2
      <4> QED BY <4>2, <4>3, <4>4, <4>5, SMTT(20)
    <3> QED BY <3>1, <3>2
  <2>4. \A k \in 0..N : k \in T
    BY <2>2, <2>3, Counting
  <2>5. N \in T /\ n <= N
    BY <2>4
  <2> QED BY <2>1, <2>5
<1>4. ASSUME NEW n \in 1..N
      PROVE  SubSeq(h[N], z[n - 1] + 1, z[n]) = s[n]
  <2>1. PICK a, b, c, u, d : /\ a = z[n - 1] /\ b = z[n] /\ c = h[N] /\ u = s[n] /\ d = Len(u)
    OBVIOUS
  <2>2. a \in Nat /\ b \in Nat /\ d \in Nat /\ b = a + d /\ u \in Seq(S)
    BY <1>1, <1>2, <2>1
  <2>3. \A i \in 1..b : c[i] = IF i <= a THEN h[n - 1][i] ELSE u[i - a]
    <3>1. \A i \in 1..b : c[i] = h[n][i]
      BY <1>3, <2>1
    <3>2. \A i \in 1..b : h[n][i] = IF i <= a THEN h[n - 1][i] ELSE u[i - a]
      BY <1>2, <2>1
    <3> QED BY <3>1, <3>2
  <2>4. \A i \in 1..d : u[i] \in S
    BY <2>1, <2>2, ElementOfSeq
  <2>5. \A i \in a + 1..b : c[i] = u[i - a] /\ i - a \in 1..d
    BY <2>2, <2>3
  <2>6. \A i \in a + 1..b : c[i] \in S
    BY <2>4, <2>5
  <2>7. PICK f \in Int : f = a + 1
    BY <2>2
  <2>8. PICK v : v = SubSeq(c, f, b)
    OBVIOUS
  <2>9. /\ v \in Seq(S) /\ Len(v) = IF f <= b THEN b - f + 1 ELSE 0
        /\ \A i \in 1..b - f + 1 : v[i] = c[f + i - 1]
    <3>1. b \in Int /\ \A i \in f..b : c[i] \in S
      BY <2>2, <2>6, <2>7
    <3>2. f \in Int /\ v = SubSeq(c, f, b)
      BY <2>7, <2>8
    <3> QED BY <3>1, <3>2, SubSeqProperties, SMTT(30)
  <2>10. Len(v) = d
    BY <2>2, <2>7, <2>9
  <2>11. \A i \in 1..d : v[i] = u[i]
    <3> SUFFICES ASSUME NEW i \in 1..d PROVE v[i] = u[i]
      OBVIOUS
    <3>1. a + i \in a + 1..b /\ a + i - a = i /\ i \in 1..b - f + 1 /\ f + i - 1 = a + i
      BY <2>2, <2>7
    <3>2. c[a + i] = u[i]
      <4>1. PICK j : j = a + i
        OBVIOUS
      <4>2. j \in a + 1..b /\ j - a = i
        BY <2>2, <4>1
      <4>3. c[j] = u[j - a]
        BY <2>5, <4>2
      <4> QED BY <4>1, <4>2, <4>3
    <3>3. v[i] = c[f + i - 1]
      BY <2>9, <3>1
    <3> QED BY <3>1, <3>2, <3>3
  <2>12. v = u
    BY <2>1, <2>2, <2>9, <2>10, <2>11, SeqEqual
  <2> QED BY <2>1, <2>7, <2>8, <2>12
<1> QED BY <1>1, <1>2, <1>4 DEF FoundAgain

===========================================================================
