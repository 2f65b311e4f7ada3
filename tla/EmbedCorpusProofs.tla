------------------------- MODULE EmbedCorpusProofs -------------------------
(***************************************************************************)
(* Proofs about EmbedCorpus, for every corpus, every number of processes   *)
(* and every size of batch and commit.  The inductive invariant says what  *)
(* the locals of embed_corpus mean while other processes fill the table:   *)
(* the hashes it found are in order, those it is about to insert end where *)
(* it has come to, and all before them are in the table.                   *)
(***************************************************************************)
EXTENDS EmbedCorpus, FiniteSetTheorems, SequenceTheorems, WellFoundedInduction, TLAPS

\* The rows that hold the vector of their own text.
Own == {<<h, h>> : h \in Nat}

EmbedTypeOK ==
    /\ chunks \subseteq Chunks
    /\ embeddings \subseteq Own
    /\ run \in [Embedders -> {"idle", "call", "insert", "done", "failed"}]
    /\ rows \in [Embedders -> Seq(Nat)]
    /\ start \in [Embedders -> Nat \ {0}]
    /\ attempt \in [Embedders -> 1..MaxCalls]
    /\ pending \in [Embedders -> Seq(Own)]
    /\ written \in [Embedders -> SUBSET Own]
    /\ mishaps \in 0..MaxMishaps

Working(p) == run[p] \in {"call", "insert"}

\* Where the batch of a process ends.
End(p) == IF IsLast(p) THEN Len(rows[p]) ELSE start[p] + BatchSize - 1

\* How many of its hashes a process has vectors of, those in the table included.
Reached(p) == IF run[p] = "insert" THEN End(p) ELSE start[p] - 1

\* Those that are behind its pending rows.
Base(p) == Reached(p) - Len(pending[p])

\* Outside embed_corpus there are no locals and there is no transaction.
Rested(p) == ~Working(p) => start[p] = 1 /\ pending[p] = <<>> /\ written[p] = {}

\* The hashes are in order, and there are some in the batch.
Listed(p) ==
    Working(p) => /\ start[p] <= Len(rows[p])
                  /\ \A i, k \in 1..Len(rows[p]) : i < k => rows[p][i] < rows[p][k]

\* The pending rows are the last hashes it has come to, in their order.
Segment(p) ==
    Working(p) => /\ Base(p) \in Nat
                  /\ \A n \in 1..Len(pending[p]) : Hash(pending[p][n]) = rows[p][Base(p) + n]

\* All hashes before them are in the table.
Behind(p) == Working(p) => \A i \in 1..Base(p) : rows[p][i] \in Hashes(embeddings)

\* A process that calls the provider has no transaction, and few rows pending.
Few(p) == run[p] = "call" => written[p] = {} /\ Len(pending[p]) < CommitEvery

\* A transaction has inserted its rows in order.
Ascending(p) == \A e \in written[p], n \in Left(p) : Hash(e) < Hash(pending[p][n])

ProcInv(p) ==
    Rested(p) /\ Listed(p) /\ Segment(p) /\ Behind(p) /\ Few(p) /\ Ascending(p)

EmbedInv == EmbedTypeOK /\ \A p \in Embedders : ProcInv(p)

-----------------------------------------------------------------------------
(* Orders.                                                                 *)

\* A set of positions that is not empty has a first one.
LEMMA MinFirst ==
    ASSUME NEW S, S \subseteq Nat, S # {}
    PROVE  Min(S) \in S /\ \A n \in S : Min(S) <= n
<1>1. PICK m \in S : \A n \in S : ~(<<n, m>> \in OpToRel(<, Nat))
  BY NatLessThanWellFounded, WFMin
<1>2. \A n \in S : m <= n
  <2> SUFFICES ASSUME NEW n \in S, n < m PROVE FALSE
    OBVIOUS
  <2>1. <<n, m>> \in OpToRel(<, Nat)
    BY DEF OpToRel
  <2> QED BY <1>1, <2>1
<1> QED BY <1>2 DEF Min

\* A map of 1..n to itself that keeps the order is the identity.
LEMMA MonotoneIsIdentity ==
    ASSUME NEW n \in Nat, NEW f \in [1..n -> 1..n],
           \A i, k \in 1..n : i < k => f[i] < f[k]
    PROVE  \A i \in 1..n : f[i] = i
<1>1. ASSUME NEW i \in 1..n, f[i] < i PROVE FALSE
  <2>1. PICK L : L = {x \in 1..n : f[x] < x}
    OBVIOUS
  <2>1a. L \subseteq Nat /\ i \in L
    BY <1>1, <2>1
  <2>2. Min(L) \in L /\ \A x \in L : Min(L) <= x
    BY <2>1a, MinFirst
  <2>3. PICK m \in 1..n : f[m] < m /\ \A x \in 1..n : f[x] < x => m <= x
    BY <2>1, <2>2
  <2> QED BY <2>3
<1>2. ASSUME NEW i \in 1..n, i < f[i] PROVE FALSE
  <2>1. PICK L : L = {x \in 0..n : n - x \in 1..n /\ n - x < f[n - x]}
    OBVIOUS
  <2>2. L \subseteq Nat /\ n - i \in L
    <3>1. n - i \in 0..n /\ n - (n - i) = i
      OBVIOUS
    <3> QED BY <1>2, <2>1, <3>1
  <2>3. Min(L) \in L /\ \A x \in L : Min(L) <= x
    BY <2>2, MinFirst
  <2>4. PICK m \in 1..n : m = n - Min(L) /\ m < f[m]
    BY <2>1, <2>3
  <2>5. f[m] \in 1..n /\ f[m] < f[f[m]]
    BY <2>4
  <2>6. n - f[m] \in L
    <3>1. n - f[m] \in 0..n /\ n - (n - f[m]) = f[m]
      BY <2>5
    <3> QED BY <2>1, <2>5, <3>1
  <2>7. Min(L) \in 0..n
    BY <2>1, <2>3
  <2> QED BY <2>3, <2>4, <2>5, <2>6, <2>7
<1> QED BY <1>1, <1>2

\* InOrder lists a finite set of numbers in increasing order.
LEMMA InOrderIncreases ==
    ASSUME NEW S, S \subseteq Nat, IsFiniteSet(S)
    PROVE  /\ Cardinality(S) \in Nat
           /\ InOrder(S) \in [1..Cardinality(S) -> S]
           /\ \A i, k \in 1..Cardinality(S) : i < k => InOrder(S)[i] < InOrder(S)[k]
<1> DEFINE N == Cardinality(S)
           Below(h) == {g \in S : g <= h}
<1>1. N \in Nat
  BY FS_CardinalityType
<1>2. \A h \in S : IsFiniteSet(Below(h)) /\ Cardinality(Below(h)) \in 1..N
  <2> SUFFICES ASSUME NEW h \in S
               PROVE  IsFiniteSet(Below(h)) /\ Cardinality(Below(h)) \in 1..N
    OBVIOUS
  <2>1. Below(h) \in SUBSET S /\ h \in Below(h)
    OBVIOUS
  <2>2. IsFiniteSet(Below(h)) /\ Cardinality(Below(h)) <= N
    BY <2>1, FS_Subset
  <2>3. Cardinality(Below(h)) \in Nat /\ Cardinality(Below(h)) # 0
    BY <2>1, <2>2, FS_CardinalityType, FS_EmptySet
  <2> QED BY <1>1, <2>2, <2>3
<1>3. PICK rank \in [S -> 1..N] : \A h \in S : rank[h] = Cardinality(Below(h)) /\ rank[h] = Rank(h, S)
  <2> DEFINE rank == [h \in S |-> Cardinality(Below(h))]
  <2>1. rank \in [S -> 1..N]
    BY <1>2
  <2>2. \A h \in S : rank[h] = Cardinality(Below(h)) /\ rank[h] = Rank(h, S)
    BY DEF Rank
  <2> HIDE DEF rank, Below
  <2> QED BY <2>1, <2>2
<1>4. \A g, h \in S : g < h => rank[g] < rank[h]
  <2> SUFFICES ASSUME NEW g \in S, NEW h \in S, g < h PROVE rank[g] < rank[h]
    OBVIOUS
  <2>1. \A x \in S : x \in Nat
    OBVIOUS
  <2>2. g \in Nat /\ h \in Nat /\ \A x \in S : x <= g => x <= h
    BY <2>1
  <2>3. Below(g) \in SUBSET Below(h) /\ h \in Below(h) /\ h \notin Below(g)
    <3>1. h <= h /\ ~(h <= g)
      BY <2>2
    <3>2. \A x \in Below(g) : x \in Below(h)
      BY <2>2
    <3> QED BY <3>1, <3>2
  <2>4. IsFiniteSet(Below(h)) /\ Below(g) # Below(h)
    BY <1>2, <2>3
  <2>5. Cardinality(Below(g)) <= Cardinality(Below(h)) /\ Cardinality(Below(g)) # Cardinality(Below(h))
    BY <2>3, <2>4, FS_Subset
  <2>6. rank[g] <= rank[h] /\ rank[g] # rank[h] /\ rank[g] \in Nat /\ rank[h] \in Nat
    BY <1>1, <1>3, <2>5
  <2> QED BY <2>6
<1>5. \A n \in 1..N : \E h \in S : Rank(h, S) = n
  <2>1. \A g, h \in S : g # h => rank[g] # rank[h]
    <3> SUFFICES ASSUME NEW g \in S, NEW h \in S, g # h, rank[g] = rank[h] PROVE FALSE
      OBVIOUS
    <3>1. g \in Nat /\ h \in Nat /\ rank[g] \in 1..N /\ rank[h] \in 1..N
      BY <1>3
    <3>2. g < h \/ h < g
      BY <3>1
    <3> QED BY <1>1, <1>4, <3>1, <3>2
  <2>2. rank \in Injection(S, 1..N)
    BY <2>1 DEF Injection, IsInjective
  <2>3. IsFiniteSet(1..N) /\ Cardinality(1..N) = N
    BY <1>1, FS_Interval
  <2>4. rank \in Surjection(S, 1..N)
    BY <2>2, <2>3, FS_Injection
  <2> QED BY <1>3, <2>4 DEF Surjection
<1>6. \A n \in 1..N : InOrder(S)[n] \in S /\ Rank(InOrder(S)[n], S) = n
  BY <1>5 DEF InOrder
<1>7. InOrder(S) \in [1..N -> S]
  BY <1>6 DEF InOrder
<1>8. \A i, k \in 1..N : i < k => InOrder(S)[i] < InOrder(S)[k]
  <2> SUFFICES ASSUME NEW i \in 1..N, NEW k \in 1..N, i < k, ~(InOrder(S)[i] < InOrder(S)[k])
               PROVE  FALSE
    OBVIOUS
  <2>1. PICK g \in S, h \in S : g = InOrder(S)[k] /\ h = InOrder(S)[i]
    BY <1>6
  <2>2. rank[g] = k /\ rank[h] = i
    BY <1>3, <1>6, <2>1
  <2>3. g \in Nat /\ h \in Nat /\ (g = h \/ g < h)
    BY <2>1
  <2> QED BY <1>1, <1>4, <2>2, <2>3
<1> QED BY <1>1, <1>7, <1>8

\* The answer to the texts B in some order.
Answer(B, order) == [n \in DOMAIN order |-> [index |-> order[n], embedding |-> B[order[n]]]]

\* What _to_vectors makes of an answer in any order: the rows of the request.
LEMMA ToVectorsSorts ==
    ASSUME NEW B \in Seq(Nat), NEW order \in SetToSeqs(DOMAIN B)
    PROVE  ToVectors(Answer(B, order)) = [n \in 1..Len(B) |-> B[n]]
<1> DEFINE N == Len(B)
           data == Answer(B, order)
<1>1. N \in Nat /\ DOMAIN B = 1..N
  BY LenProperties
<1>2. Cardinality(1..N) = N /\ IsFiniteSet(1..N)
  <2> HIDE DEF N
  <2>1. IsFiniteSet(1..N) /\ Cardinality(1..N) = IF 1 <= N THEN N - 1 + 1 ELSE 0
    BY <1>1, FS_Interval
  <2> QED BY <1>1, <2>1
<1>3. /\ order \in [1..N -> 1..N] /\ \A i, k \in 1..N : i # k => order[i] # order[k]
  <2>1. order \in SetToSeqs(1..N)
    BY <1>1
  <2>2. PICK c : c = Cardinality(1..N)
    OBVIOUS
  <2>3. order \in [1..c -> 1..N] /\ \A i, k \in 1..c : i # k => order[i] # order[k]
    BY <2>1, <2>2 DEF SetToSeqs
  <2> QED BY <1>2, <2>2, <2>3
<1>4. \A m \in 1..N : \E i \in 1..N : order[i] = m
  <2>1. order \in Injection(1..N, 1..N)
    BY <1>3 DEF Injection, IsInjective
  <2>2. order \in Surjection(1..N, 1..N)
    BY <1>2, <2>1, FS_Injection
  <2> QED BY <2>2 DEF Surjection
<1>5. PICK D \in SUBSET [index : 1..N, embedding : Nat] : D = Range(data)
  <2>1. \A n \in 1..N : data[n] \in [index : 1..N, embedding : Nat]
    BY <1>1, <1>3 DEF Answer
  <2> QED BY <1>3, <2>1 DEF Range, Answer
<1>6. \A d \in D : d.embedding = B[d.index]
  BY <1>3, <1>5 DEF Range, Answer
<1>7. {d.index : d \in D} = 1..N
  <2>1. ASSUME NEW m \in 1..N PROVE \E d \in D : d.index = m
    <3>1. PICK i \in 1..N : order[i] = m
      BY <1>4
    <3>2. data[i].index = m /\ i \in DOMAIN data
      BY <1>3, <3>1 DEF Answer
    <3>3. data[i] \in D
      BY <1>5, <3>2 DEF Range
    <3> QED BY <3>2, <3>3
  <2> QED BY <2>1
<1>8. /\ InOrder(1..N) \in [1..N -> 1..N]
      /\ \A i, k \in 1..N : i < k => InOrder(1..N)[i] < InOrder(1..N)[k]
  BY <1>1, <1>2, InOrderIncreases
<1>9. \A n \in 1..N : InOrder(1..N)[n] = n
  BY <1>1, <1>8, MonotoneIsIdentity
<1>10. ToVectors(data) = [n \in 1..N |-> (CHOOSE d \in Range(data) : d.index = n).embedding]
  <2> HIDE DEF data
  <2> DEFINE I == {d.index : d \in Range(data)}
             T(q) == [n \in DOMAIN q |-> (CHOOSE d \in Range(data) : d.index = q[n]).embedding]
  <2>1. ToVectors(data) = T(InOrder(I))
    BY DEF ToVectors
  <2>2. I = 1..N
    BY <1>5, <1>7
  <2>3. InOrder(1..N) = [n \in 1..N |-> n]
    BY <1>8, <1>9
  <2>4. ToVectors(data) = T([n \in 1..N |-> n])
    <3> HIDE DEF T, I
    <3> QED BY <2>1, <2>2, <2>3
  <2> QED BY <2>4
<1>11. \A n \in 1..N : (CHOOSE d \in Range(data) : d.index = n).embedding = B[n]
  <2> HIDE DEF data
  <2> SUFFICES ASSUME NEW n \in 1..N
               PROVE  (CHOOSE d \in Range(data) : d.index = n).embedding = B[n]
    OBVIOUS
  <2>1. PICK d \in Range(data) : d.index = n
    BY <1>5, <1>7
  <2>2. PICK e : e = CHOOSE x \in Range(data) : x.index = n
    OBVIOUS
  <2>3. e \in Range(data) /\ e.index = n
    BY <2>1, <2>2
  <2> QED BY <1>5, <1>6, <2>2, <2>3
<1> QED BY <1>10, <1>11

-----------------------------------------------------------------------------
(* The steps.                                                              *)

\* The constants that the sizes are.
LEMMA Sizes == /\ Len(Sha) \in Nat /\ Chunks = 1..Len(Sha) /\ \A c \in Chunks : Sha[c] \in Nat
               /\ BatchSize \in Nat \ {0} /\ CommitEvery \in Nat \ {0} /\ MaxCalls \in Nat \ {0}
               /\ MaxMishaps \in Nat
BY EmbedAssumption DEF Chunks

\* What others do to the table takes nothing from a process: hashes are only added.
LEMMA OthersKeep ==
    ASSUME NEW q \in Embedders, ProcInv(q), embeddings \subseteq embeddings',
           run'[q] = run[q], rows'[q] = rows[q], start'[q] = start[q],
           pending'[q] = pending[q], written'[q] = written[q]
    PROVE  ProcInv(q)'
<1>1. Working(q)' = Working(q) /\ IsLast(q)' = IsLast(q)
  BY DEF Working, IsLast
<1>2. End(q)' = End(q)
  BY <1>1 DEF End
<1>3. Reached(q)' = Reached(q)
  BY <1>2 DEF Reached
<1>4. Base(q)' = Base(q)
  BY <1>3 DEF Base
<1>5. Hashes(embeddings) \subseteq Hashes(embeddings')
  BY DEF Hashes
<1>6. Rested(q)' /\ Listed(q)' /\ Segment(q)' /\ Few(q)'
  BY <1>1, <1>4 DEF ProcInv, Rested, Listed, Segment, Few
<1>7. Behind(q)'
  BY <1>1, <1>4, <1>5 DEF ProcInv, Behind
<1>8. Left(q)' \subseteq Left(q)
  BY DEF Left, Hashes
<1>9. Ascending(q)'
  BY <1>8 DEF ProcInv, Ascending
<1> QED BY <1>6, <1>7, <1>9 DEF ProcInv

\* So a step of p is about p.
LEMMA StepKeeps ==
    ASSUME EmbedInv, NEW p \in Embedders, EmbedTypeOK', embeddings \subseteq embeddings', ProcInv(p)',
           \A q \in Embedders \ {p} :
               /\ run'[q] = run[q] /\ rows'[q] = rows[q] /\ start'[q] = start[q]
               /\ pending'[q] = pending[q] /\ written'[q] = written[q]
    PROVE  EmbedInv'
<1>1. ASSUME NEW q \in Embedders, q # p PROVE ProcInv(q)'
  BY <1>1, OthersKeep DEF EmbedInv
<1> QED BY <1>1 DEF EmbedInv

\* embed_corpus ends, and nothing of it is left but what it has committed.
LEMMA ExitKeeps ==
    ASSUME EmbedInv, NEW p \in Embedders, NEW how \in {"done", "failed"}, Exit(p, how),
           chunks' = chunks, mishaps' \in 0..MaxMishaps,
           embeddings' \subseteq Own, embeddings \subseteq embeddings'
    PROVE  EmbedInv'
<1>1. EmbedTypeOK'
  <2>1. 1 \in 1..MaxCalls /\ <<>> \in Seq(Nat) /\ <<>> \in Seq(Own)
    BY Sizes
  <2> QED BY <2>1 DEF EmbedInv, EmbedTypeOK, Exit
<1>2. /\ run'[p] = how /\ rows'[p] = <<>> /\ start'[p] = 1 /\ pending'[p] = <<>> /\ written'[p] = {}
      /\ \A q \in Embedders \ {p} :
            /\ run'[q] = run[q] /\ rows'[q] = rows[q] /\ start'[q] = start[q]
            /\ pending'[q] = pending[q] /\ written'[q] = written[q]
  BY DEF Exit, EmbedInv, EmbedTypeOK
<1>3. ProcInv(p)'
  BY <1>2 DEF ProcInv, Working, Rested, Listed, Segment, Behind, Few, Ascending
<1> QED BY <1>1, <1>2, <1>3, StepKeeps

\* The numbers of a batch.
LEMMA BatchEnds ==
    ASSUME EmbedInv, NEW p \in Embedders, Working(p)
    PROVE  /\ rows[p] \in Seq(Nat) /\ Len(rows[p]) \in Nat /\ start[p] \in 1..Len(rows[p])
           /\ End(p) \in start[p]..Len(rows[p])
           /\ ~IsLast(p) => /\ start[p] + BatchSize \in 1..Len(rows[p])
                            /\ End(p) = start[p] + BatchSize - 1
           /\ pending[p] \in Seq(Own) /\ Len(pending[p]) \in Nat
<1>1. /\ rows[p] \in Seq(Nat) /\ start[p] \in Nat \ {0} /\ start[p] <= Len(rows[p])
      /\ pending[p] \in Seq(Own)
  BY DEF EmbedInv, EmbedTypeOK, ProcInv, Listed
<1>2. Len(rows[p]) \in Nat /\ Len(pending[p]) \in Nat
  BY <1>1, LenProperties
<1>3. PICK b \in Nat \ {0}, a \in Nat \ {0} : b = BatchSize /\ a = start[p]
  BY <1>1, Sizes
<1>4. PICK m \in Nat : m = Len(rows[p])
  BY <1>2
<1>5. (IsLast(p) <=> a + b > m) /\ End(p) = IF a + b > m THEN m ELSE a + b - 1
  <2>1. IsLast(p) <=> a + b > m
    BY <1>3, <1>4 DEF IsLast
  <2>2. End(p) = IF IsLast(p) THEN m ELSE a + b - 1
    BY <1>3, <1>4, Zenon DEF End
  <2> QED BY <2>1, <2>2
<1>6. End(p) \in a..m /\ (a + b <= m => a + b \in 1..m /\ End(p) = a + b - 1)
  <2>1. a <= m
    BY <1>1, <1>3, <1>4
  <2>2. CASE a + b > m
    BY <1>5, <2>1, <2>2
  <2>3. CASE a + b <= m
    <3>1. End(p) = a + b - 1
      BY <1>5, <2>3
    <3>2. a + b - 1 \in a..m /\ a + b \in 1..m
      BY <2>3
    <3> QED BY <3>1, <3>2
  <2> QED BY <2>2, <2>3
<1> QED BY <1>1, <1>2, <1>3, <1>4, <1>5, <1>6

\* The rows P are the last hashes up to the end of the batch of p, of the table E.
EndsWith(p, P, E) ==
    /\ End(p) - Len(P) \in Nat
    /\ \A n \in 1..Len(P) : Hash(P[n]) = rows[p][End(p) - Len(P) + n]
    /\ \A i \in 1..(End(p) - Len(P)) : rows[p][i] \in Hashes(E)

\* The loop goes on after a batch with rows that are few.
LEMMA NextBatchKeeps ==
    ASSUME EmbedInv, NEW p \in Embedders, Working(p), NEW P \in Seq(Own), NextBatch(p, P),
           chunks' = chunks, mishaps' = mishaps,
           embeddings' \subseteq Own, embeddings \subseteq embeddings',
           ~IsLast(p) => Len(P) < CommitEvery /\ EndsWith(p, P, embeddings')
    PROVE  EmbedInv'
<1>1. CASE IsLast(p)
  BY <1>1, ExitKeeps DEF NextBatch, EmbedInv, EmbedTypeOK
<1>2. CASE ~IsLast(p)
  <2>1. /\ run' = [run EXCEPT ![p] = "call"] /\ start' = [start EXCEPT ![p] = @ + BatchSize]
        /\ attempt' = [attempt EXCEPT ![p] = 1] /\ pending' = [pending EXCEPT ![p] = P]
        /\ written' = [written EXCEPT ![p] = {}] /\ rows' = rows
    BY <1>2 DEF NextBatch
  <2>2. EmbedTypeOK'
    <3>1. 1 \in 1..MaxCalls /\ start[p] + BatchSize \in Nat \ {0}
      BY <1>2, BatchEnds, Sizes
    <3> QED BY <2>1, <3>1 DEF EmbedInv, EmbedTypeOK
  <2>3. /\ run'[p] = "call" /\ rows'[p] = rows[p] /\ start'[p] = start[p] + BatchSize
        /\ pending'[p] = P /\ written'[p] = {}
        /\ \A q \in Embedders \ {p} :
              /\ run'[q] = run[q] /\ rows'[q] = rows[q] /\ start'[q] = start[q]
              /\ pending'[q] = pending[q] /\ written'[q] = written[q]
    BY <2>1 DEF EmbedInv, EmbedTypeOK
  <2>4. Reached(p)' = End(p)
    <3>1. Reached(p)' = start'[p] - 1
      BY <2>3 DEF Reached
    <3> QED BY <1>2, <2>3, <3>1, BatchEnds, Sizes
  <2>5. Base(p)' = End(p) - Len(P)
    BY <2>3, <2>4 DEF Base
  <2>6. Working(p)'
    BY <2>3 DEF Working
  <2>7. Rested(p)' /\ Listed(p)'
    <3>1. start'[p] <= Len(rows[p])
      BY <1>2, <2>3, BatchEnds
    <3> QED BY <2>3, <2>6, <3>1 DEF Rested, Listed, EmbedInv, ProcInv
  <2>8. Segment(p)' /\ Behind(p)'
    BY <1>2, <2>3, <2>5 DEF Segment, Behind, EndsWith
  <2>9. Few(p)' /\ Ascending(p)'
    BY <1>2, <2>3 DEF Few, Ascending
  <2> QED BY <2>2, <2>3, <2>7, <2>8, <2>9, StepKeeps DEF ProcInv
<1> QED BY <1>1, <1>2

\* What is missing is a finite set of hashes.
LEMMA MissingIsFinite ==
    ASSUME EmbedInv
    PROVE  Missing \subseteq Nat /\ IsFiniteSet(Missing)
<1>1. /\ chunks \subseteq 1..Len(Sha) /\ \A c \in 1..Len(Sha) : Sha[c] \in Nat
      /\ Sha \in Seq(Nat) /\ Len(Sha) \in Nat
  BY Sizes, EmbedAssumption DEF EmbedInv, EmbedTypeOK
<1> DEFINE all == {Sha[c] : c \in 1..Len(Sha)}
<1>2. IsFiniteSet(all)
  <2> DEFINE f == [c \in 1..Len(Sha) |-> Sha[c]]
  <2>1. f \in Surjection(1..Len(Sha), all)
    BY DEF Surjection
  <2>2. IsFiniteSet(1..Len(Sha))
    BY <1>1, FS_Interval
  <2> QED BY <2>1, <2>2, FS_Surjection
<1>3. Missing \in SUBSET all /\ all \subseteq Nat
  BY <1>1 DEF Missing
<1>4. IsFiniteSet(Missing)
  BY <1>2, <1>3, FS_Subset
<1> QED BY <1>3, <1>4

\* A plan lists what is missing in order.
LEMMA PlanKeeps ==
    ASSUME EmbedInv, NEW p \in Embedders, Plan(p)
    PROVE  EmbedInv'
<1>1. run[p] \in {"idle", "done", "failed"} /\ UNCHANGED <<chunks, embeddings, mishaps>>
  BY DEF Plan
<1>2. CASE Missing = {}
  BY <1>1, <1>2, ExitKeeps DEF Plan, EmbedInv, EmbedTypeOK
<1>3. CASE Missing # {}
  <2>1. PICK found : /\ found = InOrder(Missing) /\ rows' = [rows EXCEPT ![p] = found]
                     /\ run' = [run EXCEPT ![p] = "call"]
                     /\ UNCHANGED <<start, attempt, pending, written>>
    BY <1>3 DEF Plan, Ordered
  <2> DEFINE N == Cardinality(Missing)
  <2>2. /\ N \in Nat /\ found \in [1..N -> Nat]
        /\ \A i, k \in 1..N : i < k => found[i] < found[k]
    BY <2>1, MissingIsFinite, InOrderIncreases
  <2>3. N # 0
    BY <1>3, MissingIsFinite, FS_EmptySet
  <2>4. found \in Seq(Nat) /\ Len(found) = N
    BY <2>2
  <2>5. EmbedTypeOK'
    BY <1>1, <2>1, <2>4 DEF EmbedInv, EmbedTypeOK
  <2>6. /\ run'[p] = "call" /\ rows'[p] = found /\ start'[p] = 1
        /\ pending'[p] = <<>> /\ written'[p] = {} /\ embeddings' = embeddings
        /\ \A q \in Embedders \ {p} :
              /\ run'[q] = run[q] /\ rows'[q] = rows[q] /\ start'[q] = start[q]
              /\ pending'[q] = pending[q] /\ written'[q] = written[q]
    <3>1. start[p] = 1 /\ pending[p] = <<>> /\ written[p] = {}
      BY <1>1 DEF EmbedInv, ProcInv, Rested, Working
    <3> QED BY <1>1, <2>1, <3>1 DEF EmbedInv, EmbedTypeOK
  <2>7. Reached(p)' = 0 /\ Base(p)' = 0
    <3>1. Reached(p)' = 0
      BY <2>6 DEF Reached
    <3>2. Len(pending'[p]) = 0
      BY <2>6
    <3> QED BY <3>1, <3>2 DEF Base
  <2>8. Working(p)'
    BY <2>6 DEF Working
  <2>9. Rested(p)' /\ Listed(p)'
    BY <2>2, <2>3, <2>4, <2>6, <2>8 DEF Rested, Listed
  <2>10. Segment(p)' /\ Behind(p)'
    BY <2>6, <2>7 DEF Segment, Behind
  <2>11. Few(p)' /\ Ascending(p)'
    BY <2>6, Sizes DEF Few, Ascending
  <2> QED BY <2>5, <2>6, <2>9, <2>10, <2>11, StepKeeps DEF ProcInv
<1> QED BY <1>2, <1>3

\* The rows of the batch are appended, each with its own vector.
LEMMA AppendedEnds ==
    ASSUME EmbedInv, NEW p \in Embedders, run[p] = "call",
           NEW order \in SetToSeqs(DOMAIN Batch(p)), NEW P,
           P = Appended(p, ToVectors(Answer(Batch(p), order)))
    PROVE  P \in Seq(Own) /\ Len(P) \in Nat /\ EndsWith(p, P, embeddings)
<1>1. Working(p)
  BY DEF Working
<1>2. PICK R \in Seq(Nat), a \in Nat, z \in Nat, old \in Seq(Own) :
        /\ R = rows[p] /\ a = start[p] /\ z = End(p) /\ old = pending[p]
        /\ Len(R) \in Nat /\ 1 <= a /\ a <= z /\ z <= Len(R) /\ Len(old) \in Nat
  BY <1>1, BatchEnds
<1>3. PICK N \in Nat : N = z - a + 1
  BY <1>2
<1>4. PICK B \in Seq(Nat) : B = Batch(p) /\ Len(B) = N /\ \A n \in 1..N : B[n] = R[a + n - 1]
  <2>1. Batch(p) = SubSeq(R, a, z)
    BY <1>2 DEF Batch, End
  <2>2. PICK B : B = SubSeq(R, a, z)
    OBVIOUS
  <2>3. \A i \in a..z : R[i] \in Nat
    BY <1>2
  <2>4. /\ B \in Seq(Nat) /\ Len(B) = IF a <= z THEN z - a + 1 ELSE 0
        /\ \A n \in 1..z - a + 1 : B[n] = R[a + n - 1]
    BY <2>2, <2>3, SubSeqProperties
  <2>5. B \in Seq(Nat) /\ Len(B) = N /\ \A n \in 1..N : B[n] = R[a + n - 1]
    BY <1>2, <1>3, <2>4
  <2> QED BY <2>1, <2>2, <2>5
<1>5. ToVectors(Answer(Batch(p), order)) = [n \in 1..N |-> B[n]]
  <2>1. ToVectors(Answer(B, order)) = [n \in 1..Len(B) |-> B[n]]
    BY <1>4, ToVectorsSorts
  <2> QED BY <1>4, <2>1
<1>6. PICK new : new = [n \in 1..N |-> <<B[n], B[n]>>]
  OBVIOUS
<1>7. new \in Seq(Own) /\ Len(new) = N /\ \A n \in 1..N : Hash(new[n]) = B[n]
  <2>1. \A n \in 1..N : <<B[n], B[n]>> \in Own
    BY <1>4 DEF Own
  <2> QED BY <1>6, <2>1 DEF Hash
<1>8. P = old \o new
  BY <1>2, <1>4, <1>5, <1>6 DEF Appended
<1>9. P \in Seq(Own) /\ Len(P) = Len(old) + N /\ Len(P) \in Nat
  <2>1. P \in Seq(Own) /\ Len(P) = Len(old) + Len(new)
    BY <1>7, <1>8, ConcatProperties
  <2> QED BY <1>2, <1>7, <2>1
<1>10. \A n \in 1..Len(P) : P[n] = IF n <= Len(old) THEN old[n] ELSE new[n - Len(old)]
  <2>1. \A n \in 1..Len(old) + Len(new) : P[n] = IF n <= Len(old) THEN old[n] ELSE new[n - Len(old)]
    BY <1>7, <1>8, ConcatProperties
  <2> QED BY <1>7, <1>9, <2>1
<1>11. PICK base \in Nat : base = Base(p) /\ base = a - 1 - Len(old) /\ z - Len(P) = base
  <2>1. Base(p) = a - 1 - Len(old)
    BY <1>2 DEF Base, Reached
  <2>2. Base(p) \in Nat
    BY <1>1 DEF EmbedInv, ProcInv, Segment
  <2>3. z - Len(P) = a - 1 - Len(old)
    <3>1. PICK o \in Nat, l \in Nat : o = Len(old) /\ l = Len(P)
      BY <1>2, <1>9
    <3>2. l = o + (z - a + 1)
      BY <1>3, <1>9, <3>1
    <3>3. z - l = a - 1 - o
      BY <3>2
    <3> QED BY <3>1, <3>3
  <2>4. z - Len(P) = Base(p)
    BY <2>1, <2>3
  <2> QED BY <2>1, <2>2, <2>4, Zenon
<1>12. ASSUME NEW n \in 1..Len(P) PROVE Hash(P[n]) = R[base + n]
  <2>1. CASE n <= Len(old)
    <3>1. n \in 1..Len(old) /\ P[n] = old[n]
      BY <1>2, <1>9, <1>10, <2>1
    <3> QED BY <1>1, <1>2, <1>11, <3>1 DEF EmbedInv, ProcInv, Segment
  <2>2. CASE ~(n <= Len(old))
    <3>0. n \in Nat /\ n - Len(old) \in 1..N
      BY <1>2, <1>9, <2>2
    <3>1. PICK m \in 1..N : m = n - Len(old)
      BY <3>0
    <3>2. P[n] = new[m]
      BY <1>10, <2>2, <3>1
    <3>3. a + m - 1 = base + n
      <4>1. base = a - 1 - Len(old) /\ m = n - Len(old)
        BY <1>11, <3>1
      <4>2. n \in Nat /\ Len(old) \in Nat
        BY <1>2, <3>0
      <4> QED BY <4>1, <4>2
    <3> QED BY <1>4, <1>7, <3>1, <3>2, <3>3
  <2> QED BY <2>1, <2>2
<1>13. \A i \in 1..base : rows[p][i] \in Hashes(embeddings)
  BY <1>1, <1>11 DEF EmbedInv, ProcInv, Behind
<1> QED BY <1>2, <1>9, <1>11, <1>12, <1>13 DEF EndsWith

\* The provider answers.
LEMMA ReplyKeeps ==
    ASSUME EmbedInv, NEW p \in Embedders, Reply(p)
    PROVE  EmbedInv'
<1>1. run[p] = "call" /\ Working(p) /\ UNCHANGED <<chunks, embeddings, mishaps>>
  BY DEF Reply, Working
<1>2. PICK order \in SetToSeqs(DOMAIN Batch(p)) :
        LET P == Appended(p, ToVectors(Answer(Batch(p), order)))
        IN  IF Due(p, Len(P))
            THEN /\ run' = [run EXCEPT ![p] = "insert"]
                 /\ pending' = [pending EXCEPT ![p] = P]
                 /\ attempt' = [attempt EXCEPT ![p] = 1]
                 /\ UNCHANGED <<rows, start, written>>
            ELSE NextBatch(p, P)
  BY DEF Reply, Answer
<1>3. PICK P : P = Appended(p, ToVectors(Answer(Batch(p), order)))
  OBVIOUS
<1>4. IF Due(p, Len(P))
      THEN /\ run' = [run EXCEPT ![p] = "insert"]
           /\ pending' = [pending EXCEPT ![p] = P]
           /\ attempt' = [attempt EXCEPT ![p] = 1]
           /\ UNCHANGED <<rows, start, written>>
      ELSE NextBatch(p, P)
  BY <1>2, <1>3
<1>5. P \in Seq(Own) /\ Len(P) \in Nat /\ EndsWith(p, P, embeddings)
  BY <1>1, <1>3, AppendedEnds
<1>6. CASE ~Due(p, Len(P))
  <2>1. NextBatch(p, P) /\ Len(P) < CommitEvery
    BY <1>4, <1>5, <1>6, Sizes DEF Due
  <2> QED BY <1>1, <1>5, <2>1, NextBatchKeeps DEF EmbedInv, EmbedTypeOK
<1>7. CASE Due(p, Len(P))
  <2>1. /\ run' = [run EXCEPT ![p] = "insert"]
        /\ pending' = [pending EXCEPT ![p] = P]
        /\ attempt' = [attempt EXCEPT ![p] = 1]
        /\ UNCHANGED <<rows, start, written>>
    BY <1>4, <1>7
  <2>2. EmbedTypeOK'
    BY <1>1, <1>5, <2>1, Sizes DEF EmbedInv, EmbedTypeOK
  <2>3. /\ run'[p] = "insert" /\ rows'[p] = rows[p] /\ start'[p] = start[p]
        /\ pending'[p] = P /\ written'[p] = {}
        /\ \A q \in Embedders \ {p} :
              /\ run'[q] = run[q] /\ rows'[q] = rows[q] /\ start'[q] = start[q]
              /\ pending'[q] = pending[q] /\ written'[q] = written[q]
    BY <1>1, <2>1 DEF EmbedInv, EmbedTypeOK, ProcInv, Few
  <2>4. End(p)' = End(p)
    BY <2>3 DEF End, IsLast
  <2>5. Reached(p)' = End(p)
    BY <2>3, <2>4 DEF Reached
  <2>6. Base(p)' = End(p) - Len(P)
    BY <2>3, <2>5 DEF Base
  <2>7. Working(p)' /\ Rested(p)' /\ Listed(p)'
    BY <1>1, <2>3 DEF Working, Rested, Listed, EmbedInv, ProcInv
  <2>8. Segment(p)' /\ Behind(p)'
    BY <1>1, <1>5, <2>3, <2>6 DEF Segment, Behind, EndsWith
  <2>9. Few(p)' /\ Ascending(p)'
    BY <2>3 DEF Few, Ascending
  <2> QED BY <1>1, <2>2, <2>3, <2>7, <2>8, <2>9, StepKeeps DEF ProcInv
<1> QED BY <1>6, <1>7

\* A call is tried again, or embed_corpus gives up.
LEMMA CallFailsKeeps ==
    ASSUME EmbedInv, NEW p \in Embedders, CallFails(p) \/ Abort(p)
    PROVE  EmbedInv'
<1>1. /\ UNCHANGED <<chunks, embeddings>> /\ mishaps' \in 0..MaxMishaps
  BY Sizes DEF CallFails, Abort, Fault, EmbedInv, EmbedTypeOK
<1>2. CASE Exit(p, "failed")
  BY <1>1, <1>2, ExitKeeps DEF EmbedInv, EmbedTypeOK
<1>3. CASE /\ attempt[p] < MaxCalls
           /\ attempt' = [attempt EXCEPT ![p] = @ + 1]
           /\ UNCHANGED <<run, rows, start, pending, written>>
  <2>1. attempt[p] + 1 \in 1..MaxCalls
    BY <1>3, Sizes DEF EmbedInv, EmbedTypeOK
  <2>2. EmbedTypeOK'
    BY <1>1, <1>3, <2>1 DEF EmbedInv, EmbedTypeOK
  <2>3. \A q \in Embedders : ProcInv(q)'
    BY <1>1, <1>3, OthersKeep DEF EmbedInv
  <2> QED BY <2>2, <2>3 DEF EmbedInv
<1> QED BY <1>2, <1>3 DEF CallFails, Abort

\* The row that an insert is at.
LEMMA AtRow ==
    ASSUME EmbedInv, NEW p \in Embedders, run[p] = "insert", Left(p) # {}
    PROVE  /\ Min(Left(p)) \in Left(p) /\ Left(p) \subseteq 1..Len(pending[p])
           /\ \A n \in Left(p) : n = Min(Left(p)) \/ Hash(NextRow(p)) < Hash(pending[p][n])
           /\ NextRow(p) \in Own
<1>1. Working(p) /\ pending[p] \in Seq(Own)
  BY DEF Working, EmbedInv, EmbedTypeOK
<1>2. PICK base \in Nat, size \in Nat :
        /\ base = Base(p) /\ size = Len(pending[p]) /\ base + size = Reached(p)
        /\ Reached(p) <= Len(rows[p]) /\ rows[p] \in Seq(Nat) /\ Len(rows[p]) \in Nat
        /\ \A n \in 1..size : Hash(pending[p][n]) = rows[p][base + n]
        /\ \A i, k \in 1..Len(rows[p]) : i < k => rows[p][i] < rows[p][k]
  <2>1. Reached(p) = End(p) /\ Reached(p) \in Nat /\ Reached(p) <= Len(rows[p])
        /\ rows[p] \in Seq(Nat) /\ Len(rows[p]) \in Nat /\ Len(pending[p]) \in Nat
    BY <1>1, BatchEnds DEF Reached
  <2>2. Base(p) \in Nat /\ Base(p) = Reached(p) - Len(pending[p])
    BY <1>1 DEF EmbedInv, ProcInv, Segment, Base
  <2>3. Base(p) + Len(pending[p]) = Reached(p)
    BY <2>1, <2>2
  <2>4. \A n \in 1..Len(pending[p]) : Hash(pending[p][n]) = rows[p][Base(p) + n]
    BY <1>1 DEF EmbedInv, ProcInv, Segment
  <2>5. \A i, k \in 1..Len(rows[p]) : i < k => rows[p][i] < rows[p][k]
    BY <1>1 DEF EmbedInv, ProcInv, Listed
  <2> QED BY <2>1, <2>2, <2>3, <2>4, <2>5
<1>3. Left(p) \subseteq 1..Len(pending[p]) /\ Left(p) \subseteq Nat
  BY <1>1 DEF Left
<1>4. PICK m \in Left(p) : m = Min(Left(p)) /\ \A n \in Left(p) : m <= n
  BY <1>3, MinFirst
<1>5. ASSUME NEW n \in Left(p), n # m PROVE Hash(pending[p][m]) < Hash(pending[p][n])
  <2>1. m \in 1..size /\ n \in 1..size /\ m < n
    BY <1>2, <1>3, <1>4, <1>5
  <2>2. base + m \in 1..Len(rows[p]) /\ base + n \in 1..Len(rows[p]) /\ base + m < base + n
    <3>1. base + size <= Len(rows[p]) /\ Len(rows[p]) \in Nat
      BY <1>2
    <3> QED BY <2>1, <3>1
  <2> QED BY <1>2, <2>1, <2>2
<1>6. pending[p][m] \in Own
  BY <1>1, <1>3
<1> QED BY <1>3, <1>4, <1>5, <1>6 DEF NextRow

\* A row is inserted, the least of those that are left.
LEMMA InsertKeeps ==
    ASSUME EmbedInv, NEW p \in Embedders, Insert(p)
    PROVE  EmbedInv'
<1>1. /\ run[p] = "insert" /\ Left(p) # {}
      /\ written' = [written EXCEPT ![p] = written[p] \union {NextRow(p)}]
      /\ UNCHANGED <<chunks, embeddings, run, rows, start, attempt, pending, mishaps>>
  BY DEF Insert
<1>2. PICK m \in Left(p), row \in Own :
        /\ m = Min(Left(p)) /\ row = NextRow(p) /\ row = pending[p][m]
        /\ \A n \in Left(p) : n = m \/ Hash(row) < Hash(pending[p][n])
  BY <1>1, AtRow DEF NextRow
<1>3. /\ written'[p] = written[p] \union {row}
      /\ \A q \in Embedders \ {p} : written'[q] = written[q]
  BY <1>1, <1>2 DEF EmbedInv, EmbedTypeOK
<1>4. EmbedTypeOK'
  BY <1>1, <1>2 DEF EmbedInv, EmbedTypeOK
<1>5. Left(p)' \subseteq Left(p) \ {m}
  <2>1. Hashes(written[p]) \union {Hash(row)} \subseteq Hashes(written'[p])
    BY <1>3 DEF Hashes
  <2> QED BY <1>1, <1>2, <1>3, <2>1 DEF Left, Hashes
<1>6. Ascending(p)'
  <2> SUFFICES ASSUME NEW e \in written'[p], NEW n \in Left(p)'
               PROVE  Hash(e) < Hash(pending[p][n])
    BY <1>1 DEF Ascending
  <2>1. CASE e \in written[p]
    BY <1>5, <2>1 DEF EmbedInv, ProcInv, Ascending
  <2>2. CASE e = row
    BY <1>2, <1>5, <2>2
  <2> QED BY <1>3, <2>1, <2>2
<1>7. Working(p)' = Working(p) /\ Base(p)' = Base(p) /\ Working(p)
  BY <1>1 DEF Working, Base, Reached, End, IsLast
<1>8. Rested(p)' /\ Listed(p)' /\ Segment(p)' /\ Behind(p)' /\ Few(p)'
  BY <1>1, <1>7 DEF EmbedInv, ProcInv, Rested, Listed, Segment, Behind, Few
<1> QED BY <1>1, <1>3, <1>4, <1>6, <1>8, StepKeeps DEF ProcInv

\* A transaction commits when all its rows are in the table, its own or another's.
LEMMA CommitKeeps ==
    ASSUME EmbedInv, NEW p \in Embedders, Commit(p)
    PROVE  EmbedInv'
<1>1. /\ run[p] = "insert" /\ Working(p) /\ Left(p) = {} /\ NextBatch(p, <<>>)
      /\ embeddings' = embeddings \union written[p] /\ UNCHANGED <<chunks, mishaps>>
  BY DEF Commit, Working
<1>2. embeddings' \subseteq Own /\ embeddings \subseteq embeddings'
  BY <1>1 DEF EmbedInv, EmbedTypeOK
<1>3. End(p) \in Nat /\ Len(pending[p]) \in Nat /\ pending[p] \in Seq(Own)
  BY <1>1, BatchEnds
<1>4. Base(p) \in Nat /\ Base(p) = End(p) - Len(pending[p])
  BY <1>1 DEF EmbedInv, ProcInv, Segment, Base, Reached
<1>5. \A n \in 1..Len(pending[p]) : Hash(pending[p][n]) \in Hashes(embeddings')
  <2>1. DOMAIN pending[p] = 1..Len(pending[p])
    BY <1>3
  <2>2. \A n \in DOMAIN pending[p] : Hash(pending[p][n]) \in Hashes(embeddings \union written[p])
    BY <1>1 DEF Left
  <2> QED BY <1>1, <2>1, <2>2
<1>6. ASSUME NEW i \in 1..End(p) PROVE rows[p][i] \in Hashes(embeddings')
  <2>1. CASE i <= Base(p)
    <3>1. rows[p][i] \in Hashes(embeddings)
      BY <1>1, <1>4, <2>1 DEF EmbedInv, ProcInv, Behind
    <3> QED BY <1>2, <3>1 DEF Hashes
  <2>2. CASE i > Base(p)
    <3>1. PICK base \in Nat, size \in Nat : /\ base = Base(p) /\ size = Len(pending[p])
                                            /\ base + size = End(p)
      BY <1>3, <1>4
    <3>2. i - base \in 1..size /\ base + (i - base) = i
      BY <2>2, <3>1
    <3>3. \A n \in 1..size : Hash(pending[p][n]) = rows[p][base + n]
      BY <1>1, <3>1 DEF EmbedInv, ProcInv, Segment
    <3>4. Hash(pending[p][i - base]) = rows[p][i]
      BY <3>2, <3>3
    <3> QED BY <1>5, <3>1, <3>2, <3>4
  <2> QED BY <1>4, <2>1, <2>2
<1>7. PICK P \in Seq(Own) : P = <<>> /\ Len(P) = 0
  <2>1. <<>> \in Seq(Own) /\ Len(<<>>) = 0
    OBVIOUS
  <2> QED BY <2>1
<1>8. EndsWith(p, P, embeddings')
  BY <1>3, <1>6, <1>7 DEF EndsWith
<1>9. Len(P) < CommitEvery
  BY <1>7, Sizes
<1> QED BY <1>1, <1>2, <1>7, <1>8, <1>9, NextBatchKeeps

\* Every step keeps the invariant.
LEMMA NextEmbed == EmbedInv /\ [EmbedNext]_embedVars => EmbedInv'
<1> SUFFICES ASSUME EmbedInv, [EmbedNext]_embedVars PROVE EmbedInv'
  OBVIOUS
<1>1. ASSUME NEW p \in Embedders, ProcStep(p) \/ CallFails(p) \/ Abort(p) PROVE EmbedInv'
  BY <1>1, PlanKeeps, ReplyKeeps, InsertKeeps, CommitKeeps, CallFailsKeeps DEF ProcStep
<1>2. ASSUME \/ \E c \in Chunks \ chunks : Ingest(c)
             \/ UNCHANGED embedVars
      PROVE  EmbedInv'
  <2>1. UNCHANGED <<embeddings, run, rows, start, attempt, pending, written, mishaps>>
        /\ chunks' \subseteq Chunks
    BY <1>2 DEF Ingest, embedVars, EmbedInv, EmbedTypeOK
  <2>2. EmbedTypeOK'
    BY <2>1 DEF EmbedInv, EmbedTypeOK
  <2>3. \A q \in Embedders : ProcInv(q)'
    BY <2>1, OthersKeep DEF EmbedInv
  <2> QED BY <2>2, <2>3 DEF EmbedInv
<1> QED BY <1>1, <1>2 DEF EmbedNext

\* Before anything is embedded.
LEMMA InitEmbed == EmbedInit => EmbedInv
<1> SUFFICES ASSUME EmbedInit PROVE EmbedInv
  OBVIOUS
<1>1. EmbedTypeOK
  <2>1. 1 \in 1..MaxCalls /\ 0 \in 0..MaxMishaps /\ <<>> \in Seq(Nat) /\ <<>> \in Seq(Own)
    BY Sizes
  <2> QED BY <2>1, EmbedAssumption DEF EmbedInit, EmbedTypeOK
<1>2. ASSUME NEW p \in Embedders PROVE ProcInv(p)
  <2>1. run[p] = "idle" /\ start[p] = 1 /\ pending[p] = <<>> /\ written[p] = {}
    BY DEF EmbedInit
  <2> QED BY <2>1 DEF ProcInv, Working, Rested, Listed, Segment, Behind, Few, Ascending
<1> QED BY <1>1, <1>2 DEF EmbedInv

\* The locals of every process mean what they should in every reachable state.
THEOREM EmbedInvariant == EmbedSpec => []EmbedInv
BY InitEmbed, NextEmbed, PTL DEF EmbedSpec

-----------------------------------------------------------------------------
(* What the invariant is for.                                              *)

\* Whatever the order of the answers and whoever embeds, a chunk's vector is
\* the one of its text.
THEOREM VectorsAreTheTexts == EmbedSpec => []VectorsBelong
<1>1. EmbedInv => VectorsBelong
  <2> SUFFICES ASSUME EmbedInv, NEW v \in CorpusVectors PROVE v.vector = Sha[v.id]
    BY DEF VectorsBelong
  <2>1. PICK y \in chunks \X embeddings :
          Sha[y[1]] = Hash(y[2]) /\ v = [id |-> y[1], vector |-> Vector(y[2])]
    BY DEF CorpusVectors
  <2>2. y[2] \in Own
    BY DEF EmbedInv, EmbedTypeOK
  <2>3. Hash(y[2]) = Vector(y[2])
    BY <2>2 DEF Own, Hash, Vector
  <2> QED BY <2>1, <2>3
<1> QED BY <1>1, EmbedInvariant, PTL

\* A process waits only for one that is at a later hash, or is not inserting.
LEMMA WaitsForLater ==
    ASSUME EmbedInv, NEW p \in Embedders, NEW q \in Embedders, WaitsFor(p, q),
           run[q] = "insert", Left(q) # {}
    PROVE  /\ Hash(NextRow(p)) \in Nat /\ Hash(NextRow(q)) \in Nat
           /\ Hash(NextRow(p)) < Hash(NextRow(q))
<1>1. run[p] = "insert" /\ Left(p) # {} /\ Hash(NextRow(p)) \in Hashes(written[q])
  BY DEF WaitsFor
<1>2. NextRow(p) \in Own /\ NextRow(q) \in Own /\ Min(Left(q)) \in Left(q)
  BY <1>1, AtRow
<1>3. PICK e \in written[q] : Hash(e) = Hash(NextRow(p))
  BY <1>1 DEF Hashes
<1>4. Hash(e) < Hash(NextRow(q))
  BY <1>2 DEF EmbedInv, ProcInv, Ascending, NextRow
<1> QED BY <1>2, <1>3, <1>4 DEF Own, Hash

\* Along a chain of processes that wait for each other the hashes only grow, so
\* no chain of any length closes to a circle ...
ChainsAscend ==
    \A p, q, r \in Embedders :
        WaitsFor(p, q) /\ WaitsFor(q, r) => Hash(NextRow(p)) < Hash(NextRow(q))

\* ... and two runs at once never have Postgres break a deadlock of theirs.
THEOREM EmbeddersNeverDeadlock == EmbedSpec => [](ChainsAscend /\ NoDeadlock)
<1>1. EmbedInv => ChainsAscend
  BY WaitsForLater DEF ChainsAscend, WaitsFor
<1>2. EmbedInv => NoDeadlock
  <2> SUFFICES ASSUME EmbedInv, NEW p \in Embedders, NEW q \in Embedders,
                      WaitsFor(p, q), WaitsFor(q, p)
               PROVE  FALSE
    BY DEF NoDeadlock
  <2>1. run[p] = "insert" /\ Left(p) # {} /\ run[q] = "insert" /\ Left(q) # {}
    BY DEF WaitsFor
  <2>2. /\ Hash(NextRow(p)) \in Nat /\ Hash(NextRow(q)) \in Nat
        /\ Hash(NextRow(p)) < Hash(NextRow(q)) /\ Hash(NextRow(q)) < Hash(NextRow(p))
    BY <2>1, WaitsForLater
  <2> QED BY <2>2
<1> QED BY <1>1, <1>2, EmbedInvariant, PTL

\* A crash costs fewer vectors than one commit has.
THEOREM CrashesCostLittle == EmbedSpec => []CrashCostsLittle
<1>1. EmbedInv => CrashCostsLittle
  <2> SUFFICES ASSUME EmbedInv, NEW p \in Embedders, run[p] = "call"
               PROVE  Cardinality({n \in 1..(start[p] - 1) : rows[p][n] \notin Hashes(embeddings)})
                          < CommitEvery
    BY DEF CrashCostsLittle
  <2>1. Working(p) /\ start[p] \in Nat \ {0} /\ Len(pending[p]) \in Nat
    BY BatchEnds DEF Working, EmbedInv, EmbedTypeOK
  <2>2. PICK base \in Nat : /\ base = start[p] - 1 - Len(pending[p])
                            /\ \A i \in 1..base : rows[p][i] \in Hashes(embeddings)
    <3>1. Base(p) = start[p] - 1 - Len(pending[p])
      BY DEF Base, Reached
    <3> QED BY <2>1, <3>1 DEF EmbedInv, ProcInv, Segment, Behind
  <2>3. Len(pending[p]) < CommitEvery
    BY DEF EmbedInv, ProcInv, Few
  <2> DEFINE lost == {n \in 1..(start[p] - 1) : rows[p][n] \notin Hashes(embeddings)}
             last == base + 1 .. start[p] - 1
  <2>4. lost \in SUBSET last
    BY <2>1, <2>2
  <2>5. IsFiniteSet(last) /\ Cardinality(last) = Len(pending[p])
    <3>1. base + 1 \in Int /\ start[p] - 1 \in Int
      BY <2>1
    <3>2. /\ IsFiniteSet(last)
          /\ Cardinality(last) = IF base + 1 > start[p] - 1 THEN 0 ELSE start[p] - 1 - (base + 1) + 1
      BY <3>1, FS_Interval
    <3> HIDE DEF last
    <3> QED BY <2>1, <2>2, <3>2
  <2>6. IsFiniteSet(lost) /\ Cardinality(lost) <= Cardinality(last)
    BY <2>4, <2>5, FS_Subset
  <2>7. Cardinality(lost) \in Nat
    BY <2>6, FS_CardinalityType
  <2> HIDE DEF lost, last
  <2>8. Cardinality(lost) < CommitEvery
    BY <2>1, <2>3, <2>5, <2>6, <2>7, Sizes
  <2> QED BY <2>8 DEF lost
<1> QED BY <1>1, EmbedInvariant, PTL

=============================================================================
