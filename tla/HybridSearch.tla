---------------------------- MODULE HybridSearch ----------------------------
(***************************************************************************)
(* One retrieval (retrieve.py): the lexical and the vector index are       *)
(* searched for what is admissible, and the two rankings fused by          *)
(* reciprocal ranks (fusion.py).                                           *)
(*                                                                         *)
(* The vector index returns any ranking of admissible chunks; module       *)
(* VectorGraph says more.  Reciprocals are multiples of 1 / Scale.         *)
(***************************************************************************)
EXTENDS LexicalIndex

CONSTANTS
    Questions,  \* bound: the terms of the queries
    Limits,     \* bound: how many hits are asked for
    Depth,      \* candidates_per_retriever
    RrfK,       \* RRF_K
    Scale

ASSUME FusionAssumption ==
    /\ Questions \subseteq Seq(STRING)
    /\ Depth \in Nat \ {0}
    /\ Limits \subseteq Nat
    /\ RrfK \in Nat
    /\ Scale \in Nat \ {0}
    /\ \A r \in 1..Depth : Scale % (RrfK + r) = 0

VARIABLE trace  \* the last retrieval

vars == <<chunks, pc, files, path, durable, built, mapped, trace>>

NoTrace == [hits |-> <<>>]

Init == IndexInit /\ trace = NoTrace

-----------------------------------------------------------------------------
(* reciprocal_rank_fusion                                                  *)

Recip(r) == Scale \div (RrfK + r)

Added(score, r) == score + Recip(r)

\* One entry of a ranked list: its best rank in the list counts.
Merge(fused, name, i, r) ==
    IF i \notin DOMAIN fused
    THEN [j \in DOMAIN fused \union {i} |->
             IF j = i THEN [score |-> Added(0, r), ranks |-> {<<name, r>>}] ELSE fused[j]]
    ELSE IF \E e \in fused[i].ranks : e[1] = name THEN fused
    ELSE [fused EXCEPT ![i].score = Added(@, r), ![i].ranks = @ \union {<<name, r>>}]

MergeList(fused, list) ==
    LET upto[r \in 0..Len(list.ids)] ==
            IF r = 0 THEN fused ELSE Merge(upto[r - 1], list.name, list.ids[r], r)
    IN  upto[Len(list.ids)]

Fuse(lists, limit) ==
    LET fused[n \in 0..Len(lists)] ==
            IF n = 0 THEN [i \in {} |-> {}] ELSE MergeList(fused[n - 1], lists[n])
        all == fused[Len(lists)]
        order == Ranking([i \in DOMAIN all |-> all[i].score])
    IN  [n \in 1..AtMost(limit, Cardinality(DOMAIN all)) |->
            [chunk |-> order[n], score |-> all[order[n]].score, ranks |-> all[order[n]].ranks]]

-----------------------------------------------------------------------------
(* hybrid_search                                                           *)

Ranked(name, ids) == [name |-> name, ids |-> ids]

\* What the vector index may return, each chunk once.
Rankings(S) == {v \in UNION {[1..n -> S] : n \in 0..Depth} : IsInjective(v)}

Traced(terms, admissible, lexical, vector, k) ==
    [terms |-> terms, admissible |-> admissible, of |-> mapped, limit |-> k,
     lexical |-> lexical, vector |-> vector,
     hits |-> Fuse(<<Ranked("lexical", lexical), Ranked("vector", vector)>>, k)]

Retrieve(terms, admissible, k) ==
    /\ mapped # 0
    /\ trace = NoTrace
    /\ \E lexical \in {SearchLexical(files[mapped], terms, admissible, Depth)},
          vector \in Rankings(admissible) :
          trace' = Traced(terms, admissible, lexical, vector, k)
    /\ UNCHANGED indexVars

\* The caller takes the trace.
Return ==
    /\ trace # NoTrace
    /\ trace' = NoTrace
    /\ UNCHANGED indexVars

Next ==
    \/ IndexNext /\ UNCHANGED trace
    \/ \E terms \in Questions, admissible \in SUBSET chunks, k \in Limits :
          Retrieve(terms, admissible, k)
    \/ Return

Spec == Init /\ [][Next]_vars

-----------------------------------------------------------------------------
(* Properties.                                                             *)

\* What BM25 says of the texts themselves, whatever the file looks like.
TermRelevance(docs, t, d) ==
    IF t \in ToSet(Terms) /\ Texts[d][t] > 0
    THEN Gain(Len(docs), Cardinality({c \in ToSet(docs) : Texts[c][t] > 0}), Texts[d][t], Length(d))
    ELSE 0

Relevance(docs, terms, d) == Total([n \in DOMAIN terms |-> TermRelevance(docs, terms[n], d)])

\* The lexical hits are "the k best admissible documents, not the admissible remainder of
\* the k best documents" (LexicalIndex.search) by the texts the file was built from, through
\* the gaps, varints and offsets of the file, however old it is.
FilterIsPushedDown ==
    trace # NoTrace =>
        LET docs == files[trace.of].of
            relevant == {d \in ToSet(docs) \intersect trace.admissible :
                            Relevance(docs, trace.terms, d) > 0}
        IN  trace.lexical = Best([d \in relevant |-> Relevance(docs, trace.terms, d)], Depth)

\* What a retriever ranks, or the place after all it ranks.
RankIn(list, i) == IF i \in ToSet(list) THEN CHOOSE n \in DOMAIN list : list[n] = i ELSE Len(list) + 1

\* Where both retrievers agree, so does the result: a chunk that neither ranks behind another,
\* and one ranks before it, is never left out for it nor put behind it.
AgreementWins ==
    trace # NoTrace =>
        LET all == ToSet(trace.lexical) \union ToSet(trace.vector)
            place(i) == IF \E n \in DOMAIN trace.hits : trace.hits[n].chunk = i
                        THEN CHOOSE n \in DOMAIN trace.hits : trace.hits[n].chunk = i
                        ELSE trace.limit + 1
            before(i, j) ==
                /\ RankIn(trace.lexical, i) <= RankIn(trace.lexical, j)
                /\ RankIn(trace.vector, i) <= RankIn(trace.vector, j)
                /\ i \in ToSet(trace.lexical) \/ i \in ToSet(trace.vector)
                /\ RankIn(trace.lexical, i) # RankIn(trace.lexical, j)
                      \/ RankIn(trace.vector, i) # RankIn(trace.vector, j)
        IN  \A i, j \in all : before(i, j) /\ place(j) <= trace.limit => place(i) < place(j)

=============================================================================
