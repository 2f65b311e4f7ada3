------------------------- MODULE ConversationProofs -------------------------
(***************************************************************************)
(* Proofs about Conversation, for any number of turns, any corpus and any  *)
(* replies.  The inductive invariant follows the admissible set from the   *)
(* date it was read for, through the cache and the passages shown, to the  *)
(* row; and the turn number from the maximum it was read as to the row.    *)
(***************************************************************************)
EXTENDS Conversation, FiniteSetTheorems, TLAPS

\* What the cache says of a date was in force on it.
CacheIsTrue == \A d \in Days : cache[d] # Unset => cache[d] \subseteq corpus \intersect InForceOn[d]

\* What a turn takes for admissible was in force on its date, and is read only
\* when the date is settled.
AdmissibleIsTrue ==
    \A t \in Turns : /\ adm[t] \subseteq corpus \intersect InForceOn[asOf[t]]
                     /\ pc[t] \in {"new", "thread", "resolve", "admit"} => adm[t] = {}

\* Nor does the cache, or a turn, miss a chunk of the vector index: that was built
\* before the date was read.
NothingIsHidden ==
    /\ \A d \in Days : cache[d] # Unset => vectors \intersect InForceOn[d] \subseteq cache[d]
    /\ \A t \in Turns : pc[t] \in {"store", "retrieve"} =>
          vectors \intersect InForceOn[asOf[t]] \subseteq adm[t]

\* A verdict cites what was shown, and there is one when it is persisted.
ResultsAreShown ==
    \A t \in Turns : /\ result[t].cited \subseteq shown[t]
                     /\ pc[t] \in {"greet", "persist"} => result[t].outcome # "none"

\* Nothing is shown before retrieval.
NothingShown ==
    \A t \in Turns : pc[t] \in {"new", "thread", "resolve", "admit", "store", "retrieve",
                                "greet"} => shown[t] = {}

\* The rows belong to turns that have left _run_ask.
RowsAreSettled == \A r \in rows : pc[r.turn] \in {"render", "done", "failed"}

\* A turn was numbered when there were so many rows, and rows stay.
NumbersAreCounts ==
    /\ IsFiniteSet(rows)
    /\ \A t \in Turns : number[t] \in 0..Cardinality(rows)

IInv == /\ TypeOK
        /\ CacheIsTrue
        /\ AdmissibleIsTrue
        /\ NothingIsHidden
        /\ ResultsAreShown
        /\ NothingShown
        /\ RowsAreSettled
        /\ NumbersAreCounts
        /\ CitedWasInForce
        /\ TurnsAreNumbered
        /\ NoSourceIsTrue

-----------------------------------------------------------------------------
\* Unset is no set of chunks.
LEMMA UnsetIsNone == Unset \notin SUBSET Chunks
BY ConversationAssumption DEF Unset

\* A date from the resolver falls into the window of the corpus.
LEMMA ClampedInWindow == \A d \in Days : Clamped(d) \in Window
BY ConversationAssumption DEF Clamped, Window

\* When the rows are numbered without a gap, the next number is their count.
LEMMA NextIndexIsCount ==
    ASSUME IsFiniteSet(rows), TurnsAreNumbered
    PROVE  NextTurnIndex = Cardinality(rows)
<1>1. CASE rows = {}
  BY <1>1, FS_EmptySet DEF NextTurnIndex
<1>2. CASE rows # {}
  <2> DEFINE c == Cardinality(rows)
             S == {r.number : r \in rows}
  <2>1. c \in Nat /\ c # 0
    BY <1>2, FS_CardinalityType, FS_EmptySet
  <2>2. S = 0..c-1
    BY DEF TurnsAreNumbered
  <2>3. \A n \in S : (\A r \in rows : r.number <= n) <=> n = c - 1
    <3>1. c - 1 \in S
      BY <2>1, <2>2
    <3>2. \A n \in S : n \in Nat /\ n <= c - 1
      BY <2>1, <2>2
    <3>3. PICK q \in rows : q.number = c - 1
      BY <3>1
    <3>4. \A r \in rows : r.number \in S
      OBVIOUS
    <3> HIDE DEF S, c
    <3>5. ASSUME NEW n \in S, \A r \in rows : r.number <= n PROVE n = c - 1
      <4>1. n \in Nat /\ n <= c - 1
        BY <3>2
      <4>2. c - 1 <= n
        BY <3>3, <3>5
      <4> QED BY <2>1, <4>1, <4>2
    <3>6. \A r \in rows : r.number <= c - 1
      BY <3>2, <3>4
    <3> QED BY <3>5, <3>6
  <2>4. LastNumber = c - 1
    <3>1. c - 1 \in S
      BY <2>1, <2>2
    <3>2. LastNumber = CHOOSE n \in S : \A r \in rows : r.number <= n
      BY DEF LastNumber
    <3> HIDE DEF S
    <3>3. \E n \in S : \A r \in rows : r.number <= n
      BY <3>1, <2>3
    <3> QED BY <3>2, <3>3, <2>3
  <2> QED BY <1>2, <2>1, <2>4 DEF NextTurnIndex
<1> QED BY <1>1, <1>2

-----------------------------------------------------------------------------
\* The invariant holds of a process that has just started.
LEMMA InitIInv == Init => IInv
<1> SUFFICES ASSUME Init PROVE IInv
  OBVIOUS
<1> USE ConversationAssumption DEF Init
<1>1. IsFiniteSet(rows) /\ Cardinality(rows) = 0 /\ Cardinality({}) = 0
  BY FS_EmptySet
<1>2. TypeOK
  BY <1>1 DEF TypeOK, Places, Views, NoResult, Results
<1>3. ResultsAreShown
  BY DEF ResultsAreShown, NoResult
<1>4. TurnsAreNumbered
  BY <1>1 DEF TurnsAreNumbered
<1> QED BY <1>1, <1>2, <1>3, <1>4 DEF IInv, CacheIsTrue, AdmissibleIsTrue, NothingShown, RowsAreSettled,
                                      NumbersAreCounts, CitedWasInForce,
                                      NothingIsHidden, NoSourceIsTrue, At
-----------------------------------------------------------------------------
\* Every refusal the code gives is a well-formed result.
LEMMA RefusalIsResult == \A reason \in Reasons : Refusal(reason) \in Results
BY DEF Refusal, Results

\* A reply is judged to a result that cites nothing but what was shown.
LEMMA JudgedIsShown ==
    ASSUME NEW t \in Turns, shown[t] \in SUBSET Chunks, NEW refs \in Refs
    PROVE  /\ Judged(refs, t) \in Results
           /\ Judged(refs, t).cited \subseteq shown[t]
           /\ Judged(refs, t).outcome # "none"
<1>1. PICK n \in 0..MaxRefs : refs \in [1..n -> [id : Chunks \union {Alien}, exact : BOOLEAN]]
  BY DEF Refs
<1>2. \A i \in DOMAIN refs : refs[i].id \in Chunks \union {Alien}
  BY <1>1
<1>3. CASE \A i \in Firsts(refs) : Proven(refs[i], t)
  <2>1. \A i \in Firsts(refs) : refs[i].id \in shown[t]
    BY <1>3 DEF Proven
  <2>2. {refs[i].id : i \in {m \in Lasts(refs) : ~refs[m].exact}} \subseteq Chunks \union {Alien}
    BY <1>2 DEF Lasts
  <2>3. {refs[i].id : i \in Firsts(refs)} \subseteq shown[t]
    BY <2>1
  <2> QED BY <1>3, <2>2, <2>3 DEF Judged, Results
<1>4. CASE ~ \A i \in Firsts(refs) : Proven(refs[i], t)
  BY <1>4 DEF Judged, Refusal, Results, Reasons
<1> QED BY <1>3, <1>4

-----------------------------------------------------------------------------
\* Turns whose locals are gone are as well typed as before.
LEMMA ForgetIsTyped ==
    ASSUME TypeOK, NEW S \in SUBSET Turns, Forget(S),
           vectors \subseteq vectors', lexicon \subseteq lexicon'
    PROVE  /\ greets' \in [Turns -> BOOLEAN]
           /\ adm' \in [Turns -> SUBSET Chunks]
           /\ shown' \in [Turns -> SUBSET Chunks]
           /\ result' \in [Turns -> Results]
           /\ \A t \in Turns : /\ shown'[t] \subseteq adm'[t] \intersect (vectors' \union lexicon')
                               /\ Cardinality(shown'[t]) <= K
<1>1. Cardinality({}) = 0
  BY FS_EmptySet
<1>2. NoResult \in Results
  BY DEF NoResult, Results
<1> QED BY <1>1, <1>2, ConversationAssumption DEF TypeOK, Forget

\* Every step of a turn keeps the variables in their types.
LEMMA StepTypeOK ==
    ASSUME IInv, NEW t \in Turns, TurnStep(t)
    PROVE  TypeOK'
<1> USE ConversationAssumption DEF IInv, TypeOK, Places, Views, process, Raise
<1>1. CASE Number(t)
  <2>1. NextTurnIndex \in Nat
    BY NextIndexIsCount, FS_CardinalityType DEF NumbersAreCounts
  <2> QED BY <1>1, <2>1, RefusalIsResult DEF Number, GoTo, Reasons
<1>2. CASE LoadThread(t)
  BY <1>2 DEF LoadThread, GoTo
<1>3. CASE Resolve(t)
  <2>1. PICK d \in Days : asOf' = [asOf EXCEPT ![t] = Clamped(d)] \/ asOf' = asOf
    BY <1>3 DEF Resolve
  <2>2. Clamped(d) \in Window /\ Clamped(d) \in Days
    BY ClampedInWindow DEF Window
  <2>3. asOf' \in [Turns -> Days] /\ \A u \in Turns : asOf'[u] \in Window \union {Requested[u]}
    BY <2>1, <2>2
  <2> QED BY <1>3, <2>3 DEF Resolve, GoTo
<1>4. CASE CacheHit(t)
  <2>1. asOf[t] \in Days
    BY DEF Window
  <2>2. Cached(asOf[t]) \in SUBSET Chunks
    BY <1>4, <2>1 DEF CacheHit, Cached
  <2>3. adm[t] = {}
    BY <1>4 DEF CacheHit, At, AdmissibleIsTrue
  <2> QED BY <1>4, <2>2, <2>3 DEF CacheHit, GoTo
<1>5. CASE FetchAdmissible(t)
  <2>1. adm[t] = {}
    BY <1>5 DEF FetchAdmissible, At, AdmissibleIsTrue
  <2> QED BY <1>5, <2>1 DEF FetchAdmissible, GoTo
<1>6. CASE StoreAdmissible(t)
  BY <1>6 DEF StoreAdmissible, GoTo
<1>7. CASE Retrieve(t)
  <2>1. result' \in [Turns -> Results]
    BY <1>7, RefusalIsResult DEF Retrieve, PreFlight, Reasons
  <2>2. UNCHANGED <<corpus, vectors, lexicon, cache, restarts, adm>>
    BY <1>7 DEF Retrieve, process
  <2>3. /\ shown' \in [Turns -> SUBSET Chunks]
        /\ \A u \in Turns : /\ shown'[u] \subseteq adm[u] \intersect (vectors \union lexicon)
                            /\ Cardinality(shown'[u]) <= K
    <3>1. \A hits \in Found(t) : Hydrated(hits) = hits
      BY DEF Found, Hydrated
    <3> QED BY <1>7, <3>1 DEF Retrieve, Found
  <2>4. pc' \in [Turns -> Places]
    BY <1>7 DEF Retrieve, GoTo
  <2> QED BY <1>7, <2>1, <2>2, <2>3, <2>4 DEF Retrieve
<1>8. CASE Draft(t)
  <2>1. result' \in [Turns -> Results]
    <3>1. \A refs \in Refs : Judged(refs, t) \in Results
      BY JudgedIsShown
    <3> QED BY <1>8, <3>1, RefusalIsResult DEF Draft, Reasons
  <2> QED BY <1>8, <2>1 DEF Draft, GoTo
<1>9. CASE Fail(t)
  BY <1>9, ForgetIsTyped DEF Fail, GoTo
<1>10. CASE Persist(t)
  <2>1. [turn |-> t, number |-> number[t], asOf |-> RowDay(t), outcome |-> result[t].outcome,
         cited |-> result[t].cited, candidates |-> shown[t]] \in Rows
    BY <1>10 DEF Persist, At, ResultsAreShown, RowDay, Rows, Results
  <2> QED BY <1>10, <2>1, ForgetIsTyped DEF Persist, GoTo
<1>11. CASE PersistRefused(t)
  BY <1>11, ForgetIsTyped DEF PersistRefused, GoTo
<1>12. CASE Render(t)
  BY <1>12 DEF Render, GoTo
<1> QED BY <1>1, <1>2, <1>3, <1>4, <1>5, <1>6, <1>7, <1>8, <1>9, <1>10, <1>11, <1>12 DEF TurnStep
-----------------------------------------------------------------------------
\* The cache and the admissible sets stay true of their dates.
LEMMA StepIsTrue ==
    ASSUME IInv, NEW t \in Turns, TurnStep(t)
    PROVE  CacheIsTrue' /\ AdmissibleIsTrue'
<1> USE ConversationAssumption DEF IInv, TypeOK, CacheIsTrue, AdmissibleIsTrue, At, GoTo, process, Raise
<1>1. CASE Number(t)
  BY <1>1 DEF Number
<1>2. CASE LoadThread(t)
  BY <1>2 DEF LoadThread
<1>3. CASE Resolve(t)
  BY <1>3 DEF Resolve
<1>4. CASE CacheHit(t)
  <2>1. Cached(asOf[t]) \subseteq corpus \intersect InForceOn[asOf[t]]
    BY <1>4 DEF CacheHit, Cached
  <2> QED BY <1>4, <2>1 DEF CacheHit
<1>5. CASE FetchAdmissible(t)
  BY <1>5 DEF FetchAdmissible
<1>6. CASE StoreAdmissible(t)
  BY <1>6 DEF StoreAdmissible
<1>7. CASE Retrieve(t)
  BY <1>7 DEF Retrieve
<1>8. CASE Draft(t)
  BY <1>8 DEF Draft
<1>9. CASE Fail(t)
  BY <1>9 DEF Fail, Forget
<1>10. CASE Persist(t)
  BY <1>10 DEF Persist, Forget
<1>11. CASE PersistRefused(t)
  BY <1>11 DEF PersistRefused, Forget
<1>12. CASE Render(t)
  BY <1>12 DEF Render
<1> QED BY <1>1, <1>2, <1>3, <1>4, <1>5, <1>6, <1>7, <1>8, <1>9, <1>10, <1>11, <1>12 DEF TurnStep

\* Verdicts cite what was shown.
LEMMA StepIsShown ==
    ASSUME IInv, NEW t \in Turns, TurnStep(t)
    PROVE  ResultsAreShown' /\ NothingShown'
<1> USE ConversationAssumption DEF IInv, TypeOK, ResultsAreShown, NothingShown, At, GoTo, process, Raise
<1>0. \A reason \in Reasons : /\ Refusal(reason).cited = {}
                              /\ Refusal(reason).outcome # "none"
  BY DEF Refusal, Reasons
<1>1. CASE Number(t)
  BY <1>1, <1>0 DEF Number, Reasons
<1>2. CASE LoadThread(t)
  BY <1>2 DEF LoadThread
<1>3. CASE Resolve(t)
  BY <1>3 DEF Resolve
<1>4. CASE CacheHit(t)
  BY <1>4 DEF CacheHit
<1>5. CASE FetchAdmissible(t)
  BY <1>5 DEF FetchAdmissible
<1>6. CASE StoreAdmissible(t)
  BY <1>6 DEF StoreAdmissible
<1>7. CASE Retrieve(t)
  <2>1. result[t].cited = {}
    <3>1. shown[t] = {}
      BY <1>7 DEF Retrieve, NothingShown
    <3> QED BY <3>1
  <2> QED BY <1>7, <1>0, <2>1 DEF Retrieve, PreFlight, Reasons
<1>8. CASE Draft(t)
  <2>1. \A refs \in Refs : /\ Judged(refs, t).cited \subseteq shown[t]
                           /\ Judged(refs, t).outcome # "none"
    BY JudgedIsShown
  <2> QED BY <1>8, <1>0, <2>1 DEF Draft, Reasons
<1>9. CASE Fail(t)
  BY <1>9 DEF Fail, Forget, NoResult
<1>10. CASE Persist(t)
  BY <1>10 DEF Persist, Forget, NoResult
<1>11. CASE PersistRefused(t)
  BY <1>11 DEF PersistRefused, Forget, NoResult
<1>12. CASE Render(t)
  BY <1>12 DEF Render
<1> QED BY <1>1, <1>2, <1>3, <1>4, <1>5, <1>6, <1>7, <1>8, <1>9, <1>10, <1>11, <1>12 DEF TurnStep

\* No chunk that is served is hidden, and no refusal says there is none.
LEMMA StepHidesNothing ==
    ASSUME IInv, NEW t \in Turns, TurnStep(t)
    PROVE  NothingIsHidden' /\ NoSourceIsTrue'
<1> USE ConversationAssumption DEF IInv, TypeOK, NothingIsHidden, NoSourceIsTrue, At, GoTo, process, Raise
<1>1. CASE Number(t)
  BY <1>1 DEF Number, Refusal
<1>2. CASE LoadThread(t)
  BY <1>2 DEF LoadThread
<1>3. CASE Resolve(t)
  BY <1>3 DEF Resolve
<1>4. CASE CacheHit(t)
  <2>1. vectors \intersect InForceOn[asOf[t]] \subseteq Cached(asOf[t])
    BY <1>4 DEF CacheHit, Cached
  <2> QED BY <1>4, <2>1 DEF CacheHit
<1>5. CASE FetchAdmissible(t)
  BY <1>5 DEF FetchAdmissible
<1>6. CASE StoreAdmissible(t)
  BY <1>6 DEF StoreAdmissible
<1>7. CASE Retrieve(t)
  <2>1. PICK hits \in Found(t) :
           \/ pc' = [pc EXCEPT ![t] = "draft"] /\ result' = result
           \/ /\ pc' = [pc EXCEPT ![t] = "persist"]
              /\ result' = [result EXCEPT ![t] = Refusal(PreFlight(t, hits))]
    BY <1>7 DEF Retrieve
  <2>2. hits = {} => vectors \intersect InForceOn[asOf[t]] = {}
    BY <1>7 DEF Found, Retrieve
  <2>3. PreFlight(t, hits) = "no_admissible_source" => hits = {}
    BY DEF PreFlight
  <2>4. UNCHANGED <<cache, vectors, asOf, adm>>
    BY <1>7 DEF Retrieve
  <2>5. Refusal(PreFlight(t, hits)).outcome = PreFlight(t, hits)
    BY DEF Refusal
  <2>6. ASSUME NEW u \in Turns, pc'[u] = "persist", result'[u].outcome = "no_admissible_source"
        PROVE  vectors \intersect InForceOn[asOf[u]] = {}
    BY <2>1, <2>2, <2>3, <2>5, <2>6
  <2>7. \A u \in Turns : pc'[u] \in {"store", "retrieve"} => pc[u] = pc'[u]
    BY <2>1
  <2> QED BY <2>4, <2>6, <2>7
<1>8. CASE Draft(t)
  <2>1. \A refs \in Refs : Judged(refs, t).outcome # "no_admissible_source"
    BY DEF Judged, Refusal
  <2> QED BY <1>8, <2>1 DEF Draft, Refusal
<1>9. CASE Fail(t)
  BY <1>9 DEF Fail, Forget
<1>10. CASE Persist(t)
  BY <1>10 DEF Persist, Forget
<1>11. CASE PersistRefused(t)
  BY <1>11 DEF PersistRefused, Forget
<1>12. CASE Render(t)
  BY <1>12 DEF Render
<1> QED BY <1>1, <1>2, <1>3, <1>4, <1>5, <1>6, <1>7, <1>8, <1>9, <1>10, <1>11, <1>12 DEF TurnStep

-----------------------------------------------------------------------------
\* The row a turn adds.
NewRow(t) == [turn |-> t, number |-> number[t], asOf |-> RowDay(t), outcome |-> result[t].outcome,
              cited |-> result[t].cited, candidates |-> shown[t]]

\* The turn that persists a row was numbered when there were as many rows as now.
LEMMA PersistsNextNumber ==
    ASSUME IInv, NEW t \in Turns, Persist(t)
    PROVE  /\ number[t] = Cardinality(rows)
           /\ NewRow(t) \notin rows
           /\ rows' = rows \union {NewRow(t)}
           /\ Cardinality(rows) \in Nat
           /\ IsFiniteSet(rows')
           /\ Cardinality(rows') = Cardinality(rows) + 1
<1>1. Cardinality(rows) \in Nat
  BY FS_CardinalityType DEF IInv, NumbersAreCounts
<1>2. \A r \in rows : r.number # number[t]
  BY DEF Persist, Taken
<1>3. number[t] \notin 0..Cardinality(rows)-1
  BY <1>2 DEF IInv, TurnsAreNumbered
<1>4. number[t] = Cardinality(rows)
  BY <1>1, <1>3 DEF IInv, NumbersAreCounts
<1>5. NewRow(t) \notin rows
  BY <1>2 DEF NewRow
<1>6. rows' = rows \union {NewRow(t)}
  BY DEF Persist, NewRow
<1>7. IsFiniteSet(rows') /\ Cardinality(rows') = Cardinality(rows) + 1
  BY <1>5, <1>6, FS_AddElement DEF IInv, NumbersAreCounts
<1> QED BY <1>1, <1>4, <1>5, <1>6, <1>7

\* The new row keeps the rows numbered, cited and settled.
LEMMA PersistKeepsRows ==
    ASSUME IInv, NEW t \in Turns, Persist(t)
    PROVE  RowsAreSettled' /\ NumbersAreCounts' /\ CitedWasInForce' /\ TurnsAreNumbered'
<1> DEFINE c == Cardinality(rows)
<1>1. /\ number[t] = c
      /\ c \in Nat
      /\ rows' = rows \union {NewRow(t)}
      /\ IsFiniteSet(rows')
      /\ Cardinality(rows') = c + 1
  BY PersistsNextNumber
<1> HIDE DEF c
<1>2. RowsAreSettled'
  <2>1. \E place \in {"render", "done", "failed"} : pc' = [pc EXCEPT ![t] = place]
    BY DEF Persist, GoTo, Raise
  <2>2. NewRow(t).turn = t
    BY DEF NewRow
  <2> QED BY <1>1, <2>1, <2>2 DEF IInv, TypeOK, RowsAreSettled
<1>3. NumbersAreCounts'
  <2>1. number' = number
    BY DEF Persist
  <2>2. \A u \in Turns : number[u] \in 0..c
    BY DEF IInv, NumbersAreCounts, c
  <2> QED BY <1>1, <2>1, <2>2 DEF NumbersAreCounts
<1>4. CitedWasInForce'
  <2>1. corpus' = corpus
    BY DEF Persist
  <2>2. /\ NewRow(t).cited \subseteq corpus \intersect InForceOn[NewRow(t).asOf]
        /\ NewRow(t).cited \subseteq NewRow(t).candidates
    BY DEF NewRow, RowDay, IInv, TypeOK, AdmissibleIsTrue, ResultsAreShown
  <2>3. /\ TemporalCorrect(NewRow(t))
        /\ NewRow(t).cited \subseteq Citations(NewRow(t))
        /\ NewRow(t).cited \subseteq corpus
    BY <2>2 DEF TemporalCorrect, Citations
  <2>4. \A r \in rows : /\ TemporalCorrect(r)
                        /\ r.cited \subseteq Citations(r)
                        /\ r.cited \subseteq corpus
    BY DEF IInv, CitedWasInForce
  <2> QED BY <1>1, <2>1, <2>3, <2>4 DEF CitedWasInForce, TemporalCorrect, Citations
<1>5. TurnsAreNumbered'
  <2>1. {r.number : r \in rows} = 0..c-1
    BY DEF IInv, TurnsAreNumbered, c
  <2>2. {r.number : r \in rows'} = {r.number : r \in rows} \union {c}
    <3>1. NewRow(t).number = c
      BY <1>1 DEF NewRow
    <3>2. rows' = rows \union {NewRow(t)}
      BY <1>1
    <3> QED BY <3>1, <3>2, Zenon
  <2>3. {r.number : r \in rows'} = 0..c
    BY <1>1, <2>1, <2>2
  <2>4. \A r \in rows : r.number # c
    BY <1>1 DEF Persist, Taken
  <2>5. \A q, r \in rows' : q.number = r.number => q = r
    BY <1>1, <2>4 DEF IInv, TurnsAreNumbered, NewRow
  <2>6. Cardinality(rows') - 1 = c
    BY <1>1
  <2> QED BY <2>3, <2>5, <2>6 DEF TurnsAreNumbered
<1> QED BY <1>2, <1>3, <1>4, <1>5

\* A step that is not Persist leaves the rows alone.
LEMMA OthersKeepRows ==
    ASSUME IInv, NEW t \in Turns, TurnStep(t), ~Persist(t)
    PROVE  RowsAreSettled' /\ NumbersAreCounts' /\ CitedWasInForce' /\ TurnsAreNumbered'
<1>1. rows' = rows /\ corpus' = corpus
  BY DEF TurnStep, Number, LoadThread, Resolve, CacheHit, FetchAdmissible, StoreAdmissible,
         Retrieve, Draft, Fail, PersistRefused, Render
<1>2. RowsAreSettled'
  <2>1. \A u \in Turns : pc[u] \in {"render", "done", "failed"} =>
                           pc'[u] \in {"render", "done", "failed"}
    BY DEF IInv, TypeOK, TurnStep, Number, LoadThread, Resolve, CacheHit, FetchAdmissible,
           StoreAdmissible, Retrieve, Draft, Fail, PersistRefused, Render, At, GoTo, Raise
  <2> QED BY <1>1, <2>1 DEF IInv, TypeOK, Rows, RowsAreSettled
<1>3. NumbersAreCounts'
  <2>1. CASE Number(t)
    <3>1. number' = [number EXCEPT ![t] = Cardinality(rows)]
      BY <2>1, NextIndexIsCount DEF Number, IInv, NumbersAreCounts
    <3>2. Cardinality(rows) \in Nat
      BY FS_CardinalityType DEF IInv, NumbersAreCounts
    <3>3. \A u \in Turns : number'[u] \in 0..Cardinality(rows)
      BY <3>1, <3>2 DEF IInv, TypeOK, NumbersAreCounts
    <3> QED BY <1>1, <3>3 DEF IInv, NumbersAreCounts
  <2>2. CASE ~Number(t)
    <3>1. number' = number
      BY <2>2 DEF TurnStep, LoadThread, Resolve, CacheHit, FetchAdmissible, StoreAdmissible,
                  Retrieve, Draft, Fail, PersistRefused, Render
    <3> QED BY <1>1, <3>1 DEF IInv, NumbersAreCounts
  <2> QED BY <2>1, <2>2
<1>4. CitedWasInForce' /\ TurnsAreNumbered'
  BY <1>1 DEF IInv, CitedWasInForce, TurnsAreNumbered
<1> QED BY <1>2, <1>3, <1>4

-----------------------------------------------------------------------------
\* Every step of the system keeps the invariant.
LEMMA NextIInv == IInv /\ [Next]_vars => IInv'
<1> SUFFICES ASSUME IInv, [Next]_vars PROVE IInv'
  OBVIOUS
<1>1. ASSUME NEW t \in Turns, TurnStep(t) PROVE IInv'
  <2>1. RowsAreSettled' /\ NumbersAreCounts' /\ CitedWasInForce' /\ TurnsAreNumbered'
    BY <1>1, PersistKeepsRows, OthersKeepRows
  <2> QED BY <1>1, <2>1, StepTypeOK, StepIsTrue, StepIsShown, StepHidesNothing DEF IInv
<1>2. CASE Ingest
  BY <1>2 DEF Ingest, turnVars, process, IInv, TypeOK, CacheIsTrue, AdmissibleIsTrue, NothingIsHidden,
              ResultsAreShown, NothingShown, RowsAreSettled, NumbersAreCounts, CitedWasInForce,
              TurnsAreNumbered, NoSourceIsTrue, At
<1>3. CASE Restart
  <2> DEFINE running == {t \in Turns : pc[t] \notin {"new", "done", "failed"}}
  <2>1. /\ corpus' = corpus /\ rows' = rows
        /\ vectors \subseteq vectors' /\ vectors' \subseteq corpus
        /\ lexicon \subseteq lexicon' /\ lexicon' \subseteq corpus
        /\ number' = number /\ asOf' = asOf /\ view' = view
        /\ cache' = [d \in Days |-> Unset]
        /\ pc' = [t \in Turns |-> IF t \in running THEN "failed" ELSE pc[t]]
        /\ Forget(running)
    BY <1>3 DEF Restart, FreshCache
  <2>2. /\ greets' \in [Turns -> BOOLEAN]
        /\ adm' \in [Turns -> SUBSET Chunks]
        /\ shown' \in [Turns -> SUBSET Chunks]
        /\ result' \in [Turns -> Results]
        /\ \A t \in Turns : /\ shown'[t] \subseteq adm'[t] \intersect (vectors' \union lexicon')
                            /\ Cardinality(shown'[t]) <= K
    BY <2>1, ForgetIsTyped DEF IInv, TypeOK
  <2>3. TypeOK'
    BY <1>3, <2>1, <2>2, ConversationAssumption DEF IInv, TypeOK, Places, Restart
  <2>4. CacheIsTrue' /\ AdmissibleIsTrue' /\ NothingIsHidden'
    BY <2>1 DEF IInv, TypeOK, CacheIsTrue, AdmissibleIsTrue, NothingIsHidden, Forget
  <2>5. ResultsAreShown' /\ NothingShown' /\ NoSourceIsTrue'
    BY <2>1 DEF IInv, TypeOK, ResultsAreShown, NothingShown, NoSourceIsTrue, Forget, NoResult, At
  <2>6. RowsAreSettled' /\ NumbersAreCounts' /\ CitedWasInForce' /\ TurnsAreNumbered'
    BY <2>1 DEF IInv, TypeOK, Rows, RowsAreSettled, NumbersAreCounts, CitedWasInForce,
                TurnsAreNumbered
  <2> QED BY <2>3, <2>4, <2>5, <2>6 DEF IInv
<1>4. CASE UNCHANGED vars
  BY <1>4 DEF vars, turnVars, process, IInv, TypeOK, CacheIsTrue, AdmissibleIsTrue, NothingIsHidden,
              ResultsAreShown, NothingShown, RowsAreSettled, NumbersAreCounts, CitedWasInForce,
              TurnsAreNumbered, NoSourceIsTrue, At
<1> QED BY <1>1, <1>2, <1>3, <1>4 DEF Next

\* The inductive invariant holds of every reachable state.
THEOREM Inductive == Spec => []IInv
BY InitIInv, NextIInv, PTL DEF Spec

\* Every variable keeps its type; in particular a turn is never about a date
\* that the resolver made up (api/app.py, answer/resolve.py).
THEOREM TypeCorrect == Spec => []TypeOK
<1>1. IInv => TypeOK
  BY DEF IInv
<1> QED BY <1>1, Inductive, PTL

\* Whatever is asked, replied, ingested and restarted, and however the turns
\* interleave, an answer on record cites only law in force on its date.
THEOREM CitationsAreInForce == Spec => []CitedWasInForce
<1>1. IInv => CitedWasInForce
  BY DEF IInv
<1> QED BY <1>1, Inductive, PTL

\* The rows of a conversation are numbered without gap or repetition, by the
\* unique index alone (api/traces.py next_turn_index, persist).
THEOREM NumberingIsGapless == Spec => []TurnsAreNumbered
<1>1. IInv => TurnsAreNumbered
  BY DEF IInv
<1> QED BY <1>1, Inductive, PTL

\* The cache of admissible ids, never invalidated, hides nothing that the
\* process could have served (bench/temporal.py load_admissible).
THEOREM StaleCacheIsHarmless == Spec => []NoSourceIsTrue
<1>1. IInv => NoSourceIsTrue
  BY DEF IInv
<1> QED BY <1>1, Inductive, PTL

-----------------------------------------------------------------------------
(* The conversation implements cite-or-refuse.                             *)

\* The verdicts of the abstract specification, read from the rows.
Verdicts == [t \in Turns |-> VerdictOf(RowsOf(t))]

\* The verdict a turn with one row has is what that row says.
LEMMA OneRowDecides ==
    ASSUME NEW r
    PROVE  VerdictOf({r}) = IF r.outcome = "answered"
                            THEN [kind |-> "answer", day |-> r.asOf, sources |-> r.cited]
                            ELSE [kind |-> "refusal", day |-> r.asOf]
<1>1. (CHOOSE x \in {r} : TRUE) = r
  OBVIOUS
<1> QED BY <1>1 DEF VerdictOf

\* A step that keeps the rows keeps every verdict.
LEMMA SameRowsSameVerdicts ==
    ASSUME rows' = rows
    PROVE  Verdicts' = Verdicts
BY DEF Verdicts, RowsOf, VerdictOf

\* Persist gives its turn, which had none, a verdict, and no other turn.
LEMMA PersistDecides ==
    ASSUME IInv, NEW t \in Turns, Persist(t)
    PROVE  /\ RowsOf(t) = {}
           /\ Verdicts' = [Verdicts EXCEPT ![t] = VerdictOf({NewRow(t)})]
<1>1. rows' = rows \union {NewRow(t)}
  BY DEF Persist, NewRow
<1>2. RowsOf(t) = {}
  BY DEF IInv, RowsAreSettled, RowsOf, Persist, At
<1>3. NewRow(t).turn = t
  BY DEF NewRow
<1>4. RowsOf(t)' = {NewRow(t)}
  BY <1>1, <1>2, <1>3 DEF RowsOf
<1>5. ASSUME NEW u \in Turns, u # t
      PROVE  RowsOf(u)' = RowsOf(u)
  BY <1>1, <1>3, <1>5 DEF RowsOf
<1>6. ASSUME NEW u \in Turns
      PROVE  VerdictOf(RowsOf(u))' = VerdictOf(RowsOf(u)')
  BY DEF VerdictOf
<1>7. Verdicts' = [u \in Turns |-> VerdictOf(RowsOf(u)')]
  BY <1>6 DEF Verdicts
<1>8. Verdicts' = [u \in Turns |-> IF u = t THEN VerdictOf({NewRow(t)}) ELSE VerdictOf(RowsOf(u))]
  BY <1>4, <1>5, <1>7
<1> QED BY <1>2, <1>8 DEF Verdicts

\* The step that records an answer is Answer, one that records a refusal Refuse.
LEMMA PersistIsPromised ==
    ASSUME IInv, NEW t \in Turns, Persist(t)
    PROVE  Promise!Next
<1>1. /\ Verdicts[t] = Promise!Pending
      /\ Verdicts' = [Verdicts EXCEPT ![t] = VerdictOf({NewRow(t)})]
  BY PersistDecides DEF Verdicts, VerdictOf, Promise!Pending
<1>2. /\ NewRow(t).asOf = asOf[t]
      /\ NewRow(t).outcome = result[t].outcome
      /\ NewRow(t).cited = result[t].cited
      /\ asOf[t] \in Days
  BY DEF NewRow, RowDay, IInv, TypeOK
<1>3. result[t].cited \subseteq Chunks \intersect InForceOn[asOf[t]]
  BY DEF IInv, TypeOK, AdmissibleIsTrue, ResultsAreShown
<1>4. CASE result[t].outcome = "answered"
  <2>1. Promise!Decide(t, [kind |-> "answer", day |-> asOf[t], sources |-> result[t].cited])
    BY <1>1, <1>2, <1>4, OneRowDecides DEF Promise!Decide, Verdicts
  <2>2. Promise!Answer(t)
    BY <1>2, <1>3, <2>1 DEF Promise!Answer
  <2> QED BY <2>2 DEF Promise!Next
<1>5. CASE result[t].outcome # "answered"
  <2>1. Promise!Decide(t, [kind |-> "refusal", day |-> asOf[t]])
    BY <1>1, <1>2, <1>5, OneRowDecides DEF Promise!Decide, Verdicts
  <2>2. Promise!Refuse(t)
    BY <1>2, <2>1 DEF Promise!Refuse
  <2> QED BY <2>2 DEF Promise!Next
<1> QED BY <1>4, <1>5

\* Every turn is answered from law in force on its day, or refused, or has no
\* verdict, and no verdict is ever revised (_run_ask, persist).
THEOREM CiteOrRefuseIsKept == Spec => ImplementsCiteOrRefuse
<1>1. Init => Promise!Init
  BY DEF Init, Promise!Init, Promise!Pending, VerdictOf, RowsOf
<1>2. IInv /\ [Next]_vars => [Promise!Next]_Verdicts
  <2> SUFFICES ASSUME IInv, [Next]_vars
               PROVE  Promise!Next \/ Verdicts' = Verdicts
    OBVIOUS
  <2>1. CASE \E t \in Turns : Persist(t)
    BY <2>1, PersistIsPromised
  <2>2. CASE ~\E t \in Turns : Persist(t)
    <3>1. rows' = rows
      BY <2>2 DEF Next, TurnStep, Number, LoadThread, Resolve, CacheHit, FetchAdmissible,
                  StoreAdmissible, Retrieve, Draft, Fail, PersistRefused, Render, Ingest,
                  Restart, vars
    <3> QED BY <3>1, SameRowsSameVerdicts
  <2> QED BY <2>1, <2>2
<1> QED BY <1>1, <1>2, Inductive, PTL
        DEF Spec, ImplementsCiteOrRefuse, Promise!Spec, Verdicts

=============================================================================
