---------------------------- MODULE Conversation ----------------------------
(***************************************************************************)
(* The turns of one conversation in the API process: _run_ask (api/app.py) *)
(* from the request to the row in query_traces, with the resolver          *)
(* (answer/resolve.py), the cache of admissible ids (bench/temporal.py),   *)
(* the gate, the model's reply and its validator (answer/), and, for the   *)
(* turns streamed to the page, the fragment rendered at the end.           *)
(*                                                                         *)
(* Turns interleave at the awaits: an action is what a turn does from one  *)
(* await that matters to the next.  Meanwhile ingestion adds chunks to the *)
(* corpus (it never removes or changes one) and the process may restart.   *)
(* What the providers of the language model reply is any reply.  The text  *)
(* of a chunk is left out: a quote is in the text of its chunk or is not.  *)
(***************************************************************************)
EXTENDS Integers, Sequences, FiniteSets

CONSTANTS
    Turns,        \* the requests, all of one conversation
    Streamed,     \* the requests that come by /ui/ask, the others by /ask
    Chunks,       \* chunk ids
    Before,       \* those ingested before the process starts
    Alien,        \* an id that no chunk has
    Days,         \* the dates somebody may think of
    Requested,    \* the as_of each request carries, or today
    InForceOn,    \* the chunks in force on each date
    CorpusSince,  \* AppState.corpus_since
    Today,
    K,            \* how many passages the model is shown
    MaxRefs,      \* bound: citations in a reply
    MaxRestarts   \* bound: restarts of the process

ASSUME ConversationAssumption ==
    /\ Streamed \subseteq Turns
    /\ Before \subseteq Chunks
    /\ Alien \notin Chunks
    /\ Days \subseteq Nat
    /\ Requested \in [Turns -> Days]
    /\ InForceOn \in [Days -> SUBSET Chunks]
    /\ CorpusSince \in Days /\ Today \in Days /\ CorpusSince <= Today
    /\ K \in Nat \ {0}
    /\ MaxRefs \in Nat
    /\ MaxRestarts \in Nat

VARIABLES
    corpus,    \* chunks committed to Postgres
    vectors,   \* those in the vector index of the process
    lexicon,   \* those in its lexical index
    cache,     \* _ADMISSIBLE_IDS_CACHE
    rows,      \* query_traces
    pc,        \* per turn, where _run_ask is
    number,    \* turn_index
    asOf,      \* as_of, requested and then resolved
    greets,    \* whether the resolver made a greeting of the question
    adm,       \* AdmissibleSet.ids
    shown,     \* the candidates: the passages found, and put before the model
    result,    \* the Answer or Refusal
    view,      \* what the page shows when the turn has run
    restarts

process == <<vectors, lexicon, cache, restarts>>
turnVars == <<pc, number, asOf, greets, adm, shown, result, view>>
vars == <<corpus, process, rows, turnVars>>

Places == {"new", "thread", "resolve", "admit", "store", "retrieve", "draft",
           "greet", "persist", "render", "done", "failed"}
Views == {"none", "plain", "rupture", "error"}

\* "This date is not in the cache": a value that is no set of chunks.
Unset == {Alien}

Window == {d \in Days : CorpusSince <= d /\ d <= Today}

Reasons == {"greeting", "no_admissible_source", "low_confidence", "provider_refused",
            "malformed_response", "out_of_scope", "insufficient_evidence",
            "fabricated_citation"}

\* AnswerResult; `misquoted` are the cited chunks whose quote is not in their text.
Results == [outcome : Reasons \union {"none", "answered"},
            cited : SUBSET Chunks, misquoted : SUBSET (Chunks \union {Alien})]

NoResult == [outcome |-> "none", cited |-> {}, misquoted |-> {}]
Refusal(reason) == [outcome |-> reason, cited |-> {}, misquoted |-> {}]

Rows == [turn : Turns, number : Nat, asOf : Days, outcome : Reasons \union {"answered"},
         cited : SUBSET Chunks, candidates : SUBSET Chunks]

\* The rows and the locals of each turn are well formed; a turn is about the date
\* it asked for or one inside the window of the corpus (_safe_as_of), and at most
\* K passages, admissible and indexed, are shown (retrieve.py).
TypeOK ==
    /\ vectors \union lexicon \subseteq corpus
    /\ corpus \subseteq Chunks
    /\ cache \in [Days -> (SUBSET Chunks) \union {Unset}]
    /\ rows \subseteq Rows
    /\ pc \in [Turns -> Places]
    /\ number \in [Turns -> Nat]
    /\ asOf \in [Turns -> Days]
    /\ greets \in [Turns -> BOOLEAN]
    /\ adm \in [Turns -> SUBSET Chunks]
    /\ shown \in [Turns -> SUBSET Chunks]
    /\ result \in [Turns -> Results]
    /\ view \in [Turns -> Views]
    /\ restarts \in 0..MaxRestarts
    /\ \A t \in Turns : /\ asOf[t] \in Window \union {Requested[t]}
                        /\ shown[t] \subseteq adm[t] \intersect (vectors \union lexicon)
                        /\ Cardinality(shown[t]) <= K

Init ==
    /\ corpus = Before
    /\ vectors = Before
    /\ lexicon = Before
    /\ cache = [d \in Days |-> Unset]
    /\ rows = {}
    /\ pc = [t \in Turns |-> "new"]
    /\ number = [t \in Turns |-> 0]
    /\ asOf = Requested
    /\ greets = [t \in Turns |-> FALSE]
    /\ adm = [t \in Turns |-> {}]
    /\ shown = [t \in Turns |-> {}]
    /\ result = [t \in Turns |-> NoResult]
    /\ view = [t \in Turns |-> "none"]
    /\ restarts = 0

At(t, place) == pc[t] = place
GoTo(t, place) == pc' = [pc EXCEPT ![t] = place]

\* The locals of _run_ask are gone when it returns or raises.
Forget(S) ==
    /\ greets' = [t \in Turns |-> t \notin S /\ greets[t]]
    /\ adm' = [t \in Turns |-> IF t \in S THEN {} ELSE adm[t]]
    /\ shown' = [t \in Turns |-> IF t \in S THEN {} ELSE shown[t]]
    /\ result' = [t \in Turns |-> IF t \in S THEN NoResult ELSE result[t]]

-----------------------------------------------------------------------------
(* The turn is placed in its thread.                                       *)

LastNumber == CHOOSE n \in {r.number : r \in rows} : \A r \in rows : r.number <= n

NextTurnIndex == IF rows = {} THEN 0 ELSE 1 + LastNumber

\* next_turn_index; a text that only greets is settled at once.
Number(t) ==
    /\ At(t, "new")
    /\ number' = [number EXCEPT ![t] = NextTurnIndex]
    /\ \/ /\ result' = [result EXCEPT ![t] = Refusal("greeting")]
          /\ GoTo(t, "greet")
       \/ /\ GoTo(t, "thread")
          /\ UNCHANGED result
    /\ UNCHANGED <<corpus, process, rows, asOf, greets, adm, shown, view>>

\* load_thread: the first turn of a thread has nothing to resolve.
LoadThread(t) ==
    /\ At(t, "thread")
    /\ GoTo(t, IF rows = {} THEN "admit" ELSE "resolve")
    /\ UNCHANGED <<corpus, process, rows, number, asOf, greets, adm, shown, result, view>>

\* Faulty: the resolver's date is taken as it is.
ClampedNot(d) == d

\* _safe_as_of
Clamped(d) == IF d < CorpusSince THEN CorpusSince ELSE IF d > Today THEN Today ELSE d

\* resolve_followup: the model rewrites the question and proposes a date, or
\* none that can be read.
Resolve(t) ==
    /\ At(t, "resolve")
    /\ GoTo(t, "admit")
    /\ \E d \in Days : asOf' = [asOf EXCEPT ![t] = Clamped(d)] \/ UNCHANGED asOf
    /\ \E g \in BOOLEAN : greets' = [greets EXCEPT ![t] = g]
    /\ UNCHANGED <<corpus, process, rows, number, adm, shown, result, view>>

-----------------------------------------------------------------------------
(* Retrieval.                                                              *)

Cached(d) == cache[d]

\* load_admissible finds the date in the cache ...
CacheHit(t) ==
    /\ At(t, "admit")
    /\ Cached(asOf[t]) # Unset
    /\ adm' = [adm EXCEPT ![t] = Cached(asOf[t])]
    /\ GoTo(t, "retrieve")
    /\ UNCHANGED <<corpus, process, rows, number, asOf, greets, shown, result, view>>

\* ... or asks Postgres (admissible_chunk_ids) ...
FetchAdmissible(t) ==
    /\ At(t, "admit")
    /\ Cached(asOf[t]) = Unset
    /\ adm' = [adm EXCEPT ![t] = corpus \intersect InForceOn[asOf[t]]]
    /\ GoTo(t, "store")
    /\ UNCHANGED <<corpus, process, rows, number, asOf, greets, shown, result, view>>

\* ... and fills the cache when it has given its connection back.
StoreAdmissible(t) ==
    /\ At(t, "store")
    /\ cache' = [cache EXCEPT ![asOf[t]] = adm[t]]
    /\ GoTo(t, "retrieve")
    /\ UNCHANGED <<corpus, vectors, lexicon, rows, restarts>>
    /\ UNCHANGED <<number, asOf, greets, adm, shown, result, view>>

\* hybrid_search: up to K admissible passages of the two indexes.  The nearest
\* vectors are always found, however far; words may match nothing.
Found(t) ==
    {hits \in SUBSET ((vectors \union lexicon) \intersect adm[t]) :
        /\ Cardinality(hits) <= K
        /\ hits = {} => vectors \intersect adm[t] = {}}

\* What AnswerService.answer refuses before it calls the model: what is searched
\* for is a greeting, nothing was found, or the best hit scores too low.
PreFlight(t, hits) ==
    IF greets[t] THEN "greeting" ELSE IF hits = {} THEN "no_admissible_source" ELSE "low_confidence"

\* _hydrate: those that Postgres has.
Hydrated(hits) == hits \intersect corpus

Retrieve(t) ==
    /\ At(t, "retrieve")
    /\ \E hits \in Found(t) :
          /\ shown' = [shown EXCEPT ![t] = Hydrated(hits)]
          /\ \/ /\ hits # {} /\ ~greets[t]
                /\ GoTo(t, "draft")
                /\ UNCHANGED result
             \/ /\ result' = [result EXCEPT ![t] = Refusal(PreFlight(t, hits))]
                /\ GoTo(t, "persist")
    /\ UNCHANGED <<corpus, process, rows, number, asOf, greets, adm, view>>

-----------------------------------------------------------------------------
(* The reply and its citations.                                            *)

Refs == UNION {[1..n -> [id : Chunks \union {Alien}, exact : BOOLEAN]] : n \in 0..MaxRefs}

\* validate_citations judges the first citation of each id ...
Firsts(refs) == {i \in DOMAIN refs : \A j \in 1..i-1 : refs[j].id # refs[i].id}

\* ... but the quote kept for an id is that of its last citation.
Lasts(refs) == {i \in DOMAIN refs : \A j \in DOMAIN refs : j > i => refs[j].id # refs[i].id}

\* Faulty: any chunk in force will do, shown to the model or not.
ProvenUnseen(ref, t) == ref.id \in adm[t] /\ ref.exact

Proven(ref, t) == ref.id \in shown[t] /\ ref.id \in adm[t] /\ ref.exact

Judged(refs, t) ==
    IF \A i \in Firsts(refs) : Proven(refs[i], t)
    THEN [outcome |-> "answered",
          cited |-> {refs[i].id : i \in Firsts(refs)},
          misquoted |-> {refs[i].id : i \in {n \in Lasts(refs) : ~refs[n].exact}}]
    ELSE Refusal("fabricated_citation")

\* AnswerService.answer from the call of the model on.
Draft(t) ==
    /\ At(t, "draft")
    /\ \/ \E reason \in {"provider_refused", "malformed_response", "out_of_scope",
                         "insufficient_evidence"} :
             result' = [result EXCEPT ![t] = Refusal(reason)]
       \/ \E refs \in Refs : result' = [result EXCEPT ![t] = Judged(refs, t)]
    /\ GoTo(t, "persist")
    /\ UNCHANGED <<corpus, process, rows, number, asOf, greets, adm, shown, view>>

\* An exception ends the turn; on the page it becomes an apology.
Raise(t) ==
    /\ GoTo(t, "failed")
    /\ view' = [view EXCEPT ![t] = IF t \in Streamed THEN "error" ELSE @]

\* A provider, or Postgres, fails the turn: an error is not a refusal, and
\* nothing is recorded.
Fail(t) ==
    /\ pc[t] \notin {"done", "failed"}
    /\ Raise(t)
    /\ Forget({t})
    /\ UNCHANGED <<corpus, process, rows, number, asOf>>

-----------------------------------------------------------------------------
(* The record.                                                             *)

\* Faulty: no unique index on (conversation_id, turn_index).
NeverTaken(n) == FALSE

Taken(n) == \E r \in rows : r.number = n

\* Faulty: the row carries the date of the request.
RowDayRequested(t) == Requested[t]

RowDay(t) == asOf[t]

\* persist: the unique index refuses a second row with the same number.  A
\* greeting leaves _run_ask without an "as_of", on which _run_turn_html trips.
Persist(t) ==
    /\ pc[t] \in {"greet", "persist"}
    /\ ~Taken(number[t])
    /\ rows' = rows \union {[turn |-> t, number |-> number[t], asOf |-> RowDay(t),
                             outcome |-> result[t].outcome, cited |-> result[t].cited,
                             candidates |-> shown[t]]}
    /\ \/ /\ At(t, "greet") /\ t \in Streamed
          /\ Raise(t)
       \/ /\ At(t, "persist") \/ t \notin Streamed
          /\ GoTo(t, IF t \in Streamed THEN "render" ELSE "done")
          /\ UNCHANGED view
    /\ Forget({t})
    /\ UNCHANGED <<corpus, process, number, asOf>>

PersistRefused(t) ==
    /\ pc[t] \in {"greet", "persist"}
    /\ Taken(number[t])
    /\ Raise(t)
    /\ Forget({t})
    /\ UNCHANGED <<corpus, process, rows, number, asOf>>

Latest == CHOOSE r \in rows : \A q \in rows : q.number <= r.number

\* _run_turn_html takes the previous turn from the thread as it is now.
Render(t) ==
    /\ At(t, "render")
    /\ view' = [view EXCEPT ![t] = IF Latest.asOf # asOf[t] THEN "rupture" ELSE "plain"]
    /\ GoTo(t, "done")
    /\ UNCHANGED <<corpus, process, rows, number, asOf, greets, adm, shown, result>>

-----------------------------------------------------------------------------
(* Around the turns.                                                       *)

\* Ingestion commits more of the corpus.
Ingest ==
    /\ \E c \in Chunks \ corpus : corpus' = corpus \union {c}
    /\ UNCHANGED <<process, rows, turnVars>>

\* Faulty: the cache outlives the indexes it was filled beside.
KeptCache == cache

FreshCache == [d \in Days |-> Unset]

\* A new process (build_state): the chunks embedded and the words indexed by
\* then, an empty cache; the turns that were running are gone.
Restart ==
    /\ restarts < MaxRestarts
    /\ restarts' = restarts + 1
    /\ \E V, L \in SUBSET corpus : /\ vectors \subseteq V /\ lexicon \subseteq L
                                   /\ vectors' = V /\ lexicon' = L
    /\ cache' = FreshCache
    /\ LET running == {t \in Turns : pc[t] \notin {"new", "done", "failed"}}
       IN  /\ pc' = [t \in Turns |-> IF t \in running THEN "failed" ELSE pc[t]]
           /\ Forget(running)
    /\ UNCHANGED <<corpus, rows, number, asOf, view>>

TurnStep(t) ==
    \/ Number(t) \/ LoadThread(t) \/ Resolve(t)
    \/ CacheHit(t) \/ FetchAdmissible(t) \/ StoreAdmissible(t)
    \/ Retrieve(t) \/ Draft(t) \/ Fail(t)
    \/ Persist(t) \/ PersistRefused(t) \/ Render(t)

Next == (\E t \in Turns : TurnStep(t)) \/ Ingest \/ Restart

Spec == Init /\ [][Next]_vars

-----------------------------------------------------------------------------
(* Properties.                                                             *)

\* The citations of a turn that is rendered again (_turns_for_thread).
Citations(r) == {c \in r.candidates : c \in r.cited}

\* The evaluation's own test of the guarantee (graders.py).
TemporalCorrect(r) == Citations(r) \subseteq InForceOn[r.asOf]

\* The headline invariant (validator.py): an answer on record cites nothing but
\* chunks of the corpus that were in force on the date of its row, whatever was
\* cached, resolved, ingested or restarted since the question came, and all of
\* them are among the row's candidates, so that the thread rendered again has them.
CitedWasInForce ==
    \A r \in rows : /\ TemporalCorrect(r)
                    /\ r.cited \subseteq Citations(r)
                    /\ r.cited \subseteq corpus

\* The turns on record are numbered from 0 without a gap and none twice, though
\* concurrent turns read the same maximum and turns fail after reading it.
TurnsAreNumbered ==
    /\ \A q, r \in rows : q.number = r.number => q = r
    /\ {r.number : r \in rows} = 0..Cardinality(rows) - 1

\* "Nothing in the corpus was in force" is said only when no chunk of the vector
\* index was: a date cached before ingestion went on hides none of them, because
\* the index is older still (load_admissible, build_state).
NoSourceIsTrue ==
    \A t \in Turns : At(t, "persist") /\ result[t].outcome = "no_admissible_source" =>
        vectors \intersect InForceOn[asOf[t]] = {}

\* The conversation implements cite-or-refuse.
RowsOf(t) == {r \in rows : r.turn = t}
VerdictOf(mine) ==
    LET row == CHOOSE r \in mine : TRUE
    IN  IF mine = {} THEN [kind |-> "pending"]
        ELSE IF row.outcome = "answered"
             THEN [kind |-> "answer", day |-> row.asOf, sources |-> row.cited]
             ELSE [kind |-> "refusal", day |-> row.asOf]
Promise == INSTANCE CiteOrRefuse WITH
    Questions <- Turns, Dates <- Days, Sources <- Chunks, Force <- InForceOn,
    verdict <- [t \in Turns |-> VerdictOf(RowsOf(t))]
ImplementsCiteOrRefuse == Promise!Spec

=============================================================================
