----------------------------- MODULE EmbedCorpus -----------------------------
(***************************************************************************)
(* The vectors of the corpus: embed_corpus (embed/corpus.py) fills the     *)
(* table of embeddings through the provider (embed/openrouter.py), and     *)
(* load_corpus_vectors reads them back for the indexes.                    *)
(*                                                                         *)
(* Several processes may embed at once while chunks are ingested.  A text  *)
(* is its content hash, a number, and so is the vector that is made of it. *)
(* There is one model, so a row of the table is a pair of hash and vector. *)
(***************************************************************************)
EXTENDS Integers, Sequences, FiniteSets, SequencesExt

CONSTANTS
    Sha,          \* content_sha256 of every chunk there may ever be, by id
    Corpora,      \* the chunks that may be there at first, the others come later
    Embedders,    \* processes that run embed_corpus
    BatchSize,    \* batch_size
    CommitEvery,  \* commit_every
    MaxCalls,     \* max_attempts
    MaxMishaps    \* bound: how many calls fail or processes die

Chunks == DOMAIN Sha

ASSUME EmbedAssumption ==
    /\ Sha \in Seq(Nat)
    /\ Corpora \subseteq SUBSET Chunks
    /\ BatchSize \in Nat \ {0}
    /\ CommitEvery \in Nat \ {0}
    /\ MaxCalls \in Nat \ {0}
    /\ MaxMishaps \in Nat

VARIABLES
    chunks,      \* the table chunks: the ids it has
    embeddings,  \* the table embeddings
    run,         \* what each process does next
    rows,        \* the hashes it has found missing
    start,       \* where its batch begins
    attempt,     \* of the call it makes
    pending,     \* the rows it has yet to insert
    written,     \* those that its open transaction has inserted
    mishaps

embedVars == <<chunks, embeddings, run, rows, start, attempt, pending, written, mishaps>>

EmbedInit ==
    /\ chunks \in Corpora
    /\ embeddings = {}
    /\ run = [p \in Embedders |-> "idle"]
    /\ rows = [p \in Embedders |-> <<>>]
    /\ start = [p \in Embedders |-> 1]
    /\ attempt = [p \in Embedders |-> 1]
    /\ pending = [p \in Embedders |-> <<>>]
    /\ written = [p \in Embedders |-> {}]
    /\ mishaps = 0

Hash(e) == e[1]
Vector(e) == e[2]
Hashes(R) == {Hash(e) : e \in R}

-----------------------------------------------------------------------------
(* embed_corpus                                                            *)

\* embed_corpus returns or raises: its locals are gone, and a transaction that
\* is open is rolled back.
Exit(p, how) ==
    /\ run' = [run EXCEPT ![p] = how]
    /\ rows' = [rows EXCEPT ![p] = <<>>]
    /\ start' = [start EXCEPT ![p] = 1]
    /\ attempt' = [attempt EXCEPT ![p] = 1]
    /\ pending' = [pending EXCEPT ![p] = <<>>]
    /\ written' = [written EXCEPT ![p] = {}]

Missing == {Sha[c] : c \in chunks} \ Hashes(embeddings)

\* Faulty: no ORDER BY.
InAnyOrder(S) == SetToSeqs(S)

\* The numbers of S in their order: the n-th has n of them up to it.
Rank(h, S) == Cardinality({g \in S : g <= h})

InOrder(S) == [n \in 1..Cardinality(S) |-> CHOOSE h \in S : Rank(h, S) = n]

\* SELECT DISTINCT ON (c.content_sha256) ... ORDER BY c.content_sha256: the
\* lists that the query may return.
Ordered(S) == {InOrder(S)}

\* A process plans its run.  One that is done or has failed is started anew.
Plan(p) ==
    /\ run[p] \in {"idle", "done", "failed"}
    /\ IF Missing = {}
       THEN Exit(p, "done")
       ELSE /\ \E found \in Ordered(Missing) : rows' = [rows EXCEPT ![p] = found]
            /\ run' = [run EXCEPT ![p] = "call"]
            /\ UNCHANGED <<start, attempt, pending, written>>
    /\ UNCHANGED <<chunks, embeddings, mishaps>>

IsLast(p) == start[p] + BatchSize > Len(rows[p])

Batch(p) == SubSeq(rows[p], start[p], IF IsLast(p) THEN Len(rows[p]) ELSE start[p] + BatchSize - 1)

\* Faulty: the vectors are taken in the order of the response.
AsReceived(data) == [n \in DOMAIN data |-> data[n].embedding]

\* _to_vectors: "sort by the `index` the API returns".
ToVectors(data) ==
    LET sorted == InOrder({d.index : d \in Range(data)})
    IN  [n \in DOMAIN sorted |-> (CHOOSE d \in Range(data) : d.index = sorted[n]).embedding]

\* Faulty: one transaction at the end.
DueAtEnd(p, n) == IsLast(p)

\* Faulty: the last rows are left to a commit that never comes.
DueWhenMany(p, n) == n >= CommitEvery

\* n rows are pending after the batch.
Due(p, n) == n >= CommitEvery \/ IsLast(p)

\* The loop goes on with the rows P pending.
NextBatch(p, P) ==
    IF IsLast(p)
    THEN Exit(p, "done")
    ELSE /\ run' = [run EXCEPT ![p] = "call"]
         /\ start' = [start EXCEPT ![p] = @ + BatchSize]
         /\ attempt' = [attempt EXCEPT ![p] = 1]
         /\ pending' = [pending EXCEPT ![p] = P]
         /\ written' = [written EXCEPT ![p] = {}]
         /\ UNCHANGED rows

\* pending.append for each row of the batch.
Appended(p, vectors) == pending[p] \o [n \in DOMAIN vectors |-> <<Batch(p)[n], vectors[n]>>]

\* The provider answers with a vector for each text of the batch, in any order.
Reply(p) ==
    /\ run[p] = "call"
    /\ \E order \in SetToSeqs(DOMAIN Batch(p)) :
          LET data == [n \in DOMAIN order |->
                          [index |-> order[n], embedding |-> Batch(p)[order[n]]]]
              P == Appended(p, ToVectors(data))
          IN  IF Due(p, Len(P))
              THEN /\ run' = [run EXCEPT ![p] = "insert"]
                   /\ pending' = [pending EXCEPT ![p] = P]
                   /\ attempt' = [attempt EXCEPT ![p] = 1]
                   /\ UNCHANGED <<rows, start, written>>
              ELSE NextBatch(p, P)
    /\ UNCHANGED <<chunks, embeddings, mishaps>>

Fault == mishaps < MaxMishaps /\ mishaps' = mishaps + 1

\* A transport error, or a status that is tried again after a delay.
CallFails(p) ==
    /\ run[p] = "call"
    /\ Fault
    /\ IF attempt[p] < MaxCalls
       THEN /\ attempt' = [attempt EXCEPT ![p] = @ + 1]
            /\ UNCHANGED <<run, rows, start, pending, written>>
       ELSE Exit(p, "failed")
    /\ UNCHANGED <<chunks, embeddings>>

\* Where the rows of executemany are that are still to come: ON CONFLICT DO NOTHING
\* passes over a hash that is there.
Left(p) == {n \in DOMAIN pending[p] :
               Hash(pending[p][n]) \notin Hashes(embeddings \union written[p])}

NextRow(p) == pending[p][Min(Left(p))]

\* Postgres: an insert waits for a transaction that has inserted its key.
WaitsFor(p, q) ==
    /\ p # q
    /\ run[p] = "insert"
    /\ Left(p) # {}
    /\ Hash(NextRow(p)) \in Hashes(written[q])

Insert(p) ==
    /\ run[p] = "insert"
    /\ Left(p) # {}
    /\ \A q \in Embedders : ~WaitsFor(p, q)
    /\ written' = [written EXCEPT ![p] = @ \union {NextRow(p)}]
    /\ UNCHANGED <<chunks, embeddings, run, rows, start, attempt, pending, mishaps>>

Commit(p) ==
    /\ run[p] = "insert"
    /\ Left(p) = {}
    /\ embeddings' = embeddings \union written[p]
    /\ NextBatch(p, <<>>)
    /\ UNCHANGED <<chunks, mishaps>>

\* embed_corpus is cut short: any other status, fewer vectors than texts, or
\* the process or its connection dies.
Abort(p) ==
    /\ run[p] \in {"call", "insert"}
    /\ Fault
    /\ Exit(p, "failed")
    /\ UNCHANGED <<chunks, embeddings>>

-----------------------------------------------------------------------------
(* The corpus grows, and is read                                           *)

\* ingest_worker commits a chunk.
Ingest(c) ==
    /\ chunks' = chunks \union {c}
    /\ UNCHANGED <<embeddings, run, rows, start, attempt, pending, written, mishaps>>

\* load_corpus_vectors: the chunks joined to the embeddings by hash.
CorpusVectors ==
    {[id |-> x[1], vector |-> Vector(x[2])] :
        x \in {y \in chunks \X embeddings : Sha[y[1]] = Hash(y[2])}}

ProcStep(p) == Plan(p) \/ Reply(p) \/ Insert(p) \/ Commit(p)

EmbedNext ==
    \/ \E p \in Embedders : ProcStep(p) \/ CallFails(p) \/ Abort(p)
    \/ \E c \in Chunks \ chunks : Ingest(c)

EmbedSpec == EmbedInit /\ [][EmbedNext]_embedVars

\* A process goes on while it lives, and the operator starts it again: the
\* command is "already resumable", and each ingestion is followed by one.
EmbedFairness == \A p \in Embedders : WF_embedVars(ProcStep(p))

-----------------------------------------------------------------------------
(* Properties                                                              *)

\* embed/base.py: "output row order matches input order", and of the table
\* "every chunk's id and vector, aligned row for row": the vector an index gets
\* for a chunk is the vector of its text, in whatever order the provider
\* answers and whoever embedded the text, and none has two.
VectorsBelong == \A v \in CorpusVectors : v.vector = Sha[v.id]

\* Two runs that embed the same texts at once insert the same keys, each in
\* one transaction of many rows.  They never wait for each other.
NoDeadlock == \A p, q \in Embedders : ~(WaitsFor(p, q) /\ WaitsFor(q, p))

\* corpus.py:99 "a crash should cost minutes, not the whole run": of the
\* batches a process has behind it, fewer than CommitEvery vectors are not yet
\* in the table, whatever another process or a rollback did in between.
CrashCostsLittle ==
    \A p \in Embedders :
        run[p] = "call" =>
            Cardinality({n \in 1..(start[p] - 1) : rows[p][n] \notin Hashes(embeddings)})
                < CommitEvery

\* "Embed every distinct chunk text that isn't cached yet", and "an
\* interrupted run resumes for free": every text of the corpus is embedded in
\* the end, whatever calls fail and processes die.
EmbeddedInTheEnd ==
    \A h \in {Sha[c] : c \in Chunks} :
        (\E c \in chunks : Sha[c] = h) ~> h \in Hashes(embeddings)
=============================================================================
