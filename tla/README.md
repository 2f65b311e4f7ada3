# CiteDelta-RAG in TLA+

CiteDelta answers questions about the eCFR *as of a date*, with citations, or
refuses.  This directory holds TLA+ models of it, the TLC configurations that
check them on small instances, and TLAPS proofs of what matters most for every
value of the constants.  Paths below are those of the repository, under `src/`
here; `CD` stands for `packages/citedelta/src/citedelta` and `SUB` for
`packages/substrate/src/substrate`.

## 1. The system

| component | state | operations | what makes it hard |
|---|---|---|---|
| durable job queue, `SUB/queue` | table `jobs`; per worker its slots, their jobs, lease tokens, heartbeat tasks, `_stopping` | `enqueue(_many)`, `claim` (reap, then claim), `heartbeat`, `ack`, `nack`, `requeue_dead`; loop, drain, `stop`, handler runs | leases that run out under a live worker, zombies, crashes, cancelled siblings, two operators |
| ingestion, `CD/ingest.py`, `CD/ecfr`, `CD/store/corpus.py` | tables `section_versions`, `chunks`; the open transaction of a handler | `plan_ingest`, the snapshot handler, `insert_section_version`, `insert_chunks`, `admissible_chunk_ids` | at-least-once runs, transactions that conflict or wait for each other, amendments after the first ingestion |
| parser, `CD/ecfr/parse.py` | the designator stack and the expected top letter of a section, the chunk being filled | `advance`, `parse_part`, `_chunk` | designators that may be several things; one read at the wrong level misleads all that follow |
| eCFR client, `CD/ecfr/client.py` | a file per snapshot, and the temporary file beside it | `snapshot_xml`, `_write_atomic` | processes that fetch the same date, killed anywhere; power cuts |
| API conversation, `CD/api` | `query_traces`; the locals of every running turn | `_run_ask`, `next_turn_index`, `load_thread`, `persist`, `_run_turn_html` | state read before an await and used after it, two turns at once, a restart |
| streamed turns, `CD/api/app.py`, `CD/web/static/stream.js` | `_PENDING`, a queue and a task per turn; the shells of the page and their `EventSource`s | `ui_ask`, `turn_stream`, the listeners of the page | a turn that ends before anybody listens, two listeners on one queue, broken connections |
| answer path, `CD/answer` | none of its own | gate, resolver, prompt, call of the model, validator | the model may reply anything; the date changes in the middle of a turn |
| retrieval, `CD/retrieve.py`, `fusion.py`, `temporal.py`, `bench/temporal.py` | `_ADMISSIBLE_IDS_CACHE` | `load_admissible`, `hybrid_search`, RRF | a cache that is never invalidated beside indexes that are rebuilt only by a restart |
| indexes, `CD/index` | HNSW graph, IVF lists, posting lists, the file of the lexical index | build, insert, search with a filter, save, load | graph invariants, ties, encodings, atomic replacement of a file, power cuts, a file that is mapped while it is rebuilt |
| embeddings, `CD/embed` | table `embeddings`, by content hash | `embed_corpus`, its batches, commits and retries; `load_corpus_vectors` | answers in any order, crashes between commits, two runs at once, chunks that come meanwhile |
| LLM port, `SUB/llm` | ledger of costs, by run | complete with retries, price, record, total | two calls of a turn in one run, beside the calls of other turns |
| web, `CD/web/transcript.py` | none | `build_transcript`, `amendments_between` | a rupture wherever the date changes, counted right |
| benchmarks, evaluation, `CD/bench`, `CD/eval` | none | recalls, filtering after the search, graders | ties, a truth of which several are right |
| database pool, CLI, configuration, observability | - | wiring and I/O | - |

How they interact: `cli.py` plans an ingestion, which enqueues one job per
snapshot date with its intervals as payload; worker processes claim the jobs and
call the handler, which writes the corpus in one transaction; `embed_corpus` and
`api/state.py:build_state` make vectors and in-memory indexes of the corpus; a
turn of the API asks Postgres for the chunks in force on its date, searches the
indexes within them, asks the model, validates its citations against what was
shown and what is in force, and writes one row; the page is rendered from the
turn and from the rows of its thread.

The port of `index/vector.py` has three implementations.  The API builds a
`BruteForceIndex` at its start (`api/state.py:86`); HNSW and IVF are the alternatives
that the command line builds and the benchmarks compare.  All three are modelled, and one specification, `VectorIndexes`,
is a process that chooses one of them.

What makes each correct, in the order of importance:

1. an answer on record cites only law in force on the date of its row (`CitedWasInForce`,
   and the refinement of `CiteOrRefuse`), turns are numbered without gaps;
2. a job has one owner at a time, only the owner settles it, success is never
   recorded for work that was not done, no job is stranded, every job is settled;
3. a snapshot that is recorded as done is in the corpus, whole and once;
4. a refusal for lack of sources is true; a stale cache hides nothing;
5. every vector of the HNSW index can be reached, and a filtered search returns all it should;
   a filtered search of any index is of the best that is admissible, not what is admissible of the best;
   the file of the lexical index is whole whenever anybody opens it, and a build that has returned lasts;
   so is a cached snapshot, unless one process opened its temporary file before another had renamed it; what the benchmarks report is what they say it is;
   a chunk is searched by the vector of its own text, and every text gets one; it is cited by the path that its first paragraph has in the outline,
   wherever the designators determine it;
6. a page that asked gets its turn, or is told why not; no turn that was listened to is held for ever;
   the row of a turn costs what its replies cost.

`PROJECT.json` lists every component with its status and every hazard at its line.

## 2. The modules

| module | models | state | actions |
|---|---|---|---|
| `JobQueue` | the queue and its workers | `state, attempts, epoch, due` are columns of `jobs` (`due` for `available_at <= now()`); `pc, held, token, beat, idle` are the locals of `Worker._loop` and `_execute`; `stopping`; `picked` is the result of the sub-select of `requeue_dead` | one SQL statement or one event of a worker each |
| `ExclusiveLease` | the promise of the queue, without epochs and timeouts | `status, owner, finished` | grant, finish, complete, give up, orphan, bury, revive |
| `IngestCorpus` | the snapshot handler, on top of `JobQueue` (it EXTENDS it and shares its worker actions) | `history`, the versions there are in the end; `payload` of each job, committed `rows` and `whole` (rows with their chunks), `txn` of each slot | one per statement of the handler; Postgres's conflicts and waits are their guards |
| `Conversation` | the turns of one conversation in the API process | `corpus`, `vectors`, `lexicon`, `cache`, `rows`, and the locals of every turn | what a turn does from one await to the next; `Ingest`; `Restart` |
| `CiteOrRefuse` | the promise of the product | `verdict` | answer, refuse |
| `Transcript` | the thread as it is rendered (`web/transcript.py`, `_turns_for_thread`, `_render_thread_html`) and the grader of citations (`eval/graders.py`) | none: functions of a state of `Conversation` | none |
| `VectorGraph` | the HNSW index of `CD/index/hnsw.py`: build, repair, save and load, search with a filter | `graph, entry, top` are `_graph, _entry, _max_level`; `at, level` the vectors and levels of the nodes inserted so far; `layer, points, links` the locals of `_insert`; `hits` the last result | the descent of a new node, its wiring on one layer, one reverse link with the pruning it sets off, the end of an insertion, the repair, `Reload`, a search |
| `FlatIndexes` | `index/brute.py`; `index/ivf.py` over `index/kmeans.py` | `vectors` as given; `centroids, cells, cell, round, settled` are the locals of `kmeans`; `ids, offsets` the permuted rows and the slices; `answer` the last result | the choice of a seed, an assignment, the move of one centroid, the permutation into cells, a search |
| `Measurement` | `bench/metrics.py`, `strategies.py`, the sweep and the collapse of `temporal.py` | none: functions of the last search of `FlatIndexes` | none |
| `VectorIndexes` | the port: EXTENDS `VectorGraph` and `Measurement`, and chooses an index | `kind` | theirs |
| `LexicalIndex` | the BM25 index on disk: `index/lexical.py`, `varint.py`, `build.py` | table `chunks`; `files`, the builds that wrote one, with their payload and how much of it is written and synced; `path`, the file that the name leads to; `durable`, those it may lead to after a power cut; `pc` and `built` of the building process; `mapped`, the file another process has open | one step of `_write_atomic` each: open, write, fsync, rename, fsync of the directory; `AddChunk`, `Kill`, `PowerCut`, `Open`, `Close` |
| `HybridSearch` | `retrieve.py`, `fusion.py`, on top of `LexicalIndex` | `trace`, the last `RetrievalTrace` | `Retrieve`: both searches and their fusion |
| `SnapshotCache` | `ecfr/client.py`: the cache of one snapshot | `doing`, `handle`, `position` of each process; `cached` and `tmp`, the files at the two names; `data` and `kept`, what is in a file and what of it is synced; `names`, what the names may lead to after a power cut; `overlapped`, `interrupted` observe | read or miss, the response, and one step of `_write_atomic` each: open, write a part, fsync, rename; `KillFetcher`, `CutPower` |
| `SnapshotParser` | `ecfr/parse.py`: citation paths and chunks of one section after the other | `stack`, `expected` are `_PathTracker`'s; `buf` is `_chunk`'s; `outline`, where the paragraph really is, and `doubt` observe | a paragraph with its designators, the end of a section |
| `CorpusFiles` | nothing of its own: a behaviour of `HybridSearch`, of `SnapshotCache` or of `SnapshotParser`, what the corpus is outside its tables | `about` | theirs |
| `EmbedCorpus` | `embed/corpus.py`, `embed/openrouter.py` | tables `chunks, embeddings`; per process `run, rows, start, attempt, pending` as in the code, and `written`, what its transaction has inserted | the query of what is missing, a reply, a failed call, one row of `executemany`, a commit, an abort; `Ingest` |
| `BackgroundWork` | nothing of its own: a behaviour of `JobQueue` or of `EmbedCorpus`, the commands that are run until their work is done | `about` | theirs |
| `TurnStream` | `ui_ask`, `turn_stream`, `stream.js`, `openrouter_adapter.py`, `pricing.py` | per turn its task (`pc, attempts`), `ledger`, `queue`, `shell` on the page; `pending` is `_PENDING`; per stream `reader`, the generator in the server, and `wire`, the last event on its way; `rows` with their costs; `replied` observes which replies the turn had | an await of the task, `Ask`, `Swap`, an event received, a connection accepted, an item taken, the `finally` of a stream; `Cut`, `LoseShell`, `Restart` |
| `IngestCorpusProofs` (with the queue's), `ConversationProofs`, `TurnStreamProofs`, `CorpusFilesProofs`, `EmbedCorpusProofs`, `VectorGraphProofs`, `VectorIndexesProofs` | theorems | | |
| `ListLemmas` | what those need of positions, orders, sorted sets and lists laid end to end | | |
| `MC*` | the instances TLC checks | | |

Operators that a comment calls *Faulty* stand for a plausible slip in the code,
each before the definition it would replace; no specification uses them.  They are there to
show that the properties notice: `PROJECT.json`, "mutants", pairs each with the
property that it breaks.

### Abstractions, and why they keep the behaviour

- **Time in the queue** is the Boolean `due[j]`.  Every statement tests only
  `available_at <= now()`, so `Lapse` at any moment covers every delay, backoff,
  jitter and clock.  The claim takes any job of the highest priority that is
  due: the second criterion, `available_at`, orders equals only.
- **A claim is two transactions**, `Reap` then `Claim`; each statement is atomic
  (READ COMMITTED, `FOR UPDATE SKIP LOCKED` on single rows).  A row that is
  skipped because another statement holds it is a claim that comes later.
- **A database error in a worker** escapes its TaskGroup: it is `Crash` before or after
  the statement.  An error in the heartbeat task alone is `HeartbeatErrors`,
  because nobody sees it before the job has been settled; then `AbortGroup` has the TaskGroup cancel the siblings, once.  A sibling that
  is just waiting for its own cancelled heartbeat swallows the cancellation (`suppress`, `worker.py:123`) and goes on; the group waits for it.
- `claimed_by`, `last_error` and timestamps are read by no statement.  Jobs
  without an idempotency key are jobs nobody else submits.
- **`requeue_dead`** selects and updates in two steps, since its sub-select
  locks nothing; rows are locked later and tested by id alone.
- **Postgres in ingestion**: an insert that conflicts with an uncommitted row
  waits (`Locked`), with a committed row of the same key reads it back, with an
  overlapping committed row raises; waiting in a circle is broken.  A crashed
  worker's transaction is rolled back at the moment of the crash; in reality a
  little later, during which others wait, as they may here anyway.  Sections
  come in the order of the XML, which is taken to be the same in every
  snapshot.  A snapshot may keep the number of a removed section, which is then stored with `removed`, or not have the section
  at all.  `history` is what amendments there are in the end; a plan knows those up to a day, the others come later.  Of records with one
  effective date the earliest counts, which concerns only the issue date, left out here; ingestion never calls `requeue_dead`.
- **The model's replies** are arbitrary: any sequence of at most `MaxRefs` citations
  of real or invented ids, whose quotes are in their chunk's text or not, or any
  refusal.  The resolver proposes any date.  Retrieval finds any at most `K` admissible,
  indexed chunks, and finds something if the vector index has anything.
- **In force** means in force by the stored intervals.  Chunks are added, never
  changed or deleted (nothing in the code does).  `CorpusSince` and `Today` do not change.
- Left out of `Conversation`: the ledger, request limits, the text of queries, the limit of
  `load_thread` (older rows than its last few are not sent to the resolver, whose
  reply is arbitrary in any case); and the phase feed, which is in `TurnStream`.
- **`TurnStream`** does not say what a turn finds and answers, which is `Conversation`'s: it branches freely where
  that decides.  A phase is an item of the queue; its words and its row on the page are left out.
  Which of two waiting readers gets an item is free (asyncio serves the one that waits longest).  The connection
  that breaks is noticed by the page at once and by the server later, and what was on it is lost.  A listener that
  has got its turn closes the stream, so nothing of that stream is lost afterwards.  The button is disabled while
  the answer to a question is on its way (`hx-disabled-elt`), so questions are asked one after the other and turns
  are numbered in that order.  A reply whose price or form cannot be read raises before it is recorded: `Fail`.
- **`VectorGraph`**: the build is one thread; its steps are separate actions because the
  invariants must hold between any two links, where the next search of a layer and the
  next prune start from.  A vector is a point and `Distance` any table; in the instance, the points
  lie on an arc, where 1 - cos grows with the angle.  Ties are broken as `heapq`, `sorted` and
  `argmin` break them, by row, and rows stand for their external ids.  `max(members_of, ...)` picks,
  of equally large components, the one seen first.  A node's vector and level are chosen when it is inserted,
  since no insertion reads those of a later one.  Rounding of floats, `compile_filter` and
  the frozen form of the graph in memory are left out.  `Reload` is `save` and `load` of the CSR arrays of
  each layer; a loaded index is a state like a built one, from which all the searches start again, with the default
  `max_visits` (`VisitLimit`), since `load` does not pass it to the constructor.  Nor does it pass the seed, which draws levels and nothing after a load does.
- **`FlatIndexes`**: a unit vector is a place on the sphere and `CosineDistance` any table.  The mean
  of a cell, normalized, is the place with the least sum of distances to the members; if the members cancel out there is none
  (the code normalizes rounding noise then) and any member's place may come.  `kmeans` stops
  when fewer than one in 10,000 vectors changed cells, which in the instance is none.  A seed is any vector
  that k-means++ gives a weight.  `argpartition` and `argsort` may choose any among equals.
- **`LexicalIndex`**: a text is how often it has each term; BM25's gain is any function of the numbers it
  depends on (`n`, `df`, `tf`, the length; the average length is fixed with the file).  A file has four sections;
  their offsets in the header are the section numbers, while the postings blob is a sequence of bytes
  with digits of base `Base`, offsets into it, gaps and varints as in the code.  One process builds, one has a file mapped (a mapped file stays
  readable after the rename).  A power cut leaves of a file any part that was not synced, and at the path what the last sync of the directory left there or
  anything renamed since.
- **`Measurement`**: a recall is a number of hits out of `k`, not averaged over queries, and exact distances need no `TIE_EPSILON`.
  Where the exhaustive scan may choose among equals, every choice is a truth.  The selectivity counts all admissible ids, also those held
  out of the index, as `held_out_split` and the sweep do.  Only brute force and IVF are swept: the recall of HNSW is a number to be
  measured, about which the code promises nothing.  The SQL of the strategies, timing, plots and averages are left out.
- **`SnapshotCache`**: a fetcher is a worker process: `_write_atomic` does not await, so coroutines of one process do not meet in it.  Two
  processes fetch one date when the lease of the first has run out, or when the job is run by hand.  The bodies that different requests get
  are equal, a past snapshot being immutable; a body is written in `Parts`, each at the writer's own position.  A file is an object apart from its
  names, so a process goes on writing a file that was renamed under it.  A power cut keeps of a file what was synced and any of the rest, and
  of the names any state since the last cut, since the directory is never synced.  The throttle changes when a request is sent, not what it gets.
- **`SnapshotParser`**: of a token the code tests whether it is a number, in capitals, a successor as a letter or as a roman numeral, and
  nothing else, so that is all a token is.  Sections are outlines (a)(1)(i)(A)(1)(i); a paragraph introduces none, one or two designators, as the tests have them.
  The code makes a list of all paths and then chunks it; here a paragraph is chunked when it is read.  `outline` is what the
  code must find out.  Some tokens have two readings for any reader: after (h)(1), the token (i) is a child or the next letter
  of the top.  `DoubtAfter` says where that is so, and until when the path may be wrong for it; `ChunksAreCitable` demands the right path everywhere
  else, and again after the doubt.  Reading the XML, the regular expressions and the prefix of a citation are left out.
- **Independent parts in one run**: `CorpusFiles` and `BackgroundWork` choose at the beginning which of their parts a behaviour is about; the
  others do not move, so each is explored as it would be alone.
- **`Transcript`**: `AmendmentDates` are the dates of chunks ingested by the start, when the process reads them once.  The limit of 40 turns
  is not reached by two.  The text of a turn, its links and its diff are left out.
- **`HybridSearch`**: the vector index returns any ranking of admissible chunks.  1/(k + rank) is an
  exact multiple of 1/`Scale`.
- **`EmbedCorpus`**: a text is its hash, and so is the vector that is made of it, so a vector in the
  wrong place is seen.  There is one model.  Rows are inserted one at a time, and an insert waits for a transaction that has inserted the same key.  Delays
  of retries are steps.  `load_corpus_vectors` is one query, thus an operator on a state.

## 3. The runs

| run | instance | asks |
|---|---|---|
| `queue_safety` | 2 jobs (one with 2 attempts and the higher priority, one with 1), 2 processes of one slot, one of them draining, 1 fault, 1 requeue; 803,000 states, a minute | the type invariant; `SingleOwner`, `SucceededWasDone`, `AttemptsAreExact`, `OwnerSettles`, and that the queue implements `ExclusiveLease` |
| `background_work` | 1 process of 2 slots, a job without a handler, 1 fault; or 2 processes that embed 6 chunks of 5 texts of which 3 come during the run, batches of 2, commits from 3 on, 2 attempts, 2 faults; 47,000 states together, three minutes | `EveryJobSettles`, `StopDrains`; `VectorsBelong`, `NoDeadlock`, `CrashCostsLittle`, `EmbeddedInTheEnd` |
| `requeue` | 2 operators | finds that `requeue_dead` resets a running job |
| `ingest` | 2 snapshots that share a section version, and a second section that is removed, planned together or apart; 2 draining workers, as `work` runs them without `--forever` (`cli.py:43`), 1 fault; 755,000 states, three and a quarter minutes | `SucceededIsIngested`, `NoDuplicates`, `NoHalfVersions`, `NoDeadlock`, `EverySnapshotSettles` |
| `amendment` | the same without faults, where the section is amended | finds that an amendment after the first ingestion is refused |
| `conversation` | 2 turns, one of them streamed, 3 chunks, 4 dates of which 2 are outside the corpus, 1 restart; 536,000 states, two minutes | `CitedWasInForce`, `TurnsAreNumbered`, `NoSourceIsTrue`, and that it implements `CiteOrRefuse` |
| `quote` | the same without restart | finds an answer with a quote nobody verified |
| `rupture` | both turns streamed | finds that the rupture is not shown |
| `reparented` | the parser alone | finds that (h)(1)(i) is taken for the top-level (i) |
| `vector_indexes` | HNSW: 7 vectors on 3 points, `M` = 2, two layers, 30 filters, before and after a save and load; brute force and IVF: every 4 vectors at 4 of 8 places of a circle, 2 cells, 2 iterations, efforts 1 and 2, every filter, 1 or 2 rows of a filtered search and 2 of another; 413,000 states, two and a quarter minutes | `EdgesGoBothWays` (with the bound of the degrees), `BornLinked`, `AllReachable`, `SearchIsFull`, `SearchIsExact`; `ListsHoldNearest`, `FlatSearchIsSound` (never short, and exact at full effort); `GapIsDuplication`, `PushdownIsNeverBeaten` |
| `hybrid_search` | 3 chunks, 2 terms, 2 builds, `Depth` 2, every filter and every vector ranking; or 3 processes that fetch a snapshot of 2 parts, 3 responses, 1 fault; or sections of an outline of 10 letters, 2 numbers, 2 romans and 9 capitals, paragraphs of 2 lengths, of which the greater alone is over `MaxChars`; 954,000 states together, two and a quarter minutes | `NeverHalfWritten`, `BuildsLast`, `FilterIsPushedDown`, `AgreementWins`; `HalfOnlyWhenShared`; `ChunksAreCitable` |
| `turn_stream` | 2 questions, the second in a thread with a history, 2 attempts of a call, 1 fault; 286,000 states, a minute and a half | `RowCostsTheTurn`, `PageIsAnswered`, `PendingIsReleased` |

Why the bounds are enough to be interesting.  Two slots are what every race of the queue
needs, a holder and a successor; two attempts let a job be claimed again after
its lease ran out, one attempt lets it be reaped; a requeue brings a lease back to a job
with attempts 0 while a zombie still holds its old token, which is the only way for a token
to outlive a settled job.  Two snapshots that share one version and differ in another
meet in every statement of the handler.  Two turns meet in the numbering and the cache,
and the first can be answered, cached and on record before the second begins.  Two citations
are what it takes to cite a chunk twice, to cite one shown and one not.  The bounds that are
not in the code are `MaxFaults`, `MaxRequeues`, `MaxRestarts`, `MaxRefs`; the proofs are
for any value of them.

Layer 0 allows 2`M` = 4 edges (`M` = 1 would divide by log 1), so pruning begins with the sixth
vector, and seven, of which a cluster of equal vectors and one far point, are the fewest with which layer 0
falls apart and the repair has something to do; with six, `AllReachable` would hold
without it.  Two layers are what it takes to descend, to be wired on one layer with the
candidates of another, and to raise the top.  `EfConstruction` = 5 is below the number of nodes, so an insertion does not see
all of them.  `Draws` fixes the levels of all nodes but one and `Queries` the far point, the smallest
effort, and every filter of at most two rows, or of all.  `MaxVisits` = 4 is used up by some
searches of the built index, and the properties of a search are about those within the budget; a loaded index has `DefaultVisits` = 7,
enough for all of them.

The flat indexes build 256 corpora, in which vectors coincide, lie opposite each other and leave a cell empty; two
iterations are few enough that builds end before the cells have settled.  In `hybrid_search` the base of the
varints is 2, so that a gap of 2 and frequencies of 2 and 3 take two bytes as numbers from 128 do in the code; two builds with
chunks added between them are what it takes for a reader to have the older file mapped.  Of three processes that fetch a snapshot
the third empties the temporary file again after the first has synced it and before the second renames it, and goes on writing at the path of the snapshot.  In `background_work` five texts make two
whole batches, of which the second is due, and a last one that is smaller; two processes with lists that
share more than one text are what a deadlock takes.  Ten letters at the top are what it takes for
(h), (i) and (j), and nine capitals for an (I) that continues (H); (v) after (iv) and (u), which needs more, is the same ambiguity as (i) after (h).  The depth is limited to 4 instead of 8,
and the outline reaches it; a chunk holds up to three paragraphs.  In `turn_stream` the second question opens the second reader of
the first one's queue, two attempts are one retry, and one fault meets every step of both turns; with prices 1 and 2 no two
sets of replies cost the same.

`CHECK_DEADLOCK FALSE` appears in the configurations of `Conversation`, where nothing is left to do when all
turns are done, all is ingested and the restarts are used up, and in that of
`TurnStream`, where nobody asks any more.

### Fairness

Used by `background_work`, `ingest` and `turn_stream` only.  Weak fairness of
- each slot's next step: asyncio runs what is ready, and a handler ends sooner or
  later (the code sets no timeout for it, so a handler that hangs is outside);
- `Lapse(j)` while no heartbeat renews `j`: clocks go on;
- `Start(p)`: somebody (a process manager, an operator, the next `ingest` command) runs
  the worker again, also one that has drained;
- `AbortGroup(p)`: a TaskGroup cancels its tasks, but for those that a heartbeat they wait for makes deaf to it;
- in `ingest`, the failures that Postgres brings about by itself, a refused insert and a
  deadlock;
- for `EmbedCorpus`, each process's own steps, of which one is that the operator starts the command
  again when it has ended (it is "already resumable", `embed/corpus.py:43`);
- in `turn_stream`, each turn's task and the swap of its shell, and each stream in the server and on the page: the
  event loops run what is ready, calls of the models time out after 60 s and are tried `MaxAttempts` times, and the
  server notices in the end that a client has gone.
Nothing is assumed of faults, signals, heartbeats and handlers that raise.

## 4. The proofs

All obligations are proved for any number of jobs, processes, slots, turns, chunks,
dates, faults, requeues, restarts, texts, builds, fetchers, parts, vectors and layers, every table of distances, every history of amendments, and every size of batch and commit, from
the assumptions that the modules name.  Most are types of the constants and bounds the code has (`max_attempts >= 1`, `K >= 1`, ...).  These say more:
- `ConstantsAssumption`: the value `NoJob` that a free slot holds is neither a job nor a slot;
- `IngestAssumption`: a section comes once in the XML, and at the same place relative to the others in every snapshot; the history has one version
  per section and date (`build_timelines` keeps one of several); every job is a snapshot, handled by `ingest_snapshot`;
- `EmbedAssumption`: hashes are numbers, that is, Postgres orders them totally, and equal texts have equal hashes;
- `GraphAssumption`: distances are numbers (they need be neither symmetric nor a metric), `M` is at least 2, as `1 / log(m)` needs, and no node draws a level above `MaxLevel`, an arbitrary number;
- `FlatAssumption`: cosine distances are symmetric numbers, 0 from a place to itself, a metric is not needed; at least one iteration
  of k-means; a search asks for at least one row, has an effort of at least 1, and its filter is a finite set of ids;
- `IndexAssumption`, `GainAssumption`, `FusionAssumption`: there are finitely many chunks, and the list of terms has none twice; what an occurrence adds to a score is positive (the idf is the logarithm of
  something above 1, `lexical.py:273`); a question is a sequence of terms, and the reciprocal of every rank is a whole number of 1/`Scale` (the code sums floats and floors them to 12 decimals, which keeps distinct sums apart);
- `ParserAssumption`: an outline has at most six levels, of at most 26 siblings each, and no more levels than `MaxDepth` (`_MAX_DEPTH`);
- `OneOperator`, of two theorems only: at most one call of `requeue_dead` at a time.

**IngestCorpusProofs, the queue.**  `TypeCorrect` is inductive as it stands.  `SingleOwner` and
`SucceededWasDone` are not: what makes them true is that a token held by a slot was granted, so
it is at most the epoch of its job, and no two slots hold the same token of the same
job (`TokensGranted`, `TokensDistinct`).  A claim makes a token larger than every one
granted so far, so it cannot collide.  `AckedIsDone` ties the place of a slot to the
history of handlers that returned, and `NoneStranded`, `DeadIsExhausted`, which are `AttemptsAreExact`, come along.
Theorems: `TypeCorrect`, `FencingIsExclusive`, `SuccessIsEarned`, `AttemptsAreCounted`,
and `OwnersSettle`, which needs the assumption that there is at most one operator:
the run `requeue` shows what two can do.  With one, the rows it has selected stay dead
until it updates them, which is the extra invariant `PickedStep` preserves.

`QueueIsALease`, under the same assumption, is the refinement of `ExclusiveLease`: the owner of a running job is the slot that holds
its current lease, or nobody once that one has crashed.  `SingleOwner` makes the owner unique, `SucceededWasDone` lets a success be the
completion of finished work, and a statement by a slot that has lost its lease changes no row, so it is a stutter of the lease.  Each
action of the queue is one action of the lease or a stutter; a crash is one that orphans several jobs.

**IngestCorpusProofs, the snapshots.**  `IngestionIsAQueue` shows that every behaviour of ingestion is one of the queue, so the queue's invariants are
at hand: a slot in a transaction holds a job that was submitted.  The properties are not inductive, since commits make rows of what
transactions wrote earlier.  `CorpusInv` says of an open transaction that its rows are versions its job was given, of sections it has come to (`TxnPlanned`);
that the sections it has left behind are stored, by itself or before (`Passed`); and that no row, committed or not, conflicts with that of
another (`NoConflicts`), which is what the waits and refusals of the unique index and the exclusion constraint come to.  So a commit adds only what fits.
Theorems: `CorpusInvariant`, `NothingIsDoubled`, `NothingIsHalfWritten`; `SuccessIsIngested`, which needs the timelines as well: the interval that covers a date
is that of the latest version then, as far as a plan knew (`LatestCovers`); and `NoDeadlockEver`, in a form that the run cannot state: along a chain of waits
the sections get later (`ChainsGoAhead`), so that no circle closes among any number of slots.  The order of the XML being the same in every snapshot is what it rests on.

**ConversationProofs.**  The inductive invariant says that the admissible set of a turn, and every
cached one, is in force on its date; that it hides nothing of the vector index, which was
there before the cache (`StepHidesNothing`); that the citations of a verdict are among the
passages shown; and that the rows are numbered 0 to n-1, because a turn's number
was once the count of rows, and the unique index admits no smaller one again.
Theorems: `TypeCorrect`, `CitationsAreInForce`, `NumberingIsGapless`, `StaleCacheIsHarmless`, and
`CiteOrRefuseIsKept`, the refinement: a turn persists once, and its row decides its
verdict; every other step leaves the verdicts as they are.

**TurnStreamProofs.**  `RowCostsTheTurn` speaks of rows, which are written long after the calls were paid.  While a turn runs, its account in the ledger
is what its replies have cost (`LedgerIsSpent`), no row is there before the last reply (`RowsAreLate`), and a turn has had the replies of the calls behind it and no other.  After a
restart the account is gone and the row is not, hence *while it runs*.  Theorem: `RowsCostTheirTurns`.  A second invariant is about the feed that several streams may
share: its end is put in once, is its last element, and whoever takes it is the only one to send the turn (`EndIsOnce`).  Theorems: `SentAtMostOnce`, and
`ShownTurnsAreRecorded`, the page shows an answer only when its row is written.

**CorpusFilesProofs.**  `NeverHalfWritten` is not inductive: it speaks of what is at the path, and what gets there is
a file that was whole before its rename, and synced before that.  The invariant is `IndexInv`, that is, `IndexTypes /\ FilesOK /\
PathOK`: what is written of a file is a beginning of its payload; what the path leads to, or may lead to
after a power cut, or is mapped, is written and synced to its end, and not older than the last build that
returned.  Theorems: `FileIsWhole`, `ReturnedBuildsLast`, `IndexTypeCorrect`, of `HybridSearch`'s specification, whose retrievals leave the files alone.

`HalfOnlyWhenShared` of the snapshots says two things, and each needs an invariant of its own.  While no process has opened the
temporary file that another was yet to rename, the one that writes is alone with it, what it has written so far is in it (`WriterIsAlone`), and every file that
a name of the snapshot may lead to, now or after a power cut, is synced whole and is not the temporary one (`NamesAreWhole`).  In general,
unless a process died of it, of every file that is not synced whole the last process to open it still writes it, and what that one has
written is there (`UnsyncedIsWritten`): so when it syncs, all of the body is.  Theorem: `NeverHalfAlone`, of `CacheSpec`, which is the part of `FilesSpec` about snapshots: `FilesBehaveAlone`
says that `FilesSpec` implements the specifications of its three parts, so the theorems hold of it.

`FilterIsPushedDown` compares what a search reads out of a file with what the texts say, so its proof follows the bytes.  A number of any size is read back from its varint,
wherever that stands (`ReadingReads`); the gaps and frequencies of a term, one after the other, are read back as the documents that hold it (`PairsAreRead`), and the offsets in the
dictionary lead to them, because the lists are laid end to end in the order of the vocabulary (`EntriesLead`).  So the postings are the holders of the term
(`PostingsAreHolders`), and what a document gets from a term is its relevance by the text (`TermScoreIsRelevance`); a gain is positive, so that the documents with a posting are those with a relevance.  Documents have numbers in the order
of their ids, so sorting by score and number is sorting by score and id (`RankingRenamed`), and the best are the same (`SearchFindsBest`).  The trace keeps the number of the file it was
made from, whose texts no step changes (`TraceOK`, `DocumentsStay`), hence `LexicalHitsAreBest` for a file as old as may be.

`AgreementWins` needs no file at all, only that a ranking has no chunk twice.  Each list adds to a chunk the reciprocal of its rank, and leaves the others alone (`MergeAdds`, `ListIsMerged`), so that the
score is the sum of both shares (`ScoresAreShares`).  Reciprocals fall with the rank, down to the nothing of an unranked chunk (`RecipsFall`): a chunk behind in neither list and
ahead in one has more (`SharesAgree`), so it is among the hits and before the other (`FusionAgrees`).  Theorem: `AgreementIsKept`.

`ChunksAreCitable` holds where there is no doubt, and says that a doubt ends: the invariant has to say what is left of the path in between (`Located`).  After a doubt below the top level, the top of the stack
and the letter that comes next are still right, so that the next letter puts everything right.  If a roman (i), (v) or (x) was taken for the next letter of the top, the tracker is one letter ahead, and
on the stack is the letter that comes next: so the next letter of the outline, which it does not expect, leaves a stack with the right top (`KeepsTop`).  That it cannot be ahead by two is because none of i, v and x follows
another in the alphabet.  Where nothing is in doubt, the token continues the level it is on and no other (`NextOfItsLevel`, `PathIsFollowed`).  Theorem: `ChunksAreAlwaysCitable`.

**EmbedCorpusProofs.**  The invariant says what the locals of `embed_corpus` mean while others fill the table: the hashes a process found are increasing (`Listed`); its pending
rows are the last ones it has come to, each with its own vector (`Segment`); all hashes before those are in the table (`Behind`); it has fewer pending than `CommitEvery` when it calls
the provider (`Few`); and what its transaction has inserted comes before what is left (`Ascending`).  That an answer in any order is sorted into the texts of the
request is `ToVectorsSorts`, from `MonotoneIsIdentity`: a map of 1..n to itself that keeps the order is the identity.  Theorems: `EmbedInvariant`, `VectorsAreTheTexts`,
`CrashesCostLittle`, and `EmbeddersNeverDeadlock`: along a chain of waits the hashes grow (`ChainsAscend`), so no circle of any length closes, where the run sees pairs.

**VectorGraphProofs.**  None of the graph's properties is inductive.  That edges go both ways is true between two links only because the links still to be made
are edges of the new node that nobody has linked back, each to be made once (`LinksAhead`), and since the new node survives every prune and what is pruned drops its edge, too.  That a node
is born linked needs the search of the layer to find a node: it starts at settled nodes of the layer (`StartsThere`), because the descent from the entry point, which no node is above (`EntryIsTop`),
finds one on each layer on its way, and a layer holds the nodes of its level and above (`Placed`, `WithinLayer`); it never loses all it has found (`Searching`), and the
selection keeps as many as it may, none twice (`Selecting`).  For `AllReachable`, a component is the smallest set around a node that no edge leaves (`ComponentIsClosed`); the bridges start from different
components and end in one, so that none was an edge before (`Bridging`), and a set that is closed after them holds the largest component, and by it all (`IsRepaired`).  Laid end to end and cut again,
the lists of a layer are the same (`LoadingWhatWasSaved`).  The loops of the code are recursive functions; `UpTo` and `Stays` are the induction over their steps, as statements about
a function of the positions, which the provers can apply, and `Iterates` says that such a function exists.  Theorems: `GraphInvariant`, `EdgesAlwaysGoBothWays`, `AlwaysBornLinked`, `AlwaysReachable`.

Of the searches, an account is kept of what is visited and not in the frontier: as long as a search has not found enough, it has kept every admissible node it visited
and has been to every neighbour of all it has expanded (`Thorough`), and each round expands a node, so that there are rounds enough (`Searched`, `SearchingAll`).  A search that ends
short of `ef` thus ends on a set that no edge leaves, which by `AllReachable` is the whole index (`NothingOutside`); one that does not has `ef` results, and the k nearest of
as many as there are admissible are those of all (`Cutting`).  Theorems: `HitsInvariant`, `SearchesAreFull`, `SearchesAreExact`.

**VectorIndexesProofs.**  The invariant is `FilesOfFlat /\ Answered`.  While an inverted file is built, its centroids are places, as many as
there are cells once seeding is over (`Seeded`), and `ids` is a permutation of the rows throughout (`Kept`); `ListsHoldNearest` itself is established by the last
step alone, in which `Permute` assigns once more.  That a stable sort by cells puts each cell into the slice between its offsets is `SortedBySlices`: the row at position n is the one
with n - 1 rows before it, and those in earlier cells come first.  `Answered` says what was found in terms of sets (`Finds`): rows are the nearest of a set of candidates, sorted;
the candidates are all at full effort, enough under a filter, at least what is within the effort under one and no more without.  Whatever several results numpy's
partition and the order of equally far cells allow, `SearchFindsNearest` covers them all: candidates suffice in any order of probing (`CandidatesSuffice`, by `NearbyComeFirst`), and
renaming sorted positions gives sorted rows (`Renaming`).  The rest is about sorted lists: if no element outside T is nearer than one of T, the nth of T is as far as the nth of all
(`NearestAsFar`), which is why different choices among equals give the same distances.  Theorems: `FlatInvariant`, `FilesAreKept`, `FlatSearchesAreSound`, and `PortRefinesGraph`, by which the
theorems about the graph hold behind the port.

Of `Measurement`, `GapsAreDuplication`: were a row within the threshold and not in the only truth, it could take the place of the farthest one there
(`NearestIsOneOfMany`), and there would be two.  `PushdownsAreNeverBeaten`: what the filter leaves of an unfiltered search lies within the reach of the filtered one (`PushdownIsAsNear`), since without ties among
cells both probe nearest first and the filtered one goes on at least as far.  The first form of this property was too strong, and the
attempt to prove it showed why: it said that of an exhaustive scan fetching more never gives less.  Where the cut of the larger fetch separates duplicates, `argpartition` may drop the admissible one of them that
the smaller fetch happened to keep, so that `measure_collapse` may fall from one level to the next; TLC finds it with three equal vectors and k = 1, which the instance
had not contained.  Now the property asks for a clean cut (`CutsClean`), and the run searches for one row, too.

**Only model-checked**: the liveness properties `EveryJobSettles`, `StopDrains`, `EverySnapshotSettles`, `EmbeddedInTheEnd`, `PageIsAnswered` and `PendingIsReleased`, since TLAPS has
no rule for fairness and ENABLED that its backends could use.  Every invariant and every action property of the passing runs is proved, in the sections above.
Loops and sums are recursive functions throughout, a sorted list is defined by how many elements come before each, since the provers cannot unfold a fold.
Nothing is proved of the disagreements below; they are counterexamples.

## 5. Where the code and its words differ

With a run:
- `requeue`: overlapping calls of `requeue_dead` put a running job back to pending.
- `amendment`: "a change produces a new version" (design doc); `sv_no_overlap` refuses it
  because nothing closes the open version that is stored.
- `quote`: "each verified quote" (`service.py`); the quote kept for a chunk is the last, the
  one verified is the first.
- `reparented`: "this stops a roman (i) deep inside (h)'s subtree from being mistaken for the top-level (i)" (`parse.py:92`, and
  `test_roman_one_does_not_eat_the_top_level`); the test begins with (h), when the parser still expects (a), while in a section with (a) to (h)
  it expects (i), resets the stack and cites the subtree without the (h).
- `rupture`: `_run_turn_html` takes its own row, or a later one, for the previous turn, while the transcript of
  the same rows, "rendered from the database exactly as the live turn was rendered from memory" (`app.py:562`), shows the rupture.

Without one so far: a removed section "still gets an interval so 'in force in 2020?' returns nothing for it" (`timeline.py:20`), but one that is removed after the first ingestion
stays in force in the corpus, since nothing closes the version stored as open and the snapshot has nothing to insert (modelled: the premise `PlannedAtOnce` of `SucceededIsIngested`); an (I) after (H) opens a new depth, since `_FIRST_OF_SEQUENCE` is asked before the levels (`parse.py:100`; modelled: `IsNinthCapital`); a chunk
keeps the path of its first paragraph, "the narrowest one that covers all of it" (`parse.py:175`), but a chunk merged of (a)(1) and (b) is cited as (a)(1), which does not cover the
other; "orphan protection in `_insert` keeps every node at degree >= 1" (`hnsw.py:245`), but when the
pruned list has no member with an edge to spare, nothing is swapped and the node is isolated (six vectors with `M` = 2, all on layer 1,
are enough); the repair joins such nodes on layer 0 and does not look at the others; a streamed greeting has no `as_of` in its payload and the page fails on it
after the row was written (`app.py:494`; modelled in `Conversation` and `TurnStream`); candidates are stored before quotes
are attached (`traces.py:76`); of two turns that take the same number one is lost after all
its work (modelled: `PersistRefused`); an answer with no citation at all passes the
validator; "readers never see a half-written file" (`ecfr/client.py:91`), but two processes that fetch a date share its temporary file, so the first
rename publishes what the second is still writing, and the second finds nothing to rename (modelled: `HalfOnlyWhenShared` says exactly when);
`run_until_idle` takes "two consecutive empty polls" to mean "the queue is genuinely empty" (`worker.py:94`), but a poll does
not see a job in backoff, so a lone draining process leaves the retry behind (modelled: `ClaimNothing` of a draining process; `EverySnapshotSettles` says that the next worker settles it);
brute force and IVF cut with `argpartition` before ties are broken by id, so of equal distances the ids
found are not always the smallest (`brute.py:88`; the distances are right, which is what `FlatSearchIsSound` says);
`load_corpus_vectors` returns "every chunk's id and vector", but of the chunks whose text is embedded only, and `corpus_size` is their number;
`amendments_between` counts effective dates strictly between two dates, so an amendment that takes effect on the later one is
not counted although the law differs, and none is said to mean that it "did not change" (`transcript.py:66, 84`);
`stream.js` opens a second reader of a pending turn's feed when another question is asked meanwhile, and only one of them gets the end of it: the other
waits for ever, although the `finally` of `run` is there to "close the stream even if the turn raised" (`app.py:380`; modelled: the page gets its turn all the same, `PageIsAnswered`);
a turn whose shell was lost is never listened to and stays in `_PENDING` (modelled; `PendingIsReleased` is about the others);
"the row's cost is the turn's true cost" (`app.py:326`), but an attempt that timed out after the provider had answered, and a turn
that fails, are paid and in no row;
an exception that leaves a slot should end the worker, but a sibling that is just then waiting for its cancelled heartbeat drops the
TaskGroup's cancellation with that of the heartbeat, and the group waits while it goes on polling (`worker.py:123`; modelled: `AbortGroup`);
a loaded HNSW index is not quite the one saved: `max_visits` and `seed` are those of the defaults (`hnsw.py:530`; modelled: `VisitLimit`);
bridges are built regardless of the degree budget, so a node may exceed it after a repair (`hnsw.py:311`);
`required_overfetch` is "ceil(1/selectivity)" in its docstring and `round`, half to even, in its code (`strategies.py:61, 72`), so the filter after the search
is given less than it needs for selectivities as 0.4 or 0.7 (modelled: `Rounded`);
on a corpus with duplicates the tie-aware recall is "the only correct definition" (`metrics.py:60`; `GapIsDuplication` says what the other one misses), and `sweep_one` and `measure_collapse` report it
(`temporal.py:132, 330`), out of `k` even where fewer than `k` rows are admissible, while that of the filter in the index is written down as 1.0 (`temporal.py:238`);
`_turns_for_thread` takes the 40 oldest rows, so the newest turns of a longer thread are never shown;
the index page starts every visit with a new `conversation_id` (`app.py:540`), so `_render_thread_html` never has a row to show there, although its
docstring and `tests/test_api.py` are about threads with turns; IVF breaks ties between cells in one way for searches with a filter and in another for those
without (`PushdownIsNeverBeaten` leaves such queries out); the overfetch is raised level by level (`temporal.py:128`), but a higher level may find less where its cut
separates duplicates (modelled: the premise `CutsClean`).

## 6. Not modelled, and the plan

Not modelled, because there is nothing in it whose order or interleaving could go wrong, or because it is data:
- `eval/cases.py`, prompts, price tables and the static pages are data; `cli.py`, `config.py`, `obs.py` and `db.py` are wiring and I/O;
- `bench/plot.py`, `datasets.py`, `runner.py`: timing, averages and pictures of what `Measurement` computes;
- `web/diff.py`, `filters.py`, `copy.py`, tokenizing and stemming, the reading of the XML: conversions of text without state.  What the
  other parts rely on is that they are functions: equal inputs give equal chunks;
- `/search`, `/ui/compare`, `/trace`: read-only, a retrieval or a turn as in `HybridSearch` and `Conversation`;
- the Anthropic adapter: its retries and its record of a reply are those of the OpenRouter adapter;
- the Postgres indexes (`pgvector.py`, `pgfts.py`): queries of an external system;
- rounding of floats, the frozen form of the HNSW graph in memory, and the memory order of mapped files.

Done: `JobQueue`, `ExclusiveLease`, `IngestCorpus`, `Conversation`, `CiteOrRefuse`, `Transcript`, `VectorGraph`, `FlatIndexes`, `Measurement`,
`VectorIndexes`, `LexicalIndex`, `HybridSearch`, `SnapshotCache`, `SnapshotParser`, `EmbedCorpus`, `TurnStream`, and the proofs above.

Next:
1. what is billed but not recorded, as a second ledger in `TurnStream`.

Proofs to come: none of the runs' safety properties is left; liveness would need a prover with rules for fairness.
