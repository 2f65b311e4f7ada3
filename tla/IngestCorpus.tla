---------------------------- MODULE IngestCorpus ----------------------------
(***************************************************************************)
(* Corpus ingestion (ingest.py) on top of the job queue: planning turns    *)
(* the amendment history of the part into one job per date, and the        *)
(* handler of a job writes, in one transaction, the section versions in    *)
(* force on its date and their chunks (store/corpus.py).                   *)
(*                                                                         *)
(* Jobs are dates.  A section version is its section, its interval         *)
(* [from, to) and its kind: "text", or of a removed section "reserved" if  *)
(* the snapshot keeps its number and "gone" if not; a row also says which  *)
(* lease wrote it.  Transactions run at READ COMMITTED against the partial *)
(* unique index on (section, from) and the exclusion constraint on         *)
(* overlapping intervals: an insert that meets an uncommitted row it       *)
(* conflicts with waits for that transaction.                              *)
(* Fetching and parsing the snapshot are external to the model.            *)
(***************************************************************************)
EXTENDS JobQueue, FiniteSetsExt, Sequences

CONSTANTS
    SectionOrder,   \* the sections, in the order of the snapshot's XML
    Histories,      \* what the versions of the sections may be, each with its date and kind
    Horizons,       \* bound: how far the history reaches when it is planned
    Open            \* effective_to of a version still in force

Sections == {SectionOrder[i] : i \in 1..Len(SectionOrder)}

\* A snapshot holds a section once, and build_timelines keeps one version of a
\* section for a date ("dedupe on valid time").
ASSUME IngestAssumption ==
    /\ Jobs \subseteq Nat
    /\ SectionOrder \in Seq(Sections)
    /\ \A i, k \in 1..Len(SectionOrder) : SectionOrder[i] = SectionOrder[k] => i = k
    /\ Histories \subseteq [Sections -> SUBSET [from : Jobs, kind : {"text", "reserved", "gone"}]]
    /\ \A h \in Histories, sec \in Sections : \A r, q \in h[sec] : r.from = q.from => r = q
    /\ Horizons \subseteq Nat
    /\ Open \notin Nat
    /\ Handled = Jobs

VARIABLES
    history,   \* the versions that there are in the end
    payload,   \* the intervals each job carries, fixed when it is planned
    rows,      \* committed section_versions
    whole,     \* those among them whose chunks are committed
    txn        \* the open transaction of each slot

corpusVars == <<history, payload, rows, whole, txn>>
ingestVars == <<vars, corpusVars>>

NoTxn == [open |-> FALSE, at |-> 1, new |-> {}, whole |-> {}]

-----------------------------------------------------------------------------
(* Planning.                                                               *)

\* Faulty: the records of removals are left out.
RecordsOfText(sec, known) == {rec \in history[sec] : rec.from <= known /\ rec.kind = "text"}

\* versions(): what of the history is published by the day `known`.
Published(sec, known) == {rec \in history[sec] : rec.from <= known}

\* build_timelines: the versions of a section are closed each at the next.
Timeline(sec, known) ==
    LET later(d) == {rec.from : rec \in {r \in Published(sec, known) : r.from > d}}
    IN  {[section |-> sec, from |-> rec.from, kind |-> rec.kind,
          to |-> IF later(rec.from) = {} THEN Open ELSE Min(later(rec.from))] :
            rec \in Published(sec, known)}

EndsAfter(iv, day) == IF iv.to = Open THEN TRUE ELSE day < iv.to

\* SectionInterval.contains
InForce(iv, day) == iv.from <= day /\ EndsAfter(iv, day)

\* interval_covering, for every section.
Covering(day, known) ==
    {iv \in UNION {Timeline(sec, known) : sec \in Sections} : InForce(iv, day)}

\* The dates of the history: plan_ingest's targets, unless it is given some dates.
Dates(known) == {rec.from : rec \in UNION {Published(sec, known) : sec \in Sections}}

GivenDates(known) == SUBSET {d \in Jobs : d <= known} \ {{}}

\* plan_ingest enqueues its targets, each with its intervals.
PlanIngest(known, targets) ==
    LET new == {d \in targets : state[d] = "absent"}
    IN  /\ Enqueue(targets, {})
        /\ payload' = [d \in Jobs |-> IF d \in new THEN Covering(d, known) ELSE payload[d]]
        /\ UNCHANGED <<history, rows, whole, txn>>

-----------------------------------------------------------------------------
(* The snapshot handler.                                                   *)

SameKey(r, v) == r.section = v.section /\ r.from = v.from

Overlap(r, v) == /\ r.section = v.section
                 /\ r.from < v.from => EndsAfter(r, v.from)
                 /\ v.from < r.from => EndsAfter(v, r.from)

\* Faulty: each job writes its sections in an order of its own.
AnyOrder(s) == IF held[s] = Min(Jobs)
               THEN [i \in 1..Len(SectionOrder) |-> SectionOrder[Len(SectionOrder) + 1 - i]]
               ELSE SectionOrder

XmlOrder(s) == SectionOrder

AtEnd(s) == txn[s].at > Len(SectionOrder)

\* The versions the handler of slot s is at, none or one: by_section.get(), for a section
\* that the snapshot has.
Wanted(s) == {v \in payload[held[s]] : v.section = XmlOrder(s)[txn[s].at] /\ v.kind # "gone"}

Stamp(s, v) == [section |-> v.section, from |-> v.from, to |-> v.to, kind |-> v.kind,
                lease |-> <<held[s], token[s]>>]

\* Rows another open transaction has written and that v would conflict with.
Locked(s, v) == \E t \in Slots \ {s} : \E r \in txn[t].new : SameKey(r, v) \/ Overlap(r, v)

Exists(v) == \E r \in rows : SameKey(r, v)

Begin(s) ==
    /\ pc[s] = "run"
    /\ ~txn[s].open
    /\ txn' = [txn EXCEPT ![s].open = TRUE]
    /\ UNCHANGED <<vars, history, payload, rows, whole>>

InTxn(s) == pc[s] = "run" /\ txn[s].open

Advance(s) == txn' = [txn EXCEPT ![s].at = @ + 1]

\* No interval covers the date, or insert_section_version finds the version.
SkipSection(s) ==
    /\ InTxn(s)
    /\ ~AtEnd(s)
    /\ \A v \in Wanted(s) : Exists(v) /\ ~Locked(s, v)
    /\ Advance(s)
    /\ UNCHANGED <<vars, history, payload, rows, whole>>

\* Faulty: a SELECT for the key before a plain INSERT, which sees no
\* uncommitted row and waits for none.
MayInsertUnlocked(s, v) == ~Exists(v)

MayInsert(s, v) ==
    /\ ~Exists(v)
    /\ ~Locked(s, v)
    /\ \A r \in rows : ~Overlap(r, v)

\* insert_section_version creates the version ...
InsertVersion(s) ==
    /\ InTxn(s)
    /\ ~AtEnd(s)
    /\ \E v \in Wanted(s) :
          /\ Stamp(s, v) \notin txn[s].new
          /\ MayInsert(s, v)
          /\ txn' = [txn EXCEPT ![s].new = @ \union {Stamp(s, v)}]
    /\ UNCHANGED <<vars, history, payload, rows, whole>>

\* ... and insert_chunks its chunks.
InsertChunks(s) ==
    /\ InTxn(s)
    /\ ~AtEnd(s)
    /\ \E v \in Wanted(s) :
          /\ Stamp(s, v) \in txn[s].new
          /\ txn' = [txn EXCEPT ![s].whole = @ \union {Stamp(s, v)}, ![s].at = @ + 1]
    /\ UNCHANGED <<vars, history, payload, rows, whole>>

\* Faulty: the handler returns before its transaction has committed.
CommitLost(s) == UNCHANGED <<rows, whole>>

\* Faulty: the statements commit one by one, so what fails leaves a trace.
KeepsWritten(S) ==
    /\ rows' = rows \union UNION {txn[s].new : s \in S}
    /\ whole' = whole \union UNION {txn[s].whole : s \in S}
    /\ txn' = [s \in Slots |-> IF s \in S THEN NoTxn ELSE txn[s]]

Publish(s) == /\ rows' = rows \union txn[s].new
              /\ whole' = whole \union txn[s].whole

Commit(s) ==
    /\ InTxn(s)
    /\ AtEnd(s)
    /\ HandlerReturns(s)
    /\ Publish(s)
    /\ txn' = [txn EXCEPT ![s] = NoTxn]
    /\ UNCHANGED <<history, payload>>

\* The transactions of the slots S end without effect.
Rollback(S) ==
    /\ txn' = [s \in Slots |-> IF s \in S THEN NoTxn ELSE txn[s]]
    /\ UNCHANGED <<rows, whole>>

\* An insert meets a committed overlapping row: the constraint raises.
Refused(s) ==
    /\ InTxn(s)
    /\ ~AtEnd(s)
    /\ \E v \in Wanted(s) : ~Exists(v) /\ ~Locked(s, v) /\ \E r \in rows : Overlap(r, v)

\* Postgres finds the slot in a circle of transactions that wait for each other.
Waits(s, t) ==
    /\ InTxn(s)
    /\ ~AtEnd(s)
    /\ \E v \in Wanted(s), r \in txn[t].new : s # t /\ (SameKey(r, v) \/ Overlap(r, v))

WaitsInCircle(s) == \E t \in Slots : Waits(s, t) /\ Waits(t, s)

\* The snapshot cannot be fetched or parsed, a statement times out, or an
\* insert is refused.
Fail(s) ==
    /\ HandlerRaises(s)
    /\ Rollback({s})
    /\ UNCHANGED <<history, payload>>

\* The failures that Postgres brings about by itself.
Aborted(s) == (Refused(s) \/ WaitsInCircle(s)) /\ Fail(s)

-----------------------------------------------------------------------------
IngestInit ==
    /\ Init
    /\ history \in Histories
    /\ payload = [d \in Jobs |-> {}]
    /\ rows = {}
    /\ whole = {}
    /\ txn = [s \in Slots |-> NoTxn]

HandlerStep(s) ==
    \/ Begin(s) \/ SkipSection(s) \/ InsertVersion(s) \/ InsertChunks(s) \/ Commit(s)

\* What a slot does outside its handler leaves the corpus alone.
LoopStep(s) ==
    /\ \/ Reap(s)
       \/ \E j \in Jobs : Claim(s, j)
       \/ ClaimNothing(s) \/ Ack(s) \/ Nack(s) \/ BeatEnds(s) \/ LeaveLoop(s)
    /\ UNCHANGED corpusVars

\* The queue's Next, with the handler; ingestion never calls requeue_dead.
IngestNext ==
    \/ \E known \in Horizons :
          \E targets \in {Dates(known)} \union GivenDates(known) : PlanIngest(known, targets)
    \/ \E s \in Slots : HandlerStep(s) \/ LoopStep(s) \/ Fail(s)
    \/ \E s \in Slots : (Heartbeat(s) \/ HeartbeatErrors(s)) /\ UNCHANGED corpusVars
    \/ \E j \in Jobs : Lapse(j) /\ UNCHANGED corpusVars
    \/ \E p \in Procs : (Start(p) \/ Stop(p)) /\ UNCHANGED corpusVars
    \/ \E p \in Procs : (Crash(p) \/ AbortGroup(p)) /\ Rollback(SlotsOf(p)) /\ UNCHANGED <<history, payload>>

\* As for the queue, and a handler whose statement can go on, or is refused,
\* goes on.
IngestFairness ==
    /\ \A j \in Jobs : WF_ingestVars(~Renewed(j) /\ Lapse(j) /\ UNCHANGED corpusVars)
    /\ \A s \in Slots : WF_ingestVars(HandlerStep(s) \/ LoopStep(s) \/ Aborted(s))
    /\ \A p \in Procs :
          /\ WF_ingestVars(Start(p) /\ UNCHANGED corpusVars)
          /\ WF_ingestVars(AbortGroup(p) /\ Rollback(SlotsOf(p)) /\ UNCHANGED <<history, payload>>)

IngestSpec == IngestInit /\ [][IngestNext]_ingestVars

FairIngestSpec == IngestSpec /\ IngestFairness

-----------------------------------------------------------------------------
(* Properties.                                                             *)

\* _ASOF_PREDICATE
Effective(day) == {<<r.section, r.from>> : r \in {q \in whole : InForce(q, day) /\ q.kind = "text"}}

\* The history did not grow between two plans.
PlannedAtOnce ==
    \E known \in Horizons : \A j \in Jobs : state[j] # "absent" => payload[j] = Covering(j, known)

\* The sections in force on a day, each with the date of its version.
Law(day) ==
    UNION {{<<sec, rec.from>> : rec \in {r \in history[sec] :
                /\ r.from <= day /\ r.kind = "text"
                /\ \A q \in history[sec] : q.from <= day => q.from <= r.from}} : sec \in Sections}

\* A snapshot recorded as succeeded is what the corpus says of its date: all its versions are there
\* with their chunks, whoever wrote them, so nothing is lost with a rolled-back transaction, a zombie or a crash
\* (design doc NFR-5, "no loss"); and if the history did not grow between two plans, nothing else is in force
\* then, removed sections least of all ("'in force in 2020?' returns nothing for it", timeline.py).
SucceededIsIngested ==
    \A j \in Jobs : state[j] = "succeeded" =>
        /\ Law(j) \subseteq Effective(j)
        /\ PlannedAtOnce => Effective(j) \subseteq Law(j)

\* Two snapshots that cover the same version, or two runs of one, never write
\* it twice, and no two versions of a section overlap (NFR-5, "no duplication").
NoDuplicates == \A r, q \in rows : SameKey(r, q) \/ Overlap(r, q) => r = q

\* A version is never committed without its chunks: what a dead job, a crash or
\* a failing statement leaves behind is nothing (design doc, section 7), not even
\* an open transaction, for the others would wait for it.
NoHalfVersions == rows = whole /\ \A s \in Slots : txn[s].open => pc[s] = "run"

\* The transactions of two snapshots that share versions are never waiting for
\* each other, because each writes its sections in the order of the XML, so no
\* attempt of a job is spent on a deadlock that Postgres had to break.
NoDeadlock == \A s \in Slots : ~WaitsInCircle(s)

\* A slot that waits for another's uncommitted versions always gets on, and
\* every planned snapshot is settled.
EverySnapshotSettles ==
    \A j \in Jobs : state[j] # "absent" ~> state[j] \in {"succeeded", "dead"}

\* design doc, section 5: "a change produces a new version and a fresh set of
\* chunks".  No snapshot is refused because an older version of the section
\* was stored as still in force.
ChangesAreAccepted == \A s \in Slots : ~Refused(s)

=============================================================================
