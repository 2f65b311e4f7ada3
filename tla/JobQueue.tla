------------------------------ MODULE JobQueue ------------------------------
(***************************************************************************)
(* The durable job queue of substrate.queue: the rows of the Postgres      *)
(* table `jobs` (queue.py) and the worker processes that claim, run and    *)
(* settle them (worker.py).                                                *)
(*                                                                         *)
(* One action is one SQL statement, which runs in a transaction of its     *)
(* own, or one event of a worker process.  A claim is two statements, the  *)
(* reaping UPDATE and the claiming UPDATE, hence two actions.  A database  *)
(* error in a worker escapes its TaskGroup and ends the process with the   *)
(* statement applied or not: it is Crash before or after that statement.   *)
(*                                                                         *)
(* Time is abstracted to one Boolean per row, due[j], the condition        *)
(* available_at <= now() that every statement tests; it becomes true by    *)
(* Lapse and false when a statement moves available_at into the future.    *)
(* The columns no statement tests (claimed_by, last_error, timestamps) are *)
(* left out; `done` is a history variable.                                 *)
(***************************************************************************)
EXTENDS Integers, FiniteSets

CONSTANTS
    Jobs,          \* the specs that may be submitted, one per idempotency key
    Procs,         \* worker processes
    Slots,         \* their claim-run-ack loops, `concurrency` to a process
    ProcOf,        \* the process a slot runs in
    Operators,     \* the callers of requeue_dead
    Priority,      \* the priority column of each job
    MaxAttempts,   \* the max_attempts column of each job
    Handled,       \* the jobs whose kind has a registered handler
    RequeueLimit,  \* the `limit` of requeue_dead
    Draining,      \* the processes in run_until_idle, the others run_forever
    MaxFaults,     \* bound: crashes, SIGTERMs and failed heartbeats
    MaxRequeues,   \* bound: calls of requeue_dead
    NoJob          \* "this slot holds no job", or "no slot holds this job"

ASSUME ConstantsAssumption ==
    /\ ProcOf \in [Slots -> Procs]
    /\ Priority \in [Jobs -> Int]
    /\ MaxAttempts \in [Jobs -> Nat \ {0}]     \* Field(ge=1), models.py
    /\ Handled \subseteq Jobs
    /\ RequeueLimit \in Nat \ {0}
    /\ Draining \subseteq Procs
    /\ MaxFaults \in Nat
    /\ MaxRequeues \in Nat
    /\ NoJob \notin Jobs \union Slots

VARIABLES
    state, attempts, epoch, due,     \* the table, a column each
    pc, held, token, beat, idle,     \* the slots
    stopping,                        \* Worker._stopping, per process
    picked,                          \* the ids a requeue_dead has selected
    done,                            \* epochs whose handler has returned
    faults, requeues                 \* what the bounds have used up

table == <<state, attempts, epoch, due>>
slots == <<pc, held, token, beat, idle>>
vars  == <<table, slots, stopping, picked, done, faults, requeues>>

States   == {"absent", "pending", "running", "succeeded", "dead"}
Stages   == {"off", "poll", "claim", "run", "ack", "nack", "end", "raised", "over"}
Busy     == {"run", "ack", "nack"}
Ended    == {"off", "over"}
Beats    == {"none", "beating", "lost", "broken"}

\* The table, the slots and the counters are well formed; a slot holds a job
\* exactly while it runs or settles one, and a heartbeat task never outlives
\* the job it was started for (worker.py _execute).
TypeOK ==
    /\ state \in [Jobs -> States]
    /\ attempts \in [Jobs -> Nat]
    /\ epoch \in [Jobs -> Nat]
    /\ due \in [Jobs -> BOOLEAN]
    /\ pc \in [Slots -> Stages]
    /\ held \in [Slots -> Jobs \union {NoJob}]
    /\ token \in [Slots -> Nat]
    /\ beat \in [Slots -> Beats]
    /\ idle \in [Slots -> {0, 1}]
    /\ stopping \in [Procs -> BOOLEAN]
    /\ picked \in [Operators -> SUBSET Jobs]
    /\ done \in [Jobs -> SUBSET Nat]
    /\ faults \in 0..MaxFaults
    /\ requeues \in 0..MaxRequeues
    /\ \A s \in Slots : /\ (pc[s] \in Busy) <=> (held[s] # NoJob)
                        /\ (beat[s] # "none") => (pc[s] \in Busy)

Init ==
    /\ state = [j \in Jobs |-> "absent"]
    /\ attempts = [j \in Jobs |-> 0]
    /\ epoch = [j \in Jobs |-> 0]
    /\ due = [j \in Jobs |-> FALSE]
    /\ pc = [s \in Slots |-> "off"]
    /\ held = [s \in Slots |-> NoJob]
    /\ token = [s \in Slots |-> 0]
    /\ beat = [s \in Slots |-> "none"]
    /\ idle = [s \in Slots |-> 0]
    /\ stopping = [p \in Procs |-> FALSE]
    /\ picked = [o \in Operators |-> {}]
    /\ done = [j \in Jobs |-> {}]
    /\ faults = 0
    /\ requeues = 0

-----------------------------------------------------------------------------
(* Producers.                                                              *)

\* enqueue_many: one transaction for the set S of specs; a spec whose
\* idempotency key is in the table already is dropped (ON CONFLICT DO
\* NOTHING), whatever became of its job.  The specs in `later` carry an
\* available_at in the future.  enqueue is the case of one spec.
Enqueue(S, later) ==
    LET new == {j \in S : state[j] = "absent"}
    IN  /\ state' = [j \in Jobs |-> IF j \in new THEN "pending" ELSE state[j]]
        /\ due' = [j \in Jobs |-> IF j \in new THEN j \notin later ELSE due[j]]
        /\ UNCHANGED <<attempts, epoch, slots, stopping, picked, done, faults, requeues>>

\* available_at comes to pass: a backoff ends or a lease runs out.
Lapse(j) ==
    /\ state[j] \in {"pending", "running"}
    /\ ~due[j]
    /\ due' = [due EXCEPT ![j] = TRUE]
    /\ UNCHANGED <<state, attempts, epoch, slots, stopping, picked, done, faults, requeues>>

-----------------------------------------------------------------------------
(* A slot: poll, claim, run the handler, settle.                           *)

\* Faulty: the token is not compared, so the lease of a zombie still counts.
FencedByState(s) == state[held[s]] = "running"

\* Faulty: the state is not tested, so a lease outlives its job.
FencedByToken(s) == epoch[held[s]] = token[s]

\* The lease `s` was granted is the current one: the WHERE clause of
\* heartbeat, ack and nack.
Fenced(s) == /\ epoch[held[s]] = token[s]
             /\ state[held[s]] = "running"

Exhausted(j) == attempts[j] >= MaxAttempts[j]

\* Faulty: only rows that no worker ever took are claimed ...
ClaimablePending(j) == state[j] = "pending" /\ due[j] /\ ~Exhausted(j)

Claimable(j) == /\ state[j] \in {"pending", "running"}
                /\ due[j]
                /\ ~Exhausted(j)

\* Faulty: the reaper does not look at attempts, or not at the lease.
ReapedEarly(j) == state[j] = "running" /\ due[j]
ReapedLive(j) == state[j] = "running" /\ Exhausted(j)

Reaped(j) == /\ state[j] = "running"
             /\ due[j]
             /\ Exhausted(j)

\* Faulty: stop() is not looked at.
MayPollStopping(s) == pc[s] = "poll"

MayPoll(s) == pc[s] = "poll" /\ ~stopping[ProcOf[s]]

\* The top of _loop, and the first statement of claim().
Reap(s) ==
    /\ MayPoll(s)
    /\ state' = [j \in Jobs |-> IF Reaped(j) THEN "dead" ELSE state[j]]
    /\ pc' = [pc EXCEPT ![s] = "claim"]
    /\ UNCHANGED <<attempts, epoch, due, held, token, beat, idle>>
    /\ UNCHANGED <<stopping, picked, done, faults, requeues>>

\* Faulty: the claim leaves lease_epoch as it is.
SameEpoch(j) == epoch[j]

NextEpoch(j) == epoch[j] + 1

\* The second statement of claim(), when it finds a row.  A job of a kind
\* without a handler goes straight to nack, with no heartbeat task.
Claim(s, j) ==
    /\ pc[s] = "claim"
    /\ Claimable(j)
    /\ \A k \in Jobs : Claimable(k) => Priority[k] <= Priority[j]
    /\ state' = [state EXCEPT ![j] = "running"]
    /\ attempts' = [attempts EXCEPT ![j] = attempts[j] + 1]
    /\ epoch' = [epoch EXCEPT ![j] = NextEpoch(j)]
    /\ due' = [due EXCEPT ![j] = FALSE]
    /\ held' = [held EXCEPT ![s] = j]
    /\ token' = [token EXCEPT ![s] = NextEpoch(j)]
    /\ pc' = [pc EXCEPT ![s] = IF j \in Handled THEN "run" ELSE "nack"]
    /\ beat' = [beat EXCEPT ![s] = IF j \in Handled THEN "beating" ELSE "none"]
    /\ idle' = [idle EXCEPT ![s] = 0]
    /\ UNCHANGED <<stopping, picked, done, faults, requeues>>

\* The same statement when it finds none: the second empty poll in a row
\* ends a draining loop.
ClaimNothing(s) ==
    /\ pc[s] = "claim"
    /\ \A j \in Jobs : ~Claimable(j)
    /\ LET leaves == ProcOf[s] \in Draining /\ idle[s] = 1
       IN  pc' = [pc EXCEPT ![s] = IF leaves THEN "off" ELSE "poll"]
    /\ idle' = [idle EXCEPT ![s] = 1]
    /\ UNCHANGED <<table, held, token, beat, stopping, picked, done, faults, requeues>>

\* The handler, external to the queue, returns ...
HandlerReturns(s) ==
    /\ pc[s] = "run"
    /\ pc' = [pc EXCEPT ![s] = "ack"]
    /\ done' = [done EXCEPT ![held[s]] = done[held[s]] \union {token[s]}]
    /\ UNCHANGED <<table, held, token, beat, idle, stopping, picked, faults, requeues>>

\* ... or raises.
HandlerRaises(s) ==
    /\ pc[s] = "run"
    /\ pc' = [pc EXCEPT ![s] = "nack"]
    /\ UNCHANGED <<table, held, token, beat, idle, stopping, picked, done, faults, requeues>>

\* The heartbeat task runs beside the handler until _execute cancels it.
\* Losing the lease ends the task and nothing else.
Heartbeat(s) ==
    /\ pc[s] \in Busy
    /\ beat[s] = "beating"
    /\ \/ /\ Fenced(s)
          /\ due' = [due EXCEPT ![held[s]] = FALSE]
          /\ UNCHANGED beat
       \/ /\ ~Fenced(s)
          /\ beat' = [beat EXCEPT ![s] = "lost"]
          /\ UNCHANGED due
    /\ UNCHANGED <<state, attempts, epoch, pc, held, token, idle>>
    /\ UNCHANGED <<stopping, picked, done, faults, requeues>>

\* A database error in the heartbeat ends the task with an exception that
\* nobody sees before _execute awaits it.
HeartbeatErrors(s) ==
    /\ pc[s] \in Busy
    /\ beat[s] = "beating"
    /\ faults < MaxFaults
    /\ faults' = faults + 1
    /\ beat' = [beat EXCEPT ![s] = "broken"]
    /\ UNCHANGED <<table, pc, held, token, idle, stopping, picked, done, requeues>>

\* What follows the await of a heartbeat: the exception of a broken one escapes
\* the slot, one that was still beating takes a while to end.
Awaited(how) == CASE how = "broken" -> "raised" [] how = "beating" -> "end" [] OTHER -> "poll"

\* Faulty: _execute does not cancel its heartbeat task.
EndExecuteBeating(s) ==
    /\ pc' = [pc EXCEPT ![s] = Awaited(beat[s])]
    /\ held' = [held EXCEPT ![s] = NoJob]
    /\ token' = [token EXCEPT ![s] = 0]
    /\ UNCHANGED <<beat, idle>>

\* The `finally` of _execute.
EndExecute(s) ==
    /\ pc' = [pc EXCEPT ![s] = Awaited(beat[s])]
    /\ held' = [held EXCEPT ![s] = NoJob]
    /\ token' = [token EXCEPT ![s] = 0]
    /\ beat' = [beat EXCEPT ![s] = "none"]
    /\ UNCHANGED idle

Ack(s) ==
    /\ pc[s] = "ack"
    /\ state' = IF Fenced(s) THEN [state EXCEPT ![held[s]] = "succeeded"] ELSE state
    /\ EndExecute(s)
    /\ UNCHANGED <<attempts, epoch, due, stopping, picked, done, faults, requeues>>

\* Faulty: a failure is retried whatever the attempts.
RetryAlways(j) == "pending"

Outcome(j) == IF Exhausted(j) THEN "dead" ELSE "pending"

\* The backoff of a retry has full jitter, from zero up: the job may be due
\* at once, which is a Lapse right after.
Nack(s) ==
    /\ pc[s] = "nack"
    /\ LET j == held[s]
       IN  \/ /\ Fenced(s)
              /\ state' = [state EXCEPT ![j] = Outcome(j)]
              /\ due' = [due EXCEPT ![j] = Outcome(j) = "dead" /\ due[j]]
           \/ /\ ~Fenced(s)
              /\ UNCHANGED <<state, due>>
    /\ EndExecute(s)
    /\ UNCHANGED <<attempts, epoch, stopping, picked, done, faults, requeues>>

\* Out of the await the loop goes on.
BeatEnds(s) ==
    /\ pc[s] = "end"
    /\ pc' = [pc EXCEPT ![s] = "poll"]
    /\ UNCHANGED <<table, held, token, beat, idle, stopping, picked, done, faults, requeues>>

\* stop() is looked at between jobs only.
LeaveLoop(s) ==
    /\ pc[s] = "poll"
    /\ stopping[ProcOf[s]]
    /\ pc' = [pc EXCEPT ![s] = "off"]
    /\ UNCHANGED <<table, held, token, beat, idle, stopping, picked, done, faults, requeues>>

-----------------------------------------------------------------------------
(* Worker processes.                                                       *)

SlotsOf(p) == {s \in Slots : ProcOf[s] = p}

\* A fresh run of the worker, once the previous one has ended.
Start(p) ==
    /\ \A s \in SlotsOf(p) : pc[s] \in Ended
    /\ pc' = [s \in Slots |-> IF ProcOf[s] = p THEN "poll" ELSE pc[s]]
    /\ idle' = [s \in Slots |-> IF ProcOf[s] = p THEN 0 ELSE idle[s]]
    /\ stopping' = [stopping EXCEPT ![p] = FALSE]
    /\ UNCHANGED <<table, held, token, beat, picked, done, faults, requeues>>

\* The slots S end where they are and what they held is forgotten.
KillSlots(S, how) ==
    /\ pc' = [s \in Slots |-> IF s \in S THEN how ELSE pc[s]]
    /\ held' = [s \in Slots |-> IF s \in S THEN NoJob ELSE held[s]]
    /\ token' = [s \in Slots |-> IF s \in S THEN 0 ELSE token[s]]
    /\ beat' = [s \in Slots |-> IF s \in S THEN "none" ELSE beat[s]]
    /\ UNCHANGED idle

\* SIGKILL, or an exception that escapes a slot and takes its process down.
Crash(p) ==
    /\ \E s \in SlotsOf(p) : pc[s] \notin Ended
    /\ faults < MaxFaults
    /\ faults' = faults + 1
    /\ KillSlots(SlotsOf(p), "off")
    /\ UNCHANGED <<table, stopping, picked, done, requeues>>

\* The TaskGroup cancels the siblings of the first slot that raised, each once.
\* One that awaits the end of its heartbeat takes this for that end and goes on
\* (the `suppress` of _execute): the group waits for it, and if it raises later
\* it ends alone.
AbortGroup(p) ==
    LET raised == {s \in SlotsOf(p) : pc[s] = "raised"}
        aborting == \E s \in SlotsOf(p) : pc[s] = "over"
    IN  /\ raised # {}
        /\ \E deaf \in SUBSET {s \in SlotsOf(p) : pc[s] = "end"} :
              KillSlots(IF aborting THEN raised ELSE SlotsOf(p) \ deaf, "over")
        /\ UNCHANGED <<table, stopping, picked, done, faults, requeues>>

\* SIGTERM or SIGINT.
Stop(p) ==
    /\ \E s \in SlotsOf(p) : pc[s] \notin Ended
    /\ ~stopping[p]
    /\ faults < MaxFaults
    /\ faults' = faults + 1
    /\ stopping' = [stopping EXCEPT ![p] = TRUE]
    /\ UNCHANGED <<table, slots, picked, done, requeues>>

-----------------------------------------------------------------------------
(* requeue_dead: the sub-select reads a snapshot, the UPDATE locks the     *)
(* rows one at a time and tests no more than their ids when it gets them.  *)

Smaller(m, n) == IF m < n THEN m ELSE n

RequeueSelect(o) ==
    LET dead == {j \in Jobs : state[j] = "dead"}
    IN  /\ picked[o] = {}
        /\ dead # {}
        /\ requeues < MaxRequeues
        /\ requeues' = requeues + 1
        /\ \E ids \in SUBSET dead :
              /\ Cardinality(ids) = Smaller(RequeueLimit, Cardinality(dead))
              /\ picked' = [picked EXCEPT ![o] = ids]
        /\ UNCHANGED <<table, slots, stopping, done, faults>>

RequeueUpdate(o) ==
    LET ids == picked[o]
    IN  /\ ids # {}
        /\ state' = [j \in Jobs |-> IF j \in ids THEN "pending" ELSE state[j]]
        /\ attempts' = [j \in Jobs |-> IF j \in ids THEN 0 ELSE attempts[j]]
        /\ due' = [j \in Jobs |-> IF j \in ids THEN TRUE ELSE due[j]]
        /\ picked' = [picked EXCEPT ![o] = {}]
        /\ UNCHANGED <<epoch, slots, stopping, done, faults, requeues>>

-----------------------------------------------------------------------------
SlotStep(s) ==
    \/ Reap(s)
    \/ \E j \in Jobs : Claim(s, j)
    \/ ClaimNothing(s)
    \/ HandlerReturns(s)
    \/ HandlerRaises(s)
    \/ Ack(s)
    \/ Nack(s)
    \/ BeatEnds(s)
    \/ LeaveLoop(s)

Next ==
    \/ \E S \in SUBSET Jobs : \E later \in SUBSET S : Enqueue(S, later)
    \/ \E j \in Jobs : Lapse(j)
    \/ \E s \in Slots : SlotStep(s) \/ Heartbeat(s) \/ HeartbeatErrors(s)
    \/ \E p \in Procs : Start(p) \/ Crash(p) \/ AbortGroup(p) \/ Stop(p)
    \/ \E o \in Operators : RequeueSelect(o) \/ RequeueUpdate(o)

Spec == Init /\ [][Next]_vars

\* Time passes for a row whose lease nobody renews, slots make progress,
\* handlers end, and somebody starts the workers again when they have ended.
Renewed(j) == \E s \in Slots : held[s] = j /\ Fenced(s) /\ beat[s] = "beating"

Fairness ==
    /\ \A j \in Jobs : WF_vars(~Renewed(j) /\ Lapse(j))
    /\ \A s \in Slots : WF_vars(SlotStep(s))
    /\ \A p \in Procs : WF_vars(Start(p)) /\ WF_vars(AbortGroup(p))

FairSpec == Spec /\ Fairness

-----------------------------------------------------------------------------
(* Properties.                                                             *)

\* Slot s holds the current lease of job j.
Owns(s, j) == held[s] = j /\ token[s] = epoch[j] /\ state[j] = "running"

\* At most one slot holds the current lease of a job, however many zombies of
\* earlier leases are still running its handler (the lease_epoch of claim).
SingleOwner == \A j \in Jobs : \A r, s \in Slots : Owns(r, j) /\ Owns(s, j) => r = s

\* A job is succeeded only if the handler run of its last lease returned: no
\* zombie's ack is taken for the work of a later claimant (queue.py ack).
SucceededWasDone == \A j \in Jobs : state[j] = "succeeded" => epoch[j] \in done[j]

\* None is pending or absent with its attempts used up.
NoneStranded == \A j \in Jobs : state[j] \in {"absent", "pending"} => attempts[j] < MaxAttempts[j]

\* A job dies only with all its attempts used, and never uses more of them.
DeadIsExhausted ==
    \A j \in Jobs : /\ attempts[j] <= MaxAttempts[j]
                    /\ state[j] = "dead" => attempts[j] = MaxAttempts[j]

\* The < of the claim meets the >= of nack and reaper: a waiting job can be claimed, which
\* otherwise nobody would ever pick, and a job is dead exactly when it has been run as often
\* as it may be, never more (queue.py claim, nack, reap_expired).
AttemptsAreExact == NoneStranded /\ DeadIsExhausted

\* A running job stops running by the hand of the slot that owns it, or when
\* its lease is out and its attempts are used up; a success is final.
OwnerSettles ==
    [][\A j \in Jobs :
          /\ state[j] = "running" /\ state'[j] # "running" =>
                \/ \E s \in Slots : Owns(s, j) /\ pc[s] \in {"ack", "nack"} /\ pc'[s] # pc[s]
                \/ state'[j] = "dead" /\ due[j] /\ attempts[j] = MaxAttempts[j]
          /\ state[j] = "succeeded" => state'[j] = "succeeded"]_vars

\* The queue implements the exclusive lease: the owner of a job is the slot
\* whose token is current, and its work is finished when that epoch is done.
Owners(j) == {s \in Slots : Owns(s, j)}
TheOwner(S) == IF S = {} THEN NoJob ELSE CHOOSE s \in S : TRUE
OwnerOf(j) == TheOwner(Owners(j))
Lease == INSTANCE ExclusiveLease WITH
    Tasks <- Jobs, Agents <- Slots, Nobody <- NoJob,
    status <- [j \in Jobs |-> IF state[j] = "running" THEN "leased" ELSE state[j]],
    owner <- [j \in Jobs |-> OwnerOf(j)],
    finished <- [j \in Jobs |-> state[j] \in {"running", "succeeded"} /\ epoch[j] \in done[j]]
ImplementsLease == Lease!Spec

\* Every job that is submitted is settled in the end, succeeded or dead, if
\* crashes stop: whatever leases were lost, some worker picks the job up.
EveryJobSettles ==
    \A j \in Jobs : state[j] # "absent" ~> state[j] \in {"succeeded", "dead"}

\* A worker that was told to stop leaves, once its jobs in flight have ended
\* (install_signal_handlers).
StopDrains == \A p \in Procs : stopping[p] ~> \A s \in SlotsOf(p) : pc[s] \in Ended

(* What comments in the source say and the code does not do.                *)

\* queue.py requeue_dead: "Send dead letters back for another go".  A job that
\* a worker is running meanwhile is not sent back under it.
RequeueSparesRunning ==
    [][\A o \in Operators : RequeueUpdate(o) => \A j \in picked[o] : state[j] # "running"]_vars

=============================================================================
