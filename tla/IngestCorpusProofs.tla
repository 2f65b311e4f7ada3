------------------------- MODULE IngestCorpusProofs -------------------------
(***************************************************************************)
(* Proofs about JobQueue and IngestCorpus, for every set of jobs, workers  *)
(* and slots, every history and set of dates, and every bound.             *)
(*                                                                         *)
(* The queue.  The inductive invariant adds to the properties what ties a  *)
(* slot's token to the lease_epoch column: a token was granted, no two     *)
(* slots were granted the same one, and a slot acks what it has done.      *)
(*                                                                         *)
(* Ingestion is a queue, so what is proved of the queue holds of it too;   *)
(* on that stands an inductive invariant about the open transactions:      *)
(* their rows are versions that their job was given, of sections that they *)
(* have come to, and none of them conflicts with another, committed or     *)
(* not.                                                                    *)
(***************************************************************************)
EXTENDS IngestCorpus, WellFoundedInduction, TLAPS

-----------------------------------------------------------------------------
(* The queue.                                                              *)

\* A token in a slot was given out by a claim of the job it holds.
TokensGranted == \A s \in Slots : held[s] # NoJob => token[s] <= epoch[held[s]]

\* No two slots have been granted the same lease.
TokensDistinct ==
    \A r, s \in Slots : held[r] # NoJob /\ held[r] = held[s] /\ token[r] = token[s] => r = s

\* A slot about to ack has seen its handler return.
AckedIsDone == \A s \in Slots : pc[s] = "ack" => token[s] \in done[held[s]]

IInv == /\ TypeOK
        /\ TokensGranted
        /\ TokensDistinct
        /\ AckedIsDone
        /\ SucceededWasDone
        /\ NoneStranded
        /\ DeadIsExhausted

-----------------------------------------------------------------------------
\* The rows and slots are well formed in every reachable state.
LEMMA InitTypeOK == Init => TypeOK
BY ConstantsAssumption DEF Init, TypeOK, States, Stages, Busy, Beats

\* A slot that is running or settling holds a job and its token.
LEMMA BusyHolds ==
    ASSUME TypeOK, NEW s \in Slots, pc[s] \in Busy
    PROVE  held[s] \in Jobs /\ token[s] \in Nat
BY DEF TypeOK

\* A crash and the end of a group end slots of one process.
LEMMA Killing ==
    ASSUME NEW p \in Procs, Crash(p) \/ AbortGroup(p)
    PROVE  /\ \E S \in SUBSET SlotsOf(p), how \in Ended : KillSlots(S, how)
           /\ UNCHANGED <<table, stopping, picked, done, requeues>>
           /\ faults' = faults \/ (faults < MaxFaults /\ faults' = faults + 1)
<1>1. CASE Crash(p)
  BY <1>1 DEF Crash, Ended
<1>2. CASE AbortGroup(p)
  <2>1. PICK G, deaf : /\ G = SlotsOf(p)
                       /\ KillSlots(IF \E s \in G : pc[s] = "over"
                                    THEN {s \in G : pc[s] = "raised"} ELSE G \ deaf, "over")
    BY <1>2 DEF AbortGroup
  <2>2. PICK S : S = IF \E s \in G : pc[s] = "over" THEN {s \in G : pc[s] = "raised"} ELSE G \ deaf
    OBVIOUS
  <2>3. S \subseteq G
    BY <2>2
  <2>4. KillSlots(S, "over")
    BY <2>1, <2>2
  <2> QED BY <1>2, <2>1, <2>3, <2>4 DEF AbortGroup, Ended
<1> QED BY <1>1, <1>2

\* Every step keeps the rows and slots well formed.
LEMMA NextTypeOK == TypeOK /\ [Next]_vars => TypeOK'
<1> SUFFICES ASSUME TypeOK, [Next]_vars PROVE TypeOK'
  OBVIOUS
<1> USE ConstantsAssumption DEF TypeOK, States, Stages, Busy, Beats
<1>1. ASSUME NEW S \in SUBSET Jobs, NEW later \in SUBSET S, Enqueue(S, later) PROVE TypeOK'
  BY <1>1 DEF Enqueue, slots
<1>2. ASSUME NEW j \in Jobs, Lapse(j) PROVE TypeOK'
  BY <1>2 DEF Lapse, slots
<1>3. ASSUME NEW s \in Slots, SlotStep(s) PROVE TypeOK'
  <2>1. CASE Reap(s)
    BY <2>1 DEF Reap, Reaped, Exhausted, MayPoll
  <2>2. ASSUME NEW j \in Jobs, Claim(s, j) PROVE TypeOK'
    BY <2>2 DEF Claim, Claimable, NextEpoch
  <2>3. CASE ClaimNothing(s)
    BY <2>3 DEF ClaimNothing, table
  <2>4. CASE HandlerReturns(s)
    <3>1. held[s] \in Jobs /\ token[s] \in Nat
      BY <2>4, BusyHolds DEF HandlerReturns
    <3>2. done' \in [Jobs -> SUBSET Nat]
      <4>1. done[held[s]] \union {token[s]} \in SUBSET Nat
        BY <3>1
      <4> QED BY <2>4, <4>1 DEF HandlerReturns
    <3> QED BY <2>4, <3>2 DEF HandlerReturns, table
  <2>5. CASE HandlerRaises(s)
    BY <2>5 DEF HandlerRaises, table
  <2>6. CASE Ack(s)
    BY <2>6 DEF Ack, EndExecute, Awaited, Fenced
  <2>7. CASE Nack(s)
    <3>1. held[s] \in Jobs /\ Outcome(held[s]) \in States
      BY <2>7, BusyHolds DEF Nack, Outcome
    <3>2. state' \in [Jobs -> States]
      BY <2>7, <3>1 DEF Nack
    <3>3. due' \in [Jobs -> BOOLEAN]
      BY <2>7, <3>1 DEF Nack
    <3> QED BY <2>7, <3>2, <3>3 DEF Nack, EndExecute, Awaited
  <2>8. CASE LeaveLoop(s) \/ BeatEnds(s)
    BY <2>8 DEF LeaveLoop, BeatEnds, table
  <2> QED BY <1>3, <2>1, <2>2, <2>3, <2>4, <2>5, <2>6, <2>7, <2>8 DEF SlotStep
<1>4. ASSUME NEW s \in Slots, Heartbeat(s) PROVE TypeOK'
  BY <1>4 DEF Heartbeat, Fenced
<1>5. ASSUME NEW s \in Slots, HeartbeatErrors(s) PROVE TypeOK'
  BY <1>5 DEF HeartbeatErrors, table
<1>6. ASSUME NEW p \in Procs, Start(p) PROVE TypeOK'
  BY <1>6 DEF Start, SlotsOf, Ended, table
<1>7. ASSUME NEW p \in Procs, Crash(p) \/ AbortGroup(p) PROVE TypeOK'
  <2>1. PICK S \in SUBSET SlotsOf(p), how \in Ended : KillSlots(S, how)
    BY <1>7, Killing
  <2>2. /\ pc' \in [Slots -> Stages] /\ held' \in [Slots -> Jobs \union {NoJob}]
        /\ token' \in [Slots -> Nat] /\ beat' \in [Slots -> Beats] /\ idle' = idle
    BY <2>1 DEF KillSlots, Ended
  <2>3. \A s \in Slots : /\ (pc'[s] \in Busy) <=> (held'[s] # NoJob)
                         /\ (beat'[s] # "none") => (pc'[s] \in Busy)
    BY <2>1 DEF KillSlots, Ended
  <2>4. faults' \in 0..MaxFaults
    BY <1>7, Killing
  <2> QED BY <1>7, <2>2, <2>3, <2>4, Killing DEF table
<1>9. ASSUME NEW p \in Procs, Stop(p) PROVE TypeOK'
  BY <1>9 DEF Stop, table, slots
<1>10. ASSUME NEW o \in Operators, RequeueSelect(o) PROVE TypeOK'
  BY <1>10 DEF RequeueSelect, table, slots
<1>11. ASSUME NEW o \in Operators, RequeueUpdate(o) PROVE TypeOK'
  BY <1>11 DEF RequeueUpdate, slots
<1>12. CASE UNCHANGED vars
  BY <1>12 DEF vars, table, slots
<1> QED
  BY <1>1, <1>2, <1>3, <1>4, <1>5, <1>6, <1>7, <1>9, <1>10, <1>11, <1>12 DEF Next

\* The table, the slots and the bounds are well formed, and a slot holds a job
\* exactly while it runs or settles one.
THEOREM TypeCorrect == Spec => []TypeOK
BY InitTypeOK, NextTypeOK, PTL DEF Spec

-----------------------------------------------------------------------------
\* No slot's token is younger than its job, and no two tokens are the same.
LEMMA TokensStep == IInv /\ [Next]_vars => TokensGranted' /\ TokensDistinct'
<1> SUFFICES ASSUME IInv, [Next]_vars PROVE TokensGranted' /\ TokensDistinct'
  OBVIOUS
<1> USE ConstantsAssumption DEF IInv, TypeOK, TokensGranted, TokensDistinct
<1>1. ASSUME NEW s \in Slots, NEW j \in Jobs, Claim(s, j)
      PROVE  TokensGranted' /\ TokensDistinct'
  <2>1. /\ token'[s] = epoch[j] + 1 /\ held'[s] = j /\ epoch'[j] = epoch[j] + 1
        /\ \A r \in Slots \ {s} : token'[r] = token[r] /\ held'[r] = held[r]
        /\ \A k \in Jobs \ {j} : epoch'[k] = epoch[k]
    BY <1>1 DEF Claim, NextEpoch
  <2>2. \A r \in Slots \ {s} : held'[r] = j => token'[r] # token'[s]
    BY <2>1
  <2>3. TokensGranted'
    BY <2>1
  <2>4. TokensDistinct'
    BY <2>1, <2>2
  <2> QED BY <2>3, <2>4
\* Every other step leaves the epochs alone, and a slot keeps what it holds or
\* lets it go.
<1>2. CASE /\ epoch' = epoch
           /\ \A r \in Slots : /\ held'[r] # NoJob => held'[r] = held[r] /\ token'[r] = token[r]
                               /\ held'[r] \in Jobs \union {NoJob}
  BY <1>2
<1>3. ASSUME NEW s \in Slots, \/ SlotStep(s) /\ ~\E j \in Jobs : Claim(s, j)
                              \/ Heartbeat(s)
                              \/ HeartbeatErrors(s)
      PROVE  TokensGranted' /\ TokensDistinct'
  <2>1. CASE Reap(s)
    BY <2>1, <1>2 DEF Reap
  <2>2. CASE ClaimNothing(s)
    BY <2>2, <1>2 DEF ClaimNothing, table
  <2>3. CASE HandlerReturns(s) \/ HandlerRaises(s)
    BY <2>3, <1>2 DEF HandlerReturns, HandlerRaises, table
  <2>4. CASE Ack(s) \/ Nack(s)
    BY <2>4, <1>2 DEF Ack, Nack, EndExecute
  <2>5. CASE LeaveLoop(s) \/ BeatEnds(s)
    BY <2>5, <1>2 DEF LeaveLoop, BeatEnds, table
  <2>6. CASE Heartbeat(s) \/ HeartbeatErrors(s)
    BY <2>6, <1>2 DEF Heartbeat, HeartbeatErrors, table
  <2> QED BY <1>3, <2>1, <2>2, <2>3, <2>4, <2>5, <2>6 DEF SlotStep
<1>4. ASSUME NEW p \in Procs, Start(p) \/ Crash(p) \/ AbortGroup(p) \/ Stop(p)
      PROVE  TokensGranted' /\ TokensDistinct'
  <2>1. CASE Crash(p) \/ AbortGroup(p)
    BY <2>1, <1>2, Killing DEF KillSlots, table
  <2> QED BY <1>4, <1>2, <2>1 DEF Start, Stop, table, slots
<1>5. CASE \/ \E S \in SUBSET Jobs : \E later \in SUBSET S : Enqueue(S, later)
           \/ \E j \in Jobs : Lapse(j)
           \/ \E o \in Operators : RequeueSelect(o) \/ RequeueUpdate(o)
           \/ UNCHANGED vars
  BY <1>5, <1>2 DEF Enqueue, Lapse, RequeueSelect, RequeueUpdate, vars, table, slots
<1> QED BY <1>1, <1>3, <1>4, <1>5 DEF Next

-----------------------------------------------------------------------------
\* `done` only grows, and what it lacks no slot acks: the fence of ack compares
\* the token that was done with the epoch of the row.
LEMMA DoneStep == IInv /\ [Next]_vars => AckedIsDone' /\ SucceededWasDone'
<1> SUFFICES ASSUME IInv, [Next]_vars PROVE AckedIsDone' /\ SucceededWasDone'
  OBVIOUS
<1> USE ConstantsAssumption DEF IInv, TypeOK, AckedIsDone, SucceededWasDone, Busy
<1>1. ASSUME NEW s \in Slots, NEW j \in Jobs, Claim(s, j)
      PROVE  AckedIsDone' /\ SucceededWasDone'
  BY <1>1 DEF Claim, Claimable
<1>2. ASSUME NEW s \in Slots, HandlerReturns(s)
      PROVE  AckedIsDone' /\ SucceededWasDone'
  <2>1. held[s] \in Jobs /\ held[s] # NoJob
    BY <1>2, BusyHolds DEF HandlerReturns
  <2>2. /\ done'[held[s]] = done[held[s]] \union {token[s]}
        /\ \A j \in Jobs : done[j] \subseteq done'[j]
    BY <1>2, <2>1 DEF HandlerReturns
  <2>3. \A r \in Slots : pc'[r] = "ack" => r = s \/ pc[r] = "ack"
    BY <1>2 DEF HandlerReturns
  <2>4. \A r \in Slots : pc[r] = "ack" => held[r] \in Jobs
    BY BusyHolds
  <2>5. UNCHANGED <<held, token, state, epoch>>
    BY <1>2 DEF HandlerReturns, table
  <2> QED BY <2>1, <2>2, <2>3, <2>4, <2>5
<1>3. ASSUME NEW s \in Slots, Ack(s)
      PROVE  AckedIsDone' /\ SucceededWasDone'
  <2>1. held[s] \in Jobs /\ token[s] \in done[held[s]]
    BY <1>3, BusyHolds DEF Ack
  <2>2. SucceededWasDone'
    BY <1>3, <2>1 DEF Ack, Fenced
  <2>3. AckedIsDone'
    BY <1>3 DEF Ack, EndExecute, Awaited
  <2> QED BY <2>2, <2>3
<1>4. ASSUME NEW s \in Slots, Nack(s)
      PROVE  AckedIsDone' /\ SucceededWasDone'
  <2>1. SucceededWasDone'
    BY <1>4 DEF Nack, Outcome
  <2>2. AckedIsDone'
    BY <1>4 DEF Nack, EndExecute, Awaited
  <2> QED BY <2>1, <2>2
\* No other step makes a slot about to ack, or a job succeeded.
<1>5. CASE /\ done' = done
           /\ epoch' = epoch
           /\ \A j \in Jobs : state'[j] = "succeeded" => state[j] = "succeeded"
           /\ \A r \in Slots : pc'[r] = "ack" =>
                 pc[r] = "ack" /\ held'[r] = held[r] /\ token'[r] = token[r]
  BY <1>5
<1>6. ASSUME NEW s \in Slots,
             \/ Reap(s) \/ ClaimNothing(s) \/ HandlerRaises(s) \/ LeaveLoop(s) \/ BeatEnds(s)
             \/ Heartbeat(s) \/ HeartbeatErrors(s)
      PROVE  AckedIsDone' /\ SucceededWasDone'
  <2>1. CASE Reap(s)
    BY <2>1, <1>5 DEF Reap
  <2>2. CASE ClaimNothing(s) \/ HandlerRaises(s) \/ LeaveLoop(s) \/ BeatEnds(s)
    BY <2>2, <1>5 DEF ClaimNothing, HandlerRaises, LeaveLoop, BeatEnds, table
  <2>3. CASE Heartbeat(s) \/ HeartbeatErrors(s)
    BY <2>3, <1>5 DEF Heartbeat, HeartbeatErrors, table
  <2> QED BY <1>6, <2>1, <2>2, <2>3
<1>7. ASSUME NEW p \in Procs, Start(p) \/ Crash(p) \/ AbortGroup(p) \/ Stop(p)
      PROVE  AckedIsDone' /\ SucceededWasDone'
  <2>1. CASE Crash(p) \/ AbortGroup(p)
    BY <2>1, <1>5, Killing DEF KillSlots, Ended, table
  <2> QED BY <1>7, <1>5, <2>1 DEF Start, Stop, table, slots
<1>8. CASE \E S \in SUBSET Jobs : \E later \in SUBSET S : Enqueue(S, later)
  BY <1>8, <1>5 DEF Enqueue, slots
<1>9. CASE \E o \in Operators : RequeueUpdate(o)
  BY <1>9, <1>5 DEF RequeueUpdate, slots
<1>10. CASE \/ \E j \in Jobs : Lapse(j)
            \/ \E o \in Operators : RequeueSelect(o)
            \/ UNCHANGED vars
  BY <1>10, <1>5 DEF Lapse, RequeueSelect, vars, table, slots
<1> QED
  BY <1>1, <1>2, <1>3, <1>4, <1>6, <1>7, <1>8, <1>9, <1>10 DEF Next, SlotStep

-----------------------------------------------------------------------------
\* Attempts are counted at the claim, against the same limit that the claim, the
\* reaper and nack test.
LEMMA AttemptsStep == IInv /\ [Next]_vars => NoneStranded' /\ DeadIsExhausted'
<1> SUFFICES ASSUME IInv, [Next]_vars PROVE NoneStranded' /\ DeadIsExhausted'
  OBVIOUS
<1> USE ConstantsAssumption DEF IInv, TypeOK, NoneStranded, DeadIsExhausted, Exhausted
<1>1. ASSUME NEW s \in Slots, NEW j \in Jobs, Claim(s, j)
      PROVE  NoneStranded' /\ DeadIsExhausted'
  BY <1>1 DEF Claim, Claimable
<1>2. ASSUME NEW s \in Slots, Reap(s)
      PROVE  NoneStranded' /\ DeadIsExhausted'
  <2>1. UNCHANGED attempts
        /\ \A j \in Jobs :
              \/ state'[j] = state[j]
              \/ state'[j] = "dead" /\ attempts[j] >= MaxAttempts[j]
    BY <1>2 DEF Reap, Reaped
  <2>2. NoneStranded'
    BY <2>1
  <2>3. ASSUME NEW j \in Jobs
        PROVE  attempts[j] <= MaxAttempts[j] /\ (state'[j] = "dead" => attempts[j] = MaxAttempts[j])
    BY <2>1, <2>3
  <2> QED BY <2>1, <2>2, <2>3
<1>3. ASSUME NEW s \in Slots, Ack(s)
      PROVE  NoneStranded' /\ DeadIsExhausted'
  BY <1>3 DEF Ack
<1>4. ASSUME NEW s \in Slots, Nack(s)
      PROVE  NoneStranded' /\ DeadIsExhausted'
  <2>1. held[s] \in Jobs
    BY <1>4, BusyHolds DEF Nack, Busy
  <2>2. UNCHANGED attempts /\ \A j \in Jobs \ {held[s]} : state'[j] = state[j]
    BY <1>4 DEF Nack
  <2>3. state'[held[s]] \in {state[held[s]], Outcome(held[s])}
    BY <1>4, <2>1 DEF Nack
  <2> QED BY <2>1, <2>2, <2>3 DEF Outcome
<1>5. ASSUME NEW S \in SUBSET Jobs, NEW later \in SUBSET S, Enqueue(S, later)
      PROVE  NoneStranded' /\ DeadIsExhausted'
  BY <1>5 DEF Enqueue
<1>6. ASSUME NEW o \in Operators, RequeueUpdate(o)
      PROVE  NoneStranded' /\ DeadIsExhausted'
  BY <1>6 DEF RequeueUpdate
<1>7. CASE UNCHANGED <<state, attempts>>
  BY <1>7
<1>8. ASSUME NEW s \in Slots,
             \/ ClaimNothing(s) \/ HandlerReturns(s) \/ HandlerRaises(s) \/ LeaveLoop(s)
             \/ BeatEnds(s) \/ Heartbeat(s) \/ HeartbeatErrors(s)
      PROVE  NoneStranded' /\ DeadIsExhausted'
  BY <1>8, <1>7 DEF ClaimNothing, HandlerReturns, HandlerRaises, LeaveLoop, BeatEnds, Heartbeat,
                    HeartbeatErrors, table
<1>9. ASSUME NEW p \in Procs, Start(p) \/ Crash(p) \/ AbortGroup(p) \/ Stop(p)
      PROVE  NoneStranded' /\ DeadIsExhausted'
  BY <1>9, <1>7, Killing DEF Start, Stop, table
<1>10. CASE \/ \E j \in Jobs : Lapse(j)
            \/ \E o \in Operators : RequeueSelect(o)
            \/ UNCHANGED vars
  BY <1>10, <1>7 DEF Lapse, RequeueSelect, vars, table
<1> QED
  BY <1>1, <1>2, <1>3, <1>4, <1>5, <1>6, <1>8, <1>9, <1>10 DEF Next, SlotStep

-----------------------------------------------------------------------------
\* The invariant holds of an empty table.
LEMMA InitIInv == Init => IInv
<1> SUFFICES ASSUME Init PROVE IInv
  OBVIOUS
<1>1. TypeOK
  BY InitTypeOK
<1>2. TokensGranted /\ TokensDistinct /\ AckedIsDone
  BY DEF Init, TokensGranted, TokensDistinct, AckedIsDone
<1>3. SucceededWasDone /\ NoneStranded /\ DeadIsExhausted
  BY ConstantsAssumption DEF Init, SucceededWasDone, NoneStranded, DeadIsExhausted
<1> QED BY <1>1, <1>2, <1>3 DEF IInv

\* Every step keeps the invariant.
LEMMA NextIInv == IInv /\ [Next]_vars => IInv'
BY NextTypeOK, TokensStep, DoneStep, AttemptsStep DEF IInv

\* The inductive invariant holds of every reachable state.
THEOREM Inductive == Spec => []IInv
BY InitIInv, NextIInv, PTL DEF Spec

\* At most one slot holds the current lease of a job, so at most one of the
\* workers that run a job can settle it.
THEOREM FencingIsExclusive == Spec => []SingleOwner
<1>1. IInv => SingleOwner
  BY ConstantsAssumption DEF IInv, TokensDistinct, SingleOwner, Owns
<1> QED BY <1>1, Inductive, PTL

\* A job recorded as succeeded was done by the last worker that claimed it.
THEOREM SuccessIsEarned == Spec => []SucceededWasDone
<1>1. IInv => SucceededWasDone
  BY DEF IInv
<1> QED BY <1>1, Inductive, PTL

\* No waiting job is out of attempts, and no dead one has attempts left.
THEOREM AttemptsAreCounted == Spec => []AttemptsAreExact
<1>1. IInv => AttemptsAreExact
  BY DEF IInv, AttemptsAreExact
<1> QED BY <1>1, Inductive, PTL

-----------------------------------------------------------------------------
(* Who ends a lease.  Two calls of requeue_dead at once can send back a job *)
(* that is running, so what follows is about one caller at a time.          *)

OneOperator == \A o, q \in Operators : o = q

\* What a requeue_dead has selected is dead until it updates it.
PickedAreDead == \A o \in Operators : \A j \in picked[o] : state[j] = "dead"

\* The body of OwnerSettles.
Settled ==
    \A j \in Jobs :
        /\ state[j] = "running" /\ state'[j] # "running" =>
              \/ \E s \in Slots : Owns(s, j) /\ pc[s] \in {"ack", "nack"} /\ pc'[s] # pc[s]
              \/ state'[j] = "dead" /\ due[j] /\ attempts[j] = MaxAttempts[j]
        /\ state[j] = "succeeded" => state'[j] = "succeeded"

\* A slot changes the state of a job that is running, by reaping, claiming or
\* settling it, and a pending one by claiming it; never that of a dead one.
LEMMA SlotSpares ==
    ASSUME IInv, NEW s \in Slots, SlotStep(s), NEW j \in Jobs, state[j] \in {"dead", "succeeded"}
    PROVE  state'[j] = state[j]
BY DEF SlotStep, Reap, Reaped, Claim, Claimable, ClaimNothing, HandlerReturns, HandlerRaises,
       Ack, Nack, BeatEnds, LeaveLoop, Fenced, table, IInv, TypeOK

\* With one caller, what is picked stays dead.
LEMMA PickedStep ==
    ASSUME OneOperator, IInv, PickedAreDead, [Next]_vars
    PROVE  PickedAreDead'
<1> USE DEF IInv, TypeOK, PickedAreDead
<1>1. ASSUME NEW s \in Slots, SlotStep(s) PROVE PickedAreDead'
  <2>1. picked' = picked
    BY <1>1 DEF SlotStep, Reap, Claim, ClaimNothing, HandlerReturns, HandlerRaises, Ack, Nack,
                BeatEnds, LeaveLoop
  <2>2. \A j \in Jobs : state[j] = "dead" => state'[j] = "dead"
    BY <1>1, SlotSpares
  <2> QED BY <2>1, <2>2
<1>2. ASSUME NEW o \in Operators, RequeueSelect(o) PROVE PickedAreDead'
  BY <1>2 DEF RequeueSelect, table
<1>3. ASSUME NEW o \in Operators, RequeueUpdate(o) PROVE PickedAreDead'
  BY <1>3 DEF RequeueUpdate, OneOperator
<1>4. ASSUME NEW S \in SUBSET Jobs, NEW later \in SUBSET S, Enqueue(S, later) PROVE PickedAreDead'
  BY <1>4 DEF Enqueue
<1>5. CASE state' = state /\ picked' = picked
  BY <1>5
<1>6. ASSUME \/ \E j \in Jobs : Lapse(j)
             \/ \E s \in Slots : Heartbeat(s) \/ HeartbeatErrors(s)
             \/ \E p \in Procs : Start(p) \/ Crash(p) \/ AbortGroup(p) \/ Stop(p)
             \/ UNCHANGED vars
      PROVE  state' = state /\ picked' = picked
  BY <1>6, Killing DEF Lapse, Heartbeat, HeartbeatErrors, Start, Stop, table, vars
<1> QED BY <1>1, <1>2, <1>3, <1>4, <1>5, <1>6 DEF Next

\* A slot that takes a job out of the state running owns it, or has reaped it.
LEMMA SlotSettles ==
    ASSUME IInv, NEW s \in Slots, SlotStep(s)
    PROVE  Settled
<1> USE DEF IInv, TypeOK, Settled
<1>1. CASE Ack(s) \/ Nack(s)
  <2>1. ASSUME NEW j \in Jobs, state[j] = "running", state'[j] # "running"
        PROVE  Owns(s, j)
    BY <1>1, <2>1 DEF Ack, Nack, Fenced, Owns
  <2>2. pc[s] \in {"ack", "nack"} /\ pc'[s] # pc[s]
    BY <1>1 DEF Ack, Nack, EndExecute, Awaited
  <2>3. \A j \in Jobs : state[j] = "succeeded" => state'[j] = "succeeded"
    BY SlotSpares
  <2> QED BY <2>1, <2>2, <2>3
<1>2. CASE Reap(s)
  <2>1. ASSUME NEW j \in Jobs, state'[j] # state[j]
        PROVE  state'[j] = "dead" /\ due[j] /\ attempts[j] = MaxAttempts[j]
    <3>1. Reaped(j) /\ state'[j] = "dead"
      BY <1>2, <2>1 DEF Reap
    <3>2. attempts[j] <= MaxAttempts[j] /\ attempts[j] >= MaxAttempts[j]
      BY <3>1 DEF DeadIsExhausted, Reaped, Exhausted
    <3> QED BY <3>1, <3>2, ConstantsAssumption DEF Reaped
  <2> QED BY <2>1, SlotSpares
<1>3. ASSUME NEW j \in Jobs, Claim(s, j) PROVE Settled
  BY <1>3 DEF Claim, Claimable
<1>4. CASE ClaimNothing(s) \/ HandlerReturns(s) \/ HandlerRaises(s) \/ LeaveLoop(s) \/ BeatEnds(s)
  BY <1>4 DEF ClaimNothing, HandlerReturns, HandlerRaises, LeaveLoop, BeatEnds, table
<1> QED BY <1>1, <1>2, <1>3, <1>4 DEF SlotStep

\* So does every step of the system.
LEMMA StepSettles ==
    ASSUME IInv, PickedAreDead, [Next]_vars
    PROVE  Settled
<1> USE DEF IInv, TypeOK, Settled
<1>1. ASSUME NEW s \in Slots, SlotStep(s) PROVE Settled
  BY <1>1, SlotSettles
<1>2. ASSUME NEW o \in Operators, RequeueSelect(o) PROVE Settled
  BY <1>2 DEF RequeueSelect, table
<1>3. ASSUME NEW o \in Operators, RequeueUpdate(o) PROVE Settled
  BY <1>3 DEF RequeueUpdate, PickedAreDead
<1>4. ASSUME NEW S \in SUBSET Jobs, NEW later \in SUBSET S, Enqueue(S, later) PROVE Settled
  BY <1>4 DEF Enqueue
<1>5. ASSUME \/ \E j \in Jobs : Lapse(j)
             \/ \E s \in Slots : Heartbeat(s) \/ HeartbeatErrors(s)
             \/ \E p \in Procs : Start(p) \/ Crash(p) \/ AbortGroup(p) \/ Stop(p)
             \/ UNCHANGED vars
      PROVE  state' = state
  BY <1>5, Killing DEF Lapse, Heartbeat, HeartbeatErrors, Start, Stop, table, vars
<1>6. CASE state' = state
  BY <1>6
<1> QED BY <1>1, <1>2, <1>3, <1>4, <1>5, <1>6 DEF Next

\* While one operator at a time requeues, nobody but its owner ends a running
\* job, except the reaper when the lease is out and the attempts are used up.
THEOREM OwnersSettle ==
    ASSUME OneOperator
    PROVE  Spec => OwnerSettles
<1>1. Init => PickedAreDead
  BY DEF Init, PickedAreDead
<1>2. IInv /\ PickedAreDead /\ [Next]_vars => PickedAreDead'
  BY PickedStep
<1>3. IInv /\ PickedAreDead /\ [Next]_vars =>
        [\A j \in Jobs :
            /\ state[j] = "running" /\ state'[j] # "running" =>
                  \/ \E s \in Slots : Owns(s, j) /\ pc[s] \in {"ack", "nack"} /\ pc'[s] # pc[s]
                  \/ state'[j] = "dead" /\ due[j] /\ attempts[j] = MaxAttempts[j]
            /\ state[j] = "succeeded" => state'[j] = "succeeded"]_vars
  BY StepSettles DEF Settled
<1> QED BY <1>1, <1>2, <1>3, Inductive, PTL DEF Spec, OwnerSettles

-----------------------------------------------------------------------------
(* The queue implements the exclusive lease.                               *)

\* A slot has done its work only under a lease that was granted.
DoneGranted == \A j \in Jobs : \A e \in done[j] : e <= epoch[j]

\* Every step keeps that: a claim moves the epoch on, and a handler that returns
\* returns under the token of its slot.
LEMMA DoneGrantedStep ==
    ASSUME IInv, DoneGranted, [Next]_vars
    PROVE  DoneGranted'
<1> USE DEF IInv, TypeOK, DoneGranted
<1>1. ASSUME NEW s \in Slots, NEW j \in Jobs, Claim(s, j) PROVE DoneGranted'
  BY <1>1 DEF Claim, NextEpoch
<1>2. ASSUME NEW s \in Slots, HandlerReturns(s) PROVE DoneGranted'
  <2>1. held[s] \in Jobs /\ token[s] <= epoch[held[s]]
    BY <1>2, BusyHolds, ConstantsAssumption DEF HandlerReturns, Busy, TokensGranted
  <2>2. epoch' = epoch /\ done' = [done EXCEPT ![held[s]] = done[held[s]] \union {token[s]}]
    BY <1>2 DEF HandlerReturns, table
  <2> QED BY <2>1, <2>2
<1>3. CASE UNCHANGED <<done, epoch>>
  BY <1>3
<1>4. ASSUME NEW s \in Slots,
             \/ Reap(s) \/ ClaimNothing(s) \/ HandlerRaises(s) \/ Ack(s) \/ Nack(s) \/ LeaveLoop(s)
             \/ BeatEnds(s) \/ Heartbeat(s) \/ HeartbeatErrors(s)
      PROVE  UNCHANGED <<done, epoch>>
  BY <1>4 DEF Reap, ClaimNothing, HandlerRaises, Ack, Nack, LeaveLoop, BeatEnds, Heartbeat,
              HeartbeatErrors, table
<1>5. ASSUME \/ \E S \in SUBSET Jobs : \E later \in SUBSET S : Enqueue(S, later)
             \/ \E j \in Jobs : Lapse(j)
             \/ \E p \in Procs : Start(p) \/ Crash(p) \/ AbortGroup(p) \/ Stop(p)
             \/ \E o \in Operators : RequeueSelect(o) \/ RequeueUpdate(o)
             \/ UNCHANGED vars
      PROVE  UNCHANGED <<done, epoch>>
  BY <1>5, Killing DEF Enqueue, Lapse, Start, Stop, RequeueSelect, RequeueUpdate, table, vars
<1> QED BY <1>1, <1>2, <1>3, <1>4, <1>5 DEF Next, SlotStep

\* The owner of a job is the slot that owns it, which is the only one.
LEMMA OwnerIs ==
    ASSUME IInv, NEW s \in Slots, NEW j \in Jobs, Owns(s, j)
    PROVE  OwnerOf(j) = s /\ OwnerOf(j) # NoJob
<1>1. Owners(j) = {s}
  BY ConstantsAssumption DEF IInv, TokensDistinct, Owners, Owns
<1>2. TheOwner({s}) = s
  BY DEF TheOwner
<1> QED BY <1>1, <1>2, ConstantsAssumption DEF OwnerOf

\* A job that is not running has none.
LEMMA NoOwner ==
    ASSUME NEW j \in Jobs, state[j] # "running"
    PROVE  OwnerOf(j) = NoJob
BY DEF OwnerOf, Owners, TheOwner, Owns

\* The state of the abstract specification that a state of the queue stands for.
Status == [j \in Jobs |-> IF state[j] = "running" THEN "leased" ELSE state[j]]
Owner == [j \in Jobs |-> OwnerOf(j)]
Finished == [j \in Jobs |-> state[j] \in {"running", "succeeded"} /\ epoch[j] \in done[j]]

\* An empty table stands for a lease that nobody has asked for.
LEMMA InitImplements == Init => Lease!Init
<1> SUFFICES ASSUME Init PROVE Lease!Init
  OBVIOUS
<1>1. \A j \in Jobs : state[j] = "absent"
  BY DEF Init
<1>2. \A j \in Jobs : OwnerOf(j) = NoJob
  BY <1>1, NoOwner
<1> QED BY <1>1, <1>2 DEF Lease!Init

\* Nor does it have one after a step that leaves it in another state.
LEMMA NoOwnerLeft ==
    ASSUME NEW j \in Jobs, state'[j] # "running"
    PROVE  OwnerOf(j)' = NoJob
<1>1. Owners(j)' = {}
  BY DEF Owners, Owns
<1>2. TheOwner({}) = NoJob
  BY DEF TheOwner
<1> QED BY <1>1, <1>2 DEF OwnerOf, TheOwner

\* A job keeps its owner when the slots that own it are the same.
LEMMA SameOwner ==
    ASSUME NEW j \in Jobs, Owners(j)' = Owners(j)
    PROVE  OwnerOf(j)' = OwnerOf(j)
BY DEF OwnerOf, TheOwner

\* A step that leaves states, epochs and leases alone is not seen.
LEMMA Unseen ==
    ASSUME UNCHANGED <<state, epoch, done, held, token>>
    PROVE  UNCHANGED Lease!leaseVars
<1>1. \A j \in Jobs : Owners(j)' = Owners(j)
  BY DEF Owners, Owns
<1>2. \A j \in Jobs : OwnerOf(j)' = OwnerOf(j)
  BY <1>1, SameOwner
<1> QED BY <1>2 DEF Lease!leaseVars

\* A claim grants the job to the slot.
LEMMA ClaimGrants ==
    ASSUME IInv, DoneGranted, NEW s \in Slots, NEW j \in Jobs, Claim(s, j), IInv'
    PROVE  \E k \in Jobs, a \in Slots : Lease!Grant(k, a)
<1> USE DEF IInv, TypeOK
<1>1. /\ state' = [state EXCEPT ![j] = "running"]
      /\ epoch' = [epoch EXCEPT ![j] = epoch[j] + 1]
      /\ held' = [held EXCEPT ![s] = j] /\ token' = [token EXCEPT ![s] = epoch[j] + 1]
      /\ done' = done /\ state[j] \in {"pending", "running"} /\ held[s] = NoJob
  BY DEF Claim, NextEpoch, Claimable, Busy
<1>2. \A k \in Jobs \ {j} : Owners(k)' = Owners(k)
  BY <1>1, ConstantsAssumption DEF Owners, Owns
<1>3. Owners(j)' = {s}
  BY <1>1, ConstantsAssumption DEF Owners, Owns, TokensGranted
<1>4. OwnerOf(j)' = s /\ \A k \in Jobs \ {j} : OwnerOf(k)' = OwnerOf(k)
  <2>1. OwnerOf(j)' = TheOwner({s})
    BY <1>3 DEF OwnerOf, TheOwner
  <2>2. TheOwner({s}) = s
    BY DEF TheOwner
  <2> QED BY <1>2, <2>1, <2>2, SameOwner
<1>5. epoch'[j] \notin done'[j]
  BY <1>1 DEF DoneGranted
<1>6. Status[j] \in {"pending", "leased"} /\ Status' = [Status EXCEPT ![j] = "leased"]
  BY <1>1 DEF Status
<1>7. Owner' = [Owner EXCEPT ![j] = s]
  BY <1>4 DEF Owner
<1>8. Finished' = [Finished EXCEPT ![j] = FALSE]
  BY <1>1, <1>5 DEF Finished
<1> QED BY <1>6, <1>7, <1>8 DEF Lease!Grant, Status, Owner, Finished

\* A handler that returns to the owner finishes the work; to a zombie, it is
\* not seen.
LEMMA ReturnFinishes ==
    ASSUME IInv, NEW s \in Slots, HandlerReturns(s)
    PROVE  (\E j \in Jobs : Lease!Finish(j)) \/ UNCHANGED Lease!leaseVars
<1> USE DEF IInv, TypeOK
<1> DEFINE j == held[s]
<1>1. j \in Jobs /\ token[s] \in Nat
  BY BusyHolds DEF HandlerReturns, Busy
<1>2. /\ UNCHANGED <<state, epoch, held, token>>
      /\ done' = [done EXCEPT ![j] = done[j] \union {token[s]}]
  BY DEF HandlerReturns, table
<1>3. \A k \in Jobs : Owners(k)' = Owners(k)
  BY <1>2 DEF Owners, Owns
<1>4. \A k \in Jobs : OwnerOf(k)' = OwnerOf(k)
  BY <1>3, SameOwner
<1> HIDE DEF j
<1>5. CASE Owns(s, j)
  <2>1. OwnerOf(j) # NoJob
    BY <1>1, <1>5, OwnerIs
  <2>2. state[j] = "running" /\ epoch'[j] \in done'[j]
    BY <1>1, <1>2, <1>5 DEF Owns
  <2>3. Finished' = [Finished EXCEPT ![j] = TRUE]
    BY <1>1, <1>2, <2>2 DEF Finished
  <2>4. Status' = Status /\ Owner' = Owner /\ Owner[j] # NoJob
    BY <1>1, <1>2, <1>4, <2>1 DEF Status, Owner
  <2>5. UNCHANGED <<Status, Owner>>
    BY <2>4
  <2>6. \E k \in Jobs : Lease!Finish(k)
    BY <1>1, <2>3, <2>4, <2>5 DEF Lease!Finish, Status, Owner, Finished
  <2> QED BY <2>6
<1>6. CASE ~Owns(s, j)
  <2>1. state[j] = "running" => token[s] # epoch[j]
    BY <1>6 DEF Owns, j
  <2>2. state[j] = "succeeded" => epoch[j] \in done[j]
    BY <1>1 DEF SucceededWasDone
  <2>3. \A k \in Jobs : state[k] \in {"running", "succeeded"} =>
            (epoch[k] \in done'[k] <=> epoch[k] \in done[k])
    BY <1>1, <1>2, <2>1, <2>2
  <2> QED BY <1>2, <1>4, <2>3 DEF Lease!leaseVars
<1> QED BY <1>5, <1>6

\* When a slot lets go of its job, the owners of the others stay what they are,
\* and so does the owner of its own when the slot was a zombie.
LEMMA LetGo ==
    ASSUME IInv, NEW s \in Slots, EndExecute(s), epoch' = epoch,
           \A k \in Jobs : k # held[s] \/ ~Fenced(s) => state'[k] = state[k]
    PROVE  \A k \in Jobs : k # held[s] \/ ~Fenced(s) => OwnerOf(k)' = OwnerOf(k)
<1> SUFFICES ASSUME NEW k \in Jobs, k # held[s] \/ ~Fenced(s)
             PROVE  OwnerOf(k)' = OwnerOf(k)
  OBVIOUS
<1>1. /\ held' = [held EXCEPT ![s] = NoJob] /\ token' = [token EXCEPT ![s] = 0]
      /\ state'[k] = state[k]
  BY DEF EndExecute
<1>2. ~Owns(s, k) /\ ~Owns(s, k)'
  BY <1>1, ConstantsAssumption DEF Owns, Fenced, IInv, TypeOK
<1>3. \A r \in Slots \ {s} : Owns(r, k)' <=> Owns(r, k)
  BY <1>1 DEF Owns, IInv, TypeOK
<1>4. Owners(k)' = Owners(k)
  BY <1>2, <1>3 DEF Owners
<1> QED BY <1>4 DEF OwnerOf, TheOwner

\* An ack that is not fenced off completes the job.
LEMMA AckCompletes ==
    ASSUME IInv, NEW s \in Slots, Ack(s)
    PROVE  (\E k \in Jobs : Lease!Complete(k)) \/ UNCHANGED Lease!leaseVars
<1> USE DEF IInv, TypeOK
<1>1. PICK j \in Jobs : j = held[s]
  BY BusyHolds DEF Ack, Busy
<1>2. /\ state' = IF Fenced(s) THEN [state EXCEPT ![j] = "succeeded"] ELSE state
      /\ EndExecute(s) /\ epoch' = epoch /\ done' = done
  BY <1>1 DEF Ack
<1>3. \A k \in Jobs : k # j \/ ~Fenced(s) => state'[k] = state[k] /\ OwnerOf(k)' = OwnerOf(k)
  BY <1>1, <1>2, LetGo
<1>4. CASE Fenced(s)
  <2>1. OwnerOf(j) # NoJob
    BY <1>1, <1>4, OwnerIs DEF Owns, Fenced
  <2>2. state[j] = "running" /\ epoch[j] \in done[j]
    BY <1>1, <1>4 DEF Fenced, Ack, AckedIsDone
  <2>3. state' = [state EXCEPT ![j] = "succeeded"] /\ state'[j] # "running"
    BY <1>1, <1>2, <1>4
  <2>4. Owner' = [Owner EXCEPT ![j] = NoJob] /\ Owner[j] # NoJob
    <3>1. OwnerOf(j)' = NoJob
      BY <1>1, <2>3, NoOwnerLeft
    <3>2. \A k \in Jobs \ {j} : OwnerOf(k)' = OwnerOf(k)
      BY <1>3
    <3> QED BY <1>1, <2>1, <3>1, <3>2 DEF Owner
  <2>5. Status' = [Status EXCEPT ![j] = "succeeded"]
    BY <1>1, <2>3 DEF Status
  <2>6. Finished' = Finished /\ Finished[j]
    <3>1. \A k \in Jobs : (state'[k] \in {"running", "succeeded"} /\ epoch'[k] \in done'[k])
                             <=> (state[k] \in {"running", "succeeded"} /\ epoch[k] \in done[k])
      BY <1>2, <2>2, <2>3
    <3> QED BY <2>2, <3>1 DEF Finished
  <2> QED BY <1>1, <2>4, <2>5, <2>6 DEF Lease!Complete, Status, Owner, Finished
<1>5. CASE ~Fenced(s)
  BY <1>2, <1>3, <1>5 DEF Lease!leaseVars
<1> QED BY <1>4, <1>5

\* A nack that is not fenced off gives the job up.
LEMMA NackGivesUp ==
    ASSUME IInv, NEW s \in Slots, Nack(s)
    PROVE  \/ \E k \in Jobs, outcome \in {"pending", "dead"} : Lease!GiveUp(k, outcome)
           \/ UNCHANGED Lease!leaseVars
<1> USE DEF IInv, TypeOK
<1>1. PICK j \in Jobs : j = held[s]
  BY BusyHolds DEF Nack, Busy
<1>2. /\ state' = IF Fenced(s) THEN [state EXCEPT ![j] = Outcome(j)] ELSE state
      /\ EndExecute(s) /\ epoch' = epoch /\ done' = done
  BY <1>1 DEF Nack
<1>3. \A k \in Jobs : k # j \/ ~Fenced(s) => state'[k] = state[k] /\ OwnerOf(k)' = OwnerOf(k)
  BY <1>1, <1>2, LetGo
<1>4. CASE Fenced(s)
  <2>1. OwnerOf(j) # NoJob
    BY <1>1, <1>4, OwnerIs DEF Owns, Fenced
  <2>2. PICK outcome \in {"pending", "dead"} : outcome = Outcome(j)
    BY DEF Outcome
  <2>3. state' = [state EXCEPT ![j] = outcome] /\ state'[j] # "running"
    BY <1>1, <1>2, <1>4, <2>2
  <2>4. Owner' = [Owner EXCEPT ![j] = NoJob] /\ Owner[j] # NoJob
    <3>1. OwnerOf(j)' = NoJob
      BY <1>1, <2>3, NoOwnerLeft
    <3>2. \A k \in Jobs \ {j} : OwnerOf(k)' = OwnerOf(k)
      BY <1>3
    <3> QED BY <1>1, <2>1, <3>1, <3>2 DEF Owner
  <2>5. Status' = [Status EXCEPT ![j] = outcome]
    BY <1>1, <2>3 DEF Status
  <2>6. Finished' = [Finished EXCEPT ![j] = FALSE]
    BY <1>1, <1>2, <2>3 DEF Finished
  <2> QED BY <1>1, <2>2, <2>4, <2>5, <2>6 DEF Lease!GiveUp, Status, Owner, Finished
<1>5. CASE ~Fenced(s)
  BY <1>2, <1>3, <1>5 DEF Lease!leaseVars
<1> QED BY <1>4, <1>5

\* The reaper buries the jobs whose lease is out and whose attempts are used up.
LEMMA ReapBuries ==
    ASSUME IInv, NEW s \in Slots, Reap(s)
    PROVE  \E T \in SUBSET Jobs : Lease!Bury(T)
<1> USE DEF IInv, TypeOK
<1> DEFINE T == {j \in Jobs : Reaped(j)}
<1>1. /\ state' = [j \in Jobs |-> IF j \in T THEN "dead" ELSE state[j]]
      /\ UNCHANGED <<epoch, done, held, token>> /\ \A j \in T : state[j] = "running"
  BY DEF Reap, Reaped
<1>2. T \in SUBSET Jobs
  OBVIOUS
<1>3. PICK S \in SUBSET Jobs :
        /\ state' = [j \in Jobs |-> IF j \in S THEN "dead" ELSE state[j]]
        /\ \A j \in S : state[j] = "running"
  BY <1>1, <1>2
<1>4. \A j \in S : OwnerOf(j)' = NoJob
  BY <1>3, NoOwnerLeft
<1>5. \A j \in Jobs \ S : Owners(j)' = Owners(j)
  BY <1>1, <1>3 DEF Owners, Owns
<1>6. \A j \in Jobs \ S : OwnerOf(j)' = OwnerOf(j)
  BY <1>5, SameOwner
<1>7. Owner' = [j \in Jobs |-> IF j \in S THEN NoJob ELSE Owner[j]]
  BY <1>4, <1>6 DEF Owner
<1>8. Status' = [j \in Jobs |-> IF j \in S THEN "dead" ELSE Status[j]]
  BY <1>3 DEF Status
<1>9. Finished' = [j \in Jobs |-> j \notin S /\ Finished[j]]
  BY <1>1, <1>3 DEF Finished
<1>10. \A j \in S : Status[j] = "leased"
  BY <1>3 DEF Status
<1> QED BY <1>7, <1>8, <1>9, <1>10 DEF Lease!Bury, Status, Owner, Finished

\* Slots that end orphan the jobs that they own.
LEMMA KillOrphans ==
    ASSUME IInv, NEW S \in SUBSET Slots, NEW how, KillSlots(S, how), UNCHANGED <<state, epoch, done>>
    PROVE  \E T \in SUBSET Jobs : Lease!Orphan(T)
<1> USE DEF IInv, TypeOK
<1>1. PICK T \in SUBSET Jobs :
        T = {j \in Jobs : \E s \in Slots : Owns(s, j) /\ s \in S}
  OBVIOUS
<1>2. /\ held' = [s \in Slots |-> IF s \in S THEN NoJob ELSE held[s]]
      /\ token' = [s \in Slots |-> IF s \in S THEN 0 ELSE token[s]]
  BY DEF KillSlots
<1>3. \A j \in Jobs, s \in Slots : Owns(s, j)' <=> Owns(s, j) /\ s \notin S
  BY <1>2, ConstantsAssumption DEF Owns
<1>4. \A j \in T : OwnerOf(j)' = NoJob
  <2> SUFFICES ASSUME NEW j \in T PROVE OwnerOf(j)' = NoJob
    OBVIOUS
  <2>1. Owners(j)' = {}
    <3>1. PICK s \in S : Owns(s, j)
      BY <1>1
    <3>2. \A r \in Slots : Owns(r, j) => r = s
      BY <1>1, <3>1, ConstantsAssumption DEF Owns, TokensDistinct
    <3> QED BY <1>1, <1>3, <3>2 DEF Owners
  <2>2. TheOwner({}) = NoJob
    BY DEF TheOwner
  <2> QED BY <2>1, <2>2 DEF OwnerOf, TheOwner
<1>5. \A j \in Jobs \ T : Owners(j)' = Owners(j)
  BY <1>1, <1>3 DEF Owners
<1>6. \A j \in Jobs \ T : OwnerOf(j)' = OwnerOf(j)
  BY <1>5, SameOwner
<1>7. Owner' = [j \in Jobs |-> IF j \in T THEN NoJob ELSE Owner[j]]
  BY <1>4, <1>6 DEF Owner
<1>8. Status' = Status /\ Finished' = Finished
  BY DEF Status, Finished
<1> QED BY <1>7, <1>8 DEF Lease!Orphan, Status, Owner, Finished

\* A job that is put into the table, or back, was not owned and is not.
LEMMA PendingUnowned ==
    ASSUME IInv, NEW T \in SUBSET Jobs, NEW was \in {"absent", "dead"},
           \A j \in T : state[j] = was,
           state' = [j \in Jobs |-> IF j \in T THEN "pending" ELSE state[j]],
           UNCHANGED <<epoch, done, held, token>>
    PROVE  /\ \A j \in T : Status[j] = was
           /\ Status' = [j \in Jobs |-> IF j \in T THEN "pending" ELSE Status[j]]
           /\ UNCHANGED <<Owner, Finished>>
<1> USE DEF IInv, TypeOK
<1>1. \A j \in Jobs : Owners(j)' = Owners(j)
  BY DEF Owners, Owns
<1>2. \A j \in Jobs : OwnerOf(j)' = OwnerOf(j)
  BY <1>1, SameOwner
<1> QED BY <1>2 DEF Status, Owner, Finished

\* An enqueue submits what is absent.
LEMMA EnqueueSubmits ==
    ASSUME IInv, NEW S \in SUBSET Jobs, NEW later \in SUBSET S, Enqueue(S, later)
    PROVE  \E T \in SUBSET Jobs : Lease!Submit(T)
<1>1. PICK T \in SUBSET Jobs : T = {j \in S : state[j] = "absent"}
  OBVIOUS
<1>2. /\ state' = [j \in Jobs |-> IF j \in T THEN "pending" ELSE state[j]]
      /\ UNCHANGED <<epoch, done, held, token>> /\ \A j \in T : state[j] = "absent"
  BY <1>1 DEF Enqueue, slots
<1>3. /\ \A j \in T : Status[j] = "absent"
      /\ Status' = [j \in Jobs |-> IF j \in T THEN "pending" ELSE Status[j]]
      /\ UNCHANGED <<Owner, Finished>>
  BY <1>2, PendingUnowned
<1> QED BY <1>3 DEF Lease!Submit, Status, Owner, Finished

\* A requeue_dead revives what it has picked.
LEMMA RequeueRevives ==
    ASSUME IInv, PickedAreDead, NEW o \in Operators, RequeueUpdate(o)
    PROVE  \E T \in SUBSET Jobs : Lease!Revive(T)
<1>1. PICK T \in SUBSET Jobs : T = picked[o]
  BY DEF IInv, TypeOK
<1>2. /\ state' = [j \in Jobs |-> IF j \in T THEN "pending" ELSE state[j]]
      /\ UNCHANGED <<epoch, done, held, token>> /\ \A j \in T : state[j] = "dead"
  BY <1>1 DEF RequeueUpdate, PickedAreDead, slots
<1>3. /\ \A j \in T : Status[j] = "dead"
      /\ Status' = [j \in Jobs |-> IF j \in T THEN "pending" ELSE Status[j]]
      /\ UNCHANGED <<Owner, Finished>>
  BY <1>2, PendingUnowned
<1> QED BY <1>3 DEF Lease!Revive, Status, Owner, Finished

\* Every step of the queue is a step of the abstract specification, or not seen.
LEMMA StepImplements ==
    ASSUME IInv, DoneGranted, PickedAreDead, [Next]_vars
    PROVE  [Lease!Next]_(Lease!leaseVars)
<1>1. CASE UNCHANGED <<state, epoch, done, held, token>>
  BY <1>1, Unseen
<1>2. ASSUME NEW s \in Slots, NEW j \in Jobs, Claim(s, j) PROVE [Lease!Next]_(Lease!leaseVars)
  BY <1>2, NextIInv, ClaimGrants DEF Lease!Next
<1>3. ASSUME NEW s \in Slots, HandlerReturns(s) PROVE [Lease!Next]_(Lease!leaseVars)
  BY <1>3, ReturnFinishes DEF Lease!Next
<1>4. ASSUME NEW s \in Slots, Ack(s) PROVE [Lease!Next]_(Lease!leaseVars)
  BY <1>4, AckCompletes DEF Lease!Next
<1>5. ASSUME NEW s \in Slots, Nack(s) PROVE [Lease!Next]_(Lease!leaseVars)
  BY <1>5, NackGivesUp DEF Lease!Next
<1>6. ASSUME NEW s \in Slots, Reap(s) PROVE [Lease!Next]_(Lease!leaseVars)
  BY <1>6, ReapBuries DEF Lease!Next
<1>7. ASSUME NEW p \in Procs, Crash(p) \/ AbortGroup(p) PROVE [Lease!Next]_(Lease!leaseVars)
  <2>1. PICK S \in SUBSET Slots, how \in Ended : KillSlots(S, how)
    BY <1>7, Killing DEF SlotsOf
  <2>2. \E T \in SUBSET Jobs : Lease!Orphan(T)
    BY <1>7, <2>1, Killing, KillOrphans DEF table
  <2> QED BY <2>2 DEF Lease!Next
<1>8. ASSUME NEW S \in SUBSET Jobs, NEW later \in SUBSET S, Enqueue(S, later)
      PROVE  [Lease!Next]_(Lease!leaseVars)
  BY <1>8, EnqueueSubmits DEF Lease!Next
<1>9. ASSUME NEW o \in Operators, RequeueUpdate(o) PROVE [Lease!Next]_(Lease!leaseVars)
  BY <1>9, RequeueRevives DEF Lease!Next
<1>10. ASSUME NEW s \in Slots, \/ ClaimNothing(s) \/ HandlerRaises(s) \/ LeaveLoop(s)
                               \/ BeatEnds(s) \/ Heartbeat(s) \/ HeartbeatErrors(s)
       PROVE  UNCHANGED <<state, epoch, done, held, token>>
  BY <1>10 DEF ClaimNothing, HandlerRaises, LeaveLoop, BeatEnds, Heartbeat, HeartbeatErrors, table
<1>11. ASSUME \/ \E j \in Jobs : Lapse(j)
              \/ \E p \in Procs : Start(p) \/ Stop(p)
              \/ \E o \in Operators : RequeueSelect(o)
              \/ UNCHANGED vars
       PROVE  UNCHANGED <<state, epoch, done, held, token>>
  BY <1>11 DEF Lapse, Start, Stop, RequeueSelect, table, slots, vars
<1> QED
  BY <1>1, <1>2, <1>3, <1>4, <1>5, <1>6, <1>7, <1>8, <1>9, <1>10, <1>11 DEF Next, SlotStep

\* While one operator at a time requeues, the queue implements the exclusive
\* lease: nobody but the present owner settles a job, and a success is the end of
\* work that the present owner finished, whatever zombies and crashes there are.
THEOREM QueueIsALease ==
    ASSUME OneOperator
    PROVE  Spec => ImplementsLease
<1>1. Init => PickedAreDead /\ DoneGranted
  BY DEF Init, PickedAreDead, DoneGranted
<1>2. IInv /\ PickedAreDead /\ DoneGranted /\ [Next]_vars => PickedAreDead' /\ DoneGranted'
  BY PickedStep, DoneGrantedStep
<1>3. IInv /\ PickedAreDead /\ DoneGranted /\ [Next]_vars => [Lease!Next]_(Lease!leaseVars)
  BY StepImplements
<1> QED BY <1>1, <1>2, <1>3, Inductive, InitImplements, PTL DEF Spec, ImplementsLease, Lease!Spec

-----------------------------------------------------------------------------
(* Ingestion.                                                              *)

Kinds == {"text", "reserved", "gone"}
Interval == [section : Sections, from : Jobs, kind : Kinds, to : Nat \union {Open}]
Row == [section : Sections, from : Jobs, to : Nat \union {Open}, kind : Kinds,
        lease : Jobs \X Nat]
Txn == [open : BOOLEAN, at : Nat \ {0}, new : SUBSET Row, whole : SUBSET Row]

CorpusTypeOK ==
    /\ history \in Histories
    /\ payload \in [Jobs -> SUBSET Interval]
    /\ rows \subseteq Row
    /\ txn \in [Slots -> Txn]

\* A job that was submitted carries the intervals of its date, as some plan that
\* reached its date knew them.
Planned ==
    \A j \in Jobs : state[j] # "absent" =>
        \E known \in Horizons : j <= known /\ payload[j] = Covering(j, known)

\* A slot holds a job that was submitted.
HeldSubmitted == \A s \in Slots : held[s] # NoJob => state[held[s]] # "absent"

\* A transaction is open only while its handler runs.
TxnTied == \A s \in Slots : IF txn[s].open THEN pc[s] = "run" ELSE txn[s] = NoTxn

\* The row r stands for the interval v.
For(r, v) == r.section = v.section /\ r.from = v.from /\ r.to = v.to /\ r.kind = v.kind

\* What a transaction has written are versions of its job, of the sections up to
\* the one it is at; of that one the chunks may be missing.
TxnPlanned ==
    \A s \in Slots :
        /\ txn[s].whole \subseteq txn[s].new
        /\ \A r \in txn[s].new :
              /\ \E v \in payload[held[s]] : r = Stamp(s, v) /\ v.kind # "gone"
              /\ \E i \in 1..Len(SectionOrder) : /\ i <= txn[s].at /\ SectionOrder[i] = r.section
                                                 /\ r \in txn[s].whole \/ i = txn[s].at

\* Committed rows are versions of jobs that were submitted.
RowsPlanned ==
    \A r \in rows : \E j \in Jobs : state[j] # "absent" /\ \E v \in payload[j] : For(r, v)

\* What the unique index and the exclusion constraint do not let in together.
Conflict(r, q) == SameKey(r, q) \/ Overlap(r, q)

\* No uncommitted row is in conflict with another's, nor with a committed one.
NoConflicts ==
    /\ \A s, t \in Slots : \A r \in txn[s].new, q \in txn[t].new : s # t => ~Conflict(r, q)
    /\ \A s \in Slots : \A r \in txn[s].new, q \in rows : ~Conflict(r, q)

\* The versions of the sections that a transaction has left behind are stored, by
\* itself or before.
Passed ==
    \A s \in Slots : txn[s].open =>
        \A i \in 1..Len(SectionOrder), v \in payload[held[s]] :
            i < txn[s].at /\ v.section = SectionOrder[i] /\ v.kind # "gone" =>
                \E r \in rows \union txn[s].whole : SameKey(r, v)

\* All versions of job j that have a text or a number are stored.
Ingested(j) == \A v \in payload[j] : v.kind # "gone" => \E r \in rows : SameKey(r, v)

\* Whoever has done a job has stored its versions.
DoneIngested ==
    \A j \in Jobs : done[j] # {} => state[j] # "absent" /\ Ingested(j)

CorpusInv ==
    /\ CorpusTypeOK
    /\ Planned /\ HeldSubmitted
    /\ TxnTied /\ TxnPlanned
    /\ RowsPlanned /\ NoConflicts /\ NoDuplicates
    /\ Passed /\ DoneIngested
    /\ rows = whole

-----------------------------------------------------------------------------
(* Timelines.                                                              *)

\* A set of dates that is not empty has a first one.
LEMMA MinDate ==
    ASSUME NEW S, S \subseteq Nat, S # {}
    PROVE  Min(S) \in S /\ \A d \in S : Min(S) <= d
<1>1. PICK m \in S : \A d \in S : ~(<<d, m>> \in OpToRel(<, Nat))
  BY NatLessThanWellFounded, WFMin
<1>2. \A d \in S : m <= d
  <2> SUFFICES ASSUME NEW d \in S, d < m PROVE FALSE
    OBVIOUS
  <2>1. <<d, m>> \in OpToRel(<, Nat)
    BY DEF OpToRel
  <2> QED BY <1>1, <2>1
<1> QED BY <1>2 DEF Min

\* The assumptions, of the history at hand.
LEMMA Assumed ==
    ASSUME history \in Histories, NEW sec \in Sections
    PROVE  /\ history[sec] \subseteq [from : Jobs, kind : Kinds]
           /\ \A rec \in history[sec] : rec.from \in Jobs /\ rec.from \in Nat /\ rec.kind \in Kinds
           /\ \A r, q \in history[sec] : r.from = q.from => r = q
<1>1. history[sec] \in SUBSET [from : Jobs, kind : Kinds] /\ Jobs \subseteq Nat
  BY IngestAssumption DEF Kinds
<1>2. \A r, q \in history[sec] : r.from = q.from => r = q
  BY IngestAssumption
<1> QED BY <1>1, <1>2

\* The end of a version is the first date of the section after its own, as far
\* as the history was known.
LEMMA TimelineEnds ==
    ASSUME history \in Histories, NEW sec \in Sections, NEW known \in Horizons,
           NEW iv \in Timeline(sec, known)
    PROVE  /\ iv \in Interval /\ iv.section = sec
           /\ \E rec \in history[sec] : rec.from = iv.from /\ rec.kind = iv.kind
           /\ iv.from <= known
           /\ iv.to # Open => /\ iv.to > iv.from
                              /\ \E rec \in history[sec] : rec.from = iv.to
           /\ \A rec \in history[sec] :
                 rec.from <= known /\ rec.from > iv.from => iv.to # Open /\ iv.to <= rec.from
<1>1. /\ history[sec] \in SUBSET [from : Jobs, kind : Kinds]
      /\ \A known2 \in Horizons : known2 \in Nat
      /\ Jobs \subseteq Nat /\ Open \notin Nat
  BY IngestAssumption DEF Kinds
<1> DEFINE pub == Published(sec, known)
           later(d) == {rec.from : rec \in {r \in pub : r.from > d}}
<1>2. pub = {rec \in history[sec] : rec.from <= known}
  BY DEF Published
<1>3. PICK rec \in pub :
        iv = [section |-> sec, from |-> rec.from, kind |-> rec.kind,
              to |-> IF later(rec.from) = {} THEN Open ELSE Min(later(rec.from))]
  BY DEF Timeline
<1> DEFINE L == later(rec.from)
<1>4. L \subseteq Nat /\ \A d \in L : \E r \in history[sec] : d = r.from /\ r.from <= known /\ r.from > rec.from
  BY <1>1, <1>2
<1>5. \A r \in history[sec] : r.from <= known /\ r.from > rec.from => r.from \in L
  BY <1>2
<1>6. /\ rec \in history[sec] /\ rec.from \in Jobs /\ rec.from \in Nat /\ rec.from <= known
      /\ rec.kind \in Kinds
  BY <1>1, <1>2
<1>7. /\ iv.section = sec /\ iv.from = rec.from /\ iv.kind = rec.kind
      /\ iv = [section |-> sec, from |-> rec.from, kind |-> rec.kind, to |-> iv.to]
      /\ iv.to = IF L = {} THEN Open ELSE Min(L)
  BY <1>3
<1> HIDE DEF L, pub, later
<1>8. CASE L = {}
  BY <1>1, <1>5, <1>6, <1>7, <1>8 DEF Interval
<1>9. CASE L # {}
  <2>1. Min(L) \in L /\ \A d \in L : Min(L) <= d
    BY <1>4, <1>9, MinDate
  <2>2. iv.to = Min(L) /\ iv.to \in Nat /\ iv.to # Open
    BY <1>1, <1>4, <1>7, <1>9, <2>1
  <2>3. iv.to > iv.from /\ \E r \in history[sec] : r.from = iv.to
    BY <1>4, <1>7, <2>1, <2>2
  <2>4. \A r \in history[sec] : r.from <= known /\ r.from > iv.from => iv.to <= r.from
    BY <1>5, <1>7, <2>1, <2>2
  <2> QED BY <1>6, <1>7, <2>2, <2>3, <2>4 DEF Interval
<1> QED BY <1>8, <1>9

\* What covers a date, as a plan that reached the date knew it, is for every
\* section at most one interval, and no version of the section lies between its
\* start and the date.
LEMMA CoveringIsOne ==
    ASSUME history \in Histories, NEW day \in Jobs, NEW known \in Horizons
    PROVE  /\ Covering(day, known) \subseteq Interval
           /\ \A v \in Covering(day, known) :
                 /\ v.section \in Sections /\ v \in Timeline(v.section, known) /\ InForce(v, day)
                 /\ \A rec \in history[v.section] :
                       rec.from <= known /\ rec.from <= day => rec.from <= v.from
           /\ \A v, w \in Covering(day, known) : v.section = w.section => v = w
<1>1. ASSUME NEW v \in Covering(day, known)
      PROVE  /\ v \in Interval /\ v.section \in Sections /\ v \in Timeline(v.section, known)
             /\ InForce(v, day)
             /\ \A rec \in history[v.section] :
                   rec.from <= known /\ rec.from <= day => rec.from <= v.from
  <2>1. PICK sec \in Sections : v \in Timeline(sec, known) /\ InForce(v, day)
    BY DEF Covering
  <2>2. v \in Interval /\ v.section = sec
    BY <2>1, TimelineEnds
  <2>3. (\A rec \in history[sec] : rec.from \in Nat) /\ Jobs \subseteq Nat
    BY Assumed, IngestAssumption
  <2>4. ASSUME NEW rec \in history[sec], rec.from <= known, rec.from <= day, ~(rec.from <= v.from)
        PROVE  FALSE
    <3>1. rec.from > v.from /\ v.from \in Nat /\ day \in Nat
      <4>1. v.from \in Jobs /\ rec.from \in Nat /\ day \in Jobs
        BY <2>2, <2>3 DEF Interval
      <4>2. v.from \in Nat /\ day \in Nat
        BY <2>3, <4>1
      <4> QED BY <2>4, <4>1, <4>2
    <3>2. v.to # Open /\ v.to <= rec.from
      BY <2>1, <2>4, <3>1, TimelineEnds
    <3>3. day < v.to /\ v.to \in Nat
      BY <2>1, <2>2, <3>2 DEF InForce, EndsAfter, Interval
    <3> QED BY <2>3, <2>4, <3>1, <3>2, <3>3
  <2> QED BY <2>1, <2>2, <2>4
<1>2. ASSUME NEW v \in Covering(day, known), NEW w \in Covering(day, known), v.section = w.section
      PROVE  v = w
  <2> DEFINE sec == v.section
  <2>1. /\ sec \in Sections /\ v \in Timeline(sec, known) /\ w \in Timeline(sec, known)
        /\ v \in Interval /\ w \in Interval
        /\ v.from <= day /\ w.from <= day
    BY <1>1, <1>2 DEF InForce
  <2>2. PICK r \in history[sec] : r.from = v.from /\ r.kind = v.kind /\ r.from <= known
    BY <2>1, TimelineEnds
  <2>3. PICK q \in history[sec] : q.from = w.from /\ q.kind = w.kind /\ q.from <= known
    BY <2>1, TimelineEnds
  <2>4. v.from = w.from
    <3>1. q.from <= v.from /\ r.from <= w.from
      BY <1>1, <1>2, <2>1, <2>2, <2>3
    <3>2. r.from \in Nat /\ q.from \in Nat
      BY <2>1, <2>2, <2>3, Assumed
    <3> QED BY <2>2, <2>3, <3>1, <3>2
  <2>5. v.kind = w.kind
    BY <2>1, <2>2, <2>3, <2>4, Assumed
  <2>6. v.to = w.to
    <3> DEFINE end(d) == LET later == {rec.from : rec \in {x \in Published(sec, known) : x.from > d}}
                         IN  IF later = {} THEN Open ELSE Min(later)
    <3>1. ASSUME NEW iv \in Timeline(sec, known) PROVE iv.to = end(iv.from)
      <4>1. PICK rec \in Published(sec, known) :
              iv = [section |-> sec, from |-> rec.from, kind |-> rec.kind, to |-> end(rec.from)]
        BY DEF Timeline
      <4> HIDE DEF end
      <4> QED BY <4>1
    <3> HIDE DEF end
    <3> QED BY <2>1, <2>4, <3>1
  <2> QED BY <1>2, <2>1, <2>4, <2>5, <2>6 DEF Interval
<1> QED BY <1>1, <1>2

-----------------------------------------------------------------------------
(* Ingestion is a queue.                                                   *)

HistoryOK == history \in Histories

\* The history is not changed, only published.
LEMMA HistoryKept == [IngestNext]_ingestVars => history' = history
BY DEF IngestNext, PlanIngest, HandlerStep, Begin, SkipSection, InsertVersion, InsertChunks, Commit,
       LoopStep, Fail, ingestVars, corpusVars

\* What is planned are dates of jobs, not after the day that the history is known to.
LEMMA TargetsAreJobs ==
    ASSUME HistoryOK, NEW known \in Horizons,
           NEW targets \in {Dates(known)} \union GivenDates(known)
    PROVE  targets \in SUBSET Jobs /\ \A j \in targets : j <= known
<1>1. CASE targets \in GivenDates(known)
  BY <1>1 DEF GivenDates
<1>2. CASE targets = Dates(known)
  <2> SUFFICES ASSUME NEW j \in targets PROVE j \in Jobs /\ j <= known
    OBVIOUS
  <2>1. PICK sec \in Sections : \E rec \in Published(sec, known) : j = rec.from
    BY <1>2 DEF Dates
  <2> QED BY <2>1, Assumed DEF HistoryOK, Published
<1> QED BY <1>1, <1>2

\* Every step of ingestion is a step of the queue, or not seen by it.
LEMMA IngestStepsQueue == HistoryOK /\ [IngestNext]_ingestVars => [Next]_vars
<1> SUFFICES ASSUME HistoryOK, [IngestNext]_ingestVars PROVE [Next]_vars
  OBVIOUS
<1>1. ASSUME NEW known \in Horizons, NEW targets \in {Dates(known)} \union GivenDates(known),
             PlanIngest(known, targets)
      PROVE  Next
  <2>1. targets \in SUBSET Jobs /\ {} \in SUBSET targets
    BY TargetsAreJobs
  <2>2. Enqueue(targets, {})
    BY <1>1 DEF PlanIngest
  <2>3. \E S \in SUBSET Jobs : \E later \in SUBSET S : Enqueue(S, later)
    BY <2>1, <2>2 DEF Enqueue
  <2> QED BY <2>3 DEF Next
<1>2. ASSUME NEW s \in Slots, HandlerStep(s) PROVE Next \/ UNCHANGED vars
  BY <1>2 DEF HandlerStep, Begin, SkipSection, InsertVersion, InsertChunks, Commit, Next, SlotStep
<1>3. ASSUME NEW s \in Slots, LoopStep(s) \/ Fail(s) PROVE Next
  BY <1>3 DEF LoopStep, Fail, Next, SlotStep
<1>4. ASSUME \/ \E s \in Slots : (Heartbeat(s) \/ HeartbeatErrors(s)) /\ UNCHANGED corpusVars
             \/ \E j \in Jobs : Lapse(j) /\ UNCHANGED corpusVars
             \/ \E p \in Procs : (Start(p) \/ Stop(p)) /\ UNCHANGED corpusVars
             \/ \E p \in Procs : (Crash(p) \/ AbortGroup(p)) /\ Rollback(SlotsOf(p))
                                                             /\ UNCHANGED <<history, payload>>
      PROVE  Next
  BY <1>4 DEF Next
<1>5. CASE UNCHANGED ingestVars
  BY <1>5 DEF ingestVars
<1> QED BY <1>1, <1>2, <1>3, <1>4, <1>5 DEF IngestNext

\* The jobs of ingestion are jobs of the durable queue: whatever the queue
\* guarantees, it guarantees of them, with their transactions and handlers.
THEOREM IngestionIsAQueue == IngestSpec => Spec
<1>1. IngestInit => Init /\ HistoryOK
  BY DEF IngestInit, HistoryOK
<1>2. HistoryOK /\ [IngestNext]_ingestVars => HistoryOK'
  BY HistoryKept DEF HistoryOK
<1> QED BY <1>1, <1>2, IngestStepsQueue, PTL DEF IngestSpec, Spec

\* A job is never forgotten, and a slot claims only what was submitted.
LEMMA Submitted ==
    ASSUME TypeOK, HeldSubmitted, [Next]_vars
    PROVE  /\ HeldSubmitted'
           /\ \A j \in Jobs : state[j] # "absent" => state'[j] # "absent"
<1> USE ConstantsAssumption DEF TypeOK, HeldSubmitted
<1>1. ASSUME NEW s \in Slots, NEW j \in Jobs, Claim(s, j)
      PROVE  HeldSubmitted' /\ \A k \in Jobs : state[k] # "absent" => state'[k] # "absent"
  BY <1>1 DEF Claim, Claimable
<1>2. CASE /\ \A k \in Jobs : state[k] # "absent" => state'[k] # "absent"
           /\ \A s \in Slots : held'[s] = held[s] \/ held'[s] = NoJob
  BY <1>2
<1>3. ASSUME NEW s \in Slots, \/ Reap(s) \/ ClaimNothing(s) \/ HandlerReturns(s) \/ HandlerRaises(s)
                              \/ LeaveLoop(s) \/ BeatEnds(s) \/ Heartbeat(s) \/ HeartbeatErrors(s)
      PROVE  HeldSubmitted' /\ \A k \in Jobs : state[k] # "absent" => state'[k] # "absent"
  BY <1>3, <1>2 DEF Reap, ClaimNothing, HandlerReturns, HandlerRaises, LeaveLoop, BeatEnds,
                    Heartbeat, HeartbeatErrors, table
<1>4. ASSUME NEW s \in Slots, Ack(s) \/ Nack(s)
      PROVE  HeldSubmitted' /\ \A k \in Jobs : state[k] # "absent" => state'[k] # "absent"
  <2>1. \A r \in Slots : held'[r] = held[r] \/ held'[r] = NoJob
    BY <1>4 DEF Ack, Nack, EndExecute
  <2>2. \A k \in Jobs : state[k] # "absent" => state'[k] # "absent"
    BY <1>4 DEF Ack, Nack, Outcome
  <2> QED BY <2>1, <2>2, <1>2
<1>5. ASSUME NEW p \in Procs, Start(p) \/ Crash(p) \/ AbortGroup(p) \/ Stop(p)
      PROVE  HeldSubmitted' /\ \A k \in Jobs : state[k] # "absent" => state'[k] # "absent"
  <2>1. CASE Crash(p) \/ AbortGroup(p)
    BY <2>1, <1>2, Killing DEF KillSlots, table
  <2> QED BY <1>5, <1>2, <2>1 DEF Start, Stop, table, slots
<1>6. ASSUME NEW S \in SUBSET Jobs, NEW later \in SUBSET S, Enqueue(S, later)
      PROVE  HeldSubmitted' /\ \A k \in Jobs : state[k] # "absent" => state'[k] # "absent"
  BY <1>6, <1>2 DEF Enqueue, slots
<1>7. ASSUME NEW o \in Operators, RequeueSelect(o) \/ RequeueUpdate(o)
      PROVE  HeldSubmitted' /\ \A k \in Jobs : state[k] # "absent" => state'[k] # "absent"
  <2>1. CASE RequeueSelect(o)
    BY <2>1, <1>2 DEF RequeueSelect, table, slots
  <2>2. CASE RequeueUpdate(o)
    <3>1. held' = held /\ state' = [j \in Jobs |-> IF j \in picked[o] THEN "pending" ELSE state[j]]
      BY <2>2 DEF RequeueUpdate, slots
    <3> QED BY <3>1, <1>2
  <2> QED BY <1>7, <2>1, <2>2
<1>8. CASE (\E j \in Jobs : Lapse(j)) \/ UNCHANGED vars
  BY <1>8, <1>2 DEF Lapse, vars, table, slots
<1> QED BY <1>1, <1>3, <1>4, <1>5, <1>6, <1>7, <1>8 DEF Next, SlotStep

-----------------------------------------------------------------------------
(* Intervals, rows and their conflicts.                                    *)

\* Two rows conflict whichever comes first.
LEMMA ConflictSymmetric ==
    ASSUME NEW r, NEW q, Conflict(r, q)
    PROVE  Conflict(q, r)
BY DEF Conflict, SameKey, Overlap

\* What conflicts is decided by the section and the interval.
LEMMA ConflictOfData ==
    ASSUME NEW r, NEW v, NEW q, For(r, v)
    PROVE  (Conflict(r, q) <=> Conflict(v, q)) /\ (Conflict(q, r) <=> Conflict(q, v))
BY DEF Conflict, SameKey, Overlap, EndsAfter, For

\* Two versions of a section that a job was given are one.
LEMMA OnePerSection ==
    ASSUME CorpusInv, NEW j \in Jobs, state[j] # "absent",
           NEW v \in payload[j], NEW w \in payload[j], v.section = w.section
    PROVE  v = w
<1>1. PICK known \in Horizons : payload[j] = Covering(j, known)
  BY DEF CorpusInv, Planned
<1> QED BY <1>1, CoveringIsOne DEF CorpusInv, CorpusTypeOK

\* A covering is of the history only.
LEMMA SameCovering ==
    ASSUME history' = history, NEW day, NEW known
    PROVE  Covering(day, known)' = Covering(day, known)
BY DEF Covering, Timeline, Published

\* A slot in a transaction runs the handler of a job that was submitted, with
\* intervals that are well formed.
LEMMA InTxnHolds ==
    ASSUME TypeOK, CorpusInv, NEW s \in Slots, txn[s].open \/ txn[s].new # {}
    PROVE  /\ txn[s].open /\ pc[s] = "run"
           /\ held[s] \in Jobs /\ token[s] \in Nat /\ state[held[s]] # "absent"
           /\ payload[held[s]] \in SUBSET Interval
<1>1. txn[s].open /\ pc[s] = "run"
  BY DEF CorpusInv, TxnTied, NoTxn
<1>2. held[s] \in Jobs /\ token[s] \in Nat
  BY <1>1, BusyHolds DEF Busy
<1>3. held[s] # NoJob
  BY <1>2, ConstantsAssumption
<1> QED BY <1>1, <1>2, <1>3 DEF CorpusInv, HeldSubmitted, CorpusTypeOK

\* A row of a transaction stands for the version of its section that the job
\* was given.
LEMMA RowOfSection ==
    ASSUME TypeOK, CorpusInv, NEW s \in Slots, NEW r \in txn[s].new,
           NEW v \in payload[held[s]], v.section = r.section
    PROVE  r = Stamp(s, v) /\ For(r, v) /\ v.kind # "gone"
<1>1. /\ held[s] \in Jobs /\ state[held[s]] # "absent"
  BY InTxnHolds
<1>2. PICK w \in payload[held[s]] : r = Stamp(s, w) /\ w.kind # "gone"
  BY DEF CorpusInv, TxnPlanned
<1>3. For(r, w)
  BY <1>2 DEF Stamp, For
<1>4. v = w
  BY <1>1, <1>2, <1>3, OnePerSection DEF For
<1> QED BY <1>2, <1>3, <1>4

-----------------------------------------------------------------------------
(* The steps that leave a transaction as it is, or end it without effect.   *)

\* Where transactions are only rolled back, and the others go on under their
\* handlers, everything else stays.
LEMMA RollbackKeeps ==
    ASSUME TypeOK, CorpusInv, HeldSubmitted', NEW S \in SUBSET Slots,
           txn' = [s \in Slots |-> IF s \in S THEN NoTxn ELSE txn[s]],
           UNCHANGED <<history, payload, rows, whole, done>>,
           \A j \in Jobs : state'[j] = "absent" <=> state[j] = "absent",
           \A s \in Slots \ S : txn[s].open =>
               pc'[s] = "run" /\ held'[s] = held[s] /\ token'[s] = token[s]
    PROVE  CorpusInv'
<1>1. CorpusTypeOK'
  <2>1. NoTxn \in Txn
    BY DEF NoTxn, Txn
  <2> QED BY <2>1 DEF CorpusInv, CorpusTypeOK
<1>2. Planned'
  BY SameCovering DEF CorpusInv, Planned
<1>3. TxnTied'
  BY DEF CorpusInv, TxnTied, NoTxn
<1>4. ASSUME NEW s \in Slots, txn'[s].open \/ txn'[s].new # {} \/ txn'[s].whole # {}
      PROVE  /\ txn'[s] = txn[s] /\ txn[s].open
             /\ held'[s] = held[s] /\ token'[s] = token[s]
  BY <1>4 DEF CorpusInv, TxnTied, NoTxn
<1>5. TxnPlanned'
  <2> SUFFICES ASSUME NEW s \in Slots
               PROVE  /\ txn'[s].whole \subseteq txn'[s].new
                      /\ \A r \in txn'[s].new :
                            /\ \E v \in payload'[held'[s]] : r = Stamp(s, v)' /\ v.kind # "gone"
                            /\ \E i \in 1..Len(SectionOrder) :
                                  /\ i <= txn'[s].at /\ SectionOrder[i] = r.section
                                  /\ r \in txn'[s].whole \/ i = txn'[s].at
    BY DEF TxnPlanned
  <2>1. CASE txn'[s].new = {} /\ txn'[s].whole = {}
    BY <2>1
  <2>2. CASE txn'[s].new # {} \/ txn'[s].whole # {}
    BY <1>4, <2>2 DEF CorpusInv, TxnPlanned, Stamp
  <2> QED BY <2>1, <2>2
<1>6. RowsPlanned' /\ NoDuplicates' /\ rows' = whole'
  BY DEF CorpusInv, RowsPlanned, NoDuplicates
<1>7. NoConflicts'
  <2>1. \A s \in Slots : txn'[s].new \subseteq txn[s].new
    BY <1>4
  <2> QED BY <2>1 DEF CorpusInv, NoConflicts
<1>8. Passed'
  BY <1>4 DEF CorpusInv, Passed
<1>9. DoneIngested'
  BY DEF CorpusInv, DoneIngested, Ingested
<1> QED BY <1>1, <1>2, <1>3, <1>5, <1>6, <1>7, <1>8, <1>9 DEF CorpusInv

\* Where no transaction changes and every handler runs on, everything stays.
LEMMA QuietKeeps ==
    ASSUME TypeOK, CorpusInv, HeldSubmitted',
           UNCHANGED <<history, payload, rows, whole, txn, done>>,
           \A j \in Jobs : state'[j] = "absent" <=> state[j] = "absent",
           \A s \in Slots : pc[s] = "run" =>
               pc'[s] = "run" /\ held'[s] = held[s] /\ token'[s] = token[s]
    PROVE  CorpusInv'
<1>1. PICK S \in SUBSET Slots : S = {}
  OBVIOUS
<1>2. txn' = [s \in Slots |-> IF s \in S THEN NoTxn ELSE txn[s]]
  <2>1. txn = [s \in Slots |-> txn[s]]
    BY DEF CorpusInv, CorpusTypeOK
  <2> QED BY <1>1, <2>1
<1>3. \A s \in Slots : txn[s].open => pc[s] = "run"
  BY DEF CorpusInv, TxnTied
<1> QED BY <1>2, <1>3, RollbackKeeps

\* A plan gives their intervals to jobs that nobody holds yet.
LEMMA PlanKeeps ==
    ASSUME TypeOK, CorpusInv, HeldSubmitted', NEW known \in Horizons,
           NEW targets \in {Dates(known)} \union GivenDates(known), PlanIngest(known, targets)
    PROVE  CorpusInv'
<1>1. targets \in SUBSET Jobs /\ \A j \in targets : j <= known
  BY TargetsAreJobs DEF CorpusInv, CorpusTypeOK, HistoryOK
<1>2. PICK new \in SUBSET targets : new = {d \in targets : state[d] = "absent"}
  OBVIOUS
<1>3. /\ state' = [j \in Jobs |-> IF j \in new THEN "pending" ELSE state[j]]
      /\ payload' = [j \in Jobs |-> IF j \in new THEN Covering(j, known) ELSE payload[j]]
      /\ UNCHANGED <<history, rows, whole, txn, done, held, token, pc>>
  BY <1>2 DEF PlanIngest, Enqueue, slots
<1>4. \A j \in Jobs : state[j] # "absent" => state'[j] # "absent" /\ payload'[j] = payload[j]
  BY <1>2, <1>3
<1>5. CorpusTypeOK'
  <2>1. \A j \in Jobs : Covering(j, known) \in SUBSET Interval
    BY CoveringIsOne DEF CorpusInv, CorpusTypeOK
  <2> QED BY <1>3, <2>1 DEF CorpusInv, CorpusTypeOK
<1>6. Planned'
  <2> SUFFICES ASSUME NEW j \in Jobs, state'[j] # "absent"
               PROVE  \E day \in Horizons : j <= day /\ payload'[j] = Covering(j, day)
    BY <1>3, SameCovering DEF Planned
  <2>1. CASE j \in new
    BY <1>1, <1>3, <2>1
  <2>2. CASE j \notin new
    BY <1>3, <2>2 DEF CorpusInv, Planned
  <2> QED BY <2>1, <2>2
<1>7. TxnTied' /\ NoConflicts' /\ NoDuplicates' /\ rows' = whole'
  BY <1>3 DEF CorpusInv, TxnTied, NoConflicts, NoDuplicates
<1>8. ASSUME NEW s \in Slots, txn[s].open \/ txn[s].new # {}
      PROVE  payload'[held[s]] = payload[held[s]]
  BY <1>4, <1>8, InTxnHolds
<1>9. TxnPlanned'
  <2> SUFFICES ASSUME NEW s \in Slots
               PROVE  /\ txn[s].whole \subseteq txn[s].new
                      /\ \A r \in txn[s].new :
                            /\ \E v \in payload'[held[s]] : r = Stamp(s, v)' /\ v.kind # "gone"
                            /\ \E i \in 1..Len(SectionOrder) :
                                  /\ i <= txn[s].at /\ SectionOrder[i] = r.section
                                  /\ r \in txn[s].whole \/ i = txn[s].at
    BY <1>3 DEF TxnPlanned
  <2>1. \A v : Stamp(s, v)' = Stamp(s, v)
    BY <1>3, Zenon DEF Stamp
  <2>2. txn[s].new # {} => payload'[held[s]] = payload[held[s]]
    BY <1>8
  <2> QED BY <2>1, <2>2 DEF CorpusInv, TxnPlanned
<1>10. RowsPlanned'
  <2> SUFFICES ASSUME NEW r \in rows
               PROVE  \E j \in Jobs : state'[j] # "absent" /\ \E v \in payload'[j] : For(r, v)
    BY <1>3 DEF RowsPlanned
  <2> QED BY <1>4 DEF CorpusInv, RowsPlanned
<1>11. Passed'
  BY <1>3, <1>8 DEF CorpusInv, Passed
<1>12. DoneIngested'
  BY <1>3, <1>4 DEF CorpusInv, DoneIngested, Ingested
<1> QED BY <1>5, <1>6, <1>7, <1>9, <1>10, <1>11, <1>12 DEF CorpusInv

-----------------------------------------------------------------------------
(* The steps of a handler before it commits.                               *)

\* They change the transaction of one slot and nothing else.
LEMMA TxnStep ==
    ASSUME TypeOK, CorpusInv, NEW s \in Slots, NEW t \in Txn,
           t.open, pc[s] = "run", txn' = [txn EXCEPT ![s] = t],
           UNCHANGED <<vars, history, payload, rows, whole>>,
           t.whole \subseteq t.new,
           \A r \in t.new :
               /\ \E v \in payload[held[s]] : r = Stamp(s, v) /\ v.kind # "gone"
               /\ \E i \in 1..Len(SectionOrder) : /\ i <= t.at /\ SectionOrder[i] = r.section
                                                  /\ r \in t.whole \/ i = t.at,
           \A r \in t.new \ txn[s].new :
               /\ \A u \in Slots \ {s} : \A q \in txn[u].new : ~Conflict(q, r)
               /\ \A q \in rows : ~Conflict(q, r),
           \A i \in 1..Len(SectionOrder), v \in payload[held[s]] :
               i < t.at /\ v.section = SectionOrder[i] /\ v.kind # "gone" =>
                   \E r \in rows \union t.whole : SameKey(r, v)
    PROVE  CorpusInv'
<1>1. UNCHANGED <<state, pc, held, token, done, history, payload, rows, whole>>
  BY DEF vars, table, slots
<1>2. /\ txn'[s] = t /\ \A u \in Slots \ {s} : txn'[u] = txn[u]
      /\ txn' \in [Slots -> Txn]
  BY DEF CorpusInv, CorpusTypeOK
<1>3. CorpusTypeOK' /\ HeldSubmitted' /\ NoDuplicates' /\ RowsPlanned' /\ rows' = whole'
  BY <1>1, <1>2 DEF CorpusInv, CorpusTypeOK, HeldSubmitted, NoDuplicates, RowsPlanned
<1>4. Planned'
  BY <1>1, SameCovering DEF CorpusInv, Planned
<1>5. TxnTied'
  BY <1>1, <1>2 DEF CorpusInv, TxnTied
<1>6. TxnPlanned'
  <2> SUFFICES ASSUME NEW u \in Slots
               PROVE  /\ txn'[u].whole \subseteq txn'[u].new
                      /\ \A r \in txn'[u].new :
                            /\ \E v \in payload[held[u]] : r = Stamp(u, v) /\ v.kind # "gone"
                            /\ \E i \in 1..Len(SectionOrder) :
                                  /\ i <= txn'[u].at /\ SectionOrder[i] = r.section
                                  /\ r \in txn'[u].whole \/ i = txn'[u].at
    BY <1>1 DEF TxnPlanned, Stamp
  <2>1. CASE u = s
    BY <1>2, <2>1
  <2>2. CASE u # s
    BY <1>2, <2>2 DEF CorpusInv, TxnPlanned
  <2> QED BY <2>1, <2>2
<1>7. NoConflicts'
  <2>1. ASSUME NEW u \in Slots, NEW w \in Slots, NEW r \in txn'[u].new, NEW q \in txn'[w].new,
               u # w, Conflict(r, q)
        PROVE  FALSE
    <3>1. CASE r \in txn[u].new /\ q \in txn[w].new
      BY <2>1, <3>1 DEF CorpusInv, NoConflicts
    <3>2. CASE q \notin txn[w].new
      <4>1. w = s /\ q \in t.new \ txn[s].new /\ r \in txn[u].new
        BY <1>2, <2>1, <3>2
      <4> QED BY <2>1, <4>1
    <3>3. CASE r \notin txn[u].new
      <4>1. u = s /\ r \in t.new \ txn[s].new /\ q \in txn[w].new
        BY <1>2, <2>1, <3>3
      <4> QED BY <2>1, <4>1, ConflictSymmetric
    <3> QED BY <3>1, <3>2, <3>3
  <2>2. ASSUME NEW u \in Slots, NEW r \in txn'[u].new, NEW q \in rows, Conflict(r, q)
        PROVE  FALSE
    <3>1. CASE r \in txn[u].new
      BY <2>2, <3>1 DEF CorpusInv, NoConflicts
    <3>2. CASE r \notin txn[u].new
      <4>1. u = s /\ r \in t.new \ txn[s].new
        BY <1>2, <2>2, <3>2
      <4> QED BY <2>2, <4>1, ConflictSymmetric
    <3> QED BY <3>1, <3>2
  <2> QED BY <1>1, <2>1, <2>2 DEF NoConflicts
<1>8. Passed'
  <2> SUFFICES ASSUME NEW u \in Slots, txn'[u].open, NEW i \in 1..Len(SectionOrder),
                      NEW v \in payload[held[u]],
                      i < txn'[u].at /\ v.section = SectionOrder[i] /\ v.kind # "gone"
               PROVE  \E r \in rows \union txn'[u].whole : SameKey(r, v)
    BY <1>1 DEF Passed
  <2>1. CASE u = s
    BY <1>2, <2>1
  <2>2. CASE u # s
    BY <1>2, <2>2 DEF CorpusInv, Passed
  <2> QED BY <2>1, <2>2
<1>9. DoneIngested'
  BY <1>1 DEF CorpusInv, DoneIngested, Ingested
<1> QED BY <1>3, <1>4, <1>5, <1>6, <1>7, <1>8, <1>9 DEF CorpusInv

\* A transaction begins empty.
LEMMA BeginKeeps ==
    ASSUME TypeOK, CorpusInv, NEW s \in Slots, Begin(s)
    PROVE  CorpusInv'
<1>1. PICK t \in Txn : t = [txn[s] EXCEPT !.open = TRUE]
  BY DEF CorpusInv, CorpusTypeOK, Txn
<1>2. txn[s] = NoTxn
  BY DEF Begin, CorpusInv, TxnTied
<1>3. t.open /\ t.new = {} /\ t.whole = {} /\ t.at = 1
  BY <1>1, <1>2 DEF NoTxn
<1>4. /\ txn' = [txn EXCEPT ![s] = t] /\ pc[s] = "run"
      /\ UNCHANGED <<vars, history, payload, rows, whole>>
  BY <1>1 DEF Begin, CorpusInv, CorpusTypeOK
<1>5. \A i \in 1..Len(SectionOrder) : ~(i < t.at)
  BY <1>3, IngestAssumption
<1> QED BY <1>3, <1>4, <1>5, TxnStep

\* What is at hand in a transaction that has not come to its end.
LEMMA AtSection ==
    ASSUME TypeOK, CorpusInv, NEW s \in Slots, InTxn(s), ~AtEnd(s)
    PROVE  /\ txn[s] \in Txn /\ txn[s].open /\ pc[s] = "run"
           /\ txn[s].at \in 1..Len(SectionOrder)
           /\ \A v \in payload[held[s]] :
                 v \in Wanted(s) <=> v.section = SectionOrder[txn[s].at] /\ v.kind # "gone"
           /\ Wanted(s) \subseteq payload[held[s]]
           /\ \A v, w \in Wanted(s) : v = w
           /\ \A i \in 1..Len(SectionOrder) : i < txn[s].at + 1 => i < txn[s].at \/ i = txn[s].at
<1>1. /\ txn[s] \in Txn /\ txn[s].open /\ pc[s] = "run" /\ txn[s].at \in Nat \ {0}
      /\ ~(txn[s].at > Len(SectionOrder)) /\ Len(SectionOrder) \in Nat
  BY IngestAssumption DEF InTxn, AtEnd, CorpusInv, CorpusTypeOK, Txn
<1>2. Wanted(s) = {v \in payload[held[s]] : v.section = SectionOrder[txn[s].at] /\ v.kind # "gone"}
  BY DEF Wanted, XmlOrder
<1>3. held[s] \in Jobs /\ state[held[s]] # "absent"
  BY <1>1, InTxnHolds
<1>4. \A v, w \in Wanted(s) : v = w
  BY <1>2, <1>3, OnePerSection
<1>5. \A i \in 1..Len(SectionOrder) : i < txn[s].at + 1 => i < txn[s].at \/ i = txn[s].at
  BY <1>1
<1> QED BY <1>1, <1>2, <1>4, <1>5

\* A section is left behind when no version of it is wanted, or it is stored.
LEMMA SkipKeeps ==
    ASSUME TypeOK, CorpusInv, NEW s \in Slots, SkipSection(s)
    PROVE  CorpusInv'
<1>1. InTxn(s) /\ ~AtEnd(s) /\ \A v \in Wanted(s) : Exists(v)
  BY DEF SkipSection
<1>2. PICK t \in Txn : t = [txn[s] EXCEPT !.at = txn[s].at + 1]
  <2>1. txn[s] \in Txn /\ txn[s].at + 1 \in Nat \ {0}
    BY <1>1, AtSection, IngestAssumption
  <2>2. [txn[s] EXCEPT !.at = txn[s].at + 1] \in Txn
    BY <2>1 DEF Txn
  <2> QED BY <2>2
<1>3. /\ t.open /\ t.new = txn[s].new /\ t.whole = txn[s].whole /\ t.at = txn[s].at + 1
      /\ t.at \in Nat /\ txn[s].at \in Nat
  BY <1>1, <1>2, AtSection DEF Txn
<1>4. /\ txn' = [txn EXCEPT ![s] = t] /\ pc[s] = "run"
      /\ UNCHANGED <<vars, history, payload, rows, whole>>
  BY <1>1, <1>2 DEF SkipSection, Advance, InTxn, CorpusInv, CorpusTypeOK
<1>5. t.whole \subseteq t.new
  BY <1>3 DEF CorpusInv, TxnPlanned
<1>6. ASSUME NEW r \in t.new
      PROVE  /\ \E v \in payload[held[s]] : r = Stamp(s, v) /\ v.kind # "gone"
             /\ \E i \in 1..Len(SectionOrder) : /\ i <= t.at /\ SectionOrder[i] = r.section
                                                /\ r \in t.whole \/ i = t.at
  <2>1. PICK v \in payload[held[s]] : r = Stamp(s, v) /\ v.kind # "gone"
    BY <1>3 DEF CorpusInv, TxnPlanned
  <2>2. PICK i \in 1..Len(SectionOrder) : /\ i <= txn[s].at /\ SectionOrder[i] = r.section
                                          /\ r \in txn[s].whole \/ i = txn[s].at
    BY <1>3 DEF CorpusInv, TxnPlanned
  <2>3. r \in txn[s].whole
    <3> SUFFICES ASSUME i = txn[s].at PROVE FALSE
      BY <2>2
    <3>1. For(r, v)
      BY <2>1 DEF Stamp, For
    <3>2. v \in Wanted(s)
      BY <1>1, <2>1, <2>2, <3>1, AtSection DEF For
    <3>3. PICK q \in rows : SameKey(q, v)
      BY <1>1, <3>2 DEF Exists
    <3>4. Conflict(r, q)
      BY <3>1, <3>3, ConflictOfData, ConflictSymmetric DEF Conflict
    <3> QED BY <1>3, <3>4 DEF CorpusInv, NoConflicts
  <2>4. i <= t.at
    BY <1>3, <2>2, IngestAssumption
  <2> QED BY <1>3, <2>1, <2>2, <2>3, <2>4
<1>7. ASSUME NEW i \in 1..Len(SectionOrder), NEW v \in payload[held[s]],
             i < t.at, v.section = SectionOrder[i], v.kind # "gone"
      PROVE  \E r \in rows \union t.whole : SameKey(r, v)
  <2>1. CASE i < txn[s].at
    BY <1>1, <1>3, <1>7, <2>1, AtSection DEF CorpusInv, Passed
  <2>2. CASE i = txn[s].at
    BY <1>1, <1>7, <2>2, AtSection DEF Exists
  <2> QED BY <1>1, <1>3, <1>7, <2>1, <2>2, AtSection
<1> QED BY <1>3, <1>4, <1>5, <1>6, <1>7, TxnStep

\* A version is inserted when nothing is in its way, committed or not.
LEMMA InsertKeeps ==
    ASSUME TypeOK, CorpusInv, NEW s \in Slots, InsertVersion(s)
    PROVE  CorpusInv'
<1>1. InTxn(s) /\ ~AtEnd(s)
  BY DEF InsertVersion
<1>2. PICK v \in Wanted(s) :
        MayInsert(s, v) /\ txn' = [txn EXCEPT ![s].new = @ \union {Stamp(s, v)}]
  BY DEF InsertVersion
<1>3. /\ v \in payload[held[s]] /\ v.section = SectionOrder[txn[s].at] /\ v.kind # "gone"
      /\ txn[s] \in Txn /\ txn[s].open /\ txn[s].at \in 1..Len(SectionOrder)
  BY <1>1, AtSection
<1>4. v \in Interval /\ held[s] \in Jobs /\ token[s] \in Nat
  BY <1>3, InTxnHolds
<1>5. PICK row \in Row : row = Stamp(s, v)
  BY <1>4 DEF Stamp, Row, Interval
<1>6. For(row, v)
  BY <1>5 DEF Stamp, For
<1>7. PICK t \in Txn : t = [txn[s] EXCEPT !.new = txn[s].new \union {row}]
  <2>1. [txn[s] EXCEPT !.new = txn[s].new \union {row}] \in Txn
    BY <1>3 DEF Txn
  <2> QED BY <2>1
<1>8. /\ t.open /\ t.new = txn[s].new \union {row} /\ t.whole = txn[s].whole /\ t.at = txn[s].at
  BY <1>3, <1>7 DEF Txn
<1>9. /\ txn' = [txn EXCEPT ![s] = t] /\ pc[s] = "run"
      /\ UNCHANGED <<vars, history, payload, rows, whole>>
  <2>1. txn' = [txn EXCEPT ![s] = t]
    BY <1>2, <1>5, <1>7 DEF CorpusInv, CorpusTypeOK
  <2> QED BY <1>1, <2>1 DEF InTxn, InsertVersion
<1>10. t.whole \subseteq t.new
  BY <1>8 DEF CorpusInv, TxnPlanned
<1>11. ASSUME NEW r \in t.new
       PROVE  /\ \E w \in payload[held[s]] : r = Stamp(s, w) /\ w.kind # "gone"
              /\ \E i \in 1..Len(SectionOrder) : /\ i <= t.at /\ SectionOrder[i] = r.section
                                                 /\ r \in t.whole \/ i = t.at
  <2>1. CASE r = row
    <3>1. txn[s].at <= t.at /\ SectionOrder[txn[s].at] = r.section
      BY <1>3, <1>6, <1>8, <2>1, IngestAssumption DEF For
    <3> QED BY <1>3, <1>5, <1>8, <2>1, <3>1
  <2>2. CASE r \in txn[s].new
    BY <1>8, <2>2 DEF CorpusInv, TxnPlanned
  <2> QED BY <1>8, <2>1, <2>2
<1>12. ASSUME NEW r \in t.new \ txn[s].new
       PROVE  /\ \A u \in Slots \ {s} : \A q \in txn[u].new : ~Conflict(q, r)
              /\ \A q \in rows : ~Conflict(q, r)
  <2>1. r = row
    BY <1>8
  <2>2. /\ \A u \in Slots \ {s} : \A q \in txn[u].new : ~Conflict(q, v)
        /\ \A q \in rows : ~Conflict(q, v)
    BY <1>2 DEF MayInsert, Locked, Exists, Conflict
  <2> QED BY <1>6, <2>1, <2>2, ConflictOfData
<1>13. \A i \in 1..Len(SectionOrder), w \in payload[held[s]] :
          i < t.at /\ w.section = SectionOrder[i] /\ w.kind # "gone" =>
              \E r \in rows \union t.whole : SameKey(r, w)
  BY <1>3, <1>8 DEF CorpusInv, Passed
<1> QED BY <1>8, <1>9, <1>10, <1>11, <1>12, <1>13, TxnStep

\* Its chunks follow, and the section is left behind.
LEMMA ChunksKeep ==
    ASSUME TypeOK, CorpusInv, NEW s \in Slots, InsertChunks(s)
    PROVE  CorpusInv'
<1>1. InTxn(s) /\ ~AtEnd(s)
  BY DEF InsertChunks
<1>2. PICK v \in Wanted(s) :
        /\ Stamp(s, v) \in txn[s].new
        /\ txn' = [txn EXCEPT ![s].whole = @ \union {Stamp(s, v)}, ![s].at = @ + 1]
  BY DEF InsertChunks
<1>3. /\ v \in payload[held[s]] /\ v.section = SectionOrder[txn[s].at] /\ v.kind # "gone"
      /\ txn[s] \in Txn /\ txn[s].open /\ txn[s].at \in 1..Len(SectionOrder)
  BY <1>1, AtSection
<1>4. PICK row \in txn[s].new : row = Stamp(s, v)
  BY <1>2
<1>5. For(row, v) /\ row \in Row
  BY <1>3, <1>4 DEF Stamp, For, Txn
<1>6. txn[s].at \in Nat /\ txn[s].at + 1 \in Nat \ {0}
  BY <1>3, IngestAssumption
<1>7. PICK t \in Txn : t = [txn[s] EXCEPT !.whole = txn[s].whole \union {row}, !.at = txn[s].at + 1]
  <2>1. [txn[s] EXCEPT !.whole = txn[s].whole \union {row}, !.at = txn[s].at + 1] \in Txn
    BY <1>3, <1>5, <1>6 DEF Txn
  <2> QED BY <2>1
<1>8. /\ t.open /\ t.new = txn[s].new /\ t.whole = txn[s].whole \union {row}
      /\ t.at = txn[s].at + 1
  BY <1>3, <1>7 DEF Txn
<1>9. /\ txn' = [txn EXCEPT ![s] = t] /\ pc[s] = "run"
      /\ UNCHANGED <<vars, history, payload, rows, whole>>
  <2>1. txn' = [txn EXCEPT ![s] = t]
    BY <1>2, <1>4, <1>7 DEF CorpusInv, CorpusTypeOK
  <2> QED BY <1>1, <2>1 DEF InTxn, InsertChunks
<1>10. t.whole \subseteq t.new
  BY <1>4, <1>8 DEF CorpusInv, TxnPlanned
<1>11. ASSUME NEW r \in t.new
       PROVE  /\ \E w \in payload[held[s]] : r = Stamp(s, w) /\ w.kind # "gone"
              /\ \E i \in 1..Len(SectionOrder) : /\ i <= t.at /\ SectionOrder[i] = r.section
                                                 /\ r \in t.whole \/ i = t.at
  <2>1. PICK w \in payload[held[s]] : r = Stamp(s, w) /\ w.kind # "gone"
    BY <1>8 DEF CorpusInv, TxnPlanned
  <2>2. PICK i \in 1..Len(SectionOrder) : /\ i <= txn[s].at /\ SectionOrder[i] = r.section
                                          /\ r \in txn[s].whole \/ i = txn[s].at
    BY <1>8 DEF CorpusInv, TxnPlanned
  <2>3. r \in t.whole
    <3>1. CASE i = txn[s].at
      BY <1>3, <1>4, <1>8, <2>2, <3>1, RowOfSection
    <3> QED BY <1>8, <2>2, <3>1
  <2>4. i <= t.at
    BY <1>6, <1>8, <2>2
  <2> QED BY <2>1, <2>2, <2>3, <2>4
<1>12. ASSUME NEW i \in 1..Len(SectionOrder), NEW w \in payload[held[s]],
              i < t.at, w.section = SectionOrder[i], w.kind # "gone"
       PROVE  \E r \in rows \union t.whole : SameKey(r, w)
  <2>1. CASE i < txn[s].at
    BY <1>3, <1>8, <1>12, <2>1 DEF CorpusInv, Passed
  <2>2. CASE i = txn[s].at
    <3>1. w \in Wanted(s) /\ w = v
      BY <1>1, <1>12, <2>2, AtSection
    <3> QED BY <1>5, <1>8, <3>1 DEF For, SameKey
  <2> QED BY <1>1, <1>8, <1>12, <2>1, <2>2, AtSection
<1> QED BY <1>8, <1>9, <1>10, <1>11, <1>12, TxnStep

-----------------------------------------------------------------------------
(* The commit, and every step.                                             *)

\* A transaction that has come to its end becomes rows that conflict neither
\* with one another nor with what is there, and its job is ingested.
LEMMA CommitKeeps ==
    ASSUME TypeOK, CorpusInv, NEW s \in Slots, Commit(s)
    PROVE  CorpusInv'
<1>1. /\ txn[s].open /\ pc[s] = "run" /\ held[s] \in Jobs /\ token[s] \in Nat
      /\ state[held[s]] # "absent" /\ payload[held[s]] \in SUBSET Interval
      /\ txn[s] \in Txn
  BY InTxnHolds DEF Commit, InTxn, CorpusInv, CorpusTypeOK
<1>2. /\ UNCHANGED <<state, held, token, history, payload>>
      /\ rows' = rows \union txn[s].new /\ whole' = whole \union txn[s].whole
      /\ txn' = [txn EXCEPT ![s] = NoTxn]
      /\ pc' = [pc EXCEPT ![s] = "ack"]
      /\ done' = [done EXCEPT ![held[s]] = done[held[s]] \union {token[s]}]
  BY DEF Commit, HandlerReturns, Publish, table
<1>3. \A i \in 1..Len(SectionOrder) : i < txn[s].at
  <2>1. txn[s].at > Len(SectionOrder) /\ txn[s].at \in Nat /\ Len(SectionOrder) \in Nat
    BY <1>1, IngestAssumption DEF Commit, AtEnd, Txn
  <2> QED BY <2>1
<1>4. txn[s].new = txn[s].whole
  <2>1. \A i \in 1..Len(SectionOrder) : i # txn[s].at
    BY <1>1, <1>3 DEF Txn
  <2> QED BY <2>1 DEF CorpusInv, TxnPlanned
<1>5. /\ NoTxn \in Txn /\ txn' \in [Slots -> Txn] /\ txn'[s] = NoTxn
      /\ \A u \in Slots \ {s} : txn'[u] = txn[u] /\ pc'[u] = pc[u]
  <2>1. NoTxn \in Txn
    BY DEF NoTxn, Txn
  <2> QED BY <1>2, <2>1 DEF CorpusInv, CorpusTypeOK, TypeOK
<1>6. CorpusTypeOK' /\ HeldSubmitted' /\ rows' = whole'
  <2>1. txn[s].new \subseteq Row
    BY <1>1 DEF Txn
  <2> QED BY <1>2, <1>4, <1>5, <2>1 DEF CorpusInv, CorpusTypeOK, HeldSubmitted
<1>7. Planned'
  BY <1>2, SameCovering DEF CorpusInv, Planned
<1>8. TxnTied'
  BY <1>5 DEF CorpusInv, TxnTied, NoTxn
<1>9. TxnPlanned'
  <2> SUFFICES ASSUME NEW u \in Slots
               PROVE  /\ txn'[u].whole \subseteq txn'[u].new
                      /\ \A r \in txn'[u].new :
                            /\ \E v \in payload[held[u]] : r = Stamp(u, v) /\ v.kind # "gone"
                            /\ \E i \in 1..Len(SectionOrder) :
                                  /\ i <= txn'[u].at /\ SectionOrder[i] = r.section
                                  /\ r \in txn'[u].whole \/ i = txn'[u].at
    BY <1>2 DEF TxnPlanned, Stamp
  <2>1. CASE u = s
    BY <1>5, <2>1 DEF NoTxn
  <2>2. CASE u # s
    BY <1>5, <2>2 DEF CorpusInv, TxnPlanned
  <2> QED BY <2>1, <2>2
<1>10. RowsPlanned'
  <2> SUFFICES ASSUME NEW r \in rows'
               PROVE  \E j \in Jobs : state[j] # "absent" /\ \E v \in payload[j] : For(r, v)
    BY <1>2 DEF RowsPlanned
  <2>1. CASE r \in rows
    BY <2>1 DEF CorpusInv, RowsPlanned
  <2>2. CASE r \in txn[s].new
    <3>1. PICK v \in payload[held[s]] : r = Stamp(s, v)
      BY <2>2 DEF CorpusInv, TxnPlanned
    <3>2. For(r, v)
      BY <3>1 DEF Stamp, For
    <3> QED BY <1>1, <3>2
  <2> QED BY <1>2, <2>1, <2>2
<1>11. NoConflicts'
  <2>1. \A u \in Slots : txn'[u].new # {} => u # s /\ txn'[u] = txn[u]
    BY <1>5 DEF NoTxn
  <2> QED BY <1>2, <2>1 DEF CorpusInv, NoConflicts
<1>12. NoDuplicates'
  <2> SUFFICES ASSUME NEW r \in rows', NEW q \in rows', Conflict(r, q) PROVE r = q
    BY DEF NoDuplicates, Conflict
  <2>1. CASE r \in rows /\ q \in rows
    BY <2>1 DEF CorpusInv, NoDuplicates, Conflict
  <2>2. CASE r \in txn[s].new /\ q \in rows
    BY <2>2 DEF CorpusInv, NoConflicts
  <2>3. CASE r \in rows /\ q \in txn[s].new
    BY <2>3, ConflictSymmetric DEF CorpusInv, NoConflicts
  <2>4. CASE r \in txn[s].new /\ q \in txn[s].new
    <3>1. PICK v \in payload[held[s]] : q = Stamp(s, v)
      BY <2>4 DEF CorpusInv, TxnPlanned
    <3>2. v.section = r.section
      BY <3>1 DEF Conflict, SameKey, Overlap, Stamp
    <3> QED BY <2>4, <3>1, <3>2, RowOfSection
  <2> QED BY <1>2, <2>1, <2>2, <2>3, <2>4
<1>13. Passed'
  <2> SUFFICES ASSUME NEW u \in Slots, txn'[u].open, NEW i \in 1..Len(SectionOrder),
                      NEW v \in payload[held[u]],
                      i < txn'[u].at /\ v.section = SectionOrder[i] /\ v.kind # "gone"
               PROVE  \E r \in rows' \union txn'[u].whole : SameKey(r, v)
    BY <1>2 DEF Passed
  <2>1. u # s /\ txn'[u] = txn[u]
    BY <1>5 DEF NoTxn
  <2> QED BY <1>2, <2>1 DEF CorpusInv, Passed
<1>14. DoneIngested'
  <2> SUFFICES ASSUME NEW j \in Jobs, done'[j] # {}
               PROVE  /\ state[j] # "absent"
                      /\ \A v \in payload[j] : v.kind # "gone" => \E r \in rows' : SameKey(r, v)
    BY <1>2 DEF DoneIngested, Ingested
  <2>1. CASE j = held[s]
    <3> SUFFICES ASSUME NEW v \in payload[held[s]], v.kind # "gone"
                 PROVE  \E r \in rows' : SameKey(r, v)
      BY <1>1, <2>1
    <3>1. PICK i \in 1..Len(SectionOrder) : v.section = SectionOrder[i]
      BY <1>1 DEF Interval, Sections
    <3> QED BY <1>1, <1>2, <1>3, <1>4, <3>1 DEF CorpusInv, Passed
  <2>2. CASE j # held[s]
    <3>1. done[j] # {}
      BY <1>2, <2>2 DEF TypeOK
    <3> QED BY <1>2, <3>1 DEF CorpusInv, DoneIngested, Ingested
  <2> QED BY <2>1, <2>2
<1> QED BY <1>6, <1>7, <1>8, <1>9, <1>10, <1>11, <1>12, <1>13, <1>14 DEF CorpusInv

\* What a slot does outside its handler, and what others do, leaves alone the
\* jobs that have been done and the handlers that run.
LEMMA QueueKeeps ==
    ASSUME TypeOK, NEW s \in Slots, LoopStep(s) \/ Heartbeat(s) \/ HeartbeatErrors(s)
    PROVE  /\ done' = done
           /\ \A j \in Jobs : state'[j] = "absent" <=> state[j] = "absent"
           /\ \A u \in Slots : pc[u] = "run" =>
                 pc'[u] = "run" /\ held'[u] = held[u] /\ token'[u] = token[u]
<1> USE DEF TypeOK
<1>1. CASE Reap(s)
  BY <1>1 DEF Reap, Reaped, MayPoll
<1>2. ASSUME NEW j \in Jobs, Claim(s, j)
      PROVE  /\ done' = done
             /\ \A k \in Jobs : state'[k] = "absent" <=> state[k] = "absent"
             /\ \A u \in Slots : pc[u] = "run" =>
                   pc'[u] = "run" /\ held'[u] = held[u] /\ token'[u] = token[u]
  BY <1>2 DEF Claim, Claimable
<1>3. CASE ClaimNothing(s) \/ LeaveLoop(s) \/ BeatEnds(s)
  BY <1>3 DEF ClaimNothing, LeaveLoop, BeatEnds, table
<1>4. CASE Ack(s)
  BY <1>4 DEF Ack, EndExecute, Fenced
<1>5. CASE Nack(s)
  <2>1. done' = done /\ \A u \in Slots : pc[u] = "run" =>
           pc'[u] = "run" /\ held'[u] = held[u] /\ token'[u] = token[u]
    BY <1>5 DEF Nack, EndExecute
  <2>2. \A j \in Jobs : state'[j] = "absent" <=> state[j] = "absent"
    BY <1>5 DEF Nack, Fenced, Outcome
  <2> QED BY <2>1, <2>2
<1>6. CASE Heartbeat(s) \/ HeartbeatErrors(s)
  BY <1>6 DEF Heartbeat, HeartbeatErrors, table
<1> QED BY <1>1, <1>2, <1>3, <1>4, <1>5, <1>6 DEF LoopStep

\* Every step keeps the corpus as the invariant says.
LEMMA NextCorpus == TypeOK /\ CorpusInv /\ [IngestNext]_ingestVars => CorpusInv'
<1> SUFFICES ASSUME TypeOK, CorpusInv, [IngestNext]_ingestVars PROVE CorpusInv'
  OBVIOUS
<1>1. HeldSubmitted'
  BY IngestStepsQueue, Submitted DEF CorpusInv, CorpusTypeOK, HistoryOK
<1>2. \A u \in Slots : txn[u].open => pc[u] = "run"
  BY DEF CorpusInv, TxnTied
<1>3. ASSUME NEW known \in Horizons, NEW targets \in {Dates(known)} \union GivenDates(known),
             PlanIngest(known, targets)
      PROVE  CorpusInv'
  BY <1>1, <1>3, PlanKeeps
<1>4. ASSUME NEW s \in Slots, HandlerStep(s) PROVE CorpusInv'
  BY <1>4, BeginKeeps, SkipKeeps, InsertKeeps, ChunksKeep, CommitKeeps DEF HandlerStep
<1>5. ASSUME NEW s \in Slots, Fail(s) PROVE CorpusInv'
  <2>1. /\ txn' = [u \in Slots |-> IF u \in {s} THEN NoTxn ELSE txn[u]]
        /\ UNCHANGED <<history, payload, rows, whole, done, state, held, token>>
        /\ pc' = [pc EXCEPT ![s] = "nack"]
    BY <1>5 DEF Fail, HandlerRaises, Rollback, table
  <2>2. \A u \in Slots \ {s} : txn[u].open => pc'[u] = "run"
    BY <1>2, <2>1 DEF TypeOK
  <2> QED BY <1>1, <2>1, <2>2, RollbackKeeps
<1>6. ASSUME NEW s \in Slots,
             LoopStep(s) \/ ((Heartbeat(s) \/ HeartbeatErrors(s)) /\ UNCHANGED corpusVars)
      PROVE  CorpusInv'
  <2>1. UNCHANGED <<history, payload, rows, whole, txn>>
    BY <1>6 DEF LoopStep, corpusVars
  <2>2. /\ done' = done
        /\ \A j \in Jobs : state'[j] = "absent" <=> state[j] = "absent"
        /\ \A u \in Slots : pc[u] = "run" =>
              pc'[u] = "run" /\ held'[u] = held[u] /\ token'[u] = token[u]
    BY <1>6, QueueKeeps
  <2> QED BY <1>1, <2>1, <2>2, QuietKeeps
<1>7. ASSUME NEW j \in Jobs, Lapse(j), UNCHANGED corpusVars PROVE CorpusInv'
  <2>1. UNCHANGED <<history, payload, rows, whole, txn, done, state, pc, held, token>>
    BY <1>7 DEF Lapse, corpusVars, slots
  <2> QED BY <1>1, <2>1, QuietKeeps
<1>8. ASSUME NEW p \in Procs, Start(p) \/ Stop(p), UNCHANGED corpusVars PROVE CorpusInv'
  <2>1. UNCHANGED <<history, payload, rows, whole, txn, done, state, held, token>>
    BY <1>8 DEF Start, Stop, corpusVars, table, slots
  <2>2. \A u \in Slots : pc[u] = "run" => pc'[u] = "run"
    BY <1>8 DEF Start, Stop, SlotsOf, Ended, slots, TypeOK
  <2> QED BY <1>1, <2>1, <2>2, QuietKeeps
<1>9. ASSUME NEW p \in Procs, Crash(p) \/ AbortGroup(p), Rollback(SlotsOf(p)),
              UNCHANGED <<history, payload>>
       PROVE  CorpusInv'
  <2>1. /\ UNCHANGED <<history, payload, rows, whole, done, state>>
        /\ txn' = [s \in Slots |-> IF s \in SlotsOf(p) THEN NoTxn ELSE txn[s]]
    BY <1>9, Killing DEF Rollback, table
  <2>2. \A u \in Slots \ SlotsOf(p) : pc'[u] = pc[u] /\ held'[u] = held[u] /\ token'[u] = token[u]
    BY <1>9, Killing DEF KillSlots, SlotsOf
  <2>3. SlotsOf(p) \in SUBSET Slots
    BY DEF SlotsOf
  <2> QED BY <1>1, <1>2, <2>1, <2>2, <2>3, RollbackKeeps
<1>10. CASE UNCHANGED ingestVars
  <2>1. UNCHANGED <<history, payload, rows, whole, txn, done, state, pc, held, token>>
    BY <1>10 DEF ingestVars, corpusVars, vars, table, slots
  <2> QED BY <1>1, <2>1, QuietKeeps
<1> QED BY <1>3, <1>4, <1>5, <1>6, <1>7, <1>8, <1>9, <1>10 DEF IngestNext

\* Before anything is planned.
LEMMA InitCorpus == IngestInit => CorpusInv
<1> SUFFICES ASSUME IngestInit PROVE CorpusInv
  OBVIOUS
<1>1. NoTxn \in Txn /\ ~NoTxn.open /\ NoTxn.new = {} /\ NoTxn.whole = {}
  BY DEF NoTxn, Txn
<1>2. CorpusTypeOK
  BY <1>1 DEF IngestInit, CorpusTypeOK
<1>3. TxnTied /\ TxnPlanned /\ NoConflicts /\ Passed
  BY <1>1 DEF IngestInit, TxnTied, TxnPlanned, NoConflicts, Passed
<1>4. Planned /\ HeldSubmitted /\ RowsPlanned /\ NoDuplicates /\ DoneIngested /\ rows = whole
  BY DEF IngestInit, Init, Planned, HeldSubmitted, RowsPlanned, NoDuplicates, DoneIngested
<1> QED BY <1>2, <1>3, <1>4 DEF CorpusInv

\* The invariants of the queue and of the corpus hold of every reachable state.
THEOREM CorpusInvariant == IngestSpec => [](IInv /\ CorpusInv)
<1>1. IInv => TypeOK
  BY DEF IInv
<1> QED BY <1>1, IngestionIsAQueue, Inductive, InitCorpus, NextCorpus, PTL DEF IngestSpec

-----------------------------------------------------------------------------
(* What the invariant is for.                                              *)

\* However snapshots overlap and however often a job is run, a version is stored
\* once and the versions of a section do not overlap.
THEOREM NothingIsDoubled == IngestSpec => []NoDuplicates
<1>1. CorpusInv => NoDuplicates
  BY DEF CorpusInv
<1> QED BY <1>1, CorpusInvariant, PTL

\* No failure leaves a version without its chunks, or a transaction open that
\* nobody goes on with.
THEOREM NothingIsHalfWritten == IngestSpec => []NoHalfVersions
<1>1. CorpusInv => NoHalfVersions
  BY DEF CorpusInv, TxnTied, NoHalfVersions
<1> QED BY <1>1, CorpusInvariant, PTL

\* A slot waits for one that is at the same section or further on, and at the
\* same one only if that one is not waiting itself.
LEMMA WaitsAhead ==
    ASSUME TypeOK, CorpusInv, NEW s \in Slots, NEW t \in Slots, Waits(s, t)
    PROVE  /\ txn[s].at \in Nat /\ txn[t].at \in Nat /\ txn[s].at <= txn[t].at
           /\ \A u \in Slots : Waits(t, u) => txn[s].at # txn[t].at
<1>1. InTxn(s) /\ ~AtEnd(s) /\ s # t
  BY DEF Waits
<1>2. PICK v \in Wanted(s), r \in txn[t].new : Conflict(r, v)
  BY DEF Waits, Conflict
<1>3. v.section = SectionOrder[txn[s].at] /\ txn[s].at \in 1..Len(SectionOrder)
  BY <1>1, AtSection
<1>4. r.section = v.section
  BY <1>2 DEF Conflict, SameKey, Overlap
<1>5. PICK i \in 1..Len(SectionOrder) : i <= txn[t].at /\ SectionOrder[i] = r.section
  BY DEF CorpusInv, TxnPlanned
<1>6. i = txn[s].at
  BY <1>3, <1>4, <1>5, IngestAssumption
<1>7. txn[t].at \in Nat
  BY DEF CorpusInv, CorpusTypeOK, Txn
<1>8. ASSUME NEW u \in Slots, Waits(t, u), txn[s].at = txn[t].at PROVE FALSE
  <2>1. InTxn(t) /\ ~AtEnd(t) /\ t # u
    BY <1>8 DEF Waits
  <2>2. PICK w \in Wanted(t), q \in txn[u].new : Conflict(q, w)
    BY <1>8 DEF Waits, Conflict
  <2>3. w \in payload[held[t]] /\ w.section = r.section
    BY <1>3, <1>4, <1>8, <2>1, AtSection
  <2>4. For(r, w)
    BY <2>3, RowOfSection
  <2>5. Conflict(r, q)
    BY <2>2, <2>4, ConflictOfData, ConflictSymmetric
  <2> QED BY <2>1, <2>5 DEF CorpusInv, NoConflicts
<1> QED BY <1>3, <1>5, <1>6, <1>7, <1>8, IngestAssumption

\* Along a chain of transactions that wait for each other the sections only get
\* later in the XML, so no chain of any length closes to a circle ...
ChainsGoAhead ==
    \A s, t, u \in Slots : Waits(s, t) /\ Waits(t, u) => txn[s].at < txn[t].at

\* ... which is why Postgres never finds a deadlock between snapshots to break.
THEOREM NoDeadlockEver == IngestSpec => [](ChainsGoAhead /\ NoDeadlock)
<1>1. TypeOK /\ CorpusInv => ChainsGoAhead
  <2> SUFFICES ASSUME TypeOK, CorpusInv, NEW s \in Slots, NEW t \in Slots, NEW u \in Slots,
                      Waits(s, t), Waits(t, u)
               PROVE  txn[s].at < txn[t].at
    BY DEF ChainsGoAhead
  <2>1. /\ txn[s].at \in Nat /\ txn[t].at \in Nat /\ txn[s].at <= txn[t].at
        /\ txn[s].at # txn[t].at
    BY WaitsAhead
  <2> QED BY <2>1
<1>2. TypeOK /\ CorpusInv => NoDeadlock
  <2> SUFFICES ASSUME TypeOK, CorpusInv, NEW s \in Slots, NEW t \in Slots,
                      Waits(s, t), Waits(t, s)
               PROVE  FALSE
    BY DEF NoDeadlock, WaitsInCircle
  <2>1. txn[s].at \in Nat /\ txn[t].at \in Nat /\ txn[s].at < txn[t].at /\ txn[t].at < txn[s].at
    BY <1>1, WaitsAhead DEF ChainsGoAhead
  <2> QED BY <2>1
<1>3. IInv => TypeOK
  BY DEF IInv
<1> QED BY <1>1, <1>2, <1>3, CorpusInvariant, PTL

-----------------------------------------------------------------------------
(* The corpus and the history.                                             *)

\* No version of the section comes into force after `rec` and up to the day.
Latest(rec, sec, day) == \A q \in history[sec] : q.from <= day => q.from <= rec.from

\* An interval that ends where a version begins is in force on the days whose
\* latest version is its own.
LEMMA LatestInForce ==
    ASSUME history \in Histories, NEW sec \in Sections, NEW rec \in history[sec],
           NEW day \in Jobs, rec.from <= day, Latest(rec, sec, day),
           NEW known \in Horizons, NEW iv \in Timeline(sec, known), iv.from = rec.from
    PROVE  InForce(iv, day) /\ iv.kind = rec.kind
<1>1. PICK q \in history[sec] : q.from = iv.from /\ q.kind = iv.kind
  BY TimelineEnds
<1>2. iv.kind = rec.kind
  BY <1>1, Assumed
<1>3. ASSUME iv.to # Open PROVE day < iv.to
  <2>1. iv.to > iv.from /\ \E x \in history[sec] : x.from = iv.to
    BY <1>3, TimelineEnds
  <2>2. PICK x \in history[sec] : x.from = iv.to
    BY <2>1
  <2>3. x.from \in Nat /\ rec.from \in Nat /\ day \in Nat
    BY Assumed, IngestAssumption
  <2>4. ~(x.from <= day)
    BY <2>1, <2>2, <2>3 DEF Latest
  <2> QED BY <2>2, <2>3, <2>4
<1> QED BY <1>2, <1>3 DEF InForce, EndsAfter

\* A plan that reached the date covers it with the latest version.
LEMMA LatestCovers ==
    ASSUME history \in Histories, NEW sec \in Sections, NEW rec \in history[sec],
           NEW day \in Jobs, rec.from <= day, Latest(rec, sec, day),
           NEW known \in Horizons, day <= known
    PROVE  \E v \in Covering(day, known) :
               v.section = sec /\ v.from = rec.from /\ v.kind = rec.kind
<1>1. rec \in Published(sec, known)
  <2>1. rec.from \in Nat /\ day \in Nat /\ known \in Nat
    BY Assumed, IngestAssumption
  <2> QED BY <2>1 DEF Published
<1> DEFINE later(d) == {x.from : x \in {r \in Published(sec, known) : r.from > d}}
           iv(x) == [section |-> sec, from |-> x.from, kind |-> x.kind,
                     to |-> IF later(x.from) = {} THEN Open ELSE Min(later(x.from))]
<1>2. Timeline(sec, known) = {iv(x) : x \in Published(sec, known)}
  BY DEF Timeline
<1>3. PICK v \in Timeline(sec, known) : v.section = sec /\ v.from = rec.from
  <2>1. iv(rec).section = sec /\ iv(rec).from = rec.from
    OBVIOUS
  <2> HIDE DEF iv
  <2> QED BY <1>1, <1>2, <2>1
<1>4. InForce(v, day) /\ v.kind = rec.kind
  BY <1>3, LatestInForce
<1> HIDE DEF iv
<1> QED BY <1>3, <1>4 DEF Covering

\* All that is law on the date of an ingested snapshot is what the corpus says
\* of it.
LEMMA LawIsEffective ==
    ASSUME CorpusInv, NEW j \in Jobs, state[j] # "absent", Ingested(j)
    PROVE  Law(j) \subseteq Effective(j)
<1> SUFFICES ASSUME NEW x \in Law(j) PROVE x \in Effective(j)
  OBVIOUS
<1>1. PICK sec \in Sections : \E rec \in history[sec] :
        x = <<sec, rec.from>> /\ rec.from <= j /\ rec.kind = "text" /\ Latest(rec, sec, j)
  BY DEF Law, Latest
<1>2. PICK rec \in history[sec] :
        x = <<sec, rec.from>> /\ rec.from <= j /\ rec.kind = "text" /\ Latest(rec, sec, j)
  BY <1>1
<1>3. history \in Histories /\ rows = whole
  BY DEF CorpusInv, CorpusTypeOK
<1>4. PICK known \in Horizons : j <= known /\ payload[j] = Covering(j, known)
  BY DEF CorpusInv, Planned
<1>5. PICK v \in payload[j] : v.section = sec /\ v.from = rec.from /\ v.kind = "text"
  BY <1>2, <1>3, <1>4, LatestCovers
<1>6. PICK r \in rows : SameKey(r, v)
  BY <1>5 DEF Ingested
<1>7. PICK i \in Jobs : state[i] # "absent" /\ \E w \in payload[i] : For(r, w)
  BY <1>6 DEF CorpusInv, RowsPlanned
<1>8. PICK w \in payload[i] : For(r, w)
  BY <1>7
<1>9. PICK day \in Horizons : payload[i] = Covering(i, day)
  BY <1>7 DEF CorpusInv, Planned
<1>10. w.section = sec /\ w.from = rec.from
  BY <1>5, <1>6, <1>8 DEF For, SameKey
<1>11. w \in Timeline(sec, day)
  BY <1>3, <1>8, <1>9, <1>10, CoveringIsOne
<1>12. InForce(w, j) /\ w.kind = "text"
  BY <1>2, <1>3, <1>10, <1>11, LatestInForce
<1>13. InForce(r, j) /\ r.kind = "text" /\ r.section = sec /\ r.from = rec.from
  BY <1>8, <1>10, <1>12 DEF For, InForce, EndsAfter
<1> QED BY <1>2, <1>3, <1>6, <1>13 DEF Effective

\* If the history did not grow between two plans, nothing else is.
LEMMA EffectiveIsLaw ==
    ASSUME CorpusInv, NEW j \in Jobs, state[j] # "absent", PlannedAtOnce
    PROVE  Effective(j) \subseteq Law(j)
<1> SUFFICES ASSUME NEW x \in Effective(j) PROVE x \in Law(j)
  OBVIOUS
<1>1. PICK r \in whole : x = <<r.section, r.from>> /\ InForce(r, j) /\ r.kind = "text"
  BY DEF Effective
<1>2. history \in Histories /\ rows = whole
  BY DEF CorpusInv, CorpusTypeOK
<1>3. PICK once \in Horizons : \A i \in Jobs : state[i] # "absent" => payload[i] = Covering(i, once)
  BY DEF PlannedAtOnce
<1>4. PICK known \in Horizons : j <= known /\ payload[j] = Covering(j, known)
  BY DEF CorpusInv, Planned
<1>5. PICK i \in Jobs : state[i] # "absent" /\ \E v \in payload[i] : For(r, v)
  BY <1>1, <1>2 DEF CorpusInv, RowsPlanned
<1>6. PICK v \in payload[i] : For(r, v)
  BY <1>5
<1>7. v \in Covering(i, once)
  BY <1>3, <1>5
<1>8. v.section \in Sections /\ v \in Timeline(v.section, once)
  BY <1>2, <1>7, CoveringIsOne
<1>9. InForce(v, j)
  BY <1>1, <1>6 DEF For, InForce, EndsAfter
<1>10. v \in Covering(j, once)
  BY <1>8, <1>9 DEF Covering
<1>11. v \in Covering(j, known)
  BY <1>3, <1>4, <1>10
<1>12. \A q \in history[v.section] : q.from <= known /\ q.from <= j => q.from <= v.from
  BY <1>2, <1>11, CoveringIsOne
<1>13. PICK rec \in history[v.section] : rec.from = v.from /\ rec.kind = v.kind
  BY <1>2, <1>8, TimelineEnds
<1>14. \A q \in history[v.section] : q.from <= j => q.from <= rec.from
  <2>1. \A q \in history[v.section] : q.from \in Nat
    BY <1>2, <1>8, Assumed
  <2>2. j \in Nat /\ known \in Nat
    BY IngestAssumption
  <2> QED BY <1>4, <1>12, <1>13, <2>1, <2>2
<1>15. x = <<v.section, rec.from>> /\ rec.from <= j /\ rec.kind = "text"
  BY <1>1, <1>6, <1>13 DEF For, InForce
<1> QED BY <1>8, <1>14, <1>15 DEF Law

\* A snapshot that is recorded as succeeded lost nothing, whoever ran it and
\* whatever failed, and nothing repealed is in force on its date.
THEOREM SuccessIsIngested == IngestSpec => []SucceededIsIngested
<1>1. IInv /\ CorpusInv => SucceededIsIngested
  <2> SUFFICES ASSUME IInv, CorpusInv, NEW j \in Jobs, state[j] = "succeeded"
               PROVE  /\ Law(j) \subseteq Effective(j)
                      /\ PlannedAtOnce => Effective(j) \subseteq Law(j)
    BY DEF SucceededIsIngested
  <2>1. done[j] # {}
    BY DEF IInv, SucceededWasDone
  <2>2. Ingested(j) /\ state[j] # "absent"
    BY <2>1 DEF CorpusInv, DoneIngested
  <2> QED BY <2>2, LawIsEffective, EffectiveIsLaw
<1> QED BY <1>1, CorpusInvariant, PTL

=============================================================================
