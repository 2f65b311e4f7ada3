----------------------------- MODULE TurnStream -----------------------------
(***************************************************************************)
(* A page that asks, and the turns that run for it in the API process:     *)
(* ui_ask and turn_stream (api/app.py), the script of the page             *)
(* (stream.js), and the calls of the models that a turn makes, with their  *)
(* retries (openrouter_adapter.py) and their cost (pricing.py).            *)
(*                                                                         *)
(* ui_ask starts a task and answers at once with a shell, which htmx swaps *)
(* into the page.  After a swap the script opens a stream for every shell  *)
(* of the page: a stream is named by its turn and by the turn whose swap   *)
(* opened it.  The task puts what it does into its queue, and its end; the *)
(* streams of the turn take from that queue, and the one that takes the    *)
(* end sends the finished turn.  Connections break, and the process may    *)
(* restart.  What a turn finds and answers is the business of Conversation.*)
(***************************************************************************)
EXTENDS Integers, Sequences, FiniteSets, Functions

CONSTANTS
    Turns,        \* the questions of the page, numbered as they are asked
    FollowUps,    \* those asked in a thread with a history
    Price,        \* the cost of a reply of the "resolver" and of the "writer"
    MaxAttempts,  \* OpenRouterCompletions._max_attempts
    MaxFaults     \* bound: broken connections and restarts

ASSUME TurnStreamAssumption ==
    /\ Turns \subseteq Nat
    /\ FollowUps \subseteq Turns
    /\ Price \in [{"resolver", "writer"} -> Nat]
    /\ MaxAttempts \in Nat \ {0}
    /\ MaxFaults \in Nat

VARIABLES
    pc,        \* per turn, where its task is
    attempts,  \* failed attempts of the call it is in
    ledger,    \* CostLedger._by_run
    replied,   \* the models whose replies the turn has had (observer)
    rows,      \* query_traces: the turn and its cost_usd
    queue,     \* PendingTurn.queue
    pending,   \* _PENDING
    reader,    \* per stream, where turn_stream is
    wire,      \* per stream, the `done` or `error` event on its way to the page
    shell,     \* what the page shows for the turn
    faults

task == <<pc, attempts, ledger, replied, rows, queue>>
page == <<shell, wire>>
vars == <<task, pending, reader, page, faults>>

\* A swap opens streams for its own turn and for earlier ones.
Streams == {k \in Turns \X Turns : k[1] <= k[2]}
TurnOf(k) == k[1]
Phase == "phase"    \* what the turn does now, in words that are left out
End == "end"        \* the None that closes the feed

Running == {"thread", "greet", "resolve", "find", "draft", "persist", "render"}

Init ==
    /\ pc = [t \in Turns |-> "new"]
    /\ attempts = [t \in Turns |-> 0]
    /\ ledger = [t \in Turns |-> 0]
    /\ replied = [t \in Turns |-> {}]
    /\ rows = {}
    /\ queue = [t \in Turns |-> <<>>]
    /\ pending = {}
    /\ reader = [k \in Streams |-> "none"]
    /\ wire = [k \in Streams |-> "none"]
    /\ shell = [t \in Turns |-> "none"]
    /\ faults = 0

-----------------------------------------------------------------------------
(* The task of a turn.                                                     *)

At(t, place) == pc[t] = place
GoTo(t, place) == pc' = [pc EXCEPT ![t] = place]
Says(t, n) == queue' = [queue EXCEPT ![t] = @ \o [i \in 1..n |-> Phase]]

\* Faulty: the feed is closed when the turn has succeeded.
ClosingDone(feed, how) == IF how = "done" THEN Append(feed, End) ELSE feed

\* "Close the stream even if the turn raised": whatever became of it.
Closing(feed, how) == Append(feed, End)

Ends(t, how) ==
    /\ GoTo(t, how)
    /\ queue' = [queue EXCEPT ![t] = Closing(@, how)]

\* next_turn_index and load_thread; the first turn of a thread needs no resolver.
Begin(t) ==
    /\ At(t, "thread")
    /\ \/ GoTo(t, "greet") /\ UNCHANGED queue
       \/ t \notin FollowUps /\ GoTo(t, "find") /\ Says(t, 1)
       \/ t \in FollowUps /\ GoTo(t, "resolve") /\ Says(t, 1)
    /\ UNCHANGED <<attempts, ledger, replied, rows>>

\* complete: a transport error or a retryable status, and a backoff.
TryAgain(t) ==
    /\ pc[t] \in {"resolve", "draft"}
    /\ attempts[t] + 1 < MaxAttempts
    /\ attempts' = [attempts EXCEPT ![t] = @ + 1]
    /\ UNCHANGED <<pc, ledger, replied, rows, queue>>

\* _to_response: the cost of the reply is recorded under the run of the turn.
Reply(t, model) ==
    /\ attempts' = [attempts EXCEPT ![t] = 0]
    /\ ledger' = [ledger EXCEPT ![t] = @ + Price[model]]
    /\ replied' = [replied EXCEPT ![t] = @ \union {model}]
    /\ UNCHANGED rows

Resolved(t) ==
    /\ At(t, "resolve")
    /\ Reply(t, "resolver")
    /\ GoTo(t, "find") /\ Says(t, 1)

\* Retrieval, after which the turn is refused without a reply or drafted.
Find(t) ==
    /\ At(t, "find")
    /\ \/ GoTo(t, "persist") /\ UNCHANGED queue
       \/ GoTo(t, "draft") /\ Says(t, 2)
    /\ UNCHANGED <<attempts, ledger, replied, rows>>

\* The reply is refused before its citations are looked at, or verified.
Drafted(t) ==
    /\ At(t, "draft")
    /\ Reply(t, "writer")
    /\ GoTo(t, "persist")
    /\ UNCHANGED queue \/ Says(t, 1)

\* Faulty: the total of the process, CostLedger.total().
TotalOfAll(t) == FoldFunction(+, 0, ledger)

\* CostLedger.total(run_id)
Total(t) == ledger[t]

\* A greeting has cost nothing, and trips the rendering that follows.
Persist(t) ==
    \/ /\ At(t, "persist")
       /\ rows' = rows \union {[turn |-> t, cost |-> Total(t)]}
       /\ GoTo(t, "render")
       /\ UNCHANGED <<attempts, ledger, replied, queue>>
    \/ /\ At(t, "greet")
       /\ rows' = rows \union {[turn |-> t, cost |-> 0]}
       /\ Ends(t, "raised")
       /\ UNCHANGED <<attempts, ledger, replied>>

Render(t) ==
    /\ At(t, "render")
    /\ Ends(t, "done")
    /\ UNCHANGED <<attempts, ledger, replied, rows>>

\* The last attempt of a call, a status that is not retried, or Postgres fails.
Fail(t) ==
    /\ pc[t] \in Running
    /\ Ends(t, "raised")
    /\ attempts' = [attempts EXCEPT ![t] = 0]
    /\ UNCHANGED <<ledger, replied, rows>>

TaskStep(t) ==
    /\ \/ Begin(t) \/ TryAgain(t) \/ Resolved(t) \/ Find(t)
       \/ Drafted(t) \/ Persist(t) \/ Render(t) \/ Fail(t)
    /\ UNCHANGED <<pending, reader, page, faults>>

-----------------------------------------------------------------------------
(* The page.                                                               *)

\* ui_ask.  The button is disabled while a question is on its way.
Ask(t) ==
    /\ At(t, "new")
    /\ \A u \in Turns : u < t => ~At(u, "new") /\ shell[u] # "asked"
    /\ GoTo(t, "thread")
    /\ pending' = pending \union {t}
    /\ shell' = [shell EXCEPT ![t] = "asked"]
    /\ UNCHANGED <<attempts, ledger, replied, rows, queue, reader, wire, faults>>

\* The elements with a turn id: a shell keeps its own when its stream was lost.
Shells == {t \in Turns : shell[t] \in {"waiting", "lost"}}

\* The shell arrives, and htmx:afterSwap opens a stream for each of the page.
Swap(t) ==
    /\ shell[t] = "asked"
    /\ shell' = [shell EXCEPT ![t] = "waiting"]
    /\ reader' = [k \in Streams |->
                    IF k[2] = t /\ TurnOf(k) \in Shells \union {t} THEN "asked" ELSE reader[k]]
    /\ UNCHANGED <<task, pending, wire, faults>>

\* The listener of `done` puts the turn in the place of the shell, if that is
\* still there, and the listener of `error` says that the connection was lost.
Shows(t, what) == shell' = IF t \in Shells THEN [shell EXCEPT ![t] = what] ELSE shell

Receive(k) ==
    /\ wire[k] # "none"
    /\ wire' = [wire EXCEPT ![k] = "none"]
    /\ Shows(TurnOf(k), IF wire[k] = "error" THEN "lost" ELSE wire[k])
    /\ UNCHANGED <<task, pending, reader, faults>>

-----------------------------------------------------------------------------
(* The streams, in the server.                                             *)

\* Faulty: a turn is forgotten as soon as it has run.
AcceptsRunning(t) == t \in pending /\ pc[t] \in Running

Accepts(t) == t \in pending

\* turn_stream: "no such turn" is a 404, which the page takes for an error.
Connect(k) ==
    /\ reader[k] = "asked"
    /\ \/ /\ Accepts(TurnOf(k))
          /\ reader' = [reader EXCEPT ![k] = "open"]
          /\ UNCHANGED wire
       \/ /\ ~Accepts(TurnOf(k))
          /\ reader' = [reader EXCEPT ![k] = "closed"]
          /\ wire' = [wire EXCEPT ![k] = "error"]
    /\ UNCHANGED <<task, pending, shell, faults>>

\* What the task returned, or an apology for what it raised.
Html(t) == IF At(t, "done") THEN "turn" ELSE "apology"

\* events: a phase goes to the page, which lists it; at the end the turn does.
\* The client of a cut stream gets nothing more.
Get(k) ==
    LET t == TurnOf(k) IN
    /\ reader[k] \in {"open", "cut"}
    /\ queue[t] # <<>>
    /\ queue' = [queue EXCEPT ![t] = Tail(@)]
    /\ \/ /\ Head(queue[t]) # End
          /\ UNCHANGED <<reader, wire>>
       \/ /\ Head(queue[t]) = End
          /\ reader' = [reader EXCEPT ![k] = "sent"]
          /\ wire' = IF reader[k] = "cut" THEN wire ELSE [wire EXCEPT ![k] = Html(t)]
    /\ UNCHANGED <<pc, attempts, ledger, replied, rows, pending, shell, faults>>

Closed(k) ==
    /\ reader' = [reader EXCEPT ![k] = "closed"]
    /\ UNCHANGED <<task, page, faults>>

\* The finally of events, when the turn was sent ...
Release(k) ==
    /\ reader[k] = "sent"
    /\ pending' = pending \ {TurnOf(k)}
    /\ Closed(k)

\* Faulty: the turn is forgotten when it was sent, and only then.
KeptIfCut(t) == pending

Forgotten(t) == pending \ {t}

\* ... and when the server notices that the client has gone.
Cancel(k) ==
    /\ reader[k] = "cut"
    /\ pending' = Forgotten(TurnOf(k))
    /\ Closed(k)

ServerStep(k) == Connect(k) \/ Get(k) \/ Release(k) \/ Cancel(k)

-----------------------------------------------------------------------------
(* Faults.                                                                 *)

Fault == faults < MaxFaults /\ faults' = faults + 1

\* The answer to the question is lost: its turn runs, and no stream reads it.
LoseShell(t) ==
    /\ Fault
    /\ shell[t] = "asked"
    /\ shell' = [shell EXCEPT ![t] = "none"]
    /\ UNCHANGED <<task, pending, reader, wire>>

\* A connection breaks: what it was carrying is lost, the page notices (the
\* server will).
Cut(k) ==
    /\ Fault
    /\ reader[k] \in {"asked", "open"} \/ (reader[k] = "sent" /\ wire[k] # "none")
    /\ reader' = [reader EXCEPT ![k] = IF @ = "asked" THEN "closed" ELSE "cut"]
    /\ wire' = [wire EXCEPT ![k] = "none"]
    /\ Shows(TurnOf(k), "lost")
    /\ UNCHANGED <<task, pending>>

\* The API process is restarted: "held in process memory" (PendingTurn).
Restart ==
    /\ Fault
    /\ pc' = [t \in Turns |-> IF pc[t] \in Running THEN "gone" ELSE pc[t]]
    /\ attempts' = [t \in Turns |-> 0]
    /\ ledger' = [t \in Turns |-> 0]
    /\ queue' = [t \in Turns |-> <<>>]
    /\ pending' = {}
    /\ reader' = [k \in Streams |->
                    IF reader[k] = "none" THEN reader[k] ELSE "closed"]
    /\ wire' = [k \in Streams |-> IF reader[k] \in {"asked", "open"} THEN "error" ELSE wire[k]]
    /\ UNCHANGED <<replied, rows, shell>>

Next ==
    \/ \E t \in Turns : TaskStep(t) \/ Ask(t) \/ Swap(t) \/ LoseShell(t)
    \/ \E k \in Streams : ServerStep(k) \/ Receive(k) \/ Cut(k)
    \/ Restart

\* The event loop runs every task and stream that can go on, calls time out and
\* Postgres answers; the browser swaps and listens.  Nobody has to ask, and nothing
\* has to break.
Fairness ==
    /\ \A t \in Turns : WF_vars(TaskStep(t) \/ Swap(t))
    /\ \A k \in Streams : WF_vars(ServerStep(k) \/ Receive(k))

Spec == Init /\ [][Next]_vars /\ Fairness

-----------------------------------------------------------------------------
(* Properties.                                                             *)

\* What the replies of a turn have cost.
Spent(t) ==
    (IF "resolver" \in replied[t] THEN Price["resolver"] ELSE 0)
        + (IF "writer" \in replied[t] THEN Price["writer"] ELSE 0)

\* "The row's cost is the turn's true cost across both calls" (_run_ask), of the
\* replies it had, retries or not, while other turns spend in the same ledger.
RowCostsTheTurn == \A r \in rows : r.cost = Spent(r.turn)

\* A shell never waits for ever, though its turn may have ended before a stream
\* was opened and two streams may share its feed; when nothing breaks it becomes
\* the turn, or the apology for what the turn raised.
PageIsAnswered ==
    \A t \in Turns :
        shell[t] = "waiting" ~>
            \/ shell[t] = "lost" /\ faults > 0
            \/ shell[t] = Html(t)

\* A turn that somebody once listened to is not held for ever, whether it was
\* sent, failed or was left by its listener.
PendingIsReleased ==
    \A t \in Turns :
        (\E k \in Streams : TurnOf(k) = t /\ reader[k] \in {"open", "cut", "sent"})
            ~> t \notin pending

=============================================================================
