-------------------------- MODULE TurnStreamProofs --------------------------
(***************************************************************************)
(* Proofs about TurnStream, for every set of turns, every price and every  *)
(* number of attempts and faults: what a row says a turn cost, and that    *)
(* one stream at most sends a turn that has ended.                         *)
(***************************************************************************)
EXTENDS TurnStream, SequenceTheorems, TLAPS

Models == {"resolver", "writer"}
Ended == {"done", "raised", "gone"}

\* The variables of the tasks that the cost of a turn goes through.
CostTypeOK ==
    /\ pc \in [Turns -> Running \union Ended \union {"new"}]
    /\ ledger \in [Turns -> Nat]
    /\ replied \in [Turns -> SUBSET Models]
    /\ rows \subseteq [turn : Turns, cost : Nat]

\* A turn has had the replies of the calls that it has left behind, and no other.
RepliedInOrder ==
    \A t \in Turns :
        /\ pc[t] \in {"new", "thread", "greet", "resolve"} => replied[t] = {}
        /\ pc[t] \in {"find", "draft"} => "writer" \notin replied[t]

\* While a turn runs, its account in the ledger is what its replies have cost.
\* (Not for ever: a restart forgets the account, and the row keeps its cost.)
LedgerIsSpent == \A t \in Turns : pc[t] \in Running \union {"new"} => ledger[t] = Spent(t)

\* A turn has a row only when it will not reply any more.
RowsAreLate == \A r \in rows : pc[r.turn] \in Ended \union {"render"}

CostInv ==
    /\ CostTypeOK
    /\ RepliedInOrder
    /\ LedgerIsSpent
    /\ RowsAreLate
    /\ RowCostsTheTurn

-----------------------------------------------------------------------------
\* No turn has been asked, so none has replied or cost anything.
LEMMA InitCost == Init => CostInv
BY DEF Init, CostInv, CostTypeOK, RepliedInOrder, LedgerIsSpent, RowsAreLate,
       RowCostsTheTurn, Spent

\* Every step keeps the accounts: a reply is added to the ledger and to the
\* replies of its turn alike, and a row is written after the last reply.
LEMMA NextCost == CostInv /\ [Next]_vars => CostInv'
<1> SUFFICES ASSUME CostInv, [Next]_vars PROVE CostInv'
  OBVIOUS
<1> USE TurnStreamAssumption
    DEF CostInv, CostTypeOK, RepliedInOrder, LedgerIsSpent, RowsAreLate, RowCostsTheTurn,
        Spent, Models, Ended, Running
<1>1. CASE UNCHANGED <<pc, ledger, replied, rows>>
  BY <1>1
<1>2. ASSUME NEW t \in Turns, TaskStep(t) PROVE CostInv'
  <2>1. CASE Begin(t)
    BY <2>1 DEF Begin, At, GoTo
  <2>2. CASE TryAgain(t)
    BY <2>2, <1>1 DEF TryAgain
  <2>3. CASE Resolved(t)
    BY <2>3 DEF Resolved, Reply, At, GoTo
  <2>4. CASE Find(t)
    BY <2>4 DEF Find, At, GoTo
  <2>5. CASE Drafted(t)
    BY <2>5 DEF Drafted, Reply, At, GoTo
  <2>6. CASE Persist(t)
    <3>1. Spent(t) \in Nat /\ rows' = rows \union {[turn |-> t, cost |-> Spent(t)]}
      <4>1. Spent(t) \in Nat
        OBVIOUS
      <4>2. CASE At(t, "persist")
        BY <2>6, <4>2 DEF Persist, Total, At
      <4>3. CASE At(t, "greet")
        BY <2>6, <4>3 DEF Persist, At
      <4> QED BY <2>6, <4>1, <4>2, <4>3 DEF Persist
    <3>2. UNCHANGED <<ledger, replied>> /\ pc[t] \in {"persist", "greet"}
      BY <2>6 DEF Persist, At
    <3>3. pc' = [pc EXCEPT ![t] = "render"] \/ pc' = [pc EXCEPT ![t] = "raised"]
      BY <2>6 DEF Persist, Ends, GoTo
    <3>4. CostTypeOK' /\ RepliedInOrder'
      BY <3>1, <3>2, <3>3
    <3>5. LedgerIsSpent'
      BY <3>2, <3>3
    <3>6. RowsAreLate'
      <4> SUFFICES ASSUME NEW r \in rows' PROVE pc'[r.turn] \in Ended \union {"render"}
        OBVIOUS
      <4>1. CASE r \in rows
        BY <3>3, <4>1
      <4>2. CASE r \notin rows
        BY <3>1, <3>3, <4>2
      <4> QED BY <4>1, <4>2
    <3>7. RowCostsTheTurn'
      <4> SUFFICES ASSUME NEW r \in rows' PROVE r.cost = Spent(r.turn)'
        OBVIOUS
      <4>1. Spent(r.turn)' = Spent(r.turn)
        BY <3>2
      <4> QED BY <3>1, <4>1
    <3> QED BY <3>4, <3>5, <3>6, <3>7
  <2>7. CASE Render(t)
    BY <2>7 DEF Render, Ends, At, GoTo
  <2>8. CASE Fail(t)
    BY <2>8 DEF Fail, Ends, GoTo
  <2> QED BY <1>2, <2>1, <2>2, <2>3, <2>4, <2>5, <2>6, <2>7, <2>8 DEF TaskStep
<1>3. ASSUME NEW t \in Turns, Ask(t) PROVE CostInv'
  BY <1>3 DEF Ask, At, GoTo
<1>4. ASSUME NEW t \in Turns, Swap(t) \/ LoseShell(t) PROVE CostInv'
  BY <1>4, <1>1 DEF Swap, LoseShell, task
<1>5. ASSUME NEW k \in Streams, ServerStep(k) \/ Receive(k) \/ Cut(k) PROVE CostInv'
  BY <1>5, <1>1 DEF ServerStep, Connect, Get, Release, Cancel, Closed, Receive, Cut, task
<1>6. CASE Restart
  <2>1. replied' = replied /\ rows' = rows
    BY <1>6 DEF Restart
  <2>2. ledger' = [t \in Turns |-> 0]
    BY <1>6 DEF Restart
  <2>3. pc' \in [Turns -> Ended \union {"new"}]
    BY <1>6 DEF Restart
  <2>4. \A t \in Turns : /\ pc'[t] = "new" => pc[t] = "new"
                         /\ pc[t] \in Ended \union {"render"} => pc'[t] \in Ended
    BY <1>6 DEF Restart
  <2>5. RepliedInOrder'
    BY <2>1, <2>3, <2>4
  <2>6. LedgerIsSpent'
    BY <2>1, <2>2, <2>3, <2>4
  <2>7. CostTypeOK' /\ RowsAreLate' /\ RowCostsTheTurn'
    BY <2>1, <2>2, <2>3, <2>4
  <2> QED BY <2>5, <2>6, <2>7
<1>7. CASE UNCHANGED vars
  BY <1>7, <1>1 DEF vars, task
<1> QED BY <1>2, <1>3, <1>4, <1>5, <1>6, <1>7 DEF Next

\* CostInv holds in every reachable state.
THEOREM CostInvariant == Spec => []CostInv
BY InitCost, NextCost, PTL DEF Spec

\* The cost in the row of a turn is that of its own replies, however the calls
\* of several turns and their retries interleave in the one ledger, and whatever
\* restarts.
THEOREM RowsCostTheirTurns == Spec => []RowCostsTheTurn
<1>1. CostInv => RowCostsTheTurn
  BY DEF CostInv
<1> QED BY <1>1, CostInvariant, PTL

-----------------------------------------------------------------------------
(* The feed of a turn and the streams that share it.                       *)

Elements == {Phase, End}

\* A stream that has the turn, or the apology, to send or on its way.
Delivers(k) == reader[k] = "sent" \/ wire[k] \in {"turn", "apology"}

\* However many streams share the feed of a turn, one at most has sent it.
SentOnce ==
    \A j, k \in Streams : TurnOf(j) = TurnOf(k) /\ Delivers(j) /\ Delivers(k) => j = k

\* The page shows an answer only when the turn is in query_traces.
ShownIsRecorded ==
    \A t \in Turns : shell[t] = "turn" => \E r \in rows : r.turn = t

FeedTypeOK ==
    /\ pc \in [Turns -> Running \union Ended \union {"new"}]
    /\ queue \in [Turns -> Seq(Elements)]
    /\ reader \in [Streams -> {"none", "asked", "open", "cut", "sent", "closed"}]
    /\ wire \in [Streams -> {"none", "error", "turn", "apology"}]
    /\ shell \in [Turns -> {"none", "asked", "waiting", "lost", "turn", "apology"}]

\* Nothing follows the end of a feed.
EndIsLast == \A t \in Turns : \A i \in 1..Len(queue[t]) : queue[t][i] = End => i = Len(queue[t])

\* A turn that has not ended has no end in its feed, and nobody has sent it; nor
\* has anybody while the end is in the feed.
EndIsOnce ==
    \A t \in Turns :
        /\ pc[t] \notin Ended => \A i \in 1..Len(queue[t]) : queue[t][i] # End
        /\ \/ pc[t] \notin Ended
           \/ \E i \in 1..Len(queue[t]) : queue[t][i] = End
           => \A k \in Streams : TurnOf(k) = t => ~Delivers(k)

\* What is sent and shown as a turn is one that is done, and has its row.
ShownIsDone ==
    /\ \A k \in Streams : wire[k] = "turn" => pc[TurnOf(k)] = "done"
    /\ \A t \in Turns : shell[t] = "turn" => pc[t] = "done"
    /\ \A t \in Turns : pc[t] \in {"render", "done"} => \E r \in rows : r.turn = t

FeedInv == FeedTypeOK /\ EndIsLast /\ EndIsOnce /\ ShownIsDone /\ SentOnce

NoEnd(feed) == \A i \in 1..Len(feed) : feed[i] # End

\* A phase put into a feed, or several, is no end of it.
LEMMA SaysFeed ==
    ASSUME NEW feed \in Seq(Elements), NEW n \in Nat
    PROVE  LET said == feed \o [i \in 1..n |-> Phase] IN
           /\ said \in Seq(Elements)
           /\ NoEnd(feed) => NoEnd(said)
<1> DEFINE phases == [i \in 1..n |-> Phase]
<1>1. phases \in Seq(Elements) /\ Len(phases) = n
  BY DEF Elements
<1>2. \A i \in 1..n : phases[i] # End
  BY DEF Phase, End
<1> HIDE DEF phases
<1>3. feed \o phases \in Seq(Elements)
  BY <1>1
<1>4. ASSUME NoEnd(feed), NEW i \in 1..Len(feed \o phases) PROVE (feed \o phases)[i] # End
  <2>1. CASE i <= Len(feed)
    BY <1>1, <1>4, <2>1 DEF NoEnd
  <2>2. CASE i > Len(feed)
    <3>1. i - Len(feed) \in 1..n /\ (feed \o phases)[i] = phases[i - Len(feed)]
      BY <1>1, <1>4, <2>2
    <3> QED BY <1>2, <3>1
  <2> QED BY <1>1, <1>4, <2>1, <2>2
<1> QED BY <1>3, <1>4 DEF NoEnd, phases

\* The end closes a feed that had none.
LEMMA ClosedFeed ==
    ASSUME NEW feed \in Seq(Elements), NoEnd(feed)
    PROVE  /\ Append(feed, End) \in Seq(Elements)
           /\ \A i \in 1..Len(Append(feed, End)) :
                Append(feed, End)[i] = End => i = Len(Append(feed, End))
BY DEF NoEnd, Elements

\* What is left of a feed when one element was taken.
LEMMA TakenFeed ==
    ASSUME NEW feed \in Seq(Elements), feed # <<>>,
           \A i \in 1..Len(feed) : feed[i] = End => i = Len(feed)
    PROVE  /\ Tail(feed) \in Seq(Elements)
           /\ \A i \in 1..Len(Tail(feed)) : Tail(feed)[i] = End => i = Len(Tail(feed))
           /\ NoEnd(feed) => NoEnd(Tail(feed))
           /\ Head(feed) = End => NoEnd(Tail(feed))
           /\ (\E i \in 1..Len(Tail(feed)) : Tail(feed)[i] = End)
                => \E i \in 1..Len(feed) : feed[i] = End
           /\ Head(feed) = feed[1] /\ 1 \in 1..Len(feed)
<1> DEFINE rest == Tail(feed)
<1>1. /\ rest \in Seq(Elements) /\ Len(rest) = Len(feed) - 1
      /\ \A i \in 1..Len(rest) : rest[i] = feed[i + 1]
  BY HeadTailProperties
<1>2. Len(feed) \in Nat /\ Len(feed) # 0 /\ Head(feed) = feed[1]
  OBVIOUS
<1> HIDE DEF rest
<1>3. 1 \in 1..Len(feed) /\ \A i \in 1..Len(rest) : i \in Int /\ i + 1 \in 1..Len(feed)
  BY <1>1, <1>2
<1>4. \A i \in 1..Len(rest) : rest[i] = End => i = Len(rest)
  BY <1>1, <1>2, <1>3
<1>5. NoEnd(feed) => NoEnd(rest)
  BY <1>1, <1>3 DEF NoEnd
<1>6. Head(feed) = End => NoEnd(rest)
  <2>1. Head(feed) = End => Len(rest) = 0
    BY <1>1, <1>2, <1>3
  <2> QED BY <2>1 DEF NoEnd
<1>7. (\E i \in 1..Len(rest) : rest[i] = End) => \E i \in 1..Len(feed) : feed[i] = End
  BY <1>1, <1>3
<1> QED BY <1>1, <1>2, <1>3, <1>4, <1>5, <1>6, <1>7 DEF rest

\* The turn runs on, maybe with more phases in its feed, or it ends, and its feed.
RunsOn(t) ==
    /\ \E there \in Running : /\ GoTo(t, there)
                              /\ there = "render" => \E r \in rows' : r.turn = t
    /\ queue' = queue \/ \E n \in Nat : Says(t, n)

IsOver(t) == \E how \in {"done", "raised"} : Ends(t, how) /\ (how = "done" => pc[t] = "render")

\* A step of its task leaves a turn running or ends it, and neither sends nor
\* shows it; a turn that is about to be shown has its row.
LEMMA TaskKinds ==
    ASSUME FeedTypeOK, NEW t \in Turns, TaskStep(t)
    PROVE  /\ pc[t] \in Running
           /\ UNCHANGED <<reader, wire, shell>> /\ rows \subseteq rows'
           /\ RunsOn(t) \/ IsOver(t)
<1> USE DEF FeedTypeOK, Running, At, RunsOn, IsOver
<1>1. UNCHANGED <<reader, wire, shell>>
  BY DEF TaskStep, page
<1>2. CASE Begin(t)
  BY <1>1, <1>2 DEF Begin
<1>3. CASE TryAgain(t)
  <2>1. GoTo(t, pc[t]) /\ queue' = queue /\ rows' = rows /\ pc[t] \in {"resolve", "draft"}
    BY <1>3 DEF TryAgain, GoTo
  <2> QED BY <1>1, <2>1
<1>4. CASE Resolved(t) \/ Find(t) \/ Drafted(t)
  BY <1>1, <1>4 DEF Resolved, Find, Drafted, Reply
<1>5. CASE Persist(t)
  <2>1. CASE At(t, "persist")
    <3>1. [turn |-> t, cost |-> Total(t)] \in rows' /\ GoTo(t, "render") /\ queue' = queue
      BY <1>5, <2>1 DEF Persist
    <3> QED BY <1>1, <1>5, <2>1, <3>1 DEF Persist
  <2>2. CASE At(t, "greet")
    BY <1>1, <1>5, <2>2 DEF Persist
  <2> QED BY <1>5, <2>1, <2>2 DEF Persist
<1>6. CASE Render(t)
  BY <1>1, <1>6 DEF Render
<1>7. CASE Fail(t)
  BY <1>1, <1>7 DEF Fail
<1> QED BY <1>2, <1>3, <1>4, <1>5, <1>6, <1>7 DEF TaskStep

-----------------------------------------------------------------------------
\* No feed has an element, and no stream is open.
LEMMA InitFeed == Init => FeedInv
<1> SUFFICES ASSUME Init PROVE FeedInv
  OBVIOUS
<1>1. \A t \in Turns : queue[t] = <<>> /\ Len(queue[t]) = 0
  BY DEF Init
<1>2. <<>> \in Seq(Elements)
  OBVIOUS
<1>3. FeedTypeOK
  BY <1>2 DEF Init, FeedTypeOK
<1> QED BY <1>1, <1>3 DEF Init, FeedInv, EndIsLast, EndIsOnce, ShownIsDone, SentOnce,
                          Delivers, NoEnd, Running, Ended, Streams, TurnOf

\* The feed of one turn grows or is closed, and nothing is sent or shown.
LEMMA TaskKeepsFeed ==
    ASSUME FeedInv, NEW t \in Turns, TaskStep(t)
    PROVE  FeedInv'
<1> USE DEF FeedInv, FeedTypeOK
<1>1. pc[t] \in Running /\ pc[t] \notin Ended /\ NoEnd(queue[t])
  BY TaskKinds DEF Running, Ended, EndIsOnce, NoEnd
<1>2. UNCHANGED <<reader, wire, shell>> /\ rows \subseteq rows'
  BY TaskKinds
<1>3. PICK feed \in Seq(Elements), there \in Running \union {"done", "raised"} :
        /\ queue' = [queue EXCEPT ![t] = feed] /\ pc' = [pc EXCEPT ![t] = there]
        /\ \A i \in 1..Len(feed) : feed[i] = End => i = Len(feed)
        /\ there \in Running => NoEnd(feed)
        /\ there = "done" => pc[t] = "render"
        /\ there = "render" => \E r \in rows' : r.turn = t
  <2>1. CASE IsOver(t)
    <3>1. PICK there \in {"done", "raised"} :
            Ends(t, there) /\ (there = "done" => pc[t] = "render")
      BY <2>1 DEF IsOver
    <3> DEFINE feed == Append(queue[t], End)
    <3>2. feed \in Seq(Elements) /\ \A i \in 1..Len(feed) : feed[i] = End => i = Len(feed)
      BY <1>1, ClosedFeed
    <3>3. queue' = [queue EXCEPT ![t] = feed] /\ pc' = [pc EXCEPT ![t] = there]
      BY <3>1 DEF Ends, GoTo, Closing
    <3> HIDE DEF feed
    <3> QED BY <3>1, <3>2, <3>3 DEF Running
  <2>2. CASE RunsOn(t)
    <3>1. PICK there \in Running : /\ GoTo(t, there)
                                   /\ there = "render" => \E r \in rows' : r.turn = t
      BY <2>2 DEF RunsOn
    <3>2. PICK feed \in Seq(Elements) : queue' = [queue EXCEPT ![t] = feed] /\ NoEnd(feed)
      <4>1. CASE queue' = queue
        BY <4>1, <1>1
      <4>2. ASSUME NEW n \in Nat, Says(t, n)
            PROVE  \E feed \in Seq(Elements) :
                     queue' = [queue EXCEPT ![t] = feed] /\ NoEnd(feed)
        BY <4>2, <1>1, SaysFeed DEF Says
      <4> QED BY <2>2, <4>1, <4>2 DEF RunsOn
    <3> QED BY <3>1, <3>2 DEF GoTo, NoEnd, Running
  <2> QED BY <2>1, <2>2, TaskKinds
<1>4. FeedTypeOK'
  BY <1>2, <1>3 DEF Ended
<1>5. EndIsLast'
  BY <1>2, <1>3 DEF EndIsLast
<1>6. EndIsOnce'
  <2>1. \A k \in Streams : Delivers(k)' = Delivers(k)
    BY <1>2 DEF Delivers
  <2>2. \A k \in Streams : TurnOf(k) = t => ~Delivers(k)
    BY <1>1 DEF EndIsOnce
  <2>3. there \in Ended \/ NoEnd(feed)
    BY <1>3 DEF Ended
  <2> SUFFICES ASSUME NEW u \in Turns
               PROVE  /\ pc'[u] \notin Ended => NoEnd(queue'[u])
                      /\ pc'[u] \notin Ended \/ ~NoEnd(queue'[u])
                         => \A k \in Streams : TurnOf(k) = u => ~Delivers(k)
    BY <2>1 DEF EndIsOnce, NoEnd
  <2>4. CASE u = t
    BY <1>3, <2>2, <2>3, <2>4
  <2>5. CASE u # t
    <3>1. pc'[u] = pc[u] /\ queue'[u] = queue[u]
      BY <1>3, <2>5
    <3> QED BY <3>1 DEF EndIsOnce, NoEnd
  <2> QED BY <2>4, <2>5
<1>7. ShownIsDone'
  BY <1>1, <1>2, <1>3 DEF ShownIsDone, Running, Ended
<1>8. SentOnce'
  BY <1>2 DEF SentOnce, Delivers
<1> QED BY <1>4, <1>5, <1>6, <1>7, <1>8

\* A stream that takes the end of a feed is the only one to have it.
LEMMA GetKeepsFeed ==
    ASSUME FeedInv, NEW k \in Streams, Get(k)
    PROVE  FeedInv'
<1> USE DEF FeedInv, FeedTypeOK
<1> DEFINE t == TurnOf(k)
<1>1. t \in Turns
  BY DEF Streams, TurnOf
<1>2. /\ queue[t] \in Seq(Elements) /\ queue[t] # <<>> /\ reader[k] \in {"open", "cut"}
      /\ queue' = [queue EXCEPT ![t] = Tail(@)] /\ pc' = pc /\ shell' = shell /\ rows' = rows
  BY <1>1 DEF Get
<1> DEFINE rest == Tail(queue[t])
<1>3. /\ rest \in Seq(Elements)
      /\ \A i \in 1..Len(rest) : rest[i] = End => i = Len(rest)
      /\ NoEnd(queue[t]) => NoEnd(rest)
      /\ Head(queue[t]) = End => NoEnd(rest) /\ ~NoEnd(queue[t])
  BY <1>1, <1>2, TakenFeed DEF EndIsLast, NoEnd
<1>4. queue' = [queue EXCEPT ![t] = rest]
  BY <1>2
<1> HIDE DEF t, rest
<1>5. EndIsLast'
  BY <1>3, <1>4 DEF EndIsLast
<1>6. \A u \in Turns : NoEnd(queue[u]) => NoEnd(queue'[u])
  BY <1>1, <1>3, <1>4
<1>7. CASE Head(queue[t]) # End
  <2>1. UNCHANGED <<reader, wire>>
    BY <1>7 DEF Get, t
  <2>2. EndIsOnce' /\ SentOnce'
    BY <1>2, <1>6, <2>1 DEF EndIsOnce, SentOnce, Delivers, NoEnd
  <2> QED BY <1>2, <1>3, <1>4, <1>5, <2>1, <2>2 DEF ShownIsDone
<1>8. CASE Head(queue[t]) = End
  <2>1. /\ reader' = [reader EXCEPT ![k] = "sent"]
        /\ wire' = IF reader[k] = "cut" THEN wire ELSE [wire EXCEPT ![k] = Html(t)]
    BY <1>8 DEF Get, t
  <2>2. Html(t) \in {"turn", "apology"} /\ (Html(t) = "turn" => pc[t] = "done")
    BY DEF Html, At
  <2>3. FeedTypeOK'
    BY <1>2, <1>3, <1>4, <2>1, <2>2
  <2>4. NoEnd(rest) /\ ~NoEnd(queue[t]) /\ pc[t] \in Ended
    BY <1>1, <1>3, <1>8 DEF EndIsOnce, NoEnd
  <2>5. \A j \in Streams : TurnOf(j) = t => ~Delivers(j)
    BY <1>1, <2>4 DEF EndIsOnce, NoEnd
  <2>6. \A j \in Streams : Delivers(j)' => Delivers(j) \/ j = k
    BY <2>1, <2>2 DEF Delivers
  <2>7. SentOnce'
    BY <2>5, <2>6 DEF SentOnce, t
  <2>8. EndIsOnce'
    <3> SUFFICES ASSUME NEW u \in Turns
                 PROVE  /\ pc[u] \notin Ended => NoEnd(queue'[u])
                        /\ pc[u] \notin Ended \/ ~NoEnd(queue'[u])
                           => \A j \in Streams : TurnOf(j) = u => ~Delivers(j)'
      BY <1>2 DEF EndIsOnce, NoEnd
    <3>1. CASE u = t
      BY <1>1, <1>4, <2>4, <3>1
    <3>2. CASE u # t
      <4>1. queue'[u] = queue[u]
        BY <1>4, <3>2
      <4> QED BY <2>6, <3>2, <4>1 DEF EndIsOnce, NoEnd, t
    <3> QED BY <3>1, <3>2
  <2>9. ShownIsDone'
    BY <1>2, <2>1, <2>2 DEF ShownIsDone, t
  <2> QED BY <1>5, <2>3, <2>7, <2>8, <2>9
<1> QED BY <1>7, <1>8

\* A step that neither ends a turn nor sends it, nor puts anything into a feed.
Quiet ==
    /\ queue' = queue /\ rows' = rows
    /\ \A t \in Turns : pc'[t] = pc[t] \/ (pc[t] = "new" /\ pc'[t] = "thread")
    /\ \A k \in Streams : /\ reader'[k] = "sent" => reader[k] = "sent"
                          /\ wire'[k] \in {"turn", "apology"} => wire'[k] = wire[k]
    /\ \A t \in Turns : shell'[t] = "turn" => shell[t] = "turn" \/ pc[t] = "done"

\* It leaves everything as it was.
LEMMA QuietKeepsFeed ==
    ASSUME FeedInv, FeedTypeOK', Quiet
    PROVE  FeedInv'
<1>1. \A k \in Streams : Delivers(k)' => Delivers(k)
  BY DEF Quiet, Delivers
<1>2. EndIsLast' /\ SentOnce'
  BY <1>1 DEF FeedInv, EndIsLast, SentOnce, Quiet
<1>3. \A t \in Turns : pc'[t] \in Ended <=> pc[t] \in Ended
  BY DEF Quiet, Ended
<1>4. EndIsOnce'
  BY <1>1, <1>3 DEF FeedInv, EndIsOnce, Quiet
<1>5. ShownIsDone'
  BY DEF FeedInv, ShownIsDone, Streams, TurnOf, Quiet
<1> QED BY <1>2, <1>4, <1>5 DEF FeedInv

\* A restart empties every feed and closes every stream.
LEMMA RestartKeepsFeed ==
    ASSUME FeedInv, Restart
    PROVE  FeedInv'
<1> USE DEF FeedInv, FeedTypeOK
<1>1. /\ queue' = [t \in Turns |-> <<>>] /\ shell' = shell /\ rows' = rows
      /\ pc' = [t \in Turns |-> IF pc[t] \in Running THEN "gone" ELSE pc[t]]
      /\ reader' = [k \in Streams |-> IF reader[k] = "none" THEN reader[k] ELSE "closed"]
      /\ wire' = [k \in Streams |->
                    IF reader[k] \in {"asked", "open"} THEN "error" ELSE wire[k]]
  BY DEF Restart
<1>2. \A t \in Turns : queue'[t] = <<>> /\ Len(queue'[t]) = 0
  BY <1>1
<1>3. <<>> \in Seq(Elements)
  OBVIOUS
<1>4. FeedTypeOK'
  <2>1. pc' \in [Turns -> Running \union Ended \union {"new"}]
    BY <1>1 DEF Ended
  <2> QED BY <1>1, <1>3, <2>1
<1>5. \A k \in Streams : Delivers(k)' => Delivers(k)
  BY <1>1 DEF Delivers
<1>6. SentOnce'
  BY <1>5 DEF SentOnce
<1>7. \A t \in Turns : /\ pc'[t] \notin Ended => pc[t] \notin Ended
                       /\ pc[t] \in Ended => pc'[t] = pc[t]
                       /\ pc'[t] \in {"render", "done"} => pc[t] = "done"
  BY <1>1 DEF Running, Ended
<1>8. EndIsLast' /\ EndIsOnce'
  BY <1>2, <1>5, <1>7 DEF EndIsLast, EndIsOnce
<1>9. ShownIsDone'
  BY <1>1, <1>7 DEF ShownIsDone, Streams, TurnOf, Ended
<1> QED BY <1>4, <1>6, <1>8, <1>9

\* Every step keeps the feeds, the streams and the page together.
LEMMA NextFeed == FeedInv /\ [Next]_vars => FeedInv'
<1> SUFFICES ASSUME FeedInv, [Next]_vars PROVE FeedInv'
  OBVIOUS
<1>1. FeedTypeOK
  BY DEF FeedInv
<1> USE <1>1
<1>2. ASSUME NEW t \in Turns, TaskStep(t) PROVE FeedInv'
  BY <1>2, TaskKeepsFeed
<1>3. ASSUME NEW t \in Turns, Ask(t) PROVE FeedInv'
  <2>1. FeedTypeOK'
    BY <1>3 DEF FeedTypeOK, Ask, At, GoTo, Running
  <2>2. Quiet
    BY <1>3 DEF FeedTypeOK, Quiet, Ask, At, GoTo
  <2> QED BY <2>1, <2>2, QuietKeepsFeed
<1>4. ASSUME NEW t \in Turns, Swap(t) PROVE FeedInv'
  <2>1. FeedTypeOK'
    BY <1>4 DEF FeedTypeOK, Swap, task
  <2>2. Quiet
    BY <1>4 DEF FeedTypeOK, Quiet, Swap, task
  <2> QED BY <2>1, <2>2, QuietKeepsFeed
<1>5. ASSUME NEW t \in Turns, LoseShell(t) PROVE FeedInv'
  <2>1. FeedTypeOK' /\ Quiet
    BY <1>5 DEF FeedTypeOK, Quiet, LoseShell, task
  <2> QED BY <2>1, QuietKeepsFeed
<1>6. ASSUME NEW k \in Streams, Connect(k) \/ Release(k) \/ Cancel(k) PROVE FeedInv'
  <2>1. FeedTypeOK' /\ Quiet
    BY <1>6 DEF FeedTypeOK, Quiet, Connect, Release, Cancel, Closed, task, page
  <2> QED BY <2>1, QuietKeepsFeed
<1>7. ASSUME NEW k \in Streams, Get(k) PROVE FeedInv'
  BY <1>7, GetKeepsFeed
<1>8. ASSUME NEW k \in Streams, Receive(k) PROVE FeedInv'
  <2>1. TurnOf(k) \in Turns /\ (wire[k] = "turn" => pc[TurnOf(k)] = "done")
    BY DEF FeedInv, ShownIsDone, Streams, TurnOf
  <2>2. FeedTypeOK'
    BY <1>8, <2>1 DEF FeedTypeOK, Receive, Shows, task
  <2>3. Quiet
    BY <1>8, <2>1 DEF FeedTypeOK, Quiet, Receive, Shows, task
  <2> QED BY <2>2, <2>3, QuietKeepsFeed
<1>9. ASSUME NEW k \in Streams, Cut(k) PROVE FeedInv'
  <2>1. TurnOf(k) \in Turns
    BY DEF Streams, TurnOf
  <2>2. FeedTypeOK'
    BY <1>9, <2>1 DEF FeedTypeOK, Cut, Shows, task
  <2>3. Quiet
    BY <1>9, <2>1 DEF FeedTypeOK, Quiet, Cut, Shows, task
  <2> QED BY <2>2, <2>3, QuietKeepsFeed
<1>10. CASE Restart
  BY <1>10, RestartKeepsFeed
<1>11. CASE UNCHANGED vars
  <2>1. FeedTypeOK' /\ Quiet
    BY <1>11 DEF FeedTypeOK, Quiet, vars, task, page
  <2> QED BY <2>1, QuietKeepsFeed
<1> QED BY <1>2, <1>3, <1>4, <1>5, <1>6, <1>7, <1>8, <1>9, <1>10, <1>11 DEF Next, ServerStep

\* FeedInv holds in every reachable state.
THEOREM FeedInvariant == Spec => []FeedInv
BY InitFeed, NextFeed, PTL DEF Spec

\* However many streams are opened for a turn, and whatever is cut, cancelled
\* or restarted, one of them at most is given what the turn became.
THEOREM SentAtMostOnce == Spec => []SentOnce
<1>1. FeedInv => SentOnce
  BY DEF FeedInv
<1> QED BY <1>1, FeedInvariant, PTL

\* The page shows the answer of a turn only when its row is in query_traces.
THEOREM ShownTurnsAreRecorded == Spec => []ShownIsRecorded
<1>1. FeedInv => ShownIsRecorded
  BY DEF FeedInv, ShownIsDone, ShownIsRecorded
<1> QED BY <1>1, FeedInvariant, PTL

=============================================================================
