---------------------------- MODULE CiteOrRefuse ----------------------------
(***************************************************************************)
(* What CiteDelta promises of a question: it is answered once, for one     *)
(* date, with sources that were in force on that date and nothing else, or *)
(* it is refused, or it stays without a verdict because something failed.  *)
(* A verdict is never changed.  Conversation implements it.                *)
(***************************************************************************)
CONSTANTS Questions, Dates, Sources, Force

VARIABLE verdict

Pending == [kind |-> "pending"]

Init == verdict = [q \in Questions |-> Pending]

Decide(q, v) == /\ verdict[q] = Pending
                /\ verdict' = [verdict EXCEPT ![q] = v]

Answer(q) == \E d \in Dates : \E S \in SUBSET (Sources \intersect Force[d]) :
                Decide(q, [kind |-> "answer", day |-> d, sources |-> S])

Refuse(q) == \E d \in Dates : Decide(q, [kind |-> "refusal", day |-> d])

Next == \E q \in Questions : Answer(q) \/ Refuse(q)

Spec == Init /\ [][Next]_verdict

=============================================================================
