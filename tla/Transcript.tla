----------------------------- MODULE Transcript -----------------------------
(***************************************************************************)
(* A conversation as it is rendered from its rows (api/app.py              *)
(* _turns_for_thread and _render_thread_html, web/transcript.py), and an   *)
(* answer as the evaluation grades it (eval/graders.py).  Both are         *)
(* functions of a state of Conversation, and judge what it has done.       *)
(***************************************************************************)
EXTENDS Conversation, SequencesExt

-----------------------------------------------------------------------------
(* The thread.                                                             *)

\* The `limit` of _turns_for_thread.
ThreadLimit == 40

\* The oldest rows in the order of their numbers.
Thread ==
    LET ordered == SetToSortSeq(rows, LAMBDA q, r : q.number < r.number)
    IN  SubSeq(ordered, 1, IF Len(ordered) < ThreadLimit THEN Len(ordered) ELSE ThreadLimit)

\* A turn of the record (TurnView); `continuation` leaves its date out of the margin.
TurnView(thread, n) ==
    [kind |-> "turn", turn |-> thread[n].turn, asOf |-> thread[n].asOf,
     citations |-> Citations(thread[n]),
     continuation |-> n > 1 /\ thread[n - 1].asOf = thread[n].asOf]

\* The dates since which the chunks ingested by the start of the process are in force.
AmendmentDates ==
    {d \in Days : \E c \in Before : c \in InForceOn[d] /\ \A e \in Days : c \in InForceOn[e] => d <= e}

\* Those strictly between two dates.
AmendmentsBetween(a, b) ==
    Cardinality({d \in AmendmentDates : (a < d /\ d < b) \/ (b < d /\ d < a)})

RuptureAt(previous, d) ==
    [kind |-> "rupture", asOf |-> d, amendments |-> AmendmentsBetween(previous, d),
     earlier |-> d < previous]

\* Before each turn about another date than the last there is a rupture.
BuildTranscript(turns) ==
    FoldLeft(LAMBDA out, turn :
                IF out # <<>> /\ Last(out).asOf # turn.asOf
                THEN out \o <<RuptureAt(Last(out).asOf, turn.asOf), turn>>
                ELSE Append(out, turn),
             <<>>, turns)

\* _render_thread_html
RenderedThread == BuildTranscript([n \in DOMAIN Thread |-> TurnView(Thread, n)])

-----------------------------------------------------------------------------
(* The graders.                                                            *)

\* _citations_hold: what an answer cites was shown, and its quote is in the text of it.
CitationsHold(t) ==
    result[t].outcome = "answered" =>
        result[t].cited \subseteq shown[t] \ result[t].misquoted

-----------------------------------------------------------------------------
(* What comments in the source say and the code does not do.                *)

\* service.py: "Attach each verified quote to its Citation".  Every answer passes the grader
\* that verifies the quotes once more, "from the outside".
QuotesAreVerified == \A t \in Turns : CitationsHold(t)

\* app.py _run_turn_html: "The fragment includes a rupture when this turn's
\* as-of differs from the previous turn's".  The page of a turn that has just run shows a
\* rupture where the transcript, "rendered from the database exactly as the live turn was
\* rendered from memory", has one.
RuptureIsShown ==
    \A t \in Turns : At(t, "done") /\ view[t] \in {"plain", "rupture"} =>
        \E n \in DOMAIN RenderedThread :
            /\ RenderedThread[n].kind = "turn" /\ RenderedThread[n].turn = t
            /\ view[t] = "rupture" <=> n > 1 /\ RenderedThread[n - 1].kind = "rupture"

=============================================================================
