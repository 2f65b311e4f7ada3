--------------------------- MODULE ExclusiveLease ---------------------------
(***************************************************************************)
(* What the job queue promises, without epochs, timeouts or heartbeats: a  *)
(* job has at most one owner, nobody but the owner settles it, and it is   *)
(* recorded as succeeded only when the work of its present owner is        *)
(* finished.  JobQueue implements it.                                      *)
(***************************************************************************)
CONSTANTS Tasks, Agents, Nobody

VARIABLES status, owner, finished

leaseVars == <<status, owner, finished>>

Init == /\ status = [t \in Tasks |-> "absent"]
        /\ owner = [t \in Tasks |-> Nobody]
        /\ finished = [t \in Tasks |-> FALSE]

Submit(T) ==
    /\ \A t \in T : status[t] = "absent"
    /\ status' = [t \in Tasks |-> IF t \in T THEN "pending" ELSE status[t]]
    /\ UNCHANGED <<owner, finished>>

\* A free task gets an owner, or one that is leased changes hands.
Grant(t, a) ==
    /\ status[t] \in {"pending", "leased"}
    /\ status' = [status EXCEPT ![t] = "leased"]
    /\ owner' = [owner EXCEPT ![t] = a]
    /\ finished' = [finished EXCEPT ![t] = FALSE]

Finish(t) ==
    /\ owner[t] # Nobody
    /\ finished' = [finished EXCEPT ![t] = TRUE]
    /\ UNCHANGED <<status, owner>>

Complete(t) ==
    /\ owner[t] # Nobody
    /\ finished[t]
    /\ status' = [status EXCEPT ![t] = "succeeded"]
    /\ owner' = [owner EXCEPT ![t] = Nobody]
    /\ UNCHANGED finished

GiveUp(t, outcome) ==
    /\ owner[t] # Nobody
    /\ outcome \in {"pending", "dead"}
    /\ status' = [status EXCEPT ![t] = outcome]
    /\ owner' = [owner EXCEPT ![t] = Nobody]
    /\ finished' = [finished EXCEPT ![t] = FALSE]

\* The owners of the tasks T are gone; their leases are not.
Orphan(T) ==
    /\ owner' = [t \in Tasks |-> IF t \in T THEN Nobody ELSE owner[t]]
    /\ UNCHANGED <<status, finished>>

Bury(T) ==
    /\ \A t \in T : status[t] = "leased"
    /\ status' = [t \in Tasks |-> IF t \in T THEN "dead" ELSE status[t]]
    /\ owner' = [t \in Tasks |-> IF t \in T THEN Nobody ELSE owner[t]]
    /\ finished' = [t \in Tasks |-> t \notin T /\ finished[t]]

Revive(T) ==
    /\ \A t \in T : status[t] = "dead"
    /\ status' = [t \in Tasks |-> IF t \in T THEN "pending" ELSE status[t]]
    /\ UNCHANGED <<owner, finished>>

Next ==
    \/ \E T \in SUBSET Tasks : Submit(T) \/ Orphan(T) \/ Bury(T) \/ Revive(T)
    \/ \E t \in Tasks, a \in Agents : Grant(t, a)
    \/ \E t \in Tasks : Finish(t) \/ Complete(t)
    \/ \E t \in Tasks, outcome \in {"pending", "dead"} : GiveUp(t, outcome)

Spec == Init /\ [][Next]_leaseVars

=============================================================================
