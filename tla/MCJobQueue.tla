----------------------------- MODULE MCJobQueue -----------------------------
(* JobQueue with two jobs and a worker of two slots beside a worker of one. *)
EXTENDS JobQueue

CONSTANTS j1, j2, w1, w2, s1, s2, s3, o1, o2

MCProcOf == [s \in Slots |-> IF s = s3 THEN w2 ELSE w1]
MCPriority == [j \in Jobs |-> IF j = j1 THEN 1 ELSE 0]
MCMaxAttempts == [j \in Jobs |-> IF j = j1 THEN 2 ELSE 1]
=============================================================================
