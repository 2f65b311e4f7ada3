--------------------------- MODULE BackgroundWork ---------------------------
(***************************************************************************)
(* The two commands that are run again until their work is done: the       *)
(* worker of the job queue, and embed_corpus.  Each keeps what it has done *)
(* in tables of its own, so a behaviour is about one of them.              *)
(***************************************************************************)
EXTENDS JobQueue, EmbedCorpus

VARIABLE about  \* "jobs" or "vectors"

workVars == <<vars, embedVars, about>>

WorkInit ==
    /\ about \in {"jobs", "vectors"}
    /\ Init
    /\ EmbedInit
    /\ about = "jobs" <=> chunks = {}   \* so that nothing is to be embedded

WorkNext ==
    \/ about = "jobs" /\ Next /\ UNCHANGED <<embedVars, about>>
    \/ about = "vectors" /\ EmbedNext /\ UNCHANGED <<vars, about>>

WorkSpec == WorkInit /\ [][WorkNext]_workVars

FairWorkSpec ==
    /\ WorkSpec
    /\ about = "jobs" => Fairness
    /\ about = "vectors" => EmbedFairness

=============================================================================
