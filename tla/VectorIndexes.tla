---------------------------- MODULE VectorIndexes ----------------------------
(***************************************************************************)
(* The port of index/vector.py, "three implementations, one conformance    *)
(* suite": a process builds one of them and searches it.                   *)
(***************************************************************************)
EXTENDS VectorGraph, Measurement

ASSUME FlatAssumption ==
    /\ CosineDistance \in [Places \X Places -> Nat]
    /\ \A p, q \in Places : CosineDistance[<<p, q>>] = CosineDistance[<<q, p>>] /\ CosineDistance[<<p, p>>] = 0
    /\ \A v \in Corpora : v \in Seq(Places)
    /\ Lists \in Nat
    /\ Iterations \in Nat \ {0}
    /\ Searches \subseteq [point : Places, k : Nat \ {0}, effort : Nat \ {0},
                           filtered : BOOLEAN, admissible : SUBSET Nat]
    /\ \A q \in Searches : IsFiniteSet(q.admissible)

VARIABLE kind  \* the implementation that was chosen

portVars == <<vars, flatVars, kind>>

PortInit ==
    /\ kind \in {"hnsw", "flat"}
    /\ Init
    /\ FlatInit

PortNext ==
    \/ kind = "hnsw" /\ Next /\ UNCHANGED <<flatVars, kind>>
    \/ kind = "flat" /\ FlatNext /\ UNCHANGED <<vars, kind>>

PortSpec == PortInit /\ [][PortNext]_portVars

=============================================================================
