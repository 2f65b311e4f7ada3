--------------------------- MODULE MCConversation ---------------------------
(* Two turns; a chunk replaced by another at date 2 and one in force         *)
(* throughout.  Dates 0 and 3 are outside the corpus.                        *)
EXTENDS Transcript

CONSTANTS t1, t2, c1, c2, c3

MCInForceOn == [d \in Days |-> IF d < 1 THEN {} ELSE IF d = 1 THEN {c1, c3} ELSE {c2, c3}]
MCRequested == [t \in Turns |-> IF t = t1 THEN 1 ELSE 2]
=============================================================================
