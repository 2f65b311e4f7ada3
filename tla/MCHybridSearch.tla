--------------------------- MODULE MCHybridSearch ---------------------------
(* Three chunks: "a" is in all of them, "b" in the first and the last.  In
   base 2, two bytes begin at 2: the gap of "b", and the frequencies of the
   last text.  Three worker processes fetch one snapshot.  Outlines of four
   levels, with ten letters at the top and nine capitals. *)
EXTENDS CorpusFiles

CONSTANTS f1, f2, f3

Text(a, b) == [t \in {"a", "b"} |-> IF t = "a" THEN a ELSE b]
MCTerms == <<"a", "b">>
MCTexts == [d \in {1, 2, 4} |-> IF d = 1 THEN Text(1, 1) ELSE IF d = 2 THEN Text(1, 0) ELSE Text(3, 2)]

\* Rarer terms, more of them, and shorter texts count for more.
MCGain(n, df, tf, len) == (12 * (n + 1 - df) * tf) \div (tf + len)

MCWidths == <<10, 2, 2, 9>>

MCQuestions == {<<"a">>, <<"a", "b", "b">>, <<"c">>}
=============================================================================
