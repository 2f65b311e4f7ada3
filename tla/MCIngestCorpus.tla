--------------------------- MODULE MCIngestCorpus ---------------------------
(* Two sections and two workers; on the second date the second section is removed, or amended. *)
EXTENDS IngestCorpus

CONSTANTS secA, secB, w1, w2, s1, s2

MCSectionOrder == <<secA, secB>>
Text(d) == [from |-> d, kind |-> "text"]
MCHistory(kind) == [sec \in Sections |-> IF sec = secA THEN {Text(1)} ELSE {Text(1), [from |-> 2, kind |-> kind]}]
MCHistories == {MCHistory("reserved"), MCHistory("gone")}
MCAmended == {MCHistory("text")}
MCProcOf == [s \in Slots |-> IF s = s1 THEN w1 ELSE w2]
MCPriority == [j \in Jobs |-> 0]
MCMaxAttempts == [j \in Jobs |-> IF j = 1 THEN 2 ELSE 1]
=============================================================================
