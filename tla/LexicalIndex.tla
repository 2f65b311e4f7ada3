---------------------------- MODULE LexicalIndex ----------------------------
(***************************************************************************)
(* The lexical index of index/lexical.py: its file, written so that it is  *)
(* never seen in part, its postings, and the search in a mapped file.      *)
(*                                                                         *)
(* One process builds the index (cli.py: index), another has it open.  A   *)
(* text is how often each term occurs in it, and a file the sequence of    *)
(* its sections.  A process may be killed, and the power cut, between any  *)
(* two steps.                                                              *)
(***************************************************************************)
EXTENDS Integers, Sequences, FiniteSets, SequencesExt

CONSTANTS
    Terms,             \* all terms, sorted
    Texts,             \* of each chunk there may ever be, how often it holds each
    Base,              \* a byte of a varint says that many values, 2^7
    Gain(_, _, _, _),  \* what a term adds to a BM25 score, by n_docs, df, tf and length
    MaxBuilds          \* bound: how often the index is built

Chunks == DOMAIN Texts

ASSUME IndexAssumption ==
    /\ IsFiniteSet(Chunks) /\ Chunks \subseteq Nat
    /\ Terms \in Seq(STRING) /\ IsInjective(Terms)
    /\ Texts \in [Chunks -> [ToSet(Terms) -> Nat]]
    /\ Base \in Nat \ {0, 1}
    /\ MaxBuilds \in Nat

VARIABLES
    chunks,   \* the table chunks
    pc,       \* what the building process does next
    files,    \* every file ever written, the last of them perhaps still .tmp
    path,     \* the file at `path`, 0 for none
    durable,  \* the files that may be at `path` after a power cut
    built,    \* the last file whose build has returned
    mapped    \* the file the reading process has mapped, 0 for none

indexVars == <<chunks, pc, files, path, durable, built, mapped>>

IndexInit ==
    /\ chunks \in SUBSET Chunks
    /\ pc = "idle"
    /\ files = <<>>
    /\ path = 0
    /\ durable = {0}
    /\ built = 0
    /\ mapped = 0

-----------------------------------------------------------------------------
(* Orders and sums.                                                        *)

AtMost(a, b) == IF a < b THEN a ELSE b

Total(s) ==
    LET upto[n \in 0..Len(s)] == IF n = 0 THEN 0 ELSE upto[n - 1] + s[n]
    IN  upto[Len(s)]

\* Faulty: the lowest score comes first.
AheadLowest(score, i, j) == score[i] < score[j] \/ (score[i] = score[j] /\ i < j)

Ahead(score, i, j) == score[i] > score[j] \/ (score[i] = score[j] /\ i < j)

\* What has a score, the best first; of equals the lower first.
Ranking(score) ==
    LET S == DOMAIN score
    IN  [n \in 1..Cardinality(S) |->
            CHOOSE i \in S : Cardinality({j \in S : Ahead(score, j, i)}) = n - 1]

Ascending(S) == Ranking([i \in S |-> 0])

-----------------------------------------------------------------------------
(* varint.py                                                               *)

Varint(v) ==
    LET bytes[n \in 0..v] == IF n < Base THEN <<n>>
                             ELSE <<Base + (n % Base)>> \o bytes[n \div Base]
    IN  bytes[v]

\* The value that begins at `pos`, and where the next one does.
ReadVarint(buf, pos) ==
    LET read[p \in DOMAIN buf] ==
            IF buf[p] < Base THEN [value |-> buf[p], next |-> p + 1]
            ELSE [read[p + 1] EXCEPT !.value = buf[p] - Base + Base * @]
    IN  read[pos]

-----------------------------------------------------------------------------
(* build_index                                                             *)

\* The rows are read ORDER BY id; documents are numbered from 0.
Documents(S) == Ascending(S)

Length(d) == Total([n \in DOMAIN Terms |-> Texts[d][Terms[n]]])

\* An occurrence adds to the score: idf, the logarithm of something above 1, is positive.
ASSUME GainAssumption ==
    \A n \in 1..Cardinality(Chunks), d \in Chunks, t \in ToSet(Terms) : \A df \in 1..n :
        Texts[d][t] > 0 => Gain(n, df, Texts[d][t], Length(d)) \in Nat \ {0}

Holding(docs, t) == Ascending({i \in 0..Len(docs) - 1 : Texts[docs[i + 1]][t] > 0})

Gap(list, n) == IF n = 1 THEN list[1] ELSE list[n] - list[n - 1]

Encoded(docs, t) ==
    LET list == Holding(docs, t)
    IN  FlattenSeq([n \in DOMAIN list |->
                       Varint(Gap(list, n)) \o Varint(Texts[docs[list[n] + 1]][t])])

Vocabulary(docs) ==
    LET held == Ascending({n \in DOMAIN Terms : Holding(docs, Terms[n]) # <<>>})
    IN  [m \in DOMAIN held |-> Terms[held[m]]]

Blob(docs, terms) == FlattenSeq([n \in DOMAIN terms |-> Encoded(docs, terms[n])])

Dictionary(docs) ==
    LET terms == Vocabulary(docs)
        before(t) == SubSeq(terms, 1, (CHOOSE m \in DOMAIN terms : terms[m] = t) - 1)
    IN  [t \in ToSet(terms) |-> [df |-> Len(Holding(docs, t)), off |-> Len(Blob(docs, before(t))),
                                 len |-> Len(Encoded(docs, t))]]

Sections == 4

Payload(docs) ==
    <<docs, [i \in DOMAIN docs |-> Length(docs[i])],
      Dictionary(docs), Blob(docs, Vocabulary(docs))>>

\* The rows are read and the temporary file is opened, truncated.
Begin ==
    /\ pc = "idle"
    /\ Len(files) < MaxBuilds
    /\ files' = Append(files, [of |-> Documents(chunks), data |-> <<>>, kept |-> 0])
    /\ pc' = "write"
    /\ UNCHANGED <<chunks, path, durable, built, mapped>>

Tmp == Len(files)

Write ==
    /\ pc = "write"
    /\ Len(files[Tmp].data) < Sections
    /\ files' = [files EXCEPT ![Tmp].data = Append(@, Payload(files[Tmp].of)[Len(@) + 1])]
    /\ UNCHANGED <<chunks, pc, path, durable, built, mapped>>

\* Faulty: the data is not synced.
KeptBefore(file) == file.kept

Kept(file) == Len(file.data)

Fsync ==
    /\ pc = "write"
    /\ Len(files[Tmp].data) = Sections
    /\ files' = [files EXCEPT ![Tmp].kept = Kept(files[Tmp])]
    /\ pc' = "replace"
    /\ UNCHANGED <<chunks, path, durable, built, mapped>>

Renamed(new) == durable \union {new}

Replace ==
    /\ pc = "replace"
    /\ path' = Tmp
    /\ durable' = Renamed(Tmp)
    /\ pc' = "sync"
    /\ UNCHANGED <<chunks, files, built, mapped>>

\* Faulty: the directory is not synced.
NotSettled == durable

Settled == {path}

SyncDirectory ==
    /\ pc = "sync"
    /\ durable' = Settled
    /\ built' = Tmp
    /\ pc' = "idle"
    /\ UNCHANGED <<chunks, files, path, mapped>>

-----------------------------------------------------------------------------
(* The world: ingestion adds chunks, processes die.                        *)

AddChunk(d) ==
    /\ d \notin chunks
    /\ chunks' = chunks \union {d}
    /\ UNCHANGED <<pc, files, path, durable, built, mapped>>

Kill ==
    /\ pc # "idle"
    /\ pc' = "idle"
    /\ UNCHANGED <<chunks, files, path, durable, built, mapped>>

\* Of a file, what was synced is left, and perhaps more.
PowerCut(p, n) ==
    /\ p \in durable
    /\ p # 0 => n \in files[p].kept..Len(files[p].data)
    /\ path' = p
    /\ durable' = {p}
    /\ files' = IF p = 0 THEN files ELSE [files EXCEPT ![p].data = SubSeq(@, 1, n)]
    /\ pc' = "idle"
    /\ mapped' = 0
    /\ UNCHANGED <<chunks, built>>

-----------------------------------------------------------------------------
(* LexicalIndex                                                            *)

Open ==
    /\ mapped = 0
    /\ path # 0
    /\ mapped' = path
    /\ UNCHANGED <<chunks, pc, files, path, durable, built>>

Close ==
    /\ mapped # 0
    /\ mapped' = 0
    /\ UNCHANGED <<chunks, pc, files, path, durable, built>>

Ids(file) == file.data[1]

\* The pairs of document and frequency in the postings of a term.
Postings(file, t) ==
    LET entry == file.data[3][t]
        view == SubSeq(file.data[4], entry.off + 1, entry.off + entry.len)
        pair(last) == LET gap == ReadVarint(view, last.next)
                          tf == ReadVarint(view, gap.next)
                      IN  [next |-> tf.next, doc |-> last.doc + gap.value, tf |-> tf.value]
        read[n \in 0..entry.df] ==
            IF n = 0 THEN [next |-> 1, doc |-> 0, tf |-> 0] ELSE pair(read[n - 1])
    IN  IF t \in DOMAIN file.data[3] THEN [n \in 1..entry.df |-> read[n]] ELSE <<>>

\* compile_filter
Mask(file, admissible) == {i \in 0..Len(Ids(file)) - 1 : Ids(file)[i + 1] \in admissible}

\* What a document has from a term, and from the terms of a query, each as often as it
\* occurs there.
TermScore(file, t, i) ==
    LET list == Postings(file, t)
    IN  Total([m \in DOMAIN list |->
                  IF list[m].doc = i
                  THEN Gain(Len(Ids(file)), file.data[3][t].df, list[m].tf, file.data[2][i + 1])
                  ELSE 0])

Score(file, terms, i) == Total([n \in DOMAIN terms |-> TermScore(file, terms[n], i)])

Best(score, k) ==
    LET all == Ranking(score)
    IN  [n \in 1..AtMost(k, Cardinality(DOMAIN score)) |-> all[n]]

\* Faulty: the filter comes after the cut.
FilteredAfter(score, mask, k) == SelectSeq(Best(score, k), LAMBDA i : i \in mask)

Filtered(score, mask, k) == Best([i \in DOMAIN score \intersect mask |-> score[i]], k)

\* search: the chunks that are found, best first.
SearchLexical(file, terms, admissible, k) ==
    LET matches == {p.doc : p \in UNION {ToSet(Postings(file, t)) : t \in ToSet(terms)}}
        score == [i \in matches |-> Score(file, terms, i)]
        found == Filtered(score, Mask(file, admissible), k)
    IN  [n \in DOMAIN found |-> Ids(file)[found[n] + 1]]

IndexNext ==
    \/ Begin \/ Write \/ Fsync \/ Replace \/ SyncDirectory
    \/ \E d \in Chunks : AddChunk(d)
    \/ Kill
    \/ \E p \in 0..Len(files), n \in 0..Sections : PowerCut(p, n)
    \/ Open \/ Close

-----------------------------------------------------------------------------
(* Properties.                                                             *)

\* Files are numbered as they are begun; only a file that is synced is renamed, what is at the
\* path is among what may be left there, and a build that returned has renamed its file.
IndexTypeOK ==
    /\ chunks \subseteq Chunks
    /\ pc \in {"idle", "write", "replace", "sync"}
    /\ path \in durable /\ durable \subseteq 0..Len(files)
    /\ \A n \in DOMAIN files : files[n].kept <= Len(files[n].data)
    /\ mapped \in 0..Len(files)
    /\ built <= Len(files)

Whole(n) == files[n].data = Payload(files[n].of)

\* "The index is never observed half-written" (_write_atomic): what is at the path, and what
\* a process has mapped, is a whole index, whatever was killed, cut or rebuilt meanwhile.
NeverHalfWritten ==
    /\ path # 0 => Whole(path)
    /\ mapped # 0 => Whole(mapped)

\* An index whose build has returned is there after any power cut, or a newer one is ("fsync
\* the directory too, or the rename itself may not survive a power cut").
BuildsLast == path >= built

=============================================================================
