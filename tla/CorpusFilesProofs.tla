-------------------------- MODULE CorpusFilesProofs --------------------------
(***************************************************************************)
(* Proofs about the files of the corpus, for any texts, builds, processes, *)
(* parts and faults.                                                       *)
(*                                                                         *)
(* The file of the lexical index is whole, and lasts, whatever is killed   *)
(* or cut.  What a payload is made of plays no part: that a file begins    *)
(* like its payload, and that a file which can be found is long enough,    *)
(* and synced, is what the steps preserve.                                 *)
(*                                                                         *)
(* What a search then finds is what the texts say.  The gaps and varints   *)
(* of a term, laid end to end in the blob, are found again by the offsets  *)
(* of the dictionary and read back as the documents that hold it, so that  *)
(* the scores of a file are the relevances by the texts; documents have    *)
(* numbers in the order of their ids, so that ties break alike.  The       *)
(* fusion gives each chunk the sum of its reciprocal ranks, and these get  *)
(* smaller with the rank.                                                  *)
(*                                                                         *)
(* Of a snapshot in the cache two things are carried along.  Of every file *)
(* that is not synced whole, the process that opened it last is still      *)
(* writing it, unless one died of that.  And as long as no process has     *)
(* opened the temporary file while another was yet to rename it, a file    *)
(* that may ever be found at the path of the snapshot is synced whole and  *)
(* is nobody's temporary file.                                             *)
(*                                                                         *)
(* A tracker that has read a section so far knows the path, unless there   *)
(* is a doubt; and then still the top level, or that it came one too       *)
(* early.                                                                  *)
(***************************************************************************)
EXTENDS CorpusFiles, ListLemmas

-----------------------------------------------------------------------------
(* The file of the lexical index.                                          *)

\* What an index is built from, what it is made of, and its files.
Docs == {Documents(S) : S \in SUBSET Chunks}
IndexParts == {Payload(e[1])[e[2]] : e \in Docs \X (1..Sections)}
IndexFiles == [of : Docs, data : Seq(IndexParts), kept : Nat]

\* The files are well formed, and there is one while a build is under way.
IndexTypes ==
    /\ chunks \subseteq Chunks
    /\ pc \in {"idle", "write", "replace", "sync"}
    /\ files \in Seq(IndexFiles)
    /\ path \in 0..Len(files)
    /\ durable \subseteq 0..Len(files)
    /\ mapped \in 0..Len(files)
    /\ built \in 0..Len(files)
    /\ pc # "idle" => Len(files) # 0

\* A file begins like its payload, and no more of it is synced than there is.
Begins(file) ==
    /\ Len(file.data) <= Sections
    /\ \A m \in 1..Len(file.data) : file.data[m] = Payload(file.of)[m]
    /\ file.kept <= Len(file.data)

\* It is complete and synced.
Safe(file) == Len(file.data) = Sections /\ file.kept = Sections

\* What may be found, now or after a power cut, or is mapped.
Found == durable \union {path, mapped}

\* Every file is a beginning of its payload, and what may be found is safe, before its rename, too.
FilesOK ==
    /\ \A n \in 1..Len(files) : Begins(files[n])
    /\ \A n \in Found \ {0} : Safe(files[n])
    /\ pc \in {"replace", "sync"} => Safe(files[Tmp])

\* What may be found is not older than the last build that returned.
PathOK ==
    /\ path \in durable
    /\ \A n \in durable : n >= built
    /\ pc = "sync" => path = Tmp

\* The inductive invariant of the index file.
IndexInv == IndexTypes /\ FilesOK /\ PathOK

\* The sections of a payload are parts, and there are four of them.
LEMMA PayloadParts ==
    ASSUME NEW docs \in Docs, NEW m \in 1..Sections
    PROVE  Payload(docs)[m] \in IndexParts
  <1>1. <<docs, m>> \in Docs \X (1..Sections)
    OBVIOUS
  <1>2. Payload(docs)[m] = Payload(<<docs, m>>[1])[<<docs, m>>[2]]
    OBVIOUS
  <1> QED
    BY <1>1, <1>2 DEF IndexParts

\* A file that begins like its payload and is as long is its payload.
LEMMA SafeIsWhole ==
    ASSUME NEW file \in IndexFiles, Begins(file), Safe(file)
    PROVE  file.data = Payload(file.of)
  <1>1. file.data \in Seq(IndexParts)
    BY DEF IndexFiles
  <1>2. Len(file.data) = 4 /\ DOMAIN file.data = 1..4
    BY <1>1 DEF Safe, Sections
  <1>3. \A m \in 1..4 : file.data[m] = Payload(file.of)[m]
    BY <1>2 DEF Begins
  <1>4. Payload(file.of) = [m \in 1..4 |-> Payload(file.of)[m]]
    BY DEF Payload
  <1>5. file.data = [m \in 1..4 |-> file.data[m]]
    BY <1>1, <1>2
  <1> QED
    BY <1>3, <1>4, <1>5

\* One file is replaced by another.
LEMMA Updated ==
    ASSUME NEW s \in Seq(IndexFiles), NEW i \in 1..Len(s), NEW new \in IndexFiles
    PROVE  /\ [s EXCEPT ![i] = new] \in Seq(IndexFiles) /\ Len([s EXCEPT ![i] = new]) = Len(s)
           /\ \A n \in 1..Len(s) : n # i => [s EXCEPT ![i] = new][n] = s[n]
           /\ [s EXCEPT ![i] = new][i] = new
  OBVIOUS

\* A file with other data is a file.
LEMMA GrownFile ==
    ASSUME NEW f \in IndexFiles, NEW d \in Seq(IndexParts)
    PROVE  /\ [f EXCEPT !.data = d] \in IndexFiles
           /\ [f EXCEPT !.data = d].of = f.of /\ [f EXCEPT !.data = d].kept = f.kept
           /\ [f EXCEPT !.data = d].data = d
  BY DEF IndexFiles

\* The initial states are safe: nothing is written yet.
LEMMA IndexStarts == Init => IndexInv
  <1> SUFFICES ASSUME Init PROVE IndexInv
    OBVIOUS
  <1> USE DEF Init, IndexInit
  <1>1. IndexTypes
    BY DEF IndexTypes, Chunks
  <1>2. FilesOK
    BY DEF FilesOK, Found
  <1>3. PathOK
    BY DEF PathOK
  <1> QED
    BY <1>1, <1>2, <1>3 DEF IndexInv

\* Begin adds a file that nobody can find yet.
LEMMA BeginStep == IndexInv /\ Begin => IndexInv'
  <1> SUFFICES ASSUME IndexInv, Begin PROVE IndexInv'
    OBVIOUS
  <1> DEFINE new == [of |-> Documents(chunks), data |-> <<>>, kept |-> 0]
  <1>1. new \in IndexFiles
    BY DEF IndexInv, IndexTypes, Docs, IndexFiles
  <1>2. /\ files \in Seq(IndexFiles) /\ files' = Append(files, new)
        /\ UNCHANGED <<chunks, path, durable, built, mapped>> /\ pc' = "write"
    BY DEF IndexInv, IndexTypes, Begin
  <1>3. /\ files' \in Seq(IndexFiles)
        /\ Len(files') = Len(files) + 1
        /\ \A n \in 1..Len(files) : files'[n] = files[n]
        /\ files'[Len(files) + 1] = new
    BY <1>1, <1>2
  <1>4. IndexTypes'
    BY <1>2, <1>3 DEF IndexInv, IndexTypes
  <1>5. Begins(new)
    BY DEF Begins, Sections
  <1>6. \A n \in 1..Len(files') : Begins(files'[n])
    BY <1>2, <1>3, <1>5 DEF IndexInv, FilesOK
  <1>7. Found' = Found /\ Found \ {0} \subseteq 1..Len(files)
    BY <1>2 DEF IndexInv, IndexTypes, Found
  <1>8. \A n \in Found' \ {0} : Safe(files'[n])
    BY <1>3, <1>7 DEF IndexInv, FilesOK
  <1>9. FilesOK'
    BY <1>2, <1>6, <1>8 DEF FilesOK
  <1>10. PathOK'
    BY <1>2 DEF IndexInv, PathOK
  <1> QED
    BY <1>4, <1>9, <1>10 DEF IndexInv

\* Write appends the next section to a file that is too short to be found.
LEMMA WriteStep == IndexInv /\ Write => IndexInv'
  <1> SUFFICES ASSUME IndexInv, Write PROVE IndexInv'
    OBVIOUS
  <1> DEFINE file == files[Tmp]
             next == Payload(file.of)[Len(file.data) + 1]
             new == [file EXCEPT !.data = Append(@, next)]
  <1>1. /\ files \in Seq(IndexFiles) /\ Tmp \in 1..Len(files) /\ pc = "write"
        /\ Len(file.data) < Sections
        /\ UNCHANGED <<chunks, pc, path, durable, built, mapped>>
    BY DEF IndexInv, IndexTypes, Write, Tmp
  <1>2. file \in IndexFiles /\ file.of \in Docs /\ file.data \in Seq(IndexParts) /\ file.kept \in Nat
    <2>1. file \in IndexFiles
      BY <1>1
    <2> QED
      BY <2>1 DEF IndexFiles
  <1>3. files' = [files EXCEPT ![Tmp] = new]
    BY <1>1 DEF Write
  <1>4. next \in IndexParts
    <2>1. Len(file.data) + 1 \in 1..Sections
      BY <1>1, <1>2 DEF Sections
    <2> QED
      BY <2>1, <1>2, PayloadParts
  <1>5. /\ new.of = file.of /\ new.kept = file.kept /\ new.data = Append(file.data, next)
        /\ new \in IndexFiles
    <2> HIDE DEF file, next
    <2>1. Append(file.data, next) \in Seq(IndexParts)
      BY <1>2, <1>4
    <2> QED
      BY <2>1, <1>2, GrownFile
  <1>6. /\ files' \in Seq(IndexFiles) /\ Len(files') = Len(files)
        /\ \A n \in 1..Len(files) : n # Tmp => files'[n] = files[n]
        /\ files'[Tmp] = new
    <2> HIDE DEF new
    <2> QED
      BY <1>1, <1>3, <1>5, Updated
  <1>7. IndexTypes'
    BY <1>1, <1>6 DEF IndexInv, IndexTypes
  <1>8. Begins(file)
    BY <1>1 DEF IndexInv, FilesOK
  <1>9. Begins(new)
    <2>1. /\ Len(new.data) = Len(file.data) + 1
          /\ \A m \in 1..Len(file.data) : new.data[m] = file.data[m]
          /\ new.data[Len(file.data) + 1] = next
          /\ Len(file.data) \in Nat
      BY <1>2, <1>4, <1>5
    <2>2. Len(new.data) <= Sections /\ new.kept <= Len(new.data)
      BY <2>1, <1>1, <1>2, <1>5, <1>8 DEF Begins, Sections
    <2>3. \A m \in 1..Len(new.data) : new.data[m] = Payload(new.of)[m]
      BY <2>1, <1>5, <1>8 DEF Begins
    <2> QED
      BY <2>2, <2>3 DEF Begins
  <1>10. Tmp \notin Found /\ Found \ {0} \subseteq 1..Len(files)
    <2>1. ~ Safe(file)
      BY <1>1, <1>2 DEF Safe
    <2>2. Tmp # 0
      BY <1>1
    <2>3. Found \subseteq 0..Len(files) /\ \A n \in Found \ {0} : Safe(files[n])
      BY DEF IndexInv, IndexTypes, FilesOK, Found
    <2> QED
      BY <1>1, <2>1, <2>2, <2>3
  <1>11. FilesOK'
    <2>1. \A n \in 1..Len(files') : Begins(files'[n])
      BY <1>1, <1>6, <1>9 DEF IndexInv, FilesOK
    <2>2. \A n \in Found' \ {0} : Safe(files'[n])
      BY <1>1, <1>6, <1>10 DEF IndexInv, FilesOK, Found
    <2> QED
      BY <2>1, <2>2, <1>1 DEF FilesOK
  <1>12. PathOK'
    BY <1>1 DEF IndexInv, PathOK
  <1> QED
    BY <1>7, <1>11, <1>12 DEF IndexInv

\* Fsync makes the temporary file safe.
LEMMA FsyncStep == IndexInv /\ Fsync => IndexInv'
  <1> SUFFICES ASSUME IndexInv, Fsync PROVE IndexInv'
    OBVIOUS
  <1> DEFINE file == files[Tmp]
             new == [file EXCEPT !.kept = Kept(file)]
  <1>1. /\ files \in Seq(IndexFiles) /\ Tmp \in 1..Len(files) /\ pc' = "replace"
        /\ Len(file.data) = Sections
        /\ UNCHANGED <<chunks, path, durable, built, mapped>>
    BY DEF IndexInv, IndexTypes, Fsync, Tmp
  <1>2. file \in IndexFiles /\ file.of \in Docs /\ file.data \in Seq(IndexParts) /\ file.kept \in Nat
    <2>1. file \in IndexFiles
      BY <1>1
    <2> QED
      BY <2>1 DEF IndexFiles
  <1>3. files' = [files EXCEPT ![Tmp] = new]
    BY <1>1 DEF Fsync
  <1>4. /\ new.of = file.of /\ new.kept = Len(file.data) /\ new.data = file.data
        /\ new \in IndexFiles
    BY <1>2 DEF IndexFiles, Kept
  <1>5. /\ files' \in Seq(IndexFiles) /\ Len(files') = Len(files)
        /\ \A n \in 1..Len(files) : n # Tmp => files'[n] = files[n]
        /\ files'[Tmp] = new
    <2> HIDE DEF new
    <2> QED
      BY <1>1, <1>3, <1>4, Updated
  <1>6. IndexTypes'
    BY <1>1, <1>5 DEF IndexInv, IndexTypes
  <1>7. Begins(new) /\ Safe(new)
    BY <1>1, <1>2, <1>4 DEF IndexInv, FilesOK, Begins, Safe, Sections
  <1>8. Found' = Found /\ Found \ {0} \subseteq 1..Len(files) /\ Tmp' = Tmp
    BY <1>1, <1>5 DEF IndexInv, IndexTypes, Found, Tmp
  <1>9. FilesOK'
    BY <1>1, <1>5, <1>7, <1>8 DEF IndexInv, FilesOK
  <1>10. PathOK'
    BY <1>1 DEF IndexInv, PathOK
  <1> QED
    BY <1>6, <1>9, <1>10 DEF IndexInv

\* Replace and SyncDirectory change what can be found, to files that are safe.
LEMMA RenameStep == IndexInv /\ (Replace \/ SyncDirectory) => IndexInv'
  <1> SUFFICES ASSUME IndexInv, Replace \/ SyncDirectory PROVE IndexInv'
    OBVIOUS
  <1> USE DEF IndexInv, IndexTypes
  <1>1. CASE Replace
    <2>1. /\ UNCHANGED <<chunks, files, built, mapped>> /\ pc = "replace" /\ pc' = "sync"
          /\ path' = Tmp /\ durable' = durable \union {Tmp} /\ Tmp \in 1..Len(files)
      BY <1>1 DEF Replace, Renamed, Tmp
    <2>2. IndexTypes'
      BY <2>1
    <2>3. Found' \subseteq Found \union {Tmp} /\ Tmp' = Tmp
      BY <2>1 DEF Found, Tmp
    <2>4. FilesOK'
      BY <2>1, <2>3 DEF FilesOK
    <2>5. PathOK'
      BY <2>1, <2>3 DEF PathOK, Tmp
    <2> QED
      BY <2>2, <2>4, <2>5
  <1>2. CASE SyncDirectory
    <2>1. /\ UNCHANGED <<chunks, files, path, mapped>> /\ pc = "sync" /\ pc' = "idle"
          /\ durable' = {path} /\ built' = Tmp /\ path = Tmp /\ Tmp \in 1..Len(files)
      BY <1>2 DEF SyncDirectory, Settled, PathOK, Tmp
    <2>2. IndexTypes'
      BY <2>1
    <2>3. Found' \subseteq Found
      BY <2>1 DEF Found
    <2>4. FilesOK'
      BY <2>1, <2>3 DEF FilesOK
    <2>5. PathOK'
      BY <2>1 DEF PathOK
    <2> QED
      BY <2>2, <2>4, <2>5
  <1> QED
    BY <1>1, <1>2

\* A power cut leaves one of the files that may be found, with all it has, since that is synced.
LEMMA PowerCutStep == ASSUME NEW p \in 0..Len(files), NEW n \in 0..Sections, IndexInv, PowerCut(p, n)
                      PROVE  IndexInv'
  <1> USE DEF IndexInv, IndexTypes
  <1>1. /\ p \in durable /\ path' = p /\ durable' = {p} /\ pc' = "idle" /\ mapped' = 0
        /\ UNCHANGED <<chunks, built>> /\ files \in Seq(IndexFiles)
    BY DEF PowerCut
  <1>2. files' = files
    <2>1. CASE p = 0
      BY <2>1 DEF PowerCut
    <2>2. CASE p # 0
      <3>1. p \in 1..Len(files) /\ files[p] \in IndexFiles /\ Safe(files[p])
        BY <1>1, <2>2 DEF FilesOK, Found
      <3>2. files[p].data \in Seq(IndexParts) /\ Len(files[p].data) = 4 /\ n = 4
        BY <3>1, <2>2 DEF PowerCut, Safe, Sections, IndexFiles
      <3>3. SubSeq(files[p].data, 1, n) = files[p].data
        BY <3>2
      <3>4. files' = [files EXCEPT ![p].data = files[p].data]
        BY <3>3, <2>2 DEF PowerCut
      <3>5. [files[p] EXCEPT !.data = files[p].data] = files[p]
        BY <3>1 DEF IndexFiles
      <3> QED
        BY <3>1, <3>4, <3>5, <1>1
    <2> QED
      BY <2>1, <2>2
  <1>3. IndexTypes'
    BY <1>1, <1>2
  <1>4. Found' \subseteq Found \union {0}
    BY <1>1 DEF Found
  <1>5. FilesOK'
    BY <1>1, <1>2, <1>4 DEF FilesOK
  <1>6. PathOK'
    BY <1>1 DEF PathOK
  <1> QED
    BY <1>3, <1>5, <1>6

\* What ingestion, a kill and the reading process do leaves the files alone.
LEMMA OtherStep ==
    ASSUME IndexInv, (\E d \in Chunks : AddChunk(d)) \/ Kill \/ Open \/ Close \/ UNCHANGED indexVars
    PROVE  IndexInv'
  <1> USE DEF IndexInv, IndexTypes
  <1>1. /\ UNCHANGED <<files, path, durable, built>> /\ chunks' \subseteq Chunks
        /\ pc' \in {pc, "idle"} /\ mapped' \in {mapped, path, 0}
    BY DEF AddChunk, Kill, Open, Close, indexVars
  <1>2. IndexTypes'
    BY <1>1
  <1>3. Found' \subseteq Found \union {0} /\ Tmp' = Tmp
    BY <1>1 DEF Found, Tmp
  <1>4. FilesOK'
    BY <1>1, <1>3 DEF FilesOK
  <1>5. PathOK'
    BY <1>1, <1>3 DEF PathOK
  <1> QED
    BY <1>2, <1>4, <1>5

\* Every step preserves the invariant; a retrieval changes nothing it speaks of.
LEMMA IndexSteps == IndexInv /\ [Next]_vars => IndexInv'
  <1> SUFFICES ASSUME IndexInv, [Next]_vars PROVE IndexInv'
    OBVIOUS
  <1>1. CASE IndexNext
    BY <1>1, BeginStep, WriteStep, FsyncStep, RenameStep, PowerCutStep, OtherStep DEF IndexNext
  <1>2. CASE UNCHANGED indexVars
    BY <1>2, OtherStep
  <1>3. IndexNext \/ UNCHANGED indexVars
    BY DEF Next, vars, indexVars, Retrieve, Return
  <1> QED
    BY <1>1, <1>2, <1>3

\* In every reachable state.
LEMMA IndexInvariant == Spec => []IndexInv
  <1> QED
    BY IndexStarts, IndexSteps, PTL DEF Spec

\* A reader of the index file never sees a part of it.
THEOREM FileIsWhole == Spec => []NeverHalfWritten
  <1>1. IndexInv => NeverHalfWritten
    <2> SUFFICES ASSUME IndexInv, NEW n \in {path, mapped}, n # 0 PROVE Whole(n)
      BY DEF NeverHalfWritten
    <2>1. n \in 1..Len(files) /\ files[n] \in IndexFiles /\ Begins(files[n]) /\ Safe(files[n])
      BY DEF IndexInv, IndexTypes, FilesOK, Found
    <2> QED
      BY <2>1, SafeIsWhole DEF Whole
  <1> QED
    BY <1>1, IndexInvariant, PTL

\* A build that has returned is not undone.
THEOREM ReturnedBuildsLast == Spec => []BuildsLast
  <1>1. IndexInv => BuildsLast
    BY DEF IndexInv, PathOK, BuildsLast
  <1> QED
    BY <1>1, IndexInvariant, PTL

\* The state of the index is well formed.
THEOREM IndexTypeCorrect == Spec => []IndexTypeOK
  <1>1. IndexInv => IndexTypeOK
    BY DEF IndexInv, IndexTypes, FilesOK, PathOK, Begins, IndexTypeOK
  <1> QED
    BY <1>1, IndexInvariant, PTL

-----------------------------------------------------------------------------
(* Sums and rankings.                                                      *)

\* The sums of the first n members.
Sums(N, s, u) ==
    /\ u \in [0..N -> Nat] /\ u[0] = 0
    /\ \A n \in 1..N : u[n] = u[n - 1] + s[n]

\* A total is the last of them.
LEMMA Totals ==
    ASSUME NEW N \in Nat, NEW s \in [1..N -> Nat]
    PROVE  \E u : Sums(N, s, u) /\ Total(s) = u[N]
<1> DEFINE Sat(f) == f = [n \in 0..Len(s) |-> IF n = 0 THEN 0 ELSE f[n - 1] + s[n]]
<1>1. Len(s) = N
  BY Listed
<1>2. PICK G : G = [n \in 1..N |-> [v \in Nat |-> v + s[n]]]
  OBVIOUS
<1>3. G \in Steps(N, Nat)
  BY <1>2 DEF Steps
<1>4. PICK e \in Runs(N, Nat, 0, G) : TRUE
  BY <1>3, Iterates
<1>5. e \in [0..N -> Nat] /\ e[0] = 0 /\ \A n \in 1..N : e[n] = e[n - 1] + s[n]
  <2>1. e \in [0..N -> Nat] /\ e[0] = 0 /\ \A n \in 1..N : e[n] = G[n][e[n - 1]]
    BY <1>4 DEF Runs
  <2>2. \A n \in 1..N : e[n - 1] \in Nat
    BY <2>1
  <2> QED BY <1>2, <2>1, <2>2
<1>6. Sat(e)
  <2>1. e = [n \in 0..N |-> e[n]]
    BY <1>5
  <2>2. \A n \in 0..N : e[n] = IF n = 0 THEN 0 ELSE e[n - 1] + s[n]
    BY <1>5
  <2> QED BY <1>1, <2>1, <2>2
<1>7. PICK f : f = CHOOSE g : Sat(g)
  OBVIOUS
<1>8. Sat(f)
  <2> HIDE DEF Sat
  <2> QED BY <1>6, <1>7
<1>9. f = [n \in 0..N |-> IF n = 0 THEN 0 ELSE f[n - 1] + s[n]]
  BY <1>1, <1>8
<1>10. f[0] = 0 /\ \A n \in 1..N : f[n] = f[n - 1] + s[n]
  BY <1>9
<1>11. \A n \in 0..N : f[n] \in Nat
  <2>1. PICK T : T = Nat
    OBVIOUS
  <2>2. ASSUME NEW n \in 1..N, f[n - 1] \in T PROVE f[n] \in T
    BY <1>10, <2>1, <2>2
  <2>3. f[0] \in T
    BY <1>10, <2>1
  <2>4. \A n \in 0..N : f[n] \in T
    BY <2>2, <2>3, Stays
  <2> QED BY <2>1, <2>4
<1>12. f \in [0..N -> Nat]
  BY <1>9, <1>11
<1>13. Total(s) = f[N]
  BY <1>1, <1>7 DEF Total
<1> QED BY <1>10, <1>12, <1>13 DEF Sums

\* A total is a number, and positive when one of what it adds is.
LEMMA TotalsAreNumbers ==
    ASSUME NEW N \in Nat, NEW s \in [1..N -> Nat]
    PROVE  /\ Total(s) \in Nat
           /\ Total(s) > 0 <=> \E n \in 1..N : s[n] > 0
<1>1. PICK u : Sums(N, s, u) /\ Total(s) = u[N]
  BY Totals
<1>2. u \in [0..N -> Nat] /\ u[0] = 0 /\ \A n \in 1..N : u[n] = u[n - 1] + s[n]
  BY <1>1 DEF Sums
<1>3. ASSUME \A n \in 1..N : ~(s[n] > 0) PROVE u[N] = 0
  <2>1. ASSUME NEW n \in 1..N, u[n - 1] \in {0} PROVE u[n] \in {0}
    <3>1. s[n] = 0
      BY <1>3
    <3> QED BY <1>2, <2>1, <3>1
  <2>2. PICK T : T = {0}
    OBVIOUS
  <2>3. u[0] \in T /\ \A n \in 1..N : u[n - 1] \in T => u[n] \in T
    BY <1>2, <2>1, <2>2
  <2>4. \A n \in 0..N : u[n] \in T
    BY <2>3, Stays
  <2> QED BY <2>2, <2>4
<1>4. ASSUME NEW m \in 1..N, s[m] > 0 PROVE u[N] > 0
  <2>1. PICK T : T = {n \in 0..N : n >= m => u[n] > 0}
    OBVIOUS
  <2>2. 0 \in T
    BY <2>1
  <2>3. ASSUME NEW n \in 1..N, n - 1 \in T PROVE n \in T
    <3>1. u[n] = u[n - 1] + s[n] /\ u[n - 1] \in Nat /\ s[n] \in Nat
      BY <1>2
    <3>2. n > m => u[n - 1] > 0
      BY <2>1, <2>3
    <3>3. n >= m => u[n] > 0
      BY <1>4, <3>1, <3>2
    <3> QED BY <2>1, <3>3
  <2>4. \A n \in 0..N : n \in T
    BY <2>2, <2>3, Counting
  <2>5. N \in T /\ N >= m
    BY <2>4
  <2> QED BY <2>1, <2>5
<1>5. Total(s) \in Nat
  BY <1>1, <1>2
<1> QED BY <1>1, <1>3, <1>4, <1>5

\* A total to which one member alone adds is that member.
LEMMA OnlyOne ==
    ASSUME NEW N \in Nat, NEW s \in [1..N -> Nat], NEW m \in 1..N, \A n \in 1..N : n # m => s[n] = 0
    PROVE  Total(s) = s[m]
<1>1. PICK u : Sums(N, s, u) /\ Total(s) = u[N]
  BY Totals
<1>2. u \in [0..N -> Nat] /\ u[0] = 0 /\ \A n \in 1..N : u[n] = u[n - 1] + s[n]
  BY <1>1 DEF Sums
<1>3. PICK T : T = {n \in 0..N : u[n] = IF n < m THEN 0 ELSE s[m]}
  OBVIOUS
<1>4. 0 \in T
  BY <1>2, <1>3
<1>5. ASSUME NEW n \in 1..N, n - 1 \in T PROVE n \in T
  <2>1. u[n] = u[n - 1] + s[n] /\ s[n] \in Nat /\ s[m] \in Nat
    BY <1>2
  <2>2. u[n - 1] = IF n - 1 < m THEN 0 ELSE s[m]
    BY <1>3, <1>5
  <2>3. n # m => s[n] = 0
    OBVIOUS
  <2>4. u[n] = IF n < m THEN 0 ELSE s[m]
    BY <2>1, <2>2, <2>3
  <2> QED BY <1>3, <2>4
<1>6. \A n \in 0..N : n \in T
  BY <1>4, <1>5, Counting
<1>7. N \in T /\ ~(N < m)
  BY <1>6
<1> QED BY <1>1, <1>3, <1>7

\* Which of S is ahead of which.
Aheads(S, score) == {e \in S \X S : Ahead(score, e[1], e[2])}

\* By its score a set is ordered, and its ranking is sorted.
LEMMA AheadOrders ==
    ASSUME NEW S, S \subseteq Nat, NEW score \in [S -> Nat]
    PROVE  Orders(Aheads(S, score), S) /\ Ranking(score) = Sorting(Aheads(S, score), S)
<1>1. PICK R : R = Aheads(S, score)
  OBVIOUS
<1>2. \A i, j \in S : <<i, j>> \in R <=> Ahead(score, i, j)
  BY <1>1 DEF Aheads
<1>3. \A i \in S : i \in Nat /\ score[i] \in Nat
  OBVIOUS
<1>4. Orders(R, S)
  BY <1>2, <1>3 DEF Orders, Ahead
<1>5. \A i \in S : {j \in S : <<j, i>> \in R} = {j \in S : Ahead(score, j, i)}
  BY <1>2
<1>6. \A n : {i \in S : Cardinality({j \in S : <<j, i>> \in R}) = n} = {i \in S : Cardinality({j \in S : Ahead(score, j, i)}) = n}
  BY <1>5
<1>7. ASSUME NEW n
      PROVE  (CHOOSE i \in S : Cardinality({j \in S : <<j, i>> \in R}) = n - 1)
                = CHOOSE i \in S : Cardinality({j \in S : Ahead(score, j, i)}) = n - 1
  BY <1>5
<1>8. DOMAIN score = S
  OBVIOUS
<1>9. Ranking(score) = Sorting(R, S)
  <2> DEFINE Second(n) == CHOOSE i \in S : Cardinality({j \in S : Ahead(score, j, i)}) = n - 1
             First(n) == CHOOSE i \in S : Cardinality({j \in S : <<j, i>> \in R}) = n - 1
  <2>1. Ranking(score) = [n \in 1..Cardinality(S) |-> Second(n)]
    BY <1>8 DEF Ranking
  <2>2. Sorting(R, S) = [n \in 1..Cardinality(S) |-> First(n)]
    BY DEF Sorting
  <2>3. \A n : First(n) = Second(n)
    BY <1>7, Zenon
  <2> HIDE DEF First, Second
  <2> QED BY <2>1, <2>2, <2>3
<1> QED BY <1>1, <1>4, <1>9

\* A ranking has everything once, and what is ahead first.
Ranks(r, S, score) ==
    /\ r \in [1..Cardinality(S) -> S] /\ IsInjective(r) /\ ToSet(r) = S
    /\ \A m, n \in 1..Cardinality(S) : Ahead(score, r[m], r[n]) <=> m < n

\* Ranking does that, for any scores.
LEMMA RankingRanks ==
    ASSUME NEW S, S \subseteq Nat, IsFiniteSet(S), NEW score \in [S -> Nat]
    PROVE  Cardinality(S) \in Nat /\ Ranks(Ranking(score), S, score)
<1>1. PICK R : R = Aheads(S, score)
  OBVIOUS
<1>2. PICK r : r = Ranking(score)
  OBVIOUS
<1>3. Orders(R, S) /\ r = Sorting(R, S)
  BY <1>1, <1>2, AheadOrders
<1>4. /\ Cardinality(S) \in Nat /\ r \in [1..Cardinality(S) -> S] /\ IsInjective(r) /\ ToSet(r) = S
      /\ \A m, n \in 1..Cardinality(S) : <<r[m], r[n]>> \in R <=> m < n
  BY <1>3, SortingSorts
<1>5. \A m, n \in 1..Cardinality(S) : <<r[m], r[n]>> \in R <=> Ahead(score, r[m], r[n])
  BY <1>1, <1>4 DEF Aheads
<1> QED BY <1>2, <1>4, <1>5 DEF Ranks

\* There is no other.
LEMMA RankingIsUnique ==
    ASSUME NEW S, S \subseteq Nat, IsFiniteSet(S), NEW score \in [S -> Nat],
           NEW r \in [1..Cardinality(S) -> S], IsInjective(r), ToSet(r) = S,
           \A m, n \in 1..Cardinality(S) : m < n => Ahead(score, r[m], r[n])
    PROVE  r = Ranking(score)
<1>1. PICK R : R = Aheads(S, score)
  OBVIOUS
<1>2. PICK N \in Nat : N = Cardinality(S)
  BY FS_CardinalityType
<1>3. Orders(R, S) /\ Ranking(score) = Sorting(R, S)
  BY <1>1, AheadOrders
<1>4. \A m, n \in 1..N : <<r[m], r[n]>> \in R <=> m < n
  <2>1. \A m, n \in 1..N : m < n => <<r[m], r[n]>> \in R
    BY <1>1, <1>2 DEF Aheads
  <2>2. ASSUME NEW m \in 1..N, NEW n \in 1..N, <<r[m], r[n]>> \in R, ~(m < n) PROVE FALSE
    <3>1. r[m] \in S /\ r[n] \in S
      BY <1>2
    <3>2. CASE m = n
      BY <1>3, <2>2, <3>1, <3>2 DEF Orders
    <3>3. CASE m # n
      <4>1. <<r[n], r[m]>> \in R
        BY <2>1, <2>2, <3>3
      <4>2. <<r[m], r[m]>> \in R
        BY <1>3, <2>2, <3>1, <4>1 DEF Orders
      <4> QED BY <1>3, <3>1, <4>2 DEF Orders
    <3> QED BY <3>2, <3>3
  <2> QED BY <2>1, <2>2
<1>5. ASSUME NEW n \in 1..N
      PROVE  Cardinality({j \in S : <<j, r[n]>> \in R}) = n - 1
  <2>1. PICK B : B = {j \in S : <<j, r[n]>> \in R}
    OBVIOUS
  <2>2. PICK t : t = [m \in 1..n - 1 |-> r[m]]
    OBVIOUS
  <2>3. \A m \in 1..n - 1 : m \in 1..N /\ t[m] = r[m] /\ r[m] \in B
    <3>1. \A m \in 1..n - 1 : m \in 1..N /\ m < n
      OBVIOUS
    <3> QED BY <1>2, <1>4, <2>1, <2>2, <3>1
  <2>4. t \in Seq(B) /\ Len(t) = n - 1
    <3>1. t \in [1..n - 1 -> B] /\ n - 1 \in Nat
      BY <2>2, <2>3
    <3> QED BY <3>1, Listed
  <2>5. IsInjective(t)
    BY <1>2, <2>2, <2>3 DEF IsInjective
  <2>6. ToSet(t) = B
    <3>1. ASSUME NEW j \in B PROVE \E m \in 1..n - 1 : t[m] = j
      <4>1. PICK m \in 1..N : r[m] = j
        BY <1>2, <2>1 DEF ToSet
      <4>2. m < n
        BY <1>4, <2>1, <4>1
      <4>3. m \in 1..n - 1
        BY <4>2
      <4> QED BY <2>3, <4>1, <4>3
    <3>2. DOMAIN t = 1..n - 1
      BY <2>2
    <3> QED BY <2>3, <3>1, <3>2 DEF ToSet
  <2> QED BY <2>1, <2>4, <2>5, <2>6, Distinct
<1>6. ASSUME NEW n \in 1..N
      PROVE  r[n] = CHOOSE i \in S : Cardinality({j \in S : <<j, i>> \in R}) = n - 1
  <2> DEFINE Rank(i) == Cardinality({j \in S : <<j, i>> \in R})
  <2>1. \A m \in 1..N : r[m] \in S /\ Rank(r[m]) = m - 1
    BY <1>2, <1>5
  <2>2. \A k \in S : \E m \in 1..N : r[m] = k
    BY <1>2 DEF ToSet
  <2> HIDE DEF Rank
  <2>3. \A k \in S : Rank(k) = n - 1 <=> k = r[n]
    <3> SUFFICES ASSUME NEW k \in S PROVE Rank(k) = n - 1 <=> k = r[n]
      OBVIOUS
    <3>1. PICK m \in 1..N : r[m] = k
      BY <2>2
    <3>2. Rank(k) = m - 1 /\ Rank(r[n]) = n - 1
      BY <2>1, <3>1
    <3>3. CASE m = n
      BY <3>1, <3>2, <3>3
    <3>4. CASE m # n
      BY <3>2, <3>4
    <3> QED BY <3>3, <3>4
  <2>4. r[n] \in S
    BY <2>1
  <2>5. r[n] = CHOOSE i \in S : Rank(i) = n - 1
    BY <2>3, <2>4
  <2> QED BY <2>5 DEF Rank
<1>7. \A n \in 1..N : r[n] = CHOOSE i \in S : Cardinality({j \in S : <<j, i>> \in R}) = n - 1
  BY <1>6
<1>8. Sorting(R, S) = [n \in 1..N |-> CHOOSE i \in S : Cardinality({j \in S : <<j, i>> \in R}) = n - 1]
  BY <1>2 DEF Sorting
<1>9. r = [n \in 1..N |-> r[n]]
  BY <1>2
<1> QED BY <1>3, <1>7, <1>8, <1>9

\* Numbers in their order.
LEMMA Ascends ==
    ASSUME NEW S, S \subseteq Nat, IsFiniteSet(S)
    PROVE  /\ Cardinality(S) \in Nat /\ Ascending(S) \in Seq(S) /\ Len(Ascending(S)) = Cardinality(S)
           /\ Ascending(S) \in [1..Cardinality(S) -> S]
           /\ IsInjective(Ascending(S)) /\ ToSet(Ascending(S)) = S
           /\ \A m, n \in 1..Cardinality(S) : Ascending(S)[m] < Ascending(S)[n] <=> m < n
<1>1. PICK score : score = [i \in S |-> 0]
  OBVIOUS
<1>2. PICK a : a = Ascending(S)
  OBVIOUS
<1>3. score \in [S -> Nat] /\ a = Ranking(score)
  BY <1>1, <1>2 DEF Ascending
<1>4. Cardinality(S) \in Nat /\ Ranks(a, S, score)
  BY <1>3, RankingRanks
<1>5. /\ a \in [1..Cardinality(S) -> S] /\ IsInjective(a) /\ ToSet(a) = S
      /\ \A m, n \in 1..Cardinality(S) : Ahead(score, a[m], a[n]) <=> m < n
  BY <1>4 DEF Ranks
<1>6. a \in Seq(S) /\ Len(a) = Cardinality(S)
  BY <1>4, <1>5, Listed
<1>7. \A i, j \in S : Ahead(score, i, j) <=> i < j
  BY <1>1 DEF Ahead
<1> QED BY <1>2, <1>4, <1>5, <1>6, <1>7

\* Names for the members of T, in their order, and scores and rankings by them.
Names(name, T, S) ==
    /\ T \subseteq Nat /\ IsFiniteSet(T) /\ name \in [T -> S]
    /\ \A i, j \in T : i < j => name[i] < name[j]
    /\ \A e \in S : \E i \in T : name[i] = e
Relabelled(score, T, name) == [i \in T |-> score[name[i]]]
RankedAlike(S, score, T, name) ==
    /\ IsFiniteSet(S) /\ Cardinality(S) = Cardinality(T) /\ Cardinality(T) \in Nat
    /\ \A n \in 1..Cardinality(T) :
           Ranking(score)[n] = name[Ranking(Relabelled(score, T, name))[n]]
    /\ Ranking(Relabelled(score, T, name)) \in [1..Cardinality(T) -> T]

\* Chunks instead of their numbers in a file, say: the ranking is of the same order.
LEMMA RankingRenamed ==
    ASSUME NEW S, S \subseteq Nat, NEW score \in [S -> Nat],
           NEW T, NEW name, Names(name, T, S)
    PROVE  RankedAlike(S, score, T, name)
<1> USE DEF Names
<1>1. PICK other : other = Relabelled(score, T, name) /\ other = [i \in T |-> score[name[i]]]
  BY DEF Relabelled
<1>2. PICK q : q = Ranking(other)
  OBVIOUS
<1>3. other \in [T -> Nat]
  BY <1>1
<1>4. PICK N \in Nat : N = Cardinality(T)
  BY <1>3, RankingRanks
<1>5. /\ q \in [1..N -> T] /\ IsInjective(q) /\ ToSet(q) = T
      /\ \A m, n \in 1..N : Ahead(other, q[m], q[n]) <=> m < n
  BY <1>2, <1>3, <1>4, RankingRanks DEF Ranks
<1>6. PICK r : r = [n \in 1..N |-> name[q[n]]]
  OBVIOUS
<1>7. r \in [1..N -> S] /\ \A n \in 1..N : r[n] = name[q[n]] /\ q[n] \in T
  BY <1>5, <1>6
<1>8. \A i, j \in T : name[i] = name[j] => i = j
  <2> SUFFICES ASSUME NEW i \in T, NEW j \in T, name[i] = name[j], i # j PROVE FALSE
    OBVIOUS
  <2>1. i \in Nat /\ j \in Nat /\ name[i] \in Nat /\ name[j] \in Nat
    OBVIOUS
  <2>2. i < j \/ j < i
    BY <2>1
  <2> QED BY <2>1, <2>2
<1>9. IsInjective(r)
  <2>1. ASSUME NEW m \in 1..N, NEW n \in 1..N, r[m] = r[n] PROVE m = n
    <3>1. q[m] = q[n]
      <4>1. name[q[m]] = name[q[n]] /\ q[m] \in T /\ q[n] \in T
        BY <1>7, <2>1
      <4> QED BY <1>8, <4>1
    <3> QED BY <1>5, <3>1 DEF IsInjective
  <2> QED BY <1>7, <2>1 DEF IsInjective
<1>10. ToSet(r) = S
  <2>1. ASSUME NEW e \in S PROVE \E n \in 1..N : r[n] = e
    <3>1. PICK i \in T : name[i] = e
      OBVIOUS
    <3>2. PICK n \in 1..N : q[n] = i
      BY <1>5 DEF ToSet
    <3> QED BY <1>7, <3>1, <3>2
  <2>2. DOMAIN r = 1..N
    BY <1>7
  <2> QED BY <1>7, <2>1, <2>2 DEF ToSet
<1>11. IsFiniteSet(S) /\ Cardinality(S) = N
  <2>1. r \in Seq(S) /\ Len(r) = N
    BY <1>7, Listed
  <2> QED BY <1>9, <1>10, <2>1, Distinct
<1>12. \A m, n \in 1..N : m < n => Ahead(score, r[m], r[n])
  <2> SUFFICES ASSUME NEW m \in 1..N, NEW n \in 1..N, m < n PROVE Ahead(score, r[m], r[n])
    OBVIOUS
  <2>1. q[m] \in T /\ q[n] \in T /\ r[m] = name[q[m]] /\ r[n] = name[q[n]]
    BY <1>7
  <2>2. Ahead(other, q[m], q[n])
    BY <1>5
  <2>3. other[q[m]] = score[r[m]] /\ other[q[n]] = score[r[n]]
    BY <1>1, <2>1
  <2>4. q[m] < q[n] => r[m] < r[n]
    BY <2>1
  <2> QED BY <2>2, <2>3, <2>4 DEF Ahead
<1>13. r = Ranking(score)
  BY <1>7, <1>9, <1>10, <1>11, <1>12, RankingIsUnique
<1> QED BY <1>1, <1>2, <1>4, <1>5, <1>7, <1>11, <1>13 DEF RankedAlike

-----------------------------------------------------------------------------
(* Varints.                                                                *)

\* The last digit of a number and what is left without it.
Digit(v) == v % Base
Rest(v) == v \div Base

\* The last digit is one, and what is left is smaller.
LEMMA LastDigits ==
    /\ Base \in Nat /\ Base > 1
    /\ \A v \in Nat : Rest(v) \in Nat /\ Digit(v) \in 0..Base - 1 /\ (v >= Base => Rest(v) \in 0..v - 1)
<1>1. Base \in Nat /\ Base > 1
  BY IndexAssumption
<1>2. PICK b \in Nat : b = Base /\ b > 1
  BY <1>1
<1>3. ASSUME NEW v \in Nat
      PROVE  /\ v \div b \in Nat /\ v % b \in 0..b - 1
             /\ v = b * (v \div b) + (v % b)
             /\ v >= b => v \div b \in 0..v - 1
  <2>1. v \div b \in Nat /\ v % b \in 0..b - 1
    BY <1>2
  <2>2. v = b * (v \div b) + (v % b)
    BY <1>2
  <2>3. ASSUME v >= b PROVE v \div b < v
    BY <1>2, <2>1, <2>2, <2>3
  <2> QED BY <2>1, <2>2, <2>3
<1>4. \A v \in Nat : Rest(v) = v \div b /\ Digit(v) = v % b
  BY <1>2 DEF Rest, Digit
<1>5. \A v \in Nat : Rest(v) \in Nat /\ Digit(v) \in 0..b - 1 /\ (v >= b => Rest(v) \in 0..v - 1)
  BY <1>3, <1>4
<1> QED BY <1>1, <1>2, <1>5

\* They make it up.
LEMMA DigitsMakeUp == \A v \in Nat : v = Base * Rest(v) + Digit(v)
<1>1. PICK b \in Nat : b = Base /\ b > 1
  BY IndexAssumption
<1>2. \A v \in Nat : v = b * (v \div b) + (v % b)
  BY <1>1
<1> QED BY <1>1, <1>2 DEF Rest, Digit

\* The bytes of the numbers up to v.
BytesUpTo(v, f) ==
    \A n \in 0..v : f[n] = IF n < Base THEN <<n>> ELSE <<Base + Digit(n)>> \o f[Rest(n)]

\* Two that say the same.
Alike(w, f, g) == \A n \in 0..w : f[n] = g[n]

\* The bytes of smaller numbers do not depend on where one stops.
LEMMA BytesAgree ==
    ASSUME NEW v \in Nat, NEW w \in 0..v, NEW f, NEW g, BytesUpTo(v, f), BytesUpTo(w, g)
    PROVE  Alike(w, f, g)
<1>1. PICK T : T = {n \in 0..w : \A k \in 0..n : f[k] = g[k]}
  OBVIOUS
<1>2. Base \in Nat /\ Base > 1
  BY IndexAssumption
<1>3. 0 \in T
  <2>1. 0 < Base /\ 0 \in 0..v /\ 0 \in 0..w
    BY <1>2
  <2>2. f[0] = <<0>> /\ g[0] = <<0>>
    BY <2>1 DEF BytesUpTo
  <2>3. \A k \in 0..0 : k = 0
    OBVIOUS
  <2>4. 0 \in 0..w
    OBVIOUS
  <2> QED BY <1>1, <2>2, <2>3, <2>4
<1>4. ASSUME NEW n \in 1..w, n - 1 \in T PROVE n \in T
  <2>1. \A k \in 0..n - 1 : f[k] = g[k]
    BY <1>1, <1>4
  <2>2. n \in 0..v /\ n \in 0..w
    OBVIOUS
  <2>3. f[n] = g[n]
    <3>1. CASE n < Base
      BY <2>2, <3>1 DEF BytesUpTo
    <3>2. CASE ~(n < Base)
      <4>1. Rest(n) \in 0..n - 1
        <5>1. n \in Nat /\ n >= Base
          BY <1>2, <3>2
        <5> QED BY <1>2, <5>1, LastDigits
      <4> QED BY <2>1, <2>2, <3>2, <4>1 DEF BytesUpTo
    <3> QED BY <3>1, <3>2
  <2>4. \A k \in 0..n : k \in 0..n - 1 \/ k = n
    OBVIOUS
  <2>5. \A k \in 0..n : f[k] = g[k]
    BY <2>1, <2>3, <2>4
  <2> QED BY <1>1, <2>2, <2>5
<1>5. \A n \in 0..w : n \in T
  BY <1>3, <1>4, Counting
<1>6. ASSUME NEW n \in 0..w PROVE f[n] = g[n]
  BY <1>1, <1>5
<1> QED BY <1>6 DEF Alike

\* There are such bytes.
LEMMA BytesExist ==
    ASSUME NEW v \in Nat
    PROVE  \E f \in [0..v -> Seq(Nat)] : BytesUpTo(v, f)
<1> DEFINE Have(n) == \E f \in [0..n -> Seq(Nat)] : BytesUpTo(n, f)
<1>1. PICK T : T = {n \in 0..v : Have(n)}
  OBVIOUS
<1>2. Base \in Nat /\ Base > 1
  BY IndexAssumption
<1>3. 0 \in T
  <2>1. PICK f : f = [n \in 0..0 |-> <<n>>]
    OBVIOUS
  <2>2. f \in [0..0 -> Seq(Nat)]
    BY <2>1
  <2>3. BytesUpTo(0, f)
    BY <1>2, <2>1 DEF BytesUpTo
  <2> QED BY <1>1, <2>2, <2>3
<1>4. ASSUME NEW n \in 1..v, n - 1 \in T PROVE n \in T
  <2>1. PICK f \in [0..n - 1 -> Seq(Nat)] : BytesUpTo(n - 1, f)
    BY <1>1, <1>4
  <2>2. PICK x : x = IF n < Base THEN <<n>> ELSE <<Base + Digit(n)>> \o f[Rest(n)]
    OBVIOUS
  <2>3. n \in Nat /\ (n >= Base => Rest(n) \in 0..n - 1) /\ Digit(n) \in Nat
    <3>1. n \in Nat
      OBVIOUS
    <3>2. Rest(n) \in Nat /\ Digit(n) \in 0..Base - 1 /\ (n >= Base => Rest(n) \in 0..n - 1)
      BY <3>1, LastDigits
    <3> QED BY <1>2, <3>1, <3>2
  <2>4. x \in Seq(Nat)
    <3>1. CASE n < Base
      BY <2>2, <2>3, <3>1
    <3>2. CASE ~(n < Base)
      <4>1. n >= Base
        BY <1>2, <3>2
      <4>2. f[Rest(n)] \in Seq(Nat) /\ <<Base + Digit(n)>> \in Seq(Nat)
        BY <1>2, <2>3, <4>1
      <4>3. x = <<Base + Digit(n)>> \o f[Rest(n)]
        BY <2>2, <3>2
      <4> QED BY <4>2, <4>3, ConcatProperties
    <3> QED BY <3>1, <3>2
  <2>5. PICK g : g = [k \in 0..n |-> IF k = n THEN x ELSE f[k]]
    OBVIOUS
  <2>6. g \in [0..n -> Seq(Nat)]
    BY <2>4, <2>5
  <2>7. BytesUpTo(n, g)
    <3> SUFFICES ASSUME NEW k \in 0..n
                 PROVE  g[k] = IF k < Base THEN <<k>> ELSE <<Base + Digit(k)>> \o g[Rest(k)]
      BY DEF BytesUpTo
    <3>1. k \in Nat /\ (k >= Base => Rest(k) \in 0..k - 1)
      <4>1. k \in Nat
        OBVIOUS
      <4> QED BY <4>1, LastDigits
    <3>2. k >= Base => g[Rest(k)] = f[Rest(k)]
      <4> SUFFICES ASSUME k >= Base PROVE g[Rest(k)] = f[Rest(k)]
        OBVIOUS
      <4>1. PICK d : d = Rest(k)
        OBVIOUS
      <4>2. d \in 0..n /\ d # n
        BY <3>1, <4>1
      <4> QED BY <2>5, <4>1, <4>2
    <3>3. CASE k = n
      <4>1. g[k] = x
        BY <2>5, <3>3
      <4> QED BY <1>2, <2>2, <3>2, <3>3, <4>1
    <3>4. CASE k # n
      <4>1. k \in 0..n - 1 /\ g[k] = f[k]
        BY <2>5, <3>4
      <4>2. f[k] = IF k < Base THEN <<k>> ELSE <<Base + Digit(k)>> \o f[Rest(k)]
        BY <2>1, <4>1 DEF BytesUpTo
      <4> QED BY <1>2, <3>1, <3>2, <4>1, <4>2
    <3> QED BY <3>3, <3>4
  <2>8. Have(n)
    BY <2>6, <2>7
  <2> QED BY <1>1, <2>8
<1> HIDE DEF Have
<1>5. \A n \in 0..v : n \in T
  BY <1>3, <1>4, Counting
<1>6. v \in T
  BY <1>5
<1>7. Have(v)
  BY <1>1, <1>6
<1> QED BY <1>7 DEF Have

\* Varint begins with the last digit.
LEMMA VarintBytes ==
    ASSUME NEW v \in Nat
    PROVE  /\ Varint(v) \in Seq(Nat)
           /\ v < Base => Varint(v) = <<v>>
           /\ v >= Base => Varint(v) = <<Base + Digit(v)>> \o Varint(Rest(v))
<1>0. Base \in Nat /\ Base > 1
  BY IndexAssumption
<1>1. ASSUME NEW w \in Nat
      PROVE  \E f \in [0..w -> Seq(Nat)] : BytesUpTo(w, f) /\ Varint(w) = f[w]
  <2> DEFINE Sat(f) == f = [n \in 0..w |-> IF n < Base THEN <<n>>
                                          ELSE <<Base + Digit(n)>> \o f[Rest(n)]]
  <2>1. PICK e \in [0..w -> Seq(Nat)] : BytesUpTo(w, e)
    BY BytesExist
  <2>2. Sat(e)
    <3>1. e = [n \in 0..w |-> e[n]]
      OBVIOUS
    <3> QED BY <2>1, <3>1 DEF BytesUpTo
  <2>3. PICK f : f = CHOOSE g : Sat(g)
    OBVIOUS
  <2>4. Sat(f)
    <3> HIDE DEF Sat
    <3> QED BY <2>2, <2>3
  <2>5. BytesUpTo(w, f)
    BY <2>4 DEF BytesUpTo
  <2>6. Varint(w) = f[w]
    BY <2>3 DEF Varint, Rest, Digit
  <2> HIDE DEF Sat
  <2>7. w \in 0..w
    OBVIOUS
  <2>8. f[w] = e[w]
    <3>1. Alike(w, f, e)
      BY <2>1, <2>5, <2>7, BytesAgree
    <3> QED BY <2>7, <3>1 DEF Alike
  <2> QED BY <2>1, <2>6, <2>8
<1>2. PICK f \in [0..v -> Seq(Nat)] : BytesUpTo(v, f) /\ Varint(v) = f[v]
  BY <1>1
<1>3. v \in 0..v /\ f[v] \in Seq(Nat)
  BY <1>2
<1>4. f[v] = IF v < Base THEN <<v>> ELSE <<Base + Digit(v)>> \o f[Rest(v)]
  BY <1>2, <1>3 DEF BytesUpTo
<1>5. ASSUME v >= Base PROVE Varint(v) = <<Base + Digit(v)>> \o Varint(Rest(v))
  <2>1. PICK w : w = Rest(v)
    OBVIOUS
  <2>2. w \in 0..v /\ w \in Nat
    BY <1>0, <1>5, <2>1, LastDigits
  <2>3. PICK g \in [0..w -> Seq(Nat)] : BytesUpTo(w, g) /\ Varint(w) = g[w]
    BY <1>1, <2>2
  <2>4. f[w] = g[w]
    <3>1. w \in 0..w
      BY <2>2
    <3>2. BytesUpTo(v, f) /\ BytesUpTo(w, g)
      BY <1>2, <2>3
    <3>3. Alike(w, f, g)
      BY <2>2, <3>2, BytesAgree
    <3> QED BY <3>1, <3>3 DEF Alike
  <2>5. ~(v < Base)
    BY <1>0, <1>5
  <2>6. Varint(v) = <<Base + Digit(v)>> \o f[w]
    BY <1>2, <1>4, <2>1, <2>5
  <2> QED BY <2>1, <2>3, <2>4, <2>6
<1> QED BY <1>0, <1>2, <1>3, <1>4, <1>5

\* What is read at each position.
Reading == [value : Nat, next : Nat]
Reads(bytes, r) ==
    \A p \in 1..Len(bytes) :
        r[p] = IF bytes[p] < Base THEN [value |-> bytes[p], next |-> p + 1]
               ELSE [r[p + 1] EXCEPT !.value = bytes[p] - Base + Base * @]

\* A byte and what the others say.
LEMMA MoreRead ==
    ASSUME NEW x \in Nat, x >= Base, NEW e \in Reading
    PROVE  /\ [e EXCEPT !.value = x - Base + Base * @] \in Reading
           /\ [e EXCEPT !.value = x - Base + Base * @]
                 = [value |-> x - Base + Base * e.value, next |-> e.next]
<1>1. Base \in Nat
  BY LastDigits
<1>2. e.value \in Nat /\ e.next \in Nat /\ e = [value |-> e.value, next |-> e.next]
  BY DEF Reading
<1>3. PICK v : v = x - Base + Base * e.value
  OBVIOUS
<1>4. v \in Nat
  <2>1. x - Base \in Nat /\ Base * e.value \in Nat
    BY <1>1, <1>2
  <2> QED BY <1>3, <2>1
<1>5. [e EXCEPT !.value = v] = [value |-> v, next |-> e.next]
  BY <1>2 DEF Reading
<1> QED BY <1>2, <1>3, <1>4, <1>5 DEF Reading

\* Bytes whose last one ends a number can be read.
LEMMA ReadingReads ==
    ASSUME NEW N \in Nat, N # 0, NEW bytes \in Seq(Nat), Len(bytes) = N, bytes[N] < Base
    PROVE  \E r \in [1..N -> Reading] : Reads(bytes, r) /\ \A p \in 1..N : ReadVarint(bytes, p) = r[p]
<1>0. Base \in Nat /\ DOMAIN bytes = 1..N /\ \A p \in 1..N : bytes[p] \in Nat
  BY LastDigits, LenProperties, ElementOfSeq
<1> DEFINE Step(n, e) == IF bytes[N - n] < Base THEN [value |-> bytes[N - n], next |-> (N - n) + 1]
                         ELSE [e EXCEPT !.value = bytes[N - n] - Base + Base * @]
           First == [value |-> bytes[N], next |-> N + 1]
           Sat(f) == f = [p \in 1..N |-> IF bytes[p] < Base THEN [value |-> bytes[p], next |-> p + 1]
                                         ELSE [f[p + 1] EXCEPT !.value = bytes[p] - Base + Base * @]]
<1>1. ASSUME NEW n \in 1..N - 1, NEW e \in Reading PROVE Step(n, e) \in Reading
  <2>1. N - n \in 1..N /\ (N - n) + 1 \in Nat /\ bytes[N - n] \in Nat
    BY <1>0
  <2>2. CASE bytes[N - n] < Base
    BY <2>1, <2>2 DEF Reading
  <2>3. CASE ~(bytes[N - n] < Base)
    <3>1. bytes[N - n] >= Base
      BY <1>0, <2>1, <2>3
    <3> QED BY <2>1, <2>3, <3>1, MoreRead
  <2> QED BY <2>2, <2>3
<1>2. First \in Reading
  <2>1. bytes[N] \in Nat /\ N + 1 \in Nat
    BY <1>0
  <2> QED BY <2>1 DEF Reading
<1>3. PICK e : /\ e \in [0..N - 1 -> Reading] /\ e[0] = First
              /\ \A n \in 1..N - 1 : e[n] = Step(n, e[n - 1])
  <2> HIDE DEF Step, First
  <2>1. PICK G : G = [n \in 1..N - 1 |-> [x \in Reading |-> Step(n, x)]]
    OBVIOUS
  <2>2. N - 1 \in Nat /\ G \in Steps(N - 1, Reading)
    BY <1>1, <2>1 DEF Steps
  <2>3. PICK e \in Runs(N - 1, Reading, First, G) : TRUE
    BY <1>2, <2>2, Iterates
  <2>4. e \in [0..N - 1 -> Reading] /\ e[0] = First /\ \A n \in 1..N - 1 : e[n] = G[n][e[n - 1]]
    BY <2>3 DEF Runs
  <2>5. \A n \in 1..N - 1 : e[n - 1] \in Reading
    BY <2>4
  <2> QED BY <2>1, <2>4, <2>5
<1>4. PICK r : r = [p \in 1..N |-> e[N - p]]
  OBVIOUS
<1>5. r \in [1..N -> Reading]
  BY <1>3, <1>4
<1>6. ASSUME NEW p \in 1..N
      PROVE  r[p] = IF bytes[p] < Base THEN [value |-> bytes[p], next |-> p + 1]
                    ELSE [r[p + 1] EXCEPT !.value = bytes[p] - Base + Base * @]
  <2>1. CASE p = N
    BY <1>3, <1>4, <2>1
  <2>2. CASE p # N
    <3>1. N - p \in 1..N - 1 /\ N - (N - p) = p /\ (N - p) - 1 = N - (p + 1) /\ p + 1 \in 1..N
      BY <2>2
    <3>2. r[p] = e[N - p] /\ r[p + 1] = e[N - (p + 1)]
      BY <1>4, <3>1
    <3>3. PICK n \in 1..N - 1 : n = N - p
      BY <3>1
    <3>4. e[n] = Step(n, e[n - 1])
      BY <1>3
    <3>5. N - n = p /\ e[n - 1] = r[p + 1] /\ e[n] = r[p]
      BY <3>1, <3>2, <3>3
    <3> HIDE DEF Step
    <3>6. r[p] = Step(n, r[p + 1])
      BY <3>4, <3>5
    <3> QED BY <3>5, <3>6 DEF Step
  <2> QED BY <2>1, <2>2
<1>7. Reads(bytes, r)
  BY <1>6 DEF Reads
<1>8. Sat(r)
  <2>1. r = [p \in 1..N |-> r[p]]
    BY <1>5
  <2> QED BY <1>6, <2>1
<1>9. PICK f : f = CHOOSE g : Sat(g)
  OBVIOUS
<1>10. Sat(f)
  <2> HIDE DEF Sat
  <2> QED BY <1>8, <1>9
<1>11. \A p \in 1..N : ReadVarint(bytes, p) = f[p]
  BY <1>0, <1>9 DEF ReadVarint
<1>12. ASSUME NEW p \in 1..N
       PROVE  f[p] = IF bytes[p] < Base THEN [value |-> bytes[p], next |-> p + 1]
                     ELSE [f[p + 1] EXCEPT !.value = bytes[p] - Base + Base * @]
  BY <1>10
<1> HIDE DEF Sat, Step, First
<1>13. PICK T : T = {n \in 0..N - 1 : f[N - n] = r[N - n]}
  OBVIOUS
<1>14. 0 \in T
  <2>1. N \in 1..N /\ N - 0 = N
    OBVIOUS
  <2>2. f[N] = r[N]
    BY <1>6, <1>12, <2>1
  <2> QED BY <1>13, <2>1, <2>2
<1>15. ASSUME NEW n \in 1..N - 1, n - 1 \in T PROVE n \in T
  <2>1. N - n \in 1..N /\ N - (n - 1) = (N - n) + 1
    OBVIOUS
  <2>2. f[(N - n) + 1] = r[(N - n) + 1]
    BY <1>13, <1>15, <2>1
  <2>3. PICK p \in 1..N : p = N - n
    BY <2>1
  <2>4. f[p + 1] = r[p + 1]
    BY <2>2, <2>3
  <2>5. f[p] = r[p]
    <3>1. CASE bytes[p] < Base
      BY <1>6, <1>12, <3>1
    <3>2. CASE ~(bytes[p] < Base)
      <4>1. f[p] = [f[p + 1] EXCEPT !.value = bytes[p] - Base + Base * @]
        BY <1>12, <3>2, Zenon
      <4>2. r[p] = [r[p + 1] EXCEPT !.value = bytes[p] - Base + Base * @]
        BY <1>6, <3>2, Zenon
      <4> QED BY <2>4, <4>1, <4>2, Zenon
    <3> QED BY <3>1, <3>2
  <2> QED BY <1>13, <2>3, <2>5
<1>16. \A n \in 0..N - 1 : n \in T
  <2>1. N - 1 \in Nat
    OBVIOUS
  <2> QED BY <1>14, <1>15, <2>1, Counting
<1>17. ASSUME NEW p \in 1..N PROVE f[p] = r[p]
  <2>1. N - p \in 0..N - 1 /\ N - (N - p) = p
    OBVIOUS
  <2> QED BY <1>13, <1>16, <2>1
<1> QED BY <1>5, <1>7, <1>11, <1>17

\* From position p on these are the bytes.
StartsWith(bytes, p, s) == p + Len(s) - 1 <= Len(bytes) /\ \A k \in 1..Len(s) : bytes[p + k - 1] = s[k]

\* A varint is not empty.
LEMMA VarintSize == ASSUME NEW v \in Nat PROVE Len(Varint(v)) \in Nat \ {0}
<1>1. Varint(v) \in Seq(Nat) /\ Len(Varint(v)) \in Nat
  BY VarintBytes, LenProperties
<1>2. CASE v < Base
  <2>1. Varint(v) = <<v>>
    BY <1>2, VarintBytes
  <2>2. Len(<<v>>) = 1
    OBVIOUS
  <2> QED BY <2>1, <2>2
<1>3. CASE v >= Base
  <2>1. Rest(v) \in Nat /\ Digit(v) \in Nat /\ Base \in Nat
    BY LastDigits
  <2>2. PICK s \in Seq(Nat) : s = Varint(Rest(v))
    BY <2>1, VarintBytes
  <2>3. Varint(v) = <<Base + Digit(v)>> \o s
    BY <1>3, <2>2, VarintBytes
  <2> QED BY <2>1, <2>2, <2>3
<1> QED BY <1>2, <1>3, LastDigits

\* What was written is read, and where it ends.
LEMMA RoundTrip ==
    ASSUME NEW N \in Nat, N # 0, NEW bytes \in Seq(Nat), Len(bytes) = N, bytes[N] < Base,
           NEW v \in Nat, NEW p \in 1..N, StartsWith(bytes, p, Varint(v))
    PROVE  ReadVarint(bytes, p) = [value |-> v, next |-> p + Len(Varint(v))]
<1> DEFINE Right(x, q) == StartsWith(bytes, q, Varint(x))
                             => ReadVarint(bytes, q) = [value |-> x, next |-> q + Len(Varint(x))]
<1>1. PICK r \in [1..N -> Reading] : Reads(bytes, r) /\ \A q \in 1..N : ReadVarint(bytes, q) = r[q]
  BY ReadingReads
<1>2. Base \in Nat /\ Base > 1 /\ \A q \in 1..N : bytes[q] \in Nat
  BY LastDigits, ElementOfSeq
<1>3. PICK T : T = {n \in 0..v : \A x \in 0..n : \A q \in 1..N : Right(x, q)}
  OBVIOUS
<1>4. ASSUME NEW x \in Nat, NEW q \in 1..N, \A y \in 0..x - 1 : \A c \in 1..N : Right(y, c),
             StartsWith(bytes, q, Varint(x))
      PROVE  ReadVarint(bytes, q) = [value |-> x, next |-> q + Len(Varint(x))]
  <2>1. q + Len(Varint(x)) - 1 <= N /\ \A k \in 1..Len(Varint(x)) : bytes[q + k - 1] = Varint(x)[k]
    BY <1>4 DEF StartsWith
  <2>2. CASE x < Base
    <3>1. Varint(x) = <<x>>
      BY <2>2, VarintBytes
    <3>0. Len(<<x>>) = 1 /\ <<x>>[1] = x
      OBVIOUS
    <3>2. bytes[q] = x
      <4>1. 1 \in 1..Len(Varint(x)) /\ q + 1 - 1 = q
        BY <3>1, <3>0
      <4> QED BY <2>1, <3>1, <3>0, <4>1
    <3> QED BY <1>1, <2>2, <3>1, <3>0, <3>2 DEF Reads
  <2>3. CASE x >= Base
    <3>1. Rest(x) \in 0..x - 1 /\ Rest(x) \in Nat /\ Digit(x) \in 0..Base - 1
      BY <2>3, LastDigits
    <3>2. PICK y, s, d : y = Rest(x) /\ s = Varint(y) /\ d = Base + Digit(x)
      OBVIOUS
    <3>3. y \in 0..x - 1 /\ y \in Nat /\ s \in Seq(Nat) /\ Len(s) \in Nat \ {0} /\ d \in Nat
      <4>1. y \in Nat
        BY <3>1, <3>2
      <4>2. Varint(y) \in Seq(Nat) /\ Len(Varint(y)) \in Nat \ {0}
        BY <4>1, VarintBytes, VarintSize
      <4> QED BY <1>2, <3>1, <3>2, <4>1, <4>2
    <3>4. Varint(x) = <<d>> \o s
      BY <2>3, <3>2, VarintBytes
    <3>5. /\ Len(Varint(x)) = Len(s) + 1 /\ Varint(x)[1] = d
          /\ \A k \in 1..Len(s) : Varint(x)[k + 1] = s[k]
      BY <3>3, <3>4
    <3>6. bytes[q] = d
      <4>1. 1 \in 1..Len(Varint(x)) /\ q + 1 - 1 = q
        BY <3>3, <3>5
      <4> QED BY <2>1, <3>5, <4>1
    <3>7. q + 1 \in 1..N /\ StartsWith(bytes, q + 1, s)
      <4>1. q + 1 \in 1..N /\ (q + 1) + Len(s) - 1 <= N
        BY <2>1, <3>3, <3>5
      <4>2. ASSUME NEW k \in 1..Len(s) PROVE bytes[(q + 1) + k - 1] = s[k]
        <5>1. k + 1 \in 1..Len(Varint(x)) /\ q + (k + 1) - 1 = (q + 1) + k - 1
          BY <3>3, <3>5
        <5>2. bytes[q + (k + 1) - 1] = Varint(x)[k + 1]
          BY <2>1, <5>1
        <5> QED BY <3>5, <5>1, <5>2
      <4> QED BY <4>1, <4>2 DEF StartsWith
    <3>8. r[q + 1] = [value |-> y, next |-> (q + 1) + Len(s)]
      BY <1>1, <1>4, <3>2, <3>3, <3>7
    <3>9. r[q] = [r[q + 1] EXCEPT !.value = d - Base + Base * @]
      <4>1. ~(d < Base)
        BY <1>2, <3>1, <3>2
      <4> QED BY <1>1, <3>6, <4>1 DEF Reads
    <3>10. r[q] = [value |-> d - Base + Base * y, next |-> (q + 1) + Len(s)]
      <4>1. d >= Base
        BY <1>2, <3>1, <3>2
      <4>2. r[q + 1] \in Reading
        BY <3>7
      <4> QED BY <3>3, <3>8, <3>9, <4>1, <4>2, MoreRead
    <3>11. d - Base + Base * y = x
      <4>1. x = Base * y + Digit(x)
        BY <3>2, DigitsMakeUp
      <4>2. Base * y \in Nat
        BY <1>2, <3>3
      <4> QED BY <1>2, <3>1, <3>2, <4>1, <4>2
    <3>12. (q + 1) + Len(s) = q + Len(Varint(x))
      BY <3>3, <3>5
    <3> QED BY <1>1, <3>10, <3>11, <3>12
  <2> QED BY <1>2, <2>2, <2>3
<1>5. 0 \in T
  <2>1. \A q \in 1..N : Right(0, q)
    BY <1>4
  <2>2. \A x \in 0..0 : x = 0
    OBVIOUS
  <2> HIDE DEF Right
  <2> QED BY <1>3, <2>1, <2>2
<1>6. ASSUME NEW n \in 1..v, n - 1 \in T PROVE n \in T
  <2> HIDE DEF Right
  <2>1. \A x \in 0..n - 1 : \A q \in 1..N : Right(x, q)
    BY <1>3, <1>6
  <2>2. \A q \in 1..N : Right(n, q)
    <3>1. n \in Nat
      OBVIOUS
    <3> QED BY <1>4, <2>1, <3>1 DEF Right
  <2>3. \A x \in 0..n : x \in 0..n - 1 \/ x = n
    OBVIOUS
  <2>4. \A x \in 0..n : \A q \in 1..N : Right(x, q)
    BY <2>1, <2>2, <2>3
  <2> QED BY <1>3, <2>4
<1>7. Right(v, p)
  <2> HIDE DEF Right
  <2>1. \A n \in 0..v : n \in T
    BY <1>5, <1>6, Counting
  <2>2. v \in T /\ v \in 0..v
    BY <2>1
  <2> QED BY <1>3, <2>2
<1> QED BY <1>7

\* The last byte ends it.
LEMMA VarintEnds == ASSUME NEW v \in Nat PROVE Varint(v)[Len(Varint(v))] < Base
<1> DEFINE Ends(x) == Varint(x)[Len(Varint(x))] < Base
<1>1. ASSUME NEW x \in Nat, \A y \in 0..x - 1 : Ends(y) PROVE Ends(x)
  <2>1. CASE x < Base
    <3>1. Varint(x) = <<x>>
      BY <2>1, VarintBytes
    <3>2. Len(<<x>>) = 1 /\ <<x>>[1] = x
      OBVIOUS
    <3> QED BY <2>1, <3>1, <3>2
  <2>2. CASE x >= Base
    <3>1. PICK y, s, d : y = Rest(x) /\ s = Varint(y) /\ d = Base + Digit(x)
      OBVIOUS
    <3>2. y \in 0..x - 1 /\ y \in Nat /\ d \in Nat
      BY <2>2, <3>1, LastDigits
    <3>3. s \in Seq(Nat) /\ Len(s) \in Nat \ {0} /\ s[Len(s)] < Base
      BY <1>1, <3>1, <3>2, VarintBytes, VarintSize
    <3>4. Varint(x) = <<d>> \o s
      BY <2>2, <3>1, VarintBytes
    <3>5. Len(<<d>> \o s) = Len(s) + 1 /\ (<<d>> \o s)[Len(s) + 1] = s[Len(s)]
      BY <3>2, <3>3
    <3> QED BY <3>3, <3>4, <3>5
  <2> QED BY <2>1, <2>2, LastDigits
<1> HIDE DEF Ends
<1>2. PICK T : T = {n \in 0..v : \A x \in 0..n : Ends(x)}
  OBVIOUS
<1>3. 0 \in T
  <2>1. Ends(0)
    BY <1>1
  <2>2. \A x \in 0..0 : x = 0
    OBVIOUS
  <2> QED BY <1>2, <2>1, <2>2
<1>4. ASSUME NEW n \in 1..v, n - 1 \in T PROVE n \in T
  <2>1. \A x \in 0..n - 1 : Ends(x)
    BY <1>2, <1>4
  <2>2. n \in Nat
    OBVIOUS
  <2>3. Ends(n)
    BY <1>1, <2>1, <2>2
  <2>4. \A x \in 0..n : x \in 0..n - 1 \/ x = n
    OBVIOUS
  <2>5. \A x \in 0..n : Ends(x)
    BY <2>1, <2>3, <2>4
  <2> QED BY <1>2, <2>5
<1>5. \A n \in 0..v : n \in T
  BY <1>3, <1>4, Counting
<1>6. v \in T /\ v \in 0..v
  BY <1>5
<1>7. Ends(v)
  BY <1>2, <1>6
<1> QED BY <1>7 DEF Ends

-----------------------------------------------------------------------------
(* Postings.                                                               *)

\* Two numbers, one after the other.
Couple(a, b) == Varint(a) \o Varint(b)

\* The bytes of a couple are those of its numbers, and the last ends it.
LEMMA Couples ==
    ASSUME NEW a \in Nat, NEW b \in Nat
    PROVE  /\ Couple(a, b) \in Seq(Nat) /\ Len(Couple(a, b)) = Len(Varint(a)) + Len(Varint(b))
           /\ Len(Couple(a, b)) \in Nat \ {0}
           /\ \A k \in 1..Len(Varint(a)) : Couple(a, b)[k] = Varint(a)[k]
           /\ \A k \in 1..Len(Varint(b)) : Couple(a, b)[Len(Varint(a)) + k] = Varint(b)[k]
           /\ Couple(a, b)[Len(Couple(a, b))] < Base
<1>1. PICK s, t, c : s = Varint(a) /\ t = Varint(b) /\ c = Couple(a, b)
  OBVIOUS
<1>2. s \in Seq(Nat) /\ t \in Seq(Nat) /\ Len(s) \in Nat \ {0} /\ Len(t) \in Nat \ {0} /\ t[Len(t)] < Base
  BY <1>1, VarintBytes, VarintSize, VarintEnds
<1>3. c = s \o t
  BY <1>1 DEF Couple
<1>4. c \in Seq(Nat) /\ Len(c) = Len(s) + Len(t)
  BY <1>2, <1>3
<1>5. \A k \in 1..Len(s) : c[k] = s[k]
  BY <1>2, <1>3
<1>6. \A k \in 1..Len(t) : c[Len(s) + k] = t[k]
  BY <1>2, <1>3
<1>7. c[Len(c)] < Base
  <2>1. Len(t) \in 1..Len(t)
    BY <1>2
  <2> QED BY <1>2, <1>4, <1>6, <2>1
<1> QED BY <1>1, <1>2, <1>4, <1>5, <1>6, <1>7

\* They are read one after the other.
BothRead(bytes, p, a, b) ==
    \E q \in 1..Len(bytes) : /\ ReadVarint(bytes, p) = [value |-> a, next |-> q]
                           /\ ReadVarint(bytes, q) = [value |-> b, next |-> p + Len(Couple(a, b))]

\* Reading at the start of a couple gives its two numbers and where it ends.
LEMMA CoupleRead ==
    ASSUME NEW N \in Nat, N # 0, NEW bytes \in Seq(Nat), Len(bytes) = N, bytes[N] < Base,
           NEW a \in Nat, NEW b \in Nat, NEW p \in 1..N, StartsWith(bytes, p, Couple(a, b))
    PROVE  BothRead(bytes, p, a, b)
<1>1. PICK s, t, c : s = Varint(a) /\ t = Varint(b) /\ c = Couple(a, b)
  OBVIOUS
<1>2. Len(s) \in Nat \ {0} /\ Len(t) \in Nat \ {0} /\ Len(c) = Len(s) + Len(t)
  BY <1>1, VarintSize, Couples
<1>3. (\A k \in 1..Len(s) : c[k] = s[k]) /\ \A k \in 1..Len(t) : c[Len(s) + k] = t[k]
  <2>1. \A k \in 1..Len(Varint(a)) : Couple(a, b)[k] = Varint(a)[k]
    BY Couples
  <2>2. \A k \in 1..Len(Varint(b)) : Couple(a, b)[Len(Varint(a)) + k] = Varint(b)[k]
    BY Couples
  <2> QED BY <1>1, <2>1, <2>2
<1>4. p + Len(c) - 1 <= N /\ \A k \in 1..Len(c) : bytes[p + k - 1] = c[k]
  BY <1>1 DEF StartsWith
<1>5. PICK q : q = p + Len(s)
  OBVIOUS
<1>6. q \in 1..N
  BY <1>2, <1>4, <1>5
<1>7. StartsWith(bytes, p, s)
  <2>1. \A k \in 1..Len(s) : k \in 1..Len(c) /\ bytes[p + k - 1] = s[k]
    BY <1>2, <1>3, <1>4
  <2>2. p + Len(s) - 1 <= N
    BY <1>2, <1>4
  <2> QED BY <2>1, <2>2 DEF StartsWith
<1>8. StartsWith(bytes, q, t)
  <2>1. ASSUME NEW k \in 1..Len(t) PROVE bytes[q + k - 1] = t[k]
    <3>1. Len(s) + k \in 1..Len(c) /\ p + (Len(s) + k) - 1 = q + k - 1
      BY <1>2, <1>5
    <3>2. bytes[p + (Len(s) + k) - 1] = c[Len(s) + k]
      BY <1>4, <3>1
    <3> QED BY <1>3, <3>1, <3>2
  <2>2. q + Len(t) - 1 <= N
    BY <1>2, <1>4, <1>5
  <2> QED BY <2>1, <2>2 DEF StartsWith
<1>9. ReadVarint(bytes, p) = [value |-> a, next |-> q]
  BY <1>1, <1>5, <1>7, RoundTrip
<1>10. ReadVarint(bytes, q) = [value |-> b, next |-> q + Len(t)]
  BY <1>1, <1>6, <1>8, RoundTrip
<1>11. q + Len(t) = p + Len(c)
  BY <1>2, <1>5
<1> QED BY <1>1, <1>6, <1>9, <1>10, <1>11 DEF BothRead

\* Lists can be laid end to end.
LEMMA Laying ==
    ASSUME NEW S, NEW N \in Nat, NEW s \in [1..N -> Seq(S)]
    PROVE  \E h \in [0..N -> Seq(S)] : Laid(N, s, h) /\ FlattenSeq(s) = h[N]
<1>1. PICK G : G = [n \in 1..N |-> [x \in Seq(S) |-> x \o s[n]]]
  OBVIOUS
<1>2. PICK T : T = Seq(S)
  OBVIOUS
<1>3. \A n \in 1..N : s[n] \in T
  BY <1>2
<1>4. \A x, y \in T : x \o y \in T
  BY <1>2, ConcatProperties
<1>5. G \in Steps(N, T)
  BY <1>1, <1>2, <1>3, <1>4 DEF Steps
<1>6. <<>> \in T
  BY <1>2
<1>7. PICK h \in Runs(N, T, <<>>, G) : TRUE
  BY <1>5, <1>6, Iterates
<1>8. h \in [0..N -> T] /\ h[0] = <<>> /\ \A n \in 1..N : h[n] = G[n][h[n - 1]]
  BY <1>7 DEF Runs
<1>9. \A n \in 1..N : h[n - 1] \in T
  BY <1>8
<1>10. \A n \in 1..N : h[n] = h[n - 1] \o s[n]
  BY <1>1, <1>2, <1>8, <1>9
<1>11. h \in [0..N -> Seq(S)] /\ Laid(N, s, h)
  BY <1>2, <1>8, <1>10 DEF Laid
<1>12. s \in Seq(Seq(S)) /\ Len(s) = N
  BY Listed
<1>13. FlattenSeq(s) = h[N]
  BY <1>11, <1>12, Flattening
<1> QED BY <1>11, <1>13

\* Where they begin there.
LEMMA LaidStart ==
    ASSUME NEW N \in Nat, NEW s \in [1..N -> Seq(Nat)],
           NEW h \in [0..N -> Seq(Nat)], Laid(N, s, h), NEW n \in 1..N
    PROVE  /\ Len(h[n - 1]) \in Nat /\ Len(h[n]) = Len(h[n - 1]) + Len(s[n]) /\ Len(h[n]) <= Len(h[N])
           /\ StartsWith(h[N], Len(h[n - 1]) + 1, s[n])
<1>1. FoundAgain(N, s, h)
  BY Slices
<1>2. PICK bytes, a, b, t : bytes = h[N] /\ a = Len(h[n - 1]) /\ b = Len(h[n]) /\ t = s[n]
  OBVIOUS
<1>3. b = a + Len(t) /\ SubSeq(bytes, a + 1, b) = t
  BY <1>1, <1>2 DEF FoundAgain
<1>4. t \in Seq(Nat) /\ a \in Nat /\ b \in Nat /\ Len(t) \in Nat /\ bytes \in Seq(Nat)
  <2>1. n - 1 \in 0..N /\ n \in 0..N /\ N \in 0..N
    OBVIOUS
  <2> QED BY <1>2, <2>1, LenProperties
<1>5. b <= Len(bytes)
  <2>1. PICK z : z = [k \in 0..N |-> Len(h[k])]
    OBVIOUS
  <2>2. ASSUME NEW k \in 1..N PROVE z[k - 1] <= z[k] /\ z[k] \in Nat /\ z[k - 1] \in Nat
    <3>1. k - 1 \in 0..N /\ k \in 0..N
      OBVIOUS
    <3>2. Len(s[k]) \in Nat /\ Len(h[k]) \in Nat /\ Len(h[k - 1]) \in Nat
      BY <3>1, LenProperties
    <3>3. z[k] = Len(h[k]) /\ z[k - 1] = Len(h[k - 1]) /\ Len(h[k]) = Len(h[k - 1]) + Len(s[k])
      BY <1>1, <2>1, <3>1 DEF FoundAgain
    <3>4. PICK x, y, w : x = z[k] /\ y = z[k - 1] /\ w = Len(s[k])
      OBVIOUS
    <3>5. x \in Nat /\ y \in Nat /\ w \in Nat /\ x = y + w
      BY <3>2, <3>3, <3>4
    <3> QED BY <3>4, <3>5
  <2>3. PICK T : T = {k \in 0..N : n <= k => b <= z[k]}
    OBVIOUS
  <2>4. 0 \in T
    BY <2>3
  <2>5. ASSUME NEW k \in 1..N, k - 1 \in T PROVE k \in T
    <3>1. z[k - 1] <= z[k] /\ z[k] \in Nat /\ z[k - 1] \in Nat
      BY <2>2
    <3>2. n <= k - 1 => b <= z[k - 1]
      BY <2>3, <2>5
    <3>3. k \in 0..N /\ (n = k => z[k] = b)
      BY <1>2, <2>1
    <3>4. n <= k => n = k \/ n <= k - 1
      OBVIOUS
    <3>5. n <= k => b <= z[k]
      BY <1>4, <3>1, <3>2, <3>3, <3>4
    <3> QED BY <2>3, <3>3, <3>5
  <2>6. \A k \in 0..N : k \in T
    BY <2>4, <2>5, Counting
  <2>7. N \in T /\ n <= N
    BY <2>6
  <2> QED BY <1>2, <2>1, <2>3, <2>7
<1>6. \A k \in 1..Len(t) : bytes[(a + 1) + k - 1] = t[k]
  <2> SUFFICES ASSUME NEW k \in 1..Len(t) PROVE bytes[(a + 1) + k - 1] = t[k]
    OBVIOUS
  <2>1. a + 1 \in Int /\ b \in Int /\ k \in 1..b - (a + 1) + 1 /\ \A i \in a + 1..b : i \in 1..Len(bytes)
    BY <1>3, <1>4, <1>5
  <2>2. \A i \in a + 1..b : bytes[i] \in Nat
    BY <1>4, <2>1, ElementOfSeq
  <2>3. SubSeq(bytes, a + 1, b)[k] = bytes[(a + 1) + k - 1]
    BY <2>1, <2>2, SubSeqProperties
  <2> QED BY <1>3, <2>3
<1>7. (a + 1) + Len(t) - 1 <= Len(bytes)
  BY <1>3, <1>4, <1>5
<1>8. StartsWith(bytes, a + 1, t)
  BY <1>6, <1>7 DEF StartsWith
<1> QED BY <1>2, <1>3, <1>4, <1>5, <1>8

\* The reading of a pair, and of all of them.
PairAfter(view, last) ==
    LET gap == ReadVarint(view, last.next)
        tf == ReadVarint(view, gap.next)
    IN  [next |-> tf.next, doc |-> last.doc + gap.value, tf |-> tf.value]
PairsRead(view, df, f) ==
    f = [n \in 0..df |-> IF n = 0 THEN [next |-> 1, doc |-> 0, tf |-> 0] ELSE PairAfter(view, f[n - 1])]

ReadPairs(view, df) == CHOOSE f : PairsRead(view, df, f)

\* What is written of the pairs.
Pieces(N, list, tfs) == [n \in 1..N |-> Couple(Gap(list, n), tfs[n])]

ReadBack(N, list, tfs, f) == \A n \in 1..N : f[n].doc = list[n] /\ f[n].tf = tfs[n]

\* The gaps and frequencies that build_index writes are read back as documents and frequencies.
LEMMA PairsAreRead ==
    ASSUME NEW N \in Nat, NEW list \in [1..N -> Nat], NEW tfs \in [1..N -> Nat],
           \A m, n \in 1..N : m < n => list[m] < list[n]
    PROVE  ReadBack(N, list, tfs, ReadPairs(FlattenSeq(Pieces(N, list, tfs)), N))
<1> SUFFICES ASSUME NEW view, view = FlattenSeq(Pieces(N, list, tfs)), NEW f, f = ReadPairs(view, N)
             PROVE  \A n \in 1..N : f[n].doc = list[n] /\ f[n].tf = tfs[n]
  BY DEF ReadBack
<1>1. \A n \in 1..N : Gap(list, n) \in Nat /\ (IF n = 1 THEN 0 ELSE list[n - 1]) + Gap(list, n) = list[n]
  <2> SUFFICES ASSUME NEW n \in 1..N
               PROVE  Gap(list, n) \in Nat /\ (IF n = 1 THEN 0 ELSE list[n - 1]) + Gap(list, n) = list[n]
    OBVIOUS
  <2>1. CASE n = 1
    BY <2>1 DEF Gap
  <2>2. CASE n # 1
    <3>1. n - 1 \in 1..N /\ n - 1 < n
      BY <2>2
    <3>2. list[n - 1] \in Nat /\ list[n] \in Nat /\ list[n - 1] < list[n]
      BY <3>1
    <3> QED BY <2>2, <3>2 DEF Gap
  <2> QED BY <2>1, <2>2
<1>2. PICK s : s = Pieces(N, list, tfs)
  OBVIOUS
<1>3. \A n \in 1..N : s[n] = Couple(Gap(list, n), tfs[n]) /\ s[n] \in Seq(Nat) /\ Len(s[n]) \in Nat \ {0}
  <2> SUFFICES ASSUME NEW n \in 1..N
               PROVE  s[n] = Couple(Gap(list, n), tfs[n]) /\ s[n] \in Seq(Nat) /\ Len(s[n]) \in Nat \ {0}
    OBVIOUS
  <2>1. s[n] = Couple(Gap(list, n), tfs[n])
    BY <1>2 DEF Pieces
  <2>2. PICK a \in Nat, b \in Nat : a = Gap(list, n) /\ b = tfs[n]
    BY <1>1
  <2>3. Couple(a, b) \in Seq(Nat) /\ Len(Couple(a, b)) \in Nat \ {0}
    BY Couples
  <2> QED BY <2>1, <2>2, <2>3
<1>4. s \in [1..N -> Seq(Nat)]
  BY <1>2, <1>3 DEF Pieces
<1>5. PICK h \in [0..N -> Seq(Nat)] : Laid(N, s, h) /\ view = h[N]
  BY <1>2, <1>4, Laying
<1>6. PICK L \in Nat : L = Len(view) /\ view \in Seq(Nat)
  <2>1. view \in Seq(Nat)
    BY <1>5
  <2> QED BY <2>1, LenProperties
<1>7. ASSUME NEW n \in 1..N
      PROVE  /\ Len(h[n - 1]) \in Nat /\ Len(h[n]) = Len(h[n - 1]) + Len(s[n]) /\ Len(h[n]) <= L
             /\ StartsWith(view, Len(h[n - 1]) + 1, s[n])
  BY <1>4, <1>5, <1>6, LaidStart
<1>8. ASSUME N # 0 PROVE L # 0 /\ view[L] < Base
  <2>1. PICK a, t : a = Len(h[N - 1]) /\ t = s[N]
    OBVIOUS
  <2>2. N \in 1..N
    BY <1>8
  <2>3. a \in Nat /\ L = a + Len(t) /\ StartsWith(view, a + 1, t) /\ Len(t) \in Nat \ {0}
    BY <1>3, <1>5, <1>6, <1>7, <2>1, <2>2
  <2>4. t[Len(t)] < Base
    <3>1. Gap(list, N) \in Nat /\ tfs[N] \in Nat
      BY <1>1, <2>2
    <3> QED BY <1>3, <2>1, <2>2, <3>1, Couples
  <2>5. view[L] = t[Len(t)]
    <3>1. Len(t) \in 1..Len(t) /\ (a + 1) + Len(t) - 1 = L
      BY <2>3
    <3> QED BY <2>3, <3>1 DEF StartsWith
  <2> QED BY <2>3, <2>4, <2>5
<1>9. PICK e : e = [n \in 0..N |-> [next |-> Len(h[n]) + 1, doc |-> IF n = 0 THEN 0 ELSE list[n],
                                    tf |-> IF n = 0 THEN 0 ELSE tfs[n]]]
  OBVIOUS
<1>10. e[0] = [next |-> 1, doc |-> 0, tf |-> 0]
  <2>1. h[0] = <<>> /\ Len(<<>>) = 0
    BY <1>5 DEF Laid
  <2> QED BY <1>9, <2>1
<1>11. ASSUME NEW n \in 1..N PROVE e[n] = PairAfter(view, e[n - 1])
  <2>1. PICK p, t, a, b : p = Len(h[n - 1]) + 1 /\ t = s[n] /\ a = Gap(list, n) /\ b = tfs[n]
    OBVIOUS
  <2>2. a \in Nat /\ b \in Nat /\ t = Couple(a, b) /\ Len(t) \in Nat \ {0}
    BY <1>1, <1>3, <2>1
  <2>3. p \in 1..L /\ Len(h[n]) + 1 = p + Len(t) /\ StartsWith(view, p, t)
    <3>1. Len(h[n - 1]) \in Nat /\ Len(h[n]) = Len(h[n - 1]) + Len(t) /\ Len(h[n]) <= L /\ StartsWith(view, p, t)
      BY <1>7, <2>1
    <3> QED BY <2>1, <2>2, <3>1
  <2>4. L # 0 /\ view[L] < Base
    BY <1>8
  <2>5. PICK q \in 1..L : /\ ReadVarint(view, p) = [value |-> a, next |-> q]
                         /\ ReadVarint(view, q) = [value |-> b, next |-> p + Len(t)]
    <3>1. StartsWith(view, p, Couple(a, b))
      BY <2>2, <2>3
    <3>2. BothRead(view, p, a, b)
      BY <1>6, <2>2, <2>3, <2>4, <3>1, CoupleRead
    <3> QED BY <1>6, <2>2, <3>2 DEF BothRead
  <2>6. n - 1 \in 0..N /\ n \in 0..N
    OBVIOUS
  <2>7. e[n - 1].next = p /\ e[n - 1].doc = IF n = 1 THEN 0 ELSE list[n - 1]
    BY <1>9, <2>1, <2>6
  <2>8. e[n] = [next |-> p + Len(t), doc |-> list[n], tf |-> b]
    <3>1. e[n] = [next |-> Len(h[n]) + 1, doc |-> list[n], tf |-> tfs[n]]
      BY <1>9, <2>6
    <3> QED BY <2>1, <2>3, <3>1
  <2>9. e[n - 1].doc + a = list[n]
    BY <1>1, <2>1, <2>7
  <2>10. PairAfter(view, e[n - 1]) = [next |-> p + Len(t), doc |-> list[n], tf |-> b]
    BY <2>5, <2>7, <2>9 DEF PairAfter
  <2> QED BY <2>8, <2>10
<1>12. PairsRead(view, N, e)
  <2>1. e = [n \in 0..N |-> e[n]]
    BY <1>9
  <2>2. \A n \in 0..N : e[n] = IF n = 0 THEN [next |-> 1, doc |-> 0, tf |-> 0] ELSE PairAfter(view, e[n - 1])
    BY <1>10, <1>11
  <2> QED BY <2>1, <2>2 DEF PairsRead
<1>13. PairsRead(view, N, f)
  BY <1>12 DEF ReadPairs
<1>14. /\ f[0] = [next |-> 1, doc |-> 0, tf |-> 0]
       /\ \A n \in 1..N : f[n] = PairAfter(view, f[n - 1])
  <2> DEFINE Pair(n) == IF n = 0 THEN [next |-> 1, doc |-> 0, tf |-> 0] ELSE PairAfter(view, f[n - 1])
  <2>1. f = [n \in 0..N |-> Pair(n)]
    BY <1>13 DEF PairsRead
  <2>2. \A n \in 1..N : Pair(n) = PairAfter(view, f[n - 1])
    OBVIOUS
  <2>3. Pair(0) = [next |-> 1, doc |-> 0, tf |-> 0]
    OBVIOUS
  <2> HIDE DEF Pair
  <2>4. \A n \in 0..N : f[n] = Pair(n)
    BY <2>1
  <2> QED BY <2>2, <2>3, <2>4
<1>15. PICK T : T = {n \in 0..N : f[n] = e[n]}
  OBVIOUS
<1>16. 0 \in T
  BY <1>10, <1>14, <1>15
<1>17. ASSUME NEW n \in 1..N, n - 1 \in T PROVE n \in T
  BY <1>11, <1>14, <1>15, <1>17
<1>18. \A n \in 0..N : n \in T
  BY <1>16, <1>17, Counting
<1>19. ASSUME NEW n \in 1..N PROVE f[n].doc = list[n] /\ f[n].tf = tfs[n]
  <2>1. f[n] = e[n]
    BY <1>15, <1>18
  <2> QED BY <1>9, <2>1
<1> QED BY <1>19

-----------------------------------------------------------------------------
(* What an index file says.                                                *)

\* The documents of a file are chunks in their order.
OrderedDocs(D, docs) ==
    /\ docs \in Seq(Chunks) /\ docs \in [1..D -> Chunks] /\ Len(docs) = D /\ IsInjective(docs)
    /\ \A m, n \in 1..D : m < n => docs[m] < docs[n]

\* The documents of any set of chunks are (ORDER BY id).
LEMMA DocsAreOrdered ==
    ASSUME NEW S \in SUBSET Chunks
    PROVE  \E D \in 0..Cardinality(Chunks) : OrderedDocs(D, Documents(S))
<1>1. S \subseteq Nat /\ IsFiniteSet(S) /\ IsFiniteSet(Chunks)
  BY IndexAssumption, FS_Subset
<1>2. PICK D, docs : D = Cardinality(S) /\ docs = Documents(S)
  OBVIOUS
<1>3. /\ D \in Nat /\ docs \in [1..D -> S] /\ IsInjective(docs)
      /\ \A m, n \in 1..D : docs[m] < docs[n] <=> m < n
  BY <1>1, <1>2, Ascends DEF Documents
<1>4. D <= Cardinality(Chunks) /\ Cardinality(Chunks) \in Nat
  BY <1>1, <1>2, FS_Subset, FS_CardinalityType
<1>5. docs \in [1..D -> Chunks]
  BY <1>3
<1>6. docs \in Seq(Chunks) /\ Len(docs) = D
  BY <1>3, <1>5, Listed
<1> QED BY <1>2, <1>3, <1>4, <1>5, <1>6 DEF OrderedDocs

\* How often the document i holds the term t, and the documents that hold it.
Tf(docs, t, i) == Texts[docs[i + 1]][t]
Holders(D, docs, t) == {i \in 0..D - 1 : Tf(docs, t, i) > 0}

\* Holding lists them, in their order.
LEMMA HoldersAreListed ==
    ASSUME NEW D \in Nat, NEW docs, OrderedDocs(D, docs), NEW t \in ToSet(Terms)
    PROVE  /\ \A i \in 0..D - 1 : i + 1 \in 1..D /\ docs[i + 1] \in Chunks /\ Tf(docs, t, i) \in Nat
           /\ Len(Holding(docs, t)) \in 0..D /\ Len(Holding(docs, t)) = Cardinality(Holders(D, docs, t))
           /\ Holding(docs, t) \in [1..Len(Holding(docs, t)) -> Holders(D, docs, t)]
           /\ IsInjective(Holding(docs, t)) /\ ToSet(Holding(docs, t)) = Holders(D, docs, t)
           /\ \A m, n \in 1..Len(Holding(docs, t)) : m < n => Holding(docs, t)[m] < Holding(docs, t)[n]
<1>1. \A i \in 0..D - 1 : i + 1 \in 1..D /\ docs[i + 1] \in Chunks /\ Tf(docs, t, i) \in Nat
  <2> SUFFICES ASSUME NEW i \in 0..D - 1
               PROVE  i + 1 \in 1..D /\ docs[i + 1] \in Chunks /\ Tf(docs, t, i) \in Nat
    OBVIOUS
  <2>1. i + 1 \in 1..D
    OBVIOUS
  <2>2. docs[i + 1] \in Chunks
    BY <2>1 DEF OrderedDocs
  <2>3. Texts[docs[i + 1]] \in [ToSet(Terms) -> Nat]
    BY <2>2, IndexAssumption
  <2> QED BY <2>1, <2>2, <2>3 DEF Tf
<1>2. PICK H : H = Holders(D, docs, t)
  OBVIOUS
<1>3. Holding(docs, t) = Ascending(H)
  BY <1>2 DEF Holding, Holders, OrderedDocs, Tf
<1>4. H \subseteq 0..D - 1 /\ IsFiniteSet(0..D - 1) /\ Cardinality(0..D - 1) = D
  <2>1. IsFiniteSet(0..D - 1) /\ Cardinality(0..D - 1) = IF 0 > D - 1 THEN 0 ELSE (D - 1) - 0 + 1
    BY FS_Interval
  <2> QED BY <1>2, <2>1 DEF Holders
<1>5. IsFiniteSet(H) /\ Cardinality(H) <= D /\ H \subseteq Nat
  <2>1. IsFiniteSet(H) /\ Cardinality(H) <= Cardinality(0..D - 1)
    BY <1>4, FS_Subset
  <2> QED BY <1>4, <2>1
<1>6. PICK N \in 0..D : N = Cardinality(H)
  BY <1>5, FS_CardinalityType
<1>7. /\ Len(Ascending(H)) = N /\ Ascending(H) \in [1..N -> H]
      /\ IsInjective(Ascending(H)) /\ ToSet(Ascending(H)) = H
      /\ \A m, n \in 1..N : Ascending(H)[m] < Ascending(H)[n] <=> m < n
  BY <1>5, <1>6, Ascends
<1> QED BY <1>1, <1>2, <1>3, <1>6, <1>7

\* How often those hold it.
Tfs(docs, t) == [n \in DOMAIN Holding(docs, t) |-> Tf(docs, t, Holding(docs, t)[n])]

\* Of the holders pairs are encoded.
LEMMA EncodedPairs ==
    ASSUME NEW D \in Nat, NEW docs, OrderedDocs(D, docs), NEW t \in ToSet(Terms),
           NEW N, N = Len(Holding(docs, t))
    PROVE  /\ Encoded(docs, t) = FlattenSeq(Pieces(N, Holding(docs, t), Tfs(docs, t)))
           /\ Encoded(docs, t) \in Seq(Nat)
           /\ N \in Nat /\ Holding(docs, t) \in [1..N -> Nat] /\ Tfs(docs, t) \in [1..N -> Nat]
<1>1. PICK list, tfs : list = Holding(docs, t) /\ tfs = Tfs(docs, t)
  OBVIOUS
<1>2. \A i \in 0..D - 1 : Tf(docs, t, i) \in Nat
  BY HoldersAreListed
<1>3. N \in 0..D /\ list \in [1..N -> Holders(D, docs, t)] /\ \A m, n \in 1..N : m < n => list[m] < list[n]
  BY <1>1, HoldersAreListed
<1>4. \A n \in 1..N : list[n] \in 0..D - 1
  BY <1>3 DEF Holders
<1>5. N \in Nat /\ list \in [1..N -> Nat] /\ DOMAIN list = 1..N
  BY <1>3, <1>4
<1>6. tfs = [n \in 1..N |-> Tf(docs, t, list[n])]
  BY <1>1, <1>5 DEF Tfs
<1>7. tfs \in [1..N -> Nat]
  BY <1>2, <1>4, <1>6
<1>8. Encoded(docs, t) = FlattenSeq(Pieces(N, list, tfs))
  <2>1. \A n \in 1..N : tfs[n] = Texts[docs[list[n] + 1]][t]
    BY <1>6 DEF Tf
  <2>2. Pieces(N, list, tfs) = [n \in DOMAIN list |-> Varint(Gap(list, n)) \o Varint(Texts[docs[list[n] + 1]][t])]
    BY <1>5, <2>1 DEF Pieces, Couple
  <2> QED BY <1>1, <2>2 DEF Encoded
<1>9. Encoded(docs, t) \in Seq(Nat)
  <2>1. \A n \in 1..N : Gap(list, n) \in Nat
    <3> SUFFICES ASSUME NEW n \in 1..N PROVE Gap(list, n) \in Nat
      OBVIOUS
    <3>1. CASE n = 1
      BY <1>5, <3>1 DEF Gap
    <3>2. CASE n # 1
      <4>1. n - 1 \in 1..N /\ n - 1 < n
        BY <1>5, <3>2
      <4>2. list[n - 1] \in Nat /\ list[n] \in Nat /\ list[n - 1] < list[n]
        BY <1>3, <1>5, <4>1
      <4> QED BY <3>2, <4>2 DEF Gap
    <3> QED BY <3>1, <3>2
  <2>2. \A n \in 1..N : Couple(Gap(list, n), tfs[n]) \in Seq(Nat)
    <3> SUFFICES ASSUME NEW n \in 1..N PROVE Couple(Gap(list, n), tfs[n]) \in Seq(Nat)
      OBVIOUS
    <3>1. PICK a \in Nat, b \in Nat : a = Gap(list, n) /\ b = tfs[n]
      BY <1>7, <2>1
    <3>2. Couple(a, b) \in Seq(Nat)
      BY Couples
    <3> QED BY <3>1, <3>2
  <2>3. PICK s : s = Pieces(N, list, tfs)
    OBVIOUS
  <2>4. s \in [1..N -> Seq(Nat)]
    BY <2>2, <2>3 DEF Pieces
  <2>5. PICK h \in [0..N -> Seq(Nat)] : Laid(N, s, h) /\ FlattenSeq(s) = h[N]
    BY <1>5, <2>4, Laying
  <2>6. N \in 0..N
    BY <1>5
  <2> QED BY <1>8, <2>3, <2>5, <2>6
<1> QED BY <1>1, <1>5, <1>7, <1>8, <1>9

\* The terms of a file are those some document holds, each once.
LEMMA VocabularyIsHeld ==
    ASSUME NEW D \in Nat, NEW docs, OrderedDocs(D, docs)
    PROVE  /\ Len(Vocabulary(docs)) \in Nat
           /\ Vocabulary(docs) \in [1..Len(Vocabulary(docs)) -> ToSet(Terms)]
           /\ Vocabulary(docs) \in Seq(ToSet(Terms)) /\ IsInjective(Vocabulary(docs))
           /\ ToSet(Vocabulary(docs)) = {t \in ToSet(Terms) : Holders(D, docs, t) # {}}
<1>1. PICK L \in Nat : L = Len(Terms) /\ DOMAIN Terms = 1..L
  BY IndexAssumption, LenProperties
<1>2. \A n \in 1..L : Terms[n] \in ToSet(Terms)
  BY <1>1 DEF ToSet
<1>3. \A t \in ToSet(Terms) : \E n \in 1..L : Terms[n] = t
  BY <1>1 DEF ToSet
<1>4. \A t \in ToSet(Terms) : Holding(docs, t) # <<>> <=> Holders(D, docs, t) # {}
  <2> SUFFICES ASSUME NEW t \in ToSet(Terms) PROVE Holding(docs, t) # <<>> <=> Holders(D, docs, t) # {}
    OBVIOUS
  <2>1. PICK list, N, H : list = Holding(docs, t) /\ N = Len(list) /\ H = Holders(D, docs, t)
    OBVIOUS
  <2>2. N \in Nat /\ list \in [1..N -> H] /\ ToSet(list) = H
    BY <2>1, HoldersAreListed
  <2>3. N = 0 => list = <<>> /\ H = {}
    BY <2>2 DEF ToSet
  <2>4. list = <<>> => N = 0
    BY <2>1
  <2>5. N # 0 => H # {}
    <3>1. N # 0 => 1 \in 1..N
      BY <2>2
    <3> QED BY <2>2, <3>1
  <2> QED BY <2>1, <2>3, <2>4, <2>5
<1>5. PICK S : S = {n \in DOMAIN Terms : Holding(docs, Terms[n]) # <<>>}
  OBVIOUS
<1>6. S \subseteq Nat /\ IsFiniteSet(S) /\ S \subseteq 1..L
  <2>1. S \subseteq 1..L
    BY <1>1, <1>5
  <2>2. IsFiniteSet(1..L)
    BY <1>1, FS_Interval
  <2>3. IsFiniteSet(S)
    BY <2>1, <2>2, FS_Subset
  <2>4. S \subseteq Nat
    BY <1>1, <2>1
  <2> QED BY <2>1, <2>3, <2>4
<1>7. PICK held, M : held = Ascending(S) /\ M = Cardinality(S)
  OBVIOUS
<1>8. M \in Nat /\ held \in [1..M -> S] /\ IsInjective(held) /\ ToSet(held) = S
  BY <1>6, <1>7, Ascends
<1>9. PICK v : v = Vocabulary(docs) /\ v = [m \in 1..M |-> Terms[held[m]]]
  BY <1>5, <1>7, <1>8 DEF Vocabulary
<1>10. \A m \in 1..M : v[m] = Terms[held[m]] /\ held[m] \in S /\ held[m] \in 1..L /\ v[m] \in ToSet(Terms)
  BY <1>2, <1>6, <1>8, <1>9
<1>11. v \in [1..M -> ToSet(Terms)]
  BY <1>9, <1>10
<1>12. v \in Seq(ToSet(Terms)) /\ Len(v) = M
  BY <1>8, <1>11, Listed
<1>13. IsInjective(v)
  <2>1. \A a, b \in 1..M : held[a] = held[b] => a = b
    BY <1>8 DEF IsInjective
  <2>2. \A a, b \in 1..L : Terms[a] = Terms[b] => a = b
    BY <1>1, IndexAssumption DEF IsInjective
  <2>3. \A a, b \in 1..M : v[a] = v[b] => a = b
    BY <1>10, <2>1, <2>2
  <2> QED BY <1>11, <2>3 DEF IsInjective
<1>14. ToSet(v) = {t \in ToSet(Terms) : Holders(D, docs, t) # {}}
  <2>1. ASSUME NEW t \in ToSet(v) PROVE t \in ToSet(Terms) /\ Holders(D, docs, t) # {}
    <3>1. PICK m \in 1..M : v[m] = t
      BY <1>9, <2>1 DEF ToSet
    <3>2. held[m] \in S /\ t = Terms[held[m]] /\ t \in ToSet(Terms)
      BY <1>10, <3>1
    <3> QED BY <1>4, <1>5, <3>2
  <2>2. ASSUME NEW t \in ToSet(Terms), Holders(D, docs, t) # {} PROVE t \in ToSet(v)
    <3>1. PICK n \in 1..L : Terms[n] = t
      BY <1>3
    <3>2. n \in S
      BY <1>1, <1>4, <1>5, <2>2, <3>1
    <3>3. PICK m \in 1..M : held[m] = n
      BY <1>8, <3>2 DEF ToSet
    <3>4. v[m] = t
      BY <1>10, <3>1, <3>3
    <3> QED BY <1>9, <3>4 DEF ToSet
  <2> QED BY <2>1, <2>2
<1> QED BY <1>8, <1>9, <1>11, <1>12, <1>13, <1>14

\* The dictionary says where in the blob the postings of a term are.
LEMMA EntriesLead ==
    ASSUME NEW D \in Nat, NEW docs, OrderedDocs(D, docs), NEW t \in ToSet(Vocabulary(docs)),
           NEW e, e = Dictionary(docs)[t], NEW blob, blob = Blob(docs, Vocabulary(docs))
    PROVE  e.df = Len(Holding(docs, t)) /\ SubSeq(blob, e.off + 1, e.off + e.len) = Encoded(docs, t)
<1>1. PICK v, M : v = Vocabulary(docs) /\ M = Len(v)
  OBVIOUS
<1>2. M \in Nat /\ v \in [1..M -> ToSet(Terms)] /\ v \in Seq(ToSet(Terms)) /\ IsInjective(v)
  BY <1>1, VocabularyIsHeld
<1>3. PICK m : m = CHOOSE n \in DOMAIN v : v[n] = t
  OBVIOUS
<1>4. m \in 1..M /\ v[m] = t
  <2>1. \E n \in DOMAIN v : v[n] = t
    BY <1>1 DEF ToSet
  <2> QED BY <1>2, <1>3, <2>1
<1>5. PICK before : before = SubSeq(v, 1, m - 1)
  OBVIOUS
<1>6. e = [df |-> Len(Holding(docs, t)), off |-> Len(Blob(docs, before)), len |-> Len(Encoded(docs, t))]
  BY <1>1, <1>3, <1>5 DEF Dictionary
<1>7. PICK p : p = [n \in 1..M |-> Encoded(docs, v[n])]
  OBVIOUS
<1>8. p \in [1..M -> Seq(Nat)]
  BY <1>2, <1>7, EncodedPairs
<1>9. PICK h \in [0..M -> Seq(Nat)] : Laid(M, p, h) /\ FlattenSeq(p) = h[M]
  BY <1>2, <1>8, Laying
<1>10. blob = h[M]
  BY <1>1, <1>2, <1>7, <1>9 DEF Blob
<1>11. Blob(docs, before) = h[m - 1]
  <2>1. PICK k \in Nat : k = m - 1
    BY <1>4
  <2>2. k <= M
    BY <1>2, <1>4, <2>1
  <2>3. before = [n \in 1..k |-> v[n]]
    <3>1. /\ Len(before) = k /\ before \in Seq(ToSet(Terms)) 
          /\ \A n \in 1..k : before[n] = v[n]
      <4>1. 1 \in 1..Len(v) + 1 /\ m - 1 \in 0..Len(v) /\ \A i \in 1..m - 1 : v[i] \in ToSet(Terms)
        BY <1>1, <1>2, <1>4
      <4>2. /\ SubSeq(v, 1, k) \in Seq(ToSet(Terms)) /\ Len(SubSeq(v, 1, k)) = k
            /\ \A n \in 1..k : SubSeq(v, 1, k)[n] = v[1 + n - 1]
        <5>1. 1 \in Int /\ k \in Int /\ \A i \in 1..k : v[i] \in ToSet(Terms)
          BY <2>1, <4>1
        <5>2. Len(SubSeq(v, 1, k)) = IF 1 <= k THEN k - 1 + 1 ELSE 0
          BY <1>2, <5>1, SubSeqProperties
        <5> QED BY <2>1, <1>2, <5>1, <5>2, SubSeqProperties
      <4>3. \A n \in 1..k : 1 + n - 1 = n
        BY <2>1
      <4> QED BY <1>5, <2>1, <4>2, <4>3
    <3> QED BY <3>1
  <2>4. PICK q : q = [n \in 1..k |-> p[n]]
    OBVIOUS
  <2>5. \A n \in 1..k : n \in 1..M
    BY <1>2, <2>1, <2>2
  <2>6. q \in [1..k -> Seq(Nat)]
    BY <1>8, <2>4, <2>5
  <2>7. q \in Seq(Seq(Nat)) /\ Len(q) = k
    BY <2>1, <2>6, Listed
  <2>8. PICK g : g = [n \in 0..k |-> h[n]]
    OBVIOUS
  <2>9. \A n \in 0..k : n \in 0..M
    BY <1>2, <2>1, <2>2
  <2>10. g \in [0..k -> Seq(Nat)] /\ g[k] = h[k]
    BY <1>9, <2>1, <2>8, <2>9
  <2>11. Laid(k, q, g)
    <3>1. g[0] = <<>>
      BY <1>9, <2>1, <2>8 DEF Laid
    <3>2. ASSUME NEW n \in 1..k PROVE g[n] = g[n - 1] \o q[n]
      <4>1. n \in 0..k /\ n - 1 \in 0..k /\ n \in 1..M
        BY <2>1, <2>5
      <4>2. g[n] = h[n] /\ g[n - 1] = h[n - 1] /\ q[n] = p[n]
        BY <2>4, <2>8, <4>1
      <4> QED BY <1>9, <4>1, <4>2 DEF Laid
    <3> QED BY <3>1, <3>2 DEF Laid
  <2>12. FlattenSeq(q) = h[k]
    BY <2>1, <2>6, <2>7, <2>10, <2>11, Flattening
  <2>13. q = [n \in DOMAIN before |-> Encoded(docs, before[n])]
    <3>1. \A n \in 1..k : q[n] = Encoded(docs, before[n])
      BY <1>7, <2>3, <2>4, <2>5
    <3> QED BY <2>3, <2>4, <3>1
  <2> QED BY <2>1, <2>12, <2>13 DEF Blob
<1>12. FoundAgain(M, p, h)
  BY <1>2, <1>8, <1>9, Slices
<1>13. p[m] = Encoded(docs, t)
  BY <1>4, <1>7
<1>14. Len(h[m]) = Len(h[m - 1]) + Len(p[m]) /\ SubSeq(h[M], Len(h[m - 1]) + 1, Len(h[m])) = p[m]
  BY <1>4, <1>12 DEF FoundAgain
<1>15. e.off = Len(h[m - 1]) /\ e.len = Len(p[m]) /\ e.df = Len(Holding(docs, t))
  BY <1>6, <1>11, <1>13
<1>16. SubSeq(blob, e.off + 1, e.off + e.len) = p[m]
  BY <1>10, <1>14, <1>15
<1> QED BY <1>13, <1>15, <1>16

\* A whole index of documents.
HasAll(file, docs) == file.data = Payload(docs)

\* What a file says of a term is what the texts say.
LEMMA PostingsAreHolders ==
    ASSUME NEW D \in Nat, NEW docs, OrderedDocs(D, docs), NEW file, HasAll(file, docs),
           NEW t, NEW list, list = Postings(file, t)
    PROVE  /\ t \notin ToSet(Vocabulary(docs)) => list = <<>>
           /\ t \in ToSet(Vocabulary(docs)) =>
                 /\ DOMAIN list = 1..Len(Holding(docs, t))
                 /\ \A n \in DOMAIN list : /\ list[n].doc = Holding(docs, t)[n]
                                          /\ list[n].tf = Tf(docs, t, list[n].doc)
<1>1. file.data[3] = Dictionary(docs) /\ file.data[4] = Blob(docs, Vocabulary(docs))
  BY DEF HasAll, Payload
<1>2. DOMAIN file.data[3] = ToSet(Vocabulary(docs))
  BY <1>1 DEF Dictionary
<1>3. t \notin ToSet(Vocabulary(docs)) => list = <<>>
  BY <1>2 DEF Postings
<1>4. ASSUME t \in ToSet(Vocabulary(docs))
      PROVE  /\ DOMAIN list = 1..Len(Holding(docs, t))
             /\ \A n \in DOMAIN list : /\ list[n].doc = Holding(docs, t)[n]
                                      /\ list[n].tf = Tf(docs, t, list[n].doc)
  <2>1. PICK e, N, H, tfs, view :
             /\ e = Dictionary(docs)[t] /\ N = Len(Holding(docs, t)) /\ H = Holding(docs, t)
             /\ tfs = Tfs(docs, t) /\ view = Encoded(docs, t)
    OBVIOUS
  <2>2. e.df = N /\ SubSeq(file.data[4], e.off + 1, e.off + e.len) = view
    BY <1>1, <1>4, <2>1, EntriesLead
  <2>3. t \in ToSet(Terms)
    BY <1>4, VocabularyIsHeld
  <2>4. N \in Nat /\ H \in [1..N -> Nat] /\ tfs \in [1..N -> Nat] /\ view = FlattenSeq(Pieces(N, H, tfs))
    BY <2>1, <2>3, EncodedPairs
  <2>5. \A m, n \in 1..N : m < n => H[m] < H[n]
    BY <2>1, <2>3, HoldersAreListed
  <2>6. PICK f : f = ReadPairs(view, N)
    OBVIOUS
  <2>7. \A n \in 1..N : f[n].doc = H[n] /\ f[n].tf = tfs[n]
    <3>1. ReadBack(N, H, tfs, ReadPairs(FlattenSeq(Pieces(N, H, tfs)), N))
      BY <2>4, <2>5, PairsAreRead
    <3> QED BY <2>4, <2>6, <3>1 DEF ReadBack
  <2>8. list = [n \in 1..N |-> f[n]]
    <3>1. t \in DOMAIN file.data[3] /\ file.data[3][t] = e
      BY <1>1, <1>2, <1>4, <2>1
    <3>2. PICK x : x = file.data[3][t]
      OBVIOUS
    <3>3. Postings(file, t) = [n \in 1..file.data[3][t].df |->
             ReadPairs(SubSeq(file.data[4], file.data[3][t].off + 1, file.data[3][t].off + file.data[3][t].len),
                       file.data[3][t].df)[n]]
      BY <3>1, Zenon DEF Postings, ReadPairs, PairsRead, PairAfter
    <3> QED BY <2>2, <2>6, <3>1, <3>3
  <2>9. \A n \in 1..N : list[n] = f[n]
    BY <2>8
  <2>10. DOMAIN list = 1..N
    BY <2>8
  <2>11. \A n \in 1..N : tfs[n] = Tf(docs, t, H[n])
    BY <2>1, <2>4 DEF Tfs
  <2> QED BY <2>1, <2>7, <2>9, <2>10, <2>11
<1> QED BY <1>3, <1>4

-----------------------------------------------------------------------------
(* What a search in it finds.                                              *)

\* So many of the documents hold a term.
LEMMA HoldersAreCounted ==
    ASSUME NEW D \in Nat, NEW docs, OrderedDocs(D, docs), NEW t \in ToSet(Terms)
    PROVE  Cardinality({c \in ToSet(docs) : Texts[c][t] > 0}) = Len(Holding(docs, t))
<1>1. PICK H, N : H = Holding(docs, t) /\ N = Len(H)
  OBVIOUS
<1>2. N \in Nat /\ H \in [1..N -> Holders(D, docs, t)] /\ IsInjective(H) /\ ToSet(H) = Holders(D, docs, t)
  BY <1>1, HoldersAreListed
<1>3. DOMAIN docs = 1..D /\ docs \in [1..D -> Chunks] /\ IsInjective(docs)
  BY DEF OrderedDocs
<1>4. \A n \in 1..N : H[n] \in 0..D - 1 /\ H[n] + 1 \in 1..D /\ Texts[docs[H[n] + 1]][t] > 0
  <2>1. \A n \in 1..N : H[n] \in 0..D - 1 /\ Tf(docs, t, H[n]) > 0
    BY <1>2 DEF Holders
  <2>2. \A i \in 0..D - 1 : i + 1 \in 1..D
    OBVIOUS
  <2> QED BY <2>1, <2>2 DEF Tf
<1>5. PICK q : q = [n \in 1..N |-> docs[H[n] + 1]]
  OBVIOUS
<1>6. q \in [1..N -> Chunks]
  BY <1>3, <1>4, <1>5
<1>7. q \in Seq(Chunks) /\ Len(q) = N
  BY <1>2, <1>6, Listed
<1>8. IsInjective(q)
  <2>1. ASSUME NEW a \in 1..N, NEW b \in 1..N, q[a] = q[b] PROVE a = b
    <3>1. docs[H[a] + 1] = docs[H[b] + 1]
      BY <1>5, <2>1
    <3>2. H[a] + 1 = H[b] + 1
      BY <1>3, <1>4, <3>1 DEF IsInjective
    <3>3. H[a] = H[b]
      BY <1>4, <3>2
    <3> QED BY <1>2, <3>3 DEF IsInjective
  <2> QED BY <1>6, <2>1 DEF IsInjective
<1>9. ToSet(q) = {c \in ToSet(docs) : Texts[c][t] > 0}
  <2>1. ASSUME NEW c \in ToSet(q) PROVE c \in ToSet(docs) /\ Texts[c][t] > 0
    <3>1. PICK n \in 1..N : q[n] = c
      BY <1>6, <2>1 DEF ToSet
    <3>2. c = docs[H[n] + 1] /\ H[n] + 1 \in 1..D /\ Texts[docs[H[n] + 1]][t] > 0
      BY <1>4, <1>5, <3>1
    <3> QED BY <1>3, <3>2 DEF ToSet
  <2>2. ASSUME NEW c \in ToSet(docs), Texts[c][t] > 0 PROVE c \in ToSet(q)
    <3>1. PICK m \in 1..D : docs[m] = c
      BY <1>3 DEF ToSet
    <3>2. PICK i \in 0..D - 1 : i = m - 1 /\ i + 1 = m
      OBVIOUS
    <3>3. i \in Holders(D, docs, t)
      BY <2>2, <3>1, <3>2 DEF Holders, Tf
    <3>4. PICK n \in 1..N : H[n] = i
      BY <1>2, <3>3 DEF ToSet
    <3>5. q[n] = c
      BY <1>5, <3>1, <3>2, <3>4
    <3> QED BY <1>6, <3>5 DEF ToSet
  <2> QED BY <2>1, <2>2
<1>10. Cardinality(ToSet(q)) = N
  BY <1>7, <1>8, Distinct
<1> QED BY <1>1, <1>9, <1>10

\* What a document has from a term is positive where the document holds it.
LEMMA TermsAreRelevant ==
    ASSUME NEW D \in 0..Cardinality(Chunks), NEW docs, OrderedDocs(D, docs), NEW t, NEW i \in 0..D - 1
    PROVE  /\ TermRelevance(docs, t, docs[i + 1]) \in Nat
           /\ TermRelevance(docs, t, docs[i + 1]) > 0 <=> t \in ToSet(Terms) /\ i \in Holders(D, docs, t)
           /\ t \in ToSet(Terms) /\ i \in Holders(D, docs, t) =>
                 /\ TermRelevance(docs, t, docs[i + 1])
                       = Gain(D, Len(Holding(docs, t)), Tf(docs, t, i), Length(docs[i + 1]))
<1>1. Cardinality(Chunks) \in Nat
  BY IndexAssumption, FS_CardinalityType
<1>2. D \in Nat /\ i + 1 \in 1..D
  BY <1>1
<1>3. docs[i + 1] \in Chunks /\ Len(docs) = D
  BY <1>2 DEF OrderedDocs
<1>4. ASSUME t \in ToSet(Terms), i \in Holders(D, docs, t)
      PROVE  /\ Gain(D, Len(Holding(docs, t)), Tf(docs, t, i), Length(docs[i + 1])) \in Nat \ {0}
             /\ TermRelevance(docs, t, docs[i + 1])
                   = Gain(D, Len(Holding(docs, t)), Tf(docs, t, i), Length(docs[i + 1]))
  <2>1. PICK N : N = Len(Holding(docs, t))
    OBVIOUS
  <2>2. N \in 0..D /\ \E n \in 1..N : TRUE
    <3>1. N \in 0..D /\ Holding(docs, t) \in [1..N -> Holders(D, docs, t)]
          /\ ToSet(Holding(docs, t)) = Holders(D, docs, t)
      BY <1>2, <1>4, <2>1, HoldersAreListed
    <3>2. \E n \in 1..N : Holding(docs, t)[n] = i
      BY <1>4, <3>1 DEF ToSet
    <3> QED BY <3>1, <3>2
  <2>3. N \in 1..D /\ D \in 1..Cardinality(Chunks)
    BY <1>1, <2>2
  <2>4. Texts[docs[i + 1]][t] > 0 /\ Tf(docs, t, i) = Texts[docs[i + 1]][t]
    BY <1>4 DEF Holders, Tf
  <2>5. Gain(D, N, Texts[docs[i + 1]][t], Length(docs[i + 1])) \in Nat \ {0}
    BY <1>3, <1>4, <2>3, <2>4, GainAssumption
  <2>6. Cardinality({c \in ToSet(docs) : Texts[c][t] > 0}) = N
    BY <1>2, <1>4, <2>1, HoldersAreCounted
  <2>7. TermRelevance(docs, t, docs[i + 1]) = Gain(D, N, Texts[docs[i + 1]][t], Length(docs[i + 1]))
    BY <1>3, <1>4, <2>4, <2>6 DEF TermRelevance
  <2> QED BY <2>1, <2>4, <2>5, <2>7
<1>5. ASSUME ~(t \in ToSet(Terms) /\ i \in Holders(D, docs, t))
      PROVE  TermRelevance(docs, t, docs[i + 1]) = 0
  BY <1>5 DEF TermRelevance, Holders, Tf
<1>6. CASE t \in ToSet(Terms) /\ i \in Holders(D, docs, t)
  <2>1. PICK g : g = Gain(D, Len(Holding(docs, t)), Tf(docs, t, i), Length(docs[i + 1]))
    OBVIOUS
  <2>2. g \in Nat \ {0} /\ TermRelevance(docs, t, docs[i + 1]) = g
    BY <1>4, <1>6, <2>1
  <2>3. g \in Nat /\ g > 0
    BY <2>2
  <2> QED BY <1>6, <2>1, <2>2, <2>3
<1>7. CASE ~(t \in ToSet(Terms) /\ i \in Holders(D, docs, t))
  <2>1. TermRelevance(docs, t, docs[i + 1]) = 0 /\ 0 \in Nat /\ ~(0 > 0)
    BY <1>5, <1>7
  <2> QED BY <1>7, <2>1
<1> QED BY <1>6, <1>7

\* The terms a file has are those of its documents.
LEMMA TermsAreKept ==
    ASSUME NEW D \in Nat, NEW docs, OrderedDocs(D, docs), NEW t, NEW i \in 0..D - 1
    PROVE  t \in ToSet(Terms) /\ i \in Holders(D, docs, t)
              <=> t \in ToSet(Vocabulary(docs)) /\ \E n \in DOMAIN Holding(docs, t) : Holding(docs, t)[n] = i
<1>1. ToSet(Vocabulary(docs)) = {u \in ToSet(Terms) : Holders(D, docs, u) # {}}
  BY VocabularyIsHeld
<1>2. t \in ToSet(Terms) => ToSet(Holding(docs, t)) = Holders(D, docs, t)
  BY HoldersAreListed
<1> QED BY <1>1, <1>2 DEF ToSet

\* The score a file gives for a term is the relevance by the texts.
LEMMA TermScoreIsRelevance ==
    ASSUME NEW D \in 0..Cardinality(Chunks), NEW docs, OrderedDocs(D, docs), NEW file, HasAll(file, docs),
           NEW t, NEW i \in 0..D - 1
    PROVE  TermScore(file, t, i) = TermRelevance(docs, t, docs[i + 1])
<1>1. D \in Nat
  <2>1. Cardinality(Chunks) \in Nat
    BY IndexAssumption, FS_CardinalityType
  <2> QED BY <2>1
<1>2. i + 1 \in 1..D /\ DOMAIN docs = 1..D /\ Len(docs) = D
  BY <1>1 DEF OrderedDocs
<1>3. PICK list : list = Postings(file, t)
  OBVIOUS
<1>4. PICK l : l = Length(docs[i + 1])
  OBVIOUS
<1>5. /\ Len(Ids(file)) = D /\ file.data[2][i + 1] = l
      /\ t \in ToSet(Vocabulary(docs)) => file.data[3][t].df = Len(Holding(docs, t))
  <2>1. file.data[1] = docs /\ file.data[2] = [k \in DOMAIN docs |-> Length(docs[k])]
    BY DEF HasAll, Payload
  <2>2. file.data[3] = Dictionary(docs)
    BY DEF HasAll, Payload
  <2>3. t \in ToSet(Vocabulary(docs)) => Dictionary(docs)[t].df = Len(Holding(docs, t))
    BY <1>1, EntriesLead
  <2> QED BY <1>2, <1>4, <2>1, <2>2, <2>3 DEF Ids
<1>6. PICK s : s = [m \in DOMAIN list |-> IF list[m].doc = i
                                         THEN Gain(D, file.data[3][t].df, list[m].tf, l) ELSE 0]
  OBVIOUS
<1>7. TermScore(file, t, i) = Total(s)
  BY <1>3, <1>5, <1>6 DEF TermScore
<1>8. CASE t \notin ToSet(Vocabulary(docs))
  <2>1. list = <<>>
    BY <1>1, <1>3, <1>8, PostingsAreHolders
  <2>2. PICK z \in Nat : z = 0
    OBVIOUS
  <2>3. s \in [1..z -> Nat] /\ \A n \in 1..z : FALSE
    BY <1>6, <2>1, <2>2
  <2>4. Total(s) \in Nat /\ ~(Total(s) > 0)
    BY <2>3, TotalsAreNumbers
  <2>5. TermRelevance(docs, t, docs[i + 1]) \in Nat /\ ~(TermRelevance(docs, t, docs[i + 1]) > 0)
    BY <1>1, <1>8, TermsAreKept, TermsAreRelevant
  <2>6. \A a, b \in Nat : ~(a > 0) /\ ~(b > 0) => a = b
    OBVIOUS
  <2> QED BY <1>7, <2>4, <2>5, <2>6
<1>9. CASE t \in ToSet(Vocabulary(docs))
  <2>1. t \in ToSet(Terms)
    BY <1>1, <1>9, VocabularyIsHeld
  <2>2. PICK N, H : N = Len(Holding(docs, t)) /\ H = Holding(docs, t)
    OBVIOUS
  <2>3. N \in Nat /\ H \in [1..N -> Holders(D, docs, t)] /\ IsInjective(H) /\ ToSet(H) = Holders(D, docs, t)
    BY <1>1, <2>1, <2>2, HoldersAreListed
  <2>4. DOMAIN list = 1..N /\ \A n \in 1..N : list[n].doc = H[n] /\ list[n].tf = Tf(docs, t, list[n].doc)
    BY <1>1, <1>3, <1>9, <2>2, PostingsAreHolders
  <2>5. PICK g : g = Gain(D, N, Tf(docs, t, i), l)
    OBVIOUS
  <2>6. s = [m \in 1..N |-> IF H[m] = i THEN g ELSE 0]
    <3>1. file.data[3][t].df = N
      BY <1>5, <1>9, <2>2
    <3>2. \A m \in 1..N : list[m].doc = i => Gain(D, N, list[m].tf, l) = g
      BY <2>4, <2>5
    <3> QED BY <1>6, <2>4, <3>1, <3>2
  <2>7. CASE i \in Holders(D, docs, t)
    <3>1. TermRelevance(docs, t, docs[i + 1]) = g /\ g \in Nat
      BY <1>1, <1>4, <2>1, <2>2, <2>5, <2>7, TermsAreRelevant
    <3>2. PICK m \in 1..N : H[m] = i
      BY <2>3, <2>7 DEF ToSet
    <3>3. \A n \in 1..N : n # m => H[n] # i
      BY <2>3, <3>2 DEF IsInjective
    <3>4. s \in [1..N -> Nat] /\ s[m] = g /\ \A n \in 1..N : n # m => s[n] = 0
      BY <2>6, <3>1, <3>2, <3>3
    <3>5. Total(s) = s[m]
      BY <2>3, <3>4, OnlyOne
    <3> QED BY <1>7, <3>1, <3>4, <3>5
  <2>8. CASE i \notin Holders(D, docs, t)
    <3>1. \A n \in 1..N : H[n] # i
      BY <2>3, <2>8
    <3>2. s \in [1..N -> Nat] /\ \A n \in 1..N : s[n] = 0
      BY <2>6, <3>1
    <3>3. Total(s) \in Nat /\ ~(Total(s) > 0)
      BY <2>3, <3>2, TotalsAreNumbers
    <3>4. TermRelevance(docs, t, docs[i + 1]) \in Nat /\ ~(TermRelevance(docs, t, docs[i + 1]) > 0)
      BY <2>8, TermsAreRelevant
    <3>5. \A a, b \in Nat : ~(a > 0) /\ ~(b > 0) => a = b
      OBVIOUS
    <3> QED BY <1>7, <3>3, <3>4, <3>5
  <2> QED BY <2>7, <2>8
<1> QED BY <1>8, <1>9

\* The same of all terms of a question.
LEMMA ScoreIsRelevance ==
    ASSUME NEW D \in 0..Cardinality(Chunks), NEW docs, OrderedDocs(D, docs), NEW file, HasAll(file, docs),
           NEW terms \in Seq(STRING), NEW i \in 0..D - 1
    PROVE  /\ Score(file, terms, i) = Relevance(docs, terms, docs[i + 1])
           /\ Relevance(docs, terms, docs[i + 1]) \in Nat
           /\ Relevance(docs, terms, docs[i + 1]) > 0
                 <=> \E t \in ToSet(terms) : t \in ToSet(Terms) /\ i \in Holders(D, docs, t)
<1>1. PICK N \in Nat : N = Len(terms) /\ DOMAIN terms = 1..N
  BY LenProperties
<1>2. PICK s : s = [n \in 1..N |-> TermRelevance(docs, terms[n], docs[i + 1])]
  OBVIOUS
<1>3. s \in [1..N -> Nat]
  BY <1>2, TermsAreRelevant
<1>4. Relevance(docs, terms, docs[i + 1]) = Total(s)
  BY <1>1, <1>2 DEF Relevance
<1>5. Score(file, terms, i) = Total(s)
  <2>1. \A n \in 1..N : TermScore(file, terms[n], i) = s[n]
    BY <1>2, TermScoreIsRelevance
  <2>2. s = [n \in DOMAIN terms |-> TermScore(file, terms[n], i)]
    BY <1>1, <1>2, <2>1
  <2> QED BY <2>2 DEF Score
<1>6. Total(s) \in Nat /\ (Total(s) > 0 <=> \E n \in 1..N : s[n] > 0)
  BY <1>1, <1>3, TotalsAreNumbers
<1>7. \A n \in 1..N : s[n] > 0 <=> terms[n] \in ToSet(Terms) /\ i \in Holders(D, docs, terms[n])
  BY <1>2, TermsAreRelevant
<1>8. ToSet(terms) = {terms[n] : n \in 1..N}
  BY <1>1 DEF ToSet
<1> QED BY <1>4, <1>5, <1>6, <1>7, <1>8

\* What matches in a file is what is relevant.
LEMMA MatchesAreRelevant ==
    ASSUME NEW D \in 0..Cardinality(Chunks), NEW docs, OrderedDocs(D, docs), NEW file, HasAll(file, docs),
           NEW terms \in Seq(STRING)
    PROVE  {p.doc : p \in UNION {ToSet(Postings(file, t)) : t \in ToSet(terms)}}
              = {i \in 0..D - 1 : Relevance(docs, terms, docs[i + 1]) > 0}
<1>1. D \in Nat
  <2>1. Cardinality(Chunks) \in Nat
    BY IndexAssumption, FS_CardinalityType
  <2> QED BY <2>1
<1>2. ASSUME NEW t \in ToSet(terms), NEW p \in ToSet(Postings(file, t))
      PROVE  p.doc \in 0..D - 1 /\ Relevance(docs, terms, docs[p.doc + 1]) > 0
  <2>1. PICK list : list = Postings(file, t)
    OBVIOUS
  <2>2. PICK n \in DOMAIN list : p = list[n]
    BY <1>2, <2>1 DEF ToSet
  <2>3. t \in ToSet(Vocabulary(docs))
    <3>1. list # <<>>
      BY <2>2
    <3> QED BY <1>1, <2>1, <3>1, PostingsAreHolders
  <2>4. DOMAIN list = 1..Len(Holding(docs, t)) /\ p.doc = Holding(docs, t)[n]
    BY <1>1, <2>1, <2>2, <2>3, PostingsAreHolders
  <2>5. t \in ToSet(Terms)
    BY <1>1, <2>3, VocabularyIsHeld
  <2>6. p.doc \in Holders(D, docs, t)
    BY <1>1, <2>2, <2>4, <2>5, HoldersAreListed
  <2>7. p.doc \in 0..D - 1
    BY <2>6 DEF Holders
  <2> QED BY <2>5, <2>6, <2>7, ScoreIsRelevance
<1>3. ASSUME NEW i \in 0..D - 1, Relevance(docs, terms, docs[i + 1]) > 0
      PROVE  \E t \in ToSet(terms) : \E p \in ToSet(Postings(file, t)) : p.doc = i
  <2>1. PICK t \in ToSet(terms) : t \in ToSet(Terms) /\ i \in Holders(D, docs, t)
    BY <1>3, ScoreIsRelevance
  <2>2. t \in ToSet(Vocabulary(docs)) /\ \E n \in DOMAIN Holding(docs, t) : Holding(docs, t)[n] = i
    BY <1>1, <2>1, TermsAreKept
  <2>3. PICK n \in DOMAIN Holding(docs, t) : Holding(docs, t)[n] = i
    BY <2>2
  <2>4. PICK list : list = Postings(file, t)
    OBVIOUS
  <2>5. DOMAIN list = 1..Len(Holding(docs, t)) /\ \A m \in DOMAIN list : list[m].doc = Holding(docs, t)[m]
    BY <1>1, <2>2, <2>4, PostingsAreHolders
  <2>6. n \in DOMAIN list
    BY <1>1, <2>1, <2>3, <2>5, HoldersAreListed
  <2>7. list[n].doc = i /\ list[n] \in ToSet(list)
    BY <2>3, <2>5, <2>6 DEF ToSet
  <2> QED BY <2>4, <2>7
<1> QED BY <1>2, <1>3

\* What a search in a whole index finds is what the texts say.
LEMMA SearchFindsBest ==
    ASSUME NEW D \in 0..Cardinality(Chunks), NEW docs, OrderedDocs(D, docs), NEW file, HasAll(file, docs),
           NEW terms \in Seq(STRING), NEW admissible, NEW k \in Nat,
           NEW S, S = {d \in ToSet(docs) \intersect admissible : Relevance(docs, terms, d) > 0}
    PROVE  SearchLexical(file, terms, admissible, k) = Best([d \in S |-> Relevance(docs, terms, d)], k)
<1>1. D \in Nat
  <2>1. Cardinality(Chunks) \in Nat
    BY IndexAssumption, FS_CardinalityType
  <2> QED BY <2>1
<1>2. /\ DOMAIN docs = 1..D /\ docs \in [1..D -> Chunks] /\ Len(docs) = D /\ Chunks \subseteq Nat
      /\ \A m, n \in 1..D : m < n => docs[m] < docs[n]
  BY IndexAssumption DEF OrderedDocs
<1>3. Ids(file) = docs
  BY DEF Ids, HasAll, Payload
<1>4. PICK M : M = {i \in 0..D - 1 : Relevance(docs, terms, docs[i + 1]) > 0}
  OBVIOUS
<1>5. PICK T : T = M \intersect Mask(file, admissible)
  OBVIOUS
<1>6. T = {i \in 0..D - 1 : docs[i + 1] \in S}
  <2>1. Mask(file, admissible) = {i \in 0..D - 1 : docs[i + 1] \in admissible}
    BY <1>2, <1>3 DEF Mask
  <2>2. \A i \in 0..D - 1 : docs[i + 1] \in ToSet(docs)
    <3>1. \A i \in 0..D - 1 : i + 1 \in 1..D
      BY <1>1
    <3> QED BY <1>2, <3>1 DEF ToSet
  <2> QED BY <1>4, <1>5, <2>1, <2>2
<1>7. PICK rel : rel = [d \in S |-> Relevance(docs, terms, d)]
  OBVIOUS
<1>8. PICK name : name = [i \in T |-> docs[i + 1]]
  OBVIOUS
<1>9. T \subseteq Nat /\ IsFiniteSet(T) /\ T \subseteq 0..D - 1
  <2>1. T \subseteq 0..D - 1
    BY <1>6
  <2>2. IsFiniteSet(0..D - 1)
    BY <1>1, FS_Interval
  <2>3. IsFiniteSet(T)
    BY <2>1, <2>2, FS_Subset
  <2>4. T \subseteq Nat
    BY <1>1, <2>1
  <2> QED BY <2>1, <2>3, <2>4
<1>10. name \in [T -> S]
  BY <1>6, <1>8
<1>11. \A i, j \in T : i < j => name[i] < name[j]
  <2> SUFFICES ASSUME NEW i \in T, NEW j \in T, i < j PROVE name[i] < name[j]
    OBVIOUS
  <2>1. i + 1 \in 1..D /\ j + 1 \in 1..D /\ i + 1 < j + 1
    BY <1>1, <1>9
  <2> QED BY <1>2, <1>8, <2>1
<1>12. \A d \in S : \E i \in T : name[i] = d
  <2> SUFFICES ASSUME NEW d \in S PROVE \E i \in T : name[i] = d
    OBVIOUS
  <2>1. PICK m \in 1..D : docs[m] = d
    BY <1>2 DEF ToSet
  <2>2. PICK i \in 0..D - 1 : i + 1 = m
    <3>1. m - 1 \in 0..D - 1 /\ (m - 1) + 1 = m
      BY <1>1
    <3> QED BY <3>1
  <2>3. i \in T
    BY <1>6, <2>1, <2>2
  <2> QED BY <1>8, <2>1, <2>2, <2>3
<1>13. S \subseteq Nat /\ rel \in [S -> Nat]
  <2>1. \A d \in S : d \in Nat /\ Relevance(docs, terms, d) \in Nat
    <3> SUFFICES ASSUME NEW d \in S PROVE d \in Nat /\ Relevance(docs, terms, d) \in Nat
      OBVIOUS
    <3>1. PICK i \in T : name[i] = d
      BY <1>12
    <3>2. i \in 0..D - 1 /\ docs[i + 1] = d /\ i + 1 \in 1..D
      BY <1>1, <1>8, <1>9, <3>1
    <3>3. Relevance(docs, terms, docs[i + 1]) \in Nat
      BY <3>2, ScoreIsRelevance
    <3> QED BY <1>2, <3>2, <3>3
  <2> QED BY <1>7, <2>1
<1>14. PICK C : C = Cardinality(T)
  OBVIOUS
<1>15. PICK low : low = [i \in T |-> rel[name[i]]]
  OBVIOUS
<1>16. /\ Cardinality(S) = C /\ C \in Nat
       /\ \A n \in 1..C : Ranking(rel)[n] = name[Ranking(low)[n]]
       /\ Ranking(low) \in [1..C -> T]
  <2> Names(name, T, S)
    BY <1>9, <1>10, <1>11, <1>12 DEF Names
  <2>1. RankedAlike(S, rel, T, name)
    BY <1>13, RankingRenamed
  <2> QED BY <1>14, <1>15, <2>1 DEF RankedAlike, Relabelled
<1>17. PICK score : score = [i \in M |-> Score(file, terms, i)]
  OBVIOUS
<1>18. [i \in DOMAIN score \intersect Mask(file, admissible) |-> score[i]] = low
  <2>1. DOMAIN score \intersect Mask(file, admissible) = T
    BY <1>5, <1>17
  <2>2. \A i \in T : score[i] = low[i]
    <3> SUFFICES ASSUME NEW i \in T PROVE score[i] = low[i]
      OBVIOUS
    <3>1. i \in M /\ i \in 0..D - 1
      BY <1>4, <1>5
    <3>2. score[i] = Score(file, terms, i)
      BY <1>17, <3>1
    <3>3. Score(file, terms, i) = Relevance(docs, terms, docs[i + 1])
      BY <3>1, ScoreIsRelevance
    <3>4. low[i] = Relevance(docs, terms, docs[i + 1])
      BY <1>7, <1>8, <1>10, <1>15
    <3> QED BY <3>2, <3>3, <3>4
  <2> QED BY <1>15, <2>1, <2>2
<1>19. PICK c : c = AtMost(k, C)
  OBVIOUS
<1>20. c \in Nat /\ c <= C
  BY <1>16, <1>19 DEF AtMost
<1>21. PICK found : found = Filtered(score, Mask(file, admissible), k)
  OBVIOUS
<1>22. found = [n \in 1..c |-> Ranking(low)[n]]
  <2>1. DOMAIN low = T
    BY <1>15
  <2> QED BY <1>14, <1>18, <1>19, <1>21, <2>1 DEF Filtered, Best
<1>23. SearchLexical(file, terms, admissible, k) = [n \in DOMAIN found |-> docs[found[n] + 1]]
  <2>1. {p.doc : p \in UNION {ToSet(Postings(file, t)) : t \in ToSet(terms)}} = M
    BY <1>4, MatchesAreRelevant
  <2> QED BY <1>3, <1>17, <1>21, <2>1 DEF SearchLexical
<1>24. Best(rel, k) = [n \in 1..c |-> Ranking(rel)[n]]
  <2>1. DOMAIN rel = S
    BY <1>7
  <2> QED BY <1>16, <1>19, <2>1 DEF Best
<1>25. \A n \in 1..c : docs[found[n] + 1] = Ranking(rel)[n]
  <2> SUFFICES ASSUME NEW n \in 1..c PROVE docs[found[n] + 1] = Ranking(rel)[n]
    OBVIOUS
  <2>1. n \in 1..C
    BY <1>16, <1>20
  <2>2. found[n] = Ranking(low)[n] /\ Ranking(low)[n] \in T
    BY <1>16, <1>22, <2>1
  <2> QED BY <1>8, <1>16, <2>1, <2>2
<1> QED BY <1>7, <1>22, <1>23, <1>24, <1>25

-----------------------------------------------------------------------------
(* What a retrieval finds.                                                 *)

\* What is relevant in the file of a retrieval.
Relevants(t, docs) ==
    {d \in ToSet(docs) \intersect t.admissible : Relevance(docs, t.terms, d) > 0}

\* What a trace says is what the texts of its file say, whatever the vector index found.
Faithful(t, docs) ==
    /\ t.terms \in Questions /\ t.admissible \subseteq Chunks /\ t.limit \in Limits
    /\ t.vector \in Rankings(t.admissible)
    /\ t.lexical = Best([d \in Relevants(t, docs) |-> Relevance(docs, t.terms, d)], Depth)
    /\ t.hits = Fuse(<<Ranked("lexical", t.lexical), Ranked("vector", t.vector)>>, t.limit)

\* It speaks of a file there has been.
TraceOK == trace # NoTrace => trace.of \in 1..Len(files) /\ Faithful(trace, files[trace.of].of)

\* The documents a file was built from stay the same.
LEMMA DocumentsStay ==
    ASSUME IndexInv, [Next]_vars
    PROVE  Len(files) <= Len(files') /\ \A n \in 1..Len(files) : files'[n].of = files[n].of
<1> USE DEF IndexInv, IndexTypes
<1>1. files \in Seq(IndexFiles) /\ Len(files) \in Nat
  OBVIOUS
<1>2. CASE Begin
  <2>1. PICK new : files' = Append(files, new)
    BY <1>2 DEF Begin
  <2> QED BY <1>1, <2>1
<1>3. ASSUME NEW p \in 1..Len(files), NEW d, files' = [files EXCEPT ![p].data = d]
      PROVE  Len(files) <= Len(files') /\ \A n \in 1..Len(files) : files'[n].of = files[n].of
  <2>1. PICK new : new = [files[p] EXCEPT !.data = d]
    OBVIOUS
  <2>2. files[p] \in IndexFiles
    BY <1>1
  <2>3. new.of = files[p].of
    BY <2>1, <2>2 DEF IndexFiles
  <2>4. files' = [files EXCEPT ![p] = new]
    BY <1>3, <2>1
  <2>5. Len(files') = Len(files) /\ \A n \in 1..Len(files) : files'[n] = IF n = p THEN new ELSE files[n]
    BY <1>1, <2>4
  <2> QED BY <1>1, <2>3, <2>5
<1>4. CASE Write
  <2>1. Tmp \in 1..Len(files)
    BY <1>1, <1>4 DEF Write, Tmp
  <2>2. PICK d : files' = [files EXCEPT ![Tmp].data = d]
    BY <1>4 DEF Write
  <2> QED BY <1>3, <2>1, <2>2
<1>5. CASE Fsync
  <2>1. Tmp \in 1..Len(files)
    BY <1>1, <1>5 DEF Fsync, Tmp
  <2>2. PICK new : new = [files[Tmp] EXCEPT !.kept = Kept(files[Tmp])]
    OBVIOUS
  <2>3. files' = [files EXCEPT ![Tmp] = new]
    BY <1>5, <2>2 DEF Fsync
  <2>4. files[Tmp] \in IndexFiles
    BY <1>1, <2>1
  <2>5. new.of = files[Tmp].of
    BY <2>2, <2>4 DEF IndexFiles
  <2>6. Len(files') = Len(files) /\ \A n \in 1..Len(files) : files'[n] = IF n = Tmp THEN new ELSE files[n]
    BY <1>1, <2>1, <2>3
  <2> QED BY <1>1, <2>5, <2>6
<1>6. ASSUME NEW p \in 0..Len(files), NEW n \in 0..Sections, PowerCut(p, n), files' # files
      PROVE  Len(files) <= Len(files') /\ \A m \in 1..Len(files) : files'[m].of = files[m].of
  <2>1. p # 0 /\ p \in 1..Len(files)
    BY <1>1, <1>6 DEF PowerCut
  <2>2. PICK d : files' = [files EXCEPT ![p].data = d]
    BY <1>6, <2>1 DEF PowerCut
  <2> QED BY <1>3, <2>1, <2>2
<1>7. CASE files' = files
  BY <1>1, <1>7
<1>8. Begin \/ Write \/ Fsync \/ (\E p \in 0..Len(files), n \in 0..Sections : PowerCut(p, n)) \/ files' = files
  BY DEF Next, IndexNext, vars, indexVars, Retrieve, Return, Replace, SyncDirectory, AddChunk, Kill, Open, Close
<1> QED BY <1>2, <1>4, <1>5, <1>6, <1>7, <1>8

\* What a process has mapped is a whole index of documents.
LEMMA MappedIsWhole ==
    ASSUME IndexInv, mapped # 0
    PROVE  /\ mapped \in 1..Len(files) /\ files[mapped].of \in Docs
           /\ HasAll(files[mapped], files[mapped].of)
<1>1. mapped \in 1..Len(files) /\ files[mapped] \in IndexFiles /\ Begins(files[mapped]) /\ Safe(files[mapped])
  BY DEF IndexInv, IndexTypes, FilesOK, Found
<1> QED BY <1>1, SafeIsWhole DEF HasAll, IndexFiles

\* A retrieval is faithful.
LEMMA RetrievalIsFaithful ==
    ASSUME IndexInv, NEW terms \in Questions, NEW admissible \in SUBSET chunks, NEW k \in Limits,
           Retrieve(terms, admissible, k)
    PROVE  trace'.of \in 1..Len(files) /\ files' = files /\ Faithful(trace', files[trace'.of].of)
<1>0. PICK lexical \in {SearchLexical(files[mapped], terms, admissible, Depth)},
           vector \in Rankings(admissible) : trace' = Traced(terms, admissible, lexical, vector, k)
  BY DEF Retrieve
<1>1. /\ lexical = SearchLexical(files[mapped], terms, admissible, Depth)
      /\ vector \in Rankings(admissible) /\ trace' = Traced(terms, admissible, lexical, vector, k)
  BY <1>0
<1>2. mapped # 0 /\ files' = files /\ chunks \subseteq Chunks
  BY DEF Retrieve, indexVars, IndexInv, IndexTypes
<1>3. PICK docs \in Docs : docs = files[mapped].of /\ HasAll(files[mapped], docs) /\ mapped \in 1..Len(files)
  BY <1>2, MappedIsWhole
<1>4. PICK S \in SUBSET Chunks : docs = Documents(S)
  BY DEF Docs
<1>5. PICK D \in 0..Cardinality(Chunks) : OrderedDocs(D, docs)
  BY <1>4, DocsAreOrdered
<1>6. PICK R : R = {d \in ToSet(docs) \intersect admissible : Relevance(docs, terms, d) > 0}
  OBVIOUS
<1>7. Depth \in Nat /\ terms \in Seq(STRING)
  BY FusionAssumption
<1>8. lexical = Best([d \in R |-> Relevance(docs, terms, d)], Depth)
  BY <1>1, <1>3, <1>5, <1>6, <1>7, SearchFindsBest
<1>9. /\ trace'.terms = terms /\ trace'.admissible = admissible /\ trace'.of = mapped /\ trace'.limit = k
      /\ trace'.lexical = lexical /\ trace'.vector = vector
      /\ trace'.hits = Fuse(<<Ranked("lexical", lexical), Ranked("vector", vector)>>, k)
  BY <1>1 DEF Traced
<1>10. PICK t : t = trace'
  OBVIOUS
<1>11. Relevants(t, docs) = R
  BY <1>6, <1>9, <1>10 DEF Relevants
<1>12. Faithful(t, docs)
  BY <1>1, <1>2, <1>8, <1>9, <1>10, <1>11 DEF Faithful
<1> QED BY <1>2, <1>3, <1>9, <1>10, <1>12

\* Every trace is, as long as it is there.
LEMMA TraceStays == IndexInv /\ TraceOK /\ [Next]_vars => TraceOK'
<1> SUFFICES ASSUME IndexInv, TraceOK, [Next]_vars PROVE TraceOK'
  OBVIOUS
<1>1. ASSUME NEW terms \in Questions, NEW admissible \in SUBSET chunks, NEW k \in Limits,
             Retrieve(terms, admissible, k)
      PROVE  TraceOK'
  BY <1>1, RetrievalIsFaithful DEF TraceOK
<1>2. CASE Return
  BY <1>2 DEF Return, TraceOK
<1>3. CASE UNCHANGED trace
  <2> SUFFICES ASSUME trace # NoTrace
               PROVE  trace.of \in 1..Len(files') /\ Faithful(trace, files'[trace.of].of)
    BY <1>3 DEF TraceOK, NoTrace
  <2>1. trace.of \in 1..Len(files) /\ Faithful(trace, files[trace.of].of)
    BY DEF TraceOK
  <2>2. Len(files) <= Len(files') /\ files'[trace.of].of = files[trace.of].of
    BY <2>1, DocumentsStay
  <2>3. Len(files) \in Nat /\ Len(files') \in Nat
    <3>1. IndexInv'
      BY IndexSteps
    <3>2. files \in Seq(IndexFiles) /\ files' \in Seq(IndexFiles)
      BY <3>1 DEF IndexInv, IndexTypes
    <3> QED BY <3>2
  <2> QED BY <2>1, <2>2, <2>3
<1> QED BY <1>1, <1>2, <1>3 DEF Next, vars

\* In every reachable state.
LEMMA TracesAreFaithful == Spec => []TraceOK
<1>1. Init => TraceOK
  BY DEF Init, TraceOK
<1> QED BY <1>1, IndexInvariant, TraceStays, PTL DEF Spec

\* The lexical hits of a retrieval are the best of the admissible documents by the texts its
\* file was built from, for any texts, questions, filters and builds: what a search reads
\* through the dictionary, the gaps and the varints of the file is what was written.
THEOREM LexicalHitsAreBest == Spec => []FilterIsPushedDown
<1>1. TraceOK => FilterIsPushedDown
  BY DEF TraceOK, Faithful, Relevants, FilterIsPushedDown
<1> QED BY <1>1, TracesAreFaithful, PTL

-----------------------------------------------------------------------------
(* The fusion of two rankings.                                             *)

\* The reciprocals get smaller with the rank, and none is nothing.
LEMMA RecipsFall ==
    /\ \A r \in 1..Depth : Recip(r) \in Nat \ {0}
    /\ \A r, s \in 1..Depth : r < s => Recip(r) > Recip(s)
<1>1. Depth \in Nat /\ RrfK \in Nat /\ Scale \in Nat \ {0}
  BY FusionAssumption
<1>2. ASSUME NEW r \in 1..Depth PROVE Recip(r) \in Nat \ {0} /\ Recip(r) * (RrfK + r) = Scale
  <2>1. PICK d \in Nat : d = RrfK + r /\ d > 0
    BY <1>1
  <2>2. Scale % d = 0
    BY <2>1, FusionAssumption
  <2>3. PICK q : q = Scale \div d
    OBVIOUS
  <2>4. q \in Nat /\ Scale = d * q + (Scale % d)
    BY <1>1, <2>1, <2>3
  <2>5. Scale = d * q
    BY <1>1, <2>1, <2>2, <2>4
  <2>6. q # 0
    BY <1>1, <2>1, <2>4, <2>5
  <2>7. Recip(r) = q
    BY <2>1, <2>3 DEF Recip
  <2>8. q * d = Scale
    BY <2>1, <2>4, <2>5
  <2> QED BY <2>1, <2>4, <2>6, <2>7, <2>8
<1>3. ASSUME NEW r \in 1..Depth, NEW s \in 1..Depth, r < s PROVE Recip(r) > Recip(s)
  <2>1. PICK a \in Nat, b \in Nat : a = Recip(r) /\ b = Recip(s) /\ a # 0
    BY <1>2
  <2>2. PICK c \in Nat, d \in Nat : c = RrfK + r /\ d = RrfK + s
    BY <1>1
  <2>3. c < d
    BY <1>1, <1>3, <2>2
  <2>4. a * c = Scale /\ b * d = Scale
    BY <1>2, <2>1, <2>2
  <2>5. ASSUME a <= b PROVE FALSE
    <3>1. a * d > a * c
      <4>1. d - c \in Nat \ {0}
        BY <2>3
      <4>2. a * (d - c) > 0
        BY <2>1, <4>1
      <4>3. a * d = a * c + a * (d - c)
        OBVIOUS
      <4>4. PICK x \in Int, y \in Int, z \in Int : x = a * c /\ y = a * (d - c) /\ z = a * d
        OBVIOUS
      <4> QED BY <4>2, <4>3, <4>4
    <3>2. b * d >= a * d
      <4>1. b - a \in Nat
        BY <2>5
      <4>2. (b - a) * d >= 0
        BY <4>1
      <4>3. b * d = a * d + (b - a) * d
        OBVIOUS
      <4>4. PICK x \in Int, y \in Int, z \in Int : x = a * d /\ y = (b - a) * d /\ z = b * d
        OBVIOUS
      <4> QED BY <4>2, <4>3, <4>4
    <3>3. PICK x \in Int, y \in Int, z \in Int : x = a * c /\ y = a * d /\ z = b * d
      OBVIOUS
    <3> QED BY <2>4, <3>1, <3>2, <3>3
  <2> QED BY <2>1, <2>5
<1> QED BY <1>2, <1>3

\* The lists that are fused.
Retrievers == {"lexical", "vector"}

\* What is fused: each chunk has a score and its ranks in the lists.
Fusions == UNION {[D -> [score : Nat, ranks : SUBSET (Retrievers \X Nat)]] : D \in SUBSET Nat}

\* What a chunk had before.
Had(fused, i) == IF i \in DOMAIN fused THEN fused[i].score ELSE 0

\* The first n entries of a list are merged into what was fused before.
Merged(n, fused, name, ids, g) ==
    /\ g \in Fusions /\ DOMAIN g = DOMAIN fused \union {ids[m] : m \in 1..n}
    /\ \A m \in 1..n : g[ids[m]].score = Had(fused, ids[m]) + Recip(m)
    /\ \A i \in DOMAIN fused : (\A m \in 1..n : ids[m] # i) => g[i] = fused[i]
    /\ \A i \in DOMAIN g : \A e \in g[i].ranks :
          e[1] = name \/ (i \in DOMAIN fused /\ e \in fused[i].ranks)

\* One more entry: what has the name of the list already stays.
GrownBy(g, name, i, n, h) ==
    /\ h \in Fusions /\ DOMAIN h = DOMAIN g \union {i}
    /\ \A j \in DOMAIN g : j # i => h[j] = g[j]
    /\ (i \in DOMAIN g => \A e \in g[i].ranks : e[1] # name) =>
          /\ h[i].score = Had(g, i) + Recip(n)
          /\ \A e \in h[i].ranks : e[1] = name \/ (i \in DOMAIN g /\ e \in g[i].ranks)

\* Merge makes that of a rank in a list.
LEMMA MergeMakes ==
    ASSUME NEW g \in Fusions, NEW name \in Retrievers, NEW i \in Nat, NEW n \in 1..Depth,
           NEW h, h = Merge(g, name, i, n)
    PROVE  GrownBy(g, name, i, n, h)
<1> DEFINE Entries == [score : Nat, ranks : SUBSET (Retrievers \X Nat)]
<1>1. PICK x \in Nat : x = Recip(n)
  BY RecipsFall
<1>2. PICK D \in SUBSET Nat : g \in [D -> Entries]
  BY DEF Fusions
<1>3. DOMAIN g = D /\ n \in Nat
  BY <1>2, FusionAssumption
<1>4. PICK new : new = IF i \in D THEN [score |-> g[i].score + x, ranks |-> g[i].ranks \union {<<name, n>>}]
                      ELSE [score |-> x, ranks |-> {<<name, n>>}]
  OBVIOUS
<1>5. new \in Entries
  BY <1>1, <1>2, <1>3, <1>4
<1>6. ASSUME i \in D => \A e \in g[i].ranks : e[1] # name
      PROVE  h = [j \in D \union {i} |-> IF j = i THEN new ELSE g[j]]
  <2>1. CASE i \notin D
    <3>1. Added(0, n) = x
      BY <1>1 DEF Added
    <3> QED BY <1>3, <1>4, <2>1, <3>1 DEF Merge
  <2>2. CASE i \in D
    <3>1. ~ \E e \in g[i].ranks : e[1] = name
      BY <1>6, <2>2
    <3>2. h = [g EXCEPT ![i].score = Added(@, n), ![i].ranks = @ \union {<<name, n>>}]
      BY <1>3, <2>2, <3>1 DEF Merge
    <3>3. h = [g EXCEPT ![i] = [[g[i] EXCEPT !.score = Added(@, n)] EXCEPT !.ranks = @ \union {<<name, n>>}]]
      <4>1. PICK low : low = [g EXCEPT ![i].score = Added(@, n)]
        OBVIOUS
      <4>2. h = [low EXCEPT ![i].ranks = @ \union {<<name, n>>}]
        BY <3>2, <4>1
      <4>3. g = [j \in D |-> g[j]] /\ DOMAIN g = D
        BY <1>2
      <4>4. low = [g EXCEPT ![i] = [g[i] EXCEPT !.score = Added(@, n)]]
        BY <2>2, <4>1, <4>3
      <4>5. low[i] = [g[i] EXCEPT !.score = Added(@, n)]
        BY <2>2, <4>3, <4>4
      <4>6. h = [low EXCEPT ![i] = [low[i] EXCEPT !.ranks = @ \union {<<name, n>>}]]
        BY <4>2, <4>4
      <4> QED BY <4>4, <4>5, <4>6
    <3>4. g[i] \in Entries
      BY <1>2, <2>2
    <3>5. PICK y : y = [g[i] EXCEPT !.score = Added(@, n)]
      OBVIOUS
    <3>6. y = [score |-> g[i].score + x, ranks |-> g[i].ranks]
      BY <1>1, <3>4, <3>5 DEF Added
    <3>7. [y EXCEPT !.ranks = @ \union {<<name, n>>}] = new
      BY <1>4, <2>2, <3>6
    <3>8. h = [g EXCEPT ![i] = new]
      BY <3>3, <3>5, <3>7
    <3> QED BY <1>2, <2>2, <3>8
  <2> QED BY <2>1, <2>2
<1>7. ASSUME ~(i \in D => \A e \in g[i].ranks : e[1] # name) PROVE h = g /\ D \union {i} = D
  BY <1>3, <1>7 DEF Merge
<1>8. h \in [D \union {i} -> Entries] /\ \A j \in D : j # i => h[j] = g[j]
  <2>1. CASE i \in D => \A e \in g[i].ranks : e[1] # name
    <3>1. h = [j \in D \union {i} |-> IF j = i THEN new ELSE g[j]]
      BY <1>6, <2>1
    <3> QED BY <1>2, <1>5, <3>1
  <2>2. CASE ~(i \in D => \A e \in g[i].ranks : e[1] # name)
    BY <1>2, <1>7, <2>2
  <2> QED BY <2>1, <2>2
<1>9. h \in Fusions /\ DOMAIN h = D \union {i}
  BY <1>2, <1>8 DEF Fusions
<1>10. ASSUME i \in D => \A e \in g[i].ranks : e[1] # name
       PROVE  /\ h[i].score = Had(g, i) + Recip(n)
              /\ \A e \in h[i].ranks : e[1] = name \/ (i \in D /\ e \in g[i].ranks)
  <2>1. h[i] = new
    BY <1>6, <1>10
  <2>2. new.score = Had(g, i) + x
    BY <1>1, <1>3, <1>4 DEF Had
  <2>3. <<name, n>>[1] = name
    OBVIOUS
  <2>4. \A e \in new.ranks : e = <<name, n>> \/ (i \in D /\ e \in g[i].ranks)
    BY <1>4
  <2> QED BY <1>1, <2>1, <2>2, <2>3, <2>4
<1> QED BY <1>3, <1>8, <1>9, <1>10 DEF GrownBy

\* After n - 1 entries the next one is added.
LEMMA MergeAdds ==
    ASSUME NEW N \in 0..Depth, NEW ids \in [1..N -> Nat], IsInjective(ids), NEW name \in Retrievers,
           NEW fused \in Fusions, \A i \in DOMAIN fused : \A e \in fused[i].ranks : e[1] # name,
           NEW n \in 1..N, NEW g, Merged(n - 1, fused, name, ids, g)
    PROVE  Merged(n, fused, name, ids, Merge(g, name, ids[n], n))
<1>1. PICK i \in Nat : i = ids[n]
  OBVIOUS
<1>2. PICK h : h = Merge(g, name, i, n)
  OBVIOUS
<1>3. n \in 1..Depth /\ n \in Nat /\ n - 1 \in 0..N /\ \A m \in 1..n - 1 : m \in 1..N /\ m \in 1..n /\ m # n
  <2>1. Depth \in Nat
    BY FusionAssumption
  <2>2. n \in 1..Depth /\ n \in Nat /\ n - 1 \in 0..N
    BY <2>1
  <2>3. \A m \in 1..n - 1 : m \in 1..N /\ m \in 1..n /\ m # n
    BY <2>1
  <2> QED BY <2>2, <2>3
<1>4. \A m \in 1..n : m = n \/ m \in 1..n - 1
  OBVIOUS
<1>5. \A m \in 1..n - 1 : ids[m] # i
  BY <1>1, <1>3 DEF IsInjective
<1>6. PICK D : D = DOMAIN g
  OBVIOUS
<1>7. D = DOMAIN fused \union {ids[m] : m \in 1..n - 1}
  BY <1>6 DEF Merged
<1>8. DOMAIN fused \union {ids[m] : m \in 1..n} = D \union {i}
  <2>1. {ids[m] : m \in 1..n} = {ids[m] : m \in 1..n - 1} \union {i}
    BY <1>1, <1>3, <1>4
  <2> QED BY <1>7, <2>1
<1>9. i \in D => i \in DOMAIN fused /\ g[i] = fused[i]
  BY <1>5, <1>7 DEF Merged
<1>10. i \in DOMAIN g => \A e \in g[i].ranks : e[1] # name
  BY <1>6, <1>9
<1>11. g \in Fusions
  BY DEF Merged
<1>12. /\ h \in Fusions /\ DOMAIN h = D \union {i}
       /\ \A j \in D : j # i => h[j] = g[j]
       /\ h[i].score = Had(g, i) + Recip(n)
       /\ \A e \in h[i].ranks : e[1] = name \/ (i \in D /\ e \in g[i].ranks)
  <2>1. /\ h \in Fusions /\ DOMAIN h = DOMAIN g \union {i}
        /\ \A j \in DOMAIN g : j # i => h[j] = g[j]
        /\ (i \in DOMAIN g => \A e \in g[i].ranks : e[1] # name) =>
              /\ h[i].score = Had(g, i) + Recip(n)
              /\ \A e \in h[i].ranks : e[1] = name \/ (i \in DOMAIN g /\ e \in g[i].ranks)
    <3>1. GrownBy(g, name, i, n, h)
      BY <1>2, <1>3, <1>11, MergeMakes
    <3> QED BY <3>1 DEF GrownBy
  <2> QED BY <1>6, <1>10, <2>1
<1>13. Had(g, i) = Had(fused, i)
  BY <1>6, <1>7, <1>9 DEF Had
<1>14. ASSUME NEW m \in 1..n PROVE h[ids[m]].score = Had(fused, ids[m]) + Recip(m)
  <2>1. CASE m = n
    BY <1>1, <1>12, <1>13, <2>1
  <2>2. CASE m \in 1..n - 1
    <3>1. ids[m] \in D /\ ids[m] # i
      BY <1>5, <1>7, <2>2
    <3> QED BY <1>12, <2>2, <3>1 DEF Merged
  <2> QED BY <1>4, <2>1, <2>2
<1>15. ASSUME NEW j \in DOMAIN fused, \A m \in 1..n : ids[m] # j PROVE h[j] = fused[j]
  <2>1. j # i /\ j \in D /\ \A m \in 1..n - 1 : ids[m] # j
    BY <1>1, <1>3, <1>7, <1>15
  <2> QED BY <1>12, <2>1 DEF Merged
<1>16. ASSUME NEW j \in D \union {i}, NEW e \in h[j].ranks
       PROVE  e[1] = name \/ (j \in DOMAIN fused /\ e \in fused[j].ranks)
  <2>1. CASE j # i
    BY <1>6, <1>12, <1>16, <2>1 DEF Merged
  <2>2. CASE j = i
    BY <1>9, <1>12, <1>16, <2>2
  <2> QED BY <2>1, <2>2
<1> QED BY <1>1, <1>2, <1>8, <1>12, <1>14, <1>15, <1>16 DEF Merged

\* A whole list.
LEMMA ListIsMerged ==
    ASSUME NEW N \in 0..Depth, NEW ids \in [1..N -> Nat], IsInjective(ids), NEW name \in Retrievers,
           NEW fused \in Fusions, \A i \in DOMAIN fused : \A e \in fused[i].ranks : e[1] # name
    PROVE  Merged(N, fused, name, ids, MergeList(fused, Ranked(name, ids)))
<1> DEFINE Sat(f) == f = [r \in 0..Len(ids) |-> IF r = 0 THEN fused ELSE Merge(f[r - 1], name, ids[r], r)]
<1>1. N \in Nat /\ Len(ids) = N /\ \A n \in 1..N : n \in 1..Depth
  <2>1. N \in Nat /\ \A n \in 1..N : n \in 1..Depth
    BY FusionAssumption
  <2> QED BY <2>1, Listed
<1>2. PICK G : G = [n \in 1..N |-> [g \in Fusions |-> Merge(g, name, ids[n], n)]]
  OBVIOUS
<1>3. G \in Steps(N, Fusions)
  <2>1. \A n \in 1..N : \A g \in Fusions : Merge(g, name, ids[n], n) \in Fusions
    BY <1>1, MergeMakes DEF GrownBy
  <2> QED BY <1>2, <2>1 DEF Steps
<1>4. PICK e \in Runs(N, Fusions, fused, G) : TRUE
  BY <1>1, <1>3, Iterates
<1>5. e \in [0..N -> Fusions] /\ e[0] = fused /\ \A n \in 1..N : e[n] = Merge(e[n - 1], name, ids[n], n)
  <2>1. e \in [0..N -> Fusions] /\ e[0] = fused /\ \A n \in 1..N : e[n] = G[n][e[n - 1]]
    BY <1>4 DEF Runs
  <2>2. \A n \in 1..N : e[n - 1] \in Fusions
    <3>1. \A n \in 1..N : n - 1 \in 0..N
      BY <1>1
    <3> QED BY <2>1, <3>1
  <2> QED BY <1>2, <2>1, <2>2
<1>6. Sat(e)
  <2> DEFINE Next1(r) == IF r = 0 THEN fused ELSE Merge(e[r - 1], name, ids[r], r)
  <2>1. e = [r \in 0..N |-> e[r]]
    BY <1>5
  <2>2. \A r \in 0..N : r = 0 \/ r \in 1..N
    BY <1>1
  <2>3. \A r \in 0..N : e[r] = Next1(r)
    BY <1>5, <2>2
  <2> HIDE DEF Next1
  <2>4. e = [r \in 0..N |-> Next1(r)]
    BY <2>1, <2>3
  <2> QED BY <1>1, <2>4 DEF Next1
<1>7. PICK f : f = CHOOSE g : Sat(g)
  OBVIOUS
<1>8. Sat(f)
  <2> HIDE DEF Sat
  <2> QED BY <1>6, <1>7
<1>9. f[0] = fused /\ \A n \in 1..N : f[n] = Merge(f[n - 1], name, ids[n], n)
  <2> DEFINE Next1(r) == IF r = 0 THEN fused ELSE Merge(f[r - 1], name, ids[r], r)
  <2>1. f = [r \in 0..N |-> Next1(r)]
    BY <1>1, <1>8
  <2>2. Next1(0) = fused /\ \A n \in 1..N : Next1(n) = Merge(f[n - 1], name, ids[n], n)
    BY <1>1
  <2> HIDE DEF Next1
  <2>3. \A n \in 1..N : n \in 0..N
    BY <1>1
  <2> QED BY <1>1, <2>1, <2>2, <2>3
<1>10. MergeList(fused, Ranked(name, ids)) = f[N]
  BY <1>1, <1>7 DEF MergeList, Ranked
<1>11. PICK T : T = {n \in 0..N : Merged(n, fused, name, ids, f[n])}
  OBVIOUS
<1>12. 0 \in T
  <2>1. {ids[m] : m \in 1..0} = {} /\ \A m \in 1..0 : FALSE
    OBVIOUS
  <2>2. Merged(0, fused, name, ids, fused)
    BY <2>1 DEF Merged
  <2> QED BY <1>1, <1>9, <1>11, <2>2
<1>13. ASSUME NEW n \in 1..N, n - 1 \in T PROVE n \in T
  <2>1. Merged(n - 1, fused, name, ids, f[n - 1])
    BY <1>11, <1>13
  <2>2. Merged(n, fused, name, ids, Merge(f[n - 1], name, ids[n], n))
    BY <2>1, MergeAdds
  <2>3. f[n] = Merge(f[n - 1], name, ids[n], n) /\ n \in 0..N
    BY <1>1, <1>9
  <2> QED BY <1>11, <2>2, <2>3
<1>14. N \in T
  <2>1. \A n \in 0..N : n \in T
    BY <1>1, <1>12, <1>13, Counting
  <2> QED BY <1>1, <2>1
<1> QED BY <1>10, <1>11, <1>14

\* What a list gives a chunk.
Share(list, i) == IF i \in ToSet(list) THEN Recip(RankIn(list, i)) ELSE 0

\* A ranking of at most Depth chunks.
IsRanking(list) == \E N \in 0..Depth : list \in [1..N -> Nat] /\ IsInjective(list)

\* The rank of what is in a ranking is where it is.
LEMMA RanksInList ==
    ASSUME NEW N \in 0..Depth, NEW ids \in [1..N -> Nat], IsInjective(ids)
    PROVE  /\ N \in Nat /\ Len(ids) = N /\ ToSet(ids) = {ids[m] : m \in 1..N}
           /\ \A m \in 1..N : m \in 1..Depth /\ RankIn(ids, ids[m]) = m
           /\ \A i : i \notin ToSet(ids) => RankIn(ids, i) = N + 1
<1>1. N \in Nat /\ Len(ids) = N /\ \A m \in 1..N : m \in 1..Depth
  <2>1. N \in Nat /\ \A m \in 1..N : m \in 1..Depth
    BY FusionAssumption
  <2> QED BY <2>1, Listed
<1>2. ToSet(ids) = {ids[m] : m \in 1..N}
  BY DEF ToSet
<1>3. ASSUME NEW m \in 1..N PROVE RankIn(ids, ids[m]) = m
  <2>1. ids[m] \in ToSet(ids) /\ DOMAIN ids = 1..N
    BY <1>2
  <2>2. \A n \in 1..N : ids[n] = ids[m] => n = m
    BY DEF IsInjective
  <2>3. (CHOOSE n \in DOMAIN ids : ids[n] = ids[m]) = m
    BY <2>1, <2>2
  <2> QED BY <2>1, <2>3 DEF RankIn
<1>4. \A i : i \notin ToSet(ids) => RankIn(ids, i) = N + 1
  BY <1>1 DEF RankIn
<1> QED BY <1>1, <1>2, <1>3, <1>4

\* The scores of two lists, fused.
LEMMA ScoresAreShares ==
    ASSUME NEW a, NEW b, IsRanking(a), IsRanking(b), NEW limit \in Nat,
           NEW hits, hits = Fuse(<<Ranked("lexical", a), Ranked("vector", b)>>, limit),
           NEW S, S = ToSet(a) \union ToSet(b)
    PROVE  /\ S \subseteq Nat /\ IsFiniteSet(S) /\ [i \in S |-> Share(a, i) + Share(b, i)] \in [S -> Nat]
           /\ DOMAIN hits = 1..AtMost(limit, Cardinality(S))
           /\ \A n \in DOMAIN hits : hits[n].chunk = Ranking([i \in S |-> Share(a, i) + Share(b, i)])[n]
<1>1. PICK A \in 0..Depth : a \in [1..A -> Nat] /\ IsInjective(a)
  BY DEF IsRanking
<1>2. PICK B \in 0..Depth : b \in [1..B -> Nat] /\ IsInjective(b)
  BY DEF IsRanking
<1>3. /\ A \in Nat /\ ToSet(a) = {a[m] : m \in 1..A} /\ \A m \in 1..A : m \in 1..Depth /\ RankIn(a, a[m]) = m
      /\ a \in Seq(Nat)
  BY <1>1, RanksInList, Listed
<1>4. /\ B \in Nat /\ ToSet(b) = {b[m] : m \in 1..B} /\ \A m \in 1..B : m \in 1..Depth /\ RankIn(b, b[m]) = m
      /\ b \in Seq(Nat)
  BY <1>2, RanksInList, Listed
<1>5. PICK la, lb : la = Ranked("lexical", a) /\ lb = Ranked("vector", b)
  OBVIOUS
<1>6. PICK none : none = [i \in {} |-> {}]
  OBVIOUS
<1>7. none \in Fusions /\ DOMAIN none = {}
  <2>1. none \in [{} -> [score : Nat, ranks : SUBSET (Retrievers \X Nat)]] /\ {} \in SUBSET Nat
    BY <1>6
  <2> QED BY <2>1 DEF Fusions
<1>8. PICK one : one = MergeList(none, la)
  OBVIOUS
<1>9. Merged(A, none, "lexical", a, one)
  <2>1. PICK name \in Retrievers : name = "lexical"
    <3>1. "lexical" \in Retrievers
      BY DEF Retrievers
    <3> QED BY <3>1, Zenon
  <2>2. \A i \in DOMAIN none : \A e \in none[i].ranks : e[1] # name
    BY <1>7
  <2>3. Merged(A, none, name, a, MergeList(none, Ranked(name, a)))
    BY <1>1, <1>7, <2>2, ListIsMerged
  <2> QED BY <1>5, <1>8, <2>1, <2>3
<1>10. one \in Fusions /\ DOMAIN one = ToSet(a) /\ \A i \in ToSet(a) : one[i].score = Share(a, i)
  <2>1. one \in Fusions /\ DOMAIN one = ToSet(a)
    BY <1>3, <1>7, <1>9 DEF Merged
  <2>2. ASSUME NEW m \in 1..A PROVE one[a[m]].score = Share(a, a[m])
    <3>1. one[a[m]].score = 0 + Recip(m)
      BY <1>7, <1>9 DEF Merged, Had
    <3>2. Recip(m) \in Nat
      BY <1>3, RecipsFall
    <3>3. Share(a, a[m]) = Recip(m)
      BY <1>3 DEF Share
    <3> QED BY <3>1, <3>2, <3>3
  <2> QED BY <1>3, <2>1, <2>2
<1>11. \A i \in DOMAIN one : \A e \in one[i].ranks : e[1] # "vector"
  <2>1. \A i \in DOMAIN one : \A e \in one[i].ranks : e[1] = "lexical"
    BY <1>7, <1>9 DEF Merged
  <2> QED BY <2>1
<1>12. PICK two : two = MergeList(one, lb)
  OBVIOUS
<1>13. Merged(B, one, "vector", b, two)
  <2>1. PICK name \in Retrievers : name = "vector"
    <3>1. "vector" \in Retrievers
      BY DEF Retrievers
    <3> QED BY <3>1, Zenon
  <2>2. \A i \in DOMAIN one : \A e \in one[i].ranks : e[1] # name
    BY <1>11, <2>1
  <2>3. Merged(B, one, name, b, MergeList(one, Ranked(name, b)))
    BY <1>2, <1>10, <2>2, ListIsMerged
  <2> QED BY <1>5, <1>12, <2>1, <2>3
<1>14. \A i : Share(a, i) \in Nat /\ Share(b, i) \in Nat
  <2>1. \A i \in ToSet(a) : RankIn(a, i) \in 1..Depth
    BY <1>3
  <2>2. \A i \in ToSet(b) : RankIn(b, i) \in 1..Depth
    BY <1>4
  <2> QED BY <2>1, <2>2, RecipsFall DEF Share
<1>15. DOMAIN two = S /\ S \subseteq Nat /\ IsFiniteSet(S)
  <2>1. DOMAIN two = S
    BY <1>4, <1>10, <1>13 DEF Merged
  <2>2. ToSet(a) \subseteq Nat /\ ToSet(b) \subseteq Nat
    BY <1>1, <1>2, <1>3, <1>4
  <2>3. IsFiniteSet(ToSet(a)) /\ IsFiniteSet(ToSet(b))
    BY <1>1, <1>2, <1>3, <1>4, Distinct
  <2>4. IsFiniteSet(S)
    BY <2>3, FS_Union
  <2> QED BY <2>1, <2>2, <2>4
<1>16. ASSUME NEW i \in S PROVE two[i].score = Share(a, i) + Share(b, i)
  <2>1. CASE i \in ToSet(b)
    <3>1. PICK m \in 1..B : b[m] = i
      BY <1>4, <2>1
    <3>2. two[i].score = Had(one, i) + Recip(m)
      BY <1>13, <3>1 DEF Merged
    <3>3. Had(one, i) = Share(a, i)
      BY <1>10 DEF Had, Share
    <3>4. Share(b, i) = Recip(m)
      BY <1>4, <2>1, <3>1 DEF Share
    <3> QED BY <3>2, <3>3, <3>4
  <2>2. CASE i \notin ToSet(b)
    <3>1. i \in ToSet(a) /\ \A m \in 1..B : b[m] # i
      BY <1>4, <2>2
    <3>2. two[i] = one[i]
      BY <1>10, <1>13, <3>1 DEF Merged
    <3>3. Share(b, i) = 0 /\ one[i].score = Share(a, i)
      BY <1>10, <2>2, <3>1 DEF Share
    <3> QED BY <1>14, <3>2, <3>3
  <2> QED BY <2>1, <2>2
<1>17. PICK lists : lists = <<la, lb>> /\ Len(lists) = 2 /\ lists[1] = la /\ lists[2] = lb
  <2>1. <<la, lb>>[1] = la /\ <<la, lb>>[2] = lb
    OBVIOUS
  <2>2. Len(<<la, lb>>) = 2
    OBVIOUS
  <2> QED BY <2>1, <2>2
<1> DEFINE Step(f, n) == IF n = 0 THEN [i \in {} |-> {}] ELSE MergeList(f[n - 1], lists[n])
           Sat(f) == f = [n \in 0..Len(lists) |-> Step(f, n)]
<1>18. PICK e : e = [n \in 0..2 |-> IF n = 0 THEN none ELSE IF n = 1 THEN one ELSE two]
  OBVIOUS
<1>19. Sat(e)
  <2>1. e[0] = none /\ e[1] = one /\ e[2] = two
    BY <1>18
  <2>2. \A n \in 0..2 : n = 0 \/ n = 1 \/ n = 2
    OBVIOUS
  <2>3. 1 - 1 = 0 /\ 2 - 1 = 1 /\ 1 # 0 /\ 2 # 0
    OBVIOUS
  <2>4. e[0] = Step(e, 0) /\ e[1] = Step(e, 1) /\ e[2] = Step(e, 2)
    BY <1>6, <1>8, <1>12, <1>17, <2>1, <2>3
  <2>5. e = [n \in 0..2 |-> e[n]]
    BY <1>18
  <2> HIDE DEF Step
  <2> QED BY <1>17, <2>2, <2>4, <2>5
<1>20. PICK f : f = CHOOSE g : Sat(g)
  OBVIOUS
<1>21. Sat(f)
  <2> HIDE DEF Sat
  <2> QED BY <1>19, <1>20
<1>22. f[2] = two
  <2>1. f[0] = Step(f, 0) /\ f[1] = Step(f, 1) /\ f[2] = Step(f, 2)
    <3> HIDE DEF Step
    <3> QED BY <1>17, <1>21
  <2>2. 1 - 1 = 0 /\ 2 - 1 = 1 /\ 1 # 0 /\ 2 # 0
    OBVIOUS
  <2>3. f[0] = none
    BY <1>6, <2>1
  <2>4. f[1] = one
    BY <1>8, <1>17, <2>1, <2>2, <2>3
  <2> QED BY <1>12, <1>17, <2>1, <2>2, <2>4
<1>23. PICK score : score = [i \in S |-> Share(a, i) + Share(b, i)]
  OBVIOUS
<1>24. [i \in DOMAIN two |-> two[i].score] = score
  BY <1>15, <1>16, <1>23
<1>25. hits = [n \in 1..AtMost(limit, Cardinality(S)) |->
                 [chunk |-> Ranking(score)[n], score |-> two[Ranking(score)[n]].score,
                  ranks |-> two[Ranking(score)[n]].ranks]]
  <2>1. hits = Fuse(lists, limit)
    BY <1>5, <1>17
  <2> DEFINE all == (CHOOSE g : Sat(g))[Len(lists)]
             order == Ranking([i \in DOMAIN all |-> all[i].score])
  <2>2. Fuse(lists, limit) = [n \in 1..AtMost(limit, Cardinality(DOMAIN all)) |->
            [chunk |-> order[n], score |-> all[order[n]].score, ranks |-> all[order[n]].ranks]]
    BY Zenon DEF Fuse
  <2>3. all = two
    BY <1>17, <1>20, <1>22
  <2> HIDE DEF all
  <2>4. order = Ranking(score)
    BY <1>24, <2>3
  <2> HIDE DEF order
  <2> QED BY <1>15, <2>1, <2>2, <2>3, <2>4
<1>26. DOMAIN hits = 1..AtMost(limit, Cardinality(S)) /\ \A n \in DOMAIN hits : hits[n].chunk = Ranking(score)[n]
  <2>1. PICK q, c : q = Ranking(score) /\ c = AtMost(limit, Cardinality(S))
    OBVIOUS
  <2>2. hits = [n \in 1..c |-> [chunk |-> q[n], score |-> two[q[n]].score, ranks |-> two[q[n]].ranks]]
    BY <1>25, <2>1
  <2>3. DOMAIN hits = 1..c /\ \A n \in 1..c : hits[n] = [chunk |-> q[n], score |-> two[q[n]].score, ranks |-> two[q[n]].ranks]
    BY <2>2
  <2>4. ASSUME NEW n \in 1..c PROVE hits[n].chunk = q[n]
    <3>1. PICK h, s, r : h = hits[n] /\ h = [chunk |-> q[n], score |-> s, ranks |-> r]
      BY <2>3
    <3>2. h.chunk = q[n]
      BY <3>1
    <3> QED BY <3>1, <3>2
  <2> QED BY <2>1, <2>3, <2>4
<1>27. score \in [S -> Nat]
  BY <1>14, <1>23
<1> QED BY <1>15, <1>23, <1>26, <1>27

\* What comes first in one list and not later in the other is ahead.
LEMMA SharesAgree ==
    ASSUME NEW a, NEW b, IsRanking(a), IsRanking(b), NEW i, NEW j,
           RankIn(a, i) <= RankIn(a, j), RankIn(b, i) <= RankIn(b, j),
           RankIn(a, i) # RankIn(a, j) \/ RankIn(b, i) # RankIn(b, j)
    PROVE  Share(a, i) + Share(b, i) > Share(a, j) + Share(b, j)
<1>1. ASSUME NEW c, IsRanking(c), RankIn(c, i) <= RankIn(c, j)
      PROVE  /\ Share(c, i) \in Nat /\ Share(c, j) \in Nat /\ Share(c, i) >= Share(c, j)
             /\ RankIn(c, i) # RankIn(c, j) => Share(c, i) > Share(c, j)
  <2>1. PICK N \in 0..Depth : c \in [1..N -> Nat] /\ IsInjective(c)
    BY <1>1 DEF IsRanking
  <2>2. /\ N \in Nat /\ ToSet(c) = {c[m] : m \in 1..N} /\ \A m \in 1..N : m \in 1..Depth /\ RankIn(c, c[m]) = m
        /\ \A k : k \notin ToSet(c) => RankIn(c, k) = N + 1
    BY <2>1, RanksInList
  <2>3. PICK x, y : x = RankIn(c, i) /\ y = RankIn(c, j)
    OBVIOUS
  <2>4. \A k \in ToSet(c) : RankIn(c, k) \in 1..N /\ RankIn(c, k) \in 1..Depth
    BY <2>2
  <2>5. x \in 1..N + 1 /\ y \in 1..N + 1 /\ x <= y
    BY <1>1, <2>2, <2>3, <2>4
  <2>6. (i \in ToSet(c) <=> x \in 1..N) /\ (j \in ToSet(c) <=> y \in 1..N)
    BY <2>2, <2>3, <2>4
  <2>7. /\ Share(c, i) = IF x \in 1..N THEN Recip(x) ELSE 0
        /\ Share(c, j) = IF y \in 1..N THEN Recip(y) ELSE 0
    BY <2>3, <2>6 DEF Share
  <2>8. \A r \in 1..N : r \in 1..Depth /\ Recip(r) \in Nat /\ Recip(r) > 0
    <3>1. \A r \in 1..N : r \in 1..Depth /\ Recip(r) \in Nat \ {0}
      BY <2>2, RecipsFall
    <3>2. \A v \in Nat \ {0} : v \in Nat /\ v > 0
      OBVIOUS
    <3> QED BY <3>1, <3>2
  <2>9. CASE y \in 1..N
    <3>1. x \in 1..N
      BY <2>2, <2>5, <2>9
    <3>2. x < y => Recip(x) > Recip(y)
      BY <2>8, <2>9, <3>1, RecipsFall
    <3>3. x = y \/ x < y
      BY <2>2, <2>5
    <3>4. PICK p \in Nat, q \in Nat : p = Recip(x) /\ q = Recip(y)
      BY <2>8, <2>9, <3>1
    <3> QED BY <2>3, <2>7, <2>9, <3>1, <3>2, <3>3, <3>4
  <2>10. CASE y \notin 1..N
    <3>1. Share(c, j) = 0 /\ y = N + 1
      BY <2>2, <2>5, <2>7, <2>10
    <3>2. x \in 1..N \/ x = y
      BY <2>2, <2>5, <3>1
    <3>3. CASE x \in 1..N
      BY <2>7, <2>8, <3>1, <3>3
    <3>4. CASE x = y
      BY <2>3, <2>7, <2>10, <3>1, <3>4
    <3> QED BY <3>2, <3>3, <3>4
  <2> QED BY <2>9, <2>10
<1>2. PICK p, q, r, s : p = Share(a, i) /\ q = Share(a, j) /\ r = Share(b, i) /\ s = Share(b, j)
  OBVIOUS
<1>3. p \in Nat /\ q \in Nat /\ p >= q /\ r \in Nat /\ s \in Nat /\ r >= s /\ (p > q \/ r > s)
  BY <1>1, <1>2
<1> QED BY <1>2, <1>3

\* Of what is ranked, so does the result agree.
LEMMA FusionAgrees ==
    ASSUME NEW a, NEW b, IsRanking(a), IsRanking(b), NEW limit \in Nat,
           NEW hits, hits = Fuse(<<Ranked("lexical", a), Ranked("vector", b)>>, limit),
           NEW i \in ToSet(a) \union ToSet(b), NEW j \in ToSet(a) \union ToSet(b),
           RankIn(a, i) <= RankIn(a, j), RankIn(b, i) <= RankIn(b, j),
           RankIn(a, i) # RankIn(a, j) \/ RankIn(b, i) # RankIn(b, j),
           NEW n \in DOMAIN hits, hits[n].chunk = j
    PROVE  /\ DOMAIN hits \subseteq 1..limit
           /\ \A x, y \in DOMAIN hits : hits[x].chunk = hits[y].chunk => x = y
           /\ \E m \in DOMAIN hits : m < n /\ hits[m].chunk = i
<1>1. PICK S : S = ToSet(a) \union ToSet(b)
  OBVIOUS
<1>2. PICK score : score = [k \in S |-> Share(a, k) + Share(b, k)]
  OBVIOUS
<1>3. /\ S \subseteq Nat /\ IsFiniteSet(S) /\ score \in [S -> Nat]
      /\ DOMAIN hits = 1..AtMost(limit, Cardinality(S))
      /\ \A k \in DOMAIN hits : hits[k].chunk = Ranking(score)[k]
  BY <1>1, <1>2, ScoresAreShares
<1>4. PICK r, C : r = Ranking(score) /\ C = Cardinality(S)
  OBVIOUS
<1>5. C \in Nat /\ Ranks(r, S, score)
  BY <1>3, <1>4, RankingRanks
<1>6. PICK c : c = AtMost(limit, C)
  OBVIOUS
<1>7. c \in Nat /\ c <= C /\ c <= limit
  BY <1>5, <1>6 DEF AtMost
<1>8. DOMAIN hits = 1..c /\ \A k \in 1..c : hits[k].chunk = r[k] /\ k \in 1..C
  BY <1>3, <1>4, <1>5, <1>6, <1>7
<1>9. n \in 1..C /\ r[n] = j
  BY <1>8
<1>10. PICK m \in 1..C : r[m] = i
  <2>1. DOMAIN r = 1..C /\ ToSet(r) = S
    BY <1>4, <1>5 DEF Ranks
  <2>2. i \in ToSet(r)
    BY <1>1, <2>1
  <2> QED BY <2>1, <2>2 DEF ToSet
<1>11. score[i] > score[j]
  <2>1. Share(a, i) + Share(b, i) > Share(a, j) + Share(b, j)
    BY SharesAgree
  <2> QED BY <1>1, <1>2, <2>1
<1>12. Ahead(score, i, j)
  BY <1>11 DEF Ahead
<1>13. m < n
  BY <1>4, <1>5, <1>9, <1>10, <1>12 DEF Ranks
<1>14. m \in 1..c /\ n \in 1..c
  BY <1>5, <1>7, <1>8, <1>13
<1>15. \A x, y \in 1..c : hits[x].chunk = hits[y].chunk => x = y
  <2>1. \A x, y \in 1..C : r[x] = r[y] => x = y
    BY <1>4, <1>5 DEF Ranks, IsInjective
  <2>2. ASSUME NEW x \in 1..c, NEW y \in 1..c, hits[x].chunk = hits[y].chunk PROVE x = y
    <3>1. r[x] = r[y] /\ x \in 1..C /\ y \in 1..C
      BY <1>8, <2>2
    <3> QED BY <2>1, <3>1
  <2> QED BY <2>2
<1> QED BY <1>7, <1>8, <1>10, <1>13, <1>14, <1>15

\* The best are a ranking.
LEMMA BestAreRanking ==
    ASSUME NEW S, S \subseteq Nat, IsFiniteSet(S), NEW score \in [S -> Nat]
    PROVE  IsRanking(Best(score, Depth))
<1>1. PICK r, C : r = Ranking(score) /\ C = Cardinality(S)
  OBVIOUS
<1>2. C \in Nat /\ Ranks(r, S, score)
  BY <1>1, RankingRanks
<1>3. PICK c : c = AtMost(Depth, C)
  OBVIOUS
<1>4. c \in 0..Depth /\ c <= C /\ \A n \in 1..c : n \in 1..C
  BY <1>2, <1>3, FusionAssumption DEF AtMost
<1>5. Best(score, Depth) = [n \in 1..c |-> r[n]]
  BY <1>1, <1>3 DEF Best
<1>6. [n \in 1..c |-> r[n]] \in [1..c -> Nat]
  BY <1>1, <1>2, <1>4 DEF Ranks
<1>7. IsInjective([n \in 1..c |-> r[n]])
  BY <1>1, <1>2, <1>4 DEF Ranks, IsInjective
<1> QED BY <1>4, <1>5, <1>6, <1>7 DEF IsRanking

\* Both lists of a faithful trace are rankings.
LEMMA BothAreRankings ==
    ASSUME NEW docs \in Docs, NEW t, Faithful(t, docs)
    PROVE  IsRanking(t.lexical) /\ IsRanking(t.vector) /\ t.limit \in Nat
<1>1. PICK S \in SUBSET Chunks : docs = Documents(S)
  BY DEF Docs
<1>2. PICK D \in 0..Cardinality(Chunks) : OrderedDocs(D, docs)
  BY <1>1, DocsAreOrdered
<1>3. PICK R : R = Relevants(t, docs)
  OBVIOUS
<1>4. D \in Nat
  <2>1. Cardinality(Chunks) \in Nat
    BY IndexAssumption, FS_CardinalityType
  <2> QED BY <2>1
<1>5. t.terms \in Seq(STRING)
  BY FusionAssumption DEF Faithful
<1>6. R \subseteq Nat /\ IsFiniteSet(R) /\ \A d \in R : Relevance(docs, t.terms, d) \in Nat
  <2>1. R \subseteq ToSet(docs) /\ ToSet(docs) = {docs[m] : m \in 1..D}
    BY <1>2, <1>3 DEF Relevants, OrderedDocs, ToSet
  <2>2. ToSet(docs) \subseteq Chunks
    BY <1>2, <2>1 DEF OrderedDocs
  <2>3. IsFiniteSet(Chunks) /\ Chunks \subseteq Nat
    BY IndexAssumption
  <2>4. ASSUME NEW d \in R PROVE Relevance(docs, t.terms, d) \in Nat
    <3>1. PICK m \in 1..D : docs[m] = d
      BY <2>1
    <3>2. PICK i \in 0..D - 1 : i + 1 = m
      <4>1. m - 1 \in 0..D - 1 /\ (m - 1) + 1 = m
        BY <1>4
      <4> QED BY <4>1
    <3>3. Relevance(docs, t.terms, docs[i + 1]) \in Nat
      <4>1. PICK file : file = [data |-> Payload(docs)]
        OBVIOUS
      <4>2. HasAll(file, docs)
        BY <4>1 DEF HasAll
      <4> QED BY <1>2, <1>5, <3>2, <4>2, ScoreIsRelevance
    <3> QED BY <3>1, <3>2, <3>3
  <2>5. R \subseteq Chunks
    BY <2>1, <2>2
  <2>6. IsFiniteSet(R)
    BY <2>3, <2>5, FS_Subset
  <2> QED BY <2>3, <2>4, <2>5, <2>6
<1>7. [d \in R |-> Relevance(docs, t.terms, d)] \in [R -> Nat]
  BY <1>6
<1>8. t.lexical = Best([d \in R |-> Relevance(docs, t.terms, d)], Depth)
  BY <1>3 DEF Faithful
<1>9. IsRanking(t.lexical)
  BY <1>6, <1>7, <1>8, BestAreRanking
<1>10. IsRanking(t.vector)
  <2>1. PICK N \in 0..Depth : t.vector \in [1..N -> t.admissible] /\ IsInjective(t.vector)
    BY DEF Faithful, Rankings
  <2>2. t.admissible \subseteq Nat
    BY IndexAssumption DEF Faithful
  <2>3. t.vector \in [1..N -> Nat]
    BY <2>1, <2>2
  <2> QED BY <2>1, <2>3 DEF IsRanking
<1> QED BY <1>9, <1>10, FusionAssumption DEF Faithful

\* Where both retrievers agree, so does what is fused, for any ranks, limits and depths.
THEOREM AgreementIsKept == Spec => []AgreementWins
<1>1. ASSUME IndexInv, TraceOK PROVE AgreementWins
  <2> SUFFICES ASSUME trace # NoTrace PROVE AgreementWins
    BY DEF AgreementWins
  <2>1. trace.of \in 1..Len(files) /\ Faithful(trace, files[trace.of].of)
    BY <1>1 DEF TraceOK
  <2>2. files[trace.of].of \in Docs
    <3>1. files[trace.of] \in IndexFiles
      BY <1>1, <2>1 DEF IndexInv, IndexTypes
    <3> QED BY <3>1 DEF IndexFiles
  <2>3. PICK a, b, limit, hits : a = trace.lexical /\ b = trace.vector /\ limit = trace.limit /\ hits = trace.hits
    OBVIOUS
  <2>4. IsRanking(a) /\ IsRanking(b) /\ limit \in Nat
    BY <2>1, <2>2, <2>3, BothAreRankings
  <2>5. hits = Fuse(<<Ranked("lexical", a), Ranked("vector", b)>>, limit)
    BY <2>1, <2>3 DEF Faithful
  <2> DEFINE place(i) == IF \E n \in DOMAIN hits : hits[n].chunk = i
                         THEN CHOOSE n \in DOMAIN hits : hits[n].chunk = i
                         ELSE limit + 1
  <2>6. ASSUME NEW i \in ToSet(a) \union ToSet(b), NEW j \in ToSet(a) \union ToSet(b),
               RankIn(a, i) <= RankIn(a, j), RankIn(b, i) <= RankIn(b, j),
               RankIn(a, i) # RankIn(a, j) \/ RankIn(b, i) # RankIn(b, j),
               place(j) <= limit
        PROVE  place(i) < place(j)
    <3>1. PICK n \in DOMAIN hits : hits[n].chunk = j /\ n = place(j)
      <4>1. ~(limit + 1 <= limit)
        BY <2>4
      <4> QED BY <2>6, <4>1
    <3> HIDE DEF place
    <3>2. /\ \A x, y \in DOMAIN hits : hits[x].chunk = hits[y].chunk => x = y
          /\ \E m \in DOMAIN hits : m < n /\ hits[m].chunk = i
      BY <2>4, <2>5, <2>6, <3>1, FusionAgrees
    <3>3. PICK m \in DOMAIN hits : m < n /\ hits[m].chunk = i
      BY <3>2
    <3>4. place(i) = m
      BY <3>2, <3>3 DEF place
    <3> QED BY <3>1, <3>3, <3>4
  <2> QED BY <2>3, <2>6 DEF AgreementWins
<1> QED BY <1>1, IndexInvariant, TracesAreFaithful, PTL

-----------------------------------------------------------------------------
(* The cache of a snapshot.                                                *)

\* The files of the cache by their numbers.
Files == 1..Len(data)

\* Processes, files and names are well formed.
CacheTypeOK ==
    /\ doing \in [Fetchers -> Doings]
    /\ handle \in [Fetchers -> Nat]
    /\ position \in [Fetchers -> 0..Parts]
    /\ data \in Seq(SUBSET Body)
    /\ kept \in Seq(SUBSET Body)
    /\ Len(kept) = Len(data)
    /\ cached \in 0..Len(data)
    /\ tmp \in 0..Len(data)
    /\ names \subseteq (0..Len(data)) \X (0..Len(data))
    /\ overlapped \in BOOLEAN
    /\ interrupted \in BOOLEAN

\* What was synced is in the file, and a process that writes has a file open.
SyncedIsThere ==
    /\ \A i \in Files : kept[i] \subseteq data[i]
    /\ \A f \in Fetchers : Writing(f) => handle[f] \in Files

\* Process f writes file i and what it has written so far is still in it.
Fills(f, i) == doing[f] = "write" /\ handle[f] = i /\ 1..position[f] \subseteq data[i]

\* A file that is not synced whole is being written by the last that opened it.
UnsyncedIsWritten ==
    interrupted \/ \A i \in Files : kept[i] # Body => \E f \in Fetchers : Fills(f, i)

\* The names now are among those there may be after a power cut.
NamesMayStay == <<cached, tmp>> \in names

\* With nobody else at it, the temporary file is that of the only writer ...
WriterIsAlone ==
    /\ \A f, g \in Fetchers : Writing(f) /\ Writing(g) => f = g
    /\ \A f \in Fetchers : Writing(f) => /\ tmp # 0
                                         /\ handle[f] = tmp
                                         /\ 1..position[f] \subseteq data[tmp]
    /\ \A f \in Fetchers : doing[f] = "replace" => kept[tmp] = Body

\* ... and is not what any name of the snapshot may lead to, which is whole.
NamesAreWhole ==
    \A n \in names : n[1] # 0 => /\ kept[n[1]] = Body
                                 /\ n[1] # tmp
                                 /\ n[1] # n[2]

\* The inductive invariant of the cache.
CacheInv ==
    /\ CacheTypeOK
    /\ SyncedIsThere
    /\ UnsyncedIsWritten
    /\ NamesMayStay
    /\ ~overlapped => WriterIsAlone /\ NamesAreWhole

-----------------------------------------------------------------------------
\* The invariant holds when nothing has been fetched.
LEMMA CacheStarts == CacheInit => CacheInv
<1> SUFFICES ASSUME CacheInit PROVE CacheInv
  OBVIOUS
<1> USE CacheAssumption DEF CacheInit
<1>1. Len(data) = 0 /\ Files = {}
  BY DEF Files
<1>2. CacheTypeOK
  <2>1. names \subseteq (0..Len(data)) \X (0..Len(data))
    BY <1>1
  <2>2. data \in Seq(SUBSET Body) /\ kept \in Seq(SUBSET Body) /\ Len(kept) = Len(data)
    OBVIOUS
  <2>3. /\ doing \in [Fetchers -> Doings]
        /\ handle \in [Fetchers -> Nat]
        /\ position \in [Fetchers -> 0..Parts]
    BY DEF Doings
  <2>4. cached \in 0..Len(data) /\ tmp \in 0..Len(data)
    BY <1>1
  <2>5. overlapped \in BOOLEAN /\ interrupted \in BOOLEAN
    BY Zenon
  <2> QED BY <2>1, <2>2, <2>3, <2>4, <2>5, Zenon DEF CacheTypeOK
<1> QED BY <1>1, <1>2 DEF CacheInv, SyncedIsThere, UnsyncedIsWritten, NamesMayStay, WriterIsAlone,
                          NamesAreWhole, Writing

-----------------------------------------------------------------------------
\* Steps that neither write nor rename: a process reads, asks, fails or is told.
Talks(f) == ReadCache(f) \/ MissCache(f) \/ Respond(f) \/ AskAgain(f)

\* They change no file, and begin and end outside _write_atomic.
LEMMA TalkingIsHarmless ==
    ASSUME CacheTypeOK, NEW f \in Fetchers, Talks(f)
    PROVE  /\ UNCHANGED <<handle, position, cached, tmp, data, kept, names, overlapped, interrupted>>
           /\ ~Writing(f)
           /\ \E what \in Doings \ {"write", "replace"} : doing' = [doing EXCEPT ![f] = what]
BY DEF Talks, ReadCache, MissCache, Respond, AskAgain, Become, Writing, Doings

\* A process that talks keeps the invariant.
LEMMA TalkKeeps ==
    ASSUME CacheInv, NEW f \in Fetchers, Talks(f)
    PROVE  CacheInv'
<1>1. CacheTypeOK
  BY DEF CacheInv
<1>2. /\ UNCHANGED <<handle, position, cached, tmp, data, kept, names, overlapped, interrupted>>
      /\ ~Writing(f)
      /\ \E what \in Doings \ {"write", "replace"} : doing' = [doing EXCEPT ![f] = what]
  BY <1>1, TalkingIsHarmless
<1>3. \A g \in Fetchers : /\ Writing(g)' <=> Writing(g)
                          /\ doing'[g] = "write" <=> doing[g] = "write"
                          /\ doing'[g] = "replace" <=> doing[g] = "replace"
  BY <1>1, <1>2 DEF CacheTypeOK, Writing
<1>4. CacheTypeOK'
  BY <1>1, <1>2 DEF CacheTypeOK
<1>5. SyncedIsThere'
  BY <1>2, <1>3 DEF CacheInv, SyncedIsThere, Files
<1>6. UnsyncedIsWritten'
  BY <1>2, <1>3 DEF CacheInv, UnsyncedIsWritten, Files, Fills
<1>7. NamesMayStay'
  BY <1>2 DEF CacheInv, NamesMayStay
<1>8. ~overlapped' => WriterIsAlone' /\ NamesAreWhole'
  BY <1>2, <1>3 DEF CacheInv, WriterIsAlone, NamesAreWhole
<1> QED BY <1>4, <1>5, <1>6, <1>7, <1>8 DEF CacheInv

-----------------------------------------------------------------------------
(* OpenTmp: the process becomes the last that opened the file.             *)

\* The file that is opened is new or was the temporary one, and is empty now.
LEMMA OpenedIsEmpty ==
    ASSUME CacheTypeOK, NEW f \in Fetchers, OpenTmp(f)
    PROVE  /\ tmp' \in Nat \ {0} /\ tmp' <= Len(data')
           /\ Len(data) <= Len(data') /\ Len(data) \in Nat /\ Len(data') \in Nat
           /\ tmp' = tmp \/ (tmp' = Len(data) + 1 /\ tmp = 0)
           /\ data' \in Seq(SUBSET Body) /\ kept' \in Seq(SUBSET Body)
           /\ Len(kept') = Len(data')
           /\ data'[tmp'] = {} /\ kept'[tmp'] = {}
           /\ \A i \in 1..Len(data') : i # tmp' =>
                 i \in Files /\ data'[i] = data[i] /\ kept'[i] = kept[i]
<1>1. CASE tmp = 0
  <2>1. /\ data' = Append(data, {})
        /\ kept' = Append(kept, {})
        /\ tmp' = Len(data')
    BY <1>1 DEF OpenTmp
  <2>2. /\ data \in Seq(SUBSET Body) /\ kept \in Seq(SUBSET Body)
        /\ Len(kept) = Len(data) /\ Len(data) \in Nat
    BY DEF CacheTypeOK
  <2>3. {} \in SUBSET Body
    OBVIOUS
  <2> QED BY <1>1, <2>1, <2>2, <2>3 DEF Files
<1>2. CASE tmp # 0
  <2>1. /\ data' = [data EXCEPT ![tmp] = {}]
        /\ kept' = [kept EXCEPT ![tmp] = {}]
        /\ tmp' = tmp
    BY <1>2 DEF OpenTmp
  <2>2. /\ data \in Seq(SUBSET Body) /\ kept \in Seq(SUBSET Body)
        /\ Len(kept) = Len(data) /\ Len(data) \in Nat
        /\ tmp \in 1..Len(data)
    BY <1>2 DEF CacheTypeOK
  <2>3. data' \in Seq(SUBSET Body) /\ Len(data') = Len(data)
    BY <2>1, <2>2
  <2>4. kept' \in Seq(SUBSET Body) /\ Len(kept') = Len(data)
    BY <2>1, <2>2
  <2>5. \A i \in 1..Len(data) : /\ data'[i] = IF i = tmp THEN {} ELSE data[i]
                                /\ kept'[i] = IF i = tmp THEN {} ELSE kept[i]
    BY <2>1, <2>2
  <2> QED BY <2>1, <2>2, <2>3, <2>4, <2>5 DEF Files
<1> QED BY <1>1, <1>2

\* Opening keeps the invariant.
LEMMA OpenKeeps ==
    ASSUME CacheInv, NEW f \in Fetchers, OpenTmp(f)
    PROVE  CacheInv'
<1>1. CacheTypeOK
  BY DEF CacheInv
<1>2. /\ tmp' \in Nat \ {0} /\ tmp' <= Len(data')
      /\ Len(data) <= Len(data') /\ Len(data) \in Nat /\ Len(data') \in Nat
      /\ tmp' = tmp \/ (tmp' = Len(data) + 1 /\ tmp = 0)
      /\ data' \in Seq(SUBSET Body) /\ kept' \in Seq(SUBSET Body)
      /\ Len(kept') = Len(data')
      /\ data'[tmp'] = {} /\ kept'[tmp'] = {}
      /\ \A i \in 1..Len(data') : i # tmp' =>
            i \in Files /\ data'[i] = data[i] /\ kept'[i] = kept[i]
  BY <1>1, OpenedIsEmpty
<1>3. /\ doing[f] = "open"
      /\ doing' = [doing EXCEPT ![f] = "write"]
      /\ handle' = [handle EXCEPT ![f] = tmp']
      /\ position' = [position EXCEPT ![f] = 0]
      /\ names' = names \union {<<cached, tmp'>>}
      /\ cached' = cached /\ interrupted' = interrupted
  BY DEF OpenTmp, Become
<1>4. overlapped' = (overlapped \/ \E g \in Fetchers : Writing(g))
  BY DEF OpenTmp
<1>5. CacheTypeOK'
  <2>1. cached \in 0..Len(data') /\ tmp' \in 0..Len(data')
    BY <1>1, <1>2 DEF CacheTypeOK
  <2>2. names' \subseteq (0..Len(data')) \X (0..Len(data'))
    BY <1>1, <1>2, <1>3, <2>1 DEF CacheTypeOK
  <2>3. /\ doing' \in [Fetchers -> Doings]
        /\ handle' \in [Fetchers -> Nat]
        /\ position' \in [Fetchers -> 0..Parts]
    BY <1>1, <1>2, <1>3, CacheAssumption DEF CacheTypeOK, Doings
  <2>4. overlapped' \in BOOLEAN
    BY <1>4
  <2> QED BY <1>1, <1>2, <1>3, <2>1, <2>2, <2>3, <2>4 DEF CacheTypeOK
<1>6. SyncedIsThere'
  <2>1. \A i \in Files' : kept'[i] \subseteq data'[i]
    BY <1>2 DEF Files, CacheInv, SyncedIsThere
  <2>2. \A g \in Fetchers : Writing(g)' => handle'[g] \in Files'
    BY <1>1, <1>2, <1>3 DEF Files, CacheInv, SyncedIsThere, CacheTypeOK, Writing
  <2> QED BY <2>1, <2>2 DEF SyncedIsThere
<1>7. UnsyncedIsWritten'
  <2>1. ASSUME NEW i \in Files', i = tmp'
        PROVE  Fills(f, i)'
    <3>1. doing'[f] = "write" /\ handle'[f] = i /\ position'[f] = 0
      BY <1>1, <1>3, <2>1 DEF CacheTypeOK
    <3> QED BY <3>1 DEF Fills
  <2>2. ASSUME ~interrupted, NEW i \in Files', kept'[i] # Body, i # tmp'
        PROVE  \E g \in Fetchers : Fills(g, i)'
    <3>1. i \in Files /\ data'[i] = data[i] /\ kept[i] # Body
      BY <1>2, <2>2 DEF Files
    <3>2. PICK g \in Fetchers : Fills(g, i)
      BY <2>2, <3>1 DEF CacheInv, UnsyncedIsWritten
    <3>3. g # f
      BY <1>3, <3>2 DEF Fills
    <3> QED BY <1>1, <1>3, <3>1, <3>2, <3>3 DEF CacheTypeOK, Fills
  <2> QED BY <1>3, <2>1, <2>2 DEF UnsyncedIsWritten
<1>8. NamesMayStay'
  BY <1>3 DEF NamesMayStay
<1>9. ASSUME ~overlapped' PROVE WriterIsAlone' /\ NamesAreWhole'
  <2>1. ~overlapped /\ \A g \in Fetchers : ~Writing(g)
    BY <1>4, <1>9
  <2>2. \A g \in Fetchers : Writing(g)' => g = f
    BY <1>1, <1>3, <2>1 DEF CacheTypeOK, Writing
  <2>3. doing'[f] = "write" /\ handle'[f] = tmp' /\ position'[f] = 0
    BY <1>1, <1>3 DEF CacheTypeOK
  <2>4. WriterIsAlone'
    BY <1>2, <2>2, <2>3 DEF WriterIsAlone, Writing
  <2>5. \A n \in names : n[1] # 0 => kept[n[1]] = Body /\ n[1] # tmp /\ n[1] # n[2] /\ n[1] \in Files
    BY <1>1, <2>1 DEF CacheInv, NamesAreWhole, CacheTypeOK, Files
  <2>6. <<cached, tmp>> \in names
    BY DEF CacheInv, NamesMayStay
  <2>7. cached # 0 => kept[cached] = Body /\ cached # tmp /\ cached \in Files
    BY <2>5, <2>6
  <2>8. \A i \in Files : i # tmp => i # tmp' /\ kept'[i] = kept[i]
    BY <1>2 DEF Files
  <2>9. NamesAreWhole'
    BY <1>3, <2>5, <2>7, <2>8 DEF NamesAreWhole
  <2> QED BY <2>4, <2>9
<1> QED BY <1>5, <1>6, <1>7, <1>8, <1>9 DEF CacheInv

-----------------------------------------------------------------------------
(* WritePart and SyncTmp: what a process writes stays in the file it fills. *)

\* Writing a part keeps the invariant: a file that is being filled still is.
LEMMA WriteKeeps ==
    ASSUME CacheInv, NEW f \in Fetchers, WritePart(f)
    PROVE  CacheInv'
<1> DEFINE i == handle[f]
           p == position[f] + 1
<1>1. CacheTypeOK /\ SyncedIsThere
  BY DEF CacheInv
<1>2. /\ doing[f] = "write"
      /\ position' = [position EXCEPT ![f] = p]
      /\ data' = [data EXCEPT ![i] = data[i] \union {p}]
      /\ UNCHANGED <<doing, handle, cached, tmp, kept, names, overlapped, interrupted>>
  BY DEF WritePart
<1>3. i \in Files /\ p \in 1..Parts /\ position[f] \in Nat
  <2>1. Writing(f)
    BY <1>2 DEF Writing
  <2>2. position[f] \in 0..Parts /\ position[f] < Parts
    BY <1>1 DEF WritePart, CacheTypeOK
  <2> QED BY <1>1, <2>1, <2>2, CacheAssumption DEF SyncedIsThere
<1>4. data \in Seq(SUBSET Body) /\ Len(data) \in Nat
  BY <1>1 DEF CacheTypeOK
<1>5. data[i] \union {p} \in SUBSET Body
  BY <1>3, <1>4 DEF Body, Files
<1>6. /\ data' \in Seq(SUBSET Body) /\ Len(data') = Len(data) /\ Files' = Files
      /\ data'[i] = data[i] \union {p}
      /\ \A j \in Files : j # i => data'[j] = data[j]
  <2> HIDE DEF i, p
  <2> QED BY <1>2, <1>3, <1>4, <1>5 DEF Files
<1>7. \A j \in Files : data[j] \subseteq data'[j]
  BY <1>6
<1>8. /\ position' \in [Fetchers -> 0..Parts]
      /\ position'[f] = p
      /\ \A g \in Fetchers : g # f => position'[g] = position[g]
  BY <1>1, <1>2, <1>3, CacheAssumption DEF CacheTypeOK
<1>9. \A g \in Fetchers, j \in Files :
         handle[g] = j /\ 1..position[g] \subseteq data[j] => 1..position'[g] \subseteq data'[j]
  <2>1. 1..p = (1..position[f]) \union {p}
    BY <1>3
  <2> HIDE DEF p
  <2> QED BY <1>6, <1>7, <1>8, <2>1
<1>10. CacheTypeOK'
  BY <1>1, <1>2, <1>6, <1>8 DEF CacheTypeOK
<1>11. SyncedIsThere'
  BY <1>1, <1>2, <1>6, <1>7 DEF SyncedIsThere, Writing
<1>12. UnsyncedIsWritten'
  BY <1>2, <1>6, <1>9 DEF CacheInv, UnsyncedIsWritten, Fills
<1>13. NamesMayStay'
  BY <1>2 DEF CacheInv, NamesMayStay
<1>14. ASSUME ~overlapped' PROVE WriterIsAlone' /\ NamesAreWhole'
  <2>1. WriterIsAlone /\ NamesAreWhole
    BY <1>2, <1>14 DEF CacheInv
  <2>2. \A g \in Fetchers : Writing(g) => 1..position'[g] \subseteq data'[tmp]
    BY <1>1, <1>9, <2>1 DEF WriterIsAlone, SyncedIsThere
  <2>3. WriterIsAlone'
    BY <1>2, <2>1, <2>2 DEF WriterIsAlone, Writing
  <2>4. NamesAreWhole'
    BY <1>2, <2>1 DEF NamesAreWhole
  <2> QED BY <2>3, <2>4
<1> QED BY <1>10, <1>11, <1>12, <1>13, <1>14 DEF CacheInv

\* Syncing keeps it: what the last that opened the file has written is all of the body.
LEMMA SyncKeeps ==
    ASSUME CacheInv, NEW f \in Fetchers, SyncTmp(f)
    PROVE  CacheInv'
<1> DEFINE i == handle[f]
<1>1. CacheTypeOK /\ SyncedIsThere
  BY DEF CacheInv
<1>2. /\ doing[f] = "write" /\ position[f] = Parts
      /\ kept' = [kept EXCEPT ![i] = data[i]]
      /\ doing' = [doing EXCEPT ![f] = "replace"]
      /\ UNCHANGED <<handle, position, cached, tmp, data, names, overlapped, interrupted>>
  BY DEF SyncTmp, Synced, Become
<1>3. i \in Files
  BY <1>1, <1>2 DEF SyncedIsThere, Writing
<1>4. /\ data \in Seq(SUBSET Body) /\ kept \in Seq(SUBSET Body)
      /\ Len(kept) = Len(data) /\ Len(data) \in Nat
  BY <1>1 DEF CacheTypeOK
<1>5. data[i] \in SUBSET Body
  BY <1>3, <1>4 DEF Files
<1>6. /\ kept' \in Seq(SUBSET Body) /\ Len(kept') = Len(data) /\ Files' = Files
      /\ kept'[i] = data[i]
      /\ \A j \in Files : j # i => kept'[j] = kept[j]
  <2> HIDE DEF i
  <2> QED BY <1>2, <1>3, <1>4, <1>5 DEF Files
<1>7. /\ doing' \in [Fetchers -> Doings]
      /\ doing'[f] = "replace"
      /\ \A g \in Fetchers : g # f => doing'[g] = doing[g]
  BY <1>1, <1>2 DEF CacheTypeOK, Doings
<1>8. 1..position[f] \subseteq data[i] => data[i] = Body
  BY <1>2, <1>5 DEF Body
<1>9. CacheTypeOK'
  BY <1>1, <1>2, <1>6, <1>7 DEF CacheTypeOK
<1>10. SyncedIsThere'
  <2>1. \A j \in Files' : kept'[j] \subseteq data'[j]
    BY <1>1, <1>2, <1>6 DEF SyncedIsThere
  <2>2. \A g \in Fetchers : Writing(g)' => Writing(g)
    BY <1>2, <1>7 DEF Writing
  <2> QED BY <1>1, <1>2, <1>6, <2>1, <2>2 DEF SyncedIsThere
<1>11. UnsyncedIsWritten'
  <2>1. ASSUME ~interrupted, NEW j \in Files, kept'[j] # Body
        PROVE  \E g \in Fetchers : Fills(g, j)'
    <3>1. kept[j] # Body
      BY <1>1, <1>5, <1>6, <2>1 DEF SyncedIsThere
    <3>2. PICK g \in Fetchers : Fills(g, j)
      BY <2>1, <3>1 DEF CacheInv, UnsyncedIsWritten
    <3>3. g # f
      BY <1>6, <1>8, <2>1, <3>2 DEF Fills
    <3> QED BY <1>2, <1>7, <3>2, <3>3 DEF Fills
  <2> QED BY <1>2, <1>6, <2>1 DEF UnsyncedIsWritten
<1>12. NamesMayStay'
  BY <1>2 DEF CacheInv, NamesMayStay
<1>13. ASSUME ~overlapped' PROVE WriterIsAlone' /\ NamesAreWhole'
  <2>1. WriterIsAlone /\ NamesAreWhole
    BY <1>2, <1>13 DEF CacheInv
  <2>2. \A g \in Fetchers : Writing(g)' <=> Writing(g)
    BY <1>2, <1>7 DEF Writing
  <2>3. i = tmp /\ kept'[tmp] = Body
    BY <1>2, <1>6, <1>8, <2>1 DEF WriterIsAlone, Writing
  <2>4. WriterIsAlone'
    BY <1>2, <2>1, <2>2, <2>3 DEF WriterIsAlone
  <2>5. \A n \in names : n[1] # 0 => n[1] \in Files
    BY <1>1 DEF CacheTypeOK, Files
  <2>6. NamesAreWhole'
    BY <1>2, <1>6, <2>1, <2>3, <2>5 DEF NamesAreWhole
  <2> QED BY <2>4, <2>6
<1> QED BY <1>9, <1>10, <1>11, <1>12, <1>13 DEF CacheInv

-----------------------------------------------------------------------------
(* ReplaceCached and the faults.                                           *)

\* Renaming keeps the invariant: the temporary file of a lone writer is synced whole, and has
\* no other name when it has that of the snapshot.
LEMMA ReplaceKeeps ==
    ASSUME CacheInv, NEW f \in Fetchers, ReplaceCached(f)
    PROVE  CacheInv'
<1>1. CacheTypeOK /\ SyncedIsThere
  BY DEF CacheInv
<1>2. /\ doing[f] = "replace"
      /\ UNCHANGED <<handle, position, data, kept, overlapped, interrupted>>
      /\ tmp = 0 => UNCHANGED <<cached, tmp, names>>
      /\ tmp # 0 => cached' = tmp /\ tmp' = 0 /\ names' = names \union {<<tmp, 0>>}
      /\ \E what \in {"have", "failed"} : doing' = [doing EXCEPT ![f] = what]
  BY DEF ReplaceCached, Become
<1>3. /\ doing' \in [Fetchers -> Doings]
      /\ ~Writing(f)' /\ doing'[f] # "replace"
      /\ \A g \in Fetchers : g # f => doing'[g] = doing[g]
  BY <1>1, <1>2 DEF CacheTypeOK, Doings, Writing
<1>4. CacheTypeOK'
  <2>1. cached' \in 0..Len(data) /\ tmp' \in 0..Len(data)
    BY <1>1, <1>2 DEF CacheTypeOK
  <2>2. names' \subseteq (0..Len(data)) \X (0..Len(data))
    BY <1>1, <1>2, <2>1 DEF CacheTypeOK
  <2> QED BY <1>1, <1>2, <1>3, <2>1, <2>2 DEF CacheTypeOK
<1>5. SyncedIsThere'
  <2>1. \A g \in Fetchers : Writing(g)' => Writing(g)
    BY <1>3 DEF Writing
  <2> QED BY <1>1, <1>2, <2>1 DEF SyncedIsThere, Files
<1>6. UnsyncedIsWritten'
  <2>1. \A g \in Fetchers, i \in Files : Fills(g, i) => Fills(g, i)'
    BY <1>2, <1>3 DEF Fills
  <2> QED BY <1>2, <2>1 DEF CacheInv, UnsyncedIsWritten, Files
<1>7. NamesMayStay'
  BY <1>2 DEF CacheInv, NamesMayStay
<1>8. ASSUME ~overlapped' PROVE WriterIsAlone' /\ NamesAreWhole'
  <2>1. WriterIsAlone /\ NamesAreWhole
    BY <1>2, <1>8 DEF CacheInv
  <2>2. tmp # 0 /\ kept[tmp] = Body /\ \A g \in Fetchers : ~Writing(g)'
    BY <1>2, <1>3, <2>1 DEF WriterIsAlone, Writing
  <2>3. WriterIsAlone'
    BY <2>2 DEF WriterIsAlone, Writing
  <2>4. NamesAreWhole'
    BY <1>2, <2>1, <2>2 DEF NamesAreWhole
  <2> QED BY <2>3, <2>4
<1> QED BY <1>4, <1>5, <1>6, <1>7, <1>8 DEF CacheInv

\* So does a process that dies.
LEMMA KillKeeps ==
    ASSUME CacheInv, NEW f \in Fetchers, KillFetcher(f)
    PROVE  CacheInv'
<1>1. CacheTypeOK /\ SyncedIsThere
  BY DEF CacheInv
<1>2. /\ doing' = [doing EXCEPT ![f] = "idle"]
      /\ interrupted' = (interrupted \/ doing[f] = "write")
      /\ UNCHANGED <<handle, position, cached, tmp, data, kept, names, overlapped>>
  BY DEF KillFetcher, Become
<1>3. /\ doing' \in [Fetchers -> Doings]
      /\ ~Writing(f)' /\ doing'[f] # "replace"
      /\ \A g \in Fetchers : g # f => doing'[g] = doing[g]
  BY <1>1, <1>2 DEF CacheTypeOK, Doings, Writing
<1>4. \A g \in Fetchers : (Writing(g)' => Writing(g)) /\ (doing'[g] = "replace" => doing[g] = "replace")
  BY <1>3 DEF Writing
<1>5. CacheTypeOK'
  <2>1. interrupted' \in BOOLEAN
    BY <1>2
  <2> QED BY <1>1, <1>2, <1>3, <2>1 DEF CacheTypeOK
<1>6. SyncedIsThere'
  BY <1>1, <1>2, <1>4 DEF SyncedIsThere, Files
<1>7. UnsyncedIsWritten'
  <2>1. ASSUME ~interrupted'
        PROVE  \A g \in Fetchers, i \in Files : Fills(g, i) => Fills(g, i)'
    BY <1>2, <1>3, <2>1 DEF Fills
  <2> QED BY <1>2, <2>1 DEF CacheInv, UnsyncedIsWritten, Files
<1>8. NamesMayStay'
  BY <1>2 DEF CacheInv, NamesMayStay
<1>9. ~overlapped' => WriterIsAlone' /\ NamesAreWhole'
  BY <1>2, <1>4 DEF CacheInv, WriterIsAlone, NamesAreWhole
<1> QED BY <1>5, <1>6, <1>7, <1>8, <1>9 DEF CacheInv

\* And a power cut: nobody writes any more, and each name leads where it may lead.
LEMMA CutKeeps ==
    ASSUME CacheInv, NEW n \in names, NEW rest \in [DOMAIN data -> SUBSET Body], CutPower(n, rest)
    PROVE  CacheInv'
<1>1. CacheTypeOK /\ SyncedIsThere
  BY DEF CacheInv
<1>2. /\ cached' = n[1] /\ tmp' = n[2] /\ names' = {n}
      /\ data' = rest
      /\ \A i \in DOMAIN data : kept[i] \subseteq rest[i] /\ rest[i] \subseteq data[i]
      /\ UNCHANGED <<handle, position, kept, overlapped>>
  BY DEF CutPower
<1>3. /\ interrupted' = (interrupted \/ \E f \in Fetchers : doing[f] = "write")
      /\ doing' = [f \in Fetchers |-> "idle"]
  BY DEF CutPower
<1>4. DOMAIN data = Files /\ Len(data) \in Nat
  BY <1>1 DEF CacheTypeOK, Files
<1>5. data' \in Seq(SUBSET Body) /\ Len(data') = Len(data) /\ Files' = Files
  BY <1>2, <1>4 DEF Files
<1>6. n \in (0..Len(data)) \X (0..Len(data))
  BY <1>1 DEF CacheTypeOK
<1>7. n = <<cached', tmp'>> /\ cached' \in 0..Len(data) /\ tmp' \in 0..Len(data)
  BY <1>2, <1>6
<1>8. \A f \in Fetchers : doing'[f] = "idle" /\ ~Writing(f)'
  BY <1>3 DEF Writing
<1>9. CacheTypeOK'
  <2>1. interrupted' \in BOOLEAN /\ overlapped' \in BOOLEAN
    BY <1>1, <1>2, <1>3, Zenon DEF CacheTypeOK
  <2>2. doing' \in [Fetchers -> Doings]
    BY <1>3 DEF Doings
  <2>3. /\ handle' \in [Fetchers -> Nat]
        /\ position' \in [Fetchers -> 0..Parts]
        /\ kept' \in Seq(SUBSET Body) /\ Len(kept') = Len(data)
    BY <1>1, <1>2 DEF CacheTypeOK
  <2>4. names' \subseteq (0..Len(data')) \X (0..Len(data'))
    BY <1>2, <1>5, <1>6
  <2> QED BY <1>5, <1>7, <2>1, <2>2, <2>3, <2>4 DEF CacheTypeOK
<1>10. SyncedIsThere'
  BY <1>2, <1>4, <1>5, <1>8 DEF SyncedIsThere
<1>11. UnsyncedIsWritten'
  BY <1>2, <1>3, <1>5 DEF CacheInv, UnsyncedIsWritten, Fills
<1>12. NamesMayStay'
  BY <1>2, <1>7 DEF NamesMayStay
<1>13. ~overlapped' => WriterIsAlone' /\ NamesAreWhole'
  BY <1>2, <1>8 DEF CacheInv, WriterIsAlone, NamesAreWhole
<1> QED BY <1>9, <1>10, <1>11, <1>12, <1>13 DEF CacheInv

-----------------------------------------------------------------------------
\* Every step keeps the invariant.
LEMMA NextKeeps ==
    ASSUME CacheInv, [CacheNext]_cacheVars
    PROVE  CacheInv'
<1>1. CASE \E f \in Fetchers : FetcherStep(f)
  <2>1. PICK f \in Fetchers : FetcherStep(f)
    BY <1>1
  <2>2. CASE Talks(f)
    BY <2>2, TalkKeeps
  <2>3. CASE OpenTmp(f)
    BY <2>3, OpenKeeps
  <2>4. CASE WritePart(f)
    BY <2>4, WriteKeeps
  <2>5. CASE SyncTmp(f)
    BY <2>5, SyncKeeps
  <2>6. CASE ReplaceCached(f)
    BY <2>6, ReplaceKeeps
  <2>7. CASE KillFetcher(f)
    BY <2>7, KillKeeps
  <2> QED BY <2>1, <2>2, <2>3, <2>4, <2>5, <2>6, <2>7 DEF FetcherStep, Talks
<1>2. CASE \E n \in names, rest \in [DOMAIN data -> SUBSET Body] : CutPower(n, rest)
  BY <1>2, CutKeeps
<1>3. CASE UNCHANGED cacheVars
  BY <1>3 DEF cacheVars, CacheInv, CacheTypeOK, SyncedIsThere, UnsyncedIsWritten, NamesMayStay,
              WriterIsAlone, NamesAreWhole, Writing, Fills, Files
<1> QED BY <1>1, <1>2, <1>3 DEF CacheNext

\* The inductive invariant holds in every state of the cache.
THEOREM CacheInvariant == CacheSpec => []CacheInv
<1> QED BY CacheStarts, NextKeeps, PTL DEF CacheSpec

\* A cached snapshot is half-written only after a process opened the temporary file while
\* another was yet to rename it,
\* and then only while one of them still writes it or because one died of it.
LEMMA CacheSuffices ==
    ASSUME CacheInv
    PROVE  HalfOnlyWhenShared
<1>1. CacheTypeOK /\ SyncedIsThere
  BY DEF CacheInv
<1>2. ASSUME ~overlapped, cached # 0
      PROVE  data[cached] = Body
  <2>1. kept[cached] = Body
    BY <1>2 DEF CacheInv, NamesMayStay, NamesAreWhole
  <2>2. cached \in Files /\ data[cached] \subseteq Body
    BY <1>1, <1>2 DEF CacheTypeOK, Files
  <2> QED BY <1>1, <2>1, <2>2 DEF SyncedIsThere
<1>3. ASSUME cached # 0, data[cached] # Body, ~interrupted
      PROVE  \E f \in Fetchers : doing[f] = "write" /\ handle[f] = cached
  <2>1. cached \in Files /\ data[cached] \subseteq Body
    BY <1>1, <1>3 DEF CacheTypeOK, Files
  <2>2. kept[cached] # Body
    BY <1>1, <1>3, <2>1 DEF SyncedIsThere
  <2> QED BY <1>3, <2>1, <2>2 DEF CacheInv, UnsyncedIsWritten, Fills
<1>4. ASSUME tmp = 0, NEW f \in Fetchers, doing[f] = "replace"
      PROVE  overlapped
  BY <1>4 DEF CacheInv, WriterIsAlone, Writing
<1> QED BY <1>2, <1>3, <1>4 DEF HalfOnlyWhenShared

\* "Readers never see a half-written file", as far as it is true, for any number of processes,
\* parts and faults.
THEOREM NeverHalfAlone == CacheSpec => []HalfOnlyWhenShared
<1> QED BY CacheInvariant, CacheSuffices, PTL

-----------------------------------------------------------------------------
(* The text of a section.                                                  *)

\* A place in the outline, and the designators there and one beyond.
IsPlace(p) ==
    /\ p \in Seq(1..26)
    /\ Len(p) <= Len(Widths) /\ Len(p) <= Levels
Tokens == {Designator(e[1], e[2]) : e \in (1..Levels) \X (1..27)}
Trackers == [stack : Seq(Tokens), expected : Nat]

\* The single letters among the romans that a section comes to: i, v and x.
RomanLetter == {9, 22, 24}

\* What a tracker knows at a place: the path; or at least the top level; or, when a roman may
\* have been taken for the next designator of the top level, that one too early.
Located(t, p, d) ==
    /\ t \in Trackers /\ IsPlace(p) /\ d \in 0..2
    /\ d = 0 => t.stack = TruePath(p)
    /\ p = <<>> => d = 0 /\ t.expected = 1
    /\ p # <<>> =>
         /\ t.stack # <<>>
         /\ t.expected # p[1] + 1 =>
               d = 2 /\ t.expected = p[1] + 2 /\ t.stack[1] = Letter("lower", p[1] + 1)
                     /\ p[1] + 1 \in RomanLetter
         /\ d # 2 => t.stack[1] = Designator(1, p[1])

Tracked == Located([stack |-> stack, expected |-> expected], outline, doubt)

\* What a chunk is said to be.
Chunkwise ==
    /\ buf \in [path : Seq(Tokens), len : Nat, text : Seq(Seq(1..26)), sure : BOOLEAN]
    /\ buf.text # <<>> /\ buf.sure => buf.path = TruePath(buf.text[1])
    /\ buf.len - 1 > MaxChars => Len(buf.text) = 1
    /\ buf.text = <<>> => buf.len = 0

\* A roman numeral up to 27, and the values of single letters.
LEMMA RomanIs ==
    /\ \A n \in 1..27 : Roman(n) =
          [family |-> "lower", letter |-> IF n = 1 THEN 9 ELSE IF n = 5 THEN 22 ELSE IF n = 10 THEN 24 ELSE 0,
           number |-> n]
    /\ \A f : Letter(f, 9).number = 1 /\ Letter(f, 22).number = 5 /\ Letter(f, 24).number = 10
    /\ \A f : \A n \in 1..27 : Letter(f, n).number \in {0, 1, 5, 10, 50, 100, 500, 1000} /\ (n = 1 => Letter(f, n).number = 0)
<1> DEFINE L == {3, 4, 9, 12, 13, 22, 24}
           V(l) == CASE l = 3 -> 100 [] l = 4 -> 500 [] l = 9 -> 1 [] l = 12 -> 50 [] l = 13 -> 1000
                     [] l = 22 -> 5 [] l = 24 -> 10
<1>1. DOMAIN RomanLetters = L
  BY DEF RomanLetters
<1>2. \A l \in L : RomanLetters[l] = V(l)
  BY DEF RomanLetters
<1>3. \A f : Letter(f, 9).number = 1 /\ Letter(f, 22).number = 5 /\ Letter(f, 24).number = 10
  BY <1>1, <1>2 DEF Letter
<1>4. ASSUME NEW f, NEW n \in 1..27 PROVE Letter(f, n).number \in {0, 1, 5, 10, 50, 100, 500, 1000} /\ (n = 1 => Letter(f, n).number = 0)
  <2>1. \A l \in L : V(l) \in {1, 5, 10, 50, 100, 500, 1000}
    OBVIOUS
  <2> HIDE DEF V
  <2> QED BY <1>1, <1>2, <2>1 DEF Letter
<1>5. ASSUME NEW n \in 1..27
      PROVE  Roman(n) = [family |-> "lower", number |-> n,
                         letter |-> IF n = 1 THEN 9 ELSE IF n = 5 THEN 22 ELSE IF n = 10 THEN 24 ELSE 0]
  <2>1. \A l \in L : RomanLetters[l] = n <=> (l = 9 /\ n = 1) \/ (l = 22 /\ n = 5) \/ (l = 24 /\ n = 10)
    BY <1>2
  <2>2. CASE n = 1
    <3>1. (CHOOSE l \in L : RomanLetters[l] = n) = 9
      BY <2>1, <2>2
    <3> QED BY <1>1, <1>3, <2>1, <2>2, <3>1 DEF Roman, Letter
  <2>3. CASE n = 5
    <3>1. (CHOOSE l \in L : RomanLetters[l] = n) = 22
      BY <2>1, <2>3
    <3> QED BY <1>1, <1>3, <2>1, <2>3, <3>1 DEF Roman, Letter
  <2>4. CASE n = 10
    <3>1. (CHOOSE l \in L : RomanLetters[l] = n) = 24
      BY <2>1, <2>4
    <3> QED BY <1>1, <1>3, <2>1, <2>4, <3>1 DEF Roman, Letter
  <2>5. CASE n \notin {1, 5, 10}
    <3>1. ~\E l \in L : RomanLetters[l] = n
      BY <2>1, <2>5
    <3> QED BY <1>1, <2>5, <3>1 DEF Roman
  <2> QED BY <2>2, <2>3, <2>4, <2>5
<1> QED BY <1>3, <1>4, <1>5

\* The designators of the levels.
LEMMA DesignatorIs ==
    \A n : /\ Designator(1, n) = Letter("lower", n)
           /\ Designator(2, n) = Digits(n) /\ Designator(5, n) = Digits(n)
           /\ Designator(3, n) = Roman(n) /\ Designator(6, n) = Roman(n)
           /\ Designator(4, n) = Letter("upper", n)
<1> QED BY DEF Designator

\* They are tokens.
LEMMA TokenIs ==
    ASSUME NEW tok \in Tokens
    PROVE  /\ tok.family \in {"lower", "upper", "digit"}
           /\ tok.letter \in Nat /\ tok.number \in Nat
<1>1. PICK level \in 1..6, n \in 1..27 : tok = Designator(level, n)
  BY DEF Tokens, Levels
<1>2. level \in {1, 2, 3, 4, 5, 6}
  OBVIOUS
<1>3. Letter("lower", n).number \in Nat /\ Letter("upper", n).number \in Nat
  <2>1. {0, 1, 5, 10, 50, 100, 500, 1000} \subseteq Nat
    OBVIOUS
  <2>2. \A f : Letter(f, n).number \in {0, 1, 5, 10, 50, 100, 500, 1000}
    BY RomanIs
  <2> QED BY <2>1, <2>2
<1>4. CASE level \in {1, 4}
  BY <1>1, <1>3, <1>4, DesignatorIs DEF Letter
<1>5. CASE level \in {2, 5}
  BY <1>1, <1>5, DesignatorIs DEF Digits
<1>6. CASE level \in {3, 6}
  BY <1>1, <1>6, DesignatorIs, RomanIs
<1> QED BY <1>2, <1>4, <1>5, <1>6

\* Of two levels below the top, what continues a designator of the one is the next of its level.
LEMMA NextOfItsLevel ==
    ASSUME NEW l \in 2..6, NEW m \in 2..6, NEW i \in 1..26, NEW j \in 1..26
    PROVE  /\ IsSuccessor(Designator(m, j), Designator(l, i + 1)) => Designator(m, j + 1) = Designator(l, i + 1)
           /\ IsSuccessor(Designator(l, i), Designator(l, i + 1))
<1>1. l \in {2, 3, 4, 5, 6} /\ m \in {2, 3, 4, 5, 6}
  OBVIOUS
<1>2. i \in 1..27 /\ i + 1 \in 1..27 /\ j \in 1..27 /\ j + 1 \in 1..27
  OBVIOUS
<1> DEFINE Kind(k, n) == IF k \in {2, 5} THEN Digits(n) ELSE IF k = 4 THEN Letter("upper", n) ELSE Roman(n)
<1>3. \A k \in {2, 3, 4, 5, 6} : \A n : Designator(k, n) = Kind(k, n)
  BY DesignatorIs
<1>4. \A n \in 1..27 :
         /\ \A k \in {2, 5} : Designator(k, n).family = "digit"
         /\ Designator(4, n).family = "upper"
         /\ \A k \in {3, 6} : Designator(k, n).family = "lower"
  BY <1>3, RomanIs DEF Digits, Letter
<1>5. ASSUME IsSuccessor(Designator(m, j), Designator(l, i + 1))
      PROVE  Designator(m, j + 1) = Designator(l, i + 1)
  <2>1. Designator(m, j).family = Designator(l, i + 1).family
    BY <1>5 DEF IsSuccessor
  <2> HIDE DEF Kind
  <2>2. CASE m = 4
    <3>1. Designator(m, j).family = "upper"
      BY <1>2, <1>4, <2>2
    <3> l = 4
      BY <1>1, <1>2, <1>4, <2>1, <3>1
    <3>2. Designator(m, j) = Letter("upper", j) /\ Designator(l, i + 1) = Letter("upper", i + 1)
          /\ Designator(m, j + 1) = Letter("upper", j + 1)
      BY <2>2, DesignatorIs
    <3>3. IsSuccessor(Letter("upper", j), Letter("upper", i + 1))
      BY <1>5, <3>2
    <3>4. Letter("upper", j).number \in {0, 1, 5, 10, 50, 100, 500, 1000}
          /\ Letter("upper", i + 1).number \in {0, 1, 5, 10, 50, 100, 500, 1000}
      BY <1>2, RomanIs
    <3>5. Letter("upper", j).letter = j /\ Letter("upper", i + 1).letter = i + 1
      BY DEF Letter
    <3>6. i + 1 = j + 1
      BY <3>3, <3>4, <3>5 DEF IsSuccessor
    <3> QED BY <3>2, <3>6
  <2>3. CASE m \in {2, 5}
    <3> Designator(m, j).family = "digit"
      BY <1>2, <1>4, <2>3
    <3>1. l \in {2, 5}
      BY <1>1, <1>2, <1>4, <2>1
    <3>2. i + 1 = j + 1
      BY <1>3, <1>5, <2>3, <3>1 DEF IsSuccessor, Digits, Kind
    <3> QED BY <1>3, <2>3, <3>1, <3>2 DEF Kind
  <2>4. CASE m \in {3, 6}
    <3> Designator(m, j).family = "lower"
      BY <1>2, <1>4, <2>4
    <3>1. l \in {3, 6}
      BY <1>1, <1>2, <1>4, <2>1
    <3>2. Designator(m, j) = Roman(j) /\ Designator(l, i + 1) = Roman(i + 1) /\ Designator(m, j + 1) = Roman(j + 1)
      BY <1>3, <2>4, <3>1 DEF Kind
    <3>3. IsSuccessor(Roman(j), Roman(i + 1))
      BY <1>5, <3>2
    <3>4. i + 1 = j + 1
      BY <1>2, <3>3, RomanIs DEF IsSuccessor
    <3> QED BY <3>2, <3>4
  <2> QED BY <1>1, <2>2, <2>3, <2>4
<1>6. IsSuccessor(Designator(l, i), Designator(l, i + 1))
  <2>1. CASE l = 4
    BY <1>3, <2>1 DEF IsSuccessor, Letter
  <2>2. CASE l \in {2, 5}
    BY <1>3, <2>2 DEF IsSuccessor, Digits
  <2>3. CASE l \in {3, 6}
    <3>1. Designator(l, i) = Roman(i) /\ Designator(l, i + 1) = Roman(i + 1)
      BY <1>3, <2>3
    <3> QED BY <1>2, <3>1, RomanIs DEF IsSuccessor
  <2> QED BY <1>1, <2>1, <2>2, <2>3
<1> QED BY <1>5, <1>6

\* The first of each level, and no other but the ninth capital, opens a depth.
LEMMA FirstsOpen ==
    ASSUME NEW l \in 2..6, NEW n \in 1..27, ~(l = 4 /\ n = 9)
    PROVE  Designator(l, n) \in FirstOfSequence <=> n = 1
<1>1. l \in {2, 3, 4, 5, 6}
  OBVIOUS
<1>2. Letter("lower", 1).number = 0 /\ Letter("upper", 1).number \in Nat
  BY RomanIs
<1>3. CASE l = 4
  <2>1. Designator(l, n) = Letter("upper", n)
    BY <1>3, DesignatorIs
  <2>2. n # 1 => Letter("upper", n) \notin FirstOfSequence
    BY <1>3, RomanIs DEF FirstOfSequence, Letter, Digits
  <2> QED BY <2>1, <2>2 DEF FirstOfSequence
<1>4. CASE l \in {2, 5}
  <2>1. Designator(l, n) = Digits(n)
    BY <1>4, DesignatorIs
  <2>2. n # 1 => Digits(n) \notin FirstOfSequence
    BY RomanIs DEF FirstOfSequence, Letter, Digits
  <2> QED BY <2>1, <2>2 DEF FirstOfSequence
<1>5. CASE l \in {3, 6}
  <2>1. Designator(l, n) = Roman(n)
    BY <1>5, DesignatorIs
  <2>2. n # 1 => Roman(n) \notin FirstOfSequence
    <3>1. Roman(n).number = n /\ Roman(n).family = "lower" /\ Roman(1).number = 1
      BY RomanIs
    <3>2. n # 1 => Roman(n) # Roman(1)
      BY <3>1
    <3>3. Roman(n) # Letter("lower", 1)
      BY <1>2, <3>1
    <3>4. Letter("upper", 1).family = "upper" /\ Letter("upper", 9).family = "upper" /\ Digits(1).family = "digit"
      BY DEF Letter, Digits
    <3> QED BY <3>1, <3>2, <3>3, <3>4 DEF FirstOfSequence
  <2> QED BY <2>1, <2>2 DEF FirstOfSequence
<1> QED BY <1>1, <1>3, <1>4, <1>5

\* What looks like a letter of the top level is a roman.
LEMMA LooksLikeTop ==
    ASSUME NEW l \in 2..6, NEW n \in 1..27, Designator(l, n).family = "lower", Designator(l, n).letter # 0
    PROVE  /\ Designator(l, n).letter \in RomanLetter
           /\ Designator(l, n) = Letter("lower", Designator(l, n).letter)
<1>1. l \in {2, 3, 4, 5, 6}
  OBVIOUS
<1>2. l \in {3, 6}
  BY <1>1, DesignatorIs DEF Letter, Digits
<1>3. Designator(l, n) = Roman(n)
  BY <1>2, DesignatorIs
<1>4. n \in {1, 5, 10}
  BY <1>3, RomanIs
<1>5. Roman(n).letter = (IF n = 1 THEN 9 ELSE IF n = 5 THEN 22 ELSE 24) /\ Roman(n).number = n /\ Roman(n).family = "lower"
  BY <1>4, RomanIs
<1>6. Roman(n) = [family |-> "lower", letter |-> Roman(n).letter, number |-> n]
  BY RomanIs
<1>7. Letter("lower", Roman(n).letter) = [family |-> "lower", letter |-> Roman(n).letter, number |-> n]
  <2>1. Letter("lower", Roman(n).letter).number = n
    BY <1>4, <1>5, RomanIs
  <2> QED BY <2>1 DEF Letter
<1> QED BY <1>3, <1>4, <1>5, <1>6, <1>7 DEF RomanLetter

\* One more sibling.
LEMMA OneMore ==
    \A x \in 1..26 : x \in Nat /\ x \in 1..27 /\ x + 1 \in 1..27 /\ x + 1 \in Nat
<1> QED OBVIOUS

\* The next place on one of the levels there are.
Sibling(p, l) == [SubSeq(p, 1, l) EXCEPT ![l] = @ + 1]

LEMMA SiblingIs ==
    ASSUME NEW p \in Seq(1..26), NEW l \in 1..Len(p)
    PROVE  /\ Sibling(p, l) \in Seq(1..27) /\ Len(Sibling(p, l)) = l
           /\ Sibling(p, l)[l] = p[l] + 1 /\ \A m \in 1..l - 1 : Sibling(p, l)[m] = p[m]
           /\ p[l] + 1 \in 1..27
           /\ Sibling(p, l) \in Places(p)
           /\ Token(Sibling(p, l)) = Designator(l, p[l] + 1)
<1>1. PICK f : f = SubSeq(p, 1, l)
  OBVIOUS
<1>2. f \in Seq(1..26) /\ Len(f) = l /\ \A m \in 1..l : f[m] = p[m]
  <2>1. 1 \in Int /\ l \in Int /\ 1 <= l /\ \A m \in 1..l : p[m] \in 1..26
    <3>1. Len(p) \in Nat
      BY LenProperties
    <3>2. \A m \in 1..l : m \in 1..Len(p)
      BY <3>1
    <3>3. \A m \in 1..Len(p) : p[m] \in 1..26
      BY ElementOfSeq
    <3> QED BY <3>1, <3>2, <3>3
  <2>2. f \in Seq(1..26) /\ Len(f) = l - 1 + 1 /\ \A m \in 1..l - 1 + 1 : f[m] = p[1 + m - 1]
    BY <1>1, <2>1, SubSeqProperties
  <2>3. l - 1 + 1 = l /\ \A m \in 1..l : 1 + m - 1 = m
    OBVIOUS
  <2> QED BY <2>2, <2>3
<1>3. PICK r : r = [f EXCEPT ![l] = @ + 1]
  OBVIOUS
<1>4. r \in [1..l -> 1..27]
  <2>1. f \in [1..l -> 1..26]
    BY <1>2, LenProperties
  <2>2. \A m \in 1..l : f[m] \in 1..27 /\ f[m] + 1 \in 1..27
    BY <2>1, OneMore
  <2> QED BY <1>3, <2>1, <2>2
<1>5. r \in Seq(1..27) /\ Len(r) = l
  BY <1>4, Listed
<1>6. r[l] = p[l] + 1 /\ \A m \in 1..l - 1 : r[m] = p[m]
  BY <1>2, <1>3
<1>7. p[l] + 1 \in 1..27
  <2>1. p[l] \in 1..26
    BY ElementOfSeq
  <2> QED BY <2>1, OneMore
<1>8. r \in Places(p)
  <2>1. DOMAIN p = 1..Len(p)
    BY LenProperties
  <2>2. r = [SubSeq(p, 1, l) EXCEPT ![l] = @ + 1]
    BY <1>1, <1>3
  <2> QED BY <2>1, <2>2 DEF Places, Siblings
<1> QED BY <1>1, <1>3, <1>5, <1>6, <1>7, <1>8 DEF Sibling, Token

\* From p on, q is the next place of the top level, or one below it: beside an earlier one, or
\* under p.
Follows(p, q) ==
    \/ p = <<>> /\ q = <<1>>
    \/ p # <<>> /\ q = <<p[1] + 1>>
    \/ /\ p # <<>> /\ Len(q) \in 2..6 /\ q[1] = p[1]
       /\ \/ Len(q) \in DOMAIN p /\ q = Sibling(p, Len(q))
          \/ q = Append(p, 1)

LEMMA PlacesFollow ==
    ASSUME NEW p, IsPlace(p), NEW q \in Places(p), Within(q)
    PROVE  IsPlace(q) /\ Follows(p, q)
<1>1. p \in Seq(1..26) /\ Len(p) <= Len(Widths) /\ Len(p) <= 6 /\ Len(p) \in Nat /\ Len(Widths) \in Nat
      /\ \A n \in 1..Len(Widths) : Widths[n] \in 1..26
  <2>1. p \in Seq(1..26) /\ Len(p) <= Len(Widths) /\ Len(p) <= 6
    BY DEF IsPlace, Levels
  <2>2. Widths \in Seq(1..26)
    BY ParserAssumption
  <2>3. Len(p) \in Nat /\ Len(Widths) \in Nat
    BY <2>1, <2>2, LenProperties
  <2>4. \A n \in 1..Len(Widths) : Widths[n] \in 1..26
    BY <2>2, ElementOfSeq
  <2> QED BY <2>1, <2>3, <2>4
<1>2. Len(q) <= Len(Widths) /\ q[Len(q)] <= Widths[Len(q)]
  BY DEF Within
<1>3. CASE \E l \in DOMAIN p : q = Sibling(p, l)
  <2>1. PICK l \in 1..Len(p) : q = Sibling(p, l)
    BY <1>1, <1>3
  <2>2. q \in Seq(1..27) /\ Len(q) = l /\ q[l] = p[l] + 1 /\ \A m \in 1..l - 1 : q[m] = p[m]
    BY <1>1, <2>1, SiblingIs
  <2>3. p # <<>>
    BY <1>1, <2>1
  <2>4. IsPlace(q)
    <3>1. \A m \in 1..l : q[m] \in 1..26
      <4>1. ASSUME NEW m \in 1..l PROVE q[m] \in 1..26
        <5>1. CASE m = l
          <6>1. q[l] \in 1..27 /\ Widths[l] \in 1..26 /\ q[l] <= Widths[l]
            <7>1. l \in 1..Len(Widths)
              BY <1>1, <1>2, <2>2
            <7>2. q[l] \in 1..27
              BY <2>2, ElementOfSeq
            <7> QED BY <1>1, <1>2, <2>2, <7>1, <7>2
          <6>2. \A x \in 1..27, y \in 1..26 : x <= y => x \in 1..26
            OBVIOUS
          <6> QED BY <5>1, <6>1, <6>2
        <5>2. CASE m # l
          <6>1. m \in 1..l - 1 /\ m \in 1..Len(p)
            BY <5>2
          <6>2. p[m] \in 1..26
            BY <1>1, <6>1, ElementOfSeq
          <6> QED BY <2>2, <6>1, <6>2
        <5> QED BY <5>1, <5>2
      <4> QED BY <4>1
    <3>2. q \in [1..l -> 1..26]
      BY <2>2, <3>1
    <3>3. q \in Seq(1..26)
      BY <3>2, Listed
    <3> QED BY <1>1, <1>2, <2>2, <3>3 DEF IsPlace, Levels
  <2>5. CASE l = 1
    <3>1. q = <<p[1] + 1>>
      BY <2>2, <2>5
    <3> QED BY <2>3, <2>4, <3>1 DEF Follows
  <2>6. CASE l # 1
    <3>1. Len(q) \in 2..6 /\ q[1] = p[1] /\ Len(q) \in DOMAIN p
      BY <1>1, <2>2, <2>6
    <3> QED BY <2>1, <2>2, <2>3, <2>4, <3>1 DEF Follows
  <2> QED BY <2>5, <2>6
<1>4. CASE q = Append(p, 1) /\ Len(p) < 6
  <2>1. q \in Seq(1..26) /\ Len(q) = Len(p) + 1
    <3>1. 1 \in 1..26
      OBVIOUS
    <3> QED BY <1>1, <1>4, <3>1, AppendProperties
  <2>2. IsPlace(q)
    BY <1>1, <1>2, <1>4, <2>1 DEF IsPlace, Levels
  <2>3. CASE p = <<>>
    BY <1>4, <2>2, <2>3 DEF Follows
  <2>4. CASE p # <<>>
    <3>1. Len(p) # 0
      BY <1>1, <2>4, EmptySeq
    <3>2. Len(p) \in 1..5
      <4>1. Len(p) \in Nat /\ Len(p) < 6
        BY <1>1, <1>4
      <4>2. \A x \in Nat : x # 0 /\ x < 6 => x \in 1..5
        OBVIOUS
      <4> QED BY <3>1, <4>1, <4>2
    <3>3. q[1] = p[1] /\ Len(q) \in 2..6
      BY <1>1, <1>4, <2>1, <3>2, AppendProperties
    <3> QED BY <1>4, <2>2, <2>4, <3>3 DEF Follows
  <2> QED BY <2>3, <2>4
<1> QED BY <1>3, <1>4 DEF Places, Siblings, Children, Levels, Sibling

\* The greatest of a set of levels, and of two numbers.
LEMMA HasGreatest ==
    ASSUME NEW n \in Nat, NEW C, C \subseteq 1..n, C # {}
    PROVE  Max(C) \in C /\ \A m \in C : Max(C) >= m
<1>1. PICK f : f = [m \in C |-> n - m]
  OBVIOUS
<1>2. f \in [C -> Nat]
  BY <1>1
<1>3. PICK m \in C : \A k \in C : f[m] <= f[k]
  BY <1>2, HasLeast
<1>4. m \in C /\ \A k \in C : m >= k
  BY <1>1, <1>3
<1> QED BY <1>4 DEF Max

LEMMA GreaterOfTwo ==
    ASSUME NEW a \in Nat, NEW b \in Nat
    PROVE  Max({a, b}) = IF a < b THEN b ELSE a
<1>1. CASE a < b
  <2>1. \A x \in {a, b} : (\A y \in {a, b} : x >= y) <=> x = b
    BY <1>1
  <2>2. (CHOOSE x \in {a, b} : \A y \in {a, b} : x >= y) = b
    BY <2>1
  <2> QED BY <1>1, <2>2 DEF Max
<1>2. CASE ~(a < b)
  <2>1. \A x \in {a, b} : (\A y \in {a, b} : x >= y) <=> x = a
    BY <1>2
  <2>2. (CHOOSE x \in {a, b} : \A y \in {a, b} : x >= y) = a
    BY <2>1
  <2> QED BY <1>2, <2>2 DEF Max
<1> QED BY <1>1, <1>2

\* What a tracker does at a designator that it does not expect: it leaves the top level alone.
LEMMA KeepsTop ==
    ASSUME NEW t \in Trackers, t.stack # <<>>, NEW tok \in Tokens, ~IsExpected(t, tok)
    PROVE  /\ Advanced(t, tok) \in Trackers /\ Advanced(t, tok).expected = t.expected
           /\ Advanced(t, tok).stack # <<>> /\ Advanced(t, tok).stack[1] = t.stack[1]
<1>1. t.stack \in Seq(Tokens) /\ t.expected \in Nat /\ Len(t.stack) \in Nat /\ Len(t.stack) # 0
  <2>1. t.stack \in Seq(Tokens) /\ t.expected \in Nat
    BY DEF Trackers
  <2>2. Len(t.stack) \in Nat
    BY <2>1, LenProperties
  <2>3. Len(t.stack) # 0
    BY <2>1, EmptySeq
  <2> QED BY <2>1, <2>2, <2>3
<1>2. 1 \in 1..Len(t.stack)
  BY <1>1
<1>3. ASSUME NEW s, s \in Seq(Tokens), s # <<>>, s[1] = t.stack[1], NEW u, u = [t EXCEPT !.stack = s]
      PROVE  u \in Trackers /\ u.expected = t.expected /\ u.stack # <<>> /\ u.stack[1] = t.stack[1]
  BY <1>1, <1>3 DEF Trackers
<1>4. CASE tok \in FirstOfSequence \/ Continued(t, tok) = {}
  <2>1. Advanced(t, tok) = Push(t, tok)
    BY <1>4 DEF Advanced
  <2>2. CASE Len(t.stack) >= MaxDepth
    BY <1>1, <2>1, <2>2 DEF Push
  <2>3. CASE ~(Len(t.stack) >= MaxDepth)
    <3>1. PICK s : s = Append(t.stack, tok)
      OBVIOUS
    <3>2. s \in Seq(Tokens) /\ s # <<>> /\ s[1] = t.stack[1]
      <4>1. s \in Seq(Tokens) /\ Len(s) = Len(t.stack) + 1 /\ \A i \in 1..Len(t.stack) : s[i] = t.stack[i]
        BY <1>1, <3>1, AppendProperties
      <4>2. Len(s) # 0
        BY <1>1, <4>1
      <4> QED BY <1>2, <4>1, <4>2, EmptySeq
    <3>3. Push(t, tok) = [t EXCEPT !.stack = s]
      BY <2>3, <3>1 DEF Push
    <3> QED BY <1>3, <2>1, <3>2, <3>3
  <2> QED BY <2>2, <2>3
<1>5. CASE ~(tok \in FirstOfSequence \/ Continued(t, tok) = {})
  <2>1. Continued(t, tok) \subseteq 1..Len(t.stack) /\ Continued(t, tok) # {}
    BY <1>1, <1>5 DEF Continued
  <2>2. PICK l : l = Max(Continued(t, tok))
    OBVIOUS
  <2>3. l \in 2..Len(t.stack)
    <3>1. l \in Continued(t, tok)
      BY <1>1, <2>1, <2>2, HasGreatest
    <3> QED BY <3>1 DEF Continued
  <2>4. PICK s : s = ContinuedAt(t.stack, l, tok)
    OBVIOUS
  <2>5. s \in Seq(Tokens) /\ s # <<>> /\ s[1] = t.stack[1]
    <3>1. PICK b : b = SubSeq(t.stack, 1, l - 1)
      OBVIOUS
    <3>2. 1 \in Int /\ l - 1 \in Int /\ 1 <= l - 1 /\ \A i \in 1..l - 1 : t.stack[i] \in Tokens
      <4>1. \A i \in 1..l - 1 : i \in 1..Len(t.stack)
        BY <1>1, <2>3
      <4> QED BY <1>1, <2>3, <4>1, ElementOfSeq
    <3>3. b \in Seq(Tokens) /\ Len(b) = l - 1 - 1 + 1 /\ \A i \in 1..l - 1 - 1 + 1 : b[i] = t.stack[1 + i - 1]
      BY <3>1, <3>2, SubSeqProperties
    <3>4. Len(b) = l - 1 /\ 1 \in 1..Len(b) /\ b[1] = t.stack[1]
      BY <2>3, <3>3
    <3>5. s = Append(b, tok)
      BY <2>4, <3>1 DEF ContinuedAt
    <3>6. s \in Seq(Tokens) /\ Len(s) = Len(b) + 1 /\ \A i \in 1..Len(b) : s[i] = b[i]
      BY <3>3, <3>5, AppendProperties
    <3>7. Len(s) # 0
      BY <2>3, <3>4, <3>6
    <3> QED BY <3>4, <3>6, <3>7, EmptySeq
  <2>6. Advanced(t, tok) = [t EXCEPT !.stack = s]
    BY <1>5, <2>2, <2>4 DEF Advanced
  <2> QED BY <1>3, <2>5, <2>6
<1> QED BY <1>4, <1>5

\* A path, and its designators.
LEMMA PathIs ==
    ASSUME NEW p, IsPlace(p)
    PROVE  /\ TruePath(p) \in Seq(Tokens) /\ Len(TruePath(p)) = Len(p)
           /\ \A l \in 1..Len(p) : TruePath(p)[l] = Designator(l, p[l])
           /\ p # <<>> => Len(p) \in 1..6
           /\ \A l \in 1..Len(p) : l \in 1..6 /\ p[l] \in 1..26
<1>1. p \in Seq(1..26) /\ Len(p) <= 6 /\ Len(p) \in Nat /\ DOMAIN p = 1..Len(p)
  <2>1. p \in Seq(1..26) /\ Len(p) <= 6
    BY DEF IsPlace, Levels
  <2> QED BY <2>1, LenProperties
<1>2. ASSUME NEW l \in 1..Len(p) PROVE l \in 1..6 /\ p[l] \in 1..26 /\ Designator(l, p[l]) \in Tokens
  <2>1. l \in 1..6
    BY <1>1
  <2>2. p[l] \in 1..26
    BY <1>1, ElementOfSeq
  <2>3. p[l] \in 1..27
    BY <2>2, OneMore
  <2>4. <<l, p[l]>> \in (1..Levels) \X (1..27)
    BY <2>1, <2>3 DEF Levels
  <2> QED BY <2>1, <2>2, <2>4 DEF Tokens
<1>3. TruePath(p) \in [1..Len(p) -> Tokens]
  BY <1>1, <1>2 DEF TruePath
<1>4. TruePath(p) \in Seq(Tokens) /\ Len(TruePath(p)) = Len(p)
  BY <1>1, <1>3, Listed
<1>5. p # <<>> => Len(p) \in 1..6
  <2>1. p # <<>> => Len(p) # 0
    BY <1>1, EmptySeq
  <2>2. \A x \in Nat : x # 0 /\ x <= 6 => x \in 1..6
    OBVIOUS
  <2> QED BY <1>1, <2>1, <2>2
<1> QED BY <1>1, <1>2, <1>4, <1>5 DEF TruePath

\* What is a doubt about q, coming from p.
OfTop(p, q) == \E r \in Rivals(p, q) : Len(q) = 1 \/ Len(r) = 1
Doubtful(p, q) == Rivals(p, q) # {} \/ IsNinthCapital(q)

LEMMA DoubtIs ==
    ASSUME NEW d \in 0..2, NEW p, NEW q
    PROVE  /\ DoubtAfter(d, p, q) \in 0..2
           /\ OfTop(p, q) => DoubtAfter(d, p, q) = 2
           /\ Doubtful(p, q) => DoubtAfter(d, p, q) # 0
           /\ Len(q) # 1 => DoubtAfter(d, p, q) >= d
           /\ d = 2 => DoubtAfter(d, p, q) # 0
<1> DEFINE lost == IF OfTop(p, q) THEN 2 ELSE IF Doubtful(p, q) THEN 1 ELSE 0
           left == IF Len(q) = 1 /\ d > 0 THEN d - 1 ELSE d
<1>1. lost \in 0..2 /\ left \in 0..2 /\ (Len(q) # 1 => left = d) /\ (d = 2 => left # 0)
  OBVIOUS
<1>2. Doubtful(p, q) => lost # 0
  OBVIOUS
<1>3. DoubtAfter(d, p, q) = Max({lost, left})
  BY DEF DoubtAfter, OfTop, Doubtful
<1>4. DoubtAfter(d, p, q) = IF lost < left THEN left ELSE lost
  <2>1. lost \in Nat /\ left \in Nat
    BY <1>1
  <2> HIDE DEF lost, left
  <2> QED BY <1>3, <2>1, GreaterOfTwo
<1>5. OfTop(p, q) => lost = 2
  OBVIOUS
<1> HIDE DEF lost, left
<1> QED BY <1>1, <1>2, <1>4, <1>5

\* A token that is taken for the next one of the top level puts that in doubt.
LEMMA ExpectedIsRival ==
    ASSUME NEW t \in Trackers, NEW p, IsPlace(p), NEW q, IsPlace(q), Follows(p, q), Len(q) # 1,
           IsExpected(t, Token(q)), t.expected \in {p[1] + 1, p[1] + 2}
    PROVE  /\ t.expected \in RomanLetter
           /\ Token(q) = Letter("lower", t.expected)
           /\ t.expected = p[1] + 1 => OfTop(p, q)
<1>1. p # <<>> /\ Len(q) \in 2..6
  BY DEF Follows
<1>2. PICK l : l = Len(q)
  OBVIOUS
<1>3. l \in 2..6 /\ l \in 1..Len(q) /\ q[l] \in 1..27 /\ Token(q) = Designator(l, q[l])
  <2>1. l \in 2..6
    BY <1>1, <1>2
  <2>2. l \in 1..Len(q)
    BY <1>2, <2>1
  <2>3. q[l] \in 1..26
    BY <2>2, PathIs
  <2> QED BY <1>2, <2>1, <2>2, <2>3, OneMore DEF Token
<1>4. 1 \in 1..Len(p) /\ p[1] \in 1..26
  <2>1. Len(p) \in 1..6
    BY <1>1, PathIs
  <2>2. 1 \in 1..Len(p)
    BY <2>1
  <2> QED BY <2>2, PathIs
<1>5. Token(q).family = "lower" /\ Token(q).letter = t.expected /\ t.expected # 0
  <2>1. p[1] + 1 # 0 /\ p[1] + 2 # 0
    <3>1. \A x \in 1..26 : x + 1 # 0 /\ x + 2 # 0
      OBVIOUS
    <3> QED BY <1>4, <3>1
  <2> QED BY <2>1 DEF IsExpected
<1>6. t.expected \in RomanLetter /\ Token(q) = Letter("lower", t.expected)
  BY <1>3, <1>5, LooksLikeTop
<1>7. ASSUME t.expected = p[1] + 1 PROVE OfTop(p, q)
  <2>1. PICK r : r = Sibling(p, 1)
    OBVIOUS
  <2>2. r \in Places(p) /\ Len(r) = 1 /\ Token(r) = Designator(1, p[1] + 1)
    BY <1>4, <2>1, SiblingIs DEF IsPlace
  <2>3. Token(r) = Token(q)
    BY <1>6, <1>7, <2>2, DesignatorIs
  <2>4. r # q
    BY <2>2
  <2> QED BY <2>2, <2>3, <2>4 DEF OfTop, Rivals
<1> QED BY <1>6, <1>7

\* Without a doubt, the path is followed.
LEMMA PathIsFollowed ==
    ASSUME NEW t \in Trackers, NEW p, IsPlace(p), NEW q, IsPlace(q), Follows(p, q), Len(q) # 1,
           t.stack = TruePath(p), ~Doubtful(p, q), ~IsExpected(t, Token(q))
    PROVE  Advanced(t, Token(q)).stack = TruePath(q)
<1> DEFINE w == TruePath(p)
<1>1. p # <<>> /\ Len(q) \in 2..6
  BY DEF Follows
<1>2. /\ w \in Seq(Tokens) /\ Len(w) = Len(p) /\ Len(p) \in 1..6
      /\ \A m \in 1..Len(p) : w[m] = Designator(m, p[m]) /\ m \in 1..6 /\ p[m] \in 1..26
  BY <1>1, PathIs
<1>3. /\ TruePath(q) \in Seq(Tokens) /\ Len(TruePath(q)) = Len(q)
      /\ \A m \in 1..Len(q) : TruePath(q)[m] = Designator(m, q[m]) /\ m \in 1..6 /\ q[m] \in 1..26
  BY PathIs
<1>4. PICK l : l = Len(q)
  OBVIOUS
<1>5. l \in 2..6 /\ l \in 1..Len(q) /\ q[l] \in 1..26 /\ q[l] \in 1..27 /\ Token(q) = Designator(l, q[l])
  <2>1. l \in 2..6
    BY <1>1, <1>4
  <2>2. l \in 1..Len(q)
    BY <1>4, <2>1
  <2> QED BY <1>3, <1>4, <2>1, <2>2, OneMore DEF Token
<1>6. Token(q) \in Tokens
  <2>1. TruePath(q)[l] \in Tokens
    BY <1>3, <1>5, ElementOfSeq
  <2> QED BY <1>3, <1>5, <2>1
<1>7. p \in Seq(1..26) /\ q \in Seq(1..26)
  BY DEF IsPlace
<1> HIDE DEF w
<1>8. CASE l \in DOMAIN p /\ q = Sibling(p, l)
  <2>1. l \in 1..Len(p) /\ p[l] \in 1..26
    BY <1>2, <1>7, <1>8, LenProperties
  <2>2. q[l] = p[l] + 1 /\ \A m \in 1..l - 1 : q[m] = p[m]
    BY <1>7, <1>8, <2>1, SiblingIs
  <2>3. Token(q) \notin FirstOfSequence
    <3>1. ~(l = 4 /\ q[l] = 9)
      BY <1>4 DEF Doubtful, IsNinthCapital
    <3>2. q[l] # 1
      <4>1. \A x \in 1..26 : x + 1 # 1
        OBVIOUS
      <4> QED BY <2>1, <2>2, <4>1
    <3> QED BY <1>5, <3>1, <3>2, FirstsOpen
  <2>4. l \in Continued(t, Token(q))
    <3>1. IsSuccessor(Designator(l, p[l]), Designator(l, p[l] + 1))
      BY <1>5, <2>1, NextOfItsLevel
    <3>2. l \in 2..Len(t.stack) /\ t.stack[l] = Designator(l, p[l])
      BY <1>2, <1>5, <2>1 DEF w
    <3> QED BY <1>5, <2>2, <3>1, <3>2 DEF Continued
  <2>5. ASSUME NEW m \in Continued(t, Token(q)), m # l PROVE FALSE
    <3>1. m \in 2..Len(t.stack) /\ IsSuccessor(t.stack[m], Token(q))
      BY DEF Continued
    <3>2. m \in 2..6 /\ m \in 1..Len(p) /\ p[m] \in 1..26 /\ t.stack[m] = Designator(m, p[m])
      <4>1. m \in 1..Len(p)
        BY <1>2, <3>1 DEF w
      <4>2. m \in 1..6 /\ p[m] \in 1..26 /\ t.stack[m] = Designator(m, p[m])
        BY <1>2, <4>1 DEF w
      <4>3. \A x \in 1..6 : x >= 2 => x \in 2..6
        OBVIOUS
      <4>4. m >= 2
        BY <3>1
      <4> QED BY <4>1, <4>2, <4>3, <4>4
    <3>3. IsSuccessor(Designator(m, p[m]), Designator(l, p[l] + 1))
      BY <1>5, <2>2, <3>1, <3>2
    <3>4. Designator(m, p[m] + 1) = Designator(l, p[l] + 1)
      <4>1. PICK i \in 1..26, j \in 1..26 : i = p[l] /\ j = p[m]
        BY <2>1, <3>2
      <4>2. IsSuccessor(Designator(m, j), Designator(l, i + 1))
        BY <3>3, <4>1
      <4>3. Designator(m, j + 1) = Designator(l, i + 1)
        BY <1>5, <3>2, <4>2, NextOfItsLevel
      <4> QED BY <4>1, <4>3
    <3>5. Sibling(p, m) \in Places(p) /\ Len(Sibling(p, m)) = m /\ Token(Sibling(p, m)) = Designator(m, p[m] + 1)
      BY <1>7, <3>2, SiblingIs
    <3>6. Sibling(p, m) # q /\ Token(Sibling(p, m)) = Token(q)
      BY <1>4, <1>5, <2>2, <2>5, <3>4, <3>5
    <3> QED BY <3>5, <3>6 DEF Doubtful, Rivals
  <2>6. Max(Continued(t, Token(q))) = l /\ Continued(t, Token(q)) # {}
    <3>1. Continued(t, Token(q)) = {l}
      BY <2>4, <2>5
    <3>2. {l} \subseteq 1..Len(p) /\ Len(p) \in Nat
      BY <1>2, <2>1
    <3> QED BY <3>1, <3>2, HasGreatest
  <2>7. PICK b : b = SubSeq(w, 1, l - 1)
    OBVIOUS
  <2>8. b \in Seq(Tokens) /\ Len(b) = l - 1 /\ \A m \in 1..l - 1 : b[m] = w[m]
    <3>1. 1 \in Int /\ l - 1 \in Int /\ 1 <= l - 1
      BY <1>5
    <3>2. \A m \in 1..l - 1 : m \in 1..Len(w)
      BY <1>2, <2>1
    <3>3. \A m \in 1..l - 1 : w[m] \in Tokens
      BY <1>2, <3>2, ElementOfSeq
    <3>4. b \in Seq(Tokens) /\ Len(b) = l - 1 - 1 + 1 /\ \A m \in 1..l - 1 - 1 + 1 : b[m] = w[1 + m - 1]
      BY <2>7, <3>1, <3>3, SubSeqProperties
    <3>5. l - 1 - 1 + 1 = l - 1 /\ \A m \in 1..l - 1 : 1 + m - 1 = m
      BY <1>5
    <3> QED BY <3>4, <3>5
  <2>9. PICK s : s = Append(b, Token(q))
    OBVIOUS
  <2>10. s \in Seq(Tokens) /\ Len(s) = l /\ (\A m \in 1..l - 1 : s[m] = w[m]) /\ s[l] = Token(q)
    <3>1. s \in Seq(Tokens) /\ Len(s) = Len(b) + 1 /\ (\A m \in 1..Len(b) : s[m] = b[m]) /\ s[Len(b) + 1] = Token(q)
      BY <1>6, <2>8, <2>9, AppendProperties
    <3>2. l - 1 + 1 = l
      BY <1>5
    <3> QED BY <2>8, <3>1, <3>2
  <2>11. s = TruePath(q)
    <3>1. ASSUME NEW m \in 1..l PROVE s[m] = TruePath(q)[m]
      <4>1. CASE m = l
        BY <1>3, <1>4, <1>5, <2>10, <4>1
      <4>2. CASE m # l
        <5>1. m \in 1..l - 1 /\ m \in 1..Len(p)
          BY <1>5, <2>1, <4>2
        <5> QED BY <1>2, <1>3, <1>4, <2>2, <2>10, <5>1
      <4> QED BY <4>1, <4>2
    <3> QED BY <1>3, <1>4, <2>10, <3>1, SeqEqual
  <2>12. Advanced(t, Token(q)) = [t EXCEPT !.stack = s]
    BY <2>3, <2>6, <2>7, <2>9 DEF Advanced, ContinuedAt, w
  <2> QED BY <2>11, <2>12 DEF Trackers
<1>9. CASE q = Append(p, 1)
  <2>1. Len(q) = Len(p) + 1 /\ (\A m \in 1..Len(p) : q[m] = p[m]) /\ q[Len(p) + 1] = 1
    <3>1. 1 \in 1..26
      OBVIOUS
    <3> QED BY <1>7, <1>9, <3>1, AppendProperties
  <2>2. Token(q) \in FirstOfSequence
    <3>1. q[l] = 1
      BY <1>4, <2>1
    <3>2. ~(l = 4 /\ 1 = 9) /\ 1 \in 1..27
      OBVIOUS
    <3>3. Designator(l, 1) \in FirstOfSequence
      BY <1>5, <3>2, FirstsOpen
    <3> QED BY <1>5, <3>1, <3>3
  <2>3. Len(t.stack) < MaxDepth
    <3>1. Len(q) <= Len(Widths) /\ Len(Widths) <= MaxDepth /\ MaxDepth \in Nat /\ Len(Widths) \in Nat
      BY ParserAssumption, LenProperties DEF IsPlace
    <3> QED BY <1>2, <2>1, <3>1 DEF w
  <2>4. PICK s : s = Append(w, Token(q))
    OBVIOUS
  <2>5. s \in Seq(Tokens) /\ Len(s) = Len(q) /\ (\A m \in 1..Len(p) : s[m] = w[m]) /\ s[Len(p) + 1] = Token(q)
    BY <1>2, <1>6, <2>1, <2>4, AppendProperties
  <2>6. s = TruePath(q)
    <3>1. ASSUME NEW m \in 1..Len(q) PROVE s[m] = TruePath(q)[m]
      <4>1. CASE m = Len(p) + 1
        BY <1>3, <1>4, <1>5, <2>1, <2>5, <4>1
      <4>2. CASE m # Len(p) + 1
        <5>1. m \in 1..Len(p)
          BY <1>2, <2>1, <4>2
        <5> QED BY <1>2, <1>3, <2>1, <2>5, <5>1
      <4> QED BY <4>1, <4>2
    <3> QED BY <1>3, <2>5, <3>1, SeqEqual
  <2>7. Advanced(t, Token(q)) = [t EXCEPT !.stack = s]
    <3>1. ~(Len(t.stack) >= MaxDepth)
      <4>1. MaxDepth \in Nat /\ Len(t.stack) \in Nat
        BY <1>2, ParserAssumption DEF w
      <4> QED BY <2>3, <4>1
    <3> QED BY <2>2, <2>4, <3>1 DEF Advanced, Push, w
  <2> QED BY <2>6, <2>7 DEF Trackers
<1> QED BY <1>1, <1>4, <1>8, <1>9 DEF Follows

\* One designator after the other, a tracker stays located.
LEMMA StaysLocated ==
    ASSUME NEW t, NEW p, NEW d, Located(t, p, d), NEW q \in Places(p), Within(q)
    PROVE  Located(Advanced(t, Token(q)), q, DoubtAfter(d, p, q))
<1>1. t \in Trackers /\ IsPlace(p) /\ d \in 0..2
  BY DEF Located
<1>2. IsPlace(q) /\ Follows(p, q)
  BY <1>1, PlacesFollow
<1>3. PICK e : e = DoubtAfter(d, p, q)
  OBVIOUS
<1>4. /\ e \in 0..2
      /\ OfTop(p, q) => e = 2
      /\ Doubtful(p, q) => e # 0
      /\ Len(q) # 1 => e >= d
      /\ d = 2 => e # 0
  BY <1>1, <1>3, DoubtIs
<1>5. q # <<>> /\ Len(q) \in 1..6 /\ q[1] \in 1..26
  <2>1. q # <<>>
    BY <1>2 DEF Follows
  <2>2. Len(q) \in 1..6
    BY <1>2, <2>1, PathIs
  <2>3. 1 \in 1..Len(q)
    BY <2>2
  <2> QED BY <1>2, <2>1, <2>2, <2>3, PathIs
<1>6. Token(q) \in Tokens
  <2>1. Len(q) \in 1..Len(q)
    BY <1>5
  <2>2. TruePath(q)[Len(q)] = Token(q)
    BY <1>2, <2>1, PathIs DEF Token
  <2>3. TruePath(q) \in Seq(Tokens) /\ Len(TruePath(q)) = Len(q)
    BY <1>2, PathIs
  <2> QED BY <2>1, <2>2, <2>3, ElementOfSeq
<1>7. TruePath(q)[1] = Designator(1, q[1]) /\ Designator(1, q[1]) = Letter("lower", q[1])
  <2>1. 1 \in 1..Len(q)
    BY <1>5
  <2> QED BY <1>2, <2>1, PathIs, DesignatorIs
<1>8. PICK u : u = Advanced(t, Token(q))
  OBVIOUS
<1>9. ASSUME Len(q) = 1, t.expected = q[1] PROVE Located(u, q, e)
  <2>1. Token(q) = Letter("lower", q[1])
    BY <1>7, <1>9 DEF Token
  <2>2. u = [stack |-> <<Token(q)>>, expected |-> q[1] + 1]
    BY <1>8, <1>9, <2>1 DEF Advanced, IsExpected, Letter
  <2>3. <<Token(q)>> \in Seq(Tokens) /\ <<Token(q)>> # <<>> /\ <<Token(q)>>[1] = Token(q) /\ Len(<<Token(q)>>) = 1
    BY <1>6
  <2>4. q[1] + 1 \in Nat
    BY <1>5, OneMore
  <2>5. u \in Trackers
    BY <2>2, <2>3, <2>4 DEF Trackers
  <2>6. u.stack = TruePath(q)
    <3>1. TruePath(q) \in Seq(Tokens) /\ Len(TruePath(q)) = 1 /\ TruePath(q)[1] = Token(q)
      BY <1>2, <1>7, <1>9, <2>1, PathIs
    <3>2. \A i \in 1..1 : <<Token(q)>>[i] = TruePath(q)[i]
      BY <2>3, <3>1
    <3> QED BY <2>2, <2>3, <3>1, <3>2, SeqEqual
  <2> QED BY <1>2, <1>4, <1>5, <1>7, <2>1, <2>2, <2>3, <2>5, <2>6 DEF Located
<1>10. CASE p = <<>>
  <2>1. q = <<1>> /\ t.expected = 1
    BY <1>2, <1>10 DEF Follows, Located
  <2>2. Len(q) = 1 /\ q[1] = 1
    BY <2>1
  <2> QED BY <1>3, <1>8, <1>9, <2>1, <2>2
<1>11. CASE p # <<>>
  <2>1. /\ t.stack # <<>>
        /\ t.expected # p[1] + 1 =>
              d = 2 /\ t.expected = p[1] + 2 /\ t.stack[1] = Letter("lower", p[1] + 1)
                    /\ p[1] + 1 \in RomanLetter
        /\ d # 2 => t.stack[1] = Designator(1, p[1])
        /\ d = 0 => t.stack = TruePath(p)
    BY <1>11 DEF Located
  <2>2. p[1] \in 1..26
    <3>1. Len(p) \in 1..6
      BY <1>1, <1>11, PathIs
    <3>2. 1 \in 1..Len(p)
      BY <3>1
    <3> QED BY <1>1, <3>2, PathIs
  <2>3. ~IsExpected(t, Token(q)) =>
           /\ u \in Trackers /\ u.expected = t.expected
           /\ u.stack # <<>> /\ u.stack[1] = t.stack[1]
    BY <1>1, <1>6, <1>8, <2>1, KeepsTop
  <2>4. CASE Len(q) = 1
    <3>1. q[1] = p[1] + 1
      <4>1. q = <<p[1] + 1>>
        BY <1>2, <1>11, <2>4 DEF Follows
      <4> QED BY <4>1
    <3>2. CASE t.expected = q[1]
      BY <1>3, <1>8, <1>9, <2>4, <3>2
    <3>3. CASE t.expected # q[1]
      <4>1. d = 2 /\ t.expected = q[1] + 1 /\ t.stack[1] = Designator(1, q[1])
        <5>1. p[1] + 2 = p[1] + 1 + 1
          <6>1. \A x \in 1..26 : x + 2 = x + 1 + 1
            OBVIOUS
          <6> QED BY <2>2, <6>1
        <5> QED BY <1>7, <2>1, <3>1, <3>3, <5>1
      <4>2. ~IsExpected(t, Token(q))
        <5>1. Token(q) = Letter("lower", q[1])
          BY <1>7, <2>4 DEF Token
        <5> QED BY <3>3, <5>1 DEF IsExpected, Letter
      <4>3. e # 0
        BY <1>4, <4>1
      <4>4. Located(u, q, e)
        BY <1>2, <1>4, <1>5, <2>3, <4>1, <4>2, <4>3 DEF Located
      <4> QED BY <1>3, <1>8, <4>4
    <3> QED BY <3>2, <3>3
  <2>5. CASE Len(q) # 1
    <3>1. q[1] = p[1]
      <4>1. Len(<<p[1] + 1>>) = 1
        OBVIOUS
      <4> QED BY <1>2, <1>11, <2>5, <4>1 DEF Follows
    <3>2. CASE IsExpected(t, Token(q))
      <4>1. t.expected \in RomanLetter /\ Token(q) = Letter("lower", t.expected)
            /\ (t.expected = p[1] + 1 => OfTop(p, q))
        BY <1>1, <1>2, <2>1, <2>5, <3>2, ExpectedIsRival
      <4>2. t.expected = p[1] + 1
        <5>1. \A x \in 1..26 : ~(x + 1 \in {9, 22, 24} /\ x + 2 \in {9, 22, 24})
          OBVIOUS
        <5> QED BY <2>1, <2>2, <4>1, <5>1 DEF RomanLetter
      <4>3. e = 2
        BY <1>4, <4>1, <4>2
      <4>4. u = [stack |-> <<Token(q)>>, expected |-> t.expected + 1]
        BY <1>8, <3>2 DEF Advanced
      <4>5. t.expected + 1 = p[1] + 2 /\ t.expected + 1 \in Nat
        <5>1. \A x \in 1..26 : x + 1 + 1 = x + 2 /\ x + 2 \in Nat
          OBVIOUS
        <5> QED BY <2>2, <4>2, <5>1
      <4>6. <<Token(q)>> \in Seq(Tokens) /\ <<Token(q)>> # <<>> /\ <<Token(q)>>[1] = Token(q)
        BY <1>6
      <4>7. u \in Trackers
        BY <4>4, <4>5, <4>6 DEF Trackers
      <4>8. Located(u, q, e)
        BY <1>2, <1>5, <3>1, <4>1, <4>2, <4>3, <4>4, <4>5, <4>6, <4>7 DEF Located
      <4> QED BY <1>3, <1>8, <4>8
    <3>3. CASE ~IsExpected(t, Token(q))
      <4>1. d # 0 => e # 0 /\ (e # 2 => d # 2)
        <5>1. \A x \in 0..2, y \in 0..2 : y >= x => (x # 0 => y # 0 /\ (y # 2 => x # 2))
          OBVIOUS
        <5> QED BY <1>1, <1>4, <2>5, <5>1
      <4>2. d = 2 => e = 2
        <5>1. \A x \in 0..2 : x >= 2 => x = 2
          OBVIOUS
        <5> QED BY <1>4, <2>5, <5>1
      <4>3. e = 0 => u.stack = TruePath(q)
        <5>1. e = 0 => d = 0 /\ ~Doubtful(p, q)
          BY <1>4, <4>1
        <5> QED BY <1>1, <1>2, <1>8, <2>1, <2>5, <3>3, <5>1, PathIsFollowed
      <4>4. e # 2 => u.stack[1] = Designator(1, q[1])
        BY <2>1, <2>3, <3>1, <3>3, <4>2
      <4>5. u.expected # q[1] + 1 => e = 2 /\ u.expected = q[1] + 2
                /\ u.stack[1] = Letter("lower", q[1] + 1) /\ q[1] + 1 \in RomanLetter
        BY <2>1, <2>3, <3>1, <3>3, <4>2
      <4>6. u \in Trackers /\ u.stack # <<>>
        BY <2>3, <3>3
      <4>7. Located(u, q, e)
        BY <1>2, <1>4, <1>5, <4>3, <4>4, <4>5, <4>6 DEF Located
      <4> QED BY <1>3, <1>8, <4>7
    <3> QED BY <3>2, <3>3
  <2> QED BY <2>4, <2>5
<1> QED BY <1>10, <1>11

\* A paragraph is read, be it introduced by none, one or two designators.
LEMMA ReadIsLocated ==
    ASSUME Tracked, NEW places \in Introduced, NEW length, ReadParagraph(places, length)
    PROVE  Tracked' /\ buf' = Chunked(stack', length)
<1> DEFINE N == Len(places)
           a == [tracker |-> [stack |-> stack, expected |-> expected], at |-> outline, doubt |-> doubt]
           G(r, q) == [tracker |-> Advanced(r.tracker, Token(q)), at |-> q,
                       doubt |-> DoubtAfter(r.doubt, r.at, q)]
           Sat(f) == f = [n \in 0..N |-> IF n = 0 THEN a ELSE G(f[n - 1], places[n])]
           read == CHOOSE f : Sat(f)
           Good(r) == Located(r.tracker, r.at, r.doubt)
<1>1. \/ N = 0
      \/ N = 1 /\ places[1] \in Places(outline) /\ Within(places[1])
      \/ /\ N = 2 /\ places[1] \in Places(outline) /\ Within(places[1])
         /\ places[2] \in Places(places[1]) /\ Within(places[2])
  <2>1. CASE places = <<>>
    BY <2>1
  <2>2. CASE \E q \in Places(outline) : Within(q) /\ places = <<q>>
    BY <2>2
  <2>3. ASSUME NEW q \in Places(outline), Within(q), Len(q) < Len(Widths), places = <<q, Append(q, 1)>>
        PROVE  Append(q, 1) \in Places(q) /\ Within(Append(q, 1))
    <3>1. IsPlace(q)
      BY <2>3, PlacesFollow DEF Tracked, Located
    <3>2. q \in Seq(1..26) /\ Len(q) \in Nat
      <4>1. q \in Seq(1..26)
        BY <3>1 DEF IsPlace
      <4> QED BY <4>1, LenProperties
    <3>3. Widths \in Seq(1..26) /\ Len(Widths) <= 6 /\ Len(Widths) \in Nat
      BY ParserAssumption, LenProperties
    <3>4. Append(q, 1) \in Places(q)
      BY <2>3, <3>2, <3>3 DEF Places, Children, Levels
    <3>5. Len(Append(q, 1)) = Len(q) + 1 /\ Append(q, 1)[Len(q) + 1] = 1
      <4>1. 1 \in 1..26
        OBVIOUS
      <4> QED BY <3>2, <4>1, AppendProperties
    <3>6. Len(q) + 1 \in 1..Len(Widths)
      BY <2>3, <3>2, <3>3
    <3>7. Widths[Len(q) + 1] \in 1..26
      BY <3>3, <3>6, ElementOfSeq
    <3> QED BY <3>4, <3>5, <3>6, <3>7 DEF Within
  <2>4. \/ places = <<>>
        \/ \E q \in Places(outline) : Within(q) /\ places = <<q>>
        \/ \E q \in Places(outline) : Within(q) /\ Len(q) < Len(Widths) /\ places = <<q, Append(q, 1)>>
    BY DEF Introduced
  <2>5. CASE \E q \in Places(outline) : Within(q) /\ Len(q) < Len(Widths) /\ places = <<q, Append(q, 1)>>
    <3>1. PICK q \in Places(outline) : Within(q) /\ Len(q) < Len(Widths) /\ places = <<q, Append(q, 1)>>
      BY <2>5
    <3>2. Append(q, 1) \in Places(q) /\ Within(Append(q, 1))
      BY <2>3, <3>1
    <3>3. Len(places) = 2 /\ places[1] = q /\ places[2] = Append(q, 1)
      BY <3>1
    <3> QED BY <3>1, <3>2, <3>3
  <2> QED BY <2>1, <2>2, <2>4, <2>5
<1>2. PICK b : b = G(a, places[1])
  OBVIOUS
<1>3. PICK c : c = G(b, places[2])
  OBVIOUS
<1> HIDE DEF G
<1>4. PICK g : g = [n \in 0..N |-> IF n = 0 THEN a ELSE IF n = 1 THEN b ELSE c]
  OBVIOUS
<1> HIDE DEF a
<1>5. Sat(g)
  <2>1. N \in {0, 1, 2}
    BY <1>1
  <2>2. g[0] = a /\ (N >= 1 => g[1] = b) /\ (N = 2 => g[2] = c)
    BY <1>4, <2>1
  <2>3. \A n \in 0..N : (IF n = 0 THEN a ELSE IF n = 1 THEN b ELSE c) = IF n = 0 THEN a ELSE G(g[n - 1], places[n])
    <3>1. ASSUME NEW n \in 0..N
          PROVE  (IF n = 0 THEN a ELSE IF n = 1 THEN b ELSE c) = IF n = 0 THEN a ELSE G(g[n - 1], places[n])
      <4>1. n = 0 \/ (n = 1 /\ N >= 1) \/ (n = 2 /\ N = 2)
        <5> HIDE DEF N
        <5> QED BY <2>1
      <4>2. CASE n = 0
        BY <4>2
      <4>3. CASE n = 1 /\ N >= 1
        <5>1. g[n - 1] = a
          BY <2>2, <4>3
        <5> QED BY <1>2, <4>3, <5>1
      <4>4. CASE n = 2 /\ N = 2
        <5>1. g[n - 1] = b
          BY <2>2, <4>4
        <5> QED BY <1>3, <4>4, <5>1
      <4> QED BY <4>1, <4>2, <4>3, <4>4
    <3> QED BY <3>1
  <2> QED BY <1>4, <2>3
<1>6. Sat(read)
  <2> HIDE DEF Sat
  <2> QED BY <1>5
<1>7. read[0] = a /\ (N >= 1 => read[1] = b) /\ (N = 2 => read[2] = c)
  <2>1. N \in {0, 1, 2}
    BY <1>1
  <2>2. PICK f : f = read
    OBVIOUS
  <2>3. f = [n \in 0..N |-> IF n = 0 THEN a ELSE G(f[n - 1], places[n])]
    BY <1>6, <2>2
  <2>4. f[0] = a
    BY <2>1, <2>3
  <2>5. N >= 1 => f[1] = b
    <3>1. N >= 1 => f[1] = G(f[0], places[1])
      BY <2>1, <2>3
    <3> QED BY <1>2, <2>4, <3>1
  <2>6. N = 2 => f[2] = c
    <3>1. N = 2 => f[2] = G(f[1], places[2])
      BY <2>1, <2>3
    <3> QED BY <1>3, <2>1, <2>5, <3>1
  <2> QED BY <2>2, <2>4, <2>5, <2>6
<1>8. \A r, q : Good(r) /\ q \in Places(r.at) /\ Within(q) => Good(G(r, q)) /\ G(r, q).at = q
  BY StaysLocated DEF G
<1>9. Good(a) /\ a.at = outline
  BY DEF a, Tracked
<1>10. Good(read[N])
  <2>1. CASE N = 0
    BY <1>7, <1>9, <2>1
  <2>2. CASE N = 1
    BY <1>1, <1>2, <1>7, <1>8, <1>9, <2>2
  <2>3. CASE N = 2
    BY <1>1, <1>2, <1>3, <1>7, <1>8, <1>9, <2>3
  <2> QED BY <1>1, <2>1, <2>2, <2>3
<1>11. PICK last : last = read[N]
  OBVIOUS
<1>12. /\ stack' = last.tracker.stack /\ expected' = last.tracker.expected
       /\ outline' = last.at /\ doubt' = last.doubt /\ buf' = Chunked(stack', length)
  BY <1>11 DEF ReadParagraph, G, a
<1>13. [stack |-> stack', expected |-> expected'] = last.tracker
  <2>1. last.tracker \in Trackers
    BY <1>10, <1>11 DEF Located
  <2> QED BY <1>12, <2>1 DEF Trackers
<1> QED BY <1>10, <1>11, <1>12, <1>13 DEF Tracked

\* What is read of it begins a chunk or goes on with it.
LEMMA ChunkGoesOn ==
    ASSUME Tracked', Chunkwise, NEW length \in Lengths, buf' = Chunked(stack', length)
    PROVE  Chunkwise'
<1>1. /\ stack' \in Seq(Tokens) /\ outline' \in Seq(1..26)
      /\ doubt' = 0 => stack' = TruePath(outline')
  <2>1. [stack |-> stack', expected |-> expected'] \in Trackers /\ IsPlace(outline')
        /\ (doubt' = 0 => stack' = TruePath(outline'))
    BY DEF Tracked, Located
  <2> QED BY <2>1 DEF Trackers, IsPlace
<1>2. length \in Nat /\ MaxChars \in Nat /\ TargetChars \in Nat
  BY ParserAssumption
<1>3. /\ buf \in [path : Seq(Tokens), len : Nat, text : Seq(Seq(1..26)), sure : BOOLEAN]
      /\ buf.text # <<>> /\ buf.sure => buf.path = TruePath(buf.text[1])
  BY DEF Chunkwise
<1>4. CASE buf.text = <<>> \/ IsFull(length)
  <2>1. buf' = [path |-> stack', len |-> length + 1, text |-> <<outline'>>, sure |-> doubt' = 0]
    BY <1>4 DEF Chunked, NewChunk
  <2>2. <<outline'>> \in Seq(Seq(1..26)) /\ <<outline'>> # <<>> /\ <<outline'>>[1] = outline' /\ Len(<<outline'>>) = 1
    BY <1>1
  <2>3. length + 1 \in Nat
    BY <1>2
  <2>4. buf'.sure \in BOOLEAN /\ (buf'.sure => doubt' = 0)
    <3>1. CASE doubt' = 0
      <4>1. (doubt' = 0) = TRUE
        BY <3>1
      <4>2. buf' = [path |-> stack', len |-> length + 1, text |-> <<outline'>>, sure |-> TRUE]
        BY <2>1, <4>1, Zenon
      <4> QED BY <3>1, <4>2
    <3>2. CASE doubt' # 0
      <4>1. (doubt' = 0) = FALSE
        BY <3>2
      <4>2. buf' = [path |-> stack', len |-> length + 1, text |-> <<outline'>>, sure |-> FALSE]
        BY <2>1, <4>1, Zenon
      <4> QED BY <4>2
    <3> QED BY <3>1, <3>2
  <2>5. /\ buf' \in [path : Seq(Tokens), len : Nat, text : Seq(Seq(1..26)), sure : BOOLEAN]
        /\ buf'.path = stack' /\ buf'.text = <<outline'>>
    BY <1>1, <2>1, <2>2, <2>3
  <2>6. buf'.sure => buf'.path = TruePath(buf'.text[1])
    BY <1>1, <2>2, <2>4, <2>5
  <2> QED BY <2>2, <2>5, <2>6 DEF Chunkwise
<1>5. CASE buf.text # <<>> /\ ~IsFull(length)
  <2>1. PICK text : text = Append(buf.text, outline')
    OBVIOUS
  <2>2. buf' = [buf EXCEPT !.len = @ + length + 1, !.text = text]
    BY <1>5, <2>1 DEF Chunked
  <2>3. buf.text \in Seq(Seq(1..26)) /\ Len(buf.text) \in Nat \ {0}
    BY <1>3, <1>5, EmptySeq
  <2>4. text \in Seq(Seq(1..26)) /\ text # <<>> /\ text[1] = buf.text[1]
    <3>1. text \in Seq(Seq(1..26)) /\ Len(text) = Len(buf.text) + 1 /\ \A i \in 1..Len(buf.text) : text[i] = buf.text[i]
      BY <1>1, <2>1, <2>3, AppendProperties
    <3>2. Len(text) # 0 /\ 1 \in 1..Len(buf.text)
      BY <2>3, <3>1
    <3> QED BY <3>1, <3>2, EmptySeq
  <2>5. buf.len \in Nat /\ buf.len + length + 1 \in Nat /\ ~((buf.len + length + 1) - 1 > MaxChars)
    BY <1>2, <1>3, <1>5 DEF IsFull
  <2>6. buf' \in [path : Seq(Tokens), len : Nat, text : Seq(Seq(1..26)), sure : BOOLEAN]
        /\ buf'.len = buf.len + length + 1 /\ buf'.text = text /\ buf'.path = buf.path /\ buf'.sure = buf.sure
    BY <1>3, <2>2, <2>4, <2>5
  <2>7. buf'.sure => buf'.path = TruePath(buf'.text[1])
    BY <1>3, <1>5, <2>4, <2>6
  <2>8. ~(buf'.len - 1 > MaxChars) /\ buf'.text # <<>>
    <3>1. buf'.text # <<>>
      BY <2>4, <2>6
    <3>2. buf'.len = buf.len + length + 1
      BY <2>6
    <3>3. ~(buf'.len - 1 > MaxChars)
      BY <2>5, <3>2, Zenon
    <3> QED BY <3>1, <3>3
  <2> QED BY <2>6, <2>7, <2>8 DEF Chunkwise
<1> QED BY <1>4, <1>5

\* A section begins.
LEMMA SectionBegins ==
    /\ ParserInit => Tracked /\ Chunkwise
    /\ EndSection => Tracked' /\ Chunkwise'
<1>1. <<>> \in Seq(Tokens) /\ <<>> \in Seq(1..26) /\ Len(<<>>) = 0 /\ <<>> \in Seq(Seq(1..26))
  OBVIOUS
<1>2. IsPlace(<<>>) /\ TruePath(<<>>) = <<>>
  <2>1. Len(Widths) \in Nat
    BY ParserAssumption, LenProperties
  <2>2. IsPlace(<<>>)
    BY <1>1, <2>1 DEF IsPlace, Levels
  <2>3. TruePath(<<>>) \in Seq(Tokens) /\ Len(TruePath(<<>>)) = 0
    BY <1>1, <2>2, PathIs
  <2> QED BY <2>2, <2>3, EmptySeq
<1>3. Located([stack |-> <<>>, expected |-> 1], <<>>, 0)
  BY <1>1, <1>2 DEF Located, Trackers
<1>4. NoChunk \in [path : Seq(Tokens), len : Nat, text : Seq(Seq(1..26)), sure : BOOLEAN]
      /\ NoChunk.text = <<>> /\ NoChunk.len = 0
  BY <1>1 DEF NoChunk
<1>5. ~(0 - 1 > MaxChars)
  BY ParserAssumption
<1>6. ParserInit => Tracked /\ Chunkwise
  BY <1>3, <1>4, <1>5 DEF ParserInit, Tracked, Chunkwise
<1>7. EndSection => Tracked' /\ Chunkwise'
  BY <1>3, <1>4, <1>5 DEF EndSection, Tracked, Chunkwise
<1> QED BY <1>6, <1>7

\* The paragraph just read has its path, and its chunk that of its first paragraph, wherever the
\* designators leave no doubt, and again after one (parse_part, _PathTracker, _chunk); for any
\* outline of up to six levels and 26 siblings, any lengths of paragraphs and limits of chunks.
THEOREM ChunksAreAlwaysCitable == ParserSpec => []ChunksAreCitable
<1>1. ParserInit => Tracked /\ Chunkwise
  BY SectionBegins
<1>2. Tracked /\ Chunkwise /\ [ParserNext]_parserVars => Tracked' /\ Chunkwise'
  <2> SUFFICES ASSUME Tracked, Chunkwise, [ParserNext]_parserVars PROVE Tracked' /\ Chunkwise'
    OBVIOUS
  <2>1. ASSUME NEW places \in Introduced, NEW length \in Lengths, ReadParagraph(places, length)
        PROVE  Tracked' /\ Chunkwise'
    <3>1. Tracked' /\ buf' = Chunked(stack', length)
      BY <2>1, ReadIsLocated
    <3> QED BY <3>1, ChunkGoesOn
  <2>2. CASE EndSection
    BY <2>2, SectionBegins
  <2>3. CASE UNCHANGED parserVars
    BY <2>3 DEF parserVars, Tracked, Chunkwise
  <2> QED BY <2>1, <2>2, <2>3 DEF ParserNext
<1>3. Tracked /\ Chunkwise => ChunksAreCitable
  BY DEF Tracked, Located, Chunkwise, ChunksAreCitable
<1> QED BY <1>1, <1>2, <1>3, PTL DEF ParserSpec

-----------------------------------------------------------------------------
(* Together.                                                               *)

\* Each of the parts behaves beside the others as it does alone, so that what is proved of them
\* holds of the corpus.
THEOREM FilesBehaveAlone == FilesSpec => Spec /\ CacheSpec /\ ParserSpec
<1>1. FilesInit => Init /\ CacheInit /\ ParserInit
  BY DEF FilesInit
<1>2. [FilesNext]_filesVars => [Next]_vars /\ [CacheNext]_cacheVars /\ [ParserNext]_parserVars
  BY DEF FilesNext, filesVars
<1> QED BY <1>1, <1>2, PTL DEF FilesSpec, Spec, CacheSpec, ParserSpec

=============================================================================
