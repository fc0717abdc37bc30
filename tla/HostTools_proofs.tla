--------------------------- MODULE HostTools_proofs ---------------------------
(***************************************************************************)
(* Proofs about the programs of the host library (HostTools), for any      *)
(* chunk size and any number of rows, files, notes, failed writes and      *)
(* options of the programs.                                                *)
(*                                                                         *)
(* First the trace store (TracePack) and what the programs hold when they  *)
(* end.  The states that a writer or a reader holds are described by the   *)
(* chain of descriptors behind their head; the chain is a witness, and is  *)
(* never computed.  Only the refinement of the checkpointed log follows    *)
(* it, file after file, by induction with a set of numbers.                *)
(*                                                                         *)
(* Then what the programs say of the board: that a result is the answer of *)
(* its own operation, a trace the one of its row, a verdict earned, a line *)
(* of the monitor what came.  What is on the line and which command it     *)
(* answers (LineSound, SessionSound) comes first; from it the acquisition, *)
(* the self-check, the run of operations, the capture program and the      *)
(* monitor, each with an invariant of its own, together HostSound.         *)
(* Recursive definitions are unfolded, and facts about lists proved by     *)
(* induction, with sets of numbers and of lists.                           *)
(***************************************************************************)
EXTENDS HostTools, SequenceTheorems, FiniteSetTheorems, FunctionTheorems, TLAPS

\* Where the j-th link of a chain ends.
EndOf(c, j) == IF j = 0 THEN 0 ELSE c[j].start + c[j].count

\* The rows of a link are the ones after its start, and its file holds them and names
\* the link before it.
LinkInPlace(c, j, files) ==
  /\ c[j].file \in j .. Len(files)
  /\ c[j].start = EndOf(c, j - 1)
  /\ files[c[j].file] = [rows |-> c[j].sha, prev |-> IF j = 1 THEN None ELSE c[j - 1]]
  /\ Len(c[j].sha) = c[j].count
  /\ \A k \in 1 .. c[j].count : c[j].sha[k] = c[j].start + k

\* The links cover the committed rows, each once.
Covers(c, n) ==
  /\ \A i, j \in 1 .. Len(c) : i < j => EndOf(c, i) <= c[j].start
  /\ \A j \in 1 .. Len(c) : EndOf(c, j) <= n
  /\ \A r \in 1 .. n : \E j \in 1 .. Len(c) : c[j].start < r /\ r <= EndOf(c, j)

\* The chain of descriptors behind the head of a state.
Path(c, st, files) ==
  /\ Len(c) = st.files
  /\ st.committed = EndOf(c, Len(c))
  /\ st.head = IF c = <<>> THEN None ELSE c[Len(c)]
  /\ st.expected = Cardinality(Expected \cap 1 .. st.committed)
  /\ \A j \in 1 .. Len(c) : LinkInPlace(c, j, files)
  /\ Covers(c, st.committed)

Sound(st, files) == \E c \in Seq(Descriptor) : Path(c, st, files)

\* What the writer has in its hands at each of its steps.
WriterCounts ==
  /\ state.committed + Len(buffer) = accepted
  /\ \A k \in 1 .. Len(buffer) : buffer[k] = state.committed + k
  /\ pc = "idle" /\ Len(buffer) >= ChunkRows => outcome = "raised"
  /\ pc = "chunk" => buffer # <<>>
  /\ pc \in {"manifest", "swap"} => new.committed = accepted
  /\ pc \in {"swap", "keep"}
     => manifest # None /\ manifest.rows.committed = accepted /\ manifest.notes = notes
  /\ pc = "keep" => state.committed = accepted
  /\ manifest # None => manifest.rows.committed <= accepted /\ manifest.notes <= notes
  /\ last # None => /\ manifest # None /\ last[1] <= manifest.rows.committed
                    /\ last[2] <= manifest.notes /\ last[1] <= state.committed

SoundStates ==
  /\ Sound(state, chunks)
  /\ pc \in {"manifest", "swap"} => Sound(new, chunks)
  /\ manifest # None => Sound(manifest.rows, chunks)

\* How far a reader is: it has the links after the first m, or has returned their rows.
ReadUpTo(c, m) ==
  /\ Path(c, frozen, chunks)
  /\ m \in 0 .. Len(c) /\ Len(chain) = Len(c) - m
  /\ \A j \in 1 .. Len(chain) : chain[j] = c[m + j]
  /\ rpc = "walk" => /\ pred = IF m = 0 THEN None ELSE c[m]
                     /\ cursor = EndOf(c, m)
  /\ rpc = "rows" => /\ Len(result) = EndOf(c, m)
                     /\ \A k \in 1 .. Len(result) : result[k] = k

ReadsSoundly ==
  /\ rpc \in {"idle", "walk"} => result = <<>>
  /\ rpc \in {"walk", "rows"} => \E c \in Seq(Descriptor), m \in Nat : ReadUpTo(c, m)
  /\ ReaderNeverRefuses /\ ReaderSeesCheckpoint

SInv ==
  /\ TypeOK /\ WriterCounts /\ SoundStates /\ ReadsSoundly
  /\ FlushedMeansSaved /\ BufferBounded

\* What the assumptions say of the bounds.
LEMMA Bounds ==
  /\ ChunkRows \in Nat /\ ChunkRows > 0 /\ Expected \subseteq 1 .. MaxRows
  /\ MaxRows \in Nat /\ MaxFiles \in Nat /\ MaxNotes \in Nat /\ MaxFaults \in Nat
  BY ChunkRowsAssumption, ExpectedAssumption, BoundAssumption

-----------------------------------------------------------------------------
(* How many rows are expected.                                             *)

\* There are at most n expected rows among the first n.
LEMMA ExpectedUpTo ==
  ASSUME NEW n \in 0 .. MaxRows
  PROVE  /\ IsFiniteSet(Expected \cap 1 .. n)
         /\ Cardinality(Expected \cap 1 .. n) \in 0 .. n
  <1>1. IsFiniteSet(1 .. n) /\ Cardinality(1 .. n) = n
    BY Bounds, FS_Interval
  <1>2. Expected \cap 1 .. n \in SUBSET (1 .. n)
    OBVIOUS
  <1>3. IsFiniteSet(Expected \cap 1 .. n) /\ Cardinality(Expected \cap 1 .. n) <= n
    BY <1>1, <1>2, FS_Subset
  <1>4. QED
    BY <1>3, FS_CardinalityType

\* A chunk of consecutive rows adds the expected ones among them.
LEMMA ExpectedAdds ==
  ASSUME NEW n \in Nat, NEW added \in Seq(1 .. MaxRows), n + Len(added) <= MaxRows,
         \A k \in 1 .. Len(added) : added[k] = n + k
  PROVE  Cardinality(Expected \cap 1 .. n) + ExpectedIn(added)
           = Cardinality(Expected \cap 1 .. n + Len(added))
  <1> DEFINE L == Expected \cap 1 .. n
             H == Expected \cap n + 1 .. n + Len(added)
             K == {k \in DOMAIN added : added[k] \in Expected}
             f == [k \in K |-> n + k]
  <1>1. Len(added) \in Nat /\ DOMAIN added = 1 .. Len(added)
    OBVIOUS
  <1>2. n \in 0 .. MaxRows /\ n + Len(added) \in 0 .. MaxRows
    BY <1>1, Bounds
  <1>3. IsFiniteSet(L) /\ Cardinality(L) \in Nat
    BY <1>2, ExpectedUpTo
  <1>4. IsFiniteSet(K) /\ Cardinality(K) \in Nat
    <2>1. IsFiniteSet(1 .. Len(added))
      BY <1>1, FS_Interval
    <2>2. K \in SUBSET (1 .. Len(added))
      BY <1>1
    <2>3. QED
      BY <2>1, <2>2, FS_Subset, FS_CardinalityType
  <1>5. f \in Bijection(K, H)
    <2>1. \A k \in K : k \in 1 .. Len(added) /\ n + k \in H
      BY <1>1
    <2>2. \A h \in H : h - n \in K /\ n + (h - n) = h
      BY <1>1
    <2>3. f \in [K -> H] /\ \A k \in K : f[k] = n + k
      BY <2>1
    <2>4. f \in Injection(K, H)
      BY <1>1, <2>1, <2>3, Fun_IsInj
    <2>5. f \in Surjection(K, H)
      BY <2>2, <2>3, Fun_IsSurj
    <2>6. QED
      BY <2>4, <2>5 DEF Bijection
  <1>6. IsFiniteSet(H) /\ Cardinality(H) = Cardinality(K)
    BY <1>4, <1>5, FS_Bijection DEF ExistsBijection
  <1>7. L \cap H = {} /\ L \cup H = Expected \cap 1 .. n + Len(added)
    BY <1>1, <1>2
  <1>8. Cardinality(L \cup H) = Cardinality(L) + Cardinality(H)
    <2>1. Cardinality(L \cap H) = 0
      BY <1>7, FS_EmptySet
    <2> HIDE DEF L, H, K
    <2>2. Cardinality(L \cup H) = Cardinality(L) + Cardinality(H) - Cardinality(L \cap H)
      BY <1>3, <1>6, FS_Union
    <2>3. QED
      BY <1>3, <1>4, <1>6, <2>1, <2>2
  <1>9. QED
    BY <1>3, <1>4, <1>6, <1>7, <1>8 DEF ExpectedIn

-----------------------------------------------------------------------------
(* Chains.                                                                 *)

\* The files only grow: a chain stays in place when a chunk file is written.
LEMMA PathStays ==
  ASSUME NEW files \in Seq(Chunk), NEW chunk \in Chunk, NEW c \in Seq(Descriptor), NEW st,
         Path(c, st, files)
  PROVE  Path(c, st, Append(files, chunk))
  <1> DEFINE more == Append(files, chunk)
  <1>1. /\ more \in Seq(Chunk) /\ Len(more) = Len(files) + 1 /\ Len(files) \in Nat
        /\ \A k \in 1 .. Len(files) : more[k] = files[k]
    OBVIOUS
  <1> HIDE DEF more
  <1>2. ASSUME NEW j \in 1 .. Len(c) PROVE LinkInPlace(c, j, more)
    <2>1. LinkInPlace(c, j, files)
      BY DEF Path
    <2>2. c[j].file \in j .. Len(files) /\ c[j].file \in j .. Len(more)
      BY <1>1, <2>1 DEF LinkInPlace
    <2>3. c[j].file \in 1 .. Len(files)
      BY <2>2, <1>1
    <2>4. more[c[j].file] = files[c[j].file]
      BY <1>1, <2>3
    <2>5. QED
      BY <2>1, <2>2, <2>4 DEF LinkInPlace
  <1>3. QED
    BY <1>2 DEF Path, more

\* A state stays sound when a chunk file is written.
LEMMA SoundStays ==
  ASSUME NEW files \in Seq(Chunk), NEW chunk \in Chunk, NEW st, Sound(st, files)
  PROVE  Sound(st, Append(files, chunk))
  BY PathStays DEF Sound

\* Nothing is committed yet.
LEMMA EmptySound == ASSUME NEW files PROVE Sound(Empty, files)
  <1>1. <<>> \in Seq(Descriptor) /\ Len(<<>>) = 0
    OBVIOUS
  <1>2. Cardinality(Expected \cap 1 .. 0) = 0
    BY FS_EmptySet
  <1>3. Path(<<>>, Empty, files)
    BY <1>1, <1>2 DEF Path, Empty, EndOf, Covers
  <1>4. QED
    BY <1>1, <1>3 DEF Sound

\* What is in a chain.
LEMMA PathFacts ==
  ASSUME NEW files \in Seq(Chunk), NEW st \in State, NEW c \in Seq(Descriptor), Path(c, st, files)
  PROVE  /\ Len(c) \in Nat /\ Len(c) = st.files /\ st.committed \in 0 .. MaxRows
         /\ \A j \in 1 .. Len(c) :
              /\ c[j] \in Descriptor /\ c[j].start \in Nat /\ c[j].count \in Nat /\ c[j].count > 0
              /\ c[j].file \in 1 .. Len(files) /\ c[j].file >= j
              /\ EndOf(c, j) = c[j].start + c[j].count /\ c[j].sha \in Seq(1 .. MaxRows)
         /\ \A j \in 0 .. Len(c) : EndOf(c, j) \in 0 .. st.committed
  <1>1. Len(c) \in Nat /\ Len(c) = st.files /\ st.committed \in 0 .. MaxRows
    BY DEF Path, State
  <1>2. ASSUME NEW j \in 1 .. Len(c)
        PROVE  /\ c[j] \in Descriptor /\ c[j].start \in Nat /\ c[j].count \in Nat /\ c[j].count > 0
               /\ c[j].file \in 1 .. Len(files) /\ c[j].file >= j
               /\ EndOf(c, j) = c[j].start + c[j].count /\ c[j].sha \in Seq(1 .. MaxRows)
               /\ EndOf(c, j) \in 0 .. st.committed
    <2>1. c[j] \in Descriptor
      BY <1>1
    <2>2. /\ c[j].start \in Nat /\ c[j].count \in Nat /\ c[j].count > 0
          /\ c[j].sha \in Seq(1 .. MaxRows)
      BY <2>1, Bounds DEF Descriptor
    <2>3. c[j].file \in j .. Len(files) /\ Len(files) \in Nat
      <3>1. LinkInPlace(c, j, files)
        BY DEF Path
      <3>2. QED
        BY <3>1 DEF LinkInPlace
    <2>4. EndOf(c, j) = c[j].start + c[j].count /\ EndOf(c, j) <= st.committed
      BY <1>1 DEF Path, Covers, EndOf
    <2>5. QED
      BY <1>1, <2>1, <2>2, <2>3, <2>4
  <1>3. EndOf(c, 0) \in 0 .. st.committed
    BY <1>1 DEF EndOf
  <1>4. \A j \in 0 .. Len(c) : j = 0 \/ j \in 1 .. Len(c)
    BY <1>1
  <1>5. QED
    BY <1>1, <1>2, <1>3, <1>4

\* A chain has no more links than there are files.
LEMMA PathFits ==
  ASSUME NEW files \in Seq(Chunk), NEW st \in State, NEW c \in Seq(Descriptor), Path(c, st, files)
  PROVE  Len(c) <= Len(files)
  BY PathFacts

\* A flush adds one link.
LEMMA PathGrows ==
  ASSUME NEW files \in Seq(Chunk), NEW st \in State, NEW c \in Seq(Descriptor),
         Path(c, st, files), NEW added \in Seq(1 .. MaxRows), added # <<>>,
         st.committed + Len(added) <= MaxRows, Len(files) < MaxFiles,
         \A k \in 1 .. Len(added) : added[k] = st.committed + k
  PROVE  LET chunk == [rows |-> added, prev |-> st.head]
             newest == [file |-> Len(files) + 1, start |-> st.committed, count |-> Len(added),
                        sha |-> added]
             next == [committed |-> st.committed + Len(added), head |-> newest,
                      files |-> st.files + 1, expected |-> st.expected + ExpectedIn(added)]
         IN  /\ chunk \in Chunk /\ newest \in Descriptor /\ next \in State
             /\ Path(Append(c, newest), next, Append(files, chunk))
  <1> DEFINE chunk == [rows |-> added, prev |-> st.head]
             newest == [file |-> Len(files) + 1, start |-> st.committed, count |-> Len(added),
                        sha |-> added]
             total == st.committed + Len(added)
             next == [committed |-> total, head |-> newest, files |-> st.files + 1,
                      expected |-> st.expected + ExpectedIn(added)]
             d == Append(c, newest)
             more == Append(files, chunk)
  <1>1. /\ Len(c) \in Nat /\ Len(c) = st.files /\ st.committed \in 0 .. MaxRows
        /\ \A j \in 1 .. Len(c) :
             /\ c[j] \in Descriptor /\ c[j].start \in Nat /\ c[j].count \in Nat /\ c[j].count > 0
             /\ c[j].file \in 1 .. Len(files) /\ c[j].file >= j
             /\ EndOf(c, j) = c[j].start + c[j].count /\ c[j].sha \in Seq(1 .. MaxRows)
        /\ \A j \in 0 .. Len(c) : EndOf(c, j) \in 0 .. st.committed
    BY PathFacts
  <1>2. Len(added) \in Nat /\ Len(added) > 0 /\ total \in 0 .. MaxRows /\ Len(files) \in Nat
    BY <1>1, Bounds
  <1>3. chunk \in Chunk
    BY DEF Chunk, State
  <1>4. newest \in Descriptor
    BY <1>2, Bounds, <1>1 DEF Files, Descriptor
  <1>5. st.expected + ExpectedIn(added) = Cardinality(Expected \cap 1 .. total)
    BY <1>1, ExpectedAdds DEF Path
  <1>6. next \in State
    <2>1. Cardinality(Expected \cap 1 .. total) \in 0 .. total
      BY <1>2, ExpectedUpTo
    <2>2. Len(c) <= Len(files)
      BY PathFits
    <2>3. st.files + 1 \in 0 .. MaxFiles
      BY <1>1, <1>2, <2>2, Bounds
    <2>4. QED
      BY <1>2, <1>4, <1>5, <2>1, <2>3, Bounds DEF State, Link
  <1>7. /\ d \in Seq(Descriptor) /\ Len(d) = Len(c) + 1 /\ d[Len(c) + 1] = newest
        /\ \A j \in 1 .. Len(c) : d[j] = c[j]
    <2> HIDE DEF newest
    <2>1. QED
      BY <1>1, <1>4
  <1>8. /\ more \in Seq(Chunk) /\ Len(more) = Len(files) + 1 /\ more[Len(files) + 1] = chunk
        /\ \A k \in 1 .. Len(files) : more[k] = files[k]
    <2> HIDE DEF chunk
    <2>1. QED
      BY <1>2, <1>3
  <1>9. \A j \in 0 .. Len(c) : EndOf(d, j) = EndOf(c, j)
    <2>1. \A j \in 0 .. Len(c) : j = 0 \/ j \in 1 .. Len(c)
      BY <1>1
    <2> HIDE DEF d
    <2>2. QED
      BY <1>7, <2>1 DEF EndOf
  <1>10. st.committed = EndOf(c, Len(c))
    BY DEF Path
  <1>11. EndOf(d, Len(c) + 1) = total
    <2>1. newest.start = st.committed /\ newest.count = Len(added)
      OBVIOUS
    <2> HIDE DEF d, newest
    <2>2. QED
      BY <1>1, <1>7, <2>1 DEF EndOf
  <1> HIDE DEF d, more
  <1>12. ASSUME NEW j \in 1 .. Len(d) PROVE LinkInPlace(d, j, more)
    <2>1. CASE j \in 1 .. Len(c)
      <3>1. LinkInPlace(c, j, files)
        BY <2>1 DEF Path
      <3>2. d[j] = c[j] /\ (j # 1 => d[j - 1] = c[j - 1]) /\ EndOf(d, j - 1) = EndOf(c, j - 1)
        BY <1>1, <1>7, <1>9, <2>1
      <3>3. c[j].file \in j .. Len(more) /\ more[c[j].file] = files[c[j].file]
        BY <1>1, <1>2, <1>8, <2>1
      <3>4. QED
        BY <3>1, <3>2, <3>3 DEF LinkInPlace
    <2>2. CASE j = Len(c) + 1
      <3>1. d[j] = newest /\ more[Len(files) + 1] = chunk
        BY <1>7, <1>8, <2>2
      <3>2. newest.file \in j .. Len(more)
        BY PathFits, <1>1, <1>2, <1>8, <2>2
      <3>3. newest.start = EndOf(d, j - 1)
        BY <1>1, <1>9, <1>10, <2>2
      <3>4. st.head = IF j = 1 THEN None ELSE d[j - 1]
        <4>1. st.head = IF c = <<>> THEN None ELSE c[Len(c)]
          BY DEF Path
        <4>2. CASE Len(c) = 0
          BY <2>2, <4>2, <4>1
        <4>3. CASE Len(c) # 0
          <5>1. c # <<>> /\ j # 1 /\ j - 1 \in 1 .. Len(c) /\ j - 1 = Len(c)
            BY <1>1, <2>2, <4>3
          <5>2. d[j - 1] = c[Len(c)]
            BY <1>7, <5>1
          <5>3. QED
            BY <4>1, <5>1, <5>2
        <4>4. QED
          BY <4>2, <4>3
      <3>5. chunk = [rows |-> newest.sha, prev |-> IF j = 1 THEN None ELSE d[j - 1]]
        BY <3>4
      <3>6. Len(newest.sha) = newest.count
            /\ \A k \in 1 .. newest.count : newest.sha[k] = newest.start + k
        OBVIOUS
      <3>7. more[newest.file] = chunk
        BY <3>1
      <3> HIDE DEF newest, chunk
      <3>8. QED
        BY <3>1, <3>2, <3>3, <3>5, <3>6, <3>7 DEF LinkInPlace
    <2>3. QED
      BY <1>1, <1>7, <2>1, <2>2
  <1>13. Covers(d, total)
    <2>1. ASSUME NEW i \in 1 .. Len(d), NEW j \in 1 .. Len(d), i < j
          PROVE  EndOf(d, i) <= d[j].start
      <3>1. i \in 1 .. Len(c) /\ EndOf(d, i) = EndOf(c, i)
        BY <1>1, <1>7, <1>9, <2>1
      <3>2. CASE j \in 1 .. Len(c)
        BY <1>7, <2>1, <3>1, <3>2 DEF Path, Covers
      <3>3. CASE j = Len(c) + 1
        BY <1>7, <3>3, <1>1, <3>1
      <3>4. QED
        BY <1>1, <1>7, <3>2, <3>3
    <2>2. ASSUME NEW j \in 1 .. Len(d) PROVE EndOf(d, j) <= total
      <3>1. CASE j \in 1 .. Len(c)
        BY <1>1, <1>9, <3>1, <1>2
      <3>2. CASE j = Len(c) + 1
        BY <1>2, <1>11, <3>2
      <3>3. QED
        BY <1>1, <1>7, <3>1, <3>2
    <2>3. ASSUME NEW r \in 1 .. total
          PROVE  \E j \in 1 .. Len(d) : d[j].start < r /\ r <= EndOf(d, j)
      <3>1. CASE r <= st.committed
        <4>1. r \in 1 .. st.committed
          BY <1>1, <3>1
        <4>2. PICK j \in 1 .. Len(c) : c[j].start < r /\ r <= EndOf(c, j)
          BY <4>1 DEF Path, Covers
        <4>3. j \in 1 .. Len(d) /\ d[j] = c[j] /\ EndOf(d, j) = EndOf(c, j)
          BY <1>1, <1>7, <1>9
        <4>4. QED
          BY <4>2, <4>3
      <3>2. CASE r > st.committed
        BY SMTT(30), <1>1, <1>7, <1>11, <3>2
      <3>3. r \in Int /\ st.committed \in Int
        BY <1>1, <1>2, Bounds
      <3>4. QED
        BY <3>1, <3>2, <3>3
    <2>4. QED
      BY <2>1, <2>2, <2>3 DEF Covers
  <1>14. Path(d, next, more)
    <2>1. d # <<>> /\ d[Len(d)] = newest
      BY <1>1, <1>7
    <2>2. /\ next.files = Len(d) /\ next.committed = EndOf(d, Len(d)) /\ next.head = newest
          /\ next.expected = Cardinality(Expected \cap 1 .. next.committed)
          /\ next.committed = total
      BY <1>1, <1>5, <1>7, <1>11
    <2> HIDE DEF next, newest, total
    <2>3. QED
      BY <1>12, <1>13, <2>1, <2>2 DEF Path
  <1>15. QED
    BY <1>3, <1>4, <1>6, <1>14 DEF d, more

-----------------------------------------------------------------------------
(* The writer.                                                             *)

\* The reader's part stands while the writer at most adds a chunk file.
LEMMA ReaderUndisturbed ==
  ASSUME SInv, UNCHANGED reader,
         chunks' = chunks \/ \E chunk \in Chunk : chunks' = Append(chunks, chunk)
  PROVE  ReadsSoundly'
  <1> USE DEF reader
  <1>1. ASSUME NEW c \in Seq(Descriptor), Path(c, frozen, chunks)
        PROVE  Path(c, frozen', chunks')
    BY <1>1, PathStays DEF SInv, TypeOK
  <1>2. ASSUME rpc \in {"walk", "rows"}
        PROVE  (\E c \in Seq(Descriptor), m \in Nat : ReadUpTo(c, m))'
    <2>1. PICK c \in Seq(Descriptor), m \in Nat : ReadUpTo(c, m)
      BY <1>2 DEF SInv, ReadsSoundly
    <2>2. Path(c, frozen', chunks')
      BY <1>1, <2>1 DEF ReadUpTo
    <2>3. ReadUpTo(c, m)'
      BY <2>1, <2>2 DEF ReadUpTo
    <2>4. QED
      BY <2>3
  <1>3. QED
    BY <1>2 DEF SInv, ReadsSoundly, ReaderNeverRefuses, ReaderSeesCheckpoint

\* The parts that the writer's steps concern.
WriterSound == TypeOK /\ WriterCounts /\ SoundStates /\ FlushedMeansSaved /\ BufferBounded

\* The types of what the writer counts.
LEMMA WriterTypes ==
  ASSUME SInv
  PROVE  /\ accepted \in Nat /\ accepted <= MaxRows /\ notes \in Nat /\ Len(buffer) \in Nat
         /\ state.committed \in Nat /\ new.committed \in Nat
         /\ manifest # None
            => manifest.rows \in State /\ manifest.rows.committed \in Nat /\ manifest.notes \in Nat
         /\ last # None => last[1] \in Nat /\ last[2] \in Nat
  BY SMTT(30), Bounds DEF SInv, TypeOK, State

\* append: the row is the next of the buffer, and a full buffer is flushed at once.
LEMMA AppendRowStep == ASSUME SInv, AppendRow PROVE WriterSound'
  <1>1. /\ accepted' = accepted + 1 /\ accepted < MaxRows /\ pc = "idle"
        /\ buffer' = Append(buffer, accepted + 1)
        /\ UNCHANGED <<state, notes, last, chunks, manifest, new, faults, reader>>
    BY DEF AppendRow
  <1>2. /\ accepted \in Nat /\ Len(buffer) \in Nat /\ state.committed \in Nat
        /\ manifest # None => manifest.rows.committed \in Nat /\ manifest.notes \in Nat
    BY WriterTypes
  <1>3. /\ buffer' \in Seq(1 .. MaxRows) /\ Len(buffer') = Len(buffer) + 1
        /\ \A k \in 1 .. Len(buffer) : buffer'[k] = buffer[k]
        /\ buffer'[Len(buffer) + 1] = accepted + 1
    BY <1>1, <1>2, Bounds DEF SInv, TypeOK
  <1>4. pc' = IF Len(buffer') >= ChunkRows THEN "flush" ELSE "idle"
    BY DEF AppendRow, Full
  <1>5. outcome' = IF outcome = "raised" THEN "raised" ELSE "open"
    BY DEF AppendRow, Reopened
  <1>6. TypeOK'
    BY <1>1, <1>2, <1>3, <1>4, <1>5, Bounds DEF SInv, TypeOK, reader
  <1>7. WriterCounts'
    <2>1. state.committed + Len(buffer) = accepted
      BY DEF SInv, WriterCounts
    <2>2. \A k \in 1 .. Len(buffer') : buffer'[k] = state'.committed + k
      BY <1>2, <1>3, <1>1, <2>1 DEF SInv, WriterCounts
    <2>3. pc' = "idle" => ~ (Len(buffer') >= ChunkRows)
      BY <1>4
    <2>4. pc' \in {"flush", "idle"} /\ state'.committed + Len(buffer') = accepted'
      BY <1>1, <1>2, <1>3, <1>4, <2>1
    <2>5. /\ manifest' # None => manifest'.rows.committed <= accepted' /\ manifest'.notes <= notes'
          /\ last' # None => /\ manifest' # None /\ last'[1] <= manifest'.rows.committed
                             /\ last'[2] <= manifest'.notes /\ last'[1] <= state'.committed
      BY <1>1, <1>2 DEF SInv, WriterCounts
    <2>6. QED
      BY <2>2, <2>3, <2>4, <2>5 DEF WriterCounts
  <1>8. SoundStates'
    BY <1>1, <1>4 DEF SInv, SoundStates
  <1>9. FlushedMeansSaved'
    BY <1>5 DEF FlushedMeansSaved
  <1>10. BufferBounded'
    BY <1>2, <1>3, Bounds, <1>1, <1>5 DEF SInv, WriterCounts, BufferBounded
  <1>11. QED
    BY <1>6, <1>7, <1>8, <1>9, <1>10 DEF WriterSound

\* record_failure: the fingerprint no longer matches.
LEMMA RecordFailureStep == ASSUME SInv, RecordFailure PROVE WriterSound'
  BY SMTT(30), WriterTypes, Bounds
     DEF RecordFailure, Reopened, SInv, TypeOK, reader, WriterCounts, SoundStates,
         FlushedMeansSaved, BufferBounded, WriterSound

\* A flush begins.
LEMMA CallFlushStep == ASSUME SInv, CallFlush PROVE WriterSound'
  <1> USE DEF CallFlush
  <1>1. TypeOK'
    BY DEF SInv, TypeOK, reader
  <1>2. WriterCounts'
    BY DEF SInv, WriterCounts
  <1>3. SoundStates' /\ FlushedMeansSaved' /\ BufferBounded'
    BY DEF SInv, SoundStates, FlushedMeansSaved, BufferBounded
  <1>4. QED
    BY <1>1, <1>2, <1>3 DEF WriterSound

\* A flush that has nothing to do finds everything saved.
LEMMA NothingToDo ==
  ASSUME SInv, Unchanged
  PROVE  /\ manifest # None /\ manifest.rows.committed = accepted /\ manifest.notes = notes
         /\ Len(buffer) = 0
  BY WriterTypes, NoneAssumption DEF Unchanged, Fingerprint, SInv, WriterCounts

\* A flush returns at once only when everything is saved.
LEMMA FlushStep == ASSUME SInv, Flush PROVE WriterSound'
  BY NothingToDo, Bounds, WriterTypes
     DEF Flush, SInv, TypeOK, reader, WriterCounts, SoundStates, FlushedMeansSaved,
         BufferBounded, WriterSound

\* The chunk adds one link to the chain of the state that the flush prepares.
LEMMA WriteChunkStep ==
  ASSUME SInv, WriteChunk
  PROVE  WriterSound' /\ \E chunk \in Chunk : chunks' = Append(chunks, chunk)
  <1> DEFINE chunk == [rows |-> buffer, prev |-> state.head]
             newest == [file |-> Len(chunks) + 1, start |-> state.committed, count |-> Len(buffer),
                        sha |-> buffer]
             next == [committed |-> state.committed + Len(buffer), head |-> newest,
                      files |-> state.files + 1,
                      expected |-> state.expected + ExpectedIn(buffer)]
  <1>1. /\ chunks \in Seq(Chunk) /\ state \in State /\ buffer \in Seq(1 .. MaxRows)
        /\ Len(chunks) \in Nat /\ Len(buffer) \in Nat
    BY DEF SInv, TypeOK
  <1>2. /\ pc = "chunk" /\ pc' = "manifest" /\ Len(chunks) < MaxFiles
        /\ chunks' = Append(chunks, chunk)
        /\ UNCHANGED <<accepted, buffer, state, notes, last, manifest, outcome, faults, reader>>
    BY DEF WriteChunk
  <1>3. Len(chunks') = Len(chunks) + 1
    <2> HIDE DEF chunk
    <2>1. QED
      BY <1>1, <1>2
  <1>4. new' = next
    BY <1>3 DEF WriteChunk, RowsCovered
  <1>5. /\ state.committed + Len(buffer) = accepted /\ buffer # <<>>
        /\ \A k \in 1 .. Len(buffer) : buffer[k] = state.committed + k
    BY <1>2 DEF SInv, WriterCounts
  <1>6. PICK c \in Seq(Descriptor) : Path(c, state, chunks)
    BY DEF SInv, SoundStates, Sound
  <1>7. /\ chunk \in Chunk /\ newest \in Descriptor /\ next \in State
        /\ Path(Append(c, newest), next, Append(chunks, chunk))
    BY <1>5, WriterTypes, <1>1, <1>2, <1>6, PathGrows
  <1>8. next.committed = accepted
    BY <1>5
  <1> HIDE DEF chunk, newest, next
  <1>9. Append(c, newest) \in Seq(Descriptor)
    BY <1>6, <1>7
  <1>10. Sound(new', chunks')
    BY <1>2, <1>4, <1>7, <1>9 DEF Sound
  <1>11. /\ Sound(state, chunks') /\ (manifest # None => Sound(manifest.rows, chunks'))
    BY <1>1, <1>2, <1>7, SoundStays DEF SInv, SoundStates
  <1>12. TypeOK'
    BY <1>1, <1>2, <1>3, <1>7, Bounds, <1>4 DEF SInv, TypeOK, reader
  <1>13. WriterCounts'
    BY <1>2, <1>4, <1>8 DEF SInv, WriterCounts
  <1>14. SoundStates'
    BY <1>2, <1>10, <1>11 DEF SoundStates
  <1>15. FlushedMeansSaved' /\ BufferBounded'
    BY <1>2 DEF SInv, FlushedMeansSaved, BufferBounded
  <1>16. QED
    BY <1>2, <1>7, <1>12, <1>13, <1>14, <1>15 DEF WriterSound

\* The manifest publishes a sound state that covers every accepted row.
LEMMA WriteManifestStep == ASSUME SInv, WriteManifest PROVE WriterSound'
  BY SMTT(30), NoneAssumption, WriterTypes
     DEF WriteManifest, SInv, TypeOK, WriterCounts, SoundStates, reader, FlushedMeansSaved,
         BufferBounded, WriterSound

\* The swap releases exactly the rows that the manifest covers.
LEMMA SwapStateStep == ASSUME SInv, SwapState PROVE WriterSound'
  BY SMTT(30), WriterTypes, Bounds
     DEF SwapState, SInv, WriterCounts, SoundStates, TypeOK, reader, FlushedMeansSaved,
         BufferBounded, WriterSound

\* The fingerprint kept is the one of what the manifest covers.
LEMMA KeepFingerprintStep == ASSUME SInv, KeepFingerprint PROVE WriterSound'
  BY SMTT(30), WriterTypes, Bounds
     DEF KeepFingerprint, Fingerprint, SInv, WriterCounts, TypeOK, reader, SoundStates,
         FlushedMeansSaved, BufferBounded, WriterSound

\* An exception leaves everything in place for the next flush.
LEMMA FlushRaisesStep == ASSUME SInv, FlushRaises PROVE WriterSound'
  <1> USE DEF FlushRaises, ChunksAfterFault
  <1>1. TypeOK'
    BY Bounds DEF SInv, TypeOK, reader
  <1>2. WriterCounts'
    BY DEF SInv, WriterCounts
  <1>3. SoundStates' /\ FlushedMeansSaved' /\ BufferBounded'
    BY DEF SInv, SoundStates, FlushedMeansSaved, BufferBounded
  <1>4. QED
    BY <1>1, <1>2, <1>3 DEF WriterSound

\* A dead process changes no file.
LEMMA DieStep == ASSUME SInv, Die PROVE WriterSound'
  <1> USE DEF Die
  <1>1. TypeOK'
    BY DEF SInv, TypeOK, reader
  <1>2. WriterCounts'
    BY DEF SInv, WriterCounts
  <1>3. SoundStates' /\ FlushedMeansSaved' /\ BufferBounded'
    BY DEF SInv, SoundStates, FlushedMeansSaved, BufferBounded
  <1>4. QED
    BY <1>1, <1>2, <1>3 DEF WriterSound

-----------------------------------------------------------------------------
(* The reader.                                                             *)

\* A step of the reader touches nothing of the writer.
LEMMA ReadsLeaveTheWriter ==
  ASSUME SInv, UNCHANGED writer, TypeOK', ReadsSoundly' PROVE SInv'
  <1> USE DEF writer
  <1>1. WriterCounts'
    BY DEF SInv, WriterCounts
  <1>2. SoundStates' /\ FlushedMeansSaved' /\ BufferBounded'
    BY DEF SInv, SoundStates, FlushedMeansSaved, BufferBounded
  <1>3. QED
    BY <1>1, <1>2 DEF SInv

\* A reader freezes a sound state, at the end of its chain.
LEMMA ReadManifestStep == ASSUME SInv, ReadManifest PROVE SInv'
  <1>1. /\ rpc = "idle" /\ manifest # None /\ rpc' = "walk"
        /\ frozen' = manifest.rows /\ pred' = manifest.rows.head
        /\ cursor' = manifest.rows.committed /\ chain' = <<>>
        /\ UNCHANGED <<writer, result>>
    BY DEF ReadManifest
  <1>2. manifest.rows \in State
    BY <1>1, WriterTypes
  <1>3. manifest.rows.head \in Link /\ manifest.rows.committed \in 0 .. MaxRows
    BY <1>2 DEF State
  <1>4. TypeOK'
    BY <1>1, <1>2, <1>3 DEF SInv, TypeOK, writer
  <1>5. PICK c \in Seq(Descriptor) : Path(c, manifest.rows, chunks)
    BY <1>1 DEF SInv, SoundStates, Sound
  <1>6. Len(c) \in Nat
    OBVIOUS
  <1>7. /\ manifest.rows.head = (IF Len(c) = 0 THEN None ELSE c[Len(c)])
        /\ manifest.rows.committed = EndOf(c, Len(c))
    BY <1>5 DEF Path
  <1>8. ReadUpTo(c, Len(c))'
    BY <1>1, <1>5, <1>6, <1>7 DEF writer, ReadUpTo
  <1>9. ReadsSoundly'
    BY <1>6, <1>8, <1>1 DEF SInv, ReadsSoundly, ReaderNeverRefuses, ReaderSeesCheckpoint
  <1>10. QED
    BY <1>1, <1>4, <1>9, ReadsLeaveTheWriter

\* What a reader's position says of the link it is at.
LEMMA NextLink ==
  ASSUME SInv, NEW c \in Seq(Descriptor), NEW j \in 1 .. Len(c), Path(c, frozen, chunks)
  PROVE  /\ Len(c) \in Nat /\ Len(c) = frozen.files
         /\ c[j] \in Descriptor /\ c[j].start \in 0 .. MaxRows /\ c[j].count \in Nat
         /\ c[j].sha \in Seq(1 .. MaxRows) /\ Len(c[j].sha) = c[j].count
         /\ \A k \in 1 .. c[j].count : c[j].sha[k] = c[j].start + k
         /\ c[j].start = EndOf(c, j - 1) /\ c[j].start + c[j].count = EndOf(c, j)
         /\ chunks[c[j].file] # None /\ chunks[c[j].file].rows = c[j].sha
         /\ chunks[c[j].file].prev = IF j = 1 THEN None ELSE c[j - 1]
         /\ chunks[c[j].file].prev \in Link
  <1>1. chunks \in Seq(Chunk) /\ frozen \in State
    BY DEF SInv, TypeOK
  <1>2. /\ Len(c) \in Nat /\ Len(c) = frozen.files
        /\ c[j] \in Descriptor /\ c[j].start \in Nat /\ c[j].count \in Nat /\ c[j].count > 0
        /\ c[j].file \in 1 .. Len(chunks)
        /\ EndOf(c, j) = c[j].start + c[j].count /\ c[j].sha \in Seq(1 .. MaxRows)
    BY <1>1, PathFacts
  <1>3. LinkInPlace(c, j, chunks)
    BY DEF Path
  <1>4. /\ Len(c[j].sha) = c[j].count /\ c[j].start = EndOf(c, j - 1)
        /\ \A k \in 1 .. c[j].count : c[j].sha[k] = c[j].start + k
        /\ chunks[c[j].file].rows = c[j].sha
        /\ chunks[c[j].file].prev = IF j = 1 THEN None ELSE c[j - 1]
    BY <1>3 DEF LinkInPlace
  <1>5. chunks[c[j].file] \in Chunk
    BY <1>1, <1>2
  <1>6. chunks[c[j].file] # None /\ chunks[c[j].file].prev \in Link
    BY <1>5, NoneAssumption DEF Chunk
  <1>7. c[j].start \in 0 .. MaxRows
    BY <1>2 DEF Descriptor
  <1>8. QED
    BY <1>2, <1>4, <1>6, <1>7

\* A predecessor link is always in place and joins up.
LEMMA WalkLinkStep == ASSUME SInv, WalkLink PROVE SInv'
  <1>1. rpc = "walk" /\ pred # None /\ UNCHANGED <<writer, frozen, result>>
    BY DEF WalkLink
  <1>2. PICK c \in Seq(Descriptor), m \in Nat : ReadUpTo(c, m)
    BY <1>1 DEF SInv, ReadsSoundly
  <1>3. /\ Path(c, frozen, chunks) /\ m \in 0 .. Len(c) /\ Len(chain) = Len(c) - m
        /\ \A j \in 1 .. Len(chain) : chain[j] = c[m + j]
        /\ pred = (IF m = 0 THEN None ELSE c[m]) /\ cursor = EndOf(c, m)
    BY <1>1, <1>2 DEF ReadUpTo
  <1>4. m \in 1 .. Len(c) /\ pred = c[m]
    BY <1>1, <1>3
  <1>5. /\ Len(c) \in Nat /\ Len(c) = frozen.files
        /\ pred \in Descriptor /\ pred.start \in 0 .. MaxRows /\ pred.count \in Nat
        /\ Len(pred.sha) = pred.count
        /\ pred.start = EndOf(c, m - 1) /\ pred.start + pred.count = EndOf(c, m)
        /\ chunks[pred.file] # None /\ chunks[pred.file].rows = pred.sha
        /\ chunks[pred.file].prev = (IF m = 1 THEN None ELSE c[m - 1])
        /\ chunks[pred.file].prev \in Link
    BY <1>3, <1>4, NextLink
  <1>6. LinkOK
    BY <1>3, <1>4, <1>5 DEF LinkOK
  <1>7. /\ chain' = <<pred>> \o chain /\ cursor' = pred.start
        /\ pred' = chunks[pred.file].prev /\ rpc' = "walk"
    BY <1>6 DEF WalkLink, LinkAdded
  <1>8. chain \in Seq(Descriptor)
    BY DEF SInv, TypeOK
  <1>9. /\ chain' \in Seq(Descriptor) /\ Len(chain') = Len(chain) + 1
        /\ \A j \in 1 .. Len(chain') : chain'[j] = IF j = 1 THEN pred ELSE chain[j - 1]
    BY <1>5, <1>7, <1>8
  <1>10. TypeOK'
    BY <1>1, <1>5, <1>7, <1>9 DEF SInv, TypeOK, writer
  <1>11. ReadUpTo(c, m - 1)'
    <2>1. Path(c, frozen', chunks') /\ m - 1 \in 0 .. Len(c) /\ Len(chain') = Len(c) - (m - 1)
      BY <1>1, <1>3, <1>4, <1>9 DEF writer
    <2>2. ASSUME NEW j \in 1 .. Len(chain') PROVE chain'[j] = c[(m - 1) + j]
      <3>1. CASE j = 1
        BY <1>4, <1>9, <3>1
      <3>2. CASE j # 1
        BY <1>8, <1>9, <3>2, <1>3
      <3>3. QED
        BY <3>1, <3>2
    <2>3. pred' = (IF m - 1 = 0 THEN None ELSE c[m - 1]) /\ cursor' = EndOf(c, m - 1)
      BY <1>4, <1>5, <1>7
    <2>4. QED
      BY <1>7, <2>1, <2>2, <2>3 DEF ReadUpTo
  <1>12. ReadsSoundly'
    BY <1>4, <1>11, <1>1, <1>7 DEF SInv, ReadsSoundly, ReaderNeverRefuses, ReaderSeesCheckpoint
  <1>13. QED
    BY <1>1, <1>10, <1>12, ReadsLeaveTheWriter

\* A whole chain holds the expected rows of its checkpoint, each once.
LEMMA ChainExpected ==
  ASSUME SInv, Path(chain, frozen, chunks)
  PROVE  ExpectedInChain = frozen.expected
  <1> DEFINE S == {pair \in (DOMAIN chain) \X (1 .. MaxRows) :
                     /\ pair[2] <= chain[pair[1]].count
                     /\ chunks[chain[pair[1]].file].rows[pair[2]] \in Expected}
             T == Expected \cap 1 .. frozen.committed
             rowAt(pair) == chain[pair[1]].start + pair[2]
             f == [pair \in S |-> rowAt(pair)]
  <1>1. chain \in Seq(Descriptor) /\ chunks \in Seq(Chunk) /\ frozen \in State
    BY DEF SInv, TypeOK
  <1>2. /\ Len(chain) \in Nat /\ DOMAIN chain = 1 .. Len(chain)
        /\ frozen.committed \in 0 .. MaxRows
        /\ \A j \in 1 .. Len(chain) :
             /\ chain[j].start \in Nat /\ chain[j].count \in Nat
             /\ EndOf(chain, j) = chain[j].start + chain[j].count
             /\ EndOf(chain, j) <= frozen.committed
             /\ \A k \in 1 .. chain[j].count :
                  chunks[chain[j].file].rows[k] = chain[j].start + k
    <2>1. Len(chain) \in Nat /\ DOMAIN chain = 1 .. Len(chain)
      BY <1>1
    <2>2. /\ frozen.committed \in 0 .. MaxRows
          /\ \A j \in 1 .. Len(chain) :
               /\ chain[j].start \in Nat /\ chain[j].count \in Nat
               /\ EndOf(chain, j) = chain[j].start + chain[j].count
      BY <1>1, PathFacts
    <2>3. \A j \in 1 .. Len(chain) : EndOf(chain, j) <= frozen.committed
      BY DEF Path, Covers
    <2>4. ASSUME NEW j \in 1 .. Len(chain)
          PROVE  \A k \in 1 .. chain[j].count :
                   chunks[chain[j].file].rows[k] = chain[j].start + k
      <3>1. LinkInPlace(chain, j, chunks)
        BY DEF Path
      <3>2. QED
        BY <3>1 DEF LinkInPlace
    <2>5. QED
      BY <2>1, <2>2, <2>3, <2>4
  <1>3. /\ \A i, j \in 1 .. Len(chain) : i < j => EndOf(chain, i) <= chain[j].start
        /\ \A r \in 1 .. frozen.committed :
             \E j \in 1 .. Len(chain) : chain[j].start < r /\ r <= EndOf(chain, j)
    BY DEF Path, Covers
  <1>4. \A pair \in S :
          /\ pair = <<pair[1], pair[2]>> /\ pair[1] \in 1 .. Len(chain)
          /\ pair[2] \in 1 .. chain[pair[1]].count /\ rowAt(pair) \in T
    BY <1>2
  <1>5. f \in [S -> T] /\ \A pair \in S : f[pair] = rowAt(pair)
    BY <1>4
  <1>6. f \in Injection(S, T)
    <2>1. ASSUME NEW a \in S, NEW b \in S, rowAt(a) = rowAt(b) PROVE a = b
      <3>1. /\ a = <<a[1], a[2]>> /\ a[1] \in 1 .. Len(chain) /\ a[2] \in 1 .. chain[a[1]].count
            /\ b = <<b[1], b[2]>> /\ b[1] \in 1 .. Len(chain) /\ b[2] \in 1 .. chain[b[1]].count
        BY <1>4
      <3>2. ~ (a[1] < b[1]) /\ ~ (b[1] < a[1])
        <4>1. /\ chain[a[1]].start \in Nat /\ chain[a[1]].count \in Nat
              /\ chain[b[1]].start \in Nat /\ chain[b[1]].count \in Nat
              /\ EndOf(chain, a[1]) = chain[a[1]].start + chain[a[1]].count
              /\ EndOf(chain, b[1]) = chain[b[1]].start + chain[b[1]].count
          BY <1>2, <3>1
        <4>2. /\ a[1] < b[1] => EndOf(chain, a[1]) <= chain[b[1]].start
              /\ b[1] < a[1] => EndOf(chain, b[1]) <= chain[a[1]].start
          BY <1>3, <3>1
        <4>3. QED
          BY <2>1, <3>1, <4>1, <4>2
      <3>3. a[1] = b[1]
        BY <3>1, <3>2, <1>2
      <3>4. a[2] = b[2]
        BY <1>2, <2>1, <3>1, <3>3
      <3>5. QED
        BY <3>1, <3>3, <3>4
    <2>2. \A a, b \in S : f[a] = f[b] => a = b
      BY <1>5, <2>1
    <2> HIDE DEF f, S, T
    <2>3. QED
      BY <1>5, <2>2, Fun_IsInj
  <1>7. f \in Surjection(S, T)
    <2>1. ASSUME NEW r \in T PROVE \E pair \in S : rowAt(pair) = r
      <3>1. r \in Expected /\ r \in 1 .. frozen.committed
        OBVIOUS
      <3>2. PICK j \in 1 .. Len(chain) : chain[j].start < r /\ r <= EndOf(chain, j)
        BY <1>3, <3>1
      <3>3. /\ chain[j].start \in Nat /\ chain[j].count \in Nat
            /\ EndOf(chain, j) = chain[j].start + chain[j].count
            /\ EndOf(chain, j) <= frozen.committed
        BY <1>2
      <3> DEFINE k == r - chain[j].start
      <3>4. k \in 1 .. chain[j].count /\ k \in 1 .. MaxRows /\ chain[j].start + k = r
        BY <1>2, <3>1, <3>2, <3>3, Bounds
      <3> HIDE DEF k
      <3>5. chunks[chain[j].file].rows[k] = chain[j].start + k
        BY <1>2, <3>4
      <3>6. chunks[chain[j].file].rows[k] \in Expected
        BY <3>1, <3>4, <3>5
      <3>7. <<j, k>> \in S
        BY <1>2, <3>4, <3>6
      <3>8. rowAt(<<j, k>>) = r
        BY <3>4
      <3>9. QED
        BY <3>7, <3>8
    <2>2. \A r \in T : \E pair \in S : f[pair] = r
      BY <1>5, <2>1
    <2> HIDE DEF f, S, T
    <2>3. QED
      BY <1>5, <2>2, Fun_IsSurj
  <1>8. IsFiniteSet(T)
    BY <1>2, ExpectedUpTo
  <1>9. Cardinality(S) = Cardinality(T)
    <2>1. f \in Bijection(S, T)
      BY <1>6, <1>7 DEF Bijection
    <2> HIDE DEF f, S, T
    <2>2. ExistsBijection(T, S)
      BY <2>1, Fun_ExistsBijSymmetric DEF ExistsBijection
    <2>3. QED
      BY <1>8, <2>2, FS_Bijection
  <1>10. frozen.expected = Cardinality(T)
    BY DEF Path
  <1>11. QED
    BY <1>9, <1>10 DEF ExpectedInChain

\* The walk ends at the first row with the whole chain in hand.
LEMMA WalkEndsStep == ASSUME SInv, WalkEnds PROVE SInv'
  <1>1. /\ rpc = "walk" /\ pred = None /\ rpc' = (IF ChainOK THEN "rows" ELSE "error")
        /\ UNCHANGED <<writer, frozen, chain, pred, cursor, result>>
    BY DEF WalkEnds
  <1>2. PICK c \in Seq(Descriptor), m \in Nat : ReadUpTo(c, m)
    BY <1>1 DEF SInv, ReadsSoundly
  <1>3. /\ Path(c, frozen, chunks) /\ m \in 0 .. Len(c) /\ Len(chain) = Len(c) - m
        /\ \A j \in 1 .. Len(chain) : chain[j] = c[m + j]
        /\ pred = (IF m = 0 THEN None ELSE c[m]) /\ cursor = EndOf(c, m)
    BY <1>1, <1>2 DEF ReadUpTo
  <1>4. m = 0
    BY <1>1, <1>3, NoneAssumption
  <1>5. chain \in Seq(Descriptor) /\ Len(c) \in Nat
    BY DEF SInv, TypeOK
  <1>6. chain = c
    BY <1>3, <1>4, <1>5, SeqEqual
  <1>7. cursor = 0 /\ Len(chain) = frozen.files
    BY <1>3, <1>4, <1>6 DEF EndOf, Path
  <1>8. frozen.expected = ExpectedInChain
    BY <1>3, <1>6, ChainExpected
  <1>9. rpc' = "rows"
    BY <1>1, <1>7, <1>8 DEF ChainOK
  <1>10. TypeOK'
    BY <1>1, <1>9 DEF SInv, TypeOK, writer
  <1>11. ReadUpTo(c, 0)'
    BY <1>1, <1>3, <1>5, <1>6, <1>9 DEF SInv, ReadsSoundly, writer, ReadUpTo, EndOf
  <1>12. ReadsSoundly'
    BY <1>9, <1>11 DEF ReadsSoundly, ReaderNeverRefuses, ReaderSeesCheckpoint
  <1>13. QED
    BY <1>1, <1>10, <1>12, ReadsLeaveTheWriter

\* A chunk matches its digest and continues the rows returned so far.
LEMMA ReadChunkStep == ASSUME SInv, ReadChunk PROVE SInv'
  <1>1. /\ rpc = "rows" /\ chain # <<>> /\ chain' = Tail(chain)
        /\ UNCHANGED <<writer, frozen, pred, cursor>>
    BY DEF ReadChunk
  <1>2. PICK c \in Seq(Descriptor), m \in Nat : ReadUpTo(c, m)
    BY <1>1 DEF SInv, ReadsSoundly
  <1>3. /\ Path(c, frozen, chunks) /\ m \in 0 .. Len(c) /\ Len(chain) = Len(c) - m
        /\ \A j \in 1 .. Len(chain) : chain[j] = c[m + j]
        /\ Len(result) = EndOf(c, m) /\ \A k \in 1 .. Len(result) : result[k] = k
    BY <1>1, <1>2 DEF ReadUpTo
  <1>4. chain \in Seq(Descriptor) /\ result \in Seq(1 .. MaxRows) /\ Len(c) \in Nat
    BY DEF SInv, TypeOK
  <1>5. /\ Len(chain) > 0 /\ Head(chain) = chain[1] /\ chain' \in Seq(Descriptor)
        /\ Len(chain') = Len(chain) - 1 /\ \A j \in 1 .. Len(chain') : chain'[j] = chain[j + 1]
    BY <1>1, <1>4
  <1>6. m + 1 \in 1 .. Len(c) /\ Head(chain) = c[m + 1]
    BY <1>3, <1>4, <1>5
  <1> DEFINE d == Head(chain)
  <1>7. /\ d.count \in Nat /\ d.sha \in Seq(1 .. MaxRows) /\ Len(d.sha) = d.count
        /\ \A k \in 1 .. d.count : d.sha[k] = d.start + k
        /\ d.start = EndOf(c, (m + 1) - 1) /\ d.start + d.count = EndOf(c, m + 1)
        /\ chunks[d.file] # None /\ chunks[d.file].rows = d.sha
    <2> DEFINE j == m + 1
    <2>1. j \in 1 .. Len(c) /\ d = c[j]
      BY <1>6
    <2> HIDE DEF j, d
    <2>2. /\ c[j].count \in Nat /\ c[j].sha \in Seq(1 .. MaxRows) /\ Len(c[j].sha) = c[j].count
          /\ \A k \in 1 .. c[j].count : c[j].sha[k] = c[j].start + k
          /\ c[j].start = EndOf(c, j - 1) /\ c[j].start + c[j].count = EndOf(c, j)
          /\ chunks[c[j].file] # None /\ chunks[c[j].file].rows = c[j].sha
      BY <1>3, <2>1, NextLink
    <2>3. /\ d.count \in Nat /\ d.sha \in Seq(1 .. MaxRows) /\ Len(d.sha) = d.count
          /\ \A k \in 1 .. d.count : d.sha[k] = d.start + k
          /\ d.start = EndOf(c, j - 1) /\ d.start + d.count = EndOf(c, j)
          /\ chunks[d.file] # None /\ chunks[d.file].rows = d.sha
      BY <2>1, <2>2
    <2>4. QED
      BY <2>3 DEF j
  <1>8. result' = result \o d.sha /\ rpc' = "rows"
    BY <1>7 DEF ReadChunk
  <1>9. d.start = EndOf(c, m)
    BY <1>7
  <1> HIDE DEF d
  <1>10. /\ result' \in Seq(1 .. MaxRows) /\ Len(result') = Len(result) + Len(d.sha)
         /\ \A k \in 1 .. Len(result') :
              result'[k] = IF k <= Len(result) THEN result[k] ELSE d.sha[k - Len(result)]
    <2> DEFINE more == d.sha
    <2>1. more \in Seq(1 .. MaxRows) /\ result' = result \o more
      BY <1>7, <1>8
    <2> HIDE DEF more
    <2>2. /\ result' \in Seq(1 .. MaxRows) /\ Len(result') = Len(result) + Len(more)
          /\ \A k \in 1 .. Len(result') :
               result'[k] = IF k <= Len(result) THEN result[k] ELSE more[k - Len(result)]
      BY <1>4, <2>1
    <2>3. QED
      BY <2>2 DEF more
  <1>11. TypeOK'
    BY <1>1, <1>5, <1>8, <1>10 DEF SInv, TypeOK, writer
  <1>12. ReadUpTo(c, m + 1)'
    <2>1. Path(c, frozen', chunks') /\ m + 1 \in 0 .. Len(c) /\ Len(chain') = Len(c) - (m + 1)
      BY <1>1, <1>3, <1>4, <1>5, <1>6 DEF writer
    <2>2. \A j \in 1 .. Len(chain') : chain'[j] = c[(m + 1) + j]
      <3>1. ASSUME NEW j \in 1 .. Len(chain') PROVE chain'[j] = c[(m + 1) + j]
        <4>1. j + 1 \in 1 .. Len(chain) /\ m + (j + 1) = (m + 1) + j
          BY <1>4, <1>5
        <4>2. chain[j + 1] = c[m + (j + 1)]
          BY <1>3, <4>1
        <4>3. QED
          BY <1>5, <4>1, <4>2
      <3>2. QED
        BY <3>1
    <2>3. Len(result') = EndOf(c, m + 1)
      BY <1>3, <1>7, <1>9, <1>10
    <2>4. \A k \in 1 .. Len(result') : result'[k] = k
      <3>1. ASSUME NEW k \in 1 .. Len(result') PROVE result'[k] = k
        <4>1. Len(result) \in Nat /\ Len(result) = d.start
          BY <1>3, <1>4, <1>9
        <4>2. CASE k <= Len(result)
          BY <1>3, <1>10, <4>1, <4>2
        <4>3. CASE ~ (k <= Len(result))
          <5>1. k - Len(result) \in 1 .. d.count /\ result'[k] = d.sha[k - Len(result)]
            BY <1>7, <1>10, <4>1, <4>3
          <5>2. d.sha[k - Len(result)] = d.start + (k - Len(result))
            BY <1>7, <5>1
          <5>3. QED
            BY <4>1, <5>1, <5>2
        <4>4. QED
          BY <4>2, <4>3
      <3>2. QED
        BY <3>1
    <2>5. QED
      BY <1>8, <2>1, <2>2, <2>3, <2>4 DEF ReadUpTo
  <1>13. ReadsSoundly'
    BY <1>12, <1>8 DEF ReadsSoundly, ReaderNeverRefuses, ReaderSeesCheckpoint
  <1>14. QED
    BY <1>1, <1>11, <1>13, ReadsLeaveTheWriter

\* All rows of the checkpoint are returned, in order.
LEMMA ReadEndsStep == ASSUME SInv, ReadEnds PROVE SInv'
  <1>1. /\ rpc = "rows" /\ chain = <<>> /\ rpc' = "done"
        /\ UNCHANGED <<writer, frozen, chain, pred, cursor, result>>
    BY DEF ReadEnds
  <1>2. PICK c \in Seq(Descriptor), m \in Nat : ReadUpTo(c, m)
    BY <1>1 DEF SInv, ReadsSoundly
  <1>3. /\ Path(c, frozen, chunks) /\ m \in 0 .. Len(c) /\ Len(chain) = Len(c) - m
        /\ Len(result) = EndOf(c, m) /\ \A k \in 1 .. Len(result) : result[k] = k
    BY <1>1, <1>2 DEF ReadUpTo
  <1>4. Len(chain) = 0 /\ Len(c) \in Nat /\ result \in Seq(1 .. MaxRows)
    BY <1>1 DEF SInv, TypeOK
  <1>5. m = Len(c)
    BY <1>3, <1>4
  <1>6. Len(result) = frozen.committed
    BY <1>3, <1>5 DEF Path
  <1>7. result = [k \in 1 .. frozen.committed |-> k]
    BY <1>4, <1>3, <1>6
  <1>8. TypeOK'
    BY <1>1 DEF SInv, TypeOK, writer
  <1>9. ReadsSoundly'
    BY <1>1, <1>7 DEF ReadsSoundly, ReaderNeverRefuses, ReaderSeesCheckpoint
  <1>10. QED
    BY <1>1, <1>8, <1>9, ReadsLeaveTheWriter

-----------------------------------------------------------------------------
(* The inductive invariant.                                                *)

\* A new store is sound.
LEMMA InitSound == Init => SInv
  <1> SUFFICES ASSUME Init PROVE SInv
    OBVIOUS
  <1> USE DEF Init
  <1>1. Empty \in State
    BY Bounds DEF Empty, State, Link
  <1>2. <<>> \in Seq(1 .. MaxRows) /\ <<>> \in Seq(Chunk) /\ <<>> \in Seq(Descriptor)
        /\ Len(<<>>) = 0
    OBVIOUS
  <1>3. TypeOK
    BY <1>1, <1>2, Bounds DEF TypeOK, Link
  <1>4. WriterCounts
    BY <1>2, Bounds DEF WriterCounts, Empty
  <1>5. SoundStates
    BY EmptySound DEF SoundStates
  <1>6. ReadsSoundly
    BY DEF ReadsSoundly, ReaderNeverRefuses, ReaderSeesCheckpoint
  <1>7. FlushedMeansSaved /\ BufferBounded
    BY <1>2, Bounds DEF FlushedMeansSaved, BufferBounded
  <1>8. QED
    BY <1>3, <1>4, <1>5, <1>6, <1>7 DEF SInv

\* The steps of the writer keep the invariant.
LEMMA WriteSound == ASSUME SInv, Write PROVE SInv'
  <1>1. WriterSound'
    BY AppendRowStep, RecordFailureStep, CallFlushStep, FlushStep, WriteChunkStep,
       WriteManifestStep, SwapStateStep, KeepFingerprintStep, FlushRaisesStep, DieStep DEF Write
  <1>2. UNCHANGED reader
    BY DEF Write, AppendRow, RecordFailure, CallFlush, Flush, WriteChunk, WriteManifest,
           SwapState, KeepFingerprint, FlushRaises, Die
  <1>3. chunks' = chunks \/ \E chunk \in Chunk : chunks' = Append(chunks, chunk)
    BY WriteChunkStep
       DEF Write, AppendRow, RecordFailure, CallFlush, Flush, WriteManifest, SwapState,
           KeepFingerprint, FlushRaises, ChunksAfterFault, Die
  <1>4. ReadsSoundly'
    BY <1>2, <1>3, ReaderUndisturbed
  <1>5. QED
    BY <1>1, <1>4 DEF WriterSound, SInv

\* So does every step.
LEMMA NextSound == SInv /\ [Next]_vars => SInv'
  <1> SUFFICES ASSUME SInv, [Next]_vars PROVE SInv'
    OBVIOUS
  <1>1. CASE Write
    BY <1>1, WriteSound
  <1>2. CASE Read
    BY <1>2, ReadManifestStep, WalkLinkStep, WalkEndsStep, ReadChunkStep, ReadEndsStep DEF Read
  <1>3. CASE UNCHANGED vars
    BY <1>3, ReaderUndisturbed, ReadsLeaveTheWriter DEF vars, SInv, TypeOK, writer, reader
  <1>4. QED
    BY <1>1, <1>2, <1>3 DEF Next

\* The invariant holds in every reachable state of a store.
LEMMA StoreInvariant == Spec => []SInv
  BY InitSound, NextSound, PTL DEF Spec

-----------------------------------------------------------------------------
(* The programs and the store.                                             *)

\* Stays is to leave the store alone.
LEMMA StoreUntouched == Stays => UNCHANGED vars
  BY DEF Stays, store, vars

\* prepare and the measurement of the window do not touch the store.
LEMMA PreparesOutsideStore == Prepare \/ Fit => UNCHANGED vars
  BY StoreUntouched
     DEF Prepare, Connect, ConfigureTarget, ConnectScope, CreateStore, FitLaunches, FitCaptures,
         store, vars, FitReads, FitGrows, FitEnds, Fit

\* The loop appends rows and records failures.
LEMMA CapturesIntoStore == Capture => Write \/ UNCHANGED vars
  BY StoreUntouched
     DEF RowLaunches, RowReads, store, vars, RowCaptures, RowFails, StoreRow, Write, Capture

\* Checkpoints and save are flushes.
LEMMA KeepsInStore == Keep => Write \/ UNCHANGED vars
  BY StoreUntouched
     DEF StoreWorks, LoopEnds, Save, Write, StoreRaised, LoopGoesOn, Saved, CountRow, store,
         vars, Keep

\* The capture program uses the store only by its operations.
LEMMA ExperimentUsesStore == Experimenting \/ Raises \/ Killed => Write \/ UNCHANGED vars
  BY StoreUntouched, PreparesOutsideStore, CapturesIntoStore, KeepsInStore
     DEF DisconnectScope, Close, Raises, Killed, Write, Experimenting

\* So does every program.
LEMMA ProgramUsesStore == [HostNext]_hostVars => [Next]_vars
  <1>1. StoreProgram => [Next]_vars
    BY DEF StoreProgram
  <1>2. Experimented \/ ExperimentDisturbed => [Next]_vars
    BY ExperimentUsesStore, StoreUntouched DEF Experimented, ExperimentDisturbed, Next
  <1>3. /\ Operated \/ OperationDisturbed => UNCHANGED vars
        /\ SelfChecked \/ SelfCheckDisturbed => UNCHANGED vars
        /\ Monitored \/ MonitorEnds => UNCHANGED vars
        /\ Acquired \/ AcquireDisturbed \/ World => UNCHANGED vars
    BY DEF Operated, OperationDisturbed, SelfChecked, SelfCheckDisturbed, Monitored,
           MonitorEnds, Acquired, AcquireDisturbed, World
  <1>4. UNCHANGED hostVars => UNCHANGED vars
    BY DEF hostVars
  <1>5. QED
    BY <1>1, <1>2, <1>3, <1>4 DEF HostNext

\* The programs of the host library, "proact capture" with its errors, Ctrl-C and
\* SIGKILL among them, never change a store other than by its own operations
\* (experiment.py:215-290).
THEOREM StoreUsedByItsOperations == HostSpec => Spec
  <1>1. HostInit => Init
    BY DEF HostInit
  <1>2. QED
    BY <1>1, ProgramUsesStore, PTL DEF HostSpec, Spec

\* The trace store keeps its promises in every program: no read is refused, a
\* read returns exactly the rows of its checkpoint, a flush that returned has saved
\* everything, and the buffer stays within a chunk unless a flush raised, for any
\* chunk size, number of rows, files and failed writes (storage.py:154-230).
THEOREM TraceStoreKeepsItsPromises == HostSpec => []TraceStoreIsSound
  <1>1. SInv => TraceStoreIsSound
    BY DEF SInv, ReadsSoundly, TraceStoreIsSound
  <1>2. QED
    BY <1>1, StoreUsedByItsOperations, StoreInvariant, PTL

-----------------------------------------------------------------------------
(* The store as a checkpointed log.                                        *)

\* Induction, with the set of the numbers for which a fact holds.
LEMMA SetInduction ==
  ASSUME NEW S, 0 \in S, \A n \in Nat : n \in S => n + 1 \in S
  PROVE  Nat \subseteq S
  <1> SUFFICES ASSUME NEW n \in Nat, n \notin S PROVE FALSE
    OBVIOUS
  <1> DEFINE T == S \cap (0 .. n)
             f == [k \in T |-> k + 1]
  <1>1. IsFiniteSet(T) /\ IsFiniteSet(T \ {0}) /\ Cardinality(T \ {0}) = Cardinality(T) - 1
        /\ Cardinality(T) \in Nat
    <2>1. IsFiniteSet(0 .. n)
      BY FS_Interval
    <2>2. IsFiniteSet(T)
      BY <2>1, FS_Subset
    <2>3. 0 \in T
      OBVIOUS
    <2>4. QED
      BY <2>2, <2>3, FS_RemoveElement, FS_CardinalityType
  <1>2. f \in Injection(T, T \ {0})
    BY DEF Injection, IsInjective
  <1>3. Cardinality(T) <= Cardinality(T \ {0})
    BY <1>1, <1>2, FS_Injection
  <1>4. QED
    BY <1>1, <1>3

\* A file names only files that were there before it.
Back(files, k) == IF files[k].prev = None THEN 0 ELSE files[k].prev.file
OlderLinks(files) == \A k \in 1 .. Len(files) : Back(files, k) \in 0 .. k - 1

\* The first n rows, and how many of them the manifest covers.
FirstRows(n) == [k \in 1 .. n |-> k]
Covered == IF manifest = None THEN 0 ELSE manifest.rows.committed

\* A function that reads the rows behind the first n files.
ReadsBack(f, files, n) ==
  /\ f \in [0 .. n -> Seq(1 .. MaxRows)] /\ f[0] = <<>>
  /\ \A k \in 1 .. n : f[k] = f[Back(files, k)] \o files[k].rows

\* The first n rows are n, in their order.
LEMMA FirstRowsForm ==
  ASSUME NEW n \in 0 .. MaxRows
  PROVE  /\ FirstRows(n) \in Seq(1 .. MaxRows) /\ Len(FirstRows(n)) = n
         /\ \A k \in 1 .. n : FirstRows(n)[k] = k
  BY Bounds DEF FirstRows

\* A chunk of the rows after them makes more of them.
LEMMA FirstRowsGrow ==
  ASSUME NEW n \in 0 .. MaxRows, NEW more \in Seq(1 .. MaxRows), n + Len(more) <= MaxRows,
         \A k \in 1 .. Len(more) : more[k] = n + k
  PROVE  FirstRows(n) \o more = FirstRows(n + Len(more))
  <1> DEFINE s == FirstRows(n)
             t == FirstRows(n + Len(more))
  <1>1. n \in Nat /\ Len(more) \in Nat /\ n + Len(more) \in 0 .. MaxRows
    BY Bounds
  <1>2. s \in Seq(1 .. MaxRows) /\ Len(s) = n /\ \A k \in 1 .. n : s[k] = k
    BY FirstRowsForm
  <1>3. /\ t \in Seq(1 .. MaxRows) /\ Len(t) = n + Len(more)
        /\ \A k \in 1 .. n + Len(more) : t[k] = k
    BY <1>1, FirstRowsForm
  <1> HIDE DEF s, t
  <1>4. s \o more \in Seq(1 .. MaxRows) /\ Len(s \o more) = n + Len(more)
    BY <1>2, ConcatProperties
  <1>5. ASSUME NEW k \in 1 .. n + Len(more) PROVE (s \o more)[k] = t[k]
    <2>1. (s \o more)[k] = IF k <= n THEN s[k] ELSE more[k - n]
      BY <1>1, <1>2
    <2>2. CASE k <= n
      BY <1>1, <1>2, <1>3, <2>1, <2>2
    <2>3. CASE ~ (k <= n)
      BY <1>1, <2>3, <1>3, <2>1
    <2>4. QED
      BY <2>2, <2>3
  <1>6. s \o more = t
    BY <1>3, <1>4, <1>5, SeqEqual
  <1>7. QED
    BY <1>6 DEF s, t

\* There is a function that reads the rows, since every file names an older one.
LEMMA ReadsExist ==
  ASSUME NEW files \in Seq(Chunk), OlderLinks(files)
  PROVE  \E f : ReadsBack(f, files, Len(files))
  <1> DEFINE N == {n \in Nat : n <= Len(files) => \E f : ReadsBack(f, files, n)}
  <1>0. Len(files) \in Nat
    OBVIOUS
  <1>1. 0 \in N
    <2> DEFINE f == [k \in 0 .. 0 |-> <<>>]
    <2>1. <<>> \in Seq(1 .. MaxRows)
      OBVIOUS
    <2>2. f \in [0 .. 0 -> Seq(1 .. MaxRows)] /\ f[0] = <<>>
      BY <2>1
    <2>3. ReadsBack(f, files, 0)
      BY <2>2 DEF ReadsBack
    <2>4. QED
      BY <2>3
  <1>2. ASSUME NEW n \in Nat, n \in N PROVE n + 1 \in N
    <2> SUFFICES ASSUME n + 1 <= Len(files) PROVE \E f : ReadsBack(f, files, n + 1)
      OBVIOUS
    <2>1. PICK f : ReadsBack(f, files, n)
      BY <1>0, <1>2
    <2> DEFINE b == Back(files, n + 1)
               r == files[n + 1].rows
               g == [k \in 0 .. n + 1 |-> IF k = n + 1 THEN f[b] \o r ELSE f[k]]
    <2>2. \A k \in 1 .. n + 1 : Back(files, k) \in 0 .. k - 1
      BY <1>0 DEF OlderLinks
    <2>3. b \in 0 .. n
      BY <2>2
    <2>4. r \in Seq(1 .. MaxRows)
      <3>1. files[n + 1] \in Chunk
        BY <1>0
      <3>2. QED
        BY <3>1 DEF Chunk
    <2> HIDE DEF b, r
    <2>5. /\ f \in [0 .. n -> Seq(1 .. MaxRows)] /\ f[0] = <<>>
          /\ \A k \in 1 .. n : f[k] = f[Back(files, k)] \o files[k].rows
      BY <2>1 DEF ReadsBack
    <2>6. f[b] \o r \in Seq(1 .. MaxRows)
      BY <2>3, <2>4, <2>5
    <2>7. g \in [0 .. n + 1 -> Seq(1 .. MaxRows)]
      <3>1. ASSUME NEW k \in 0 .. n + 1
            PROVE  (IF k = n + 1 THEN f[b] \o r ELSE f[k]) \in Seq(1 .. MaxRows)
        <4>1. k = n + 1 \/ k \in 0 .. n
          OBVIOUS
        <4>2. k \in 0 .. n => f[k] \in Seq(1 .. MaxRows)
          BY <2>5
        <4>3. QED
          BY <2>6, <4>1, <4>2, Zenon
      <3>2. QED
        BY <3>1
    <2>8. /\ g[n + 1] = f[b] \o r /\ \A k \in 0 .. n : g[k] = f[k]
      OBVIOUS
    <2> HIDE DEF g
    <2>9. ASSUME NEW k \in 1 .. n + 1 PROVE g[k] = g[Back(files, k)] \o files[k].rows
      <3>1. Back(files, k) \in 0 .. n /\ g[Back(files, k)] = f[Back(files, k)]
        BY <2>2, <2>8
      <3>2. CASE k = n + 1
        BY <2>8, <3>1, <3>2 DEF b, r
      <3>3. CASE k # n + 1
        <4>1. k \in 1 .. n
          BY <3>3
        <4>2. f[k] = f[Back(files, k)] \o files[k].rows
          BY <2>5, <4>1
        <4>3. g[k] = f[k]
          BY <2>8, <4>1
        <4>4. QED
          BY <3>1, <4>2, <4>3, Zenon
      <3>4. QED
        BY <3>2, <3>3
    <2>10. g[0] = <<>>
      BY <2>5, <2>8
    <2>11. QED
      BY <2>7, <2>9, <2>10 DEF ReadsBack
  <1>3. Nat \subseteq N
    <2> HIDE DEF N
    <2>1. QED
      BY <1>1, <1>2, SetInduction
  <1>4. QED
    BY <1>0, <1>3

\* What the store would read is such a function.
LEMMA RowsUpToReads ==
  ASSUME chunks \in Seq(Chunk), OlderLinks(chunks)
  PROVE  ReadsBack(RowsUpTo, chunks, Len(chunks))
  <1> DEFINE Body(f, k) == IF k = 0 THEN <<>>
                           ELSE f[IF chunks[k].prev = None THEN 0 ELSE chunks[k].prev.file]
                                \o chunks[k].rows
             D == 0 .. Len(chunks)
  <1>1. PICK f : ReadsBack(f, chunks, Len(chunks))
    BY ReadsExist
  <1>2. Len(chunks) \in Nat /\ \A k \in D : k = 0 \/ k \in 1 .. Len(chunks)
    OBVIOUS
  <1>3. \A k \in D : f[k] = Body(f, k)
    BY <1>1, <1>2 DEF ReadsBack, Back
  <1>4. f = [k \in D |-> f[k]]
    BY <1>1 DEF ReadsBack
  <1>5. f = [k \in D |-> Body(f, k)]
    BY <1>3, <1>4
  <1>6. RowsUpTo = [k \in D |-> Body(RowsUpTo, k)]
    BY <1>5 DEF RowsUpTo
  <1>7. \A k \in D : RowsUpTo[k] = Body(RowsUpTo, k)
    BY <1>6
  <1>8. ASSUME NEW k \in 1 .. Len(chunks)
        PROVE  RowsUpTo[k] = RowsUpTo[Back(chunks, k)] \o chunks[k].rows
    <2>1. k \in D /\ k # 0
      BY <1>2
    <2>2. RowsUpTo[k] = Body(RowsUpTo, k)
      BY <1>7, <2>1
    <2>3. QED
      BY <2>1, <2>2, Zenon DEF Back
  <1> DEFINE N == {n \in Nat : n <= Len(chunks)
                               => \A k \in 0 .. n : RowsUpTo[k] \in Seq(1 .. MaxRows)}
  <1>9. RowsUpTo[0] = <<>>
    BY <1>2, <1>7
  <1>10. 0 \in N
    <2>1. \A k \in 0 .. 0 : k = 0
      OBVIOUS
    <2>2. <<>> \in Seq(1 .. MaxRows)
      OBVIOUS
    <2>3. \A k \in 0 .. 0 : RowsUpTo[k] \in Seq(1 .. MaxRows)
      BY <1>9, <2>1, <2>2, Zenon
    <2>4. QED
      BY <2>3
  <1>11. ASSUME NEW n \in Nat, n \in N PROVE n + 1 \in N
    <2> SUFFICES ASSUME n + 1 <= Len(chunks) PROVE RowsUpTo[n + 1] \in Seq(1 .. MaxRows)
      BY <1>11
    <2>1. Back(chunks, n + 1) \in 0 .. n /\ n + 1 \in 1 .. Len(chunks)
      BY <1>2 DEF OlderLinks
    <2>2. chunks[n + 1].rows \in Seq(1 .. MaxRows)
      <3>1. chunks[n + 1] \in Chunk
        BY <1>2
      <3>2. QED
        BY <3>1 DEF Chunk
    <2>3. RowsUpTo[n + 1] = RowsUpTo[Back(chunks, n + 1)] \o chunks[n + 1].rows
      BY <1>8, <2>1
    <2>4. RowsUpTo[Back(chunks, n + 1)] \in Seq(1 .. MaxRows)
      BY <1>2, <1>11, <2>1
    <2> HIDE DEF D
    <2>5. QED
      BY <2>2, <2>3, <2>4, ConcatProperties
  <1>12. Nat \subseteq N
    <2> HIDE DEF N
    <2>1. QED
      BY <1>10, <1>11, SetInduction
  <1>13. \A k \in D : RowsUpTo[k] \in Seq(1 .. MaxRows)
    BY <1>2, <1>12
  <1>14. RowsUpTo \in [D -> Seq(1 .. MaxRows)]
    BY <1>6, <1>13
  <1>15. QED
    BY <1>8, <1>9, <1>14 DEF ReadsBack

\* Along a chain, what is read of a link's file is the rows up to the end of the link.
LEMMA ChainReads ==
  ASSUME NEW files \in Seq(Chunk), NEW st \in State, NEW c \in Seq(Descriptor),
         Path(c, st, files), NEW f, ReadsBack(f, files, Len(files))
  PROVE  \A j \in 1 .. Len(c) : f[c[j].file] = FirstRows(EndOf(c, j))
  <1> DEFINE N == {n \in Nat : n + 1 <= Len(c)
                               => f[c[n + 1].file] = FirstRows(EndOf(c, n + 1))}
  <1>1. /\ Len(c) \in Nat /\ st.committed \in 0 .. MaxRows
        /\ \A j \in 1 .. Len(c) :
             /\ c[j] \in Descriptor /\ c[j].start \in Nat /\ c[j].count \in Nat
             /\ c[j].file \in 1 .. Len(files)
             /\ EndOf(c, j) = c[j].start + c[j].count /\ c[j].sha \in Seq(1 .. MaxRows)
        /\ \A j \in 0 .. Len(c) : EndOf(c, j) \in 0 .. st.committed
    BY PathFacts
  <1>2. ASSUME NEW n \in Nat, n + 1 <= Len(c),
               f[Back(files, c[n + 1].file)] = FirstRows(EndOf(c, n))
        PROVE  f[c[n + 1].file] = FirstRows(EndOf(c, n + 1))
    <2> DEFINE j == n + 1
               d == c[j]
    <2>1. j \in 1 .. Len(c) /\ n \in 0 .. Len(c) /\ j - 1 = n
      BY <1>1, <1>2
    <2> HIDE DEF j
    <2>2. /\ d.sha \in Seq(1 .. MaxRows) /\ Len(d.sha) = d.count /\ d.start = EndOf(c, n)
          /\ \A k \in 1 .. d.count : d.sha[k] = d.start + k
          /\ files[d.file].rows = d.sha /\ d.file \in 1 .. Len(files)
          /\ EndOf(c, j) = d.start + d.count
      <3>1. LinkInPlace(c, j, files)
        BY <2>1 DEF Path
      <3>2. /\ Len(d.sha) = d.count /\ d.start = EndOf(c, n)
            /\ \A k \in 1 .. d.count : d.sha[k] = d.start + k
        BY <2>1, <3>1 DEF LinkInPlace
      <3>3. files[d.file].rows = d.sha
        <4>1. files[d.file] = [rows |-> d.sha, prev |-> IF j = 1 THEN None ELSE c[j - 1]]
          BY <3>1, Zenon DEF LinkInPlace
        <4>2. QED
          BY <4>1
      <3>4. /\ d.sha \in Seq(1 .. MaxRows) /\ d.file \in 1 .. Len(files)
            /\ EndOf(c, j) = d.start + d.count
        BY <1>1, <2>1
      <3>5. QED
        BY <3>2, <3>3, <3>4
    <2>3. EndOf(c, n) \in 0 .. MaxRows /\ EndOf(c, j) <= MaxRows
      BY <1>1, <2>1, Bounds
    <2>4. f[d.file] = f[Back(files, d.file)] \o files[d.file].rows
      BY <2>2 DEF ReadsBack
    <2>5. f[Back(files, d.file)] = FirstRows(EndOf(c, n))
      BY <1>2 DEF j
    <2> DEFINE m == EndOf(c, n)
               more == d.sha
    <2>6. /\ m \in 0 .. MaxRows /\ more \in Seq(1 .. MaxRows) /\ m + Len(more) <= MaxRows
          /\ \A k \in 1 .. Len(more) : more[k] = m + k
          /\ EndOf(c, j) = m + Len(more) /\ f[d.file] = FirstRows(m) \o more
      BY <2>2, <2>3, <2>4, <2>5
    <2> HIDE DEF m, more, d
    <2>7. f[d.file] = FirstRows(EndOf(c, j))
      BY <2>6, FirstRowsGrow
    <2>8. QED
      BY <2>7 DEF d, j
  <1>3. 0 \in N
    <2> SUFFICES ASSUME 1 <= Len(c) PROVE f[c[0 + 1].file] = FirstRows(EndOf(c, 0 + 1))
      OBVIOUS
    <2>1. LinkInPlace(c, 1, files)
      BY <1>1 DEF Path
    <2>2. Back(files, c[0 + 1].file) = 0
      BY <2>1 DEF LinkInPlace, Back
    <2>3. FirstRows(EndOf(c, 0)) = <<>>
      BY DEF FirstRows, EndOf
    <2>4. f[Back(files, c[0 + 1].file)] = FirstRows(EndOf(c, 0))
      BY <2>2, <2>3 DEF ReadsBack
    <2>5. QED
      BY <1>2, <2>4
  <1>4. ASSUME NEW n \in Nat, n \in N PROVE n + 1 \in N
    <2> SUFFICES ASSUME (n + 1) + 1 <= Len(c)
                 PROVE  f[c[(n + 1) + 1].file] = FirstRows(EndOf(c, (n + 1) + 1))
      OBVIOUS
    <2> DEFINE j == n + 1
    <2>1. j \in 1 .. Len(c) /\ j + 1 \in 1 .. Len(c) /\ j \in Nat /\ (j + 1) - 1 = j /\ j + 1 # 1
      BY <1>1
    <2>2. f[c[j].file] = FirstRows(EndOf(c, j))
      BY <1>1, <1>4
    <2> HIDE DEF j
    <2>3. LinkInPlace(c, j + 1, files)
      BY <2>1 DEF Path
    <2>4. files[c[j + 1].file].prev = c[j] /\ c[j] # None
      BY <1>1, <2>1, <2>3, NoneAssumption DEF LinkInPlace
    <2>5. f[Back(files, c[j + 1].file)] = FirstRows(EndOf(c, j))
      BY <2>2, <2>4 DEF Back
    <2>6. j + 1 <= Len(c)
      BY <1>1, <2>1
    <2>7. f[c[j + 1].file] = FirstRows(EndOf(c, j + 1))
      BY <1>2, <2>1, <2>5, <2>6
    <2>8. QED
      BY <2>7 DEF j
  <1>5. Nat \subseteq N
    <2> HIDE DEF N
    <2>1. QED
      BY <1>3, <1>4, SetInduction
  <1>6. ASSUME NEW j \in 1 .. Len(c) PROVE f[c[j].file] = FirstRows(EndOf(c, j))
    <2>1. j - 1 \in Nat /\ (j - 1) + 1 = j /\ j <= Len(c)
      BY <1>1
    <2>2. j - 1 \in N
      BY <1>5, <2>1
    <2>3. QED
      BY <2>1, <2>2
  <1>7. QED
    BY <1>6

\* A reader of the manifest would get the rows that it covers.
LEMMA PublishedRows ==
  SInv /\ OlderLinks(chunks) => Published = FirstRows(Covered) /\ Covered \in 0 .. accepted
  <1> SUFFICES ASSUME SInv, OlderLinks(chunks)
               PROVE  Published = FirstRows(Covered) /\ Covered \in 0 .. accepted
    OBVIOUS
  <1>1. /\ accepted \in 0 .. MaxRows /\ chunks \in Seq(Chunk)
        /\ manifest = None \/ manifest \in [rows : State, notes : 0 .. MaxNotes]
    BY DEF SInv, TypeOK
  <1>2. FirstRows(0) = <<>>
    BY DEF FirstRows
  <1>3. CASE manifest = None
    BY <1>1, <1>2, <1>3, Bounds DEF Published, Covered
  <1>4. CASE manifest # None
    <2> DEFINE st == manifest.rows
    <2>1. st \in State /\ st.committed \in 0 .. MaxRows
      BY <1>1, <1>4 DEF State
    <2>2. PICK c \in Seq(Descriptor) : Path(c, st, chunks)
      BY <1>4 DEF SInv, SoundStates, Sound
    <2>3. Covered = st.committed /\ st.committed <= accepted
      BY <1>4 DEF Covered, SInv, WriterCounts
    <2>4. Covered \in 0 .. accepted
      BY <1>1, <2>1, <2>3, Bounds
    <2>5. /\ st.committed = EndOf(c, Len(c))
          /\ st.head = IF c = <<>> THEN None ELSE c[Len(c)]
      BY <2>2 DEF Path
    <2>6. CASE c = <<>>
      BY <2>5, <2>6, <1>2, <2>3, <2>4 DEF EndOf, Published
    <2>7. CASE c # <<>>
      BY <2>7, <2>5, NoneAssumption, <1>1, RowsUpToReads, <2>1, <2>2, ChainReads, <1>4, <2>3,
         <2>4 DEF Published
    <2>8. QED
      BY <2>6, <2>7
  <1>5. QED
    BY <1>3, <1>4

\* The files of a store name older ones: a chunk is written with the head of its time.
LEMMA LinksStayOlder ==
  SInv /\ OlderLinks(chunks) /\ [Next]_vars => OlderLinks(chunks)'
  <1> SUFFICES ASSUME SInv, OlderLinks(chunks), [Next]_vars PROVE OlderLinks(chunks)'
    OBVIOUS
  <1>1. chunks \in Seq(Chunk) /\ state \in State /\ Len(chunks) \in Nat
    BY DEF SInv, TypeOK
  <1>2. CASE WriteChunk
    <2> DEFINE chunk == [rows |-> buffer, prev |-> state.head]
               more == Append(chunks, chunk)
    <2>1. chunks' = more
      BY <1>2 DEF WriteChunk
    <2>2. chunk \in Chunk /\ chunk.prev = state.head
      BY <1>1 DEF Chunk, State, SInv, TypeOK
    <2> HIDE DEF chunk
    <2>3. /\ Len(more) = Len(chunks) + 1 /\ more[Len(chunks) + 1] = chunk
          /\ \A k \in 1 .. Len(chunks) : more[k] = chunks[k]
      BY <1>1, <2>2
    <2> HIDE DEF more
    <2>4. state.head = None \/ state.head.file \in 1 .. Len(chunks)
      <3>1. PICK c \in Seq(Descriptor) : Path(c, state, chunks)
        BY DEF SInv, SoundStates, Sound
      <3>2. state.head = IF c = <<>> THEN None ELSE c[Len(c)]
        BY <3>1 DEF Path
      <3>3. c # <<>> => Len(c) \in 1 .. Len(c)
        OBVIOUS
      <3>4. \A j \in 1 .. Len(c) : c[j].file \in 1 .. Len(chunks)
        BY <1>1, <3>1, PathFacts
      <3>5. QED
        BY <3>2, <3>3, <3>4
    <2>5. ASSUME NEW k \in 1 .. Len(more) PROVE Back(more, k) \in 0 .. k - 1
      BY <1>1, <2>2, <2>3, <2>4 DEF Back, OlderLinks
    <2>6. OlderLinks(more)
      BY <2>5 DEF OlderLinks
    <2>7. QED
      BY <2>1, <2>6 DEF OlderLinks, Back
  <1>3. CASE ~ WriteChunk
    <2>1. UNCHANGED chunks
      BY <1>3 DEF Next, Write, Read, AppendRow, RecordFailure, CallFlush, Flush, WriteManifest,
                  SwapState, KeepFingerprint, FlushRaises, ChunksAfterFault, Die, vars, writer,
                  ReadManifest, WalkLink, WalkEnds, ReadChunk, ReadEnds
    <2>2. QED
      BY <2>1 DEF OlderLinks, Back
  <1>4. QED
    BY <1>2, <1>3

\* The same after a step.
LEMMA PublishedAfter ==
  SInv' /\ OlderLinks(chunks)' => (Published = FirstRows(Covered) /\ Covered \in 0 .. accepted)'
  BY PublishedRows, PTL

\* An append accepts the next row, a manifest commits all of them, a death loses those
\* that no manifest covers, and nothing else touches the log.
LEMMA StoreRefines ==
  ASSUME SInv, OlderLinks(chunks), SInv', OlderLinks(chunks)', [Next]_vars
  PROVE  [Log!Next]_Log!vars
  <1>1. /\ accepted \in 0 .. MaxRows /\ accepted' \in 0 .. MaxRows
        /\ Published = FirstRows(Covered) /\ Covered \in 0 .. accepted
        /\ Published' = FirstRows(Covered') /\ Covered' \in 0 .. accepted'
    BY PublishedRows, PublishedAfter DEF SInv, TypeOK
  <1>2. /\ FirstRows(accepted) \in Seq(1 .. MaxRows) /\ Len(FirstRows(accepted)) = accepted
        /\ FirstRows(Covered) \in Seq(1 .. MaxRows) /\ Len(FirstRows(Covered)) = Covered
    BY <1>1, Bounds, FirstRowsForm
  <1>3. CASE AppendRow
    <2>1. /\ pc # "dead" /\ pc' # "dead" /\ accepted' = accepted + 1 /\ UNCHANGED manifest
      BY <1>3 DEF AppendRow
    <2>2. Covered' = Covered /\ Published' = Published
      BY <1>1, <2>1 DEF Covered
    <2>3. FirstRows(accepted + 1) = Append(FirstRows(accepted), accepted + 1)
      <3> DEFINE r == accepted + 1
      <3>1. r \in 1 .. MaxRows /\ r \in Nat
        BY <1>1, <2>1, Bounds
      <3>2. Append(FirstRows(accepted), r) = FirstRows(accepted) \o <<r>>
        BY <1>2, <3>1, AppendIsConcat
      <3>3. <<r>> \in Seq(1 .. MaxRows) /\ Len(<<r>>) = 1 /\ <<r>>[1] = r
        BY <3>1
      <3>4. \A k \in 1 .. Len(<<r>>) : <<r>>[k] = accepted + k
        BY <1>1, <3>3
      <3>5. FirstRows(accepted) \o <<r>> = FirstRows(accepted + Len(<<r>>))
        <4>1. accepted + Len(<<r>>) <= MaxRows
          BY <1>1, <2>1, <3>3, Bounds
        <4> DEFINE more == <<r>>
        <4>2. /\ more \in Seq(1 .. MaxRows) /\ accepted + Len(more) <= MaxRows
              /\ \A k \in 1 .. Len(more) : more[k] = accepted + k
          BY <3>3, <3>4, <4>1
        <4> HIDE DEF more
        <4>3. FirstRows(accepted) \o more = FirstRows(accepted + Len(more))
          BY <1>1, <4>2, FirstRowsGrow
        <4>4. QED
          BY <4>3 DEF more
      <3>6. QED
        BY <3>2, <3>3, <3>5
    <2>4. accepted + 1 \in 1 .. MaxRows
      BY <1>1, <2>1, Bounds
    <2>5. Log!Accept
      BY <2>1, <2>2, <2>3, <2>4 DEF Log!Accept, FirstRows
    <2>6. QED
      BY <2>5 DEF Log!Next
  <1>4. CASE WriteManifest
    <2>1. /\ pc = "manifest" /\ pc' = "swap" /\ accepted' = accepted
          /\ manifest' = [rows |-> new, notes |-> notes]
      BY <1>4 DEF WriteManifest
    <2>2. manifest' # None
      BY <2>1, NoneAssumption DEF SInv, TypeOK
    <2>3. Covered' = accepted
      BY <2>1, <2>2 DEF Covered, SInv, WriterCounts
    <2>4. Published' = Log!Prefix(FirstRows(accepted), accepted)
      BY <1>2, SubSeqFull, <1>1, <2>3 DEF Log!Prefix
    <2>5. accepted \in Covered .. accepted
      BY <1>1, Bounds
    <2>6. Log!Commit
      BY <1>1, <1>2, <2>1, <2>4, <2>5 DEF Log!Commit, FirstRows
    <2>7. QED
      BY <2>6 DEF Log!Next
  <1>5. CASE Die
    <2>1. pc # "dead" /\ pc' = "dead" /\ UNCHANGED <<accepted, manifest>>
      BY <1>5 DEF Die
    <2>2. Covered' = Covered /\ Published' = Published
      BY <1>1, <2>1 DEF Covered
    <2>3. FirstRows(Covered) = Log!Prefix(FirstRows(accepted), Covered)
      <3> DEFINE s == FirstRows(accepted)
                 t == FirstRows(Covered)
                 p == SubSeq(s, 1, Covered)
      <3>1. Covered \in 0 .. MaxRows
        BY <1>1, Bounds
      <3>2. Covered \in 0 .. accepted /\ Covered \in Nat /\ accepted \in Nat
        BY <1>1, Bounds
      <3>3. s \in Seq(1 .. MaxRows) /\ Len(s) = accepted /\ \A k \in 1 .. accepted : s[k] = k
        BY <1>1, FirstRowsForm
      <3>4. t \in Seq(1 .. MaxRows) /\ Len(t) = Covered /\ \A k \in 1 .. Covered : t[k] = k
        BY <3>1, FirstRowsForm
      <3> HIDE DEF s, t
      <3>5. /\ p \in Seq(1 .. MaxRows) /\ Len(p) = Covered /\ \A k \in 1 .. Covered : p[k] = s[k]
        <4>1. /\ \A k \in 1 .. Covered : s[k] \in 1 .. MaxRows /\ (1 + k) - 1 = k
              /\ (Covered - 1) + 1 = Covered
          BY <3>1, <3>2, Bounds, <3>3
        <4>2. /\ p \in Seq(1 .. MaxRows)
              /\ Len(p) = IF 1 <= Covered THEN (Covered - 1) + 1 ELSE 0
              /\ \A k \in 1 .. (Covered - 1) + 1 : p[k] = s[(1 + k) - 1]
          BY <3>2, <4>1, SubSeqProperties
        <4> HIDE DEF p
        <4>3. QED
          BY <3>2, <4>1, <4>2
      <3> HIDE DEF p
      <3>6. \A k \in 1 .. Covered : p[k] = t[k]
        BY <3>2, <3>3, <3>4, <3>5
      <3>7. t = p
        BY <3>4, <3>5, <3>6, SeqEqual
      <3>8. QED
        BY <3>7 DEF Log!Prefix, s, t, p
    <2>4. Covered \in Covered .. accepted
      BY <1>1, Bounds
    <2>5. Log!Lose
      BY <1>1, <1>2, <2>1, <2>2, <2>3, <2>4 DEF Log!Lose, FirstRows
    <2>6. QED
      BY <2>5 DEF Log!Next
  <1>6. CASE ~ AppendRow /\ ~ WriteManifest /\ ~ Die
    <2>1. /\ UNCHANGED <<accepted, manifest>> /\ (pc' = "dead" <=> pc = "dead")
      BY <1>6 DEF Next, Write, Read, RecordFailure, CallFlush, Flush, WriteChunk,
                  SwapState, KeepFingerprint, FlushRaises, vars, writer,
                  ReadManifest, WalkLink, WalkEnds, ReadChunk, ReadEnds
    <2>2. Published' = Published
      BY <1>1, <2>1 DEF Covered
    <2>3. QED
      BY <2>1, <2>2 DEF Log!vars
  <1>7. QED
    BY <1>3, <1>4, <1>5, <1>6

\* In every program the chunked store implements the checkpointed log: a retried,
\* interrupted or abandoned flush never changes, drops or reorders a committed row
\* (storage.py:154-230, "immutable, sequential chunks").
THEOREM TraceStoreImplementsLog == HostSpec => ImplementsLog
  <1>1. Init => OlderLinks(chunks)
    BY DEF Init, OlderLinks
  <1>2. Init => Log!Init
    BY DEF Init, Published, Log!Init
  <1>3. SInv /\ SInv' /\ OlderLinks(chunks) /\ OlderLinks(chunks)' /\ [Next]_vars
        => [Log!Next]_Log!vars
    BY StoreRefines
  <1>4. Spec => ImplementsLog
    BY <1>1, <1>2, <1>3, StoreInvariant, LinksStayOlder, PTL DEF Spec, ImplementsLog, Log!Spec
  <1>5. QED
    BY <1>4, StoreUsedByItsOperations

-----------------------------------------------------------------------------
(* What a program holds at each of its phases.                             *)

Programs == {"store", "experiment", "run", "selfcheck", "monitor", "acquire"}

\* The phases without the lock file of the port, and those without its device.
Unlocked ==
  \/ phase \in {"start", "over"}
  \/ program = "selfcheck" /\ phase \in {"scope", "setup", "clock", "lock", "release"}
  \/ program = "acquire" /\ phase = "open"
Shut == Unlocked \/ phase \in {"port", "unlock"}

PortGiven ==
  /\ Unlocked => flock # "cli"
  /\ Shut => "cli" \notin opened

\* The phases without the scope; how a program ended is known before it lets go.
Ending == {"disconnect", "shut", "unlock", "release", "over"}
ScopeGiven ==
  /\ DOMAIN husky = DOMAIN Off
  /\ program \in {"run", "monitor"} => ~ husky.handle
  /\ program = "experiment" /\ phase \in {"start", "port", "commands", "shut", "unlock", "over"}
     => ~ husky.handle
  /\ program = "selfcheck" /\ status = "ok"
     => phase \in Ending \ {"disconnect"} /\ (phase = "over" => ~ husky.handle)
  /\ program = "acquire"
     => /\ status # "running" => phase \in Ending \ {"release"}
        /\ phase \in {"disconnect", "over"} => status # "running"
        /\ phase \in {"shut", "unlock", "over"} /\ status # "running" => ~ husky.handle

Given == program \in Programs /\ (program = "store" => phase = "start") /\ PortGiven /\ ScopeGiven

\* A step that leaves the port, the program and the handle of the scope as they are.
LeavesPort == UNCHANGED <<flock, opened, program>>
LeavesHandle == DOMAIN husky' = DOMAIN husky /\ husky'.handle = husky.handle

\* The records of the scope.
LEMMA HandleKept ==
  ASSUME DOMAIN husky = DOMAIN Off
  PROVE  /\ UNCHANGED husky => LeavesHandle
         /\ husky' = Armed => LeavesHandle
         /\ \A size : husky' = Fitted(size) => LeavesHandle
         /\ \A ask : husky' = Triggered(ask) => LeavesHandle
         /\ SetUpScope => LeavesHandle
         /\ \A p, b : BringUpClock(p, b) => LeavesHandle
         /\ OpenScope => DOMAIN husky' = DOMAIN husky
         /\ Disconnect => DOMAIN husky' = DOMAIN husky /\ ~ husky'.handle
  <1> USE DEF LeavesHandle, Off
  <1>1. DOMAIN husky =
          {"handle", "cw305", "source", "hs2", "samples", "armed", "caught"}
    OBVIOUS
  <1>2. UNCHANGED husky => LeavesHandle
    OBVIOUS
  <1>3. husky' = Armed => LeavesHandle
    BY <1>1 DEF Armed
  <1>4. \A size : husky' = Fitted(size) => LeavesHandle
    BY <1>1 DEF Fitted
  <1>5. \A ask : husky' = Triggered(ask) => LeavesHandle
    BY <1>1 DEF Triggered
  <1>6. SetUpScope => LeavesHandle
    BY <1>1 DEF SetUpScope
  <1>7. \A p, b : BringUpClock(p, b) => LeavesHandle
    BY <1>1 DEF BringUpClock, SetClock, ProgramFpga, SyncExtclk
  <1>8. OpenScope => DOMAIN husky' = DOMAIN husky
    BY <1>1 DEF OpenScope
  <1>9. Disconnect => DOMAIN husky' = DOMAIN husky /\ ~ husky'.handle
    BY <1>1 DEF Disconnect
  <1>10. QED
    BY <1>2, <1>3, <1>4, <1>5, <1>6, <1>7, <1>8, <1>9

\* Commands, answers and reboots touch neither the lock file nor the device.
LEMMA LineKeepsPort ==
  /\ \A value : Ask(value) \/ RunCore(value) => UNCHANGED <<flock, opened>>
  /\ AskWord => UNCHANGED <<flock, opened>>
  /\ \A ask : ReadFrame(ask) \/ NoFrame(ask) => UNCHANGED <<flock, opened>>
  /\ SkipsText => UNCHANGED <<flock, opened, program, phase, status, husky>>
  /\ UNCHANGED link => UNCHANGED <<flock, opened>>
  /\ \A image : Boot(image) => UNCHANGED <<flock, opened>>
  BY DEF Ask, Send, RunCore, AskWord, ReadFrame, TakeFrame, NoFrame, GiveUp, SkipsText, SkipText,
         session, link, Boot

\* The lock file is taken, or the program goes where the refusal sends it.
LEMMA OpensLock ==
  ASSUME NEW next, NEW failed, OpenLock(next, failed)
  PROVE  /\ UNCHANGED <<opened, husky, program>>
         /\ \/ flock' = "cli" /\ phase' = next /\ status' = status
            \/ flock' = flock /\ phase' = failed /\ status' = "error"
  BY DEF OpenLock, TakeFlock, link

\* A port that cannot be opened gives the lock file back.
LEMMA OpensPort ==
  ASSUME NEW next, NEW failed, OpenPort(next, failed)
  PROVE  /\ UNCHANGED <<husky, program>>
         /\ \/ flock' = flock /\ phase' = next /\ status' = status
            \/ flock' # "cli" /\ opened' = opened /\ phase' = failed /\ status' = "error"
  BY FreeAssumption DEF OpenPort, OpenSerial, ReleaseFlock

\* close, first half: the device.
LEMMA Shuts ==
  ShutDevice => /\ UNCHANGED <<flock, husky, program, status>>
                /\ "cli" \notin opened' /\ phase = "shut" /\ phase' = "unlock"
  BY DEF ShutDevice, CloseSerial

\* close, second half: the lock file.
LEMMA Unlocks ==
  ASSUME NEW next, ShutLock(next)
  PROVE  /\ UNCHANGED <<opened, husky, program, status>>
         /\ flock' # "cli" /\ phase = "unlock" /\ phase' = next
  BY FreeAssumption DEF ShutLock, ReleaseFlock

\* A program begins with nothing.
LEMMA InitGiven == HostInit => Given
  <1> SUFFICES ASSUME HostInit PROVE Given
    OBVIOUS
  <1>1. PICK dead, results : BoardInit(dead, results) /\ program \in Programs
    BY DEF HostInit, Programs
  <1>2. /\ phase = "start" /\ status = "running" /\ husky = Off
        /\ flock \in {Free, "gui"} /\ opened = {flock} \ {Free}
    BY <1>1 DEF BoardInit
  <1>3. flock # "cli" /\ "cli" \notin opened
    BY <1>2, FreeAssumption
  <1>4. ~ husky.handle /\ DOMAIN husky = DOMAIN Off
    BY <1>2 DEF Off
  <1>5. QED
    BY <1>1, <1>2, <1>3, <1>4 DEF Given, PortGiven, ScopeGiven, Programs

-----------------------------------------------------------------------------
(* The steps of each program.                                              *)

\* The port and the scope as they were, in the same phase, keep what is given.
LEMMA NothingMoves ==
  ASSUME Given, UNCHANGED <<flock, opened, program, phase, status>>, LeavesHandle
  PROVE  Given'
  <1> USE DEF LeavesHandle, Given
  <1>1. PortGiven'
    BY DEF PortGiven, Unlocked, Shut
  <1>2. ScopeGiven'
    BY DEF ScopeGiven, Ending
  <1>3. QED
    BY <1>1, <1>2

\* Refused, the program is over; it holds nothing.
LEMMA TakesLock ==
  ASSUME Given, program \in {"experiment", "run", "monitor", "selfcheck"},
         phase = "start" \/ (program = "selfcheck" /\ phase = "lock"),
         OpenLock("port", "over")
  PROVE  Given'
  <1> USE DEF Given
  <1>1. /\ UNCHANGED <<opened, husky, program>>
        /\ \/ flock' = "cli" /\ phase' = "port" /\ status' = status
           \/ flock' = flock /\ phase' = "over" /\ status' = "error"
    BY OpensLock
  <1>2. PortGiven'
    BY <1>1 DEF PortGiven, Unlocked, Shut
  <1>3. ScopeGiven'
    BY <1>1 DEF ScopeGiven, Ending
  <1>4. QED
    BY <1>1, <1>2, <1>3

\* Opened, the program has both; failed, it has neither.
LEMMA TakesPort ==
  ASSUME Given, program \in {"experiment", "run", "monitor", "selfcheck"}, phase = "port",
         NEW next \in {"commands", "sendback"}, OpenPort(next, "over"),
         program # "experiment" => next = "sendback"
  PROVE  Given'
  <1> USE DEF Given
  <1>1. /\ UNCHANGED <<husky, program>>
        /\ \/ flock' = flock /\ phase' = next /\ status' = status
           \/ flock' # "cli" /\ opened' = opened /\ phase' = "over" /\ status' = "error"
    BY OpensPort
  <1>2. PortGiven'
    BY <1>1 DEF PortGiven, Unlocked, Shut
  <1>3. ScopeGiven'
    BY <1>1 DEF ScopeGiven, Ending
  <1>4. QED
    BY <1>1, <1>2, <1>3

\* With the device gone the lock file is next.
LEMMA LeavesDevice == ASSUME Given, ShutDevice PROVE Given'
  <1> USE DEF Given
  <1>1. /\ UNCHANGED <<flock, husky, program, status>>
        /\ "cli" \notin opened' /\ phase = "shut" /\ phase' = "unlock"
    BY Shuts
  <1>2. PortGiven'
    BY <1>1 DEF PortGiven, Unlocked, Shut
  <1>3. ScopeGiven'
    BY <1>1 DEF ScopeGiven, Ending
  <1>4. QED
    BY <1>1, <1>2, <1>3

\* The phase that lets go of the lock file has let go of the device.
LEMMA LeavesLock ==
  ASSUME Given, NEW next, ShutLock(next)
  PROVE  /\ PortGiven' /\ UNCHANGED <<husky, program, status>>
         /\ program # "store" /\ phase = "unlock" /\ phase' = next
  BY Unlocks DEF Given, PortGiven, Shut

\* A user of the store is not at the board.
LEMMA StoreKeeps == ASSUME Given, StoreProgram PROVE Given'
  BY NothingMoves DEF StoreProgram, device, link, session, LeavesHandle

\* The board and another terminal leave a program what it has.
LEMMA WorldKeeps == ASSUME Given, World PROVE Given'
  BY HandleKept, NothingMoves
     DEF Given, ScopeGiven, Trigger, Sends, ControllerSends, KeepsSilent, ControllerSilent,
         Reboot, Boot, World, session

\* The capture program.
LEMMA ExperimentWorks ==
  ASSUME Given, program = "experiment", program' = program, DOMAIN husky' = DOMAIN husky,
         phase' \notin {"start", "port", "commands", "shut", "unlock", "over"}
  PROVE  Given'
  BY DEF PortGiven, Unlocked, Shut, Given, ScopeGiven

\* What the steps between connecting and closing do to the phase and the scope.
LEMMA ExperimentGoesOn ==
  ASSUME Given, ConfigureTarget \/ ConnectScope \/ CreateStore \/ Fit \/ Capture \/ Raises
  PROVE  /\ program' = program /\ DOMAIN husky' = DOMAIN husky
         /\ phase' \notin {"start", "port", "commands", "shut", "unlock", "over"}
  <1> USE DEF Goto, Stays, device
  <1>1. DOMAIN husky = DOMAIN Off
    BY DEF Given, ScopeGiven
  <1>2. LeavesHandle => DOMAIN husky' = DOMAIN husky
    BY DEF LeavesHandle
  <1>3. UNCHANGED husky => DOMAIN husky' = DOMAIN husky
    OBVIOUS
  <1>4. Launch => DOMAIN husky' = DOMAIN husky
    BY <1>1, <1>2, HandleKept DEF Launch
  <1>5. CASE ConfigureTarget
    BY <1>5 DEF ConfigureTarget
  <1>6. CASE ConnectScope
    BY <1>6, <1>1, <1>2, HandleKept DEF ConnectScope
  <1>7. CASE CreateStore
    BY <1>7 DEF CreateStore
  <1>8. CASE Fit
    BY <1>4, <1>1, <1>2, HandleKept, <1>8
       DEF FitLaunches, FitReads, FitCaptures, FitGrows, FitEnds, Fit
  <1>9. CASE Capture
    BY <1>4, <1>9 DEF RowLaunches, RowReads, RowCaptures, RowFails, StoreRow, Capture
  <1>10. CASE Raises
    BY <1>10 DEF Raises
  <1>11. QED
    BY <1>5, <1>6, <1>7, <1>8, <1>9, <1>10

\* The checkpoints lead from one working phase to another.
LEMMA KeepKeeps == ASSUME Given, program = "experiment", Keep PROVE Given'
  <1> USE DEF Goto, Stays
  <1>1. CASE StoreWorks
    BY <1>1, NothingMoves DEF StoreWorks, device, link, session, LeavesHandle
  <1>2. CASE StoreRaised \/ CountRow \/ LoopGoesOn \/ LoopEnds \/ Save \/ Saved
    BY <1>2, ExperimentWorks DEF StoreRaised, CountRow, LoopGoesOn, LoopEnds, Save, Saved, device
  <1>3. QED
    BY <1>1, <1>2 DEF Keep

\* The steps of the capture program, Ctrl-C and SIGKILL among them.
LEMMA ExperimentKeeps == ASSUME Given, Experimented \/ ExperimentDisturbed PROVE Given'
  <1>0. program = "experiment"
    BY DEF Experimented, ExperimentDisturbed
  <1>1. DOMAIN husky = DOMAIN Off /\ program = "experiment"
    BY <1>0 DEF Given, ScopeGiven
  <1>2. CASE Connect
    BY <1>0, TakesLock, TakesPort, <1>2 DEF Connect
  <1>3. CASE ConfigureTarget \/ ConnectScope \/ CreateStore \/ Fit \/ Capture \/ Raises
    BY <1>3, <1>0, ExperimentGoesOn, ExperimentWorks
  <1>4. CASE Keep
    BY <1>4, <1>0, KeepKeeps
  <1>5. CASE DisconnectScope
    BY <1>5, <1>1, HandleKept, <1>0
       DEF DisconnectScope, Goto, PortGiven, Unlocked, Shut, ScopeGiven, Given
  <1>6. CASE Close
    BY LeavesDevice, LeavesLock, <1>0, <1>6 DEF Given, ScopeGiven, Close
  <1>7. CASE Killed
    BY <1>7, FreeAssumption, <1>1, HandleKept, <1>0 DEF Killed, Dies, PortGiven, ScopeGiven, Given
  <1>8. CASE SkipsText
    BY <1>8, LineKeepsPort, NothingMoves DEF LeavesHandle
  <1>9. QED
    BY <1>2, <1>3, <1>4, <1>5, <1>6, <1>7, <1>8
       DEF Experimented, ExperimentDisturbed, Experimenting, Prepare

-----------------------------------------------------------------------------
(* The steps of the other programs.                                        *)

\* "proact run" and "proact monitor" have no scope.
LEMMA PlainGoesOn ==
  ASSUME Given, program \in {"run", "monitor"}, program' = program, husky' = husky,
         phase' \notin {"start", "port", "unlock", "over"}
  PROVE  Given'
  BY DEF PortGiven, Unlocked, Shut, Given, ScopeGiven

\* They end with the port.
LEMMA PlainEnds ==
  ASSUME Given, program \in {"run", "monitor"}, ShutDevice \/ ShutLock("over")
  PROVE  Given'
  BY LeavesDevice, LeavesLock DEF Given, ScopeGiven

\* The steps of "proact run" and of the experiment of the GUI.
LEMMA RunKeeps == ASSUME Given, Operated \/ OperationDisturbed PROVE Given'
  <1>0. program = "run"
    BY DEF Operated, OperationDisturbed
  <1>1. CASE OperationsConnect
    BY <1>0, TakesLock, TakesPort, <1>1, PlainGoesOn DEF OperationsConnect, Proceed
  <1>2. CASE Operates \/ AsksTimer
    BY <1>2, <1>0, PlainGoesOn DEF Operates, AsksTimer, Proceed
  <1>3. CASE ReadsOutput
    BY <1>3, <1>0, PlainGoesOn DEF ReadsOutput, Proceed
  <1>4. CASE ReadsTimer \/ OperationFails
    BY <1>4, <1>0, PlainGoesOn DEF ReadsTimer, OperationFails, PrintsRow, Proceed, StopsWith
  <1>5. CASE OperationsEnd \/ OperationsInterrupted
    BY <1>5, <1>0, PlainGoesOn DEF OperationsEnd, OperationsInterrupted, StopsWith
  <1>6. CASE ShutDevice \/ ShutLock("over")
    BY <1>6, <1>0, PlainEnds
  <1>7. CASE SkipsText
    BY <1>7, LineKeepsPort, NothingMoves DEF LeavesHandle
  <1>8. QED
    BY <1>1, <1>2, <1>3, <1>4, <1>5, <1>6, <1>7 DEF Operated, OperationDisturbed, Operating

\* The steps of the monitor.
LEMMA MonitorKeeps == ASSUME Given, Monitored \/ MonitorEnds PROVE Given'
  BY TakesLock, TakesPort, PlainGoesOn, NothingMoves, PlainEnds
     DEF Monitored, MonitorEnds, MonitorConnects, Watches, link, session, LeavesHandle,
         StopsWatching, Monitoring

\* The self-check: between the steps on the port and on the scope only its end
\* says "ok".
LEMMA CheckGoesOn ==
  ASSUME Given, program = "selfcheck", program' = program, LeavesHandle,
         phase' \in {"sendback", "check", "answer", "trace", "drain", "shut"},
         status' = "ok" => phase' = "shut"
  PROVE  Given'
  BY DEF PortGiven, Unlocked, Shut, Given, ScopeGiven, LeavesHandle, Ending

\* Before it has the lock file, the scope may come and go.
LEMMA CheckBegins ==
  ASSUME Given, program = "selfcheck", Begins \/ FindsScope
  PROVE  Given'
  <1> USE DEF Given
  <1>1. phase \in {"start", "scope", "setup", "clock"} /\ UNCHANGED <<flock, opened>>
    BY LineKeepsPort DEF Begins, FindsScope
  <1>2. /\ program' = program
        /\ \/ phase' \in {"scope", "setup", "clock", "lock"} /\ status' = status
           \/ phase' = "over" /\ status' = "error"
    BY DEF Begins, FindsScope, To
  <1>3. DOMAIN husky' = DOMAIN husky
    BY HandleKept DEF Begins, FindsScope, ScopeGiven, LeavesHandle
  <1>4. status # "ok"
    BY <1>1 DEF ScopeGiven, Ending
  <1>5. PortGiven'
    BY <1>1, <1>2 DEF PortGiven, Unlocked, Shut
  <1>6. ScopeGiven'
    BY <1>2, <1>3, <1>4 DEF ScopeGiven
  <1>7. QED
    BY <1>2, <1>5, <1>6

\* The checks and the verdict.
LEMMA OneCheckKeeps ==
  ASSUME Given, program = "selfcheck", OneCheck \/ TurnsSendbackOn \/ Reports \/ Interrupted
  PROVE  Given'
  <1> USE DEF To
  <1>1. status = "ok" => phase \in {"shut", "unlock", "release", "over"}
    BY DEF Given, ScopeGiven, Ending
  <1>2. UNCHANGED husky => LeavesHandle
    BY DEF LeavesHandle
  <1>3. CASE SkipsCheck \/ JudgesAgain
    BY <1>3, <1>2, NothingMoves DEF SkipsCheck, JudgesAgain, link, session
  <1>4. CASE AsksNext
    BY <1>4, HandleKept, <1>1, CheckGoesOn DEF AsksNext, Given, ScopeGiven, Checking
  <1>5. CASE ReadsAnswer \/ FailsCheck \/ TakesTrace \/ Drains
    BY <1>5, <1>1, <1>2, CheckGoesOn DEF ReadsAnswer, FailsCheck, TakesTrace, Drains
  <1>6. CASE TurnsSendbackOn
    BY <1>6, <1>1, <1>2, CheckGoesOn DEF TurnsSendbackOn
  <1>7. CASE Reports \/ Interrupted
    BY <1>7, <1>2, CheckGoesOn DEF Reports, Interrupted
  <1>8. QED
    BY <1>3, <1>4, <1>5, <1>6, <1>7 DEF OneCheck

\* The steps of the self-check.
LEMMA SelfCheckKeeps == ASSUME Given, SelfChecked \/ SelfCheckDisturbed PROVE Given'
  <1>0. program = "selfcheck"
    BY DEF SelfChecked, SelfCheckDisturbed
  <1>1. DOMAIN husky = DOMAIN Off
    BY DEF Given, ScopeGiven
  <1>2. CASE Begins \/ FindsScope
    BY <1>2, <1>0, CheckBegins
  <1>3. CASE FindsPort
    BY <1>0, TakesLock, TakesPort, <1>3 DEF FindsPort
  <1>4. CASE OneCheck \/ TurnsSendbackOn \/ Reports \/ Interrupted
    BY <1>4, <1>0, OneCheckKeeps
  <1>5. CASE ShutDevice
    BY <1>5, LeavesDevice
  <1>6. CASE ShutLock("release")
    BY <1>6, LeavesLock, <1>0 DEF Given, ScopeGiven, Ending
  <1>7. CASE ReleasesScope
    BY <1>7, <1>1, HandleKept, <1>0
       DEF ReleasesScope, To, link, Given, PortGiven, Unlocked, Shut, ScopeGiven, Ending
  <1>8. CASE SkipsText
    BY <1>8, LineKeepsPort, NothingMoves DEF LeavesHandle
  <1>9. QED
    BY <1>2, <1>3, <1>4, <1>5, <1>6, <1>7, <1>8
       DEF SelfChecked, SelfCheckDisturbed, SelfChecking, Connecting, LetsGo

\* The bring-up of a campaign: it works, or it has given up and closes.
LEMMA BringUpGoesOn ==
  ASSUME Given, program = "acquire", program' = program, LeavesHandle,
         \/ /\ status = "running" /\ status' = status
            /\ phase' \in {"sendback", "select", "load", "run", "answer", "trace", "ready",
                            "reprogram", "shut"}
         \/ status' # "running" /\ phase' = "disconnect"
  PROVE  Given'
  BY DEF PortGiven, Unlocked, Shut, Given, ScopeGiven, LeavesHandle, Ending

\* A refused port closes the instrument.
LEMMA OpensTargetKeeps == ASSUME Given, program = "acquire", OpensTarget PROVE Given'
  <1> USE DEF Given
  <1>1. DOMAIN husky = DOMAIN Off
    BY DEF ScopeGiven
  <1>2. CASE phase = "open" /\ OpenLock("port", "disconnect")
    BY <1>2, OpensLock DEF PortGiven, Unlocked, Shut, ScopeGiven, Ending
  <1>3. CASE phase = "port" /\ OpenPort("sendback", "disconnect")
    BY <1>3, OpensPort DEF PortGiven, Unlocked, Shut, ScopeGiven, Ending
  <1>4. CASE phase = "sendback"
    BY <1>4, BringUpGoesOn DEF OpensTarget, GoesTo, ScopeGiven, Ending, LeavesHandle
  <1>5. QED
    BY <1>2, <1>3, <1>4 DEF OpensTarget

\* What the steps of the bring-up and of the preflight do to the phase and the scope.
LEMMA BringsUp ==
  ASSUME Given, program = "acquire",
         \/ SelectsCore \/ LoadsProgram \/ Runs \/ Verifies \/ VerifyRaises \/ Reprograms
         \/ Preflights \/ CampaignEnds \/ AdapterRaises
  PROVE  Given'
  <1> DEFINE working == {"select", "load", "run", "answer", "trace", "reprogram", "sendback"}
             next == {"load", "run", "answer", "trace", "ready", "reprogram", "shut"}
             onward == phase' \in next /\ UNCHANGED <<program, status>>
             given == program' = program /\ status' # "running" /\ phase' = "disconnect"
  <1> USE DEF GoesTo, GivesUp
  <1>1. status # "running" => phase \notin working \cup {"ready"}
    BY DEF Given, ScopeGiven, Ending
  <1>2. UNCHANGED husky => LeavesHandle
    BY DEF LeavesHandle
  <1>3. Runs => LeavesHandle
    BY HandleKept, <1>2 DEF Runs, Given, ScopeGiven
  <1>4. LeavesHandle
    BY <1>2, <1>3
       DEF SelectsCore, LoadsProgram, Verifies, VerifyRaises, Reprograms, Preflights,
           PreflightReads, PreflightMisses, PreflightCaptures, CampaignEnds, AdapterRaises
  <1>5. \A t : Proceeds(t) => onward \/ given
    BY DEF Proceeds
  <1>6. phase \in working \cup {"ready"}
    BY DEF SelectsCore, LoadsProgram, Runs, Verifies, VerifyRaises, Reprograms, Preflights,
           PreflightReads, PreflightMisses, PreflightCaptures, CampaignEnds, AdapterRaises
  <1>7. onward \/ given
    BY <1>5
       DEF SelectsCore, LoadsProgram, Runs, Verifies, Fails, VerifyRaises, Reprograms,
           PreflightReads, PreflightMisses, PreflightCaptures, Preflights, CampaignEnds,
           AdapterRaises
  <1>8. QED
    BY <1>1, <1>4, <1>6, <1>7, BringUpGoesOn

\* The steps of the start of a campaign.
LEMMA AcquireKeeps == ASSUME Given, Acquired \/ AcquireDisturbed PROVE Given'
  <1>0. program = "acquire"
    BY DEF Acquired, AcquireDisturbed
  <1>1. DOMAIN husky = DOMAIN Off
    BY DEF Given, ScopeGiven
  <1>2. CASE ConfiguresBackend
    BY <1>1, <1>2, HandleKept, <1>0
       DEF ConfiguresBackend, GoesTo, link, Given, ScopeGiven, Ending, PortGiven, Unlocked, Shut
  <1>3. CASE OpensTarget
    BY <1>3, <1>0, OpensTargetKeeps
  <1>4. CASE \/ SelectsCore \/ LoadsProgram \/ Runs \/ Verifies \/ VerifyRaises \/ Reprograms
             \/ Preflights \/ CampaignEnds \/ AdapterRaises
    BY <1>4, <1>0, BringsUp
  <1>5. CASE ShutDevice
    BY <1>5, LeavesDevice
  <1>6. CASE status = "running" /\ ShutLock("open")
    BY <1>6, LeavesLock, <1>0 DEF Given, ScopeGiven
  <1>7. CASE status # "running" /\ ShutLock("over")
    BY <1>7, LeavesLock, <1>0 DEF Given, ScopeGiven, Ending
  <1>8. CASE ClosesBackend
    BY <1>8, <1>1, HandleKept, <1>0
       DEF ClosesBackend, GoesTo, PortGiven, Unlocked, Shut, ScopeGiven, Ending, Given
  <1>9. CASE SkipsText
    BY <1>9, LineKeepsPort, NothingMoves DEF LeavesHandle
  <1>10. QED
    BY <1>2, <1>3, <1>4, <1>5, <1>6, <1>7, <1>8, <1>9
       DEF Acquired, AcquireDisturbed, Acquiring, BringingUp, Reopens, ClosesTarget

\* So does every step of every program.
LEMMA NextGiven == Given /\ [HostNext]_hostVars => Given'
  BY NothingMoves, StoreKeeps, WorldKeeps, ExperimentKeeps, RunKeeps, SelfCheckKeeps,
     MonitorKeeps, AcquireKeeps DEF hostVars, device, link, session, LeavesHandle, HostNext

\* Whatever a program was doing when it ended (success, an error at any step, a port
\* that was refused, Ctrl-C, SIGKILL), it holds neither the port nor its lock file, and
\* a capture program no scope (experiment.py:320, cli.py:548).
THEOREM ProgramsLetGo == HostSpec => []DevicesReleased
  <1>1. Given => DevicesReleased
    BY DEF Given, PortGiven, ScopeGiven, DevicesReleased, Unlocked, Shut, Programs, Ending
  <1>2. QED
    BY <1>1, InitGiven, NextGiven, PTL DEF HostSpec

-----------------------------------------------------------------------------
(* The answers on the line.                                                *)

IsAnswer(frame) == frame[1] = "answer"

\* The commands that a queue of frames answers, and that it answers them in order.
Numbers(frames) == {frames[k][2] : k \in {n \in 1 .. Len(frames) : IsAnswer(frames[n])}}
Rising(frames) ==
  \A i, j \in 1 .. Len(frames) :
    i < j /\ IsAnswer(frames[i]) /\ IsAnswer(frames[j]) => frames[i][2] < frames[j][2]

\* Every answer on its way to the program.
Owed == Numbers(rx) \cup Numbers(due)

\* Answers come in the order of their commands, each at most once.
InOrder ==
  /\ Rising(rx) /\ Rising(due)
  /\ \A m \in Numbers(rx), n \in Numbers(due) : m < n
  /\ Owed \subseteq 1 .. asked

LineSound == LinkTypeOK /\ InOrder /\ says \in Seq(Data) /\ Len(says) = asked

\* An answer frame names its command.
LEMMA FrameForms ==
  ASSUME NEW frame \in Frames
  PROVE  /\ IsAnswer(frame) => frame[2] \in Asks /\ frame = Answer(frame[2])
         /\ \A ask : frame = Answer(ask) => IsAnswer(frame)
  BY DEF Frames, IsAnswer, Answer, Banner

\* An empty queue answers nothing.
LEMMA NumbersOfNone == Numbers(<<>>) = {} /\ Rising(<<>>)
  BY DEF Numbers, Rising

\* The commands of a queue are the ones whose frames are in it.
LEMMA NumbersType ==
  ASSUME NEW frames \in Seq(Frames)
  PROVE  /\ Numbers(frames) \subseteq Asks
         /\ \A ask \in Asks : Answer(ask) \in ToSet(frames) <=> ask \in Numbers(frames)
  <1>1. ToSet(frames) = {frames[k] : k \in 1 .. Len(frames)}
    BY DEF ToSet
  <1>2. \A k \in 1 .. Len(frames) : frames[k] \in Frames
    OBVIOUS
  <1>3. ASSUME NEW ask \in Asks, Answer(ask) \in ToSet(frames) PROVE ask \in Numbers(frames)
    <2>1. PICK k \in 1 .. Len(frames) : frames[k] = Answer(ask)
      BY <1>1, <1>3
    <2>2. IsAnswer(frames[k]) /\ frames[k][2] = ask
      BY <2>1 DEF IsAnswer, Answer
    <2>3. QED
      BY <2>2 DEF Numbers
  <1>4. ASSUME NEW ask \in Numbers(frames) PROVE ask \in Asks /\ Answer(ask) \in ToSet(frames)
    <2>1. PICK k \in 1 .. Len(frames) : IsAnswer(frames[k]) /\ ask = frames[k][2]
      BY DEF Numbers
    <2>2. QED
      BY <1>1, <1>2, <2>1, FrameForms
  <1>5. QED
    BY <1>3, <1>4

\* The first frame is read.
LEMMA FirstTaken ==
  ASSUME NEW frames \in Seq(Frames), frames # <<>>
  PROVE  LET first == Head(frames)
             rest == Tail(frames)
         IN  /\ first \in Frames /\ rest \in Seq(Frames)
             /\ Numbers(rest) \subseteq Numbers(frames)
             /\ IsAnswer(first) => first[2] \in Numbers(frames)
             /\ ~ IsAnswer(first) => Numbers(frames) = Numbers(rest)
             /\ Rising(frames) => /\ Rising(rest)
                                  /\ IsAnswer(first) => \A n \in Numbers(rest) : first[2] < n
  <1> DEFINE first == Head(frames)
             rest == Tail(frames)
  <1>1. /\ first \in Frames /\ rest \in Seq(Frames) /\ Len(frames) \in Nat \ {0}
        /\ Len(rest) = Len(frames) - 1 /\ first = frames[1]
        /\ \A k \in 1 .. Len(rest) : rest[k] = frames[k + 1]
    BY HeadTailProperties
  <1> HIDE DEF first, rest
  <1>2. /\ 1 \in 1 .. Len(frames)
        /\ \A k \in 1 .. Len(rest) : k + 1 \in 1 .. Len(frames) /\ 1 < k + 1
        /\ \A k \in 1 .. Len(frames) : k = 1 \/ k - 1 \in 1 .. Len(rest)
        /\ \A k \in 1 .. Len(frames) : k # 1 => frames[k] = rest[k - 1]
    BY <1>1
  <1>3. Numbers(rest) \subseteq Numbers(frames)
    BY <1>1, <1>2 DEF Numbers
  <1>4. IsAnswer(first) => first[2] \in Numbers(frames)
    BY <1>1, <1>2 DEF Numbers
  <1>5. ~ IsAnswer(first) => Numbers(frames) \subseteq Numbers(rest)
    BY <1>1, <1>2 DEF Numbers
  <1>6. Rising(frames) => Rising(rest)
    BY <1>1, <1>2 DEF Rising
  <1>7. Rising(frames) /\ IsAnswer(first) => \A n \in Numbers(rest) : first[2] < n
    BY <1>1, <1>2 DEF Numbers, Rising
  <1>8. QED
    BY <1>1, <1>3, <1>4, <1>5, <1>6, <1>7 DEF first, rest

\* A frame is added.
LEMMA LastAdded ==
  ASSUME NEW frames \in Seq(Frames), NEW frame \in Frames
  PROVE  LET more == Append(frames, frame)
         IN  /\ more \in Seq(Frames)
             /\ ~ IsAnswer(frame) => Numbers(more) = Numbers(frames)
             /\ IsAnswer(frame) => Numbers(more) = Numbers(frames) \cup {frame[2]}
             /\ Rising(frames) /\ (IsAnswer(frame) => \A n \in Numbers(frames) : n < frame[2])
                => Rising(more)
  <1> DEFINE more == Append(frames, frame)
  <1>1. /\ more \in Seq(Frames) /\ Len(frames) \in Nat /\ Len(more) = Len(frames) + 1
        /\ \A k \in 1 .. Len(frames) : more[k] = frames[k]
        /\ more[Len(frames) + 1] = frame
    BY AppendProperties
  <1> HIDE DEF more
  <1>2. /\ \A k \in 1 .. Len(more) : k \in 1 .. Len(frames) \/ k = Len(frames) + 1
        /\ \A k \in 1 .. Len(frames) : k \in 1 .. Len(more)
        /\ Len(frames) + 1 \in 1 .. Len(more)
    BY <1>1
  <1>3. Numbers(frames) \subseteq Numbers(more)
    BY <1>1, <1>2 DEF Numbers
  <1>4. IsAnswer(frame) => frame[2] \in Numbers(more)
    BY <1>1, <1>2 DEF Numbers
  <1>5. ASSUME NEW n \in Numbers(more)
        PROVE  n \in Numbers(frames) \/ (IsAnswer(frame) /\ n = frame[2])
    <2>1. PICK k \in 1 .. Len(more) : IsAnswer(more[k]) /\ n = more[k][2]
      BY DEF Numbers
    <2>2. QED
      BY <1>1, <1>2, <2>1 DEF Numbers
  <1>6. Rising(frames) /\ (IsAnswer(frame) => \A n \in Numbers(frames) : n < frame[2])
        => Rising(more)
    BY <1>1, <1>2 DEF Rising, Numbers
  <1>7. QED
    BY <1>1, <1>3, <1>4, <1>5, <1>6 DEF more

-----------------------------------------------------------------------------
(* The steps of the line.                                                  *)

\* A step that is no command: the line may lose answers, and gets no new one.
Loses ==
  /\ LineSound' /\ asked' = asked /\ says' = says
  /\ Owed' \subseteq Owed /\ Numbers(due') \subseteq Numbers(due)

\* Steps of the port lose frames and bring none.
LEMMA LosesPort ==
  ASSUME LineSound, UNCHANGED says, NEW p \in Processes,
         \/ TakeFlock(p) \/ OpenSerial(p) \/ CloseSerial(p) \/ ReleaseFlock(p)
         \/ (\E asks \in SUBSET Asks : Dies(p, asks)) \/ UNCHANGED link
  PROVE  Loses
  BY EmptySeq, NumbersOfNone
     DEF LineSound, TakeFlock, OpenSerial, CloseSerial, ReleaseFlock, Dies, link, LinkTypeOK,
         StillComing, InOrder, Owed, Loses

\* The controller sends a frame, or never sends it.
LEMMA LosesFrame ==
  ASSUME LineSound, UNCHANGED says, ControllerSends \/ ControllerSilent
  PROVE  /\ Loses /\ due # <<>> /\ Head(due) \in Frames
         /\ IsAnswer(Head(due))
            => Head(due)[2] \in Numbers(due) /\ \A n \in Numbers(due') : Head(due)[2] < n
  <1>0. LinkTypeOK /\ InOrder /\ rx \in Seq(Frames) /\ due \in Seq(Frames)
    BY DEF LineSound, LinkTypeOK
  <1>1. /\ due # <<>> /\ due' = Tail(due) /\ asked' = asked
        /\ UNCHANGED <<flock, opened, firmware, running>>
        /\ rx' = rx \/ rx' = Append(rx, Head(due))
    BY DEF ControllerSends, ControllerSilent
  <1>2. abandoned' \subseteq Asks
    BY <1>0 DEF ControllerSends, ControllerSilent, LinkTypeOK, StillComing
  <1>3. /\ Head(due) \in Frames /\ due' \in Seq(Frames)
        /\ Numbers(due') \subseteq Numbers(due)
        /\ IsAnswer(Head(due))
           => Head(due)[2] \in Numbers(due) /\ \A n \in Numbers(due') : Head(due)[2] < n
        /\ Rising(due')
    BY <1>0, <1>1, FirstTaken DEF InOrder
  <1>4. CASE rx' = rx
    BY <1>0, <1>1, <1>2, <1>3, <1>4 DEF LinkTypeOK, InOrder, Owed, Loses, LineSound
  <1>5. CASE rx' = Append(rx, Head(due))
    <2>1. rx' \in Seq(Frames)
      BY <1>0, <1>3, <1>5, LastAdded
    <2>2. LinkTypeOK'
      BY <1>0, <1>1, <1>2, <1>3, <2>1 DEF LinkTypeOK
    <2>3. Numbers(rx') \subseteq Numbers(rx) \cup Numbers(due) /\ Rising(rx')
      BY <1>0, <1>3, <1>5, LastAdded DEF InOrder
    <2>4. IsAnswer(Head(due)) => Numbers(rx') = Numbers(rx) \cup {Head(due)[2]}
      BY <1>0, <1>3, <1>5, LastAdded
    <2>5. ~ IsAnswer(Head(due)) => Numbers(rx') = Numbers(rx)
      BY <1>0, <1>3, <1>5, LastAdded
    <2>6. \A m \in Numbers(rx'), n \in Numbers(due') : m < n
      BY <1>0, <1>3, <2>4, <2>5 DEF InOrder
    <2>7. Owed' \subseteq Owed
      BY <1>3, <2>3 DEF Owed
    <2>8. InOrder'
      BY <1>0, <1>1, <1>3, <2>3, <2>6, <2>7 DEF InOrder
    <2>9. QED
      BY <1>1, <1>3, <2>2, <2>7, <2>8 DEF Loses, LineSound
  <1>6. QED
    BY <1>1, <1>3, <1>4, <1>5

\* A restarted controller owes nothing; what it had sent before is still there.
LEMMA LosesByBoot ==
  ASSUME LineSound, UNCHANGED says, NEW image \in 0 .. MaxLoads, Boot(image)
  PROVE  Loses /\ Numbers(due') = {} /\ rx' = rx
  <1>0. LinkTypeOK /\ InOrder
    BY DEF LineSound
  <1>1. /\ due' = (IF image # 0 THEN <<Banner(image)>> ELSE <<>>) /\ rx' = rx
        /\ UNCHANGED <<flock, opened, asked>> /\ firmware' = image /\ running' \in BOOLEAN
    BY DEF Boot
  <1>2. image # 0 => Banner(image) \in Frames
    BY DEF Frames
  <1>3. due' \in Seq(Frames) /\ Numbers(due') = {} /\ Rising(due')
    BY <1>1, NumbersOfNone, <1>2 DEF Banner, IsAnswer, Numbers, Rising
  <1>4. abandoned' \subseteq Asks
    BY <1>0 DEF Boot, LinkTypeOK, StillComing
  <1>5. LinkTypeOK'
    BY <1>0, <1>1, <1>3, <1>4 DEF LinkTypeOK
  <1>6. Owed' \subseteq Owed /\ InOrder'
    BY <1>0, <1>1, <1>3 DEF InOrder, Owed
  <1>7. QED
    BY <1>1, <1>3, <1>5, <1>6 DEF Loses, LineSound

\* Text is skipped, and a command given up.
LEMMA LosesText ==
  ASSUME LineSound, UNCHANGED says, SkipText \/ \E ask \in Asks : GiveUp(ask)
  PROVE  Loses /\ due' = due /\ (rx = <<>> => rx' = rx)
  <1>0. LinkTypeOK /\ InOrder /\ rx \in Seq(Frames) /\ due \in Seq(Frames)
    BY DEF LineSound, LinkTypeOK
  <1>1. /\ due' = due /\ asked' = asked /\ UNCHANGED <<flock, opened, firmware, running>>
        /\ (rx # <<>> /\ rx' = Tail(rx)) \/ rx' = rx
    BY DEF SkipText, GiveUp
  <1>2. abandoned' \subseteq Asks
    BY <1>0 DEF SkipText, GiveUp, LinkTypeOK, StillComing
  <1>3. rx' \in Seq(Frames) /\ Numbers(rx') \subseteq Numbers(rx) /\ Rising(rx')
    BY ZenonT(60), <1>0, <1>1, FirstTaken DEF InOrder
  <1>4. LinkTypeOK'
    BY <1>0, <1>1, <1>2, <1>3 DEF LinkTypeOK
  <1>5. Owed' \subseteq Owed /\ InOrder'
    BY <1>0, <1>1, <1>3 DEF InOrder, Owed
  <1>6. QED
    BY <1>1, <1>4, <1>5 DEF Loses, LineSound, SkipText

\* The first answer is taken: it is one that was owed, and the others come after it.
LEMMA TakesFirst ==
  ASSUME LineSound, UNCHANGED says, NEW ask \in Asks, TakeFrame(ask)
  PROVE  LET got == Head(rx)[2]
         IN  /\ Loses /\ due' = due
             /\ got \in Owed /\ got \in Asks /\ got \in 1 .. asked
             /\ \A n \in Owed' : got < n
  <1> DEFINE got == Head(rx)[2]
  <1>0. LinkTypeOK /\ InOrder /\ rx \in Seq(Frames) /\ due \in Seq(Frames)
    BY DEF LineSound, LinkTypeOK
  <1>1. /\ due' = due /\ asked' = asked /\ UNCHANGED <<flock, opened, firmware, running>>
        /\ rx # <<>> /\ rx' = Tail(rx) /\ IsAnswer(Head(rx))
    BY DEF TakeFrame, IsAnswer
  <1>2. abandoned' \subseteq Asks
    BY <1>0 DEF TakeFrame, LinkTypeOK, StillComing
  <1>3. /\ rx' \in Seq(Frames) /\ Numbers(rx') \subseteq Numbers(rx) /\ Rising(rx')
        /\ got \in Numbers(rx) /\ \A n \in Numbers(rx') : got < n
    BY <1>0, <1>1, FirstTaken DEF InOrder
  <1>4. LinkTypeOK'
    BY <1>0, <1>1, <1>2, <1>3 DEF LinkTypeOK
  <1>5. Owed' \subseteq Owed /\ InOrder'
    BY <1>0, <1>1, <1>3 DEF InOrder, Owed
  <1>6. got \in Owed /\ got \in 1 .. asked /\ got \in Asks
    BY <1>0, <1>3, NumbersType DEF Owed, InOrder
  <1>7. \A n \in Owed' : got < n
    BY <1>0, <1>1, <1>3 DEF Owed, InOrder
  <1>8. QED
    BY <1>1, <1>3, <1>4, <1>5, <1>6, <1>7 DEF Loses, LineSound

\* A command is the last one asked, and so is its answer, if it has one.
LEMMA AsksOne ==
  ASSUME LineSound, NEW value \in Data, Ask(value)
  PROVE  /\ LineSound' /\ asked' = asked + 1 /\ asked' \in Asks
         /\ rx' = rx /\ Owed' \subseteq Owed \cup {asked'}
         /\ Numbers(due') \subseteq Numbers(due) \cup {asked'}
         /\ says' = Append(says, value) /\ says'[asked'] = value
         /\ \A k \in 1 .. asked : says'[k] = says[k]
         /\ UNCHANGED <<flock, opened, firmware, running>>
  <1>0. LinkTypeOK /\ InOrder /\ rx \in Seq(Frames) /\ due \in Seq(Frames) /\ asked \in Nat
    BY DEF LineSound, LinkTypeOK
  <1>1. asked' = asked + 1 /\ asked' \in Asks /\ asked' \in 0 .. MaxAsks
    BY <1>0, LinkBounds DEF LinkTypeOK, Ask, Send, Asks
  <1>2. /\ rx' = rx /\ UNCHANGED <<flock, opened, firmware, running>>
        /\ due' = due \/ due' = Append(due, Answer(asked'))
    BY DEF Ask, Send
  <1>3. abandoned' \subseteq Asks
    BY <1>0, <1>1 DEF LinkTypeOK, Ask, Send, StillComing
  <1>4. /\ Answer(asked') \in Frames /\ IsAnswer(Answer(asked')) /\ Answer(asked')[2] = asked'
    BY <1>1 DEF Frames, Answer, IsAnswer
  <1>5. \A n \in Owed : n < asked'
    BY <1>0, <1>1 DEF InOrder
  <1>6. /\ due' \in Seq(Frames) /\ Rising(due')
        /\ Numbers(due') \subseteq Numbers(due) \cup {asked'}
    BY <1>0, <1>2, <1>4, <1>5, LastAdded DEF InOrder, Owed
  <1>7. LinkTypeOK'
    BY <1>0, <1>1, <1>2, <1>3, <1>6 DEF LinkTypeOK
  <1>8. Owed' \subseteq Owed \cup {asked'}
    BY <1>2, <1>6 DEF Owed
  <1>9. InOrder'
    BY <1>0, <1>2, <1>5, <1>6, <1>1, <1>8 DEF InOrder, Owed
  <1>10. /\ says' = Append(says, value) /\ says' \in Seq(Data) /\ Len(says') = asked'
         /\ says'[asked'] = value /\ \A k \in 1 .. asked : says'[k] = says[k]
    BY <1>1, AppendProperties DEF LineSound, Ask
  <1>11. QED
    BY <1>1, <1>2, <1>6, <1>7, <1>8, <1>9, <1>10 DEF LineSound

-----------------------------------------------------------------------------
(* The scope and the session of any program at the board.                  *)

\* The program has asked something whose answer it has not read or given up.
Waits ==
  \/ phase \in {"answer", "fit answer", "fit cycles", "cycles", "drain"}
  \/ program = "selfcheck" /\ phase = "trace"

BoardTypeOK ==
  board \in [sendback : BOOLEAN, rng : BOOLEAN, dead : SUBSET Cores, result : Data,
             boots : 0 .. MaxTroubles, lost : 0 .. MaxTroubles]

SessionSound ==
  /\ LineSound /\ HuskyTypeOK(Asks) /\ BoardTypeOK
  /\ status \in {"running", "ok", "failed", "error", "killed"}
  /\ missed \in Nat /\ missed + (IF Waits THEN 1 ELSE 0) <= asked

\* A sound session has its types.
LEMMA SessionTyped == SessionSound => SessionTypeOK
  BY LinkBounds DEF SessionSound, LineSound, LinkTypeOK, SessionTypeOK, BoardTypeOK

\* Every step of the scope keeps its type.
LEMMA HuskyTyped ==
  ASSUME HuskyTypeOK(Asks),
         \/ OpenScope \/ SetUpScope \/ Disconnect \/ UNCHANGED husky
         \/ \E platform \in Platforms, bitstream \in BOOLEAN : BringUpClock(platform, bitstream)
         \/ husky' = Armed
         \/ \E size \in {"window", "garbage"} : husky' = Fitted(size)
         \/ \E k \in Asks : husky' = Triggered(k)
  PROVE  HuskyTypeOK(Asks)'
  <1> USE DEF HuskyTypeOK
  <1>1. CASE OpenScope
    BY <1>1 DEF OpenScope, Off
  <1>2. CASE SetUpScope
    BY <1>2 DEF SetUpScope
  <1>3. CASE Disconnect
    BY <1>3 DEF Disconnect
  <1>4. CASE UNCHANGED husky
    BY <1>4
  <1>5. ASSUME NEW platform \in Platforms, NEW bitstream \in BOOLEAN,
               BringUpClock(platform, bitstream)
        PROVE  HuskyTypeOK(Asks)'
    BY ZenonT(60), <1>5 DEF SetClock, ProgramFpga, SyncExtclk, BringUpClock
  <1>6. CASE husky' = Armed
    BY <1>6 DEF Armed
  <1>7. CASE \E size \in {"window", "garbage"} : husky' = Fitted(size)
    BY <1>7 DEF Fitted
  <1>8. CASE \E k \in Asks : husky' = Triggered(k)
    BY <1>8 DEF Triggered
  <1>9. QED
    BY <1>1, <1>2, <1>3, <1>4, <1>5, <1>6, <1>7, <1>8

\* A step without a command that begins or ends no waiting, or gives a command up,
\* keeps the session sound.
LEMMA SessionQuiet ==
  ASSUME SessionSound, Loses, HuskyTypeOK(Asks)', BoardTypeOK',
         status' \in {"running", "ok", "failed", "error", "killed"},
         \/ missed' = missed /\ (Waits' => Waits)
         \/ missed' = missed + 1 /\ Waits /\ ~ Waits'
  PROVE  SessionSound'
  BY LinkBounds DEF SessionSound, Loses, LineSound, LinkTypeOK

\* A command with an answer.
LEMMA SessionAsks ==
  ASSUME SessionSound, ~ Waits, NEW value \in Data, Ask(value), HuskyTypeOK(Asks)',
         BoardTypeOK', status' = status, missed' = missed
  PROVE  SessionSound'
  BY AsksOne, LinkBounds DEF SessionSound, LineSound, LinkTypeOK

\* The bound leaves room for one more trouble.
LEMMA TroublesCounted ==
  ASSUME SessionSound, Untroubled
  PROVE  board.boots + 1 \in 0 .. MaxTroubles /\ board.lost + 1 \in 0 .. MaxTroubles
  <1>1. abandoned \subseteq 1 .. MaxAsks /\ MaxAsks \in Nat /\ MaxTroubles \in Nat
    BY LinkBounds, ControllerBounds DEF SessionSound, LineSound, LinkTypeOK, Asks
  <1>2. IsFiniteSet(1 .. MaxAsks)
    BY <1>1, FS_Interval
  <1>3. Cardinality(abandoned) \in Nat
    BY <1>1, <1>2, FS_Subset, FS_CardinalityType
  <1>4. board.boots \in 0 .. MaxTroubles /\ board.lost \in 0 .. MaxTroubles
    BY DEF SessionSound, BoardTypeOK
  <1>5. QED
    BY <1>1, <1>3, <1>4 DEF Untroubled

\* What the board and another terminal do to a program that has the port.
WorldDoes ==
  /\ Loses /\ UNCHANGED <<program, phase, status, missed>>
  /\ board'.dead = board.dead /\ board'.result \in {board.result, Junk}
  /\ \/ board'.boots = board.boots /\ board'.rng = board.rng /\ board'.sendback = board.sendback
     \/ board'.boots = board.boots + 1 /\ Numbers(due') = {} /\ rx' = rx /\ UNCHANGED husky
  /\ \/ UNCHANGED husky
     \/ \E k \in Numbers(due) : /\ husky' = Triggered(k) /\ IsRun(k)
                                /\ \A n \in Numbers(due') : k < n

\* A frame that leaves may be that of a run, whose trigger the scope sees.
LEMMA TriggerForms ==
  ASSUME LineSound, UNCHANGED says, ControllerSends \/ ControllerSilent,
         Trigger(Head(due)) \/ husky' = husky
  PROVE  \/ UNCHANGED husky
         \/ \E k \in Numbers(due) : /\ husky' = Triggered(k) /\ IsRun(k)
                                    /\ \A n \in Numbers(due') : k < n
  BY LosesFrame DEF Trigger, IsAnswer

\* What the board and the other terminal do is no more than WorldDoes.
LEMMA WorldSound ==
  ASSUME SessionSound, World
  PROVE  SessionSound' /\ WorldDoes
  <1>0. LineSound /\ LinkTypeOK /\ HuskyTypeOK(Asks) /\ BoardTypeOK
        /\ Numbers(due) \subseteq Asks
        /\ status \in {"running", "ok", "failed", "error", "killed"}
    BY NumbersType DEF SessionSound, LineSound, LinkTypeOK
  <1>1. CASE Sends
    BY <1>1, <1>0, LosesFrame, TriggerForms, HuskyTyped, SessionQuiet
       DEF Sends, session, boardVars, BoardTypeOK, Waits, WorldDoes
  <1>2. CASE KeepsSilent
    BY <1>2, <1>0, LosesFrame, TriggerForms, HuskyTyped, TroublesCounted, SessionQuiet
       DEF KeepsSilent, session, BoardTypeOK, Waits, WorldDoes
  <1>3. CASE Reboot
    <2>1. /\ UNCHANGED <<program, phase, status, missed, says, husky>>
          /\ board' = [board EXCEPT !.sendback = FALSE, !.rng = FALSE, !.result = Junk,
                                    !.boots = @ + 1]
          /\ Boot(firmware) /\ firmware \in 0 .. MaxLoads
      BY <1>0, <1>3 DEF Reboot, session, LinkTypeOK
    <2>2. Loses /\ Numbers(due') = {} /\ rx' = rx
      BY <1>0, <2>1, LosesByBoot
    <2>3. HuskyTypeOK(Asks)'
      BY <1>0, <2>1, HuskyTyped
    <2>4. Junk \in Data
      BY ControllerBounds DEF Junk, Data
    <2>5. BoardTypeOK' /\ Waits' = Waits
      BY <1>0, <1>3, <2>1, <2>4, TroublesCounted DEF BoardTypeOK, Waits, Reboot
    <2>6. SessionSound'
      BY <1>0, <2>1, <2>2, <2>3, <2>5, SessionQuiet
    <2>7. /\ board'.dead = board.dead /\ board'.result = Junk
          /\ board'.boots = board.boots + 1
      BY <1>0, <2>1 DEF BoardTypeOK
    <2>8. QED
      BY <2>1, <2>2, <2>6, <2>7 DEF WorldDoes
  <1>4. QED
    BY <1>1, <1>2, <1>3 DEF World

-----------------------------------------------------------------------------
(* What the steps that all programs share do to the session.               *)

WaitPhases == {"answer", "fit answer", "fit cycles", "cycles", "drain", "trace"}
Statuses == {"running", "ok", "failed", "error", "killed"}

\* Nothing on the line changes.
LEMMA LineStays ==
  ASSUME LineSound, UNCHANGED <<link, says>>
  PROVE  Loses /\ Owed' = Owed /\ Numbers(due') = Numbers(due)
  BY DEF link, LineSound, LinkTypeOK, InOrder, Owed, Loses

\* A program takes the port, or is refused.
LEMMA PortTaken ==
  ASSUME SessionSound, NEW next, NEW failed, next \notin WaitPhases, failed \notin WaitPhases,
         OpenLock(next, failed) \/ OpenPort(next, failed)
  PROVE  /\ SessionSound' /\ Loses /\ UNCHANGED <<program, missed, board, says, husky, due>>
         /\ \/ phase' = next /\ status' = status
               /\ (OpenPort(next, failed) /\ next # failed => rx' = <<>>)
            \/ phase' = failed /\ status' = "error"
  <1>0. LineSound /\ HuskyTypeOK(Asks) /\ BoardTypeOK /\ status \in Statuses
    BY DEF SessionSound, Statuses
  <1>1. /\ UNCHANGED <<program, missed, board, says, husky>>
        /\ TakeFlock("cli") \/ OpenSerial("cli") \/ ReleaseFlock("cli") \/ UNCHANGED link
        /\ (phase' = next /\ status' = status) \/ (phase' = failed /\ status' = "error")
    BY DEF OpenLock, OpenPort, boardVars
  <1>2. Loses
    BY <1>0, <1>1, LosesPort DEF Processes
  <1>3. due' = due
    BY <1>1 DEF TakeFlock, OpenSerial, ReleaseFlock, link
  <1>4. ~ Waits'
    BY <1>1 DEF Waits, WaitPhases
  <1>5. HuskyTypeOK(Asks)' /\ BoardTypeOK'
    BY <1>0, <1>1, HuskyTyped DEF BoardTypeOK
  <1>6. SessionSound'
    BY <1>0, <1>1, <1>2, <1>4, <1>5, SessionQuiet DEF Statuses
  <1>7. OpenPort(next, failed) /\ next # failed /\ phase' = next => rx' = <<>>
    BY DEF OpenPort, OpenSerial
  <1>8. QED
    BY <1>1, <1>2, <1>3, <1>6, <1>7

\* A program leaves the port.
LEMMA PortLeft ==
  ASSUME SessionSound, NEW next, next \notin WaitPhases, ShutDevice \/ ShutLock(next)
  PROVE  /\ SessionSound' /\ Loses
         /\ UNCHANGED <<program, status, missed, board, says, husky, due>>
         /\ \/ phase = "shut" /\ phase' = "unlock"
            \/ phase = "unlock" /\ phase' = next
  BY LosesPort, HuskyTyped, SessionQuiet
     DEF SessionSound, Statuses, ShutDevice, ShutLock, boardVars, Processes, CloseSerial,
         ReleaseFlock, Waits, WaitPhases, BoardTypeOK

\* A step at the host or the scope only.
LEMMA HostMoves ==
  ASSUME SessionSound, UNCHANGED <<link, says, missed>>, HuskyTypeOK(Asks)', BoardTypeOK',
         status' \in Statuses, Waits' => Waits
  PROVE  SessionSound' /\ Loses /\ Owed' = Owed /\ Numbers(due') = Numbers(due)
  BY LineStays, SessionQuiet DEF SessionSound, Statuses

\* An answer is read, whichever it is.
LEMMA Reads1 ==
  ASSUME SessionSound, NEW ask \in Asks, ReadFrame(ask), UNCHANGED <<says, board, husky>>,
         status' \in Statuses, Waits' => Waits
  PROVE  LET got == Head(rx)[2]
         IN  /\ SessionSound' /\ Loses
             /\ got \in Owed /\ got \in Asks /\ got \in 1 .. asked /\ Got = says[got]
             /\ \A n \in Owed' : got < n
  BY TakesFirst, HuskyTyped, SessionQuiet DEF SessionSound, ReadFrame, BoardTypeOK, Statuses, Got

\* A command is given up.
LEMMA Misses1 ==
  ASSUME SessionSound, NEW ask \in Asks, NoFrame(ask), UNCHANGED <<says, board, husky>>,
         status' \in Statuses, Waits, ~ Waits'
  PROVE  SessionSound' /\ Loses /\ missed' = missed + 1
  BY LosesText, HuskyTyped, SessionQuiet DEF SessionSound, NoFrame, BoardTypeOK, Statuses

\* Text is skipped.
LEMMA Skips1 ==
  ASSUME SessionSound, SkipsText
  PROVE  SessionSound' /\ Loses /\ UNCHANGED <<program, phase, status, missed, board, says, husky>>
  BY LosesText, HuskyTyped, SessionQuiet
     DEF SessionSound, Statuses, SkipsText, session, boardVars, BoardTypeOK, Waits

\* Send-back is turned on.
LEMMA EnablesTyped ==
  ASSUME SessionSound, EnableSendback
  PROVE  BoardTypeOK' /\ board'.dead = board.dead /\ board'.result = board.result
         /\ board'.boots = board.boots /\ board'.rng = board.rng
  BY DEF SessionSound, LineSound, LinkTypeOK, EnableSendback, BoardTypeOK

\* The data that the programs name.
LEMMA DataForms ==
  /\ Junk \in Data /\ Old \in Data /\ Word \in Data
  /\ \A v \in 0 .. MaxInputs : Enc(v) \in Data /\ Input(v) \in Data /\ Kat(v) \in Data
  BY ControllerBounds DEF Junk, Old, Word, Enc, Input, Kat, Data

\* The board as an earlier session left it.
LEMMA SessionStarts == ASSUME HostInit PROVE SessionSound
  <1>1. PICK dead \in SUBSET Cores, results \in SUBSET {Junk, Enc(1)} : BoardInit(dead, results)
    BY AdapterAssumption, DeadCoresAssumption DEF HostInit, AdapterInit
  <1>2. PICK owed \in {0, 1} :
          /\ asked = owed
          /\ due = [k \in 1 .. owed |-> Answer(k)]
          /\ says = [k \in 1 .. owed |-> Old]
          /\ board \in [sendback : {owed = 1}, rng : {FALSE}, dead : {dead}, result : results,
                        boots : {0}, lost : {0}]
    BY <1>1 DEF BoardInit
  <1>3. /\ firmware = 1 /\ running = TRUE /\ flock \in {Free, "gui"} /\ opened = {flock} \ {Free}
        /\ rx = <<>> /\ abandoned = {} /\ husky = Off
        /\ phase = "start" /\ status = "running" /\ missed = 0
    BY <1>1 DEF BoardInit
  <1>4. owed \in 0 .. MaxAsks /\ MaxAsks \in Nat /\ (owed = 1 => 1 \in Asks)
    BY LinkBounds DEF Asks
  <1>5. /\ due \in Seq(Frames) /\ Len(due) = owed /\ says \in Seq(Data) /\ Len(says) = owed
        /\ \A k \in 1 .. owed : due[k] = Answer(k) /\ says[k] = Old
    BY <1>4, DataForms, <1>2 DEF Frames, Asks
  <1>6. LinkTypeOK
    BY <1>3, EmptySeq, LinkBounds, <1>2, <1>4, <1>5 DEF LinkTypeOK, Processes
  <1>7. InOrder
    <2>1. Numbers(rx) = {} /\ Rising(rx)
      BY <1>3, NumbersOfNone
    <2>2. Numbers(due) \subseteq 1 .. asked
      BY <1>2, <1>5 DEF Numbers, Answer
    <2>3. Rising(due)
      BY <1>2, <1>5 DEF Rising
    <2>4. QED
      BY <2>1, <2>2, <2>3 DEF InOrder, Owed
  <1>8. BoardTypeOK
    <2>1. Junk \in Data /\ Enc(1) \in Data
      BY DataForms, AdapterAssumption, ControllerBounds
    <2>2. 0 \in 0 .. MaxTroubles
      BY ControllerBounds
    <2>3. board = [sendback |-> board.sendback, rng |-> board.rng, dead |-> board.dead,
                   result |-> board.result, boots |-> board.boots, lost |-> board.lost]
      BY <1>2
    <2>4. /\ board.sendback \in BOOLEAN /\ board.rng \in BOOLEAN /\ board.dead = dead
          /\ board.result \in results /\ board.boots = 0 /\ board.lost = 0
      BY <1>2
    <2>5. board.result \in Data /\ board.dead \in SUBSET Cores
      BY <2>1, <2>4
    <2>6. QED
      BY <2>2, <2>3, <2>4, <2>5 DEF BoardTypeOK
  <1>9. HuskyTypeOK(Asks)
    BY <1>3 DEF HuskyTypeOK, Off
  <1>10. ~ Waits
    BY <1>3 DEF Waits
  <1>11. QED
    BY <1>2, <1>3, <1>4, <1>5, <1>6, <1>7, <1>8, <1>9, <1>10 DEF SessionSound, LineSound

\* A host runs one program.
LEMMA ProgramFixed == ASSUME [HostNext]_hostVars PROVE program' = program
  <1>1. CASE UNCHANGED hostVars
    BY <1>1 DEF hostVars, session
  <1>2. CASE StoreProgram
    BY <1>2 DEF StoreProgram, session
  <1>3. CASE Experimented \/ ExperimentDisturbed
    BY <1>3 DEF Experimented, ExperimentDisturbed, Experimenting, Prepare, Fit, Capture, Keep,
       Close, Connect, ConfigureTarget, ConnectScope, CreateStore, FitLaunches, FitReads,
       FitCaptures, FitGrows, FitEnds, RowLaunches, RowReads, RowCaptures, RowFails, StoreRow,
       StoreWorks, StoreRaised, CountRow, LoopGoesOn, LoopEnds, Save, Saved, DisconnectScope,
       Raises, Killed, OpenLock, OpenPort, ShutDevice, ShutLock, Goto, SkipsText, session
  <1>4. CASE Operated \/ OperationDisturbed
    BY <1>4 DEF Operated, OperationDisturbed, Operating, OperationsConnect, Operates, ReadsOutput,
       AsksTimer, ReadsTimer, OperationFails, OperationsEnd, OperationsInterrupted, OpenLock,
       OpenPort, ShutDevice, ShutLock, Proceed, StopsWith, PrintsRow, SkipsText, session
  <1>5. CASE SelfChecked \/ SelfCheckDisturbed
    BY <1>5 DEF SelfChecked, SelfCheckDisturbed, SelfChecking, Connecting, OneCheck, Begins,
       FindsScope, FindsPort, TurnsSendbackOn, SkipsCheck, AsksNext, ReadsAnswer, FailsCheck,
       JudgesAgain, TakesTrace, Drains, Reports, LetsGo, ReleasesScope, Interrupted, OpenLock,
       OpenPort, ShutDevice, ShutLock, To, SkipsText, session
  <1>6. CASE Monitored \/ MonitorEnds
    BY <1>6 DEF Monitored, MonitorEnds, Monitoring, MonitorConnects, Watches, StopsWatching,
       OpenLock, OpenPort, ShutDevice, ShutLock, session
  <1>7. CASE Acquired \/ AcquireDisturbed
    BY <1>7 DEF Acquired, AcquireDisturbed, Acquiring, BringingUp, Preflights, ConfiguresBackend,
       OpensTarget, SelectsCore, LoadsProgram, Runs, Verifies, VerifyRaises, Reprograms, Reopens,
       PreflightReads, PreflightMisses, PreflightCaptures, CampaignEnds, ClosesBackend,
       ClosesTarget, AdapterRaises, OpenLock, OpenPort, ShutDevice, ShutLock, GoesTo, GivesUp,
       Fails, Proceeds, SkipsText, session
  <1>8. CASE World
    BY <1>8 DEF World, Sends, KeepsSilent, Reboot, session
  <1>9. QED
    BY <1>1, <1>2, <1>3, <1>4, <1>5, <1>6, <1>7, <1>8 DEF HostNext

\* Nothing at the device and in the session changes.
LEMMA SessionRests ==
  ASSUME SessionSound, UNCHANGED <<device, session>>
  PROVE  SessionSound' /\ Loses /\ Owed' = Owed /\ Numbers(due') = Numbers(due)
  BY HuskyTyped, HostMoves
     DEF device, session, boardVars, SessionSound, BoardTypeOK, Statuses, Waits

-----------------------------------------------------------------------------
(* An acquisition campaign is brought up.                                  *)

Own == IF phase = "answer" THEN {asked} ELSE {}

Trials ==
  [stage : {"verify", "warm-up", "test"}, attempt : 1 .. 2, i : 0 .. Warmups + Tests,
   ask : 0 .. MaxAsks, fired : BOOLEAN, correct : BOOLEAN, booted : {"no", "seeded", "unseeded"}]

TrialInOrder ==
  /\ trial.stage = "verify" => trial.i = 0
  /\ trial.stage = "warm-up" => trial.i < Warmups
  /\ trial.stage = "test" => trial.i < Tests
  /\ phase = "answer" => trial.ask = asked /\ asked \in Asks
  /\ phase = "reprogram" => trial.stage = "verify" /\ trial.attempt = 2
  /\ phase \in {"shut", "unlock"} /\ status = "running"
     => trial.stage = "verify" /\ trial.attempt = 2
  /\ phase \in {"start", "open", "port", "sendback", "select", "load", "reprogram"}
     => trial.stage = "verify"
  /\ phase = "trace" => trial.stage # "verify"
  /\ phase = "disconnect" => status # "running"
  /\ phase = "ready" => trial.stage = "test" /\ trial.correct /\ trial.i + 1 = Tests

\* In the first attempt nobody else has asked for this output; before the second the
\* line is made empty.
FirstAttempt ==
  trial.stage = "verify" /\ trial.attempt = 1 =>
    \A k \in 1 .. asked :
      says[k] = Enc(1) =>
        /\ phase \notin {"start", "open", "port", "sendback", "select", "load", "run"}
        /\ phase = "answer" => k = asked
SecondAttempt ==
  trial.stage = "verify" /\ trial.attempt = 2 =>
    /\ phase \in {"start", "open", "port"} => Numbers(due) = {}
    /\ phase \in {"shut", "unlock"} /\ status = "running" => Numbers(due) = {}
    /\ phase \in {"sendback", "select", "load", "run", "answer"} => Owed \subseteq Own

VerifiedAlone ==
  trial.stage = "warm-up" /\ trial.i = 0 /\ phase = "run" => Owed = {}

\* A target that does not run sends what was there before the preflight.
DeadIsOld ==
  campaign.core \in board.dead =>
    /\ board.result \in {Junk, Enc(1)}
    /\ \A k \in 1 .. asked : says[k] \in {Old, Junk, Enc(1)}

\* The input of test 1 is the first that nobody used before.
Varies == campaign.policy # "fixed"
NewInTestOne ==
  Varies =>
    /\ \/ trial.stage # "test" \/ trial.i = 0
       \/ trial.i = 1 /\ phase = "run"
       => board.result # Enc(3) /\ \A k \in 1 .. asked : says[k] # Enc(3)
    /\ trial.stage = "test" /\ trial.i = 1 /\ phase = "answer"
       => \A k \in 1 .. asked : says[k] = Enc(3) => k = asked

\* From the answer of test 1 on, every answer is read by its own test.
ProvedSoFar ==
  /\ trial.stage = "test" /\ trial.correct
  /\ \/ trial.i = 1 /\ phase \in {"trace", "ready"}
     \/ trial.i > 1 /\ phase \in {"run", "answer", "trace", "ready"}
TestsProve ==
  Varies /\ ProvedSoFar => campaign.core \notin board.dead /\ Owed \subseteq Own

SeededSoFar ==
  campaign.masked /\ board.boots = 0 =>
    trial.booted # "unseeded" /\ (phase = "load" => board.rng)

AcquireSound ==
  /\ campaign \in Campaigns /\ trial \in Trials /\ TrialInOrder
  /\ FirstAttempt /\ SecondAttempt /\ VerifiedAlone
  /\ DeadIsOld /\ NewInTestOne /\ TestsProve /\ SeededSoFar

\* The types of a trial.
LEMMA TrialType ==
  ASSUME AcquireSound
  PROVE  /\ campaign.core \in Cores /\ campaign.masked \in BOOLEAN
         /\ campaign.policy \in {"fixed", "random", "tvla"}
         /\ Warmups \in Nat /\ Tests \in Nat /\ Tests > 1 /\ MaxInputs \in Nat
         /\ 1 + Tests <= MaxInputs
         /\ trial.stage \in {"verify", "warm-up", "test"} /\ trial.attempt \in {1, 2}
         /\ trial.i \in Nat /\ trial.fired \in BOOLEAN /\ trial.correct \in BOOLEAN
  BY AdapterAssumption, ControllerBounds DEF AcquireSound, Trials

\* Nothing more is read, asked or booted, whatever ended the bring-up.
LEMMA EndsSound ==
  ASSUME SessionSound, AcquireSound, Loses, UNCHANGED campaign, trial' \in Trials,
         UNCHANGED <<trial.stage, trial.attempt, trial.i>>,
         trial'.booted \in {trial.booted, "no"},
         board'.dead = board.dead, board'.boots = board.boots,
         board'.result \in {board.result, Junk}, status' # "running",
         phase' \in {"disconnect", "shut", "unlock", "over"}
  PROVE  AcquireSound'
  BY DEF Loses, AcquireSound, TrialInOrder, FirstAttempt, SecondAttempt, VerifiedAlone,
         DeadIsOld, NewInTestOne, Varies, Junk, Enc, TestsProve, ProvedSoFar, SeededSoFar

\* A step that ends the campaign, or leaves it where it is.
LEMMA EndsAtOnce ==
  ASSUME SessionSound, AcquireSound, Loses, UNCHANGED <<campaign, trial, board>>,
         status' # "running", phase' \in {"disconnect", "shut", "unlock", "over"}
  PROVE  AcquireSound'
  BY EndsSound DEF AcquireSound

\* The steps of the board and the other terminal.
LEMMA AcquireWorld == ASSUME SessionSound, AcquireSound, World PROVE AcquireSound'
  <1>1. WorldDoes /\ UNCHANGED <<campaign, trial>>
    BY WorldSound DEF World, adapterVars
  <1>2. /\ Loses /\ asked' = asked /\ says' = says /\ UNCHANGED <<phase, status>>
        /\ Owed' \subseteq Owed /\ Numbers(due') \subseteq Numbers(due)
        /\ board'.dead = board.dead /\ board'.result \in {board.result, Junk}
        /\ \/ board'.boots = board.boots /\ board'.rng = board.rng
           \/ board'.boots = board.boots + 1
    BY <1>1 DEF WorldDoes, Loses
  <1>3. TrialInOrder'
    BY <1>1, <1>2 DEF AcquireSound, TrialInOrder
  <1>4. FirstAttempt'
    BY <1>1, <1>2 DEF AcquireSound, FirstAttempt
  <1>5. SecondAttempt' /\ VerifiedAlone'
    BY <1>1, <1>2 DEF AcquireSound, SecondAttempt, VerifiedAlone, Own
  <1>6. DeadIsOld'
    BY <1>1, <1>2 DEF AcquireSound, DeadIsOld
  <1>7. NewInTestOne'
    BY <1>1, <1>2 DEF AcquireSound, NewInTestOne, Varies, Junk, Enc
  <1>8. TestsProve'
    BY <1>1, <1>2 DEF AcquireSound, TestsProve, ProvedSoFar, Varies, Own
  <1>9. SeededSoFar'
    BY ControllerBounds, <1>1, <1>2 DEF SessionSound, BoardTypeOK, AcquireSound, SeededSoFar
  <1>10. QED
    BY <1>1, <1>3, <1>4, <1>5, <1>6, <1>7, <1>8, <1>9 DEF AcquireSound

\* The bring-up goes on before the verification's command: what is known of the line
\* by then is kept.
LEMMA GoesOnSound ==
  ASSUME SessionSound, AcquireSound, Loses, UNCHANGED campaign, trial' \in Trials,
         trial.stage = "verify",
         UNCHANGED <<trial.stage, trial.attempt, trial.i>>,
         board'.dead = board.dead, board'.result \in {board.result, Junk},
         phase \in {"start", "open", "port", "sendback", "select", "load", "shut", "unlock"},
         phase' \in {"open", "port", "sendback", "select", "load", "run", "unlock"},
         phase \in {"shut", "unlock"} => status = "running",
         trial.attempt = 1 => phase \notin {"shut", "unlock"} /\ phase' # "unlock",
         phase' \in {"open", "port", "unlock"}
           => phase \in {"start", "open", "port", "shut", "unlock"},
         phase' \in {"sendback", "select", "load", "run"}
           => \/ phase \in {"sendback", "select", "load"}
              \/ phase = "port" /\ Owed' \subseteq Numbers(due)
  PROVE  /\ TrialInOrder' /\ FirstAttempt' /\ SecondAttempt' /\ VerifiedAlone'
         /\ DeadIsOld' /\ NewInTestOne' /\ TestsProve'
  <1>0. /\ asked' = asked /\ says' = says /\ Owed' \subseteq Owed
        /\ Numbers(due') \subseteq Numbers(due)
    BY DEF Loses
  <1>1. TrialInOrder'
    BY TrialType DEF AcquireSound, TrialInOrder
  <1>2. FirstAttempt'
    BY <1>0 DEF AcquireSound, FirstAttempt
  <1>3. SecondAttempt' /\ VerifiedAlone'
    BY <1>0 DEF AcquireSound, SecondAttempt, VerifiedAlone, Own
  <1>4. DeadIsOld'
    BY <1>0 DEF AcquireSound, DeadIsOld
  <1>5. NewInTestOne'
    BY <1>0 DEF AcquireSound, NewInTestOne, Varies, Junk, Enc
  <1>6. TestsProve'
    BY DEF TestsProve, ProvedSoFar
  <1>7. QED
    BY <1>1, <1>2, <1>3, <1>4, <1>5, <1>6

\* The first steps, up to the open port.
LEMMA BringsUpOpens ==
  ASSUME SessionSound, AcquireSound, program = "acquire",
         ConfiguresBackend \/ OpensTarget \/ Reopens
  PROVE  SessionSound' /\ AcquireSound'
  <1>0. LineSound /\ HuskyTypeOK(Asks) /\ BoardTypeOK /\ status \in Statuses
    BY DEF SessionSound, Statuses
  <1>1. UNCHANGED <<campaign, trial>> /\ trial' \in Trials
    BY DEF ConfiguresBackend, OpensTarget, Reopens, adapterVars, AcquireSound
  <1>a. phase \in {"start", "open", "port", "sendback"} => trial.stage = "verify"
    BY DEF AcquireSound, TrialInOrder
  <1>2. CASE ConfiguresBackend
    BY <1>2, <1>0, HuskyTyped, HostMoves, <1>1, <1>a, GoesOnSound
       DEF ConfiguresBackend, boardVars, GoesTo, BoardTypeOK, Waits, AcquireSound, SeededSoFar
  <1>3. CASE phase = "open" /\ OpenLock("port", "disconnect")
    <2>1. /\ SessionSound' /\ Loses /\ UNCHANGED <<board, due>>
          /\ (phase' = "port" /\ status' = status) \/ (phase' = "disconnect" /\ status' = "error")
      BY <1>3, PortTaken DEF WaitPhases
    <2>2. CASE phase' = "disconnect"
      BY <1>1, <2>1, <2>2, EndsAtOnce
    <2>3. CASE phase' = "port"
      BY <1>1, <1>3, <1>a, <2>1, <2>3, GoesOnSound DEF AcquireSound, SeededSoFar
    <2>4. QED
      BY <2>1, <2>2, <2>3
  <1>4. CASE phase = "port" /\ OpenPort("sendback", "disconnect")
    <2>1. /\ SessionSound' /\ Loses /\ UNCHANGED <<board, due>>
          /\ \/ phase' = "sendback" /\ status' = status /\ rx' = <<>>
             \/ phase' = "disconnect" /\ status' = "error"
      <3>1. "sendback" \notin WaitPhases /\ "disconnect" \notin WaitPhases
        BY DEF WaitPhases
      <3>2. /\ SessionSound' /\ Loses /\ UNCHANGED <<board, due>>
            /\ \/ phase' = "sendback" /\ status' = status
                  /\ (OpenPort("sendback", "disconnect") /\ "sendback" # "disconnect" => rx' = <<>>)
               \/ phase' = "disconnect" /\ status' = "error"
        BY <1>4, <3>1, PortTaken
      <3>3. QED
        BY <1>4, <3>2
    <2>2. CASE phase' = "disconnect"
      BY <1>1, <2>1, <2>2, EndsAtOnce
    <2>3. CASE phase' = "sendback"
      BY <2>1, <2>3, NumbersOfNone, <1>1, <1>4, <1>a, GoesOnSound
         DEF Owed, AcquireSound, SeededSoFar
    <2>4. QED
      BY <2>1, <2>2, <2>3
  <1>5. CASE phase = "sendback" /\ EnableSendback /\ GoesTo("select")
             /\ UNCHANGED <<link, says, husky, missed>>
    BY <1>5, EnablesTyped, <1>0, HuskyTyped, HostMoves, <1>1, <1>a, GoesOnSound
       DEF GoesTo, Waits, AcquireSound, SeededSoFar
  <1>6. CASE status = "running" /\ (ShutDevice \/ ShutLock("open"))
    <2>1. /\ SessionSound' /\ Loses /\ UNCHANGED <<board, due, status>>
          /\ (phase = "shut" /\ phase' = "unlock") \/ (phase = "unlock" /\ phase' = "open")
      BY <1>6, PortLeft DEF WaitPhases
    <2>2. trial.stage = "verify" /\ trial.attempt = 2
      BY <1>6, <2>1 DEF AcquireSound, TrialInOrder
    <2>3. /\ TrialInOrder' /\ FirstAttempt' /\ SecondAttempt' /\ VerifiedAlone'
          /\ DeadIsOld' /\ NewInTestOne' /\ TestsProve'
      BY <1>1, <1>6, <2>1, <2>2, GoesOnSound
    <2>4. SeededSoFar'
      BY <1>1, <2>1 DEF AcquireSound, SeededSoFar
    <2>5. QED
      BY <1>1, <2>1, <2>3, <2>4 DEF AcquireSound
  <1>7. QED
    BY <1>2, <1>3, <1>4, <1>5, <1>6 DEF OpensTarget, Reopens

\* The core is selected, its program loaded.
LEMMA SelectsAndLoads ==
  ASSUME SessionSound, AcquireSound, program = "acquire", SelectsCore \/ LoadsProgram
  PROVE  SessionSound' /\ AcquireSound'
  <1>0. LineSound /\ HuskyTypeOK(Asks) /\ BoardTypeOK /\ status \in Statuses
    BY DEF SessionSound, Statuses
  <1>1. /\ UNCHANGED <<link, says, husky, missed, status, program, campaign>>
        /\ trial.stage = "verify"
    BY DEF SelectsCore, LoadsProgram, boardVars, GoesTo, AcquireSound, TrialInOrder, adapterVars
  <1>2. HuskyTypeOK(Asks)'
    BY <1>0, <1>1, HuskyTyped
  <1>3. CASE SelectsCore
    BY <1>3, <1>0, <1>1, <1>2, HostMoves, GoesOnSound
       DEF SelectsCore, GoesTo, adapterVars, SeedsBeforeBoot, BoardTypeOK, Waits, AcquireSound,
           SeededSoFar
  <1>4. CASE LoadsProgram
    BY <1>4, <1>0, <1>1, <1>2, HostMoves, GoesOnSound
       DEF LoadsProgram, GoesTo, boardVars, AcquireSound, Trials, Waits, BoardTypeOK, SeededSoFar
  <1>5. QED
    BY <1>3, <1>4

\* What an operation answers: its own output, or what the controller still has.
LEMMA WantedForms ==
  ASSUME AcquireSound
  PROVE  /\ Wanted \in Data /\ (trial.stage = "verify" => Wanted = Enc(1))
         /\ Varies /\ (trial.stage # "test" \/ trial.i = 0) => Wanted \in {Enc(1), Enc(2)}
         /\ Varies /\ trial.stage = "test" /\ trial.i = 1 => Wanted = Enc(3)
  <1> DEFINE input == InputOf(trial.i)
  <1>1. 1 % 2 = 1 /\ 0 % 2 = 0
    OBVIOUS
  <1>2. input \in 0 .. MaxInputs
    BY TrialType DEF AcquireSound, TrialInOrder, InputOf
  <1>3. trial.stage = "verify" => input = 1
    BY DEF InputOf
  <1>4. Varies /\ trial.stage = "test" /\ trial.i = 1 => input = 3
    BY <1>1, TrialType DEF InputOf, Varies, GroupOf
  <1>5. Varies /\ (trial.stage # "test" \/ trial.i = 0) => input \in {1, 2}
    BY <1>1, TrialType DEF InputOf, Varies
  <1> HIDE DEF input
  <1>6. Enc(input) \in Data
    BY <1>2, DataForms
  <1>7. Wanted = Enc(input)
    BY DEF Wanted, input
  <1>8. QED
    BY <1>3, <1>4, <1>5, <1>6, <1>7

\* What a core computes, dead or not.
LEMMA ComputesForms ==
  ASSUME SessionSound, AcquireSound
  PROVE  LET value == Computes(Wanted)
         IN  /\ value \in Data /\ value \in {Wanted, board.result, Junk}
             /\ campaign.core \in board.dead => value \in {board.result, Junk}
  BY WantedForms, DataForms DEF SessionSound, BoardTypeOK, Computes, Computed

\* A run is started.
LEMMA RunsSound ==
  ASSUME SessionSound, AcquireSound, program = "acquire", Runs
  PROVE  SessionSound' /\ AcquireSound'
  <1> DEFINE value == Computes(Wanted)
  <1>0. LineSound /\ HuskyTypeOK(Asks) /\ BoardTypeOK /\ status \in Statuses /\ asked \in Nat
    BY LinkBounds DEF SessionSound, Statuses, LineSound, LinkTypeOK
  <1>1. /\ phase = "run" /\ phase' = "answer" /\ Ask(value)
        /\ UNCHANGED <<status, program, missed, campaign>>
        /\ board' = [board EXCEPT !.result = value, !.rng = @ \/ campaign.masked]
        /\ husky' = husky \/ husky' = Armed
        /\ trial' = [trial EXCEPT !.ask = asked']
    BY DEF Runs, GoesTo
  <1>2. /\ value \in Data /\ value \in {Wanted, board.result, Junk}
        /\ campaign.core \in board.dead => value \in {board.result, Junk}
    BY ComputesForms
  <1> HIDE DEF value
  <1>3. /\ LineSound' /\ asked' = asked + 1 /\ asked' \in Asks
        /\ rx' = rx /\ Owed' \subseteq Owed \cup {asked'}
        /\ says'[asked'] = value /\ \A k \in 1 .. asked : says'[k] = says[k]
    BY <1>0, <1>1, <1>2, AsksOne
  <1>4. /\ BoardTypeOK' /\ board'.dead = board.dead /\ board'.result = value
        /\ board'.boots = board.boots
    BY <1>0, <1>1, <1>2 DEF BoardTypeOK
  <1>5. HuskyTypeOK(Asks)' /\ ~ Waits
    BY <1>0, <1>1, HuskyTyped DEF Waits
  <1>6. SessionSound'
    BY <1>1, <1>2, <1>4, <1>5, SessionAsks
  <1>7. /\ trial' \in Trials
        /\ UNCHANGED <<trial.stage, trial.attempt, trial.i, trial.correct, trial.booted>>
        /\ trial'.ask = asked'
    BY <1>1, <1>3 DEF AcquireSound, Trials, Asks
  <1>8. \A k \in 1 .. asked' : k = asked' \/ k \in 1 .. asked
    BY <1>0, <1>3
  <1>9. TrialInOrder'
    BY <1>1, <1>3, <1>7 DEF AcquireSound, TrialInOrder
  <1>10. FirstAttempt'
    BY <1>1, <1>3, <1>7, <1>8 DEF AcquireSound, FirstAttempt
  <1>11. SecondAttempt' /\ VerifiedAlone'
    BY <1>1, <1>3, <1>7 DEF AcquireSound, SecondAttempt, VerifiedAlone, Own
  <1>12. DeadIsOld'
    BY <1>1, <1>2, <1>3, <1>4, <1>8 DEF AcquireSound, DeadIsOld
  <1>13. NewInTestOne'
    BY <1>1, <1>2, WantedForms, <1>3, <1>4, <1>7, <1>8
       DEF Enc, Junk, Varies, AcquireSound, NewInTestOne
  <1>14. TestsProve'
    BY <1>1, <1>3, <1>4, <1>7, TrialType DEF AcquireSound, TestsProve, ProvedSoFar, Own, Varies
  <1>15. SeededSoFar'
    BY <1>1, <1>4, <1>7 DEF AcquireSound, SeededSoFar
  <1>16. QED
    BY <1>1, <1>6, <1>7, <1>9, <1>10, <1>11, <1>12, <1>13, <1>14, <1>15 DEF AcquireSound

\* A failed verification: the controller is reprogrammed, once.
LEMMA FailsSound ==
  ASSUME SessionSound, AcquireSound, Loses, UNCHANGED <<campaign, board>>,
         trial.stage = "verify", Fails
  PROVE  AcquireSound'
  <1>0. /\ asked' = asked /\ says' = says
    BY DEF Loses
  <1>1. CASE trial.attempt = 1
    <2>1. /\ trial' = [trial EXCEPT !.attempt = 2] /\ phase' = "reprogram" /\ status' = status
      BY <1>1 DEF Fails, GoesTo
    <2>2. /\ trial' \in Trials /\ trial'.attempt = 2
          /\ UNCHANGED <<trial.stage, trial.i, trial.booted>>
      BY <2>1 DEF AcquireSound, Trials
    <2>3. TrialInOrder' /\ FirstAttempt' /\ SecondAttempt' /\ VerifiedAlone'
      BY <2>1, <2>2 DEF AcquireSound, TrialInOrder, FirstAttempt, SecondAttempt, VerifiedAlone
    <2>4. DeadIsOld' /\ NewInTestOne'
      BY <1>0, <2>1, <2>2 DEF AcquireSound, DeadIsOld, NewInTestOne, Varies
    <2>5. TestsProve' /\ SeededSoFar'
      BY <2>1, <2>2 DEF AcquireSound, TestsProve, ProvedSoFar, SeededSoFar
    <2>6. QED
      BY <2>2, <2>3, <2>4, <2>5 DEF AcquireSound
  <1>2. CASE trial.attempt # 1
    BY <1>2, EndsAtOnce DEF Fails, GivesUp
  <1>3. QED
    BY <1>1, <1>2

\* The command that is waited for.
LEMMA AskedFor ==
  ASSUME AcquireSound, phase = "answer"
  PROVE  trial.ask \in Asks /\ trial.ask = asked
  BY DEF AcquireSound, TrialInOrder

\* Where a failed step goes.
LEMMA FailsGoes ==
  ASSUME SessionSound, Fails
  PROVE  status' \in Statuses /\ program' = program /\ phase' \in {"reprogram", "disconnect"}
  BY DEF Fails, GoesTo, GivesUp, SessionSound, Statuses

\* The verification reads its output, or fails.
LEMMA VerifiesSound ==
  ASSUME SessionSound, AcquireSound, program = "acquire", Verifies \/ VerifyRaises
  PROVE  SessionSound' /\ AcquireSound'
  <1>0. /\ phase = "answer" /\ trial.stage = "verify" /\ UNCHANGED <<board, says, husky, campaign>>
        /\ trial.ask \in Asks /\ Waits /\ status \in Statuses
    BY AskedFor DEF Verifies, VerifyRaises, boardVars, Waits, SessionSound, Statuses
  <1>1. CASE VerifyRaises
    BY <1>1, FailsGoes, <1>0, Misses1, FailsSound DEF VerifyRaises, Waits
  <1>2. CASE Verifies
    <2>1. /\ ReadFrame(trial.ask)
          /\ \/ Got = Wanted /\ trial' = [trial EXCEPT !.stage = "warm-up"] /\ GoesTo("run")
             \/ Fails
      BY <1>2 DEF Verifies
    <2>2. status' \in Statuses /\ ~ Waits'
      BY <1>0, <2>1, FailsGoes DEF Waits, GoesTo
    <2>3. LET got == Head(rx)[2]
          IN  /\ SessionSound' /\ Loses
              /\ got \in Owed /\ got \in Asks /\ got \in 1 .. asked /\ Got = says[got]
              /\ \A n \in Owed' : got < n
      BY <1>0, <2>1, <2>2, Reads1
    <2>4. CASE Fails
      BY <1>0, <2>3, <2>4, FailsSound
    <2>5. CASE Got = Wanted /\ trial' = [trial EXCEPT !.stage = "warm-up"] /\ GoesTo("run")
      <3> DEFINE got == Head(rx)[2]
      <3>0. /\ asked' = asked /\ says' = says /\ Owed' \subseteq Owed /\ asked \in Nat
            /\ phase' = "run" /\ status' = status /\ LineSound'
        BY SMTT(30), <2>3, <2>5, LinkBounds DEF Loses, GoesTo, SessionSound, LineSound, LinkTypeOK
      <3>1. /\ trial' \in Trials /\ trial'.stage = "warm-up"
            /\ UNCHANGED <<trial.attempt, trial.i, trial.booted>> /\ trial'.i = 0
        BY <1>0, <2>5 DEF AcquireSound, Trials, TrialInOrder
      <3>2. says[got] = Enc(1)
        BY <1>0, <2>3, <2>5, WantedForms
      <3>3. got = asked
        BY <1>0, <2>3, <3>2, TrialType DEF AcquireSound, FirstAttempt, SecondAttempt, Own
      <3>4. Owed' = {}
        BY <3>0, <2>3, <3>3 DEF LineSound, InOrder
      <3>5. TrialInOrder'
        BY <3>0, <3>1, TrialType, AdapterAssumption DEF TrialInOrder
      <3>6. FirstAttempt' /\ SecondAttempt' /\ VerifiedAlone'
        BY <3>0, <3>1, <3>4 DEF FirstAttempt, SecondAttempt, VerifiedAlone
      <3>7. DeadIsOld' /\ NewInTestOne'
        BY <1>0, <3>0, <3>1 DEF AcquireSound, DeadIsOld, NewInTestOne, Varies
      <3>8. TestsProve' /\ SeededSoFar'
        BY <1>0, <3>0, <3>1 DEF AcquireSound, TestsProve, ProvedSoFar, SeededSoFar
      <3>9. QED
        BY <1>0, <2>3, <3>1, <3>5, <3>6, <3>7, <3>8 DEF AcquireSound
    <2>6. QED
      BY <2>1, <2>4, <2>5
  <1>3. QED
    BY <1>1, <1>2

\* The second attempt loads again.
LEMMA ReprogramsSound ==
  ASSUME SessionSound, AcquireSound, program = "acquire", Reprograms
  PROVE  SessionSound' /\ AcquireSound'
  <1>0. LineSound /\ HuskyTypeOK(Asks) /\ BoardTypeOK /\ status \in Statuses
    BY DEF SessionSound, Statuses
  <1>1. /\ UNCHANGED <<says, husky, missed, campaign, program>> /\ phase = "reprogram"
        /\ trial' = [trial EXCEPT !.booted = "no"]
        /\ board' = [board EXCEPT !.sendback = FALSE, !.rng = FALSE, !.result = Junk]
    BY DEF Reprograms, GoesTo, GivesUp
  <1>2. /\ trial' \in Trials /\ trial'.booted = "no"
        /\ UNCHANGED <<trial.stage, trial.attempt, trial.i>>
    BY <1>1 DEF AcquireSound, Trials
  <1>3. /\ BoardTypeOK' /\ board'.dead = board.dead /\ board'.boots = board.boots
        /\ board'.result = Junk
    BY <1>0, <1>1, DataForms DEF BoardTypeOK
  <1>4. HuskyTypeOK(Asks)'
    BY <1>0, <1>1, HuskyTyped
  <1>5. CASE GivesUp /\ (Boot(0) \/ UNCHANGED link)
    BY <1>0, <1>1, <1>5, LosesByBoot, LineStays, LinkBounds, <1>3, <1>4, SessionQuiet, <1>2,
       EndsSound DEF GivesUp, Waits
  <1>6. CASE Boot(1) /\ GoesTo("shut")
    <2>1. Loses /\ Numbers(due') = {}
      BY <1>0, <1>1, <1>6, LosesByBoot, LinkBounds
    <2>2. phase' = "shut" /\ status' = status /\ asked' = asked
      BY <1>6, <2>1 DEF GoesTo, Loses
    <2>3. SessionSound'
      BY <1>0, <1>1, <1>3, <1>4, <2>1, <2>2, SessionQuiet DEF Waits, Statuses
    <2>4. trial.stage = "verify" /\ trial.attempt = 2
      BY <1>1 DEF AcquireSound, TrialInOrder
    <2>5. TrialInOrder' /\ FirstAttempt' /\ SecondAttempt' /\ VerifiedAlone'
      BY <1>2, <2>1, <2>2, <2>4
         DEF AcquireSound, TrialInOrder, FirstAttempt, SecondAttempt, VerifiedAlone
    <2>6. DeadIsOld'
      BY <1>1, <1>2, <1>3, <2>2 DEF AcquireSound, DeadIsOld
    <2>7. NewInTestOne'
      BY <1>1, <1>2, <1>3, <2>2, <2>4 DEF AcquireSound, NewInTestOne, Varies, Junk, Enc
    <2>8. TestsProve' /\ SeededSoFar'
      BY <1>2, <2>2, <2>4 DEF TestsProve, ProvedSoFar, SeededSoFar
    <2>9. QED
      BY <1>1, <1>2, <2>3, <2>5, <2>6, <2>7, <2>8 DEF AcquireSound
  <1>7. QED
    BY <1>5, <1>6 DEF Reprograms

\* The end of an operation of the preflight.
LEMMA ProceedsSound ==
  ASSUME SessionSound, AcquireSound, Loses, UNCHANGED <<campaign, board>>,
         NEW t \in Trials, Proceeds(t),
         t.stage = trial.stage, t.attempt = trial.attempt, t.i = trial.i,
         t.correct = trial.correct, t.booted = trial.booted, trial.stage # "verify",
         phase \in {"answer", "trace"}, trial.stage = "test" => phase = "trace"
  PROVE  AcquireSound' /\ phase' \in {"run", "ready", "disconnect"} /\ program' = program
         /\ status' \in {status, "error"}
  <1>0. /\ asked' = asked /\ says' = says /\ Owed' \subseteq Owed
        /\ Warmups \in Nat /\ Tests \in Nat /\ Tests > 1 /\ trial.i \in Nat
        /\ (trial.stage = "warm-up" => trial.i < Warmups)
        /\ (trial.stage = "test" => trial.i < Tests)
        /\ t.stage \in {"warm-up", "test"} /\ t.correct \in BOOLEAN
    BY TrialType DEF Loses, AcquireSound, TrialInOrder
  <1>1. CASE /\ ~ LastOfStage(t) /\ trial' = [t EXCEPT !.i = @ + 1] /\ GoesTo("run")
    <2>1. /\ trial' \in Trials /\ trial'.i = trial.i + 1 /\ phase' = "run" /\ status' = status
          /\ trial'.stage = trial.stage /\ trial'.attempt = trial.attempt
          /\ trial'.correct = trial.correct /\ trial'.booted = trial.booted
          /\ (trial.stage = "warm-up" => trial.i + 1 < Warmups)
          /\ (trial.stage = "test" => trial.i + 1 < Tests)
          /\ program' = program
      BY <1>0, <1>1 DEF Trials, LastOfStage, GoesTo
    <2>2. TrialInOrder' /\ FirstAttempt' /\ SecondAttempt' /\ VerifiedAlone'
      BY <1>0, <2>1 DEF TrialInOrder, FirstAttempt, SecondAttempt, VerifiedAlone
    <2>3. DeadIsOld'
      BY <1>0, <2>1 DEF AcquireSound, DeadIsOld
    <2>4. NewInTestOne'
      BY <1>0, <2>1 DEF AcquireSound, NewInTestOne, Varies
    <2>5. TestsProve'
      BY <1>0, <2>1 DEF AcquireSound, TestsProve, ProvedSoFar, Own, Varies
    <2>6. SeededSoFar'
      BY <2>1 DEF AcquireSound, SeededSoFar
    <2>7. QED
      BY <2>1, <2>2, <2>3, <2>4, <2>5, <2>6 DEF AcquireSound
  <1>2. CASE /\ LastOfStage(t) /\ t.stage = "warm-up"
             /\ trial' = [t EXCEPT !.stage = "test", !.i = 0] /\ GoesTo("run")
    <2>1. /\ trial' \in Trials /\ trial'.i = 0 /\ phase' = "run" /\ status' = status
          /\ trial'.stage = "test" /\ trial'.booted = trial.booted
          /\ program' = program /\ trial.stage = "warm-up"
      <3>1. 0 \in 0 .. Warmups + Tests
        BY <1>0
      <3>2. trial' \in Trials /\ trial'.i = 0 /\ trial'.stage = "test" /\ trial'.booted = t.booted
        BY <1>2, <3>1 DEF Trials
      <3>3. QED
        BY <1>2, <3>2 DEF GoesTo
    <2>2. TrialInOrder' /\ FirstAttempt' /\ SecondAttempt' /\ VerifiedAlone'
      BY <1>0, <2>1 DEF TrialInOrder, FirstAttempt, SecondAttempt, VerifiedAlone
    <2>3. DeadIsOld'
      BY <1>0, <2>1 DEF AcquireSound, DeadIsOld
    <2>4. NewInTestOne'
      BY <1>0, <2>1 DEF AcquireSound, NewInTestOne, Varies
    <2>5. TestsProve' /\ SeededSoFar'
      BY <1>0, <2>1 DEF AcquireSound, TestsProve, ProvedSoFar, SeededSoFar
    <2>6. QED
      BY <2>1, <2>2, <2>3, <2>4, <2>5 DEF AcquireSound
  <1>3. CASE /\ LastOfStage(t) /\ t.stage = "test" /\ t.correct /\ trial' = t /\ GoesTo("ready")
    <2>1. /\ trial' = t /\ phase' = "ready" /\ status' = status /\ program' = program
          /\ trial.i + 1 = Tests /\ trial.stage = "test" /\ phase = "trace"
      BY <1>0, <1>3 DEF LastOfStage, GoesTo
    <2>2. TrialInOrder' /\ FirstAttempt' /\ SecondAttempt' /\ VerifiedAlone'
      BY <1>0, <1>3, <2>1 DEF TrialInOrder, FirstAttempt, SecondAttempt, VerifiedAlone
    <2>3. DeadIsOld'
      BY <1>0, <2>1 DEF AcquireSound, DeadIsOld
    <2>4. NewInTestOne'
      BY <1>0, <2>1 DEF AcquireSound, NewInTestOne, Varies
    <2>5. TestsProve'
      BY <1>0, <2>1 DEF AcquireSound, TestsProve, ProvedSoFar, Own, Varies
    <2>6. SeededSoFar'
      BY <2>1 DEF AcquireSound, SeededSoFar
    <2>7. QED
      BY <2>1, <2>2, <2>3, <2>4, <2>5, <2>6 DEF AcquireSound
  <1>4. CASE trial' = t /\ GivesUp
    BY <1>4, EndsSound DEF GivesUp
  <1>5. QED
    BY <1>1, <1>2, <1>3, <1>4 DEF Proceeds

\* The preflight reads an answer.
LEMMA PreflightReadsSound ==
  ASSUME SessionSound, AcquireSound, program = "acquire", PreflightReads
  PROVE  SessionSound' /\ AcquireSound'
  <1> DEFINE got == Head(rx)[2]
  <1>0. /\ phase = "answer" /\ trial.stage # "verify" /\ phase' = "trace"
        /\ UNCHANGED <<board, says, husky, campaign, status, program>>
        /\ ReadFrame(trial.ask) /\ trial.ask \in Asks /\ Waits /\ status \in Statuses
        /\ trial' = [trial EXCEPT !.correct = @ /\ (trial.stage = "test" => Got = Wanted)]
    BY AskedFor DEF PreflightReads, boardVars, GoesTo, Waits, SessionSound, Statuses
  <1>1. ~ Waits'
    BY <1>0 DEF Waits
  <1>2. /\ SessionSound' /\ Loses
        /\ got \in Owed /\ got \in Asks /\ got \in 1 .. asked /\ Got = says[got]
        /\ \A n \in Owed' : got < n
    BY <1>0, <1>1, Reads1
  <1>3. /\ trial' \in Trials /\ UNCHANGED <<trial.stage, trial.attempt, trial.i, trial.booted>>
        /\ (trial'.correct /\ trial.stage = "test" => trial.correct /\ Got = Wanted)
    BY <1>0 DEF AcquireSound, Trials
  <1>4. /\ asked' = asked /\ says' = says /\ Owed' \subseteq Owed /\ asked \in Nat
        /\ Owed' \subseteq 1 .. asked
    BY <1>2, LinkBounds DEF Loses, SessionSound, LineSound, LinkTypeOK, InOrder
  <1> HIDE DEF got
  <1>5. got = asked => Owed' = {}
    BY <1>2, <1>4
  <1>6. TrialInOrder' /\ FirstAttempt' /\ SecondAttempt' /\ VerifiedAlone'
    BY <1>0, <1>3 DEF AcquireSound, TrialInOrder, FirstAttempt, SecondAttempt, VerifiedAlone
  <1>7. DeadIsOld'
    BY <1>0, <1>3, <1>4 DEF AcquireSound, DeadIsOld
  <1>8. NewInTestOne'
    BY <1>0, <1>3, <1>4 DEF AcquireSound, NewInTestOne, Varies
  <1>9. TestsProve'
    <2> SUFFICES ASSUME Varies, trial.stage = "test", trial'.correct, trial.i > 0
                 PROVE  campaign.core \notin board.dead /\ Owed' = {}
      BY <1>0, TrialType, <1>3 DEF TestsProve, ProvedSoFar, Own, Varies
    <2>1. trial.correct /\ Got = Wanted
      BY <1>3
    <2>2. CASE trial.i = 1
      <3>1. says[got] = Enc(3)
        BY <1>2, <2>1, <2>2, WantedForms
      <3>2. got = asked
        BY <1>0, <1>2, <2>2, <3>1 DEF AcquireSound, NewInTestOne
      <3>3. campaign.core \notin board.dead
        BY <1>2, <3>1 DEF AcquireSound, DeadIsOld, Enc, Junk, Old
      <3>4. QED
        BY <1>5, <3>2, <3>3
    <2>3. CASE trial.i > 1
      BY <1>0, <2>1, <2>3, <1>2, <1>5 DEF AcquireSound, TestsProve, ProvedSoFar, Own
    <2>4. QED
      BY <2>2, <2>3, TrialType
  <1>10. SeededSoFar'
    BY <1>0, <1>3 DEF AcquireSound, SeededSoFar
  <1>11. QED
    BY <1>0, <1>2, <1>3, <1>6, <1>7, <1>8, <1>9, <1>10 DEF AcquireSound

\* The preflight goes on without an answer, or captures.
LEMMA PreflightGoesOn ==
  ASSUME SessionSound, AcquireSound, program = "acquire", PreflightMisses \/ PreflightCaptures
  PROVE  SessionSound' /\ AcquireSound'
  <1>0. LineSound /\ HuskyTypeOK(Asks) /\ BoardTypeOK /\ status \in Statuses /\ trial \in Trials
    BY DEF SessionSound, Statuses, AcquireSound
  <1>1. /\ UNCHANGED <<board, says, husky, campaign>> /\ trial.stage # "verify"
    BY DEF PreflightMisses, PreflightCaptures, boardVars, AcquireSound, TrialInOrder
  <1>2. PICK t \in Trials : /\ t = trial \/ t = [trial EXCEPT !.fired = TRUE]
                            /\ \/ Proceeds(t) /\ (phase = "answer" => trial.stage = "warm-up")
                               \/ trial' = trial /\ GivesUp
    BY <1>0 DEF Trials, PreflightMisses, PreflightCaptures
  <1>3. /\ t.stage = trial.stage /\ t.attempt = trial.attempt /\ t.i = trial.i
        /\ t.correct = trial.correct /\ t.booted = trial.booted
    BY <1>0, <1>2 DEF Trials
  <1>4. Loses => AcquireSound' /\ phase' \in {"run", "ready", "disconnect"}
                 /\ program' = program /\ status' \in {status, "error"}
    BY <1>1, <1>3, ProceedsSound, EndsAtOnce, <1>2 DEF PreflightMisses, PreflightCaptures, GivesUp
  <1>5. /\ phase' \in {"run", "ready", "disconnect"} /\ status' \in Statuses
        /\ program' = program
    BY <1>0, <1>2 DEF Proceeds, GoesTo, GivesUp, Statuses
  <1>6. ~ Waits'
    BY <1>5 DEF Waits
  <1>7. CASE PreflightMisses
    BY <1>7, AskedFor, <1>1, <1>5, <1>6, Misses1, <1>4 DEF PreflightMisses, Waits
  <1>8. CASE PreflightCaptures
    BY <1>8, <1>0, <1>1, HuskyTyped, <1>5, <1>6, HostMoves, <1>4
       DEF PreflightCaptures, BoardTypeOK
  <1>9. QED
    BY <1>7, <1>8

\* The campaign begins, or the program ends.
LEMMA AcquireEnds ==
  ASSUME SessionSound, AcquireSound, program = "acquire",
         CampaignEnds \/ AdapterRaises \/ ClosesBackend \/ ClosesTarget
  PROVE  SessionSound' /\ AcquireSound'
  <1>0. LineSound /\ HuskyTypeOK(Asks) /\ BoardTypeOK /\ status \in Statuses
    BY DEF SessionSound, Statuses
  <1>1. UNCHANGED <<board, says, campaign, trial>> /\ BoardTypeOK'
    BY <1>0 DEF CampaignEnds, AdapterRaises, ClosesBackend, ClosesTarget, ShutDevice, ShutLock,
                boardVars, adapterVars, BoardTypeOK
  <1>2. CASE CampaignEnds \/ AdapterRaises \/ ClosesBackend
    <2>1. /\ UNCHANGED <<link, missed, program>> /\ (husky' = husky \/ Disconnect)
          /\ phase' \in {"disconnect", "shut"} /\ status' \in Statuses /\ status' # "running"
      BY <1>0, <1>2 DEF CampaignEnds, AdapterRaises, ClosesBackend, GivesUp, GoesTo, Statuses,
                        AcquireSound, TrialInOrder
    <2>2. HuskyTypeOK(Asks)' /\ ~ Waits'
      BY <1>0, <2>1, HuskyTyped DEF Waits
    <2>3. SessionSound' /\ Loses
      BY <1>1, <2>1, <2>2, HostMoves
    <2>4. QED
      BY <1>1, <2>1, <2>3, EndsAtOnce
  <1>3. CASE ClosesTarget
    BY <1>3, PortLeft, <1>1, EndsAtOnce DEF WaitPhases, ClosesTarget
  <1>4. QED
    BY <1>2, <1>3

\* Text is skipped.
LEMMA AcquireSkips ==
  ASSUME SessionSound, AcquireSound, program = "acquire", SkipsText, UNCHANGED adapterVars
  PROVE  SessionSound' /\ AcquireSound'
  <1>1. SessionSound' /\ Loses /\ UNCHANGED <<phase, status, board, campaign, trial>>
    BY Skips1 DEF adapterVars
  <1>2. /\ asked' = asked /\ says' = says /\ Owed' \subseteq Owed
        /\ Numbers(due') \subseteq Numbers(due)
    BY <1>1 DEF Loses
  <1>3. TrialInOrder' /\ FirstAttempt' /\ SeededSoFar'
    BY <1>1, <1>2 DEF AcquireSound, TrialInOrder, FirstAttempt, SeededSoFar
  <1>4. SecondAttempt' /\ VerifiedAlone'
    BY <1>1, <1>2 DEF AcquireSound, SecondAttempt, VerifiedAlone, Own
  <1>5. DeadIsOld' /\ NewInTestOne'
    BY <1>1, <1>2 DEF AcquireSound, DeadIsOld, NewInTestOne, Varies
  <1>6. TestsProve'
    BY <1>1, <1>2 DEF AcquireSound, TestsProve, ProvedSoFar, Varies, Own
  <1>7. QED
    BY <1>1, <1>3, <1>4, <1>5, <1>6 DEF AcquireSound

\* A campaign starts sound.
LEMMA AcquireStarts == ASSUME HostInit, program = "acquire" PROVE AcquireSound
  <1>1. PICK dead \in {{}, {campaign.core}} : BoardInit(dead, {Junk, Enc(1)})
    BY DEF HostInit
  <1>2. PICK owed \in {0, 1} :
          /\ asked = owed
          /\ says = [k \in 1 .. owed |-> Old]
          /\ board \in [sendback : {owed = 1}, rng : {FALSE}, dead : {dead},
                        result : {Junk, Enc(1)}, boots : {0}, lost : {0}]
    BY <1>1 DEF BoardInit
  <1>3. /\ phase = "start" /\ status = "running" /\ campaign \in Campaigns
        /\ trial = [stage |-> "verify", attempt |-> 1, i |-> 0, ask |-> 0, fired |-> FALSE,
                    correct |-> TRUE, booted |-> "no"]
    BY <1>1 DEF BoardInit, HostInit, AdapterInit
  <1>4. trial \in Trials
    BY <1>3, AdapterAssumption, LinkBounds DEF Trials
  <1>5. \A k \in 1 .. asked : says[k] = Old
    BY <1>2
  <1>6. board.result \in {Junk, Enc(1)}
    BY <1>2
  <1>7. TrialInOrder /\ SecondAttempt /\ VerifiedAlone /\ TestsProve /\ SeededSoFar
    BY <1>3 DEF TrialInOrder, SecondAttempt, VerifiedAlone, TestsProve, ProvedSoFar, SeededSoFar
  <1>8. FirstAttempt /\ DeadIsOld /\ NewInTestOne
    BY <1>3, <1>5, <1>6 DEF FirstAttempt, DeadIsOld, NewInTestOne, Old, Enc, Junk
  <1>9. QED
    BY <1>3, <1>4, <1>7, <1>8 DEF AcquireSound

\* A stuttering step.
LEMMA NothingHappens ==
  ASSUME SessionSound, AcquireSound, UNCHANGED hostVars
  PROVE  SessionSound' /\ AcquireSound'
  <1>1. UNCHANGED <<device, session>> /\ UNCHANGED <<campaign, trial>>
    BY DEF hostVars, adapterVars, device, session
  <1>2. /\ SessionSound' /\ Loses /\ Owed' = Owed /\ Numbers(due') = Numbers(due)
    BY <1>1, SessionRests
  <1>3. UNCHANGED <<asked, says, phase, status, board>>
    BY <1>1, <1>2 DEF device, session, boardVars, Loses
  <1>4. TrialInOrder' /\ FirstAttempt' /\ SeededSoFar'
    BY <1>1, <1>3 DEF AcquireSound, TrialInOrder, FirstAttempt, SeededSoFar
  <1>5. SecondAttempt' /\ VerifiedAlone' /\ TestsProve'
    BY <1>1, <1>2, <1>3 DEF AcquireSound, SecondAttempt, VerifiedAlone, Own, TestsProve,
                            ProvedSoFar, Varies
  <1>6. DeadIsOld' /\ NewInTestOne'
    BY <1>1, <1>3 DEF AcquireSound, DeadIsOld, NewInTestOne, Varies
  <1>7. QED
    BY <1>1, <1>2, <1>4, <1>5, <1>6 DEF AcquireSound

\* A campaign at any time, and the three things the preflight must not get wrong.
CampaignSound == program = "acquire" => SessionSound /\ AcquireSound

\* Any step of the host keeps it.
LEMMA CampaignKept == CampaignSound /\ [HostNext]_hostVars => CampaignSound'
  <1> SUFFICES ASSUME CampaignSound, [HostNext]_hostVars, program' = "acquire"
               PROVE  SessionSound' /\ AcquireSound'
    BY DEF CampaignSound
  <1>1. program = "acquire"
    BY ProgramFixed
  <1>2. SessionSound /\ AcquireSound
    BY <1>1 DEF CampaignSound
  <1>3. CASE UNCHANGED hostVars
    BY <1>2, <1>3, NothingHappens
  <1>4. CASE Acquired
    <2>1. CASE SkipsText /\ UNCHANGED adapterVars
      BY <1>1, <1>2, <2>1, AcquireSkips
    <2>2. CASE Acquiring
      BY <1>1, <1>2, <2>2, BringsUpOpens, SelectsAndLoads, RunsSound, VerifiesSound,
         ReprogramsSound, PreflightReadsSound, PreflightGoesOn, AcquireEnds
         DEF Acquiring, BringingUp, Preflights
    <2>3. QED
      BY <1>4, <2>1, <2>2 DEF Acquired
  <1>5. CASE AcquireDisturbed
    BY <1>1, <1>2, <1>5, AcquireEnds DEF AcquireDisturbed
  <1>6. CASE World
    BY <1>2, <1>6, WorldSound, AcquireWorld
  <1>7. QED
    BY <1>1, <1>3, <1>4, <1>5, <1>6
       DEF HostNext, StoreProgram, Experimented, ExperimentDisturbed, Operated,
           OperationDisturbed, SelfChecked, SelfCheckDisturbed, Monitored, MonitorEnds

\* No frame is an answer when none is owed.
LEMMA NothingOwedIff == ASSUME LineSound, Owed = {} PROVE NothingOwed
  BY NumbersType DEF LineSound, LinkTypeOK, NothingOwed, Owed

\* What BringUpIsSound says follows.
LEMMA CampaignProves == CampaignSound => BringUpIsSound
  <1> SUFFICES ASSUME CampaignSound, program = "acquire" PROVE BringUpIsSound
    BY DEF BringUpIsSound, VerifiedIsAligned, PreflightProvesTarget, MaskedBootsSeeded, Acquires
  <1>1. SessionSound /\ AcquireSound /\ LineSound
    BY DEF CampaignSound, SessionSound
  <1>2. VerifiedIsAligned
    BY <1>1, NothingOwedIff DEF VerifiedIsAligned, AcquireSound, VerifiedAlone
  <1>3. PreflightProvesTarget
    BY <1>1, TrialType, NothingOwedIff
       DEF PreflightProvesTarget, Varies, AcquireSound, TrialInOrder, ProvedSoFar, TestsProve,
           Own
  <1>4. MaskedBootsSeeded
    BY <1>1 DEF AcquireSound, SeededSoFar, MaskedBootsSeeded
  <1>5. QED
    BY <1>2, <1>3, <1>4 DEF BringUpIsSound

\* A campaign begins only with an aligned link to a target that works, and with a
\* seeded one where it is masked.
THEOREM PreflightIsSound == HostSpec => []BringUpIsSound
  <1>1. HostInit => CampaignSound
    BY SessionStarts, AcquireStarts DEF CampaignSound
  <1>2. CampaignSound /\ [HostNext]_hostVars => CampaignSound'
    BY CampaignKept
  <1>3. CampaignSound => BringUpIsSound
    BY CampaignProves
  <1>4. QED
    BY <1>1, <1>2, <1>3, PTL DEF HostSpec

-----------------------------------------------------------------------------
(* The self-check.                                                         *)

Sweeps ==
  [step : 1 .. 2, ask : 0 .. MaxAsks, read : 0 .. MaxAsks, found : Seq(Finding)]

\* What the last command may have answered when a check begins, and when it ends: no
\* check of a core begins behind an answer that it wants itself.
Before(check) ==
  CASE check.name = "encrypt" /\ check.core = "aes1" -> {Word}
    [] check.name = "encrypt" /\ check.core = "aes2" -> {Input(Pt), Junk}
    [] check.name \in {"uart_baud", "clock", "prng"} -> {Word}
    [] check.name = "decrypt" -> {Enc(Pt), Junk}
    [] check.name = "swrv" -> {Enc(Pt), Junk}
    [] OTHER -> Data
After(check) ==
  CASE check.name \in {"uart_link", "uart_baud", "clock", "control"} -> {Word}
    [] check.name \in {"encrypt", "prng"} -> {Enc(Pt), Junk}
    [] check.name = "decrypt" -> {Input(Pt), Junk}
    [] OTHER -> Data

\* What a command answers.
Replies(command) ==
  IF command.core = "none" \/ command.core \notin board.dead THEN {command.value}
  ELSE IF command.core = "swrv" THEN Data \ {Enc(SwrvPt)}
  ELSE {Junk}

Asking == phase \in {"answer", "trace", "drain"}
InSweep == Asking \/ phase = "check"

SweepInOrder ==
  /\ Len(sweep.found) <= Len(Sweep) /\ sweep.read <= sweep.ask /\ sweep.ask <= asked
  /\ Asking => /\ sweep.ask = asked /\ asked \in Asks /\ Left > 0
               /\ ~ Skipped /\ Now.asks # <<>> /\ sweep.step <= Len(Now.asks)
               /\ phase = "answer" <=> Now.name # "trace"
  /\ phase = "check" /\ sweep.step > 1 => Left > 0 /\ ~ Skipped /\ sweep.step <= Len(Now.asks)
  /\ phase \in {"start", "scope", "setup", "clock", "lock", "port", "sendback"}
     => sweep.found = <<>> /\ sweep.step = 1

LastReply ==
  Left > 0 =>
    /\ phase = "check" /\ sweep.step = 1 /\ sweep.found # <<>>
       => asked \in Asks /\ says[asked] \in Before(Now)
    /\ phase = "check" /\ sweep.step = 2 => asked \in Asks /\ says[asked] \in After(Now)
    /\ phase = "answer"
       => /\ says[asked] \in After(Now) /\ says[asked] \in Replies(Now.asks[sweep.step])
          /\ sweep.step = 1 /\ sweep.found # <<>>
             => asked - 1 \in Asks /\ says[asked - 1] \in Before(Now)

ResultOfOthers == "swrv" \in board.dead => board.result # Enc(SwrvPt)

\* As long as every command is answered the answers stay with their commands.
AnsweredInTurn ==
  Calm /\ Left > 0 /\ phase \notin {"shut", "unlock", "release", "over"} =>
    Owed \subseteq (IF Asking THEN {asked} ELSE {})

\* The mask is asked for once, for two checks.
MaskKept ==
  phase = "check" /\ Left > 0 /\ Now.name = "kat" /\ Now.core = "xoodyak" =>
    /\ sweep.ask \in 1 .. asked /\ says[sweep.ask] = Kat(KatMask(board.dead))
    /\ Calm => sweep.read = sweep.ask

DeadFails(k) ==
  /\ Sweep[k].core \in board.dead
  /\ sweep.found[k].behind = 0 \/ (Sweep[k].name # "kat" /\ sweep.found[k].behind = 1)
  => sweep.found[k].verdict # "PASS"
OthersPass(k) ==
  Calm /\ board.boots = 0 /\ sweep.found[k].verdict = "FAIL" =>
    Sweep[k].name \in {"clock", "trace"} \/ Sweep[k].core \in board.dead

CheckSound ==
  /\ options \in Checkups /\ sweep \in Sweeps /\ SweepInOrder
  /\ LastReply /\ ResultOfOthers /\ AnsweredInTurn /\ MaskKept
  /\ \A k \in DOMAIN sweep.found : DeadFails(k) /\ OthersPass(k)

\* The fourteen checks.
Checks ==
  {Check("uart_link", "none", <<Reads(Word)>>, Data),
   Check("uart_baud", "none", <<Reads(Word), Reads(Word)>>, Data),
   Check("clock", "none", <<>>, {}),
   Encrypts("aes1"), Decrypts("aes1"), Encrypts("aes2"), Decrypts("aes2"),
   Check("kat", "ascon", <<Reads(Kat(KatMask(board.dead)))>>, KatAnswers("ascon")),
   Check("kat", "xoodyak", <<>>, KatAnswers("xoodyak")),
   Check("timer", "none", <<RunOf("aes1", Enc(Pt)), Reads(Word)>>, NotZero),
   Check("control", "none", <<Reads(Word)>>, Data),
   Check("prng", "aes1", <<RunOf("aes1", Enc(Pt))>>, {Enc(Pt)}),
   Check("swrv", "swrv", <<RunOf("swrv", Enc(SwrvPt))>>, {Enc(SwrvPt)}),
   Check("trace", "none", <<RunOf("aes1", Enc(Pt))>>, Data)}

\* A list of fourteen in the parts that the table has.
LEMMA Chain14 ==
  ASSUME NEW a1, NEW a2, NEW a3, NEW a4, NEW a5, NEW a6, NEW a7, NEW a8, NEW a9, NEW a10,
         NEW a11, NEW a12, NEW a13, NEW a14
  PROVE  LET list == <<a1, a2>> \o <<a3>> \o <<a4, a5, a6, a7>>
                     \o <<a8, a9, a10, a11, a12, a13, a14>>
         IN  /\ Len(list) = 14
             /\ list[1] = a1 /\ list[2] = a2 /\ list[3] = a3 /\ list[4] = a4 /\ list[5] = a5
             /\ list[6] = a6 /\ list[7] = a7 /\ list[8] = a8 /\ list[9] = a9 /\ list[10] = a10
             /\ list[11] = a11 /\ list[12] = a12 /\ list[13] = a13 /\ list[14] = a14
  OBVIOUS

\* A list of thirteen in the parts that the table has.
LEMMA Chain13 ==
  ASSUME NEW a1, NEW a2, NEW a4, NEW a5, NEW a6, NEW a7, NEW a8, NEW a9, NEW a10,
         NEW a11, NEW a12, NEW a13, NEW a14
  PROVE  LET list == <<a1, a2>> \o <<>> \o <<a4, a5, a6, a7>> \o <<a8, a9, a10, a11, a12, a13, a14>>
         IN  /\ Len(list) = 13
             /\ list[1] = a1 /\ list[2] = a2 /\ list[3] = a4 /\ list[4] = a5 /\ list[5] = a6
             /\ list[6] = a7 /\ list[7] = a8 /\ list[8] = a9 /\ list[9] = a10 /\ list[10] = a11
             /\ list[11] = a12 /\ list[12] = a13 /\ list[13] = a14
  OBVIOUS

SweepTable(n) ==
  /\ Len(Sweep) = n + 12
  /\ Sweep[1] = Check("uart_link", "none", <<Reads(Word)>>, Data)
  /\ Sweep[2] = Check("uart_baud", "none", <<Reads(Word), Reads(Word)>>, Data)
  /\ n = 2 => Sweep[3] = Check("clock", "none", <<>>, {})
  /\ Sweep[n + 2] = Encrypts("aes1") /\ Sweep[n + 3] = Decrypts("aes1")
  /\ Sweep[n + 4] = Encrypts("aes2") /\ Sweep[n + 5] = Decrypts("aes2")
  /\ Sweep[n + 6] = Check("kat", "ascon", <<Reads(Kat(KatMask(board.dead)))>>, KatAnswers("ascon"))
  /\ Sweep[n + 7] = Check("kat", "xoodyak", <<>>, KatAnswers("xoodyak"))
  /\ Sweep[n + 8] = Check("timer", "none", <<RunOf("aes1", Enc(Pt)), Reads(Word)>>, NotZero)
  /\ Sweep[n + 9] = Check("control", "none", <<Reads(Word)>>, Data)
  /\ Sweep[n + 10] = Check("prng", "aes1", <<RunOf("aes1", Enc(Pt))>>, {Enc(Pt)})
  /\ Sweep[n + 11] = Check("swrv", "swrv", <<RunOf("swrv", Enc(SwrvPt))>>, {Enc(SwrvPt)})
  /\ Sweep[n + 12] = Check("trace", "none", <<RunOf("aes1", Enc(Pt))>>, Data)

\* The table of the checks, without and with the clock.
LEMMA SweepListed ==
  ASSUME options.capture \in BOOLEAN
  PROVE  SweepTable(IF options.capture THEN 2 ELSE 1)
  BY Chain14, Chain13 DEF Sweep, AesChecks, SweepTable

\* The names by which the table is read below.
CLink == Check("uart_link", "none", <<Reads(Word)>>, Data)
CBaud == Check("uart_baud", "none", <<Reads(Word), Reads(Word)>>, Data)
CClock == Check("clock", "none", <<>>, {})
CAscon == Check("kat", "ascon", <<Reads(Kat(KatMask(board.dead)))>>, KatAnswers("ascon"))
CXoodyak == Check("kat", "xoodyak", <<>>, KatAnswers("xoodyak"))
CTimer == Check("timer", "none", <<RunOf("aes1", Enc(Pt)), Reads(Word)>>, NotZero)
CControl == Check("control", "none", <<Reads(Word)>>, Data)
CPrng == Check("prng", "aes1", <<RunOf("aes1", Enc(Pt))>>, {Enc(Pt)})
CSwrv == Check("swrv", "swrv", <<RunOf("swrv", Enc(SwrvPt))>>, {Enc(SwrvPt)})
CTrace == Check("trace", "none", <<RunOf("aes1", Enc(Pt))>>, Data)

\* The names and the cores of the checks.
LEMMA CheckNames ==
  /\ CLink.name = "uart_link" /\ CBaud.name = "uart_baud" /\ CClock.name = "clock"
  /\ CAscon.name = "kat" /\ CXoodyak.name = "kat" /\ CTimer.name = "timer"
  /\ CControl.name = "control" /\ CPrng.name = "prng" /\ CSwrv.name = "swrv"
  /\ CTrace.name = "trace"
  /\ \A core : Encrypts(core).name = "encrypt" /\ Encrypts(core).core = core
               /\ Decrypts(core).name = "decrypt" /\ Decrypts(core).core = core
  /\ CLink.core = "none" /\ CLink.asks # <<>>
  /\ CAscon.core = "ascon" /\ CXoodyak.core = "xoodyak"
  BY DEF CLink, CBaud, CClock, CAscon, CXoodyak, CTimer, CControl, CPrng, CSwrv, CTrace, Check,
         Encrypts, Decrypts

\* What each check may leave on the line.
LEMMA AfterForms ==
  /\ After(CLink) = {Word} /\ After(CBaud) = {Word} /\ After(CClock) = {Word}
  /\ \A core : After(Encrypts(core)) = {Enc(Pt), Junk} /\ After(Decrypts(core)) = {Input(Pt), Junk}
  /\ After(CAscon) = Data /\ After(CXoodyak) = Data /\ After(CTimer) = Data
  /\ After(CControl) = {Word} /\ After(CPrng) = {Enc(Pt), Junk} /\ After(CSwrv) = Data
  BY CheckNames DEF After

\* What each check may find on the line.
LEMMA BeforeForms ==
  /\ Before(CBaud) = {Word} /\ Before(CClock) = {Word}
  /\ Before(Encrypts("aes1")) = {Word} /\ Before(Decrypts("aes1")) = {Enc(Pt), Junk}
  /\ Before(Encrypts("aes2")) = {Input(Pt), Junk} /\ Before(Decrypts("aes2")) = {Enc(Pt), Junk}
  /\ Before(CAscon) = Data /\ Before(CXoodyak) = Data /\ Before(CTimer) = Data
  /\ Before(CControl) = Data /\ Before(CPrng) = {Word} /\ Before(CSwrv) = {Enc(Pt), Junk}
  /\ Before(CTrace) = Data
  BY CheckNames DEF Before

\* Each check begins behind what the one before it may have left.
LEMMA SweepForms ==
  ASSUME options.capture \in BOOLEAN
  PROVE  /\ Len(Sweep) \in 13 .. 14
         /\ \A n \in 1 .. Len(Sweep) : Sweep[n] \in Checks
         /\ \A n \in 1 .. Len(Sweep) : Sweep[n].name = "trace" => n = Len(Sweep)
         /\ \A n \in 1 .. Len(Sweep) - 1 : After(Sweep[n]) \subseteq Before(Sweep[n + 1])
         /\ \A n \in 1 .. Len(Sweep) - 1 :
              Sweep[n + 1].name = "kat" /\ Sweep[n + 1].core = "xoodyak"
              => Sweep[n].name = "kat" /\ Sweep[n].core = "ascon"
         /\ Sweep[1].name = "uart_link" /\ Sweep[1].asks # <<>> /\ Sweep[1].core = "none"
  <1> DEFINE n == IF options.capture THEN 2 ELSE 1
  <1>1. SweepTable(n) /\ n \in {1, 2}
    BY SweepListed
  <1> HIDE DEF n
  <1>2. /\ Len(Sweep) = n + 12 /\ Sweep[1] = CLink /\ Sweep[2] = CBaud
        /\ n = 2 => Sweep[3] = CClock
        /\ Sweep[n + 2] = Encrypts("aes1") /\ Sweep[n + 3] = Decrypts("aes1")
        /\ Sweep[n + 4] = Encrypts("aes2") /\ Sweep[n + 5] = Decrypts("aes2")
        /\ Sweep[n + 6] = CAscon /\ Sweep[n + 7] = CXoodyak /\ Sweep[n + 8] = CTimer
        /\ Sweep[n + 9] = CControl /\ Sweep[n + 10] = CPrng /\ Sweep[n + 11] = CSwrv
        /\ Sweep[n + 12] = CTrace
    BY <1>1 DEF SweepTable, CLink, CBaud, CClock, CAscon, CXoodyak, CTimer, CControl, CPrng,
                CSwrv, CTrace
  <1>3. \A k \in 1 .. Len(Sweep) :
          \/ k \in {1, 2} \/ (n = 2 /\ k = 3) \/ k \in {n + 2, n + 3, n + 4, n + 5}
          \/ k \in {n + 6, n + 7, n + 8, n + 9} \/ k \in {n + 10, n + 11, n + 12}
    BY <1>1, <1>2
  <1>4. \A k \in 1 .. Len(Sweep) : Sweep[k] \in Checks
    BY <1>2, <1>3 DEF Checks, CLink, CBaud, CClock, CAscon, CXoodyak, CTimer, CControl, CPrng,
                      CSwrv, CTrace
  <1>5. \A k \in 1 .. Len(Sweep) : Sweep[k].name = "trace" => k = Len(Sweep)
    BY SMTT(30), <1>2, <1>3, CheckNames
  <1>6. \A k \in 1 .. Len(Sweep) - 1 : After(Sweep[k]) \subseteq Before(Sweep[k + 1])
    BY DataForms, CheckAssumption, ControllerBounds, <1>2, AfterForms, BeforeForms, <1>1, <1>3
       DEF Pt
  <1>7. \A k \in 1 .. Len(Sweep) - 1 :
          Sweep[k + 1].name = "kat" /\ Sweep[k + 1].core = "xoodyak"
          => Sweep[k].name = "kat" /\ Sweep[k].core = "ascon"
    <2> SUFFICES ASSUME NEW k \in 1 .. Len(Sweep) - 1, Sweep[k + 1].name = "kat",
                        Sweep[k + 1].core = "xoodyak"
                 PROVE  Sweep[k].name = "kat" /\ Sweep[k].core = "ascon"
      OBVIOUS
    <2>b. ASSUME NEW m \in 1 .. Len(Sweep), m # n + 6, m # n + 7 PROVE Sweep[m].name # "kat"
      <3>1. \/ m \in {1, 2} \/ (n = 2 /\ m = 3) \/ m = n + 2 \/ m = n + 3 \/ m = n + 4
            \/ m = n + 5 \/ m = n + 8 \/ m = n + 9 \/ m = n + 10 \/ m = n + 11 \/ m = n + 12
        BY <1>3, <2>b
      <3>2. Sweep[m] \in {CLink, CBaud, CClock, Encrypts("aes1"), Decrypts("aes1"),
                         Encrypts("aes2"), Decrypts("aes2"), CTimer, CControl, CPrng, CSwrv, CTrace}
        BY <1>2, <3>1
      <3>3. QED
        BY <3>2, CheckNames
    <2>c. Sweep[n + 6].core # "xoodyak"
      BY <1>2, CheckNames
    <2>0. \A m \in 1 .. Len(Sweep) : m = n + 7 \/ Sweep[m].name # "kat" \/ Sweep[m].core # "xoodyak"
      BY <1>1, <2>b, <2>c
    <2>a. k + 1 \in 1 .. Len(Sweep)
      BY <1>1, <1>2
    <2>1. k + 1 = n + 7
      BY <2>0, <2>a
    <2>2. k = n + 6
      BY <1>1, <2>1
    <2>3. QED
      BY <1>1, <1>2, <2>2, CheckNames
  <1>8. Sweep[1].name = "uart_link" /\ Sweep[1].asks # <<>> /\ Sweep[1].core = "none"
    BY <1>2, CheckNames
  <1>a. Len(Sweep) \in 13 .. 14
    BY <1>1, <1>2
  <1>9. QED
    BY <1>a, <1>4, <1>5, <1>6, <1>7, <1>8

\* What a check asks, what its answers are, and what it wants.
LEMMA CheckForms ==
  ASSUME NEW check \in Checks
  PROVE  /\ check.asks = <<>>
            <=> check.name = "clock" \/ (check.name = "kat" /\ check.core = "xoodyak")
         /\ check.asks # <<>> => Len(check.asks) \in 1 .. 2
         /\ check.core \in {"aes1", "aes2", "swrv"} => Len(check.asks) = 1
         /\ check.core \in Cores => check.core \in {"aes1", "aes2", "swrv"} \/ check.name = "kat"
         /\ check.name = "kat" /\ check.core # "xoodyak"
            => check.core = "ascon" /\ Len(check.asks) = 1
         /\ check.name # "kat" => check.core \notin {"ascon", "xoodyak"}
  BY DEF Checks, Check, Encrypts, Decrypts, Cores

\* The mask of the known-answer test tells which of its two cores is dead.
LEMMA MaskForms ==
  LET mask == KatMask(board.dead)
  IN  /\ Kat(mask) \in Data
      /\ Kat(mask) \in KatAnswers("ascon") <=> "ascon" \notin board.dead
      /\ Kat(mask) \in KatAnswers("xoodyak") <=> "xoodyak" \notin board.dead
  <1> DEFINE mask == KatMask(board.dead)
  <1>1. /\ mask \in 0 .. 3
        /\ mask % 2 = 1 <=> "xoodyak" \notin board.dead
        /\ mask \div 2 = 1 <=> "ascon" \notin board.dead
    BY DEF KatMask
  <1> HIDE DEF mask
  <1>2. Kat(mask) \in Data
    BY <1>1, DataForms, ControllerBounds, CheckAssumption
  <1>3. \A core : Kat(mask) \in KatAnswers(core) <=> KatBit(core, mask)
    BY <1>1 DEF KatAnswers, Kat
  <1>4. QED
    BY <1>1, <1>2, <1>3 DEF KatBit, mask

\* Its own answer is what a check may leave; a core that is dead does not give the
\* wanted one, a core that works, and the link, do.
RepliesFit(check, step) ==
  LET command == check.asks[step]
  IN  /\ command.value \in Data /\ Replies(command) \subseteq After(check)
      /\ command.core \in {"none", "aes1", "aes2", "swrv"}
      /\ command.core = "swrv" \/ command.value # Enc(SwrvPt)
      /\ step = Len(check.asks) =>
           /\ check.core \in board.dead => Replies(command) \cap check.wants = {}
           /\ check.name # "trace" /\ check.core \notin board.dead
              => Replies(command) \subseteq check.wants
           /\ check.name = "kat" => Replies(command) = {Kat(KatMask(board.dead))}

\* This holds of every command of every check.
LEMMA RepliesForms ==
  ASSUME board.dead \subseteq Cores, NEW check \in Checks, NEW step \in 1 .. Len(check.asks)
  PROVE  RepliesFit(check, step)
  <1>0. /\ {Word, Junk, Enc(Pt), Input(Pt), Enc(SwrvPt), Kat(KatMask(board.dead))} \subseteq Data
        /\ Junk \notin {Enc(Pt), Input(Pt)} /\ Enc(SwrvPt) \notin {Enc(Pt), Input(Pt), Word}
        /\ Word \in NotZero /\ Kat(KatMask(board.dead)) # Enc(SwrvPt) /\ "none" \notin board.dead
    <2>1. {Word, Junk, Enc(Pt), Input(Pt), Enc(SwrvPt), Kat(KatMask(board.dead))} \subseteq Data
      BY DataForms, MaskForms, CheckAssumption, ControllerBounds DEF Pt, SwrvPt
    <2>2. Junk \notin {Enc(Pt), Input(Pt)} /\ Enc(SwrvPt) \notin {Enc(Pt), Input(Pt), Word}
      BY DEF Pt, SwrvPt, Junk, Enc, Input, Word
    <2>3. Word # Kat(0) /\ \A n : Kat(n) # Enc(SwrvPt)
      BY DEF Word, Kat, Enc
    <2>4. "none" \notin board.dead
      BY DEF Cores
    <2>5. QED
      BY <2>1, <2>2, <2>3, <2>4 DEF NotZero
  <1>a. /\ \A value : Reads(value).core = "none" /\ Reads(value).value = value
                      /\ Replies(Reads(value)) = {value}
        /\ \A core \in {"aes1", "aes2"} : \A value :
             /\ RunOf(core, value).core = core /\ RunOf(core, value).value = value
             /\ Replies(RunOf(core, value)) = IF core \in board.dead THEN {Junk} ELSE {value}
        /\ RunOf("swrv", Enc(SwrvPt)).core = "swrv"
        /\ RunOf("swrv", Enc(SwrvPt)).value = Enc(SwrvPt)
        /\ Replies(RunOf("swrv", Enc(SwrvPt)))
           = IF "swrv" \in board.dead THEN Data \ {Enc(SwrvPt)} ELSE {Enc(SwrvPt)}
    BY DEF Reads, RunOf, Replies
  <1> USE DEF RepliesFit
  <1>1. CASE check \in {CLink, CBaud, CControl}
    BY <1>1, AfterForms, <1>0, <1>a DEF CLink, CBaud, CControl, Check
  <1>2. CASE check \in {CClock, CXoodyak}
    BY <1>2 DEF CClock, CXoodyak, Check
  <1>3. ASSUME NEW core \in {"aes1", "aes2"},
               check = Encrypts(core) \/ (check = CPrng /\ core = "aes1")
        PROVE  RepliesFit(check, step)
    <2>1. /\ check.asks[step] = RunOf(core, Enc(Pt)) /\ check.wants = {Enc(Pt)} /\ check.core = core
          /\ check.name \in {"encrypt", "prng"}
      BY <1>3 DEF Encrypts, CPrng, Check
    <2>2. After(check) = {Enc(Pt), Junk}
      BY <1>3, AfterForms
    <2>3. QED
      BY <1>0, <1>a, <2>1, <2>2
  <1>4. ASSUME NEW core \in {"aes1", "aes2"}, check = Decrypts(core)
        PROVE  RepliesFit(check, step)
    BY <1>4, AfterForms, <1>0, <1>a DEF Decrypts, Check
  <1>5. CASE check = CAscon
    BY <1>5, AfterForms, <1>0, <1>a, MaskForms DEF CAscon, Check
  <1>6. CASE check = CTimer
    BY <1>6, AfterForms, <1>0, <1>a DEF CTimer, Check
  <1>7. CASE check = CSwrv
    BY <1>7, AfterForms, <1>0, <1>a DEF CSwrv, Check
  <1>8. CASE check = CTrace
    BY <1>8, CheckNames, <1>0, <1>a DEF CTrace, Check, After
  <1>9. QED
    BY <1>1, <1>2, <1>3, <1>4, <1>5, <1>6, <1>7, <1>8
       DEF Checks, CLink, CBaud, CClock, CAscon, CXoodyak, CTimer, CControl, CPrng, CSwrv, CTrace

\* No check of a core that computes wants what may have been answered before it.
LEMMA BeforeIsNotWanted ==
  ASSUME NEW check \in Checks, check.core \in {"aes1", "aes2", "swrv"}
  PROVE  Before(check) \cap check.wants = {}
  <1>0. /\ Junk \notin {Enc(Pt), Input(Pt), Enc(SwrvPt)} /\ Word \notin {Enc(Pt), Input(Pt)}
        /\ Enc(Pt) # Input(Pt) /\ Enc(Pt) # Enc(SwrvPt)
    BY DEF Pt, SwrvPt, Junk, Enc, Input, Word
  <1>1. check \in {Encrypts("aes1"), Decrypts("aes1"), Encrypts("aes2"), Decrypts("aes2"),
                   CPrng, CSwrv}
    BY DEF Checks, Check, CPrng, CSwrv
  <1>2. /\ \A core : Encrypts(core).wants = {Enc(Pt)} /\ Decrypts(core).wants = {Input(Pt)}
        /\ CPrng.wants = {Enc(Pt)} /\ CSwrv.wants = {Enc(SwrvPt)}
    BY DEF Encrypts, Decrypts, CPrng, CSwrv, Check
  <1>3. QED
    BY <1>0, <1>1, <1>2, BeforeForms

\* The types of the self-check.
LEMMA CheckType ==
  ASSUME SessionSound, CheckSound
  PROVE  /\ options.capture \in BOOLEAN /\ options.platform \in Platforms
         /\ options.bitstream \in BOOLEAN /\ options.images \in BOOLEAN
         /\ board.dead \subseteq Cores /\ Len(Sweep) \in 13 .. 14
         /\ sweep.step \in {1, 2} /\ sweep.ask \in Nat /\ sweep.read \in Nat /\ asked \in Nat
         /\ sweep.found \in Seq(Finding) /\ Len(sweep.found) \in Nat
         /\ sweep.found = <<>> <=> Len(sweep.found) = 0
         /\ Left \in Nat
         /\ Left > 0 => Len(sweep.found) + 1 \in 1 .. Len(Sweep) /\ Now \in Checks
  BY LinkBounds, CheckAssumption, EmptySeq, SweepForms
     DEF CheckSound, SessionSound, LineSound, LinkTypeOK, Sweeps, SweepInOrder, Left,
         BoardTypeOK, Now

\* The list of checks is the same for the whole program.
LEMMA SweepSame ==
  ASSUME UNCHANGED options, board'.dead = board.dead
  PROVE  /\ Sweep' = Sweep /\ (KatMask(board.dead))' = KatMask(board.dead)
         /\ \A command : (Replies(command))' = Replies(command)
         /\ \A check : (Before(check))' = Before(check) /\ (After(check))' = After(check)
  BY DEF Sweep, AesChecks, Replies, Before, After, KatMask

CheckEarly == {"start", "scope", "setup", "clock", "lock", "port", "sendback"}
CheckLate == {"shut", "unlock", "release", "over"}

\* A step of the board, the port or the scope.
LEMMA CheckRests ==
  ASSUME SessionSound, CheckSound, Loses, UNCHANGED <<sweep, options, missed>>,
         board'.dead = board.dead, board'.result \in {board.result, Junk},
         board'.boots \in {board.boots, board.boots + 1},
         \/ phase' = phase \/ (phase = "trace" /\ phase' = "drain")
         \/ phase = "sendback" /\ phase' = "check"
         \/ phase \in CheckEarly /\ phase' \in CheckEarly
         \/ phase' \in CheckLate
  PROVE  CheckSound'
  <1>0. /\ asked' = asked /\ says' = says /\ Owed' \subseteq Owed /\ board.boots \in Nat
        /\ LineSound'
    BY ControllerBounds DEF Loses, SessionSound, BoardTypeOK
  <1>1. /\ Sweep' = Sweep /\ (KatMask(board.dead))' = KatMask(board.dead)
        /\ \A command : (Replies(command))' = Replies(command)
        /\ \A check : (Before(check))' = Before(check) /\ (After(check))' = After(check)
    BY SweepSame
  <1>2. /\ Left' = Left /\ Now' = Now /\ (Calm' <=> Calm) /\ (Skipped' <=> Skipped)
    BY <1>0, <1>1 DEF Left, Now, Calm, Skipped
  <1>3. SweepInOrder'
    BY <1>0, <1>1, <1>2 DEF CheckEarly, CheckLate, CheckSound, SweepInOrder, Asking
  <1>4. LastReply'
    BY <1>0, <1>1, <1>2 DEF CheckEarly, CheckLate, CheckSound, SweepInOrder, LastReply
  <1>5. ResultOfOthers'
    BY DEF CheckSound, ResultOfOthers, Junk, Enc
  <1>6. AnsweredInTurn'
    BY <1>0, <1>2 DEF CheckEarly, CheckLate, Asking, CheckSound, AnsweredInTurn
  <1>7. MaskKept'
    BY CheckType, SweepForms, <1>0, <1>1, <1>2
       DEF CheckEarly, CheckLate, CheckSound, SweepInOrder, Now, MaskKept
  <1>8. \A k \in DOMAIN sweep.found : DeadFails(k)' /\ OthersPass(k)'
    BY <1>0, <1>1, <1>2 DEF CheckSound, DeadFails, OthersPass
  <1>9. QED
    BY <1>3, <1>4, <1>5, <1>6, <1>7, <1>8 DEF CheckSound

\* A check ends.
LEMMA EndedSound ==
  ASSUME SessionSound, CheckSound, Loses, UNCHANGED <<options, board>>, Left > 0, InSweep,
         NEW verdict \in {"PASS", "FAIL", "SKIP"}, NEW read \in 0 .. sweep.ask,
         Ended(verdict, read), phase' = "check", Calm' => Calm,
         \* the dead core
         Now.core \in board.dead
         /\ (Behind(read) = 0 \/ (Now.name # "kat" /\ Behind(read) = 1)) => verdict # "PASS",
         \* the others
         Calm' /\ board.boots = 0 /\ verdict = "FAIL"
           => Now.name \in {"clock", "trace"} \/ Now.core \in board.dead,
         \* what is on the line
         Now.name # "trace" => asked \in Asks /\ says[asked] \in After(Now)
                               /\ (Calm' => Owed' = {}),
         \* the mask
         Now.name = "kat" /\ Now.core = "ascon"
           => sweep.ask \in 1 .. asked /\ says[sweep.ask] = Kat(KatMask(board.dead))
              /\ (Calm' => read = sweep.ask)
  PROVE  CheckSound'
  <1> DEFINE n == Len(sweep.found) + 1
             finding == [verdict |-> verdict, behind |-> Behind(read)]
  <1>0. /\ asked' = asked /\ says' = says /\ Owed' \subseteq Owed
    BY DEF Loses
  <1>1. /\ Sweep' = Sweep /\ (KatMask(board.dead))' = KatMask(board.dead)
        /\ \A command : (Replies(command))' = Replies(command)
        /\ \A check : (Before(check))' = Before(check) /\ (After(check))' = After(check)
    BY SweepSame
  <1>2. /\ sweep \in Sweeps /\ sweep.found \in Seq(Finding) /\ n - 1 \in Nat
        /\ n \in 1 .. Len(Sweep)
        /\ Len(Sweep) \in 13 .. 14 /\ sweep.ask \in Nat /\ sweep.ask \in 0 .. MaxAsks
        /\ read \in Nat /\ MaxAsks \in Nat
    BY CheckType, LinkBounds DEF CheckSound, Sweeps
  <1>3. Behind(read) \in 0 .. MaxAsks /\ read \in 0 .. MaxAsks
    BY <1>2 DEF Behind
  <1>4. finding \in Finding
    BY <1>3 DEF Finding
  <1>5. sweep' = [sweep EXCEPT !.step = 1, !.read = read, !.found = Append(sweep.found, finding)]
    BY DEF Ended
  <1> HIDE DEF finding
  <1>6. /\ sweep' \in Sweeps /\ sweep'.step = 1 /\ sweep'.read = read /\ sweep'.ask = sweep.ask
        /\ sweep'.found = Append(sweep.found, finding)
    <2>1. Append(sweep.found, finding) \in Seq(Finding)
      BY <1>2, <1>4, AppendProperties
    <2>2. /\ sweep'.step = 1 /\ sweep'.read = read /\ sweep'.ask = sweep.ask
          /\ sweep'.found = Append(sweep.found, finding)
      BY <1>2, <1>5 DEF Sweeps
    <2>3. sweep' = [step |-> 1, ask |-> sweep.ask, read |-> read,
                    found |-> Append(sweep.found, finding)]
      BY <1>2, <1>5 DEF Sweeps
    <2>4. \A f \in Seq(Finding) :
            [step |-> 1, ask |-> sweep.ask, read |-> read, found |-> f] \in Sweeps
      BY <1>2, <1>3 DEF Sweeps
    <2>5. QED
      BY <2>1, <2>2, <2>3, <2>4
  <1>7. /\ Len(sweep'.found) = n /\ sweep'.found[n] = finding
        /\ \A k \in 1 .. n - 1 : sweep'.found[k] = sweep.found[k]
        /\ DOMAIN sweep'.found = 1 .. n /\ DOMAIN sweep.found = 1 .. n - 1
        /\ sweep'.found # <<>>
    BY <1>2, <1>4, <1>6, AppendProperties, EmptySeq
  <1>8. Now = Sweep[n] /\ Left' = Len(Sweep) - n /\ Now' = Sweep[n + 1]
    BY <1>1, <1>7 DEF Now, Left
  <1> HIDE DEF n
  <1>9. Left' > 0 => Now.name # "trace" /\ After(Now) \subseteq Before(Now')
                     /\ (Now'.name = "kat" /\ Now'.core = "xoodyak"
                         => Now.name = "kat" /\ Now.core = "ascon")
    <2>1. options.capture \in BOOLEAN
      BY CheckType
    <2>2. Left' > 0 => n \in 1 .. Len(Sweep) - 1 /\ n # Len(Sweep)
      BY <1>2, <1>8
    <2>3. QED
      BY <1>2, <1>8, <2>1, <2>2, SweepForms
  <1>10. SweepInOrder'
    BY <1>0, <1>1, <1>2, <1>6, <1>7 DEF CheckSound, SweepInOrder, Asking
  <1>11. LastReply'
    BY <1>9, <1>0, <1>1, <1>6 DEF LastReply
  <1>12. ResultOfOthers'
    BY DEF CheckSound, ResultOfOthers
  <1>13. AnsweredInTurn'
    BY <1>9 DEF AnsweredInTurn
  <1>14. MaskKept'
    BY <1>0, <1>1, <1>6, <1>9 DEF MaskKept
  <1>15. ASSUME NEW k \in 1 .. n PROVE DeadFails(k)' /\ OthersPass(k)'
    <2>1. CASE k = n
      BY <1>1, <1>7, <1>8, <2>1 DEF finding, DeadFails, OthersPass
    <2>2. CASE k \in 1 .. n - 1
      BY <1>1, <1>7, <2>2 DEF CheckSound, DeadFails, OthersPass
    <2>3. QED
      BY <1>2, <2>1, <2>2
  <1>16. QED
    BY <1>6, <1>7, <1>10, <1>11, <1>12, <1>13, <1>14, <1>15 DEF CheckSound

\* The number of commands of a check, and the one it is at.
LEMMA StepForms ==
  ASSUME NEW length, length \in 1 .. 2, NEW step, step \in {1, 2}
  PROVE  /\ step \in 1 .. length <=> (step > 1 => step <= length)
         /\ step <= length => step \in 1 .. length
         /\ step \in 1 .. length /\ step < length => step = 1 /\ length = 2 /\ step + 1 = 2
         /\ step \in 1 .. length /\ ~ (step < length) => step = length
         /\ step \in 1 .. length /\ length = 1 => step = 1
         /\ step \in 1 .. length => step <= length
  OBVIOUS

\* What is known while a command of a check is waited for.
LEMMA CheckWaits ==
  ASSUME SessionSound, CheckSound, Asking
  PROVE  /\ Left > 0 /\ Now \in Checks /\ sweep.ask = asked
         /\ asked \in Asks /\ asked \in 1 .. asked
         /\ sweep.step \in 1 .. Len(Now.asks) /\ RepliesFit(Now, sweep.step)
         /\ Now.asks # <<>>
         /\ sweep.step = 1 \/ sweep.step = 2
         /\ Len(Now.asks) \in 1 .. 2
  BY CheckType, CheckForms, RepliesForms DEF CheckSound, SweepInOrder, Asks

\* A check that asks: the command goes out.
LEMMA CheckAsks ==
  ASSUME SessionSound, CheckSound, program = "selfcheck", AsksNext
  PROVE  SessionSound' /\ CheckSound'
  <1> DEFINE command == Now.asks[sweep.step]
             value == IF command.core = "none" THEN command.value
                      ELSE Computed(command.core, command.value)
  <1>1. /\ phase = "check" /\ Left > 0 /\ ~ Skipped /\ Now.asks # <<>>
        /\ UNCHANGED <<program, status, missed, options>>
        /\ sweep' = [sweep EXCEPT !.ask = asked']
        /\ phase' = (IF Now.name = "trace" THEN "trace" ELSE "answer")
        /\ husky' = husky \/ husky' = Armed
    BY DEF AsksNext, Checking, To
  <1>2. /\ Now \in Checks /\ sweep.step \in {1, 2} /\ board.dead \subseteq Cores /\ asked \in Nat
        /\ sweep \in Sweeps /\ sweep.found \in Seq(Finding) /\ Len(sweep.found) \in Nat
        /\ sweep.ask \in Nat /\ sweep.read \in Nat
    BY <1>1, CheckType DEF CheckSound
  <1>3. sweep.step \in 1 .. Len(Now.asks)
    BY <1>1, <1>2, CheckForms, StepForms DEF CheckSound, SweepInOrder
  <1>4. /\ command.value \in Data /\ Replies(command) \subseteq After(Now)
        /\ command.core \in {"none", "aes1", "aes2", "swrv"}
        /\ command.core = "swrv" \/ command.value # Enc(SwrvPt)
    BY <1>2, <1>3, RepliesForms DEF RepliesFit
  <1>5. /\ Ask(value)
        /\ board' = IF command.core = "none" THEN board ELSE [board EXCEPT !.result = value]
    BY DEF AsksNext, RunCore
  <1> HIDE DEF command
  <1>6. /\ BoardTypeOK /\ HuskyTypeOK(Asks) /\ LineSound /\ board.result \in Data /\ Junk \in Data
        /\ "none" \notin board.dead
    BY <1>2, DataForms DEF SessionSound, BoardTypeOK, Cores
  <1>7. ResultOfOthers /\ Junk # Enc(SwrvPt)
    BY DEF CheckSound, Junk, Enc
  <1>8. value \in Data /\ value \in Replies(command)
        /\ ("swrv" \in board.dead /\ command.core # "none" => value # Enc(SwrvPt))
    BY <1>4, <1>6, <1>7 DEF Computed, Replies, ResultOfOthers
  <1> HIDE DEF value
  <1>9. /\ BoardTypeOK' /\ board'.dead = board.dead /\ board'.boots = board.boots
        /\ board'.result = IF command.core = "none" THEN board.result ELSE value
    BY <1>5, <1>6, <1>8 DEF BoardTypeOK
  <1>10. HuskyTypeOK(Asks)'
    BY <1>1, <1>6, HuskyTyped
  <1>11. ~ Waits
    BY <1>1 DEF Waits
  <1>12. SessionSound'
    BY <1>1, <1>5, <1>8, <1>9, <1>10, <1>11, SessionAsks
  <1>13. /\ asked' = asked + 1 /\ asked' \in Asks /\ Owed' \subseteq Owed \cup {asked'}
         /\ says'[asked'] = value /\ \A k \in 1 .. asked : says'[k] = says[k]
         /\ says' = Append(says, value)
    BY <1>5, <1>6, <1>8, AsksOne
  <1>14. /\ Sweep' = Sweep /\ (KatMask(board.dead))' = KatMask(board.dead)
         /\ \A c : (Replies(c))' = Replies(c)
         /\ \A check : (Before(check))' = Before(check) /\ (After(check))' = After(check)
    BY <1>1, <1>9, SweepSame
  <1>15. /\ sweep'.ask = asked' /\ sweep'.found = sweep.found /\ sweep'.step = sweep.step
         /\ sweep'.read = sweep.read /\ sweep' \in Sweeps
    BY SMTT(30), <1>1, <1>2, <1>13 DEF Sweeps, Asks
  <1>16. Left' = Left /\ Now' = Now /\ (Skipped' <=> Skipped)
    BY <1>1, <1>14, <1>15 DEF Left, Now, Skipped
  <1>17. Calm' => Calm
    BY <1>6, <1>8, <1>13, AppendProperties, EmptySeq, <1>1 DEF LineSound, Calm
  <1>18. SweepInOrder'
    BY <1>2, <1>13, <1>15, <1>1, <1>3, <1>14, <1>16 DEF CheckSound, SweepInOrder, Asking
  <1>19. LastReply'
    <2>1. sweep.step = 1 /\ sweep.found # <<>> => asked \in Asks /\ says[asked] \in Before(Now)
      BY <1>1 DEF CheckSound, LastReply
    <2>2. asked' - 1 = asked /\ (asked \in Asks => asked \in 1 .. asked)
      BY <1>2, <1>13 DEF Asks
    <2>3. says'[asked'] \in After(Now) /\ says'[asked'] \in Replies(command)
      BY <1>4, <1>8, <1>13
    <2>4. command = Now'.asks[sweep'.step]
      BY <1>15, <1>16 DEF command
    <2>5. phase' # "check"
      BY <1>1
    <2>6. sweep'.step = 1 /\ sweep'.found # <<>>
          => asked' - 1 \in Asks /\ says'[asked' - 1] \in Before(Now)
      BY <1>13, <1>15, <2>1, <2>2
    <2>7. QED
      BY <1>13, <1>14, <1>15, <1>16, <2>3, <2>4, <2>5, <2>6 DEF LastReply
  <1>20. ResultOfOthers'
    BY <1>7, <1>8, <1>9 DEF ResultOfOthers
  <1>21. AnsweredInTurn'
    BY <1>1, <1>17, <1>13 DEF CheckSound, AnsweredInTurn, Asking
  <1>22. MaskKept'
    BY <1>1 DEF MaskKept
  <1>23. \A k \in DOMAIN sweep.found : DeadFails(k)' /\ OthersPass(k)'
    BY <1>9, <1>14, <1>15, <1>17 DEF CheckSound, DeadFails, OthersPass
  <1>24. QED
    BY <1>1, <1>12, <1>15, <1>18, <1>19, <1>20, <1>21, <1>22, <1>23 DEF CheckSound

\* An answer is read in a check; as long as every command is answered it is its own.
LEMMA CheckGot ==
  ASSUME SessionSound, CheckSound, Asking, NEW read \in Owed, \A n \in Owed' : read < n,
         Owed' \subseteq Owed, read \in 1 .. asked, Calm
  PROVE  read = asked /\ Owed' = {}
  BY CheckWaits, CheckType DEF CheckSound, AnsweredInTurn, Asking

\* The verdicts.
LEMMA VerdictForms ==
  /\ VerdictOf(TRUE) = "PASS" /\ VerdictOf(FALSE) = "FAIL"
  /\ \A passed \in BOOLEAN : VerdictOf(passed) \in {"PASS", "FAIL", "SKIP"}
  BY DEF VerdictOf

\* An answer to the known-answer test, and any answer to another check, is judged
\* by what it says.
LEMMA PassesForms ==
  ASSUME NEW read, NEW passed \in Passes(read)
  PROVE  /\ passed \in BOOLEAN
         /\ Now.name # "kat" => passed = (says[read] \in Now.wants)
         /\ \A n : says[read] = Kat(n) => passed = (says[read] \in Now.wants)
  <1>1. \A n : Kat(n)[1] = "kat"
    BY DEF Kat
  <1>2. ASSUME ~ (Now.name = "kat" /\ says[read][1] \in {"word", "junk", "old"})
        PROVE  passed = (says[read] \in Now.wants)
    BY <1>2 DEF Passes
  <1>3. passed \in BOOLEAN
    <2>1. CASE Now.name = "kat" /\ says[read][1] \in {"word", "junk", "old"}
      BY <2>1 DEF Passes
    <2>2. CASE ~ (Now.name = "kat" /\ says[read][1] \in {"word", "junk", "old"})
      BY <1>2, <2>2
    <2>3. QED
      BY <2>1, <2>2
  <1>4. QED
    BY <1>1, <1>2, <1>3

\* An answer is read: the check goes on to its next command, or ends.
LEMMA CheckReads ==
  ASSUME SessionSound, CheckSound, ReadsAnswer
  PROVE  SessionSound' /\ CheckSound'
  <1> DEFINE read == Head(rx)[2]
  <1>1. /\ phase = "answer" /\ phase' = "check" /\ Asking /\ ReadFrame(sweep.ask)
        /\ UNCHANGED <<program, status, missed, husky, board, says, options>>
    BY DEF ReadsAnswer, Asking, To, boardVars, ReadFrame
  <1>2. /\ Left > 0 /\ Now \in Checks /\ sweep.ask = asked /\ asked \in Asks /\ asked \in 1 .. asked
        /\ sweep.step \in 1 .. Len(Now.asks) /\ RepliesFit(Now, sweep.step) /\ Now.asks # <<>>
        /\ sweep.step = 1 \/ sweep.step = 2
        /\ Len(Now.asks) \in 1 .. 2
    BY <1>1, CheckWaits
  <1>3. status' \in Statuses /\ (Waits' => Waits)
    BY <1>1 DEF SessionSound, Statuses, Waits
  <1>4. /\ SessionSound' /\ Loses /\ read \in Owed /\ read \in 1 .. asked
        /\ \A n \in Owed' : read < n
    BY <1>1, <1>2, <1>3, Reads1
  <1>5. /\ asked' = asked /\ says' = says /\ Owed' \subseteq Owed /\ (Calm' <=> Calm)
    BY <1>1, <1>4 DEF Loses, Calm
  <1>6. Calm => read = asked /\ Owed' = {}
    BY <1>1, <1>4, <1>5, CheckGot
  <1>7. IF sweep.step < Len(Now.asks)
          THEN sweep' = [sweep EXCEPT !.step = sweep.step + 1]
          ELSE \E passed \in Passes(read) : Ended(VerdictOf(passed), read)
    BY DEF ReadsAnswer
  <1> HIDE DEF read
  <1>8. /\ says[asked] \in After(Now) /\ says[asked] \in Replies(Now.asks[sweep.step])
        /\ sweep.step = 1 /\ sweep.found # <<>>
           => asked - 1 \in Asks /\ says[asked - 1] \in Before(Now)
    BY <1>1, <1>2 DEF CheckSound, LastReply
  <1>9. CASE sweep.step < Len(Now.asks)
    <2>1. sweep.step = 1 /\ Len(Now.asks) = 2
      BY <1>2, <1>9, StepForms
    <2>2. /\ sweep' \in Sweeps /\ sweep'.step = 2 /\ sweep'.ask = sweep.ask
          /\ sweep'.read = sweep.read /\ sweep'.found = sweep.found
      BY <1>7, <2>1 DEF CheckSound, Sweeps
    <2>3. /\ Sweep' = Sweep /\ (KatMask(board.dead))' = KatMask(board.dead)
          /\ \A c : (Replies(c))' = Replies(c)
          /\ \A check : (Before(check))' = Before(check) /\ (After(check))' = After(check)
      BY <1>1, SweepSame
    <2>4. Left' = Left /\ Now' = Now /\ (Skipped' <=> Skipped)
      BY <1>1, <2>2, <2>3 DEF Left, Now, Skipped
    <2>5. SweepInOrder'
      <3>1. sweep'.step <= Len(Now'.asks)
        <4>1. Len(Now'.asks) = 2
          BY <2>1, <2>4
        <4>2. QED
          BY <2>2, <4>1
      <3>2. QED
        BY <3>1, <1>1, <1>2, <1>5, <2>1, <2>2, <2>3, <2>4 DEF CheckSound, SweepInOrder, Asking
    <2>6. LastReply'
      BY <1>1, <1>2, <1>5, <1>8, <2>2, <2>3, <2>4 DEF LastReply
    <2>7. ResultOfOthers'
      BY <1>1 DEF CheckSound, ResultOfOthers
    <2>8. AnsweredInTurn'
      BY <1>1, <1>5, <1>6 DEF AnsweredInTurn, Asking
    <2>9. MaskKept'
      BY <1>2, <2>4, CheckForms DEF MaskKept
    <2>10. \A k \in DOMAIN sweep.found : DeadFails(k)' /\ OthersPass(k)'
      BY <1>1, <1>5, <2>2, <2>3 DEF CheckSound, DeadFails, OthersPass
    <2>11. QED
      BY <1>1, <1>4, <2>2, <2>5, <2>6, <2>7, <2>8, <2>9, <2>10 DEF CheckSound
  <1>10. CASE ~ (sweep.step < Len(Now.asks))
    <2>1. sweep.step = Len(Now.asks)
      BY <1>2, <1>10, StepForms
    <2>2. PICK passed \in Passes(read) : Ended(VerdictOf(passed), read)
      BY <1>7, <1>10
    <2>3. /\ passed \in BOOLEAN
          /\ Now.name # "kat" => passed = (says[read] \in Now.wants)
          /\ \A n : says[read] = Kat(n) => passed = (says[read] \in Now.wants)
      BY PassesForms
    <2>4. VerdictOf(passed) \in {"PASS", "FAIL", "SKIP"} /\ read \in 0 .. sweep.ask
          /\ read # 0 /\ Behind(read) = asked - read /\ read \in Nat /\ asked \in Nat
      BY <1>2, <1>4, <2>3, VerdictForms, CheckType DEF Behind
    <2>5. /\ Now.core \in board.dead => Replies(Now.asks[sweep.step]) \cap Now.wants = {}
          /\ Now.name # "trace" /\ Now.core \notin board.dead
             => Replies(Now.asks[sweep.step]) \subseteq Now.wants
          /\ Now.name = "kat" => Replies(Now.asks[sweep.step]) = {Kat(KatMask(board.dead))}
      BY <1>2, <2>1 DEF RepliesFit
    <2>6. Now.name = "kat" => says[asked] = Kat(KatMask(board.dead))
      BY <1>8, <2>5
    <2>7. read = asked => passed = (says[asked] \in Now.wants)
      BY <2>3, <2>6
    <2>8. ASSUME Now.core \in board.dead, Now.name # "kat", Behind(read) = 1 PROVE passed = FALSE
      <3>1. Now.core \in Cores /\ options.capture \in BOOLEAN
        BY <2>8, CheckType
      <3>2. Now.core \in {"aes1", "aes2", "swrv"} /\ sweep.step = 1
        BY <1>2, <2>1, <2>8, <3>1, CheckForms
      <3>3. sweep.found # <<>>
        BY <3>1, SweepForms DEF Now, Cores
      <3>4. says[asked - 1] \in Before(Now) /\ read = asked - 1
        BY <1>8, <2>4, <2>8, <3>2, <3>3
      <3>5. says[read] \notin Now.wants
        BY <1>2, <3>2, <3>4, BeforeIsNotWanted
      <3>6. QED
        BY <2>3, <2>8, <3>5
    <2>9. /\ Now.core \in board.dead
          /\ (Behind(read) = 0 \/ (Now.name # "kat" /\ Behind(read) = 1))
          => VerdictOf(passed) # "PASS"
      <3>1. Behind(read) = 0 => read = asked
        BY <2>4
      <3>2. Now.core \in board.dead /\ read = asked => passed = FALSE
        BY <1>8, <2>3, <2>5, <2>7
      <3>3. QED
        BY <2>8, <3>1, <3>2, VerdictForms
    <2>10. Calm' /\ board.boots = 0 /\ VerdictOf(passed) = "FAIL"
           => Now.name \in {"clock", "trace"} \/ Now.core \in board.dead
      BY <1>5, <1>6, <1>8, <2>3, <2>5, <2>7, VerdictForms
    <2>11. Now.name = "kat" /\ Now.core = "ascon"
           => sweep.ask \in 1 .. asked /\ says[sweep.ask] = Kat(KatMask(board.dead))
              /\ (Calm' => read = sweep.ask)
      BY <1>2, <1>5, <1>6, <2>6
    <2>12. asked \in Asks /\ says[asked] \in After(Now) /\ (Calm' => Owed' = {})
      BY <1>2, <1>5, <1>6, <1>8
    <2>13. InSweep
      BY <1>1 DEF InSweep
    <2>14. CheckSound'
      BY <1>1, <1>2, <1>4, <1>5, <2>2, <2>4, <2>9, <2>10, <2>11, <2>12, <2>13, EndedSound
    <2>15. QED
      BY <1>4, <2>14
  <1>11. QED
    BY <1>9, <1>10

\* No answer comes: the check fails.
LEMMA CheckFails ==
  ASSUME SessionSound, CheckSound, FailsCheck
  PROVE  SessionSound' /\ CheckSound'
  <1>1. /\ phase = "answer" /\ phase' = "check" /\ Asking /\ InSweep /\ NoFrame(sweep.ask)
        /\ UNCHANGED <<program, status, husky, board, says, options>> /\ Ended("FAIL", 0)
    BY DEF FailsCheck, Asking, InSweep, To, boardVars
  <1>2. /\ Left > 0 /\ Now \in Checks /\ sweep.ask = asked /\ asked \in Asks /\ asked \in 1 .. asked
        /\ sweep.step \in 1 .. Len(Now.asks) /\ RepliesFit(Now, sweep.step)
        /\ Len(Now.asks) \in 1 .. 2 /\ sweep.step \in {1, 2}
    BY <1>1, CheckWaits
  <1>3. status' \in Statuses /\ Waits /\ ~ Waits'
    BY <1>1 DEF SessionSound, Statuses, Waits
  <1>4. SessionSound' /\ Loses /\ missed' = missed + 1
    BY <1>1, <1>2, <1>3, Misses1
  <1>5. ~ Calm'
    BY <1>4 DEF SessionSound, Calm
  <1>6. says[asked] \in After(Now) /\ says[asked] \in Replies(Now.asks[sweep.step])
    BY <1>1, <1>2 DEF CheckSound, LastReply
  <1>7. Now.name = "kat" /\ Now.core = "ascon" => says[sweep.ask] = Kat(KatMask(board.dead))
    BY <1>2, CheckForms, StepForms, <1>6 DEF RepliesFit
  <1>8. 0 \in 0 .. sweep.ask
    BY <1>2
  <1>9. CheckSound'
    BY <1>1, <1>2, <1>4, <1>5, <1>6, <1>7, <1>8, EndedSound
  <1>10. QED
    BY <1>4, <1>9

\* The checks that ask nothing, and the ones that are skipped.
LEMMA JudgedForms ==
  ASSUME NEW check \in Checks
  PROVE  /\ check.name = "kat" /\ check.core = "xoodyak" => check.wants = KatAnswers("xoodyak")
         /\ check.name = "clock" => Before(check) \subseteq After(check) /\ check.core = "none"
         /\ check.name = "kat" => After(check) = Data /\ Before(check) = Data
         /\ check.name = "swrv" => After(check) = Data /\ Before(check) \subseteq Data
         /\ check.name = "trace" => check.core = "none"
  <1>1. check.name = "kat" => check \in {CAscon, CXoodyak}
    BY DEF Checks, Check, Encrypts, Decrypts, CAscon, CXoodyak
  <1>2. /\ check.name = "clock" => check = CClock
        /\ check.name = "swrv" => check = CSwrv
        /\ check.name = "trace" => check = CTrace
    BY DEF Checks, Check, Encrypts, Decrypts, CClock, CSwrv, CTrace
  <1>3. CXoodyak.wants = KatAnswers("xoodyak") /\ CClock.core = "none" /\ CTrace.core = "none"
    BY DEF CXoodyak, CClock, CTrace, Check
  <1>4. {Enc(Pt), Junk} \subseteq Data
    BY DataForms, CheckAssumption, ControllerBounds DEF Pt
  <1>5. QED
    BY <1>1, <1>2, <1>3, <1>4, CheckNames, AfterForms, BeforeForms

\* A check that asks nothing, or is skipped, is behind the answer of the one before it.
LEMMA CheckFollows ==
  ASSUME SessionSound, CheckSound, phase = "check", Left > 0, Now.asks = <<>> \/ Skipped
  PROVE  /\ Now \in Checks /\ sweep.step = 1 /\ sweep.found # <<>>
         /\ asked \in Asks /\ says[asked] \in Before(Now)
         /\ Calm => Owed = {}
         /\ 0 \in 0 .. sweep.ask /\ sweep.ask \in Nat /\ sweep.read \in 0 .. sweep.ask
         /\ options.capture \in BOOLEAN
  BY CheckType, EmptySeq, SweepForms
     DEF CheckSound, SweepInOrder, Now, Skipped, LastReply, AnsweredInTurn, Asking

\* The clock, and Xoodyak from the mask that was asked for ASCON.
LEMMA CheckJudges ==
  ASSUME SessionSound, CheckSound, JudgesAgain
  PROVE  SessionSound' /\ CheckSound'
  <1>1. /\ phase = "check" /\ Left > 0 /\ Now.asks = <<>> /\ InSweep
        /\ UNCHANGED <<link, husky, board, says, program, phase, status, missed, options>>
    BY DEF JudgesAgain, Checking, InSweep, boardVars, session
  <1>2. /\ Now \in Checks /\ asked \in Asks /\ says[asked] \in Before(Now) /\ (Calm => Owed = {})
        /\ sweep.read \in 0 .. sweep.ask /\ sweep.ask \in Nat
    BY <1>1, CheckFollows
  <1>3. /\ HuskyTypeOK(Asks)' /\ BoardTypeOK' /\ status' \in Statuses /\ Waits' = Waits
    BY <1>1 DEF SessionSound, HuskyTypeOK, BoardTypeOK, Statuses, Waits
  <1>4. SessionSound' /\ Loses /\ Owed' = Owed
    BY <1>1, <1>3, HostMoves
  <1>5. Calm' <=> Calm
    BY <1>1 DEF Calm
  <1>6. Now.name = "clock" \/ (Now.name = "kat" /\ Now.core = "xoodyak")
    BY <1>1, <1>2, CheckForms
  <1>7. says[asked] \in After(Now) /\ (Calm' => Owed' = {})
    BY <1>2, <1>4, <1>5, <1>6, JudgedForms
  <1>8. ~ (Now.name = "kat" /\ Now.core = "ascon")
    BY <1>6
  <1>9. /\ options' = options /\ board' = board /\ phase' = "check"
    BY <1>1
  <1>10. CASE Now.name = "clock"
    <2>1. PICK locked \in MayBeLocked : Ended(VerdictOf(locked), 0)
      BY <1>10 DEF JudgesAgain
    <2>2. VerdictOf(locked) \in {"PASS", "FAIL", "SKIP"}
      BY DEF VerdictOf
    <2>3. Now.core \notin board.dead
      BY <1>2, <1>10, JudgedForms, CheckType DEF Cores
    <2>4. 0 \in 0 .. sweep.ask
      BY <1>2
    <2>5. CheckSound'
      BY <1>1, <1>2, <1>4, <1>5, <1>7, <1>8, <1>9, <1>10, <2>1, <2>2, <2>3, <2>4, EndedSound
    <2>6. QED
      BY <1>4, <2>5
  <1>11. CASE Now.name # "clock"
    <2>1. Now.name = "kat" /\ Now.core = "xoodyak"
      BY <1>6, <1>11
    <2>2. /\ sweep.ask \in 1 .. asked /\ says[sweep.ask] = Kat(KatMask(board.dead))
          /\ (Calm => sweep.read = sweep.ask)
      BY <1>1, <2>1 DEF CheckSound, MaskKept
    <2>3. CASE sweep.read = 0
      BY <1>2, <1>11, <2>3, <2>2, <1>1, <1>4, <1>5, <1>7, <1>8, <1>9, EndedSound DEF JudgesAgain
    <2>4. CASE sweep.read # 0
      <3>1. PICK passed \in Passes(sweep.read) : Ended(VerdictOf(passed), sweep.read)
        BY <1>11, <2>4 DEF JudgesAgain
      <3>2. /\ passed \in BOOLEAN
            /\ \A n : says[sweep.read] = Kat(n) => passed = (says[sweep.read] \in Now.wants)
        BY PassesForms
      <3>3. VerdictOf(passed) \in {"PASS", "FAIL", "SKIP"}
        BY DEF VerdictOf
      <3>4. Behind(sweep.read) = 0 => sweep.read = sweep.ask
        BY <1>2, <2>2, <2>4 DEF Behind
      <3>5. Now.wants = KatAnswers("xoodyak")
        BY <1>2, <2>1, JudgedForms
      <3>6. sweep.read = sweep.ask => passed = ("xoodyak" \notin board.dead)
        BY <2>2, <3>2, <3>5, MaskForms
      <3>7. /\ Now.core \in board.dead
            /\ (Behind(sweep.read) = 0 \/ (Now.name # "kat" /\ Behind(sweep.read) = 1))
            => VerdictOf(passed) # "PASS"
        BY <2>1, <3>2, <3>4, <3>6, VerdictForms
      <3>8. Calm' /\ board.boots = 0 /\ VerdictOf(passed) = "FAIL"
            => Now.name \in {"clock", "trace"} \/ Now.core \in board.dead
        BY <1>5, <2>1, <2>2, <3>2, <3>6, VerdictForms
      <3>9. CheckSound'
        BY <1>1, <1>2, <1>4, <1>5, <1>7, <1>8, <1>9, <3>1, <3>3, <3>7, <3>8, EndedSound
      <3>10. QED
        BY <1>4, <3>9
    <2>5. QED
      BY <2>3, <2>4
  <1>12. QED
    BY <1>10, <1>11

\* A check that the options leave out.
LEMMA CheckSkips ==
  ASSUME SessionSound, CheckSound, SkipsCheck
  PROVE  SessionSound' /\ CheckSound'
  <1>1. /\ phase = "check" /\ Left > 0 /\ Skipped /\ InSweep /\ Ended("SKIP", 0)
        /\ UNCHANGED <<link, husky, board, says, program, phase, status, missed, options>>
    BY DEF SkipsCheck, Checking, InSweep, boardVars, session
  <1>2. /\ Now \in Checks /\ asked \in Asks /\ says[asked] \in Before(Now) /\ (Calm => Owed = {})
        /\ 0 \in 0 .. sweep.ask
    BY <1>1, CheckFollows
  <1>3. /\ HuskyTypeOK(Asks)' /\ BoardTypeOK' /\ status' \in Statuses /\ Waits' = Waits
    BY <1>1 DEF SessionSound, HuskyTypeOK, BoardTypeOK, Statuses, Waits
  <1>4. SessionSound' /\ Loses /\ Owed' = Owed
    BY <1>1, <1>3, HostMoves
  <1>5. Calm' <=> Calm
    BY <1>1 DEF Calm
  <1>6. Now.name \in {"swrv", "trace"}
    BY <1>1 DEF Skipped
  <1>7. Now.name # "trace" => says[asked] \in After(Now) /\ (Calm' => Owed' = {})
    BY <1>2, <1>4, <1>5, <1>6, JudgedForms
  <1>8. /\ options' = options /\ board' = board /\ phase' = "check"
    BY <1>1
  <1>9. "SKIP" \in {"PASS", "FAIL", "SKIP"} /\ "SKIP" # "PASS" /\ "SKIP" # "FAIL"
        /\ Now.name # "kat"
    BY <1>6
  <1>10. CheckSound'
    BY <1>1, <1>2, <1>4, <1>5, <1>7, <1>8, <1>9, EndedSound
  <1>11. QED
    BY <1>4, <1>10

\* The trace, which is the last check, ends: it was not taken, or its answer is drained.
LEMMA CheckTraces ==
  ASSUME SessionSound, CheckSound, program = "selfcheck",
         \/ phase = "trace" /\ Ended("FAIL", 0) /\ To("check")
            /\ UNCHANGED <<link, husky, boardVars, missed, options>>
         \/ Drains
  PROVE  SessionSound' /\ CheckSound'
  <1>1. /\ phase \in {"trace", "drain"} /\ phase' = "check" /\ Asking /\ InSweep
        /\ UNCHANGED <<program, status, husky, board, says, options>>
        /\ \E verdict \in {"PASS", "FAIL"} : Ended(verdict, 0)
    BY VerdictForms DEF Drains, Asking, InSweep, To, boardVars
  <1>2. /\ Left > 0 /\ Now \in Checks /\ sweep.ask = asked /\ asked \in Asks /\ asked \in 1 .. asked
    BY <1>1, CheckWaits
  <1>3. /\ status' \in Statuses /\ Waits /\ ~ Waits' /\ HuskyTypeOK(Asks)' /\ BoardTypeOK'
    <2>1. status' \in Statuses /\ HuskyTypeOK(Asks)' /\ BoardTypeOK'
      BY <1>1 DEF SessionSound, Statuses, HuskyTypeOK, BoardTypeOK
    <2>2. Waits
      BY <1>1 DEF Waits
    <2>3. ~ Waits'
      BY <1>1 DEF Waits
    <2>4. QED
      BY <2>1, <2>2, <2>3
  <1>4. SessionSound' /\ Loses /\ missed' \in {missed, missed + 1}
    BY <1>1, <1>3, HostMoves, <1>2, Reads1, Misses1 DEF ReadFrame, Drains
  <1>5. Calm' => Calm
    BY <1>1, <1>4 DEF Calm, SessionSound
  <1>6. Now.name = "trace" /\ Now.name # "kat"
    BY <1>1 DEF CheckSound, SweepInOrder
  <1>7. Now.core \notin board.dead
    BY <1>2, <1>6, JudgedForms, CheckType DEF Cores
  <1>8. PICK verdict \in {"PASS", "FAIL"} : Ended(verdict, 0)
    BY <1>1
  <1>9. verdict \in {"PASS", "FAIL", "SKIP"} /\ 0 \in 0 .. sweep.ask
    BY <1>2
  <1>10. CheckSound'
    BY <1>1, <1>2, <1>4, <1>5, <1>6, <1>7, <1>8, <1>9, EndedSound
  <1>11. QED
    BY <1>4, <1>10

\* The steps around the checks.
LEMMA CheckQuietly ==
  ASSUME SessionSound, CheckSound, program = "selfcheck",
         Connecting \/ Reports \/ LetsGo \/ Interrupted \/ (SkipsText /\ UNCHANGED checkVars)
         \/ (TakesTrace /\ phase' = "drain")
  PROVE  SessionSound' /\ CheckSound'
  <1>0. /\ options.capture \in BOOLEAN /\ options.platform \in Platforms
        /\ options.bitstream \in BOOLEAN /\ HuskyTypeOK(Asks) /\ BoardTypeOK /\ status \in Statuses
    BY CheckType DEF SessionSound, Statuses
  <1>1. CASE FindsPort
    BY <1>1, PortTaken, CheckRests DEF FindsPort, checkVars, WaitPhases, CheckEarly, CheckLate
  <1>2. CASE ShutDevice \/ ShutLock("release")
    <2>1. UNCHANGED <<sweep, options>>
      BY <1>2 DEF Connecting, Begins, FindsScope, FindsPort, TurnsSendbackOn, Reports, LetsGo,
                  Interrupted, ReleasesScope, TakesTrace, checkVars, ShutDevice, ShutLock,
                  SkipsText, OpenLock, OpenPort
    <2>2. "release" \notin WaitPhases
      BY DEF WaitPhases
    <2>3. /\ SessionSound' /\ Loses /\ UNCHANGED <<missed, board>>
          /\ phase' \in {"unlock", "release"}
      BY <1>2, <2>2, PortLeft
    <2>4. phase' \in CheckLate
      BY <2>3 DEF CheckLate
    <2>5. QED
      BY <2>1, <2>3, <2>4, CheckRests
  <1>3. CASE Begins \/ FindsScope \/ TurnsSendbackOn \/ Reports \/ Interrupted \/ ReleasesScope
             \/ (TakesTrace /\ phase' = "drain")
    <2>1. UNCHANGED <<link, says, missed, sweep, options, program>>
      BY <1>3 DEF Begins, FindsScope, TurnsSendbackOn, Reports, Interrupted, ReleasesScope,
                  TakesTrace, Ended, checkVars, boardVars, To
    <2>2. HuskyTypeOK(Asks)'
      BY <1>3, <1>0, HuskyTyped
         DEF Begins, FindsScope, TurnsSendbackOn, Reports, Interrupted, ReleasesScope, TakesTrace
    <2>3. /\ BoardTypeOK' /\ board'.dead = board.dead /\ board'.result = board.result
          /\ board'.boots = board.boots
      BY <1>3, <1>0, EnablesTyped
         DEF Begins, FindsScope, TurnsSendbackOn, Reports, Interrupted, ReleasesScope,
             TakesTrace, boardVars, BoardTypeOK
    <2>4. status' \in Statuses
      BY <1>0, <1>3 DEF Begins, FindsScope, TurnsSendbackOn, Reports, Interrupted, ReleasesScope,
                        TakesTrace, To, Statuses
    <2>5. \/ (phase = "trace" /\ phase' = "drain")
          \/ phase = "sendback" /\ phase' = "check"
          \/ phase \in CheckEarly /\ phase' \in CheckEarly
          \/ phase' \in CheckLate
      BY <1>3 DEF Begins, FindsScope, TurnsSendbackOn, Reports, Interrupted, ReleasesScope,
                  TakesTrace, To, CheckEarly, CheckLate
    <2>6. Waits' => Waits
      BY <2>1, <2>5 DEF Waits, CheckEarly, CheckLate
    <2>7. SessionSound' /\ Loses
      BY <2>1, <2>2, <2>3, <2>4, <2>6, HostMoves
    <2>8. QED
      BY <2>1, <2>3, <2>5, <2>7, CheckRests
  <1>4. CASE SkipsText /\ UNCHANGED checkVars
    BY <1>4, Skips1, CheckRests DEF checkVars
  <1>5. QED
    BY <1>1, <1>2, <1>3, <1>4 DEF Connecting, LetsGo

\* Every step of a check keeps the self-check sound.
LEMMA CheckSteps ==
  ASSUME SessionSound, CheckSound, program = "selfcheck", OneCheck
  PROVE  SessionSound' /\ CheckSound'
  BY CheckTraces, CheckQuietly, CheckSkips, CheckAsks, CheckReads, CheckFails, CheckJudges
     DEF TakesTrace, To, OneCheck

\* Before the first check nothing is found, and an answer may be owed only to an
\* earlier process.
LEMMA CheckStarts == ASSUME HostInit PROVE CheckSound
  <1>1. /\ options \in Checkups /\ sweep = [step |-> 1, ask |-> 0, read |-> 0, found |-> <<>>]
        /\ phase = "start" /\ missed = 0 /\ SessionSound
    BY SessionStarts DEF HostInit, SelfCheckInit, BoardInit
  <1>2. /\ sweep.step = 1 /\ sweep.ask = 0 /\ sweep.read = 0 /\ sweep.found = <<>>
        /\ 0 \in 0 .. MaxAsks /\ asked \in Nat
    BY <1>1, LinkBounds DEF SessionSound, LineSound, LinkTypeOK
  <1>3. sweep \in Sweeps
    BY <1>1, <1>2, EmptySeq DEF Sweeps
  <1>4. SweepInOrder
    BY <1>1, CheckAssumption, SweepForms, <1>2, EmptySeq DEF SweepInOrder, Asking
  <1>5. LastReply /\ MaskKept
    BY <1>1 DEF LastReply, MaskKept
  <1>6. ResultOfOthers
    <2>1. program = "selfcheck" => board.result = Junk
      BY DEF HostInit, BoardInit
    <2>2. board.result \in {Junk, Enc(1)}
      BY DEF HostInit, BoardInit
    <2>3. Junk # Enc(SwrvPt) /\ Enc(1) # Enc(SwrvPt)
      BY DEF Junk, Enc, SwrvPt
    <2>4. QED
      BY <2>2, <2>3 DEF ResultOfOthers
  <1>7. AnsweredInTurn
    <2>1. PICK owed \in {0, 1} : asked = owed /\ says = [k \in 1 .. owed |-> Old]
      BY DEF HostInit, BoardInit
    <2>2. CASE owed = 1
      BY <2>1, <2>2 DEF Calm, AnsweredInTurn
    <2>3. CASE owed = 0
      BY <1>1, <2>1, <2>3 DEF SessionSound, LineSound, InOrder, AnsweredInTurn
    <2>4. QED
      BY <2>1, <2>2, <2>3
  <1>8. DOMAIN sweep.found = {}
    BY <1>2
  <1>9. QED
    BY <1>1, <1>3, <1>4, <1>5, <1>6, <1>7, <1>8 DEF CheckSound

SelfCheckSound == program = "selfcheck" => SessionSound /\ CheckSound

\* Any step of the host keeps the self-check sound.
LEMMA SelfCheckKept == SelfCheckSound /\ [HostNext]_hostVars => SelfCheckSound'
  <1> SUFFICES ASSUME SelfCheckSound, [HostNext]_hostVars, program' = "selfcheck"
               PROVE  SessionSound' /\ CheckSound'
    BY DEF SelfCheckSound
  <1>1. program = "selfcheck"
    BY ProgramFixed
  <1>2. SessionSound /\ CheckSound
    BY <1>1 DEF SelfCheckSound
  <1>3. CASE UNCHANGED hostVars
    BY <1>3, <1>2, SessionRests, CheckRests DEF hostVars, checkVars, device, session, boardVars
  <1>4. CASE SelfChecked
    BY <1>1, <1>2, <1>4, CheckSteps, CheckQuietly DEF SelfChecked, SelfChecking
  <1>5. CASE SelfCheckDisturbed
    BY <1>1, <1>2, <1>5, CheckQuietly DEF SelfCheckDisturbed
  <1>6. CASE World
    BY <1>2, <1>6, WorldSound, CheckRests DEF WorldDoes, World, checkVars
  <1>7. QED
    BY <1>1, <1>3, <1>4, <1>5, <1>6
       DEF HostNext, StoreProgram, Experimented, ExperimentDisturbed, Operated,
           OperationDisturbed, Acquired, AcquireDisturbed, Monitored, MonitorEnds

\* What SelfCheckIsTrue says follows.
LEMMA SelfCheckProves == SelfCheckSound => SelfCheckIsTrue
  BY DEF SelfCheckIsTrue, DeadCoreNeverPasses, DeadCoresHideNoOther, SelfChecks, SelfCheckSound,
         CheckSound, DeadFails, OthersPass

\* The self-check never reports a dead core to pass, and with every command answered
\* and no reboot it blames no other.
THEOREM SelfCheckBlamesTheDead == HostSpec => []SelfCheckIsTrue
  <1>1. HostInit => SelfCheckSound
    BY SessionStarts, CheckStarts DEF SelfCheckSound
  <1>2. SelfCheckSound /\ [HostNext]_hostVars => SelfCheckSound'
    BY SelfCheckKept
  <1>3. SelfCheckSound => SelfCheckIsTrue
    BY SelfCheckProves
  <1>4. QED
    BY <1>1, <1>2, <1>3, PTL DEF HostSpec

-----------------------------------------------------------------------------
(* "proact run" and the experiment of the GUI.                             *)

\* The phases of an operation under way, and all phases of a run.
Answering == {"answer", "timer", "cycles"}
RunPhases == {"start", "port", "sendback", "operation", "shut", "unlock", "over"} \cup Answering

\* Every operation is printed, counted as an error or under way.
RunInOrder ==
  /\ phase \in RunPhases
  /\ phase \in {"start", "port", "sendback"} => at.i = 0
  /\ Len(printed) + at.errors + (IF phase \in Answering THEN 1 ELSE 0) <= at.i
  /\ phase \in {"answer", "cycles"} => at.ask = asked /\ asked \in Asks
  /\ status = "ok" => phase \in {"shut", "unlock", "over"}
  /\ ~ order.gui /\ phase \notin {"shut", "unlock", "over"} =>
       Len(printed) + (IF phase \in Answering THEN 1 ELSE 0) = at.i

\* With new inputs, no output is older than the operation it belongs to.
RunInputsNew ==
  order.random =>
    /\ \A v \in 0 .. MaxInputs :
         board.result = Enc(v) \/ (\E k \in 1 .. asked : says[k] = Enc(v)) => v <= at.i
    /\ phase = "answer" => \A k \in 1 .. asked - 1 : says[k] # Enc(at.i)

\* A right output leaves nothing owed, so that the timer's answer is its own.
RowInHand ==
  order.random /\ phase \in {"timer", "cycles"} /\ at.row.passed =>
    /\ at.row.answered = at.row.asked /\ at.row.answered \in 1 .. asked
    /\ says[at.row.answered] = Enc(at.i)
    /\ at.row.cycles = 0
    /\ phase = "timer" => Owed = {}
    /\ phase = "cycles" => Owed \subseteq {asked} /\ at.row.timer = asked

\* A row that passed shows the output of its own operation, and its own cycles.
PrintedTrue(k) ==
  printed[k].passed =>
    /\ printed[k].answered = printed[k].asked /\ printed[k].cycles \in {0, printed[k].timer}
    /\ printed[k].answered \in 1 .. asked
    /\ ~ order.gui => says[printed[k].answered] = Enc(k)

\* A run at each of its phases.
RunSound ==
  /\ OperationsTypeOK /\ RunInOrder /\ RunInputsNew /\ RowInHand
  /\ order.random => \A k \in DOMAIN printed : PrintedTrue(k)
  /\ RunStatusIsTrue

-----------------------------------------------------------------------------
(* "proact capture".                                                       *)

\* The phases before the scope has its clock, and before the window is measured.
Clockless == {"start", "port", "commands", "scope", "setup", "clock"}
BeforeFit == Clockless \cup {"store", "fit"}
\* The phases in which the window is measured.
FitAnswer == "fit answer"
FitTrace == "fit trace"
FitCycles == "fit cycles"
InFit == {FitAnswer, FitTrace, FitCycles}
\* Of these the ones that wait for an answer, and all phases that do.
Fitting == {FitAnswer, FitCycles}
Reading == {"answer", FitAnswer, FitCycles}
\* The phases of a row, between two rows, and at the end.
InRow == {"answer", "trace", "append"}
Between == {"row", "stored", "flush", "final", "save"}
Closing == {"disconnect", "shut", "unlock", "over"}

\* Every operation of the loop is stored, noted as a failure or under way.
LoopInOrder ==
  /\ phase \in BeforeFit \cup InFit \cup InRow \cup Between \cup Closing
  /\ row.done + (IF phase \in InRow \/ phase = "stored" THEN 1 ELSE 0) <= row.i
  /\ phase \in BeforeFit \cup InFit => row.i = 0 /\ missed = 0 /\ accepted = 0 /\ notes = 0
  /\ phase \in BeforeFit => row.input = 0
  /\ phase \in InRow \/ phase \in Fitting => row.ask = asked /\ asked \in Asks
  /\ phase \in {"trace", "append"} => row.answered \in 1 .. asked
  /\ row.input <= IF plan.random THEN row.i + 1 ELSE 0
  /\ phase \notin Closing =>
       /\ accepted = row.done + (IF phase = "stored" THEN 1 ELSE 0)
       /\ accepted + notes + (IF phase \in InRow THEN 1 ELSE 0) = row.i
  /\ phase \in {"final", "save"} => row.i = Rows
  /\ phase \in {"flush", "final", "save"} /\ pc = "idle" => outcome # "open"
  /\ status \in {"ok", "failed"} => phase \in Closing

\* With new inputs, no output is older than the operation it belongs to.
InputsNew ==
  plan.random =>
    /\ \A v \in 0 .. MaxInputs :
         board.result = Enc(v) \/ (\E k \in 1 .. asked : says[k] = Enc(v)) => v <= row.input
    /\ phase \in InRow => \A k \in 1 .. asked - 1 : says[k] # Enc(row.input)

\* As long as every command is answered, each is answered before the next.
ReadInTurn ==
  Calm /\ phase \notin Closing =>
    Owed \subseteq IF phase \in Reading THEN {asked} ELSE {}

\* As long as every command is answered, a trace is the one of the operation under way.
TraceIsOwn == plan.capture /\ Calm /\ phase \in InRow => husky.caught \in {0, asked}

\* The triggers come in the order of the operations, and arm() forgets the last one.
TracesRise ==
  plan.capture =>
    /\ husky.caught <= asked /\ \A n \in Numbers(due) : husky.caught < n
    /\ \A j \in DOMAIN rows :
         /\ rows[j].traced \in 1 .. asked /\ \A n \in Numbers(due) : rows[j].traced < n
         /\ phase \in InRow /\ husky.caught # 0 => rows[j].traced < husky.caught
    /\ phase = "append" => husky.caught # 0

\* The first command of the program is not answered by an older program.
NoOld == says # <<>> => says[1] # Old
\* The window is measured by the answer of the timer.
WindowIsOwn ==
  /\ phase = FitCycles /\ Calm => says[asked] = Word
  /\ NoOld => husky.samples # "garbage"

\* Once the scope is set up it samples on the clock of the target.
ClockIsTarget ==
  /\ plan.capture /\ phase \notin Clockless \cup Closing
  /\ ~ (plan.platform = "fpga" /\ plan.bitstream)
  => OnTargetClock(plan.platform)

\* The capture program at each of its phases.
ExperimentSound ==
  /\ ExperimentTypeOK /\ LoopInOrder /\ InputsNew /\ ReadInTurn /\ TraceIsOwn /\ TracesRise
  /\ WindowIsOwn /\ ClockIsTarget
  /\ ValidRowsAreTheirOwn /\ TracesAreFresh /\ SamplesAreMeasured /\ SampledOnTargetClock
  /\ StatusIsTrue

\* The types of a run.
LEMMA RunType ==
  ASSUME SessionSound, OperationsTypeOK
  PROVE  /\ order.core \in Cores /\ order.timer \in BOOLEAN /\ order.compare \in BOOLEAN
         /\ order.random \in BOOLEAN /\ order.gui \in BOOLEAN
         /\ RunCount \in Nat /\ RunCount # 0 /\ RunCount <= MaxInputs /\ MaxInputs \in Nat
         /\ at.i \in Nat /\ at.i <= RunCount /\ at.errors \in Nat /\ at.ask \in 0 .. MaxAsks
         /\ at.row \in Printed /\ printed \in Seq(Printed) /\ Len(printed) \in Nat
         /\ asked \in Nat /\ MaxAsks \in Nat
         /\ at = [i |-> at.i, ask |-> at.ask, row |-> at.row, errors |-> at.errors]
  BY LinkBounds, OperationsAssumption, ControllerBounds
     DEF OperationsTypeOK, SessionSound, LineSound, LinkTypeOK

\* A step that asks nothing and prints nothing.
LEMMA RunRests ==
  ASSUME SessionSound, RunSound, Loses, UNCHANGED operationVars, program' = program,
         board'.result \in {board.result, Junk},
         \/ phase' = phase /\ status' = status
         \/ phase' \in {"shut", "unlock", "over"} /\ status' # "ok"
         \/ phase' \in {"unlock", "over"} /\ phase \in {"shut", "unlock"} /\ status' = status
         \/ phase \in {"start", "port"} /\ phase' \in {"port", "sendback"} /\ status' = status
         \/ phase = "sendback" /\ phase' = "operation" /\ status' = status
  PROVE  RunSound'
  <1>1. /\ asked' = asked /\ says' = says /\ Owed' \subseteq Owed
        /\ UNCHANGED <<order, at, printed>>
    BY DEF Loses, operationVars
  <1>2. OperationsTypeOK'
    BY <1>1 DEF RunSound, OperationsTypeOK
  <1>3. RunInOrder'
    BY RunType, <1>1 DEF RunSound, RunInOrder, RunPhases, Answering
  <1>4. RunInputsNew'
    BY <1>1 DEF Junk, Enc, RunSound, RunInputsNew
  <1>5. RowInHand'
    BY <1>1 DEF RunSound, RowInHand
  <1>6. order.random => \A k \in DOMAIN printed : PrintedTrue(k)'
    BY <1>1 DEF RunSound, PrintedTrue
  <1>7. RunStatusIsTrue'
    BY <1>1 DEF RunSound, RunStatusIsTrue
  <1>8. QED
    BY <1>1, <1>2, <1>3, <1>4, <1>5, <1>6, <1>7 DEF RunSound

\* What follows the end of the program, and what goes before its first operation.
LEMMA RunQuietly ==
  ASSUME SessionSound, RunSound, program = "run",
         \/ OperationsConnect \/ OperationsInterrupted
         \/ (ShutDevice \/ ShutLock("over")) /\ UNCHANGED operationVars
         \/ SkipsText /\ UNCHANGED operationVars
  PROVE  SessionSound' /\ RunSound'
  <1>0. HuskyTypeOK(Asks) /\ BoardTypeOK /\ status \in Statuses
    BY DEF SessionSound, Statuses
  <1>1. CASE phase = "start" /\ OpenLock("port", "over") /\ UNCHANGED operationVars
    BY <1>1, PortTaken, RunRests DEF WaitPhases
  <1>2. CASE phase = "port" /\ OpenPort("sendback", "over") /\ UNCHANGED operationVars
    BY <1>2, PortTaken, RunRests DEF WaitPhases
  <1>3. CASE /\ phase = "sendback" /\ EnableSendback /\ Proceed("operation")
             /\ UNCHANGED <<link, says, husky, missed>> /\ UNCHANGED operationVars
    BY EnablesTyped, <1>3, <1>0, HostMoves, RunRests DEF Proceed, HuskyTypeOK, Waits
  <1>4. CASE OperationsInterrupted
    BY <1>4, <1>0, HostMoves, RunRests
       DEF OperationsInterrupted, StopsWith, boardVars, BoardTypeOK, HuskyTypeOK, Statuses, Waits
  <1>5. CASE (ShutDevice \/ ShutLock("over")) /\ UNCHANGED operationVars
    BY <1>5, PortLeft, RunRests DEF WaitPhases
  <1>6. CASE SkipsText /\ UNCHANGED operationVars
    BY <1>6, Skips1, RunRests
  <1>7. QED
    BY <1>1, <1>2, <1>3, <1>4, <1>5, <1>6 DEF OperationsConnect

\* A row is printed; a right one, as it was in hand.
LEMMA RunPrints ==
  ASSUME SessionSound, RunSound, Loses, phase \in Answering, phase' = "operation",
         UNCHANGED <<order, board, program, status>>, NEW fresh \in Printed,
         printed' = Append(printed, fresh), at' \in [i : {at.i}, ask : {at.ask}, row : Printed,
                                                  errors : {at.errors}],
         order.random /\ fresh.passed =>
           /\ fresh.answered = fresh.asked /\ fresh.cycles \in {0, fresh.timer}
           /\ fresh.answered \in 1 .. asked /\ says[fresh.answered] = Enc(at.i)
  PROVE  RunSound'
  BY RunType, AppendProperties
     DEF Loses, RunSound, OperationsTypeOK, RunInOrder, Answering, RunPhases, RunInputsNew,
         RowInHand, PrintedTrue, RunStatusIsTrue

\* The next operation is started, with an input of its own.
LEMMA RunOperates ==
  ASSUME SessionSound, RunSound, program = "run", Operates
  PROVE  SessionSound' /\ RunSound'
  <1>1. /\ phase = "operation" /\ at.i < RunCount /\ phase' = "answer"
        /\ UNCHANGED <<program, status, husky, missed, order, printed>>
        /\ at' = [at EXCEPT !.i = at.i + 1, !.ask = asked']
    BY DEF Operates, Proceed
  <1>2. /\ RunCount \in Nat /\ RunCount <= MaxInputs /\ MaxInputs \in Nat
        /\ at.i \in Nat /\ at.errors \in Nat /\ at.row \in Printed
        /\ printed \in Seq(Printed) /\ Len(printed) \in Nat /\ asked \in Nat
        /\ at = [i |-> at.i, ask |-> at.ask, row |-> at.row, errors |-> at.errors]
        /\ order \in Orders /\ at.errors \in 0 .. RunCount /\ order.random \in BOOLEAN
    BY RunType DEF RunSound, OperationsTypeOK
  <1>3. PICK output \in {Enc(PlaintextOf(at.i + 1)),
                         IF order.core = "swrv" THEN board.result ELSE Junk} : RunCore(output)
    BY DEF Operates
  <1>4. /\ BoardTypeOK /\ HuskyTypeOK(Asks) /\ LineSound /\ board.result \in Data /\ Junk \in Data
    BY DataForms DEF SessionSound, BoardTypeOK
  <1>5. output \in Data
    BY <1>1, <1>2, OperationsAssumption, <1>3, <1>4, DataForms DEF PlaintextOf
  <1>6. /\ Ask(output) /\ board' = [board EXCEPT !.result = output]
    BY <1>3 DEF RunCore
  <1>7. BoardTypeOK' /\ board'.result = output
    BY <1>4, <1>5, <1>6 DEF BoardTypeOK
  <1>8. HuskyTypeOK(Asks)'
    BY <1>1, <1>4, HuskyTyped
  <1>9. ~ Waits
    BY <1>1 DEF Waits
  <1>10. SessionSound'
    BY <1>1, <1>5, <1>6, <1>7, <1>8, <1>9, SessionAsks
  <1>11. /\ asked' = asked + 1 /\ asked' \in Asks /\ asked' \in 0 .. MaxAsks
         /\ says'[asked'] = output /\ \A k \in 1 .. asked : says'[k] = says[k]
    BY <1>4, <1>5, <1>6, AsksOne, LinkBounds DEF Asks
  <1>12. /\ at'.i = at.i + 1 /\ at'.ask = asked' /\ at'.row = at.row /\ at'.errors = at.errors
         /\ at' = [i |-> at.i + 1, ask |-> asked', row |-> at.row, errors |-> at.errors]
    BY <1>1, <1>2
  <1>13. /\ Len(printed) + at.errors <= at.i /\ status # "ok"
         /\ (~ order.gui => Len(printed) = at.i)
    BY <1>1, <1>2 DEF RunSound, RunInOrder, Answering
  <1>14. OperationsTypeOK'
    BY <1>1, <1>2, <1>13, <1>11, <1>12 DEF OperationsTypeOK
  <1>15. RunInOrder'
    BY <1>1, <1>2, <1>11, <1>12, <1>13 DEF RunInOrder, RunPhases, Answering
  <1>16. RunInputsNew'
    <2> SUFFICES ASSUME order.random PROVE RunInputsNew'
      BY <1>1 DEF RunInputsNew
    <2>1. \A v : Enc(v) = output => v = at.i + 1 \/ board.result = Enc(v)
      BY <1>3 DEF PlaintextOf, Enc, Junk
    <2>2. \A v \in 0 .. MaxInputs :
            board.result = Enc(v) \/ (\E k \in 1 .. asked : says[k] = Enc(v)) => v <= at.i
      BY DEF RunSound, RunInputsNew
    <2>3. ASSUME NEW v \in 0 .. MaxInputs, NEW k \in 1 .. asked', says'[k] = Enc(v)
          PROVE  v <= at.i + 1
      BY <1>2, <1>11, <2>1, <2>2, <2>3
    <2>4. \A v \in 0 .. MaxInputs : board'.result = Enc(v) => v <= at.i + 1
      BY <1>2, <1>7, <2>1, <2>2
    <2>5. \A k \in 1 .. asked' - 1 : says'[k] # Enc(at'.i)
      BY <1>1, <1>2, <1>11, <1>12, <2>2
    <2>6. QED
      BY <1>12, <2>3, <2>4, <2>5 DEF RunInputsNew
  <1>17. RowInHand'
    BY <1>1 DEF RowInHand
  <1>18. order.random => \A k \in DOMAIN printed : PrintedTrue(k)'
    BY <1>2, <1>11, <1>1 DEF RunSound, PrintedTrue
  <1>19. RunStatusIsTrue'
    BY <1>1, <1>13 DEF RunStatusIsTrue
  <1>20. QED
    BY <1>1, <1>10, <1>14, <1>15, <1>16, <1>17, <1>18, <1>19 DEF RunSound

\* A row of the table with other columns.
LEMMA ColumnForms ==
  ASSUME NEW old \in Printed, NEW asks
  PROVE  /\ [old EXCEPT !.asked = asks]
            = [asked |-> asks, answered |-> old.answered, passed |-> old.passed,
               timer |-> old.timer, cycles |-> old.cycles]
         /\ [old EXCEPT !.cycles = asks]
            = [asked |-> old.asked, answered |-> old.answered, passed |-> old.passed,
               timer |-> old.timer, cycles |-> asks]
         /\ [old EXCEPT !.timer = asks]
            = [asked |-> old.asked, answered |-> old.answered, passed |-> old.passed,
               timer |-> asks, cycles |-> old.cycles]
  BY DEF Printed

\* A row of the table that nothing was read for.
LEMMA NoRowForms == NoRow \in Printed /\ NoRow.timer = 0 /\ NoRow.cycles = 0
  BY LinkBounds DEF NoRow, Printed, Asks

\* The row in hand, column by column.
LEMMA RowForms ==
  ASSUME NEW asks, NEW answers, NEW passes, NEW fresh,
         fresh = [NoRow EXCEPT !.asked = asks, !.answered = answers, !.passed = passes]
  PROVE  fresh = [asked |-> asks, answered |-> answers, passed |-> passes, timer |-> 0,
                  cycles |-> 0]
  BY NoRowForms DEF Printed

\* The output is read: right, it is the last one asked for.
LEMMA RunReads ==
  ASSUME SessionSound, RunSound, program = "run", ReadsOutput
  PROVE  SessionSound' /\ RunSound'
  <1> DEFINE got == Head(rx)[2]
             fresh == [NoRow EXCEPT !.asked = at.ask, !.answered = got,
                                  !.passed = order.compare /\ Passed(got)]
  <1>1. /\ phase = "answer" /\ ReadFrame(at.ask) /\ missed' = missed
        /\ UNCHANGED <<board, says, husky, order, program, status>>
        /\ IF order.timer
             THEN at' = [at EXCEPT !.row = fresh] /\ printed' = printed /\ phase' = "timer"
             ELSE at' = at /\ printed' = Append(printed, fresh) /\ phase' = "operation"
    BY DEF ReadsOutput, ReadFrame, boardVars, Proceed
  <1>2. at.ask = asked /\ asked \in Asks /\ asked \in 1 .. asked /\ asked \in Nat
    BY <1>1, LinkBounds DEF RunSound, RunInOrder, Asks
  <1>3. status' \in Statuses /\ (Waits' => Waits)
    BY <1>1 DEF SessionSound, Statuses, Waits
  <1>4. /\ SessionSound' /\ Loses /\ got \in 1 .. asked /\ got \in Asks
        /\ \A n \in Owed' : got < n
    BY <1>1, <1>2, <1>3, Reads1
  <1>5. asked' = asked /\ says' = says /\ Owed' \subseteq 1 .. asked
    BY <1>4 DEF SessionSound, LineSound, InOrder, Loses
  <1>6. /\ fresh \in Printed /\ fresh.asked = asked /\ fresh.answered = got
        /\ fresh.cycles = 0 /\ fresh.timer = 0
        /\ (fresh.passed => says[got] = Enc(PlaintextOf(at.i)))
    <2>1. 0 \in 0 .. MaxAsks /\ 1 \in Asks
      BY LinkBounds DEF Asks
    <2>2. (order.compare /\ Passed(got)) \in BOOLEAN
      BY RunType DEF RunSound
    <2>3. (order.compare /\ Passed(got)) => says[got] = Enc(PlaintextOf(at.i))
      BY DEF Passed
    <2> HIDE DEF got
    <2>4. /\ fresh = [asked |-> at.ask, answered |-> got, passed |-> order.compare /\ Passed(got),
                    timer |-> 0, cycles |-> 0]
      BY RowForms DEF fresh
    <2>5. QED
      BY <1>2, <1>4, <2>1, <2>2, <2>3, <2>4 DEF Printed
  <1> HIDE DEF got, fresh
  <1>7. order.random /\ fresh.passed => got = asked /\ Owed' = {} /\ says[got] = Enc(at.i)
    BY <1>1, <1>6, <1>2, <1>4, <1>5 DEF RunSound, RunInputsNew, PlaintextOf
  <1>8. CASE ~ order.timer
    BY <1>1, <1>8, RunType, <1>2, <1>6, <1>7, <1>4, RunPrints DEF RunSound, Answering
  <1>9. CASE order.timer
    <2>1. /\ RunCount \in Nat /\ at.i \in Nat /\ at.errors \in Nat /\ Len(printed) \in Nat
          /\ at.ask \in 0 .. MaxAsks
          /\ at = [i |-> at.i, ask |-> at.ask, row |-> at.row, errors |-> at.errors]
          /\ at.i \in 0 .. RunCount /\ at.errors \in 0 .. RunCount
      BY RunType DEF RunSound, OperationsTypeOK
    <2>2. /\ at' = [at EXCEPT !.row = fresh] /\ printed' = printed /\ phase' = "timer"
      BY <1>1, <1>9
    <2>3. /\ at'.i = at.i /\ at'.ask = at.ask /\ at'.row = fresh /\ at'.errors = at.errors
          /\ at' = [i |-> at.i, ask |-> at.ask, row |-> fresh, errors |-> at.errors]
      BY <2>1, <2>2
    <2>4. OperationsTypeOK'
      BY <1>6, <2>1, <2>3, <1>1, <2>2 DEF RunSound, OperationsTypeOK
    <2>5. RunInOrder'
      BY <1>1, <1>5, <2>2, <2>3 DEF RunSound, RunInOrder, RunPhases, Answering
    <2>6. RunInputsNew'
      BY <1>1, <1>5, <2>2, <2>3 DEF RunSound, RunInputsNew
    <2>7. RowInHand'
      BY <1>1, <1>2, <1>4, <1>5, <1>6, <1>7, <2>2, <2>3 DEF RowInHand
    <2>8. order.random => \A k \in DOMAIN printed : PrintedTrue(k)'
      BY <1>1, <1>5, <2>2 DEF RunSound, PrintedTrue
    <2>9. RunStatusIsTrue'
      BY <1>1, <1>5, <2>2 DEF RunSound, RunStatusIsTrue
    <2>10. QED
      BY <1>1, <1>4, <2>2, <2>4, <2>5, <2>6, <2>7, <2>8, <2>9 DEF RunSound
  <1>10. QED
    BY <1>8, <1>9, RunType DEF RunSound

\* The timer is asked.
LEMMA RunAsksTimer ==
  ASSUME SessionSound, RunSound, program = "run", AsksTimer
  PROVE  SessionSound' /\ RunSound'
  <1>1. /\ phase = "timer" /\ phase' = "cycles" /\ Ask(Word)
        /\ UNCHANGED <<program, status, husky, missed, order, printed, board>>
        /\ at' = [at EXCEPT !.ask = asked', !.row.timer = asked']
    BY DEF AsksTimer, AskWord, Proceed
  <1>2. /\ RunCount \in Nat /\ at.i \in Nat /\ at.errors \in Nat /\ Len(printed) \in Nat
        /\ at.i \in 0 .. RunCount /\ at.errors \in 0 .. RunCount
        /\ at.row \in Printed /\ order.random \in BOOLEAN /\ asked \in Nat
        /\ at = [i |-> at.i, ask |-> at.ask, row |-> at.row, errors |-> at.errors]
        /\ order \in Orders /\ printed \in Seq(Printed)
        /\ Len(printed) + at.errors <= at.i
    BY RunType DEF RunSound, OperationsTypeOK
  <1>3. /\ BoardTypeOK /\ HuskyTypeOK(Asks) /\ LineSound /\ Word \in Data
    BY DataForms DEF SessionSound
  <1>4. BoardTypeOK' /\ HuskyTypeOK(Asks)' /\ ~ Waits
    BY <1>1, <1>3, HuskyTyped DEF BoardTypeOK, Waits
  <1>5. SessionSound'
    BY <1>1, <1>3, <1>4, SessionAsks
  <1>6. /\ asked' = asked + 1 /\ asked' \in Asks /\ asked' \in 0 .. MaxAsks
        /\ says'[asked'] = Word /\ (\A k \in 1 .. asked : says'[k] = says[k])
        /\ Owed' \subseteq Owed \cup {asked'}
    BY <1>1, <1>3, AsksOne, LinkBounds DEF Asks
  <1> DEFINE fresh == [at.row EXCEPT !.timer = asked']
  <1>7. /\ fresh \in Printed /\ fresh.timer = asked' /\ fresh.passed = at.row.passed
        /\ fresh.asked = at.row.asked /\ fresh.answered = at.row.answered
        /\ fresh.cycles = at.row.cycles
    <2>1. fresh = [asked |-> at.row.asked, answered |-> at.row.answered,
                   passed |-> at.row.passed, timer |-> asked', cycles |-> at.row.cycles]
      BY <1>2, ColumnForms
    <2> HIDE DEF fresh
    <2>2. QED
      BY <1>2, <1>6, <2>1 DEF Printed
  <1>8. at' = [i |-> at.i, ask |-> asked', row |-> fresh, errors |-> at.errors]
    BY <1>1, <1>2
  <1> HIDE DEF fresh
  <1>9. at'.i = at.i /\ at'.ask = asked' /\ at'.row = fresh /\ at'.errors = at.errors
    BY <1>8
  <1>10. OperationsTypeOK'
    BY <1>2, <1>6, <1>7, <1>8, <1>1, <1>9 DEF OperationsTypeOK
  <1>11. RunInOrder'
    BY <1>1, <1>6, <1>9 DEF RunSound, RunInOrder, RunPhases, Answering
  <1>12. RunInputsNew'
    BY SMTT(30), <1>2, <1>6, <1>1, <1>9 DEF Word, Enc, RunSound, RunInputsNew
  <1>13. RowInHand'
    BY <1>1, <1>7, <1>9, <1>2, <1>6 DEF RowInHand, RunSound
  <1>14. order.random => \A k \in DOMAIN printed : PrintedTrue(k)'
    BY <1>2, <1>6, <1>1 DEF RunSound, PrintedTrue
  <1>15. RunStatusIsTrue'
    BY <1>1 DEF RunSound, RunInOrder, RunStatusIsTrue
  <1>16. QED
    BY <1>1, <1>5, <1>10, <1>11, <1>12, <1>13, <1>14, <1>15 DEF RunSound

\* The row in hand is printed, with the timer's answer or without.
LEMMA RunPrintsRow ==
  ASSUME SessionSound, RunSound, Loses, phase = "cycles", NEW count \in 0 .. MaxAsks,
         PrintsRow(count), UNCHANGED <<order, board>>,
         order.random /\ at.row.passed => count \in {0, at.row.timer}
  PROVE  RunSound'
  <1> DEFINE fresh == [at.row EXCEPT !.cycles = count]
  <1>1. /\ printed' = Append(printed, fresh) /\ at' = [at EXCEPT !.row = NoRow]
        /\ phase' = "operation" /\ UNCHANGED <<program, status>>
    BY DEF PrintsRow, Proceed
  <1>2. /\ at.row \in Printed
        /\ at = [i |-> at.i, ask |-> at.ask, row |-> at.row, errors |-> at.errors]
    BY RunType DEF RunSound
  <1>3. /\ fresh \in Printed /\ fresh.timer = at.row.timer /\ fresh.passed = at.row.passed
        /\ fresh.asked = at.row.asked /\ fresh.answered = at.row.answered
        /\ fresh.cycles = count
    <2>1. fresh = [asked |-> at.row.asked, answered |-> at.row.answered,
                   passed |-> at.row.passed, timer |-> at.row.timer, cycles |-> count]
      BY <1>2, ColumnForms
    <2> HIDE DEF fresh
    <2>2. QED
      BY <1>2, <2>1 DEF Printed
  <1> HIDE DEF fresh
  <1>4. at' \in [i : {at.i}, ask : {at.ask}, row : Printed, errors : {at.errors}]
    BY <1>1, <1>2, NoRowForms
  <1>5. order.random /\ fresh.passed =>
          /\ fresh.answered = fresh.asked /\ fresh.cycles \in {0, fresh.timer}
          /\ fresh.answered \in 1 .. asked /\ says[fresh.answered] = Enc(at.i)
    BY <1>3 DEF RunSound, RowInHand
  <1>6. phase \in Answering
    BY DEF Answering
  <1>7. QED
    BY <1>1, <1>3, <1>4, <1>5, <1>6, RunPrints

\* What the timer says.
LEMMA RunReadsTimer ==
  ASSUME SessionSound, RunSound, program = "run", ReadsTimer
  PROVE  SessionSound' /\ RunSound'
  <1> DEFINE got == Head(rx)[2]
  <1>1. /\ phase = "cycles" /\ ReadFrame(at.ask) /\ PrintsRow(got) /\ missed' = missed
        /\ UNCHANGED <<board, says, husky, order, program, status>> /\ phase' = "operation"
    BY DEF ReadsTimer, ReadFrame, boardVars, PrintsRow, Proceed
  <1>2. at.ask = asked /\ asked \in Asks
    BY <1>1 DEF RunSound, RunInOrder
  <1>3. status' \in Statuses /\ (Waits' => Waits)
    BY <1>1 DEF SessionSound, Statuses, Waits
  <1>4. SessionSound' /\ Loses /\ got \in Owed /\ got \in Asks
    BY <1>1, <1>2, <1>3, Reads1
  <1> HIDE DEF got
  <1>5. got \in 0 .. MaxAsks
    BY <1>4, LinkBounds DEF Asks
  <1>6. order.random /\ at.row.passed => got \in {0, at.row.timer}
    BY <1>1, <1>4 DEF RunSound, RowInHand
  <1>7. QED
    BY <1>1, <1>4, <1>5, <1>6, RunPrintsRow

\* No answer: the command ends, the GUI counts an error or prints the row as it is.
LEMMA RunFails ==
  ASSUME SessionSound, RunSound, program = "run", OperationFails
  PROVE  SessionSound' /\ RunSound'
  <1>1. /\ phase \in {"answer", "cycles"} /\ NoFrame(at.ask)
        /\ UNCHANGED <<board, says, husky, order, program>>
    BY DEF OperationFails, boardVars, StopsWith, PrintsRow, Proceed
  <1>2. at.ask = asked /\ asked \in Asks /\ Waits
    BY <1>1 DEF RunSound, RunInOrder, Waits
  <1>3. /\ phase' \in {"shut", "operation"} /\ (status' = status \/ status' = "error")
    BY DEF OperationFails, StopsWith, PrintsRow, Proceed
  <1>4. status' \in Statuses /\ ~ Waits'
    BY <1>1, <1>3 DEF SessionSound, Statuses, Waits
  <1>5. SessionSound' /\ Loses
    BY <1>1, <1>2, <1>4, Misses1
  <1>6. CASE ~ order.gui
    BY <1>1, <1>6, <1>5, RunRests DEF OperationFails, StopsWith, operationVars
  <1>7. CASE order.gui /\ phase = "cycles"
    BY <1>7, LinkBounds, <1>1, <1>5, RunPrintsRow DEF OperationFails
  <1>8. CASE order.gui /\ phase = "answer"
    <2>1. /\ at' = [at EXCEPT !.errors = at.errors + 1] /\ printed' = printed
          /\ phase' = "operation" /\ UNCHANGED <<program, status>>
      BY <1>8 DEF OperationFails, Proceed
    <2>2. /\ RunCount \in Nat /\ at.i \in Nat /\ at.errors \in Nat /\ Len(printed) \in Nat
          /\ at.i \in 0 .. RunCount /\ at.row \in Printed /\ at.ask \in 0 .. MaxAsks
          /\ at = [i |-> at.i, ask |-> at.ask, row |-> at.row, errors |-> at.errors]
          /\ order \in Orders /\ printed \in Seq(Printed)
      BY RunType DEF RunSound, OperationsTypeOK
    <2>3. /\ at' = [i |-> at.i, ask |-> at.ask, row |-> at.row, errors |-> at.errors + 1]
          /\ at'.i = at.i /\ at'.errors = at.errors + 1
      BY <2>1, <2>2
    <2>4. Len(printed) + at.errors + 1 <= at.i
      BY <1>8 DEF RunSound, RunInOrder, Answering
    <2>5. OperationsTypeOK'
      BY <2>2, <2>4, <2>3, <1>1, <2>1 DEF OperationsTypeOK
    <2>6. asked' = asked /\ says' = says
      BY <1>5 DEF Loses
    <2>7. status # "ok"
      BY <1>8 DEF RunSound, RunInOrder
    <2>8. RunInOrder'
      BY <1>1, <1>8, <2>1, <2>2, <2>3, <2>4, <2>7 DEF RunInOrder, RunPhases, Answering
    <2>9. RunInputsNew'
      BY <1>1, <2>1, <2>3, <2>6 DEF RunSound, RunInputsNew
    <2>10. RowInHand'
      BY <2>1 DEF RowInHand
    <2>11. order.random => \A k \in DOMAIN printed : PrintedTrue(k)'
      BY <1>1, <2>1, <2>6 DEF RunSound, PrintedTrue
    <2>12. RunStatusIsTrue'
      BY <2>1, <2>7 DEF RunStatusIsTrue
    <2>13. QED
      BY <1>1, <1>5, <2>1, <2>5, <2>8, <2>9, <2>10, <2>11, <2>12 DEF RunSound
  <1>9. QED
    BY <1>1, <1>6, <1>7, <1>8

\* The end: a run that reports success has printed every operation, each one right.
LEMMA RunEnds ==
  ASSUME SessionSound, RunSound, program = "run", OperationsEnd
  PROVE  SessionSound' /\ RunSound'
  <1>1. /\ phase = "operation" /\ at.i = RunCount /\ phase' = "shut"
        /\ status' = (IF order.compare /\ ~ order.gui /\ AnyFailed THEN "failed" ELSE "ok")
        /\ UNCHANGED <<program, link, husky, board, says, missed, operationVars>>
    BY DEF OperationsEnd, StopsWith, boardVars
  <1>2. HuskyTypeOK(Asks) /\ BoardTypeOK
    BY DEF SessionSound
  <1>3. HuskyTypeOK(Asks)' /\ BoardTypeOK' /\ status' \in Statuses /\ (Waits' => Waits)
    BY <1>1, <1>2, HuskyTyped DEF BoardTypeOK, Statuses, Waits
  <1>4. SessionSound' /\ Loses
    BY <1>1, <1>3, HostMoves
  <1>5. asked' = asked /\ Owed' \subseteq Owed /\ UNCHANGED <<order, at, printed>>
    BY <1>1, <1>4 DEF Loses, operationVars
  <1>6. OperationsTypeOK'
    BY <1>5 DEF RunSound, OperationsTypeOK
  <1>7. RunInOrder'
    BY <1>1, <1>5 DEF RunSound, RunInOrder, RunPhases, Answering
  <1>8. RunInputsNew' /\ RowInHand'
    BY <1>1, <1>5 DEF RunSound, RunInputsNew, RowInHand
  <1>9. order.random => \A k \in DOMAIN printed : PrintedTrue(k)'
    BY <1>1, <1>5 DEF RunSound, PrintedTrue
  <1>10. RunStatusIsTrue'
    BY <1>5, <1>1, RunType
       DEF RunStatusIsTrue, AnyFailed, RunSound, RunInOrder, Answering, PrintedTrue
  <1>11. QED
    BY <1>4, <1>5, <1>6, <1>7, <1>8, <1>9, <1>10 DEF RunSound

\* The board and another terminal.
LEMMA RunWorld ==
  ASSUME SessionSound, RunSound, World
  PROVE  SessionSound' /\ RunSound'
  BY WorldSound, RunRests DEF World, WorldDoes

\* Before the first operation nothing is printed, and no output is one of this run.
LEMMA RunStarts == ASSUME HostInit, program = "run" PROVE RunSound
  <1>1. /\ order \in Orders /\ at = [i |-> 0, ask |-> 0, row |-> NoRow, errors |-> 0]
        /\ printed = <<>> /\ phase = "start" /\ status = "running"
    BY DEF HostInit, OperationsInit, BoardInit
  <1>2. RunCount \in Nat /\ 0 \in 0 .. RunCount /\ 0 \in 0 .. MaxAsks
    BY OperationsAssumption, LinkBounds
  <1>3. OperationsTypeOK
    BY <1>1, EmptySeq, <1>2, NoRowForms DEF OperationsTypeOK
  <1>4. RunInOrder
    BY <1>1 DEF RunInOrder, RunPhases, Answering
  <1>5. RunInputsNew
    <2>1. \A k \in 1 .. asked : says[k] = Old
      BY SessionStarts, LinkBounds DEF SessionSound, LineSound, LinkTypeOK, HostInit, BoardInit
    <2>2. board.result = Junk
      BY DEF HostInit, BoardInit
    <2>3. \A v : Junk # Enc(v) /\ Old # Enc(v)
      BY DEF Old, Enc, Junk
    <2>4. QED
      BY <1>1, <2>1, <2>2, <2>3 DEF RunInputsNew
  <1>6. QED
    BY <1>1, <1>3, <1>4, <1>5 DEF RunSound, RowInHand, RunStatusIsTrue

\* The run of an operation with its line.
RunningSound == program = "run" => SessionSound /\ RunSound

\* Any step of the host keeps a run sound.
LEMMA RunKept == RunningSound /\ [HostNext]_hostVars => RunningSound'
  <1> SUFFICES ASSUME RunningSound, [HostNext]_hostVars, program' = "run"
               PROVE  SessionSound' /\ RunSound'
    BY DEF RunningSound
  <1>1. program = "run"
    BY ProgramFixed
  <1>2. SessionSound /\ RunSound
    BY <1>1 DEF RunningSound
  <1>3. CASE UNCHANGED hostVars
    BY <1>3, <1>2, SessionRests, RunRests DEF hostVars, operationVars, device, session, boardVars
  <1>4. CASE Operated
    BY <1>1, <1>2, <1>4, RunQuietly, RunOperates, RunReads, RunAsksTimer, RunReadsTimer, RunFails,
       RunEnds DEF Operated, Operating
  <1>5. CASE OperationDisturbed
    BY <1>1, <1>2, <1>5, RunQuietly DEF OperationDisturbed
  <1>6. CASE World
    BY <1>2, <1>6, RunWorld
  <1>7. QED
    BY <1>1, <1>3, <1>4, <1>5, <1>6
       DEF HostNext, StoreProgram, Experimented, ExperimentDisturbed, SelfChecked,
           SelfCheckDisturbed, Acquired, AcquireDisturbed, Monitored, MonitorEnds

\* The types of the capture program.
LEMMA ExperimentType ==
  ASSUME SInv, SessionSound, ExperimentTypeOK
  PROVE  /\ plan.core \in Cores /\ plan.platform \in Platforms /\ plan.bitstream \in BOOLEAN
         /\ plan.auto \in BOOLEAN /\ plan.capture \in BOOLEAN /\ plan.random \in BOOLEAN
         /\ Rows \in Nat /\ Rows # 0 /\ MaxInputs \in Nat /\ Rows < MaxInputs
         /\ row.i \in Nat /\ row.i <= Rows /\ row.done \in Nat /\ row.done <= Rows
         /\ row.input \in Nat /\ row.input <= MaxInputs
         /\ row.ask \in 0 .. MaxAsks /\ row.answered \in 0 .. MaxAsks
         /\ row = [i |-> row.i, done |-> row.done, input |-> row.input, ask |-> row.ask,
                   answered |-> row.answered]
         /\ rows \in Seq(RowFrom) /\ Len(rows) \in Nat
         /\ asked \in Nat /\ asked <= MaxAsks /\ MaxAsks \in Nat
         /\ accepted \in Nat /\ notes \in Nat /\ missed \in Nat
  BY LinkBounds, ExperimentAssumption, ControllerBounds, WriterTypes
     DEF ExperimentTypeOK, SessionSound, LineSound, LinkTypeOK

\* At most one more command is given up.
Misses == missed' = missed \/ missed' = missed + 1

\* Arithmetic of two steps below.
LEMMA CountsUp == ASSUME NEW m \in Nat, NEW n, n = m \/ n = m + 1 PROVE n = 0 => m = 0 /\ n = m
  OBVIOUS

\* A trace that is caught belongs to a command that was sent.
LEMMA CaughtBelow ==
  ASSUME NEW n \in Nat, NEW S, NEW T, S \subseteq 1 .. n, T \subseteq S, NEW c,
         c = 0 \/ \E k \in S : c = k /\ \A m \in T : k < m
  PROVE  c <= n /\ \A m \in T : c < m
  OBVIOUS

\* A step that asks nothing and stores no row.
LEMMA ExperimentRests ==
  ASSUME SInv, SessionSound, ExperimentSound, program = "experiment",
         Loses, UNCHANGED <<program, plan, rows>>,
         board'.result \in {board.result, Junk}, row'.input = row.input,
         Misses,
         \/ husky'.caught = husky.caught
         \/ \E k \in Numbers(due) : husky'.caught = k /\ \A n \in Numbers(due') : k < n
         \/ phase' \notin InRow /\ husky'.caught = 0,
         NoOld => husky'.samples # "garbage" \/ husky'.samples = husky.samples,
         phase' \in InRow => phase \in InRow,
         plan.capture /\ phase' = "append" => husky'.caught # 0,
         phase' = FitCycles => phase = FitCycles,
         phase \in Closing => phase' \in Closing,
         \/ phase' = phase \/ phase \notin Reading \/ missed' # missed
         \/ (Calm /\ phase \notin Closing => Owed' = {}) \/ phase' \in Closing,
         ExperimentTypeOK', LoopInOrder', ClockIsTarget', StatusIsTrue'
  PROVE  ExperimentSound'
  <1>1. /\ asked' = asked /\ says' = says /\ Owed' \subseteq Owed
        /\ Numbers(due') \subseteq Numbers(due)
    BY DEF Loses
  <1>2. /\ asked \in Nat /\ missed \in Nat /\ Owed \subseteq 1 .. asked
        /\ Numbers(due) \subseteq Owed
    BY ExperimentType DEF ExperimentSound, SessionSound, LineSound, InOrder, Owed
  <1>3. (Calm' => Calm /\ missed' = missed) /\ (NoOld' <=> NoOld)
    BY <1>2, CountsUp, <1>1 DEF Misses, Calm, NoOld
  <1>4. ExperimentTypeOK /\ LoopInOrder /\ InputsNew /\ ReadInTurn /\ TraceIsOwn /\ TracesRise
        /\ WindowIsOwn
    BY DEF ExperimentSound
  <1>5. InputsNew'
    BY <1>1, <1>4 DEF Junk, Enc, InputsNew
  <1>6. ReadInTurn'
    BY <1>3, <1>4, <1>1 DEF ReadInTurn
  <1>7. TraceIsOwn'
    BY <1>3, <1>4, <1>2, <1>1 DEF TraceIsOwn, InRow, Closing, ReadInTurn
  <1>8. TracesRise'
    BY ZenonT(60), <1>4, <1>1, <1>2, CaughtBelow DEF TracesRise
  <1>9. WindowIsOwn'
    BY <1>1, <1>3, <1>4 DEF WindowIsOwn
  <1>10. ValidRowsAreTheirOwn' /\ TracesAreFresh' /\ SampledOnTargetClock'
    BY DEF ExperimentSound, ValidRowsAreTheirOwn, TracesAreFresh, SampledOnTargetClock, Captured,
           Experiments
  <1>11. SamplesAreMeasured'
    BY <1>1 DEF ExperimentSound, SamplesAreMeasured, Captured, Experiments
  <1>12. QED
    BY <1>5, <1>6, <1>7, <1>8, <1>9, <1>10, <1>11 DEF ExperimentSound

\* What the order of the loop and the status need when a step goes to the end.
LEMMA ExperimentCloses ==
  ASSUME SInv, SessionSound, ExperimentSound, program = "experiment",
         Loses, UNCHANGED <<program, plan, rows, row>>, accepted' \in Nat, accepted' >= accepted,
         board'.result \in {board.result, Junk}, Misses,
         husky'.caught \in {husky.caught, 0},
         husky'.samples = husky.samples, phase' \in Closing, StatusIsTrue'
  PROVE  ExperimentSound'
  <1>1. asked' = asked
    BY DEF Loses
  <1>2. ExperimentTypeOK /\ LoopInOrder
    BY DEF ExperimentSound
  <1>3. ExperimentTypeOK'
    BY <1>2, ExperimentType DEF ExperimentTypeOK
  <1>4. row.done <= row.i
    BY <1>2, ExperimentType DEF LoopInOrder
  <1>5. LoopInOrder'
    <2>1. /\ row.done \in Nat
          /\ phase' \notin BeforeFit \cup InFit /\ phase' \notin InRow
          /\ phase' \notin {"stored", "flush", "final", "save"} /\ phase' # "stored"
          /\ phase' \notin {"trace", "append"} /\ phase' \notin BeforeFit
          /\ phase' \notin Fitting
      BY <1>2, ExperimentType
         DEF Closing, BeforeFit, Clockless, InFit, InRow, Fitting, FitAnswer, FitTrace, FitCycles
    <2>2. row.input <= IF plan.random THEN row.i + 1 ELSE 0
      BY <1>2 DEF LoopInOrder
    <2>3. row' = row /\ plan' = plan
      OBVIOUS
    <2>4. row'.done + (IF phase' \in InRow \/ phase' = "stored" THEN 1 ELSE 0) <= row'.i
      BY <2>1, <2>3, <1>4
    <2>5. row'.input <= IF plan'.random THEN row'.i + 1 ELSE 0
      BY <2>2, <2>3
    <2>6. /\ phase' \in BeforeFit \cup InFit
             => row'.i = 0 /\ missed' = 0 /\ accepted' = 0 /\ notes' = 0
          /\ phase' \in BeforeFit => row'.input = 0
          /\ phase' \in InRow \/ phase' \in Fitting => row'.ask = asked' /\ asked' \in Asks
          /\ phase' \in {"trace", "append"} => row'.answered \in 1 .. asked'
      BY <2>1
    <2>7. /\ phase' \in {"final", "save"} => row'.i = Rows
          /\ phase' \in {"flush", "final", "save"} /\ pc' = "idle" => outcome' # "open"
      BY <2>1
    <2>8. QED
      BY <2>4, <2>5, <2>6, <2>7 DEF LoopInOrder
  <1>6. ClockIsTarget'
    BY DEF ClockIsTarget
  <1>7. phase' \notin InRow /\ phase' # FitCycles /\ phase' # "append"
    BY DEF Closing, InRow, FitCycles
  <1>8. \/ husky'.caught = husky.caught
        \/ \E k \in Numbers(due) : husky'.caught = k /\ \A n \in Numbers(due') : k < n
        \/ phase' \notin InRow /\ husky'.caught = 0
    BY <1>7
  <1>9. QED
    BY <1>3, <1>5, <1>6, <1>7, <1>8, ExperimentRests

\* Counting without rows.
LEMMA NoneDone ==
  ASSUME NEW m \in Nat, NEW n, n \in {0, 1}, m + n <= 0
  PROVE  m = 0
  OBVIOUS

\* The steps of prepare, and the ends of the measurement of the window.
LEMMA ExperimentPrepares ==
  ASSUME SInv, SessionSound, ExperimentSound, program = "experiment", Loses,
         UNCHANGED <<program, plan, rows, row, status>>, UNCHANGED vars,
         Misses, missed' = missed \/ phase' = "row",
         board'.result \in {board.result, Junk},
         \/ husky'.caught = husky.caught
         \/ husky'.caught = 0,
         NoOld => husky'.samples # "garbage" \/ husky'.samples = husky.samples,
         \/ phase \in BeforeFit /\ (phase' \in BeforeFit \/ phase' = "row")
         \/ phase \in InFit /\ phase' \in {FitTrace, "row"},
         phase \in Reading => missed' # missed \/ (Calm => Owed' = {}),
         ClockIsTarget'
  PROVE  ExperimentSound'
  <1>1. asked' = asked /\ accepted' = accepted /\ notes' = notes
    BY DEF Loses, vars, writer
  <1>2. ExperimentTypeOK /\ LoopInOrder
    BY DEF ExperimentSound
  <1>3. ExperimentTypeOK'
    BY <1>1, <1>2 DEF ExperimentTypeOK
  <1>4. /\ row.i = 0 /\ missed = 0 /\ accepted = 0 /\ notes = 0
        /\ phase \in BeforeFit => row.input = 0
        /\ row.input <= IF plan.random THEN row.i + 1 ELSE 0
    BY <1>2 DEF LoopInOrder
  <1>5. row.done = 0
    <2>1. row.done \in Nat
      BY <1>2, ExperimentType
    <2>2. row.done + (IF phase \in InRow \/ phase = "stored" THEN 1 ELSE 0) <= row.i
      BY <1>2 DEF LoopInOrder
    <2>3. (IF phase \in InRow \/ phase = "stored" THEN 1 ELSE 0) \in {0, 1}
      OBVIOUS
    <2> DEFINE taken == IF phase \in InRow \/ phase = "stored" THEN 1 ELSE 0
    <2> HIDE DEF taken
    <2>4. row.done + taken <= 0 /\ taken \in {0, 1}
      BY <1>4, <2>2, <2>3 DEF taken
    <2>5. QED
      BY <2>1, <2>4, NoneDone
  <1>6. /\ phase \notin Closing
        /\ phase' \in BeforeFit \cup InFit \cup InRow \cup Between \cup Closing
        /\ phase' # "stored" /\ phase' \notin InRow
        /\ phase' \notin Fitting
        /\ phase' \notin {"trace", "append"} /\ phase' \notin {"final", "save"}
        /\ phase' \notin {"flush", "final", "save"} /\ phase' # "stored" /\ phase' # "append"
        /\ phase' # FitCycles /\ (phase' \in BeforeFit => phase \in BeforeFit)
        /\ (phase' \in BeforeFit \cup InFit => phase' # "row")
    BY DEF BeforeFit, Clockless, InFit, InRow, Between, Closing, Fitting, FitAnswer, FitTrace,
           FitCycles
  <1>7. LoopInOrder'
    <2>1. row' = row /\ plan' = plan /\ status' = status
          /\ (phase' \in BeforeFit \cup InFit => missed' = missed)
      BY <1>6
    <2>2. /\ (IF phase' \in InRow \/ phase' = "stored" THEN 1 ELSE 0) = 0
          /\ (IF phase' = "stored" THEN 1 ELSE 0) = 0 /\ (IF phase' \in InRow THEN 1 ELSE 0) = 0
      BY <1>6
    <2>3. /\ row'.done + (IF phase' \in InRow \/ phase' = "stored" THEN 1 ELSE 0) <= row'.i
          /\ accepted' = row'.done + (IF phase' = "stored" THEN 1 ELSE 0)
          /\ accepted' + notes' + (IF phase' \in InRow THEN 1 ELSE 0) = row'.i
      <3>1. row'.done = 0 /\ row'.i = 0 /\ accepted' = 0 /\ notes' = 0
        BY <1>1, <1>4, <1>5, <2>1
      <3> DEFINE x == IF phase' \in InRow \/ phase' = "stored" THEN 1 ELSE 0
                 y == IF phase' = "stored" THEN 1 ELSE 0
                 z == IF phase' \in InRow THEN 1 ELSE 0
      <3>2. x = 0 /\ y = 0 /\ z = 0
        BY <2>2
      <3> HIDE DEF x, y, z
      <3>3. /\ row'.done + x <= row'.i /\ accepted' = row'.done + y
            /\ accepted' + notes' + z = row'.i
        BY <3>1, <3>2
      <3>4. QED
        BY <3>3 DEF x, y, z
    <2>4. status' \notin {"ok", "failed"}
      BY <1>2, <1>6, <2>1 DEF LoopInOrder
    <2>5. /\ phase' \in BeforeFit \cup InFit
             => row'.i = 0 /\ missed' = 0 /\ accepted' = 0 /\ notes' = 0
          /\ phase' \in BeforeFit => row'.input = 0
          /\ row'.input <= IF plan'.random THEN row'.i + 1 ELSE 0
      BY <1>1, <1>4, <1>6, <2>1
    <2>6. QED
      BY <1>6, <2>3, <2>4, <2>5 DEF LoopInOrder
  <1>8. StatusIsTrue'
    BY <1>2, <1>6 DEF LoopInOrder, StatusIsTrue
  <1>9. QED
    BY <1>3, <1>6, <1>7, <1>8, ExperimentRests

\* A step that leaves the program where it is.
LEMMA ExperimentStays ==
  ASSUME SInv, SessionSound, ExperimentSound, program = "experiment", Loses,
         UNCHANGED <<program, plan, rows, row, status, missed, phase>>, UNCHANGED vars,
         board'.result \in {board.result, Junk},
         \/ husky'.caught = husky.caught
         \/ \E k \in Numbers(due) : husky'.caught = k /\ \A n \in Numbers(due') : k < n,
         husky'.samples = husky.samples,
         husky'.source = husky.source, husky'.hs2 = husky.hs2
  PROVE  ExperimentSound'
  <1>1. /\ asked' = asked
        /\ UNCHANGED <<accepted, notes, pc, outcome, manifest>>
    BY DEF Loses, vars, writer
  <1>2. ExperimentTypeOK /\ LoopInOrder /\ ClockIsTarget /\ StatusIsTrue /\ TracesRise
    BY DEF ExperimentSound
  <1>3. ExperimentTypeOK' /\ LoopInOrder' /\ StatusIsTrue'
    BY <1>1, <1>2 DEF ExperimentTypeOK, LoopInOrder, StatusIsTrue, Experiments
  <1>4. ClockIsTarget'
    BY <1>2 DEF ClockIsTarget, OnTargetClock
  <1>5. plan.capture /\ phase' = "append" => husky'.caught # 0
    BY <1>2 DEF SessionSound, LineSound, InOrder, Owed, TracesRise
  <1>6. Misses
    BY DEF Misses
  <1>7. QED
    BY <1>3, <1>4, <1>5, <1>6, ExperimentRests

\* A step of the program and the store in the loop, with no word to the board.
LEMMA ExperimentStores ==
  ASSUME SInv, SessionSound, ExperimentSound, program = "experiment", Loses,
         UNCHANGED <<program, plan, rows, status>>, board'.result \in {board.result, Junk},
         husky' = husky, Misses,
         phase \in InRow \cup Between, phase' \in Between,
         phase \in Reading => missed' # missed,
         row' = [row EXCEPT !.done = row'.done], row'.done \in 0 .. Rows,
         accepted' = accepted, notes' \in Nat,
         row'.done + (IF phase' = "stored" THEN 1 ELSE 0) = accepted,
         accepted + notes' = row.i,
         phase' \in {"final", "save"} => row.i = Rows,
         phase' \in {"flush", "final", "save"} /\ pc' = "idle" => outcome' # "open"
  PROVE  ExperimentSound'
  <1>1. asked' = asked
    BY DEF Loses
  <1>2. ExperimentTypeOK /\ LoopInOrder /\ ClockIsTarget
    BY DEF ExperimentSound
  <1>3. /\ row = [i |-> row.i, done |-> row.done, input |-> row.input, ask |-> row.ask,
                  answered |-> row.answered]
        /\ row.i \in Nat /\ accepted \in Nat /\ row.done \in Nat
    BY <1>2, ExperimentType
  <1>4. /\ row' = [i |-> row.i, done |-> row'.done, input |-> row.input, ask |-> row.ask,
                   answered |-> row.answered]
        /\ row'.i = row.i /\ row'.input = row.input
    BY <1>3
  <1>5. ExperimentTypeOK'
    BY <1>2, <1>4 DEF ExperimentTypeOK
  <1>6. /\ phase \notin Closing /\ phase \notin Clockless \cup Closing
        /\ phase' \in BeforeFit \cup InFit \cup InRow \cup Between \cup Closing
        /\ phase' \notin InRow /\ phase' \notin BeforeFit \cup InFit /\ phase' \notin BeforeFit
        /\ phase' \notin Fitting
        /\ phase' \notin {"trace", "append"} /\ phase' # "append" /\ phase' # FitCycles
        /\ (phase' \in InRow \/ phase' = "stored" <=> phase' = "stored")
    BY DEF BeforeFit, Clockless, InFit, InRow, Between, Closing, Fitting, FitAnswer, FitTrace,
           FitCycles
  <1>7. status' \notin {"ok", "failed"}
    BY <1>2, <1>6 DEF LoopInOrder
  <1>8. LoopInOrder'
    BY <1>3, <1>4, <1>6, <1>2, <1>7 DEF LoopInOrder
  <1>9. ClockIsTarget'
    BY <1>2, <1>6 DEF ClockIsTarget, OnTargetClock
  <1>10. StatusIsTrue'
    BY <1>7 DEF StatusIsTrue
  <1>11. phase' = phase \/ phase \notin Reading \/ missed' # missed
    OBVIOUS
  <1>12. QED
    BY <1>4, <1>5, <1>6, <1>8, <1>9, <1>10, <1>11, ExperimentRests

\* A command is sent, for an operation or for the timer.
LEMMA ExperimentAsks ==
  ASSUME SInv, SessionSound, ExperimentSound, program = "experiment",
         UNCHANGED <<program, plan, rows, status, missed>>, UNCHANGED vars,
         phase \notin Reading, phase \notin Closing, phase \notin Clockless, ~ Waits,
         phase' \in Reading, NEW value \in Data, Ask(value), BoardTypeOK', HuskyTypeOK(Asks)',
         plan.random =>
           /\ \A v \in 0 .. MaxInputs :
                board'.result = Enc(v) \/ value = Enc(v)
                => v <= row'.input \/ board.result = Enc(v)
           /\ row.input <= row'.input
           /\ phase' \in InRow => row.input < row'.input,
         row'.input \in 0 .. MaxInputs,
         husky' = husky \/ husky' = Armed,
         phase' \in InRow /\ plan.capture => husky' = Armed,
         phase' = FitCycles => value = Word,
         ExperimentTypeOK', LoopInOrder'
  PROVE  SessionSound' /\ ExperimentSound'
  <1>1. LineSound /\ HuskyTypeOK(Asks)
    BY DEF SessionSound
  <1>2. /\ asked' = asked + 1 /\ Owed' \subseteq Owed \cup {asked'}
        /\ Numbers(due') \subseteq Numbers(due) \cup {asked'}
        /\ says' = Append(says, value) /\ says'[asked'] = value
        /\ \A k \in 1 .. asked : says'[k] = says[k]
    BY <1>1, AsksOne
  <1>3. SessionSound'
    BY SessionAsks
  <1>4. /\ asked \in Nat /\ missed \in Nat /\ Len(says) = asked /\ row.input \in Nat
        /\ MaxInputs \in Nat
    BY <1>1, ExperimentType DEF LineSound, ExperimentSound
  <1>5. /\ husky'.samples = husky.samples /\ husky'.source = husky.source
        /\ husky'.hs2 = husky.hs2 /\ (husky'.caught = husky.caught \/ husky'.caught = 0)
        /\ (phase' \in InRow /\ plan.capture => husky'.caught = 0)
    BY <1>1 DEF Armed, HuskyTypeOK
  <1>6. (NoOld' => NoOld) /\ (Calm' => Calm)
    BY <1>1, <1>4, <1>2, AppendProperties DEF LineSound, NoOld, Calm
  <1>7. /\ InputsNew /\ ReadInTurn /\ TraceIsOwn /\ TracesRise /\ WindowIsOwn /\ ClockIsTarget
    BY DEF ExperimentSound
  <1>8. InputsNew'
    BY <1>7, <1>2, <1>4 DEF InputsNew
  <1>9. ReadInTurn'
    BY <1>6, <1>7, <1>2 DEF ReadInTurn
  <1>10. TraceIsOwn'
    BY <1>5 DEF TraceIsOwn
  <1>11. TracesRise'
    <2> SUFFICES ASSUME plan.capture PROVE TracesRise'
      BY DEF TracesRise
    <2>1. /\ husky.caught <= asked /\ \A n \in Numbers(due) : husky.caught < n
          /\ \A j \in DOMAIN rows :
               rows[j].traced \in 1 .. asked /\ \A n \in Numbers(due) : rows[j].traced < n
      BY <1>7 DEF TracesRise
    <2>2. husky.caught \in Nat /\ Numbers(due) \subseteq 1 .. asked
      BY <1>1, LinkBounds DEF HuskyTypeOK, LineSound, InOrder, Owed, Asks
    <2>3. \A n \in Numbers(due') : n \in 1 .. asked \/ n = asked + 1
      BY <1>2, <2>2
    <2>4. husky'.caught <= asked' /\ \A n \in Numbers(due') : husky'.caught < n
      BY <1>2, <1>4, <1>5, <2>1, <2>2, <2>3
    <2>5. \A j \in DOMAIN rows :
            rows[j].traced \in 1 .. asked' /\ \A n \in Numbers(due') : rows[j].traced < n
      BY <1>2, <1>4, <2>1, <2>3
    <2>6. phase' \in InRow => husky'.caught = 0
      BY <1>5
    <2>7. phase' # "append"
      BY DEF Reading, FitAnswer, FitCycles
    <2>8. QED
      BY <2>4, <2>5, <2>6, <2>7 DEF TracesRise
  <1>12. WindowIsOwn'
    BY <1>2, <1>5, <1>6, <1>7 DEF WindowIsOwn
  <1>13. ClockIsTarget'
    BY <1>5, <1>7 DEF ClockIsTarget, OnTargetClock
  <1>14. ValidRowsAreTheirOwn' /\ TracesAreFresh' /\ SampledOnTargetClock'
    BY DEF ExperimentSound, ValidRowsAreTheirOwn, TracesAreFresh, SampledOnTargetClock, Captured,
           Experiments
  <1>15. SamplesAreMeasured'
    BY <1>6 DEF ExperimentSound, SamplesAreMeasured, Captured, Experiments, NoOld
  <1>16. StatusIsTrue'
    BY DEF ExperimentSound, LoopInOrder, StatusIsTrue
  <1>17. QED
    BY <1>3, <1>8, <1>9, <1>10, <1>11, <1>12, <1>13, <1>14, <1>15, <1>16 DEF ExperimentSound

\* The phases in which the capture program waits for an answer.
LEMMA WaitsMeans ==
  program = "experiment" => (Waits <=> phase \in Reading \/ phase = "cycles" \/ phase = "drain")
  BY Zenon DEF Waits, Reading, FitAnswer, FitCycles

\* The same after a step.
LEMMA WaitsMeansAfter ==
  program' = "experiment"
  => (Waits' <=> phase' \in Reading \/ phase' = "cycles" \/ phase' = "drain")
  BY Zenon DEF Waits, Reading, FitAnswer, FitCycles

\* What the set-up of the scope leaves in it.
LEMMA ScopePrepared ==
  ASSUME HuskyTypeOK(Asks), NEW platform \in Platforms, NEW bitstream \in BOOLEAN,
         OpenScope \/ SetUpScope \/ BringUpClock(platform, bitstream)
  PROVE  /\ husky'.caught \in {husky.caught, 0}
         /\ husky'.samples = husky.samples \/ husky'.samples # "garbage"
         /\ BringUpClock(platform, bitstream) /\ ~ (platform = "fpga" /\ bitstream)
            => OnTargetClock(platform)'
  <1>1. ASSUME BringUpClock(platform, bitstream)
        PROVE  /\ husky'.caught = husky.caught /\ husky'.samples = husky.samples
               /\ ~ (platform = "fpga" /\ bitstream) => OnTargetClock(platform)'
    <2>1. CASE SetClock /\ platform = "asic"
      BY <2>1 DEF SetClock, HuskyTypeOK, OnTargetClock
    <2>2. CASE ProgramFpga /\ platform = "fpga" /\ bitstream
      <3>1. PICK source \in {"extclk", husky.source} :
              husky' = [husky EXCEPT !.cw305 = TRUE, !.source = source, !.hs2 = "disabled"]
        BY <2>2 DEF ProgramFpga
      <3>2. husky'.caught = husky.caught /\ husky'.samples = husky.samples
        BY <3>1 DEF HuskyTypeOK
      <3>3. QED
        BY <2>2, <3>2
    <2>3. CASE SyncExtclk /\ platform = "fpga"
      BY <2>3 DEF SyncExtclk, HuskyTypeOK, OnTargetClock
    <2>4. QED
      BY <1>1, <2>1, <2>2, <2>3 DEF BringUpClock, Platforms
  <1>2. ASSUME OpenScope \/ SetUpScope
        PROVE  husky'.caught \in {husky.caught, 0} /\ husky'.samples # "garbage"
    BY <1>2 DEF OpenScope, Off, SetUpScope, HuskyTypeOK
  <1>3. QED
    BY <1>1, <1>2

\* The phases, told apart.
LEMMA PhasesApart ==
  /\ BeforeFit \cap Reading = {} /\ BeforeFit \cap Closing = {} /\ Clockless \cap Reading = {}
  /\ "row" \notin Reading /\ "row" \notin Closing /\ "row" \notin Clockless
  /\ "store" \in BeforeFit /\ "fit" \in BeforeFit /\ Clockless \subseteq BeforeFit
  /\ Clockless = {"start", "port", "commands", "scope", "setup", "clock"}
  /\ Closing = {"disconnect", "shut", "unlock", "over"}
  BY DEF BeforeFit, Clockless, Reading, Closing, FitAnswer, FitCycles

\* The program opens the port, the scope and the store.
LEMMA ExperimentConnects ==
  ASSUME SInv, SessionSound, ExperimentSound, program = "experiment", Prepare
  PROVE  SessionSound' /\ ExperimentSound'
  <1>0. HuskyTypeOK(Asks) /\ BoardTypeOK /\ status \in Statuses /\ ClockIsTarget
    BY DEF SessionSound, Statuses, ExperimentSound
  <1>1. CASE Connect
    <2>1. PICK next \in {"port", "commands"} :
            /\ phase \in {"start", "port"}
            /\ OpenLock(next, "over") \/ OpenPort(next, "over")
      BY <1>1 DEF Connect
    <2>2. next \notin WaitPhases /\ "over" \notin WaitPhases
      BY Zenon DEF WaitPhases
    <2>3. /\ SessionSound' /\ Loses /\ UNCHANGED <<program, missed, board, says, husky, due>>
          /\ \/ phase' = next /\ status' = status
             \/ phase' = "over" /\ status' = "error"
      BY <2>1, <2>2, PortTaken
    <2>4. UNCHANGED vars /\ UNCHANGED <<plan, row, rows>>
      BY <1>1, StoreUntouched DEF Connect, Stays, experimentVars
    <2>5. accepted' = accepted /\ accepted \in Nat
      BY <2>4, WriterTypes DEF vars, writer
    <2>6. CASE phase' = next /\ status' = status
      BY <2>1, <2>6, PhasesApart, <2>3, <2>4, ExperimentPrepares DEF ClockIsTarget, Misses
    <2>7. CASE phase' = "over" /\ status' = "error"
      BY <2>3, <2>4, <2>5, <2>7, ExperimentCloses, PhasesApart DEF Misses, StatusIsTrue
    <2>8. QED
      BY <2>3, <2>6, <2>7
  <1>2. CASE ConfigureTarget
    <2>1. /\ phase = "commands" /\ EnableSendback /\ UNCHANGED <<program, status>>
          /\ phase' = IF plan.capture THEN "scope" ELSE "store"
          /\ UNCHANGED <<link, says, husky, missed>> /\ Stays
      BY <1>2 DEF ConfigureTarget, Goto
    <2>2. UNCHANGED vars /\ UNCHANGED <<plan, row, rows>>
      BY <2>1, StoreUntouched DEF Stays, experimentVars
    <2>3. BoardTypeOK' /\ board'.result = board.result
      BY <2>1, EnablesTyped
    <2>4. phase' \in {"scope", "store"}
      BY <2>1
    <2>5. ~ Waits' /\ phase \notin Reading /\ phase \in BeforeFit /\ phase' \in BeforeFit
      BY <2>1, <2>4, WaitsMeansAfter, PhasesApart
    <2>6. HuskyTypeOK(Asks)' /\ status' \in Statuses
      BY <1>0, <2>1, HuskyTyped
    <2>7. SessionSound' /\ Loses
      BY <2>1, <2>3, <2>5, <2>6, HostMoves
    <2>8. ClockIsTarget'
      BY <2>1, <2>2, PhasesApart DEF ClockIsTarget
    <2>9. QED
      BY <2>1, <2>2, <2>3, <2>5, <2>7, <2>8, ExperimentPrepares DEF Misses
  <1>3. CASE ConnectScope
    <2>1. /\ \/ phase = "scope" /\ OpenScope /\ phase' = "setup"
             \/ phase = "setup" /\ SetUpScope /\ phase' = "clock"
             \/ phase = "clock" /\ BringUpClock(plan.platform, plan.bitstream) /\ phase' = "store"
          /\ UNCHANGED <<program, status>>
          /\ UNCHANGED <<link, board, says, missed>> /\ Stays
      BY <1>3 DEF ConnectScope, Goto, boardVars
    <2>2. UNCHANGED vars /\ UNCHANGED <<plan, row, rows>>
      BY <2>1, StoreUntouched DEF Stays, experimentVars
    <2>3. plan.platform \in Platforms /\ plan.bitstream \in BOOLEAN
      BY ExperimentType DEF ExperimentSound
    <2>4. /\ phase \in {"scope", "setup", "clock"}
          /\ phase' \in {"setup", "clock", "store"}
          /\ OpenScope \/ SetUpScope \/ BringUpClock(plan.platform, plan.bitstream)
          /\ phase' = "store" => BringUpClock(plan.platform, plan.bitstream)
      BY <2>1
    <2>5. ~ Waits' /\ phase \notin Reading /\ phase \in BeforeFit /\ phase' \in BeforeFit
      BY <2>1, <2>4, WaitsMeansAfter, PhasesApart
    <2>6. HuskyTypeOK(Asks)' /\ BoardTypeOK' /\ status' \in Statuses
      BY <1>0, <2>1, <2>3, <2>4, HuskyTyped DEF BoardTypeOK
    <2>7. SessionSound' /\ Loses
      BY <2>1, <2>5, <2>6, HostMoves
    <2>8. /\ husky'.caught = husky.caught \/ husky'.caught = 0
          /\ husky'.samples = husky.samples \/ husky'.samples # "garbage"
          /\ phase' = "store" /\ ~ (plan.platform = "fpga" /\ plan.bitstream)
             => OnTargetClock(plan.platform)'
      <3> DEFINE platform == plan.platform
                 bitstream == plan.bitstream
      <3>1. platform' = platform
        BY <2>2
      <3>2. /\ husky'.caught \in {husky.caught, 0}
            /\ husky'.samples = husky.samples \/ husky'.samples # "garbage"
        BY <1>0, <2>3, <2>4, ScopePrepared
      <3>3. ASSUME phase' = "store", ~ (platform = "fpga" /\ bitstream)
            PROVE  OnTargetClock(plan.platform)'
        BY <2>3, <2>4, <3>3, <2>2, <1>0, ScopePrepared DEF OnTargetClock
      <3>4. QED
        BY <3>2, <3>3
    <2>9. ClockIsTarget'
      BY <2>2, <2>4, <2>8, PhasesApart DEF ClockIsTarget
    <2>10. QED
      BY <2>1, <2>2, <2>5, <2>7, <2>8, <2>9, ExperimentPrepares DEF Misses
  <1>4. CASE CreateStore
    <2>1. /\ phase = "store" /\ UNCHANGED <<program, status>>
          /\ phase' = IF plan.capture /\ plan.auto THEN "fit" ELSE "row"
          /\ UNCHANGED <<link, board, says, husky, missed>> /\ Stays
      BY <1>4 DEF CreateStore, Goto, device, boardVars
    <2>2. UNCHANGED vars /\ UNCHANGED <<plan, row, rows>>
      BY <2>1, StoreUntouched DEF Stays, experimentVars
    <2>3. phase' \in {"fit", "row"}
      BY <2>1
    <2>4. /\ ~ Waits' /\ phase \notin Reading /\ phase \in BeforeFit
          /\ phase' \in BeforeFit \/ phase' = "row"
      BY <2>1, <2>3, WaitsMeansAfter, PhasesApart
    <2>5. HuskyTypeOK(Asks)' /\ BoardTypeOK' /\ status' \in Statuses
      BY <1>0, <2>1, HuskyTyped DEF BoardTypeOK
    <2>6. SessionSound' /\ Loses
      BY <2>1, <2>4, <2>5, HostMoves
    <2>7. ClockIsTarget'
      BY <1>0, <2>1, <2>2, <2>3, PhasesApart DEF ClockIsTarget, OnTargetClock
    <2>8. QED
      BY <2>1, <2>2, <2>4, <2>6, <2>7, ExperimentPrepares DEF Misses
  <1>5. QED
    BY <1>1, <1>2, <1>3, <1>4 DEF Prepare

\* Before the first operation of the loop nothing is stored and nothing given up.
LEMMA NothingYet ==
  ASSUME SInv, SessionSound, ExperimentSound, phase \in BeforeFit \cup InFit
  PROVE  /\ row.i = 0 /\ row.done = 0 /\ missed = 0 /\ accepted = 0 /\ notes = 0
         /\ row.input <= IF plan.random THEN 1 ELSE 0
  <1>1. LoopInOrder /\ ExperimentTypeOK
    BY DEF ExperimentSound
  <1>2. /\ row.i = 0 /\ missed = 0 /\ accepted = 0 /\ notes = 0
        /\ row.input <= IF plan.random THEN row.i + 1 ELSE 0
        /\ row.done + (IF phase \in InRow \/ phase = "stored" THEN 1 ELSE 0) <= row.i
    BY <1>1 DEF LoopInOrder
  <1>3. row.done = 0
    <2>1. row.done \in Nat
      BY <1>1, ExperimentType
    <2> DEFINE taken == IF phase \in InRow \/ phase = "stored" THEN 1 ELSE 0
    <2>2. taken \in {0, 1}
      OBVIOUS
    <2> HIDE DEF taken
    <2>3. row.done + taken <= 0
      BY <1>2 DEF taken
    <2>4. QED
      BY <2>1, <2>2, <2>3, NoneDone
  <1>4. row.input <= IF plan.random THEN 1 ELSE 0
    BY <1>2
  <1>5. QED
    BY <1>2, <1>3, <1>4

\* A command of the measurement, in the order of the loop.
LEMMA FitInOrder ==
  ASSUME SInv, SessionSound, ExperimentSound, UNCHANGED <<plan, rows, status, missed>>,
         UNCHANGED vars, phase \in BeforeFit \cup InFit, phase \notin Closing,
         phase' \in Fitting, asked' \in Asks, NEW input \in 0 .. MaxInputs,
         input <= IF plan.random THEN 1 ELSE 0,
         row' = [i |-> row.i, done |-> row.done, input |-> input, ask |-> asked',
                 answered |-> row.answered]
  PROVE  ExperimentTypeOK' /\ LoopInOrder'
  <1>1. LoopInOrder /\ ExperimentTypeOK
    BY DEF ExperimentSound
  <1>2. /\ row.i = 0 /\ row.done = 0 /\ missed = 0 /\ accepted = 0 /\ notes = 0
    BY NothingYet
  <1>3. /\ row'.i = 0 /\ row'.done = 0 /\ row'.input = input /\ row'.ask = asked'
        /\ accepted' = 0 /\ notes' = 0 /\ missed' = 0
    BY <1>2 DEF vars, writer
  <1>4. ExperimentTypeOK'
    BY <1>1, ExperimentType, LinkBounds, <1>2, <1>3 DEF Asks, ExperimentTypeOK
  <1>5. /\ phase' \in InFit /\ phase' \notin BeforeFit /\ phase' \notin InRow
        /\ phase' # "stored" /\ phase' \notin {"trace", "append"}
        /\ phase' \notin {"final", "save"} /\ phase' \notin {"flush", "final", "save"}
        /\ phase' \notin Closing
    BY Zenon DEF Fitting, InFit, BeforeFit, Clockless, InRow, Closing, FitAnswer, FitTrace,
                 FitCycles
  <1>6. status' \notin {"ok", "failed"}
    BY <1>1 DEF LoopInOrder
  <1>7. /\ (IF phase' \in InRow \/ phase' = "stored" THEN 1 ELSE 0) = 0
        /\ (IF phase' = "stored" THEN 1 ELSE 0) = 0 /\ (IF phase' \in InRow THEN 1 ELSE 0) = 0
    BY <1>5
  <1>8. /\ row'.done + (IF phase' \in InRow \/ phase' = "stored" THEN 1 ELSE 0) <= row'.i
        /\ accepted' = row'.done + (IF phase' = "stored" THEN 1 ELSE 0)
        /\ accepted' + notes' + (IF phase' \in InRow THEN 1 ELSE 0) = row'.i
    <2> DEFINE x == IF phase' \in InRow \/ phase' = "stored" THEN 1 ELSE 0
               y == IF phase' = "stored" THEN 1 ELSE 0
               z == IF phase' \in InRow THEN 1 ELSE 0
    <2>1. x = 0 /\ y = 0 /\ z = 0
      BY <1>7
    <2> HIDE DEF x, y, z
    <2>2. /\ row'.done + x <= row'.i /\ accepted' = row'.done + y
          /\ accepted' + notes' + z = row'.i
      BY <1>3, <2>1
    <2>3. QED
      BY <2>2 DEF x, y, z
  <1>9. row'.input <= IF plan'.random THEN row'.i + 1 ELSE 0
    BY <1>3
  <1>10. QED
    BY <1>3, <1>4, <1>5, <1>6, <1>8, <1>9 DEF LoopInOrder

\* The operation that is launched: its output is its own, junk, or what was there.
LEMMA LaunchForms ==
  ASSUME SInv, SessionSound, ExperimentSound, Launch, NextInput \in 0 .. MaxInputs
  PROVE  \E output \in Data :
           /\ Ask(output) /\ board' = [board EXCEPT !.result = output]
           /\ output \in {Enc(NextInput), board.result, Junk}
           /\ BoardTypeOK' /\ board'.result = output /\ HuskyTypeOK(Asks)'
           /\ husky' = husky \/ husky' = Armed
           /\ plan.capture => husky' = Armed
           /\ missed' = missed
           /\ asked' = asked + 1 /\ asked' \in Asks
  <1>1. LineSound /\ BoardTypeOK /\ HuskyTypeOK(Asks) /\ board.result \in Data
    BY DEF SessionSound, BoardTypeOK
  <1>2. PICK output \in Outputs(NextInput) : RunCore(output)
    BY DEF Launch
  <1>3. output \in Data /\ output \in {Enc(NextInput), board.result, Junk}
    BY <1>1, <1>2, DataForms DEF Outputs
  <1>4. Ask(output) /\ board' = [board EXCEPT !.result = output]
    BY <1>2 DEF RunCore
  <1>5. BoardTypeOK' /\ board'.result = output
    BY <1>1, <1>3, <1>4 DEF BoardTypeOK
  <1>6. /\ husky' = husky \/ husky' = Armed
        /\ plan.capture => husky' = Armed
        /\ missed' = missed
    BY DEF Launch
  <1>7. HuskyTypeOK(Asks)'
    BY <1>1, <1>6, HuskyTyped
  <1>8. asked' = asked + 1 /\ asked' \in Asks
    BY <1>1, <1>3, <1>4, AsksOne
  <1>9. QED
    BY <1>3, <1>4, <1>5, <1>6, <1>7, <1>8

\* The steps of the measurement, without the names of their phases.
LEMMA FitSteps ==
  /\ FitLaunches => /\ phase = "fit" /\ Launch /\ phase' = FitAnswer
                    /\ row' = [row EXCEPT !.input = NextInput, !.ask = asked']
                    /\ UNCHANGED <<program, status, plan, rows, store>>
  /\ FitReads => /\ phase = FitAnswer /\ ReadFrame(row.ask) /\ phase' = FitTrace
                 /\ UNCHANGED <<program, status, board, says, husky>> /\ Stays
  /\ FitCaptures => /\ phase = FitTrace /\ AskWord /\ phase' = FitCycles
                    /\ row' = [row EXCEPT !.ask = asked']
                    /\ UNCHANGED <<program, status, husky, missed, plan, rows, store>>
  /\ FitGrows => /\ phase = FitCycles /\ ReadFrame(row.ask) /\ phase' = "row"
                 /\ husky' \in {Fitted(IF Got = Word THEN "window" ELSE "garbage"), husky}
                 /\ UNCHANGED <<program, status, board, says>> /\ Stays
  /\ FitEnds => /\ \/ phase \in Fitting /\ NoFrame(row.ask)
                   \/ phase = FitTrace /\ UNCHANGED <<link, missed>>
                /\ phase' = "row"
                /\ UNCHANGED <<program, status, board, says, husky>> /\ Stays
  BY Zenon DEF FitLaunches, FitReads, FitCaptures, FitGrows, FitEnds, Goto, boardVars, device,
               FitAnswer, FitTrace, FitCycles, Fitting, experimentVars

\* The phases of the measurement, told apart.
LEMMA FitPhases ==
  /\ "fit" \in BeforeFit /\ "fit" \notin Reading /\ "fit" \notin Closing /\ "fit" \notin Clockless
  /\ FitAnswer \in InFit /\ FitAnswer \in Reading /\ FitAnswer \in Fitting
  /\ FitTrace \in InFit /\ FitTrace \notin Reading /\ FitTrace # FitCycles
  /\ FitCycles \in InFit /\ FitCycles \in Reading /\ FitCycles \in Fitting
  /\ FitAnswer # FitCycles /\ FitTrace # "row" /\ FitTrace # "cycles" /\ FitTrace # "drain"
  /\ Fitting \subseteq InFit /\ Fitting \subseteq Reading /\ Fitting \cap InRow = {}
  /\ InFit \cap Closing = {} /\ InFit \cap Clockless = {} /\ InFit \cap BeforeFit = {}
  /\ "row" \notin Reading /\ "row" \notin Closing /\ "row" \notin Clockless
  BY Zenon DEF BeforeFit, Clockless, Reading, Closing, InFit, InRow, Fitting, FitAnswer, FitTrace,
               FitCycles

\* The measurement asks for an operation and for the timer.
LEMMA ExperimentFitAsks ==
  ASSUME SInv, SessionSound, ExperimentSound, program = "experiment", FitLaunches \/ FitCaptures
  PROVE  SessionSound' /\ ExperimentSound'
  <1>1. /\ LineSound /\ BoardTypeOK /\ HuskyTypeOK(Asks) /\ ExperimentTypeOK /\ LoopInOrder
    BY DEF SessionSound, ExperimentSound
  <1>2. /\ row = [i |-> row.i, done |-> row.done, input |-> row.input, ask |-> row.ask,
                  answered |-> row.answered]
        /\ row.input \in 0 .. MaxInputs /\ row.input \in Nat /\ MaxInputs \in Nat
        /\ MaxInputs > 1 /\ plan.random \in BOOLEAN
    BY <1>1, ExperimentType
  <1>3. /\ phase \in BeforeFit \cup InFit /\ phase \notin Reading /\ phase \notin Closing
        /\ phase \notin Clockless /\ ~ Waits
    BY FitSteps, FitPhases, WaitsMeans
  <1>4. CASE FitLaunches
    <2>1. /\ phase = "fit" /\ Launch /\ phase' = FitAnswer
          /\ row' = [row EXCEPT !.input = NextInput, !.ask = asked']
          /\ UNCHANGED <<program, status, plan, rows, store>>
      BY <1>4, FitSteps
    <2>2. UNCHANGED vars
      BY <1>4, PreparesOutsideStore DEF Fit
    <2>3. row.input = 0 /\ NextInput \in 0 .. MaxInputs /\ row.input <= NextInput
          /\ NextInput <= IF plan.random THEN 1 ELSE 0
      BY <1>1, <1>2, <2>1, FitPhases DEF LoopInOrder, NextInput
    <2>4. PICK output \in Data :
            /\ Ask(output) /\ board' = [board EXCEPT !.result = output]
            /\ output \in {Enc(NextInput), board.result, Junk}
            /\ BoardTypeOK' /\ board'.result = output /\ HuskyTypeOK(Asks)'
            /\ husky' = husky \/ husky' = Armed
            /\ plan.capture => husky' = Armed
            /\ missed' = missed
            /\ asked' = asked + 1 /\ asked' \in Asks
      BY <2>1, <2>3, LaunchForms
    <2>5. /\ row' = [i |-> row.i, done |-> row.done, input |-> NextInput, ask |-> asked',
                     answered |-> row.answered]
          /\ row'.input = NextInput
      BY <1>2, <2>1
    <2>6. phase' \in Fitting /\ phase' \in Reading /\ phase' \notin InRow /\ phase' # FitCycles
      BY <2>1, FitPhases
    <2>7. ExperimentTypeOK' /\ LoopInOrder'
      BY <1>3, <2>1, <2>2, <2>3, <2>4, <2>5, <2>6, FitInOrder
    <2>8. \A v \in 0 .. MaxInputs :
            board'.result = Enc(v) \/ output = Enc(v) => v <= row'.input \/ board.result = Enc(v)
      BY <2>4, <1>2, <2>5 DEF Enc, Junk
    <2>9. row.input <= row'.input /\ row'.input \in 0 .. MaxInputs
      BY <2>3, <2>5
    <2>10. QED
      BY <1>3, <2>1, <2>2, <2>4, <2>6, <2>7, <2>8, <2>9, ExperimentAsks
  <1>5. CASE FitCaptures
    <2>1. /\ phase = FitTrace /\ AskWord /\ phase' = FitCycles
          /\ row' = [row EXCEPT !.ask = asked']
          /\ UNCHANGED <<program, status, husky, missed, plan, rows, store>>
      BY <1>5, FitSteps
    <2>2. UNCHANGED vars
      BY <1>5, PreparesOutsideStore DEF Fit
    <2>3. Ask(Word) /\ board' = board /\ Word \in Data
      BY <2>1, DataForms DEF AskWord
    <2>4. BoardTypeOK' /\ HuskyTypeOK(Asks)'
      BY <1>1, <2>1, <2>3, HuskyTyped DEF BoardTypeOK
    <2>5. asked' = asked + 1 /\ asked' \in Asks
      BY <1>1, <2>3, AsksOne
    <2>6. /\ row' = [i |-> row.i, done |-> row.done, input |-> row.input, ask |-> asked',
                     answered |-> row.answered]
          /\ row'.input = row.input
      BY <1>2, <2>1
    <2>7. phase' \in Fitting /\ phase' \in Reading /\ phase' \notin InRow
      BY <2>1, FitPhases
    <2>8. row.input <= IF plan.random THEN 1 ELSE 0
      BY <1>3, NothingYet
    <2>9. ExperimentTypeOK' /\ LoopInOrder'
      BY <1>2, <1>3, <2>1, <2>2, <2>5, <2>6, <2>7, <2>8, FitInOrder
    <2>10. \A v \in 0 .. MaxInputs :
            board'.result = Enc(v) \/ Word = Enc(v) => v <= row'.input \/ board.result = Enc(v)
      BY <2>3 DEF Word, Enc
    <2>11. row.input <= row'.input /\ row'.input \in 0 .. MaxInputs
      BY <1>2, <2>6
    <2>12. QED
      BY <1>3, <2>1, <2>2, <2>3, <2>4, <2>7, <2>9, <2>10, <2>11, ExperimentAsks
  <1>6. QED
    BY <1>4, <1>5

\* As long as every command is answered, what is read answers the last command.
LEMMA ReadsItsOwn ==
  ASSUME SessionSound, ExperimentSound, Calm, phase \in Reading, phase \notin Closing,
         NEW got \in Owed, Owed' \subseteq Owed, \A n \in Owed' : got < n
  PROVE  got = asked /\ Owed' = {}
  BY DEF ExperimentSound, ReadInTurn, SessionSound, LineSound, LinkTypeOK

\* The measurement reads an answer, or ends.
LEMMA ExperimentFits ==
  ASSUME SInv, SessionSound, ExperimentSound, program = "experiment",
         FitReads \/ FitGrows \/ FitEnds
  PROVE  SessionSound' /\ ExperimentSound'
  <1>0. /\ LineSound /\ BoardTypeOK /\ HuskyTypeOK(Asks) /\ status \in Statuses
        /\ ExperimentTypeOK /\ LoopInOrder /\ ReadInTurn /\ WindowIsOwn /\ ClockIsTarget
    BY DEF SessionSound, ExperimentSound, Statuses
  <1>1. /\ phase \in InFit /\ phase' \in {FitTrace, "row"} /\ (phase' = FitTrace => FitReads)
        /\ UNCHANGED <<program, status, board, says>> /\ Stays
    BY FitSteps, FitPhases DEF InFit
  <1>2. UNCHANGED vars /\ UNCHANGED <<plan, row, rows>>
    BY <1>1, StoreUntouched DEF Stays, experimentVars
  <1>3. missed = 0
    BY <1>1, NothingYet
  <1>4. ~ Waits' /\ phase' \in {FitTrace, "row"}
    BY <1>1, FitPhases, WaitsMeansAfter
  <1>5. /\ phase \notin Closing /\ phase \notin Clockless
        /\ phase \in Fitting => /\ phase \in Reading /\ row.ask = asked /\ asked \in Asks
                                /\ row.ask \in Asks
    BY <1>0, <1>1, FitPhases DEF LoopInOrder
  <1>6. CASE FitReads
    <2>1. phase = FitAnswer /\ ReadFrame(row.ask) /\ phase' = FitTrace /\ husky' = husky
      BY <1>6, FitSteps
    <2>2. phase \in Fitting
      BY <2>1, FitPhases
    <2>3. missed' = missed /\ status' \in Statuses
      BY <1>0, <1>1, <2>1 DEF ReadFrame
    <2> DEFINE got == Head(rx)[2]
    <2>4. SessionSound' /\ Loses /\ got \in Owed /\ \A n \in Owed' : got < n
      BY <1>1, <1>4, <1>5, <2>1, <2>2, <2>3, Reads1
    <2> HIDE DEF got
    <2>5. Calm => Owed' = {}
      BY <2>4, <1>5, <2>2, ReadsItsOwn DEF Loses
    <2>6. ClockIsTarget'
      BY <1>0, <1>2, <1>5, <2>1 DEF ClockIsTarget, OnTargetClock
    <2>7. QED
      BY <1>1, <1>2, <2>1, <2>3, <2>4, <2>5, <2>6, ExperimentPrepares DEF Misses
  <1>7. CASE FitGrows
    <2>1. /\ phase = FitCycles /\ ReadFrame(row.ask) /\ phase' = "row"
          /\ husky' \in {Fitted(IF Got = Word THEN "window" ELSE "garbage"), husky}
      BY <1>7, FitSteps
    <2>2. phase \in Fitting
      BY <2>1, FitPhases
    <2>3. missed' = missed /\ status' \in Statuses /\ TakeFrame(row.ask)
      BY <1>0, <1>1, <2>1 DEF ReadFrame
    <2> DEFINE got == Head(rx)[2]
    <2>4. Loses /\ got \in Owed /\ (\A n \in Owed' : got < n) /\ Got = says[got]
      BY <1>0, <1>1, <1>5, <2>2, <2>3, TakesFirst DEF Got
    <2> HIDE DEF got
    <2>5. Calm => got = asked /\ Owed' = {}
      BY <2>4, <1>5, <2>2, ReadsItsOwn DEF Loses
    <2>6. /\ husky'.caught = husky.caught /\ husky'.source = husky.source
          /\ husky'.hs2 = husky.hs2 /\ HuskyTypeOK(Asks)'
          /\ husky'.samples \in {husky.samples, IF Got = Word THEN "window" ELSE "garbage"}
      <3> DEFINE size == IF Got = Word THEN "window" ELSE "garbage"
      <3>1. size \in {"window", "garbage"}
        OBVIOUS
      <3>2. husky' = husky \/ husky' = Fitted(size)
        BY <2>1
      <3> HIDE DEF size
      <3>3. HuskyTypeOK(Asks)'
        BY <1>0, <3>1, <3>2, HuskyTyped
      <3>4. /\ husky'.caught = husky.caught /\ husky'.source = husky.source
            /\ husky'.hs2 = husky.hs2 /\ husky'.samples \in {husky.samples, size}
        BY <1>0, <3>2 DEF Fitted, HuskyTypeOK
      <3>5. QED
        BY <3>3, <3>4 DEF size
    <2>7. NoOld => husky'.samples # "garbage" \/ husky'.samples = husky.samples
      BY <1>3, <1>0, <2>1, <2>4, <2>5, <2>6 DEF NoOld, Calm, WindowIsOwn
    <2>8. ClockIsTarget'
      BY <1>0, <1>2, <1>5, <2>6 DEF ClockIsTarget, OnTargetClock
    <2>9. BoardTypeOK'
      BY <1>0, <1>1 DEF BoardTypeOK
    <2>10. SessionSound'
      BY <1>4, <2>3, <2>4, <2>6, <2>9, SessionQuiet DEF Statuses
    <2>11. QED
      BY <1>1, <1>2, <2>1, <2>3, <2>4, <2>5, <2>6, <2>7, <2>8, <2>10, ExperimentPrepares
         DEF Misses
  <1>8. CASE FitEnds
    <2>1. /\ \/ phase \in Fitting /\ NoFrame(row.ask)
             \/ phase = FitTrace /\ UNCHANGED <<link, missed>>
          /\ phase' = "row" /\ husky' = husky
      BY <1>8, FitSteps
    <2>2. status' \in Statuses /\ HuskyTypeOK(Asks)' /\ BoardTypeOK'
      BY <1>0, <1>1, <2>1, HuskyTyped DEF BoardTypeOK
    <2>3. /\ SessionSound' /\ Loses
          /\ phase \in Reading => missed' # missed
          /\ missed' = missed \/ missed' = missed + 1
      BY <1>5, WaitsMeans, <1>1, <1>4, <2>1, <2>2, Misses1, <1>3, HostMoves, FitPhases
    <2>4. ClockIsTarget'
      BY <1>0, <1>2, <1>5, <2>1 DEF ClockIsTarget, OnTargetClock
    <2>5. QED
      BY <1>1, <1>2, <2>1, <2>3, <2>4, ExperimentPrepares DEF Misses
  <1>9. QED
    BY <1>6, <1>7, <1>8

\* The phases of the loop, told apart.
LEMMA RowPhases ==
  /\ "answer" \in InRow /\ "trace" \in InRow /\ "append" \in InRow
  /\ "answer" \in Reading /\ "trace" \notin Reading /\ "append" \notin Reading
  /\ InRow \cap Closing = {} /\ InRow \cap Clockless = {} /\ InRow \cap BeforeFit = {}
  /\ InRow \cap InFit = {} /\ InRow \cap Fitting = {} /\ InRow \cap Between = {}
  /\ FitCycles \notin InRow /\ FitCycles \notin Between
  /\ "stored" \notin InRow /\ "row" \notin InRow
  /\ Between \cap Reading = {} /\ Between \cap Closing = {} /\ Between \cap Clockless = {}
  /\ Between \cap BeforeFit = {} /\ Between \cap InFit = {} /\ Between \cap Fitting = {}
  /\ InRow = {"answer", "trace", "append"}
  /\ Between = {"row", "stored", "flush", "final", "save"}
  BY Zenon DEF InRow, Reading, Closing, Clockless, BeforeFit, InFit, Fitting, Between, FitAnswer,
               FitTrace, FitCycles

\* The counts of the loop in the middle of a row and between two rows.
LEMMA RowCounts ==
  ASSUME SInv, SessionSound, ExperimentSound, phase \notin Closing, phase # "stored"
  PROVE  /\ row.done = accepted
         /\ phase \in InRow => row.done + 1 <= row.i /\ accepted + notes + 1 = row.i
         /\ phase \notin InRow => row.done <= row.i /\ accepted + notes = row.i
         /\ row.input <= IF plan.random THEN row.i + 1 ELSE 0
         /\ status \notin {"ok", "failed"}
  BY ExperimentType DEF ExperimentSound, LoopInOrder

\* The counts again, after a step into a row or out of it.
LEMMA RowOrdered ==
  ASSUME phase' \in InRow \cup {"stored"}, row'.done \in Nat, row'.i \in Nat, accepted' \in Nat,
         notes' \in Nat, row'.done + 1 <= row'.i,
         phase' \in InRow => accepted' = row'.done /\ accepted' + notes' + 1 = row'.i,
         phase' = "stored" => accepted' = row'.done + 1 /\ accepted' + notes' = row'.i,
         row'.input <= IF plan'.random THEN row'.i + 1 ELSE 0,
         phase' \in InRow => row'.ask = asked' /\ asked' \in Asks,
         phase' \in {"trace", "append"} => row'.answered \in 1 .. asked',
         status' \notin {"ok", "failed"}
  PROVE  LoopInOrder' /\ StatusIsTrue'
  BY RowPhases DEF LoopInOrder, StatusIsTrue

\* An operation of the loop is launched, with an input of its own.
LEMMA ExperimentLaunches ==
  ASSUME SInv, SessionSound, ExperimentSound, program = "experiment", RowLaunches
  PROVE  SessionSound' /\ ExperimentSound'
  <1>1. /\ phase = "row" /\ row.i < Rows /\ Launch /\ phase' = "answer"
        /\ row' = [row EXCEPT !.i = row.i + 1, !.input = NextInput, !.ask = asked']
        /\ UNCHANGED <<program, status, plan, rows, store>>
    BY DEF RowLaunches, MoreRows, Goto
  <1>2. UNCHANGED vars
    BY <1>1 DEF store, vars
  <1>3. ExperimentTypeOK /\ LoopInOrder
    BY DEF ExperimentSound
  <1>4. /\ row = [i |-> row.i, done |-> row.done, input |-> row.input, ask |-> row.ask,
                  answered |-> row.answered]
        /\ row.i \in Nat /\ row.done \in Nat /\ row.input \in Nat /\ row.input \in 0 .. MaxInputs
        /\ row.done <= Rows /\ row.answered \in 0 .. MaxAsks
        /\ Rows \in Nat /\ MaxInputs \in Nat /\ Rows < MaxInputs /\ MaxAsks \in Nat
        /\ accepted \in Nat /\ notes \in Nat /\ plan.random \in BOOLEAN
    BY <1>3, ExperimentType DEF ExperimentTypeOK
  <1>5. /\ phase \notin Closing /\ phase \notin Clockless /\ phase \notin Reading
        /\ phase # "stored"
        /\ phase \notin InRow
    BY <1>1, RowPhases, FitPhases
  <1>6. ~ Waits
    BY <1>1, <1>5, WaitsMeans
  <1>7. /\ row.done = accepted /\ row.done <= row.i /\ accepted + notes = row.i
        /\ row.input <= IF plan.random THEN row.i + 1 ELSE 0
        /\ status \notin {"ok", "failed"}
    BY <1>5, RowCounts
  <1>8. /\ NextInput \in 0 .. MaxInputs
        /\ NextInput <= IF plan.random THEN row.i + 2 ELSE 0
        /\ plan.random => row.input < NextInput
    BY <1>1, <1>4, <1>7 DEF NextInput
  <1>9. PICK output \in Data :
          /\ Ask(output) /\ board' = [board EXCEPT !.result = output]
          /\ output \in {Enc(NextInput), board.result, Junk}
          /\ BoardTypeOK' /\ board'.result = output /\ HuskyTypeOK(Asks)'
          /\ husky' = husky \/ husky' = Armed
          /\ plan.capture => husky' = Armed
          /\ missed' = missed
          /\ asked' = asked + 1 /\ asked' \in Asks
    BY <1>1, <1>8, LaunchForms
  <1>10. /\ row' = [i |-> row.i + 1, done |-> row.done, input |-> NextInput, ask |-> asked',
                    answered |-> row.answered]
         /\ row'.i = row.i + 1 /\ row'.done = row.done /\ row'.input = NextInput
         /\ row'.ask = asked'
    BY <1>1, <1>4
  <1>11. accepted' = accepted /\ notes' = notes
    BY <1>2 DEF vars, writer
  <1>12. /\ phase' \in InRow /\ phase' \in Reading /\ phase' # FitCycles
         /\ phase' \notin {"trace", "append"}
    BY <1>1, RowPhases
  <1>13. ExperimentTypeOK'
    BY <1>1, <1>4, <1>9, <1>8, <1>10, <1>3, <1>11 DEF Asks, ExperimentTypeOK
  <1>14. LoopInOrder'
    BY <1>4, <1>7, <1>10, <1>11, <1>1, <1>8, <1>9, <1>12, RowOrdered
  <1>15. \A v \in 0 .. MaxInputs :
           board'.result = Enc(v) \/ output = Enc(v) => v <= row'.input \/ board.result = Enc(v)
    BY <1>9, <1>4, <1>10 DEF Enc, Junk
  <1>16. plan.random => row.input < row'.input /\ row.input <= row'.input
    BY <1>4, <1>8, <1>10
  <1>17. row'.input \in 0 .. MaxInputs
    BY <1>8, <1>10
  <1>18. QED
    BY <1>1, <1>2, <1>5, <1>6, <1>9, <1>12, <1>13, <1>14, <1>15, <1>16, <1>17, ExperimentAsks

\* A step within a row.
LEMMA RowGoesOn ==
  ASSUME SInv, SessionSound, ExperimentSound, UNCHANGED vars,
         UNCHANGED <<plan, rows, status, asked>>,
         phase \in InRow, phase' \in {"trace", "append"}, NEW answers \in 1 .. asked,
         row' = [i |-> row.i, done |-> row.done, input |-> row.input, ask |-> row.ask,
                 answered |-> answers],
         husky'.source = husky.source, husky'.hs2 = husky.hs2
  PROVE  ExperimentTypeOK' /\ LoopInOrder' /\ StatusIsTrue' /\ ClockIsTarget'
  BY SMTT(30), ExperimentType, RowPhases, RowCounts, RowOrdered
     DEF ExperimentSound, vars, writer, LoopInOrder, ExperimentTypeOK, ClockIsTarget,
         OnTargetClock

\* The output is read, and the trace.
LEMMA ExperimentReads ==
  ASSUME SInv, SessionSound, ExperimentSound, program = "experiment", RowReads \/ RowCaptures
  PROVE  SessionSound' /\ ExperimentSound'
  <1>1. ExperimentTypeOK /\ LoopInOrder /\ status \in Statuses /\ HuskyTypeOK(Asks) /\ BoardTypeOK
    BY DEF ExperimentSound, SessionSound, Statuses
  <1>2. /\ row = [i |-> row.i, done |-> row.done, input |-> row.input, ask |-> row.ask,
                  answered |-> row.answered]
        /\ missed \in Nat
    BY <1>1, ExperimentType
  <1>3. CASE RowReads
    <2> DEFINE got == Head(rx)[2]
    <2>1. /\ phase = "answer" /\ ReadFrame(row.ask)
          /\ phase' = IF plan.capture THEN "trace" ELSE "append"
          /\ row' = [row EXCEPT !.answered = got]
          /\ UNCHANGED <<program, status, board, says, husky, plan, rows, store>>
      BY <1>3 DEF RowReads, Goto, boardVars
    <2>2. /\ phase \in InRow /\ phase \in Reading /\ phase \notin Closing
          /\ row.ask = asked /\ row.ask \in Asks
      BY <1>1, <2>1, RowPhases DEF LoopInOrder
    <2>3. phase' \in {"trace", "append"} /\ phase' \notin Reading /\ phase' # FitCycles
          /\ (plan.capture => phase' # "append") /\ phase' # "cycles" /\ phase' # "drain"
      BY <2>1, RowPhases
    <2>4. missed' = missed /\ status' \in Statuses /\ ~ Waits' /\ UNCHANGED vars
      BY <1>1, <2>1, <2>3, WaitsMeansAfter DEF ReadFrame, store, vars
    <2>5. SessionSound' /\ Loses /\ got \in Owed /\ got \in 1 .. asked /\ \A n \in Owed' : got < n
      BY <2>1, <2>2, <2>4, Reads1
    <2> HIDE DEF got
    <2>6. asked' = asked /\ (Calm => Owed' = {})
      BY <2>5, <2>2, ReadsItsOwn DEF Loses
    <2>7. /\ row' = [i |-> row.i, done |-> row.done, input |-> row.input, ask |-> row.ask,
                     answered |-> got]
          /\ row'.input = row.input
      BY <1>2, <2>1
    <2>8. ExperimentTypeOK' /\ LoopInOrder' /\ StatusIsTrue' /\ ClockIsTarget'
      BY <2>1, <2>2, <2>3, <2>4, <2>5, <2>6, <2>7, RowGoesOn
    <2>9. QED
      BY <2>1, <2>2, <2>3, <2>4, <2>5, <2>6, <2>7, <2>8, ExperimentRests DEF Misses
  <1>4. CASE RowCaptures
    <2>1. /\ phase = "trace" /\ husky.caught # 0 /\ phase' = "append"
          /\ UNCHANGED <<program, status, link, board, says, husky, missed>> /\ Stays
      BY <1>4 DEF RowCaptures, CaptureDone, Goto, device, boardVars
    <2>2. UNCHANGED vars /\ UNCHANGED <<plan, row, rows>>
      BY <2>1, StoreUntouched DEF Stays, experimentVars
    <2>3. /\ phase \in InRow /\ phase \notin Closing /\ phase \notin Reading
          /\ row.answered \in 1 .. asked
      BY <1>1, <2>1, RowPhases DEF LoopInOrder
    <2>4. /\ phase' \in {"trace", "append"} /\ phase' \notin Reading /\ phase' # FitCycles
          /\ phase' # "cycles" /\ phase' # "drain"
      BY <2>1, RowPhases
    <2>5. ~ Waits' /\ status' \in Statuses /\ HuskyTypeOK(Asks)' /\ BoardTypeOK'
      BY <1>1, <2>1, <2>4, WaitsMeansAfter, HuskyTyped DEF BoardTypeOK
    <2>6. SessionSound' /\ Loses
      BY <2>1, <2>5, HostMoves
    <2>7. asked' = asked
      BY <2>6 DEF Loses
    <2>8. /\ row' = [i |-> row.i, done |-> row.done, input |-> row.input, ask |-> row.ask,
                     answered |-> row.answered]
      BY <1>2, <2>2
    <2>9. ExperimentTypeOK' /\ LoopInOrder' /\ StatusIsTrue' /\ ClockIsTarget'
      BY <2>1, <2>2, <2>3, <2>4, <2>7, <2>8, RowGoesOn
    <2>10. QED
      BY <2>1, <2>2, <2>3, <2>4, <2>6, <2>9, ExperimentRests DEF Misses
  <1>5. QED
    BY <1>3, <1>4

\* A row that fails leaves one line in the failure log.
LEMMA ExperimentRowFails ==
  ASSUME SInv, SessionSound, ExperimentSound, program = "experiment", RowFails
  PROVE  SessionSound' /\ ExperimentSound'
  <1>1. ExperimentTypeOK /\ LoopInOrder /\ status \in Statuses /\ HuskyTypeOK(Asks) /\ BoardTypeOK
    BY DEF ExperimentSound, SessionSound, Statuses
  <1>2. /\ row = [i |-> row.i, done |-> row.done, input |-> row.input, ask |-> row.ask,
                  answered |-> row.answered]
        /\ missed \in Nat /\ row.done \in Nat /\ row.done <= Rows /\ Rows \in Nat
        /\ accepted \in Nat /\ notes \in Nat
    BY <1>1, ExperimentType
  <1>3. /\ \/ phase = "answer" /\ NoFrame(row.ask)
           \/ phase = "trace" /\ UNCHANGED <<link, missed>>
        /\ UNCHANGED <<board, says, husky>> /\ RecordFailure /\ phase' = "row"
        /\ UNCHANGED <<program, status, plan, row, rows>>
    BY DEF RowFails, Goto, experimentVars, boardVars, device
  <1>4. phase \in InRow /\ phase \notin Closing /\ phase # "stored"
    BY <1>3, RowPhases
  <1>5. row.done = accepted /\ accepted + notes + 1 = row.i
    BY <1>4, RowCounts
  <1>6. accepted' = accepted /\ notes' = notes + 1
    BY <1>3 DEF RecordFailure
  <1>7. ~ Waits' /\ status' \in Statuses /\ HuskyTypeOK(Asks)' /\ BoardTypeOK'
    BY <1>3, FitPhases, <1>1, WaitsMeansAfter, HuskyTyped DEF BoardTypeOK
  <1>8. /\ SessionSound' /\ Loses
        /\ phase \in Reading => missed' # missed
        /\ missed' = missed \/ missed' = missed + 1
    BY <1>1, <1>4, WaitsMeans, RowPhases, <1>3, <1>7, Misses1, <1>2, HostMoves DEF LoopInOrder
  <1>9. /\ phase' \in Between /\ phase' # "stored" /\ phase' \notin {"final", "save"}
        /\ phase' \notin {"flush", "final", "save"}
    BY <1>3, RowPhases
  <1>10. /\ row'.done \in 0 .. Rows /\ notes' \in Nat /\ accepted + notes' = row.i
         /\ row'.done + (IF phase' = "stored" THEN 1 ELSE 0) = accepted
    BY <1>2, <1>3, <1>5, <1>6, <1>9
  <1>11. row' = [row EXCEPT !.done = row'.done]
    BY <1>2, <1>3
  <1>12. QED
    BY <1>3, <1>4, <1>6, <1>8, <1>9, <1>10, <1>11, ExperimentStores DEF Misses

\* A stored row holds the answer, the trace and the window of its own operation.
LEMMA ExperimentStoresRow ==
  ASSUME SInv, SessionSound, ExperimentSound, program = "experiment", StoreRow
  PROVE  SessionSound' /\ ExperimentSound'
  <1> DEFINE fresh == [valid |-> Valid, asked |-> row.ask, answered |-> row.answered,
                       traced |-> husky.caught, calm |-> Calm,
                       clocked |-> OnTargetClock(plan.platform),
                       fits |-> husky.samples # "garbage"]
  <1>1. /\ phase = "append" /\ AppendRow /\ rows' = Append(rows, fresh) /\ phase' = "stored"
        /\ UNCHANGED <<program, status, link, board, says, husky, missed, plan, row>>
    BY DEF StoreRow, Goto, device, boardVars
  <1>2. /\ ExperimentTypeOK /\ LoopInOrder /\ InputsNew /\ ReadInTurn /\ TraceIsOwn /\ TracesRise
        /\ WindowIsOwn /\ ClockIsTarget
        /\ status \in Statuses /\ HuskyTypeOK(Asks) /\ BoardTypeOK /\ LineSound
    BY DEF ExperimentSound, SessionSound, Statuses
  <1>3. /\ row.i \in Nat /\ row.done \in Nat /\ accepted \in Nat /\ notes \in Nat
        /\ Len(rows) \in Nat /\ rows \in Seq(RowFrom) /\ MaxAsks \in Nat /\ asked \in Nat
        /\ husky.caught \in Asks \cup {0} /\ plan.random \in BOOLEAN /\ plan.platform \in Platforms
    BY <1>2, ExperimentType DEF HuskyTypeOK, ExperimentTypeOK
  <1>4. /\ phase \in InRow /\ phase \notin Closing /\ phase \notin Clockless /\ phase # "stored"
        /\ phase \notin Reading
        /\ phase' \in InRow \cup {"stored"} /\ phase' \notin InRow /\ phase' \notin Reading
        /\ phase' \notin Clockless /\ phase' \notin Closing /\ phase' # FitCycles
        /\ phase' \notin {"trace", "append"} /\ phase' # "cycles" /\ phase' # "drain"
    BY <1>1, RowPhases
  <1>5. /\ row.done = accepted /\ row.done + 1 <= row.i /\ accepted + notes + 1 = row.i
        /\ row.input <= IF plan.random THEN row.i + 1 ELSE 0
        /\ status \notin {"ok", "failed"}
    BY <1>4, RowCounts
  <1>6. row.ask = asked /\ asked \in Asks /\ row.answered \in 1 .. asked
    BY <1>1, <1>2, <1>4 DEF LoopInOrder
  <1>7. accepted' = accepted + 1 /\ notes' = notes
    BY <1>1 DEF AppendRow
  <1>8. SessionSound' /\ Loses /\ Owed' = Owed /\ Numbers(due') = Numbers(due)
    BY <1>1, <1>4, WaitsMeansAfter, <1>2, HuskyTyped, HostMoves DEF BoardTypeOK
  <1>9. asked' = asked /\ says' = says
    BY <1>8 DEF Loses
  <1>10. /\ fresh.asked = asked /\ fresh.answered = row.answered /\ fresh.traced = husky.caught
         /\ fresh.calm = Calm /\ fresh.fits = (husky.samples # "garbage")
         /\ fresh.valid = Valid /\ fresh.clocked = OnTargetClock(plan.platform)
    BY <1>6
  <1>11. fresh \in RowFrom
    <2>1. row.answered \in Asks
      BY <1>3, <1>6 DEF Asks
    <2>2. Valid \in BOOLEAN /\ Calm \in BOOLEAN /\ (husky.samples # "garbage") \in BOOLEAN
      BY Zenon DEF Valid, Calm
    <2>3. OnTargetClock(plan.platform) \in BOOLEAN
      BY DEF OnTargetClock
    <2> DEFINE a == Valid
               b == Calm
               c == husky.samples # "garbage"
               d == OnTargetClock(plan.platform)
    <2>4. a \in BOOLEAN /\ b \in BOOLEAN /\ c \in BOOLEAN /\ d \in BOOLEAN
      BY <2>2, <2>3
    <2>5. row.ask \in Asks
      BY <1>6
    <2>6. fresh = [valid |-> a, asked |-> row.ask, answered |-> row.answered,
                   traced |-> husky.caught, calm |-> b, clocked |-> d, fits |-> c]
      OBVIOUS
    <2> HIDE DEF a, b, c, d, fresh
    <2>7. QED
      BY <1>3, <2>1, <2>4, <2>5, <2>6 DEF RowFrom
  <1> HIDE DEF fresh
  <1>12. /\ rows' \in Seq(RowFrom) /\ Len(rows') = Len(rows) + 1
         /\ \A k \in 1 .. Len(rows) : rows'[k] = rows[k]
         /\ rows'[Len(rows) + 1] = fresh
         /\ DOMAIN rows' = 1 .. Len(rows) + 1 /\ DOMAIN rows = 1 .. Len(rows)
    BY <1>1, <1>3, <1>11, AppendProperties
  <1>13. ExperimentTypeOK'
    BY <1>1, <1>2, <1>3, <1>7, <1>12 DEF ExperimentTypeOK
  <1>14. LoopInOrder' /\ StatusIsTrue'
    BY <1>1, <1>3, <1>5, <1>7, <1>4, RowOrdered
  <1>15. (Calm' <=> Calm) /\ (NoOld' <=> NoOld) /\ (Calm => NoOld)
    BY <1>1, <1>9 DEF Calm, NoOld
  <1>16. InputsNew'
    BY <1>1, <1>2, <1>4, <1>9 DEF InputsNew
  <1>17. ReadInTurn'
    BY <1>2, <1>4, <1>8, <1>15 DEF ReadInTurn
  <1>18. TraceIsOwn'
    BY <1>4 DEF TraceIsOwn
  <1>19. WindowIsOwn'
    BY <1>1, <1>2, <1>4, <1>15 DEF WindowIsOwn
  <1>20. ClockIsTarget'
    BY <1>1, <1>2, <1>4 DEF ClockIsTarget, OnTargetClock
  <1>21. plan.capture =>
           /\ husky.caught # 0 /\ husky.caught <= asked
           /\ \A n \in Numbers(due) : husky.caught < n
           /\ \A j \in DOMAIN rows :
                /\ rows[j].traced \in 1 .. asked
                /\ \A n \in Numbers(due) : rows[j].traced < n
                /\ rows[j].traced < husky.caught
           /\ husky.caught \in 1 .. asked
    BY <1>1, <1>2, <1>4, <1>3 DEF TracesRise, Asks
  <1>22. TracesRise'
    BY <1>1, <1>3, <1>8, <1>9, <1>10, <1>12, <1>21, <1>4 DEF TracesRise
  <1>23. \A k \in 1 .. Len(rows) + 1 : k \in 1 .. Len(rows) \/ k = Len(rows) + 1
    BY <1>3
  <1>24. ValidRowsAreTheirOwn'
    <2> SUFFICES ASSUME plan.capture, plan.random, NEW k \in DOMAIN rows', rows'[k].valid
                 PROVE  /\ rows'[k].answered = rows'[k].asked
                        /\ rows'[k].calm => rows'[k].traced = rows'[k].asked
      BY <1>1 DEF ValidRowsAreTheirOwn, Captured
    <2>1. CASE k \in 1 .. Len(rows)
      BY <1>12, <2>1 DEF ExperimentSound, ValidRowsAreTheirOwn, Captured, Experiments
    <2>2. CASE k = Len(rows) + 1
      <3>1. says[row.answered] = Enc(row.input)
        BY <1>10, <1>12, <2>2 DEF Valid
      <3>2. \A n \in 1 .. asked - 1 : says[n] # Enc(row.input)
        BY <1>2, <1>4 DEF InputsNew
      <3>3. row.answered = asked
        BY <1>3, <1>6, <3>1, <3>2
      <3>4. Calm => husky.caught = asked
        BY <1>2, <1>4, <1>21 DEF TraceIsOwn
      <3>5. QED
        BY <1>10, <1>12, <2>2, <3>3, <3>4
    <2>3. QED
      BY <1>12, <1>23, <2>1, <2>2
  <1>25. TracesAreFresh'
    BY <1>1, <1>12, <1>3, <1>10, <1>21, <1>23
       DEF TracesAreFresh, Captured, ExperimentSound, Experiments
  <1>26. SamplesAreMeasured'
    BY <1>1, <1>9, <1>12, <1>2, <1>10, <1>23
       DEF SamplesAreMeasured, Captured, NoOld, ExperimentSound, Experiments, WindowIsOwn
  <1>27. SampledOnTargetClock'
    BY <1>1, <1>12, <1>2, <1>4, <1>10, <1>23
       DEF SampledOnTargetClock, Captured, ExperimentSound, Experiments, ClockIsTarget
  <1>28. QED
    BY <1>8, <1>13, <1>14, <1>16, <1>17, <1>18, <1>19, <1>20, <1>22, <1>24, <1>25, <1>26, <1>27
       DEF ExperimentSound

\* The counts of the loop between two rows.
LEMMA BetweenCounts ==
  ASSUME SInv, SessionSound, ExperimentSound, phase \in Between
  PROVE  /\ row.done + (IF phase = "stored" THEN 1 ELSE 0) = accepted
         /\ phase = "stored" => row.done + 1 = accepted /\ row.done + 1 <= row.i
         /\ phase # "stored" => row.done = accepted
         /\ accepted + notes = row.i
         /\ phase \in {"final", "save"} => row.i = Rows
         /\ status \notin {"ok", "failed"} /\ phase \notin Reading /\ phase \in InRow \cup Between
         /\ phase \notin Closing
  BY ExperimentType, RowPhases DEF ExperimentSound, LoopInOrder

\* The checkpoints and the last save.
LEMMA ExperimentSaves ==
  ASSUME SInv, SessionSound, ExperimentSound, program = "experiment",
         StoreWorks \/ CountRow \/ LoopGoesOn \/ LoopEnds \/ Save
  PROVE  SessionSound' /\ ExperimentSound'
  <1>1. ExperimentTypeOK /\ LoopInOrder /\ status \in Statuses /\ HuskyTypeOK(Asks) /\ BoardTypeOK
    BY DEF ExperimentSound, SessionSound, Statuses
  <1>2. /\ row = [i |-> row.i, done |-> row.done, input |-> row.input, ask |-> row.ask,
                  answered |-> row.answered]
        /\ row.done \in Nat /\ row.done \in 0 .. Rows /\ row.i \in Nat /\ row.i <= Rows
        /\ Rows \in Nat /\ accepted \in Nat /\ notes \in Nat
    BY <1>1, ExperimentType DEF ExperimentTypeOK
  <1>3. /\ UNCHANGED <<program, status, link, board, says, husky, missed, plan, rows>>
        /\ accepted' = accepted /\ notes' = notes
        /\ \/ /\ StoreWorks /\ phase \in {"stored", "flush", "final", "save"} /\ phase' = phase
              /\ row' = row
           \/ /\ phase = "stored" /\ row' = [row EXCEPT !.done = row.done + 1]
              /\ phase' = "row" \/ (phase' = "flush" /\ pc' = "flush")
           \/ phase = "flush" /\ phase' = "row" /\ row' = row
           \/ phase = "row" /\ row.i = Rows /\ phase' = "final" /\ pc' = "flush" /\ row' = row
           \/ phase = "final" /\ phase' = "save" /\ pc' = "flush" /\ row' = row
    <2>1. CASE StoreWorks
      BY <2>1
         DEF StoreWorks, Flush, WriteChunk, WriteManifest, SwapState, KeepFingerprint,
             FlushRaises, device, session, boardVars, experimentVars
    <2>2. CASE CountRow
      BY <2>2 DEF CountRow, Goto, device, boardVars, CallFlush, store, writer
    <2>3. CASE LoopGoesOn
      BY <2>3 DEF LoopGoesOn, Goto, device, boardVars, Stays, store, writer, experimentVars
    <2>4. CASE LoopEnds
      BY <2>4 DEF LoopEnds, Goto, device, boardVars, CallFlush, experimentVars
    <2>5. CASE Save
      BY <2>5 DEF Save, Goto, device, boardVars, CallFlush, experimentVars
    <2>6. QED
      BY <2>1, <2>2, <2>3, <2>4, <2>5
  <1>4. phase \in Between /\ phase' \in Between
    BY <1>3, RowPhases
  <1>5. /\ row.done + (IF phase = "stored" THEN 1 ELSE 0) = accepted
        /\ phase = "stored" => row.done + 1 = accepted /\ row.done + 1 <= row.i
        /\ phase # "stored" => row.done = accepted
        /\ accepted + notes = row.i
        /\ phase \in {"final", "save"} => row.i = Rows
        /\ phase \notin Reading /\ phase \in InRow \cup Between
    BY <1>4, BetweenCounts
  <1>6. SessionSound' /\ Loses
    BY <1>4, RowPhases, <1>3, WaitsMeansAfter, <1>1, HuskyTyped, HostMoves DEF BoardTypeOK
  <1>7. /\ row' = [row EXCEPT !.done = row'.done] /\ row'.done \in 0 .. Rows
        /\ row'.done + (IF phase' = "stored" THEN 1 ELSE 0) = accepted
        /\ phase' \in {"final", "save"} => row.i = Rows
    BY <1>2, <1>5, <1>3
  <1>8. phase' \in {"flush", "final", "save"} /\ pc' = "idle" => outcome' # "open"
    BY <1>3
       DEF StoreWorks, Flush, WriteChunk, WriteManifest, SwapState, KeepFingerprint, FlushRaises
  <1>9. accepted + notes' = row.i /\ notes' \in Nat /\ Misses
    BY <1>2, <1>3, <1>5 DEF Misses
  <1>10. QED
    BY <1>3, <1>4, <1>5, <1>6, <1>7, <1>8, <1>9, ExperimentStores

\* The program goes to its end, with its report.
LEMMA ExperimentReports ==
  ASSUME SInv, SessionSound, ExperimentSound, program = "experiment",
         StoreRaised \/ Saved \/ Raises \/ DisconnectScope \/ Close
  PROVE  SessionSound' /\ ExperimentSound'
  <1>1. /\ ExperimentTypeOK /\ LoopInOrder /\ StatusIsTrue
        /\ status \in Statuses /\ HuskyTypeOK(Asks) /\ BoardTypeOK
    BY DEF ExperimentSound, SessionSound, Statuses
  <1>2. accepted \in Nat /\ notes \in Nat
    BY <1>1, ExperimentType
  <1>3. CASE StoreRaised \/ Saved \/ Raises
    <2>1. /\ phase' = "disconnect" /\ Stays
          /\ UNCHANGED <<program, link, board, says, husky, missed>>
          /\ \/ status' = "error"
             \/ Saved /\ status' = IF row.done = Rows THEN "ok" ELSE "failed"
      BY <1>3 DEF StoreRaised, Saved, AllStored, Raises, device, boardVars
    <2>2. UNCHANGED vars /\ UNCHANGED <<plan, row, rows>>
      BY <2>1, StoreUntouched DEF Stays, experimentVars
    <2>3. accepted' = accepted /\ notes' = notes /\ manifest' = manifest
      BY <2>2 DEF vars, writer
    <2>4. ~ Waits'
      BY <2>1, WaitsMeansAfter DEF Reading, FitAnswer, FitCycles
    <2>5. HuskyTypeOK(Asks)' /\ BoardTypeOK' /\ status' \in Statuses
      BY <1>1, <2>1, HuskyTyped DEF BoardTypeOK, Statuses
    <2>6. SessionSound' /\ Loses
      BY <2>1, <2>4, <2>5, HostMoves
    <2>7. StatusIsTrue'
      BY <1>1, BetweenCounts, RowPhases, <2>3, <2>1
         DEF StatusIsTrue, Saved, StoreFine, LoopInOrder, SInv, TypeOK, FlushedMeansSaved
    <2>8. QED
      BY <1>2, <2>1, <2>2, <2>3, <2>6, <2>7, ExperimentCloses, PhasesApart DEF Misses
  <1>4. CASE DisconnectScope
    <2>1. /\ phase = "disconnect" /\ Disconnect /\ phase' = "shut"
          /\ UNCHANGED <<program, status, link, board, says, missed>> /\ Stays
      BY <1>4 DEF DisconnectScope, Goto, boardVars
    <2>2. UNCHANGED vars /\ UNCHANGED <<plan, row, rows>>
      BY <2>1, StoreUntouched DEF Stays, experimentVars
    <2>3. accepted' = accepted /\ notes' = notes /\ manifest' = manifest
      BY <2>2 DEF vars, writer
    <2>4. ~ Waits'
      BY <2>1, WaitsMeansAfter DEF Reading, FitAnswer, FitCycles
    <2>5. HuskyTypeOK(Asks)' /\ BoardTypeOK' /\ status' \in Statuses
      BY <1>1, <2>1, HuskyTyped DEF BoardTypeOK
    <2>6. SessionSound' /\ Loses
      BY <2>1, <2>4, <2>5, HostMoves
    <2>7. husky'.caught \in {husky.caught, 0} /\ husky'.samples = husky.samples
      BY <1>1, <2>1 DEF Disconnect, HuskyTypeOK
    <2>8. StatusIsTrue'
      BY <1>1, <2>1, <2>3 DEF StatusIsTrue, Experiments
    <2>9. QED
      BY <1>2, <2>1, <2>2, <2>3, <2>6, <2>7, <2>8, ExperimentCloses, PhasesApart DEF Misses
  <1>5. CASE Close
    <2>1. (ShutDevice \/ ShutLock("over")) /\ Stays
      BY <1>5 DEF Close
    <2>2. UNCHANGED vars /\ UNCHANGED <<plan, row, rows>>
      BY <2>1, StoreUntouched DEF Stays, experimentVars
    <2>3. accepted' = accepted /\ notes' = notes /\ manifest' = manifest
      BY <2>2 DEF vars, writer
    <2>4. "over" \notin WaitPhases
      BY DEF WaitPhases
    <2>5. /\ SessionSound' /\ Loses
          /\ UNCHANGED <<program, status, missed, board, says, husky, due>>
          /\ phase' = "unlock" \/ phase' = "over"
      BY <2>1, <2>4, PortLeft
    <2>6. StatusIsTrue'
      BY <1>1, <2>3, <2>5 DEF StatusIsTrue, Experiments
    <2>7. QED
      BY <1>2, <2>2, <2>3, <2>5, <2>6, ExperimentCloses, PhasesApart DEF Misses
  <1>6. QED
    BY <1>3, <1>4, <1>5

\* SIGKILL.
LEMMA ExperimentKilled ==
  ASSUME SInv, SessionSound, ExperimentSound, program = "experiment", Killed
  PROVE  SessionSound' /\ ExperimentSound'
  <1>1. /\ phase' = "over" /\ status' = "killed" /\ Dies("cli", {row.ask} \cap Asks)
        /\ Disconnect /\ Die
        /\ UNCHANGED <<program, missed, board, says, plan, row, rows>>
    BY DEF Killed, boardVars, experimentVars
  <1>2. /\ LineSound /\ HuskyTypeOK(Asks) /\ BoardTypeOK /\ accepted \in Nat
    BY ExperimentType DEF SessionSound, ExperimentSound
  <1>3. Loses
    BY <1>1, <1>2, LosesPort DEF Processes
  <1>4. HuskyTypeOK(Asks)' /\ BoardTypeOK'
    BY <1>1, <1>2, HuskyTyped DEF BoardTypeOK
  <1>5. ~ Waits'
    BY <1>1, WaitsMeansAfter DEF Reading, FitAnswer, FitCycles
  <1>6. SessionSound'
    BY <1>1, <1>3, <1>4, <1>5, SessionQuiet
  <1>7. husky'.caught \in {husky.caught, 0} /\ husky'.samples = husky.samples
    BY <1>1, <1>2 DEF Disconnect, HuskyTypeOK
  <1>8. accepted' = accepted
    BY <1>1 DEF Die
  <1>9. StatusIsTrue'
    BY <1>1 DEF StatusIsTrue
  <1>10. QED
    BY <1>1, <1>2, <1>3, <1>6, <1>7, <1>8, <1>9, ExperimentCloses, PhasesApart DEF Misses

\* Text on the line, the board, another terminal, or nothing at all.
LEMMA ExperimentUndisturbed ==
  ASSUME SInv, SessionSound, ExperimentSound, program = "experiment", UNCHANGED experimentVars,
         \/ SkipsText /\ UNCHANGED vars
         \/ World
         \/ UNCHANGED <<device, session, vars>>
  PROVE  SessionSound' /\ ExperimentSound'
  BY Skips1, ExperimentStays, WorldSound, SessionRests
     DEF World, experimentVars, SessionSound, WorldDoes, Triggered, HuskyTypeOK, device, session,
         boardVars

\* Before the first operation no output is one of this program.
LEMMA ExperimentStarts == ASSUME HostInit, program = "experiment" PROVE ExperimentSound
  <1>1. /\ plan \in Plans /\ row = [i |-> 0, done |-> 0, input |-> 0, ask |-> 0, answered |-> 0]
        /\ rows = <<>> /\ phase = "start" /\ status = "running" /\ missed = 0 /\ husky = Off
        /\ board.result = Junk /\ accepted = 0 /\ notes = 0
    BY DEF HostInit, ExperimentInit, BoardInit, Init
  <1>2. Rows \in Nat /\ MaxInputs \in Nat /\ MaxAsks \in Nat
    BY ExperimentAssumption, ControllerBounds, LinkBounds
  <1>3. SessionSound
    BY SessionStarts
  <1>4. /\ phase \in BeforeFit /\ phase \in Clockless /\ phase \notin InFit /\ phase \notin InRow
        /\ phase \notin Fitting /\ phase \notin Closing /\ phase # FitCycles
        /\ phase \notin Reading
    BY <1>1, Zenon DEF BeforeFit, Clockless, InFit, InRow, Fitting, Closing, Reading, FitAnswer,
                       FitTrace, FitCycles
  <1>5. ExperimentTypeOK
    BY <1>1, EmptySeq, <1>2 DEF ExperimentTypeOK
  <1>6. LoopInOrder
    <2>1. /\ phase # "stored" /\ phase \notin {"trace", "append"} /\ phase \notin {"final", "save"}
          /\ phase \notin {"flush", "final", "save"} /\ status \notin {"ok", "failed"}
      BY <1>1
    <2>2. /\ row.i = 0 /\ row.done = 0 /\ row.input = 0
      BY <1>1
    <2>3. /\ row.done + (IF phase \in InRow \/ phase = "stored" THEN 1 ELSE 0) <= row.i
          /\ accepted = row.done + (IF phase = "stored" THEN 1 ELSE 0)
          /\ accepted + notes + (IF phase \in InRow THEN 1 ELSE 0) = row.i
      <3> DEFINE x == IF phase \in InRow \/ phase = "stored" THEN 1 ELSE 0
                 y == IF phase = "stored" THEN 1 ELSE 0
                 z == IF phase \in InRow THEN 1 ELSE 0
      <3>1. x = 0 /\ y = 0 /\ z = 0
        BY <1>4, <2>1
      <3> HIDE DEF x, y, z
      <3>2. row.done + x <= row.i /\ accepted = row.done + y /\ accepted + notes + z = row.i
        BY <1>1, <2>2, <3>1
      <3>3. QED
        BY <3>2 DEF x, y, z
    <2>4. row.input <= IF plan.random THEN row.i + 1 ELSE 0
      BY <2>2
    <2>5. QED
      BY <1>1, <1>4, <2>1, <2>2, <2>3, <2>4 DEF LoopInOrder
  <1>7. \A k \in 1 .. asked : says[k] = Old
    <2>1. asked \in Nat /\ (says = <<>> => asked = 0)
      BY <1>3, LinkBounds DEF SessionSound, LineSound, LinkTypeOK
    <2>2. QED
      BY <2>1 DEF HostInit, BoardInit
  <1>8. InputsNew
    BY <1>1, <1>4, <1>7 DEF Old, Enc, Junk, InputsNew
  <1>9. ReadInTurn
    BY <1>4, <1>3, <1>7 DEF ReadInTurn, SessionSound, LineSound, InOrder, LinkTypeOK, Calm
  <1>10. TracesRise
    BY <1>1, <1>3 DEF Off, SessionSound, LineSound, InOrder, LinkTypeOK, Owed, TracesRise
  <1>11. TraceIsOwn /\ ClockIsTarget /\ WindowIsOwn
    BY <1>1, <1>4 DEF TraceIsOwn, ClockIsTarget, WindowIsOwn, Off
  <1>12. /\ ValidRowsAreTheirOwn /\ TracesAreFresh /\ SamplesAreMeasured /\ SampledOnTargetClock
    BY <1>1 DEF ValidRowsAreTheirOwn, TracesAreFresh, SamplesAreMeasured, SampledOnTargetClock
  <1>13. StatusIsTrue
    BY <1>1 DEF StatusIsTrue
  <1>14. QED
    BY <1>5, <1>6, <1>8, <1>9, <1>10, <1>11, <1>12, <1>13 DEF ExperimentSound

\* The store, and the capture program with its line and its rows.
CapturingSound == SInv /\ (program = "experiment" => SessionSound /\ ExperimentSound)

\* Any step of the host keeps the store sound, and a capture program.
LEMMA CaptureKept == CapturingSound /\ [HostNext]_hostVars => CapturingSound'
  <1> SUFFICES ASSUME CapturingSound, [HostNext]_hostVars PROVE CapturingSound'
    OBVIOUS
  <1>1. SInv /\ SInv'
    BY ProgramUsesStore, NextSound DEF CapturingSound
  <1> SUFFICES ASSUME program' = "experiment" PROVE SessionSound' /\ ExperimentSound'
    BY <1>1 DEF CapturingSound
  <1>2. program = "experiment"
    BY ProgramFixed
  <1>3. SessionSound /\ ExperimentSound
    BY <1>2 DEF CapturingSound
  <1>4. CASE UNCHANGED hostVars
    BY <1>4, <1>1, <1>2, <1>3, ExperimentUndisturbed DEF hostVars
  <1>5. CASE Experimented
    <2>1. CASE SkipsText /\ Stays
      BY <2>1, StoreUntouched, <1>1, <1>2, <1>3, ExperimentUndisturbed DEF Stays
    <2>2. CASE Prepare
      BY <1>1, <1>2, <1>3, <2>2, ExperimentConnects
    <2>3. CASE Fit
      BY <1>1, <1>2, <1>3, <2>3, ExperimentFitAsks, ExperimentFits DEF Fit
    <2>4. CASE Capture
      BY <1>1, <1>2, <1>3, <2>4, ExperimentLaunches, ExperimentReads, ExperimentRowFails,
         ExperimentStoresRow DEF Capture
    <2>5. CASE Keep
      BY <1>1, <1>2, <1>3, <2>5, ExperimentSaves, ExperimentReports DEF Keep
    <2>6. CASE DisconnectScope \/ Close
      BY <1>1, <1>2, <1>3, <2>6, ExperimentReports
    <2>7. QED
      BY <1>5, <2>1, <2>2, <2>3, <2>4, <2>5, <2>6 DEF Experimented, Experimenting
  <1>6. CASE ExperimentDisturbed
    BY <1>1, <1>2, <1>3, <1>6, ExperimentReports, ExperimentKilled DEF ExperimentDisturbed
  <1>7. CASE World
    BY <1>7, <1>1, <1>2, <1>3, ExperimentUndisturbed DEF World
  <1>8. QED
    BY <1>2, <1>4, <1>5, <1>6, <1>7
       DEF HostNext, StoreProgram, Operated, OperationDisturbed, SelfChecked,
           SelfCheckDisturbed, Acquired, AcquireDisturbed, Monitored, MonitorEnds

\* The rows and the report of a capture program, and those of a run.
LEMMA CaptureProves ==
  CapturingSound => /\ ValidRowsAreTheirOwn /\ TracesAreFresh /\ SamplesAreMeasured
                    /\ SampledOnTargetClock /\ StatusIsTrue
  BY DEF CapturingSound, ExperimentSound, ValidRowsAreTheirOwn, TracesAreFresh,
         SamplesAreMeasured, SampledOnTargetClock, StatusIsTrue, Captured, Experiments

\* The rows and the exit status of a run.
LEMMA RunProves == RunningSound => PassedRowsAreRight /\ RunStatusIsTrue
  BY DEF RunningSound, RunSound, PrintedTrue, PassedRowsAreRight, RunStatusIsTrue

\* What the other programs leave alone.
LEMMA HostLeaves ==
  ASSUME [HostNext]_hostVars
  PROVE  /\ program # "experiment" => UNCHANGED experimentVars
         /\ program # "run" => UNCHANGED operationVars
         /\ program # "selfcheck" => UNCHANGED checkVars
         /\ program # "acquire" => UNCHANGED adapterVars
         /\ program # "monitor" => UNCHANGED decoderVars
  BY DEF hostVars, StoreProgram, World, Experimented, ExperimentDisturbed, Operated,
         OperationDisturbed, SelfChecked, SelfCheckDisturbed, Monitored, MonitorEnds, Acquired,
         AcquireDisturbed, HostNext

\* The monitor at the port, and the store's user, who leaves it alone.
WatchingSound == program \in {"store", "monitor"} => SessionSound

\* Any step of the host keeps this.
LEMMA WatchKept == WatchingSound /\ [HostNext]_hostVars => WatchingSound'
  <1> SUFFICES ASSUME WatchingSound, [HostNext]_hostVars, program' \in {"store", "monitor"}
               PROVE  SessionSound'
    BY DEF WatchingSound
  <1>1. program \in {"store", "monitor"}
    BY ProgramFixed
  <1>2. SessionSound /\ HuskyTypeOK(Asks) /\ BoardTypeOK /\ status \in Statuses
    BY <1>1 DEF WatchingSound, SessionSound, Statuses
  <1>3. CASE UNCHANGED <<device, session>>
    BY <1>2, <1>3, SessionRests
  <1>4. CASE MonitorConnects
    BY <1>2, PortTaken, <1>1, HuskyTyped, EnablesTyped, HostMoves, <1>4
       DEF WaitPhases, Waits, MonitorConnects
  <1>5. CASE ShutDevice \/ ShutLock("over")
    BY <1>2, <1>5, PortLeft DEF WaitPhases
  <1>6. CASE StopsWatching
    BY <1>6, <1>1, <1>2, HuskyTyped, HostMoves
       DEF StopsWatching, boardVars, Waits, BoardTypeOK, Statuses
  <1>7. UNCHANGED hostVars \/ StoreProgram \/ Watches => UNCHANGED <<device, session>>
    BY DEF hostVars, StoreProgram, Watches, device
  <1>8. QED
    BY <1>1, <1>3, <1>4, <1>5, <1>6, <1>7
       DEF HostNext, Experimented, ExperimentDisturbed, Operated, OperationDisturbed,
           SelfChecked, SelfCheckDisturbed, Acquired, AcquireDisturbed, Monitored, Monitoring,
           MonitorEnds, World

\* The variables of the programs but the monitor, in every program.
ProgramsTyped ==
  /\ program \in {"store", "experiment", "run", "selfcheck", "monitor", "acquire"}
  /\ ExperimentTypeOK /\ OperationsTypeOK /\ SelfCheckTypeOK /\ AdapterTypeOK
  /\ program # "experiment" => rows = <<>>

\* Every program at each of its phases: the inductive invariant of the host.
HostSound ==
  CapturingSound /\ RunningSound /\ SelfCheckSound /\ CampaignSound /\ WatchingSound

\* The initial states.
LEMMA HostStarts == HostInit => HostSound /\ ProgramsTyped
  <1> SUFFICES ASSUME HostInit PROVE HostSound /\ ProgramsTyped
    OBVIOUS
  <1>1. SessionSound /\ SInv
    BY SessionStarts, InitSound DEF HostInit
  <1>2. HostSound
    BY <1>1, ExperimentStarts, RunStarts, CheckStarts, AcquireStarts
       DEF HostSound, CapturingSound, RunningSound, SelfCheckSound, CampaignSound, WatchingSound
  <1>3. program \in {"store", "experiment", "run", "selfcheck", "monitor", "acquire"}
    BY DEF HostInit
  <1>4. MaxAsks \in Nat /\ 0 \in 0 .. MaxAsks
    BY LinkBounds
  <1>5. ExperimentTypeOK /\ rows = <<>>
    BY ExperimentAssumption, ControllerBounds, EmptySeq, <1>4
       DEF HostInit, ExperimentInit, Init, ExperimentTypeOK
  <1>6. OperationsTypeOK
    BY OperationsAssumption, EmptySeq, <1>4, NoRowForms
       DEF HostInit, OperationsInit, OperationsTypeOK
  <1>7. SelfCheckTypeOK
    BY EmptySeq, <1>4 DEF HostInit, SelfCheckInit, SelfCheckTypeOK, MaxChecks
  <1>8. AdapterTypeOK
    BY AdapterAssumption, <1>4 DEF HostInit, AdapterInit, AdapterTypeOK
  <1>9. QED
    BY <1>2, <1>3, <1>5, <1>6, <1>7, <1>8 DEF ProgramsTyped

\* Any step of the host keeps every program sound.
LEMMA HostKept == HostSound /\ [HostNext]_hostVars => HostSound'
  BY CaptureKept, RunKept, SelfCheckKept, CampaignKept, WatchKept DEF HostSound

\* The table of the self-check is as long as the variables allow.
SweepTyped == program = "selfcheck" => SelfCheckTypeOK

\* The findings of a sweep are no more than its checks.
LEMMA SweepIsTyped == SelfCheckSound => SweepTyped
  <1> SUFFICES ASSUME SelfCheckSound, program = "selfcheck" PROVE SelfCheckTypeOK
    BY DEF SweepTyped
  <1>1. options \in Checkups /\ sweep \in Sweeps /\ Len(sweep.found) <= Len(Sweep)
    BY DEF SelfCheckSound, CheckSound, SweepInOrder
  <1>2. options.capture \in BOOLEAN
    BY <1>1, CheckAssumption
  <1>3. Len(Sweep) \in 13 .. 14
    BY <1>2, SweepForms
  <1>4. Len(sweep.found) \in Nat
    BY <1>1 DEF Sweeps
  <1>5. QED
    <2>0. \A k : k \in 13 .. 14 => k \in Nat /\ k <= 14
      OBVIOUS
    <2>1. Len(Sweep) \in Nat /\ Len(Sweep) <= 14
      BY <1>3, <2>0, Zenon
    <2> DEFINE n == Len(Sweep)
               m == Len(sweep.found)
    <2> HIDE DEF n, m
    <2>2. m \in Nat /\ n \in Nat /\ m <= n /\ n <= 14
      BY <1>1, <1>4, <2>1 DEF m, n
    <2>3. m <= MaxChecks
      BY <2>2 DEF MaxChecks
    <2>4. sweep \in [step : 1 .. 2, ask : 0 .. MaxAsks, read : 0 .. MaxAsks, found : Seq(Finding)]
      BY <1>1 DEF Sweeps
    <2>5. QED
      BY <1>1, <2>3, <2>4 DEF SelfCheckTypeOK, m

\* The same after a step.
LEMMA SweepTypedAfter == SelfCheckSound' => SweepTyped'
  BY SweepIsTyped, PTL

\* Any step of the host keeps the types.
LEMMA TypesKept ==
  HostSound /\ HostSound' /\ ProgramsTyped /\ [HostNext]_hostVars => ProgramsTyped'
  <1> SUFFICES ASSUME HostSound, HostSound', ProgramsTyped, [HostNext]_hostVars
               PROVE  ProgramsTyped'
    OBVIOUS
  <1>1. program' = program
    BY ProgramFixed
  <1>2. ExperimentTypeOK' /\ (program # "experiment" => rows' = <<>>)
    <2>1. CASE program = "experiment"
      BY <1>1, <2>1 DEF HostSound, CapturingSound, ExperimentSound
    <2>2. CASE program # "experiment"
      <3>1. UNCHANGED <<plan, row, rows>> /\ rows = <<>>
        BY <2>2, HostLeaves DEF experimentVars, ProgramsTyped
      <3>2. accepted' \in 0 .. MaxRows
        BY DEF HostSound, CapturingSound, SInv, TypeOK
      <3>3. Len(rows') = 0
        BY <3>1, EmptySeq
      <3>4. MaxRows \in Nat
        BY Bounds
      <3>5. QED
        BY <3>1, <3>2, <3>3, <3>4 DEF ProgramsTyped, ExperimentTypeOK
    <2>3. QED
      BY <2>1, <2>2
  <1>3. OperationsTypeOK'
    BY <1>1, HostLeaves
       DEF HostSound, RunningSound, RunSound, operationVars, ProgramsTyped, OperationsTypeOK
  <1>4. SelfCheckTypeOK'
    BY <1>1, SweepTypedAfter, HostLeaves
       DEF HostSound, SweepTyped, checkVars, ProgramsTyped, SelfCheckTypeOK
  <1>5. AdapterTypeOK'
    BY <1>1, HostLeaves
       DEF HostSound, CampaignSound, AcquireSound, Trials, AdapterTypeOK, adapterVars,
           ProgramsTyped
  <1>6. QED
    BY <1>1, <1>2, <1>3, <1>4, <1>5 DEF ProgramsTyped

-----------------------------------------------------------------------------
(* What the monitor shows: recursive definitions and induction over lists.  *)

\* Induction over lists, which grow at their end, with the set of those for which a fact holds.
LEMMA ListInduction ==
  ASSUME NEW S, NEW P, <<>> \in P,
         \A s \in Seq(S), e \in S : s \in P => Append(s, e) \in P
  PROVE  Seq(S) \subseteq P
  <1> DEFINE N == {n \in Nat : \A s \in Seq(S) : Len(s) = n => s \in P}
  <1>1. 0 \in N
    BY EmptySeq
  <1>2. ASSUME NEW n \in Nat, n \in N PROVE n + 1 \in N
    <2> SUFFICES ASSUME NEW s \in Seq(S), Len(s) = n + 1 PROVE s \in P
      OBVIOUS
    <2>1. s # <<>>
      BY EmptySeq
    <2>2. PICK t \in Seq(S), e \in S : s = Append(t, e)
      BY <2>1, SequenceEmptyOrAppend
    <2>3. Len(s) = Len(t) + 1 /\ Len(t) \in Nat
      BY <2>2, AppendProperties, LenProperties
    <2>4. Len(t) = n
      BY <2>3
    <2>5. QED
      BY <1>2, <2>2, <2>4
  <1> HIDE DEF N
  <1>3. Nat \subseteq N
    BY <1>1, <1>2, SetInduction
  <1>4. QED
    BY <1>3, LenProperties DEF N

\* A function that is defined from its value one step before exists.
Steps(f, base, m, step) == f[0] = base /\ \A n \in 1 .. m : f[n] = step[<<n, f[n - 1]>>]

\* There is one for any step.
LEMMA Recursion ==
  ASSUME NEW S, NEW base \in S, NEW m \in Nat, NEW step \in [(1 .. m) \X S -> S]
  PROVE  \E f \in [0 .. m -> S] : Steps(f, base, m, step)
  <1> DEFINE Goes(f, k) == f[0] = base /\ \A n \in 1 .. k : f[n] = step[<<n, f[n - 1]>>]
             N == {k \in Nat : k <= m => \E f \in [0 .. k -> S] : Goes(f, k)}
  <1>1. 0 \in N
    <2>1. [k \in 0 .. 0 |-> base] \in [0 .. 0 -> S] /\ [k \in 0 .. 0 |-> base][0] = base
      OBVIOUS
    <2>2. 1 .. 0 = {}
      OBVIOUS
    <2>3. Goes([k \in 0 .. 0 |-> base], 0)
      BY <2>1, <2>2
    <2>4. QED
      BY <2>1, <2>3
  <1>2. ASSUME NEW k \in Nat, k \in N PROVE k + 1 \in N
    <2> SUFFICES ASSUME k + 1 <= m PROVE \E f \in [0 .. k + 1 -> S] : Goes(f, k + 1)
      OBVIOUS
    <2>1. PICK f \in [0 .. k -> S] : Goes(f, k)
      BY <1>2
    <2> DEFINE next == step[<<k + 1, f[k]>>]
               g == [n \in 0 .. k + 1 |-> IF n = k + 1 THEN next ELSE f[n]]
    <2>2. next \in S
      OBVIOUS
    <2> HIDE DEF next
    <2>3. g \in [0 .. k + 1 -> S]
      BY <2>2
    <2>4. g[0] = base /\ g[k + 1] = next /\ \A n \in 0 .. k : g[n] = f[n]
      BY <2>1
    <2> HIDE DEF g
    <2>5. \A n \in 1 .. k + 1 : g[n] = step[<<n, g[n - 1]>>]
      <3> TAKE n \in 1 .. k + 1
      <3>1. CASE n = k + 1
        BY <2>4, <3>1 DEF next
      <3>2. CASE n # k + 1
        BY <3>2, <2>1, <2>4
      <3>3. QED
        BY <3>1, <3>2
    <2>6. QED
      BY <2>3, <2>4, <2>5
  <1>3. Nat \subseteq N
    <2> HIDE DEF N
    <2>1. QED
      BY <1>1, <1>2, SetInduction
  <1>4. QED
    BY <1>3 DEF Steps

\* What the flattening of a list is: the last of its partial concatenations.
LEMMA FlattenIs ==
  ASSUME NEW T, NEW s \in Seq(Seq(T)), NEW f \in [0 .. Len(s) -> Seq(T)],
         f[0] = <<>>, \A i \in 1 .. Len(s) : f[i] = f[i - 1] \o s[i]
  PROVE  FlattenSeq(s) = f[Len(s)]
  <1>0. Len(s) \in Nat /\ \A i \in 1 .. Len(s) : s[i] \in Seq(T)
    BY LenProperties, ElementOfSeq
  <1>1. CASE Len(s) = 0
    BY <1>1, EmptySeq DEF FlattenSeq
  <1>2. ASSUME Len(s) # 0 PROVE f[1] = s[1]
    <2>1. 1 \in 1 .. Len(s) /\ 1 - 1 = 0
      BY <1>0, <1>2
    <2>2. f[1] = f[1 - 1] \o s[1]
      BY <2>1, Zenon
    <2>3. f[1] = <<>> \o s[1] /\ s[1] \in Seq(T)
      BY <1>0, <2>1, <2>2
    <2>4. QED
      BY <2>3, ConcatEmptySeq
  <1>3. CASE Len(s) # 0
    <2> DEFINE Flat(h) == h = [i \in 1 .. Len(s) |-> IF i = 1 THEN s[i] ELSE h[i - 1] \o s[i]]
               g == [i \in 1 .. Len(s) |-> f[i]]
               h == CHOOSE h : Flat(h)
    <2>1. FlattenSeq(s) = h[Len(s)]
      BY <1>3 DEF FlattenSeq
    <2>2. Flat(g)
      <3>1. ASSUME NEW i \in 1 .. Len(s)
            PROVE  f[i] = IF i = 1 THEN s[i] ELSE g[i - 1] \o s[i]
        <4>1. CASE i = 1
          BY <1>2, <4>1
        <4>2. CASE i # 1
          <5>1. i - 1 \in 1 .. Len(s)
            BY <4>2, <1>0
          <5>2. QED
            BY <4>2, <5>1
        <4>3. QED
          BY <4>1, <4>2
      <3>2. QED
        BY <3>1
    <2>3. Flat(h)
      BY <2>2
    <2> HIDE DEF g, h
    <2>4. \A i \in 1 .. Len(s) : h[i] = IF i = 1 THEN s[i] ELSE h[i - 1] \o s[i]
      BY <2>3
    <2> HIDE DEF Flat
    <2> DEFINE N == {n \in Nat : n < Len(s) => h[n + 1] = f[n + 1]}
    <2>5. 0 \in N
      BY <1>0, <1>3, <2>4, <1>2
    <2>6. ASSUME NEW n \in Nat, n \in N PROVE n + 1 \in N
      <3> SUFFICES ASSUME n + 1 < Len(s) PROVE h[n + 2] = f[n + 2]
        OBVIOUS
      <3>1. n + 2 \in 1 .. Len(s) /\ n + 2 # 1 /\ (n + 2) - 1 = n + 1 /\ n < Len(s)
        BY <1>0
      <3>2. h[n + 2] = h[n + 1] \o s[n + 2]
        BY <2>4, <3>1
      <3>3. f[n + 2] = f[n + 1] \o s[n + 2]
        BY <3>1
      <3>4. QED
        BY <2>6, <3>1, <3>2, <3>3
    <2>7. Nat \subseteq N
      <3> HIDE DEF N
      <3>1. QED
        BY <2>5, <2>6, SetInduction
    <2>8. Len(s) - 1 \in Nat /\ Len(s) - 1 < Len(s) /\ (Len(s) - 1) + 1 = Len(s)
      BY <1>0, <1>3
    <2>9. h[Len(s)] = f[Len(s)]
      BY <2>7, <2>8
    <2>10. QED
      BY <2>1, <2>9
  <1>4. QED
    BY <1>1, <1>3

\* The partial concatenations of a list of lists.
LEMMA FlattenSteps ==
  ASSUME NEW T, NEW s \in Seq(Seq(T))
  PROVE  \E f \in [0 .. Len(s) -> Seq(T)] :
           /\ f[0] = <<>> /\ \A i \in 1 .. Len(s) : f[i] = f[i - 1] \o s[i]
           /\ FlattenSeq(s) = f[Len(s)]
  <1> DEFINE m == Len(s)
             step == [p \in (1 .. m) \X Seq(T) |-> p[2] \o s[p[1]]]
  <1>1. m \in Nat /\ \A i \in 1 .. m : s[i] \in Seq(T)
    BY LenProperties, ElementOfSeq
  <1>2. step \in [(1 .. m) \X Seq(T) -> Seq(T)]
    BY <1>1, ConcatProperties
  <1>3. \A n \in 1 .. m, t \in Seq(T) : step[<<n, t>>] = t \o s[n]
    OBVIOUS
  <1>4. <<>> \in Seq(T)
    BY EmptySeq
  <1> HIDE DEF step
  <1>5. PICK f \in [0 .. m -> Seq(T)] : Steps(f, <<>>, m, step)
    BY <1>1, <1>2, <1>4, Recursion
  <1>6. \A n \in 1 .. m : f[n] = f[n - 1] \o s[n]
    <2> TAKE n \in 1 .. m
    <2>1. n - 1 \in 0 .. m
      BY <1>1
    <2>2. f[n - 1] \in Seq(T)
      BY <1>5, <2>1
    <2>3. QED
      BY <1>3, <1>5, <2>2 DEF Steps
  <1>7. FlattenSeq(s) = f[Len(s)]
    BY <1>5, <1>6, FlattenIs DEF Steps
  <1>8. QED
    BY <1>5, <1>6, <1>7 DEF Steps

\* What is flattened has the elements of its parts.
LEMMA FlattenType ==
  ASSUME NEW T, NEW s \in Seq(Seq(T))
  PROVE  FlattenSeq(s) \in Seq(T)
  <1>1. Len(s) \in 0 .. Len(s)
    BY LenProperties
  <1>2. PICK f \in [0 .. Len(s) -> Seq(T)] : FlattenSeq(s) = f[Len(s)]
    BY FlattenSteps, Zenon
  <1>3. QED
    BY <1>1, <1>2

\* Nothing is flattened.
LEMMA FlattenNothing == FlattenSeq(<<>>) = <<>>
  BY EmptySeq DEF FlattenSeq

\* One more list.
LEMMA FlattenAppend ==
  ASSUME NEW T, NEW s \in Seq(Seq(T)), NEW x \in Seq(T)
  PROVE  FlattenSeq(Append(s, x)) = FlattenSeq(s) \o x
  <1> DEFINE m == Len(s)
             t == Append(s, x)
  <1>1. /\ t \in Seq(Seq(T)) /\ Len(t) = m + 1 /\ t[m + 1] = x
        /\ \A i \in 1 .. m : t[i] = s[i]
    BY AppendProperties
  <1>2. m \in Nat
    BY LenProperties
  <1> HIDE DEF m, t
  <1>3. PICK f \in [0 .. Len(t) -> Seq(T)] :
               /\ f[0] = <<>> /\ \A i \in 1 .. Len(t) : f[i] = f[i - 1] \o t[i]
               /\ FlattenSeq(t) = f[Len(t)]
    BY <1>1, FlattenSteps, Zenon
  <1> DEFINE g == [n \in 0 .. m |-> f[n]]
  <1>4. g \in [0 .. m -> Seq(T)] /\ g[0] = <<>> /\ g[m] = f[m]
    BY <1>1, <1>2, <1>3
  <1>5. \A i \in 1 .. m : g[i] = g[i - 1] \o s[i]
    <2> TAKE i \in 1 .. m
    <2>1. i \in 0 .. m /\ i - 1 \in 0 .. m /\ i \in 1 .. m + 1
      BY <1>2
    <2>2. f[i] = f[i - 1] \o t[i] /\ t[i] = s[i]
      BY <1>1, <1>3, <2>1
    <2>3. QED
      BY <2>1, <2>2
  <1> HIDE DEF g
  <1>6. FlattenSeq(s) = g[m]
    BY <1>4, <1>5, FlattenIs DEF m
  <1>7. m + 1 \in 1 .. m + 1 /\ (m + 1) - 1 = m
    BY <1>2
  <1>8. f[m + 1] = f[m] \o t[m + 1]
    BY <1>1, <1>3, <1>7
  <1>9. QED
    BY <1>1, <1>3, <1>4, <1>6, <1>8 DEF t

\* Two lists of lists, one after the other.
LEMMA FlattenConcat ==
  ASSUME NEW T, NEW s \in Seq(Seq(T)), NEW r \in Seq(Seq(T))
  PROVE  FlattenSeq(s \o r) = FlattenSeq(s) \o FlattenSeq(r)
  <1> DEFINE P == {t \in Seq(Seq(T)) : FlattenSeq(s \o t) = FlattenSeq(s) \o FlattenSeq(t)}
  <1>1. FlattenSeq(s) \in Seq(T)
    BY FlattenType
  <1>2. <<>> \in P
    BY <1>1, EmptySeq, ConcatEmptySeq, FlattenNothing
  <1>3. ASSUME NEW t \in Seq(Seq(T)), NEW x \in Seq(T), t \in P PROVE Append(t, x) \in P
    <2>1. Append(t, x) \in Seq(Seq(T)) /\ s \o t \in Seq(Seq(T)) /\ FlattenSeq(t) \in Seq(T)
      BY AppendProperties, ConcatProperties, FlattenType
    <2>2. s \o Append(t, x) = Append(s \o t, x)
      BY <2>1
    <2>3. FlattenSeq(Append(s \o t, x)) = FlattenSeq(s \o t) \o x
      BY <2>1, FlattenAppend
    <2>4. FlattenSeq(Append(t, x)) = FlattenSeq(t) \o x
      BY FlattenAppend
    <2>5. (FlattenSeq(s) \o FlattenSeq(t)) \o x = FlattenSeq(s) \o (FlattenSeq(t) \o x)
      BY <1>1, <2>1, ConcatAssociative
    <2>6. QED
      BY <1>3, <2>1, <2>2, <2>3, <2>4, <2>5
  <1>4. Seq(Seq(T)) \subseteq P
    <2> HIDE DEF P
    <2>1. QED
      BY <1>2, <1>3, ListInduction
  <1>5. QED
    BY <1>4

\* Two functions that start alike and go on alike.
GoAlike(f, h, m) ==
  f[0] = h[0] /\ \A n \in 1 .. m : f[n - 1] = h[n - 1] => f[n] = h[n]

LEMMA SameRecursion ==
  ASSUME NEW m \in Nat, NEW f, NEW h, GoAlike(f, h, m)
  PROVE  \A n \in 0 .. m : f[n] = h[n]
  <1> DEFINE N == {n \in Nat : n <= m => f[n] = h[n]}
  <1>1. 0 \in N
    BY DEF GoAlike
  <1>2. ASSUME NEW n \in Nat, n \in N PROVE n + 1 \in N
    BY <1>2 DEF GoAlike
  <1>3. Nat \subseteq N
    <2> HIDE DEF N
    <2>1. QED
      BY <1>1, <1>2, SetInduction
  <1>4. QED
    BY <1>3

\* A list that is gone through from its head: f holds what is known after each element.
Through(f, base, step, s) ==
  f[0] = base /\ \A n \in 1 .. Len(s) : f[n] = step[<<f[n - 1], s[n]>>]

\* There is one such function.
LEMMA ThroughExists ==
  ASSUME NEW S, NEW A, NEW base \in S, NEW step \in [S \X A -> S], NEW s \in Seq(A)
  PROVE  \E f \in [0 .. Len(s) -> S] : Through(f, base, step, s)
  <1> DEFINE m == Len(s)
             next == [p \in (1 .. m) \X S |-> step[<<p[2], s[p[1]]>>]]
  <1>1. m \in Nat /\ \A i \in 1 .. m : s[i] \in A
    BY LenProperties, ElementOfSeq
  <1>2. next \in [(1 .. m) \X S -> S]
    BY <1>1
  <1>3. \A n \in 1 .. m, t \in S : next[<<n, t>>] = step[<<t, s[n]>>]
    OBVIOUS
  <1> HIDE DEF next
  <1>4. PICK f \in [0 .. m -> S] : Steps(f, base, m, next)
    BY <1>1, <1>2, Recursion
  <1>5. \A n \in 1 .. m : f[n] = step[<<f[n - 1], s[n]>>]
    <2> TAKE n \in 1 .. m
    <2>1. n - 1 \in 0 .. m
      BY <1>1
    <2>2. f[n - 1] \in S
      BY <1>4, <2>1
    <2>3. QED
      BY <1>3, <1>4, <2>2 DEF Steps
  <1>6. QED
    BY <1>4, <1>5 DEF Steps, Through

\* One element more.
Onwards(g, f, step, s, x) == f[Len(Append(s, x))] = step[<<g[Len(s)], x>>]

\* What it knows of the longer list follows from what it knows of the list.
LEMMA ThroughAppend ==
  ASSUME NEW S, NEW A, NEW base \in S, NEW step \in [S \X A -> S], NEW s \in Seq(A), NEW x \in A,
         NEW f \in [0 .. Len(Append(s, x)) -> S], Through(f, base, step, Append(s, x))
  PROVE  \E g \in [0 .. Len(s) -> S] :
           Through(g, base, step, s) /\ Onwards(g, f, step, s, x)
  <1> DEFINE m == Len(s)
             t == Append(s, x)
  <1>1. /\ t \in Seq(A) /\ Len(t) = m + 1 /\ t[m + 1] = x
        /\ \A i \in 1 .. m : t[i] = s[i]
    BY AppendProperties
  <1>2. m \in Nat
    BY LenProperties
  <1>3. f \in [0 .. m + 1 -> S] /\ Through(f, base, step, t)
    BY <1>1
  <1> HIDE DEF m, t
  <1>4. f[0] = base /\ \A i \in 1 .. m + 1 : f[i] = step[<<f[i - 1], t[i]>>]
    BY <1>1, <1>3 DEF Through
  <1> DEFINE g == [n \in 0 .. m |-> f[n]]
  <1>5. g \in [0 .. m -> S] /\ g[0] = base /\ g[m] = f[m]
    BY <1>2, <1>3, <1>4
  <1>6. \A i \in 1 .. m : g[i] = step[<<g[i - 1], s[i]>>]
    <2> TAKE i \in 1 .. m
    <2>1. i \in 0 .. m /\ i - 1 \in 0 .. m /\ i \in 1 .. m + 1
      BY <1>2
    <2>2. f[i] = step[<<f[i - 1], t[i]>>] /\ t[i] = s[i]
      BY <1>1, <1>4, <2>1
    <2>3. QED
      BY <2>1, <2>2
  <1> HIDE DEF g
  <1>7. m + 1 \in 1 .. m + 1 /\ (m + 1) - 1 = m
    BY <1>2
  <1>8. f[m + 1] = step[<<f[m], t[m + 1]>>]
    BY <1>4, <1>7
  <1>9. f[m + 1] = step[<<g[m], x>>]
    BY <1>1, <1>5, <1>8
  <1>10. Through(g, base, step, s)
    BY <1>5, <1>6 DEF Through, m
  <1>11. f[Len(t)] = step[<<g[m], x>>]
    BY <1>1, <1>9
  <1>12. QED
    BY <1>5, <1>10, <1>11 DEF m, t, Onwards

\* The lines that are complete and what is left, and their types.
Uncut == [lines |-> <<>>, rest |-> <<>>]
Cuts == [lines : Seq(Seq(Bytes)), rest : Seq(Bytes)]

\* One byte more is cut off or kept.
LEMMA CutAtType == \A c \in Cuts, b \in Bytes : CutAt(c, b) \in Cuts
  BY EmptySeq, AppendProperties DEF Cuts, CutAt

\* Going through the bytes, to cut them into lines.
CutStep == [p \in Cuts \X Bytes |-> CutAt(p[1], p[2])]

\* The types of the start and of a step.
LEMMA CutUpSteps == Uncut \in Cuts /\ CutStep \in [Cuts \X Bytes -> Cuts]
  BY EmptySeq, CutAtType DEF Uncut, Cuts, CutStep

\* What any such function ends with is what CutUp says.
LEMMA CutUpIs ==
  ASSUME NEW s \in Seq(Bytes), NEW f \in [0 .. Len(s) -> Cuts], Through(f, Uncut, CutStep, s)
  PROVE  CutUp(s) = f[Len(s)]
  <1> DEFINE Goes(h) == h = [n \in 0 .. Len(s) |->
                              IF n = 0 THEN Uncut ELSE CutAt(h[n - 1], s[n])]
             h == CHOOSE h : Goes(h)
  <1>1. CutUp(s) = h[Len(s)]
    BY DEF CutUp, Uncut
  <1>2. Len(s) \in Nat /\ \A n \in 1 .. Len(s) : s[n] \in Bytes
    BY LenProperties, ElementOfSeq
  <1>3. \A n \in 1 .. Len(s) : f[n] = CutAt(f[n - 1], s[n])
    <2> TAKE n \in 1 .. Len(s)
    <2>1. n - 1 \in 0 .. Len(s)
      BY <1>2
    <2>2. f[n - 1] \in Cuts /\ s[n] \in Bytes
      BY <1>2, <2>1
    <2>3. f[n] = CutStep[<<f[n - 1], s[n]>>]
      BY DEF Through
    <2>4. QED
      BY <2>2, <2>3 DEF CutStep
  <1>4. Goes(f)
    <2>1. \A n \in 0 .. Len(s) :
            f[n] = IF n = 0 THEN Uncut ELSE CutAt(f[n - 1], s[n])
      <3> TAKE n \in 0 .. Len(s)
      <3>1. CASE n = 0
        BY <3>1 DEF Through
      <3>2. CASE n # 0
        BY <1>2, <3>2, <1>3
      <3>3. QED
        BY <3>1, <3>2
    <2>2. QED
      BY <2>1
  <1>5. Goes(h)
    BY <1>4
  <1> HIDE DEF h
  <1>6. h[0] = Uncut /\ \A n \in 1 .. Len(s) : h[n] = CutAt(h[n - 1], s[n])
    BY <1>2, <1>5
  <1> HIDE DEF Goes
  <1>7. GoAlike(f, h, Len(s))
    BY <1>3, <1>6 DEF Through, GoAlike
  <1>8. \A n \in 0 .. Len(s) : f[n] = h[n]
    BY <1>2, <1>7, SameRecursion
  <1>9. Len(s) \in 0 .. Len(s)
    BY <1>2
  <1>10. QED
    BY <1>1, <1>8, <1>9

\* The lines and the rest have their types.
LEMMA CutUpType ==
  ASSUME NEW s \in Seq(Bytes)
  PROVE  CutUp(s) \in Cuts
  <1>1. PICK f \in [0 .. Len(s) -> Cuts] : Through(f, Uncut, CutStep, s)
    BY CutUpSteps, ThroughExists
  <1>2. CutUp(s) = f[Len(s)]
    BY <1>1, CutUpIs
  <1>3. Len(s) \in 0 .. Len(s)
    BY LenProperties
  <1>4. QED
    BY <1>2, <1>3

\* No byte, no line.
LEMMA CutUpNothing == CutUp(<<>>) = Uncut
  <1>1. <<>> \in Seq(Bytes)
    BY EmptySeq
  <1>2. PICK f \in [0 .. Len(<<>>) -> Cuts] : Through(f, Uncut, CutStep, <<>>)
    BY <1>1, CutUpSteps, ThroughExists
  <1>3. CutUp(<<>>) = f[Len(<<>>)]
    BY <1>1, <1>2, CutUpIs
  <1>4. Len(<<>>) = 0
    BY EmptySeq
  <1>5. QED
    BY <1>2, <1>3, <1>4 DEF Through

\* One byte more.
LEMMA CutUpAppend ==
  ASSUME NEW s \in Seq(Bytes), NEW x \in Bytes
  PROVE  CutUp(Append(s, x)) = CutAt(CutUp(s), x)
  <1>1. Append(s, x) \in Seq(Bytes)
    BY AppendProperties
  <1>2. PICK f \in [0 .. Len(Append(s, x)) -> Cuts] : Through(f, Uncut, CutStep, Append(s, x))
    BY <1>1, CutUpSteps, ThroughExists
  <1>3. CutUp(Append(s, x)) = f[Len(Append(s, x))]
    BY <1>1, <1>2, CutUpIs
  <1>4. PICK g \in [0 .. Len(s) -> Cuts] :
               Through(g, Uncut, CutStep, s) /\ Onwards(g, f, CutStep, s, x)
    BY <1>2, CutUpSteps, ThroughAppend
  <1>5. CutUp(s) = g[Len(s)] /\ CutUp(s) \in Cuts
    BY <1>4, CutUpIs, CutUpType
  <1>6. CutStep[<<CutUp(s), x>>] = CutAt(CutUp(s), x)
    BY <1>5 DEF CutStep
  <1>7. QED
    BY <1>3, <1>4, <1>5, <1>6 DEF Onwards

\* A text that is read: the bytes so far, and whether an escape has begun.
Marks == Bytes \cup Characters
Readings == [escape : {"no", "yes", "hex"}, bytes : Seq(Marks)]

\* One character more is read.
LEMMA ReadOffType == \A r \in Readings, c \in Characters : ReadOff(c, r) \in Readings
  BY AppendProperties DEF Readings, Marks, Bytes, ReadOff

\* Going through the characters of a text, to read the bytes off them.
ReadStep == [p \in Readings \X Characters |-> ReadOff(p[2], p[1])]

\* The types of the start and of a step.
LEMMA ReadUpSteps == Unread \in Readings /\ ReadStep \in [Readings \X Characters -> Readings]
  BY EmptySeq, ReadOffType DEF Unread, Readings, ReadStep

\* What any such function ends with is what ReadUp says.
LEMMA ReadUpIs ==
  ASSUME NEW s \in Seq(Characters), NEW f \in [0 .. Len(s) -> Readings],
         Through(f, Unread, ReadStep, s)
  PROVE  ReadUp(s) = f[Len(s)]
  <1> DEFINE Goes(h) == h = [n \in 0 .. Len(s) |->
                              IF n = 0 THEN Unread ELSE ReadOff(s[n], h[n - 1])]
             h == CHOOSE h : Goes(h)
  <1>1. ReadUp(s) = h[Len(s)]
    BY DEF ReadUp
  <1>2. Len(s) \in Nat /\ \A n \in 1 .. Len(s) : s[n] \in Characters
    BY LenProperties, ElementOfSeq
  <1>3. \A n \in 1 .. Len(s) : f[n] = ReadOff(s[n], f[n - 1])
    <2> TAKE n \in 1 .. Len(s)
    <2>1. n - 1 \in 0 .. Len(s)
      BY <1>2
    <2>2. f[n - 1] \in Readings /\ s[n] \in Characters
      BY <1>2, <2>1
    <2>3. f[n] = ReadStep[<<f[n - 1], s[n]>>]
      BY DEF Through
    <2>4. QED
      BY <2>2, <2>3 DEF ReadStep
  <1>4. Goes(f)
    <2>1. \A n \in 0 .. Len(s) :
            f[n] = IF n = 0 THEN Unread ELSE ReadOff(s[n], f[n - 1])
      <3> TAKE n \in 0 .. Len(s)
      <3>1. CASE n = 0
        BY <3>1 DEF Through
      <3>2. CASE n # 0
        BY <1>2, <3>2, <1>3
      <3>3. QED
        BY <3>1, <3>2
    <2>2. QED
      BY <2>1
  <1>5. Goes(h)
    BY <1>4
  <1> HIDE DEF h
  <1>6. h[0] = Unread /\ \A n \in 1 .. Len(s) : h[n] = ReadOff(s[n], h[n - 1])
    BY <1>2, <1>5
  <1> HIDE DEF Goes
  <1>7. GoAlike(f, h, Len(s))
    BY <1>3, <1>6 DEF Through, GoAlike
  <1>8. \A n \in 0 .. Len(s) : f[n] = h[n]
    BY <1>2, <1>7, SameRecursion
  <1>9. Len(s) \in 0 .. Len(s)
    BY <1>2
  <1>10. QED
    BY <1>1, <1>8, <1>9

\* What is read has its type.
LEMMA ReadUpType ==
  ASSUME NEW s \in Seq(Characters)
  PROVE  ReadUp(s) \in Readings
  <1>1. PICK f \in [0 .. Len(s) -> Readings] : Through(f, Unread, ReadStep, s)
    BY ReadUpSteps, ThroughExists
  <1>2. ReadUp(s) = f[Len(s)]
    BY <1>1, ReadUpIs
  <1>3. Len(s) \in 0 .. Len(s)
    BY LenProperties
  <1>4. QED
    BY <1>2, <1>3

\* No character, no byte.
LEMMA ReadUpNothing == ReadUp(<<>>) = Unread
  <1>1. <<>> \in Seq(Characters)
    BY EmptySeq
  <1>2. PICK f \in [0 .. Len(<<>>) -> Readings] : Through(f, Unread, ReadStep, <<>>)
    BY <1>1, ReadUpSteps, ThroughExists
  <1>3. ReadUp(<<>>) = f[Len(<<>>)]
    BY <1>1, <1>2, ReadUpIs
  <1>4. Len(<<>>) = 0
    BY EmptySeq
  <1>5. QED
    BY <1>2, <1>3, <1>4 DEF Through

\* One character more.
LEMMA ReadUpAppend ==
  ASSUME NEW s \in Seq(Characters), NEW x \in Characters
  PROVE  ReadUp(Append(s, x)) = ReadOff(x, ReadUp(s))
  <1>1. Append(s, x) \in Seq(Characters)
    BY AppendProperties
  <1>2. PICK f \in [0 .. Len(Append(s, x)) -> Readings] : Through(f, Unread, ReadStep, Append(s, x))
    BY <1>1, ReadUpSteps, ThroughExists
  <1>3. ReadUp(Append(s, x)) = f[Len(Append(s, x))]
    BY <1>1, <1>2, ReadUpIs
  <1>4. PICK g \in [0 .. Len(s) -> Readings] :
               Through(g, Unread, ReadStep, s) /\ Onwards(g, f, ReadStep, s, x)
    BY <1>2, ReadUpSteps, ThroughAppend
  <1>5. ReadUp(s) = g[Len(s)] /\ ReadUp(s) \in Readings
    BY <1>4, ReadUpIs, ReadUpType
  <1>6. ReadStep[<<ReadUp(s), x>>] = ReadOff(x, ReadUp(s))
    BY <1>5 DEF ReadStep
  <1>7. QED
    BY <1>3, <1>4, <1>5, <1>6 DEF Onwards

\* Two and three elements at the end of a list.
LEMMA EndsWithTwo ==
  ASSUME NEW T, NEW s \in Seq(T), NEW a \in T, NEW b \in T
  PROVE  s \o <<a, b>> = Append(Append(s, a), b)
  OBVIOUS

\* The same for three.
LEMMA EndsWithThree ==
  ASSUME NEW T, NEW s \in Seq(T), NEW a \in T, NEW b \in T, NEW c \in T
  PROVE  s \o <<a, b, c>> = Append(Append(Append(s, a), b), c)
  OBVIOUS

\* The text of a byte.
LEMMA ShownForms ==
  ASSUME NEW b \in Bytes
  PROVE  \/ b = "r" /\ Shown(b) = <<"r">>
         \/ b = "newline" /\ Shown(b) = <<"\\", "n">>
         \/ b = "return" /\ Shown(b) = <<"\\", "r">>
         \/ b = "backslash" /\ Shown(b) = <<"\\", "\\">>
         \/ b = "A5" /\ Shown(b) = <<"\\", "x", "A5">>
  BY DEF Bytes, Shown

\* The text of a byte is made of characters.
LEMMA ShownType == \A b \in Bytes : Shown(b) \in Seq(Characters)
  <1> SUFFICES ASSUME NEW b \in Bytes PROVE Shown(b) \in Seq(Characters)
    OBVIOUS
  <1>1. \A c, d, e \in Characters :
          <<c>> \in Seq(Characters) /\ <<c, d>> \in Seq(Characters)
          /\ <<c, d, e>> \in Seq(Characters)
    OBVIOUS
  <1>2. "\\" \in Characters /\ "n" \in Characters /\ "r" \in Characters /\ "x" \in Characters
        /\ "A5" \in Characters
    BY DEF Characters
  <1>3. QED
    BY <1>1, <1>2, ShownForms

\* The text of a byte is read as this byte.
LEMMA ReadShown ==
  ASSUME NEW s \in Seq(Characters), NEW b \in Bytes, ReadUp(s).escape = "no"
  PROVE  ReadUp(s \o Shown(b)) = [escape |-> "no", bytes |-> Append(ReadUp(s).bytes, b)]
  <1> DEFINE r == ReadUp(s)
  <1>1. r \in Readings /\ r.escape = "no" /\ r = [escape |-> "no", bytes |-> r.bytes]
    BY ReadUpType DEF Readings
  <1>2. "\\" \in Characters /\ "n" \in Characters /\ "r" \in Characters /\ "x" \in Characters
        /\ "A5" \in Characters
    BY DEF Characters
  <1>3. \A c \in Characters : ReadUp(Append(s, c)) = ReadOff(c, r)
    BY ReadUpAppend
  <1>4. Append(s, "\\") \in Seq(Characters) /\ Append(Append(s, "\\"), "x") \in Seq(Characters)
    BY <1>2, AppendProperties
  <1>5. \A c \in Characters :
          ReadUp(Append(Append(s, "\\"), c)) = ReadOff(c, ReadOff("\\", r))
    BY <1>2, <1>3, <1>4, ReadUpAppend
  <1> HIDE DEF r
  <1>6. ReadOff("\\", r) = [escape |-> "yes", bytes |-> r.bytes]
    BY <1>1 DEF ReadOff
  <1>7. CASE b = "r"
    <2>1. s \o Shown(b) = Append(s, "r")
      BY <1>2, <1>7, ShownForms, AppendIsConcat
    <2>2. ReadOff("r", r) = [escape |-> "no", bytes |-> Append(r.bytes, "r")]
      BY <1>1 DEF ReadOff
    <2>3. QED
      BY <1>2, <1>3, <1>7, <2>1, <2>2 DEF r
  <1>8. ASSUME NEW c \in {"n", "r", "\\"}, Shown(b) = <<"\\", c>>,
               \/ c = "n" /\ b = "newline"
               \/ c = "r" /\ b = "return"
               \/ c = "\\" /\ b = "backslash"
        PROVE  ReadUp(s \o Shown(b)) = [escape |-> "no", bytes |-> Append(r.bytes, b)]
    <2>1. c \in Characters
      BY <1>2, <1>8
    <2>2. s \o Shown(b) = Append(Append(s, "\\"), c)
      BY <1>2, <1>8, <2>1, EndsWithTwo
    <2>3. ReadOff(c, [escape |-> "yes", bytes |-> r.bytes])
            = [escape |-> "no", bytes |-> Append(r.bytes, b)]
      BY <1>8 DEF ReadOff
    <2>4. QED
      BY <1>5, <1>6, <2>1, <2>2, <2>3
  <1>9. CASE b = "A5"
    <2> DEFINE three == <<"\\", "x", "A5">>
    <2>6. Shown(b) = three
      BY <1>9, ShownForms
    <2>7. s \o three = Append(Append(Append(s, "\\"), "x"), "A5")
      BY <1>2, EndsWithThree
    <2> HIDE DEF three
    <2>1. s \o Shown(b) = Append(Append(Append(s, "\\"), "x"), "A5")
      BY <2>6, <2>7
    <2>2. ReadUp(Append(Append(s, "\\"), "x")) = [escape |-> "hex", bytes |-> r.bytes]
      BY <1>2, <1>5, <1>6 DEF ReadOff
    <2>3. ReadUp(Append(Append(Append(s, "\\"), "x"), "A5"))
            = ReadOff("A5", [escape |-> "hex", bytes |-> r.bytes])
      BY <1>2, <1>4, <2>2, ReadUpAppend
    <2>4. ReadOff("A5", [escape |-> "hex", bytes |-> r.bytes])
            = [escape |-> "no", bytes |-> Append(r.bytes, "A5")]
      BY DEF ReadOff
    <2>5. QED
      BY <1>9, <2>1, <2>3, <2>4 DEF r
  <1>10. QED
    BY <1>7, <1>8, <1>9, ShownForms DEF r

\* A list, element by element, when one is added.
LEMMA MapAppend ==
  ASSUME NEW A, NEW s \in Seq(A), NEW x \in A, NEW op
  PROVE  [k \in DOMAIN Append(s, x) |-> op[Append(s, x)[k]]]
           = Append([k \in DOMAIN s |-> op[s[k]]], op[x])
  <1> DEFINE t == Append(s, x)
             l == [k \in DOMAIN t |-> op[t[k]]]
             r == [k \in DOMAIN s |-> op[s[k]]]
             u == Append(r, op[x])
  <1>1. /\ DOMAIN s = 1 .. Len(s) /\ Len(s) \in Nat
        /\ DOMAIN t = 1 .. Len(s) + 1 /\ t[Len(s) + 1] = x
        /\ \A k \in 1 .. Len(s) : t[k] = s[k]
    BY AppendProperties, LenProperties
  <1>2. r \in Seq({op[s[k]] : k \in DOMAIN s} \cup {op[x]}) /\ Len(r) = Len(s)
    BY <1>1
  <1>3. /\ DOMAIN u = 1 .. Len(s) + 1 /\ u[Len(s) + 1] = op[x]
        /\ \A k \in 1 .. Len(s) : u[k] = r[k]
    BY <1>1, <1>2, AppendProperties, LenProperties
  <1>4. u = [k \in DOMAIN u |-> u[k]]
    BY <1>2, AppendProperties, LenProperties
  <1>5. \A k \in 1 .. Len(s) + 1 : l[k] = u[k]
    <2> TAKE k \in 1 .. Len(s) + 1
    <2>1. CASE k = Len(s) + 1
      BY <1>1, <1>3, <2>1
    <2>2. CASE k # Len(s) + 1
      BY <1>1, <2>2, <1>3
    <2>3. QED
      BY <2>1, <2>2
  <1>6. QED
    BY <1>1, <1>3, <1>4, <1>5

\* The text of one byte more.
LEMMA TextAppend ==
  ASSUME NEW s \in Seq(Bytes), NEW b \in Bytes, SafeText(s) \in Seq(Characters)
  PROVE  SafeText(Append(s, b)) = SafeText(s) \o Shown(b)
  <1> DEFINE op == [c \in Bytes |-> Shown(c)]
             t == Append(s, b)
             parts == [k \in DOMAIN s |-> op[s[k]]]
  <1>1. /\ t \in Seq(Bytes)
        /\ \A k \in DOMAIN s : s[k] \in Bytes
        /\ \A k \in DOMAIN t : t[k] \in Bytes
    BY AppendProperties, LenProperties, ElementOfSeq
  <1>2. [k \in DOMAIN t |-> op[t[k]]] = Append(parts, op[b])
    <2> HIDE DEF op
    <2>1. QED
      BY MapAppend
  <1>3. /\ [k \in DOMAIN s |-> Shown(s[k])] = parts
        /\ [k \in DOMAIN t |-> Shown(t[k])] = [k \in DOMAIN t |-> op[t[k]]]
    BY <1>1
  <1>4. op[b] = Shown(b) /\ Shown(b) \in Seq(Characters)
    BY ShownType
  <1>5. parts \in Seq(Seq(Characters))
    <2>1. DOMAIN s = 1 .. Len(s) /\ Len(s) \in Nat
      BY LenProperties
    <2>2. \A k \in DOMAIN s : op[s[k]] \in Seq(Characters)
      BY <1>1, ShownType
    <2> HIDE DEF op
    <2>3. QED
      BY <2>1, <2>2
  <1>6. SafeText(t) = FlattenSeq(Append(parts, Shown(b))) /\ SafeText(s) = FlattenSeq(parts)
    <2> HIDE DEF op, t, parts
    <2>1. QED
      BY <1>2, <1>3, <1>4 DEF SafeText
  <1> HIDE DEF parts
  <1>7. FlattenSeq(Append(parts, Shown(b))) = FlattenSeq(parts) \o Shown(b)
    BY <1>4, <1>5, FlattenAppend
  <1>8. QED
    BY <1>6, <1>7

\* No byte is lost: the text of any bytes is read as these bytes.
LEMMA TextReads ==
  ASSUME NEW bytes \in Seq(Bytes)
  PROVE  SafeText(bytes) \in Seq(Characters) /\ BytesOf(SafeText(bytes)) = bytes
  <1> DEFINE P == {s \in Seq(Bytes) :
                     /\ SafeText(s) \in Seq(Characters)
                     /\ ReadUp(SafeText(s)) = [escape |-> "no", bytes |-> s]}
  <1>1. <<>> \in P
    <2>1. [k \in DOMAIN <<>> |-> Shown(<<>>[k])] = <<>>
      OBVIOUS
    <2>2. SafeText(<<>>) = <<>>
      BY <2>1, FlattenNothing DEF SafeText
    <2>3. <<>> \in Seq(Bytes) /\ <<>> \in Seq(Characters)
      BY EmptySeq
    <2>4. QED
      BY <2>2, <2>3, ReadUpNothing DEF Unread
  <1>2. ASSUME NEW s \in Seq(Bytes), NEW b \in Bytes, s \in P PROVE Append(s, b) \in P
    <2>1. Append(s, b) \in Seq(Bytes)
      BY AppendProperties
    <2>2. SafeText(Append(s, b)) = SafeText(s) \o Shown(b)
      BY <1>2, TextAppend
    <2>3. SafeText(s) \o Shown(b) \in Seq(Characters)
      BY <1>2, ShownType, ConcatProperties
    <2>4. ReadUp(SafeText(s) \o Shown(b)) = [escape |-> "no", bytes |-> Append(s, b)]
      BY <1>2, ReadShown
    <2>5. QED
      BY <2>1, <2>2, <2>3, <2>4
  <1>3. Seq(Bytes) \subseteq P
    <2> HIDE DEF P
    <2>1. QED
      BY <1>1, <1>2, ListInduction
  <1>4. QED
    BY <1>3 DEF BytesOf

\* Bytes without the newlines among them, as NothingLost has them.
Kept(byte) == IF byte = "newline" THEN <<>> ELSE <<byte>>
Stripped(bytes) ==
  FlattenSeq([k \in DOMAIN bytes |-> IF bytes[k] = "newline" THEN <<>> ELSE <<bytes[k]>>])

\* At most one byte.
LEMMA KeptType == \A b \in Bytes : Kept(b) \in Seq(Bytes)
  BY EmptySeq DEF Kept

\* The parts of it.
LEMMA StrippedParts ==
  ASSUME NEW s \in Seq(Bytes)
  PROVE  [k \in DOMAIN s |-> IF s[k] = "newline" THEN <<>> ELSE <<s[k]>>] \in Seq(Seq(Bytes))
  <1> DEFINE part(k) == IF s[k] = "newline" THEN <<>> ELSE <<s[k]>>
  <1>1. DOMAIN s = 1 .. Len(s) /\ Len(s) \in Nat /\ \A k \in 1 .. Len(s) : s[k] \in Bytes
    BY LenProperties, ElementOfSeq
  <1>2. \A k \in 1 .. Len(s) : part(k) \in Seq(Bytes)
    BY <1>1, EmptySeq
  <1> HIDE DEF part
  <1>3. [k \in DOMAIN s |-> part(k)] \in Seq(Seq(Bytes))
    BY <1>1, <1>2
  <1>4. QED
    BY <1>3 DEF part

\* Bytes again.
LEMMA StrippedType == \A s \in Seq(Bytes) : Stripped(s) \in Seq(Bytes)
  BY StrippedParts, FlattenType DEF Stripped

\* Of no byte, nothing.
LEMMA StrippedNothing == Stripped(<<>>) = <<>>
  BY FlattenNothing DEF Stripped

\* One byte more.
LEMMA StrippedAppend ==
  ASSUME NEW s \in Seq(Bytes), NEW b \in Bytes
  PROVE  Stripped(Append(s, b)) = Stripped(s) \o Kept(b)
  <1> DEFINE op == [c \in Bytes |-> IF c = "newline" THEN <<>> ELSE <<c>>]
             t == Append(s, b)
             parts == [k \in DOMAIN s |-> op[s[k]]]
             of(u) == [k \in DOMAIN u |-> IF u[k] = "newline" THEN <<>> ELSE <<u[k]>>]
  <1>1. /\ t \in Seq(Bytes)
        /\ \A k \in DOMAIN s : s[k] \in Bytes
        /\ \A k \in DOMAIN t : t[k] \in Bytes
    BY AppendProperties, LenProperties, ElementOfSeq
  <1>2. [k \in DOMAIN t |-> op[t[k]]] = Append(parts, op[b])
    <2> HIDE DEF op
    <2>1. QED
      BY MapAppend
  <1>3. of(s) = parts /\ of(t) = [k \in DOMAIN t |-> op[t[k]]]
    BY <1>1
  <1>4. op[b] = Kept(b) /\ Kept(b) \in Seq(Bytes)
    BY KeptType DEF Kept
  <1>5. of(s) \in Seq(Seq(Bytes))
    BY StrippedParts
  <1>6. Stripped(t) = FlattenSeq(of(t)) /\ Stripped(s) = FlattenSeq(of(s))
    BY DEF Stripped
  <1> HIDE DEF op, t, parts, of
  <1>7. of(t) = Append(of(s), Kept(b))
    BY <1>2, <1>3, <1>4
  <1>8. FlattenSeq(Append(of(s), Kept(b))) = FlattenSeq(of(s)) \o Kept(b)
    BY <1>4, <1>5, FlattenAppend
  <1>9. QED
    BY <1>6, <1>7, <1>8 DEF t

\* Two pieces of the stream.
LEMMA StrippedConcat ==
  ASSUME NEW s \in Seq(Bytes), NEW data \in Seq(Bytes)
  PROVE  Stripped(s \o data) = Stripped(s) \o Stripped(data)
  <1> DEFINE P == {t \in Seq(Bytes) : Stripped(s \o t) = Stripped(s) \o Stripped(t)}
  <1>1. <<>> \in P
    BY StrippedType, EmptySeq, ConcatEmptySeq, StrippedNothing
  <1>2. ASSUME NEW t \in Seq(Bytes), NEW b \in Bytes, t \in P PROVE Append(t, b) \in P
    <2>1. Append(t, b) \in Seq(Bytes) /\ s \o t \in Seq(Bytes)
      BY AppendProperties, ConcatProperties
    <2>2. s \o Append(t, b) = Append(s \o t, b)
      BY <2>1
    <2>3. Stripped(Append(s \o t, b)) = Stripped(s \o t) \o Kept(b)
      BY <2>1, StrippedAppend
    <2>4. Stripped(Append(t, b)) = Stripped(t) \o Kept(b)
      BY StrippedAppend
    <2>5. /\ Stripped(s) \in Seq(Bytes) /\ Stripped(t) \in Seq(Bytes) /\ Kept(b) \in Seq(Bytes)
      BY StrippedType, KeptType
    <2>6. (Stripped(s) \o Stripped(t)) \o Kept(b) = Stripped(s) \o (Stripped(t) \o Kept(b))
      BY <2>5, ConcatAssociative
    <2>7. QED
      BY <1>2, <2>1, <2>2, <2>3, <2>4, <2>6
  <1>3. Seq(Bytes) \subseteq P
    <2> HIDE DEF P
    <2>1. QED
      BY <1>1, <1>2, ListInduction
  <1>4. QED
    BY <1>3

\* Without a newline among them the bytes stay as they are.
LEMMA StrippedStays ==
  ASSUME NEW bytes \in Seq(Bytes), \A k \in DOMAIN bytes : bytes[k] # "newline"
  PROVE  Stripped(bytes) = bytes
  <1> DEFINE P == {s \in Seq(Bytes) :
                     (\A k \in DOMAIN s : s[k] # "newline") => Stripped(s) = s}
  <1>1. <<>> \in P
    BY EmptySeq, StrippedNothing
  <1>2. ASSUME NEW s \in Seq(Bytes), NEW b \in Bytes, s \in P PROVE Append(s, b) \in P
    <2>1. Append(s, b) \in Seq(Bytes)
      BY AppendProperties
    <2> SUFFICES ASSUME \A k \in DOMAIN Append(s, b) : Append(s, b)[k] # "newline"
                 PROVE  Stripped(Append(s, b)) = Append(s, b)
      BY <2>1
    <2>2. /\ DOMAIN s = 1 .. Len(s) /\ DOMAIN Append(s, b) = 1 .. Len(s) + 1 /\ Len(s) \in Nat
          /\ Append(s, b)[Len(s) + 1] = b /\ \A k \in 1 .. Len(s) : Append(s, b)[k] = s[k]
      BY <2>1, AppendProperties, LenProperties
    <2>3. b # "newline" /\ \A k \in DOMAIN s : s[k] # "newline"
      BY <2>2
    <2>4. Stripped(Append(s, b)) = s \o <<b>>
      BY <1>2, <2>3, StrippedAppend DEF Kept
    <2>5. QED
      BY <2>4, AppendIsConcat
  <1>3. Seq(Bytes) \subseteq P
    <2> HIDE DEF P
    <2>1. QED
      BY <1>1, <1>2, ListInduction
  <1>4. QED
    BY <1>3

\* The lines and what is left are the bytes without their newlines; none is left over.
LEMMA CutKeeps ==
  ASSUME NEW bytes \in Seq(Bytes)
  PROVE  /\ FlattenSeq(CutUp(bytes).lines) \o CutUp(bytes).rest = Stripped(bytes)
         /\ \A k \in DOMAIN CutUp(bytes).rest : CutUp(bytes).rest[k] # "newline"
  <1> DEFINE Good(c, s) == /\ FlattenSeq(c.lines) \o c.rest = Stripped(s)
                           /\ \A k \in DOMAIN c.rest : c.rest[k] # "newline"
             P == {s \in Seq(Bytes) : Good(CutUp(s), s)}
  <1>1. <<>> \in P
    <2>1. CutUp(<<>>).lines = <<>> /\ CutUp(<<>>).rest = <<>>
      BY CutUpNothing DEF Uncut
    <2>2. <<>> \in Seq(Bytes) /\ <<>> \o <<>> = <<>>
      BY EmptySeq, ConcatEmptySeq
    <2>3. \A k \in DOMAIN <<>> : <<>>[k] # "newline"
      OBVIOUS
    <2>4. QED
      BY <2>1, <2>2, <2>3, FlattenNothing, StrippedNothing
  <1>2. ASSUME NEW s \in Seq(Bytes), NEW b \in Bytes, s \in P PROVE Append(s, b) \in P
    <2> DEFINE c == CutUp(s)
               lines == c.lines
               rest == c.rest
    <2>1. Append(s, b) \in Seq(Bytes)
      BY AppendProperties
    <2>2. lines \in Seq(Seq(Bytes)) /\ rest \in Seq(Bytes)
      BY CutUpType DEF Cuts
    <2>3. FlattenSeq(lines) \in Seq(Bytes) /\ Stripped(s) \in Seq(Bytes)
      BY <2>2, FlattenType, StrippedType
    <2>4. FlattenSeq(lines) \o rest = Stripped(s) /\ \A k \in DOMAIN rest : rest[k] # "newline"
      BY <1>2
    <2>5. CutUp(Append(s, b)) = CutAt(c, b)
      BY CutUpAppend
    <2>6. Stripped(Append(s, b)) = Stripped(s) \o Kept(b)
      BY StrippedAppend
    <2> HIDE DEF c, lines, rest
    <2>7. CutAt(c, b) = IF b = "newline" THEN [lines |-> Append(lines, rest), rest |-> <<>>]
                        ELSE [lines |-> lines, rest |-> Append(rest, b)]
      BY DEF CutAt, lines, rest
    <2>8. CASE b = "newline"
      <3>1. FlattenSeq(Append(lines, rest)) = Stripped(s)
        BY <2>2, <2>4, FlattenAppend
      <3>2. Stripped(s) \o <<>> = Stripped(s)
        BY <2>3, ConcatEmptySeq
      <3>3. CutAt(c, b).lines = Append(lines, rest) /\ CutAt(c, b).rest = <<>>
        BY <2>7, <2>8
      <3>4. Kept(b) = <<>>
        BY <2>8 DEF Kept
      <3>5. \A k \in DOMAIN <<>> : <<>>[k] # "newline"
        OBVIOUS
      <3>6. Good(CutUp(Append(s, b)), Append(s, b))
        BY <2>5, <2>6, <3>1, <3>2, <3>3, <3>4, <3>5
      <3>7. QED
        BY <2>1, <3>6
    <2>9. CASE b # "newline"
      <3>1. CutAt(c, b).lines = lines /\ CutAt(c, b).rest = Append(rest, b) /\ Kept(b) = <<b>>
        BY <2>7, <2>9 DEF Kept
      <3>2. /\ DOMAIN rest = 1 .. Len(rest) /\ DOMAIN Append(rest, b) = 1 .. Len(rest) + 1
            /\ Len(rest) \in Nat /\ Append(rest, b)[Len(rest) + 1] = b
            /\ \A k \in 1 .. Len(rest) : Append(rest, b)[k] = rest[k]
        BY <2>2, AppendProperties, LenProperties
      <3>3. \A k \in DOMAIN Append(rest, b) : Append(rest, b)[k] # "newline"
        BY <2>4, <2>9, <3>2
      <3>4. Append(rest, b) = rest \o <<b>> /\ <<b>> \in Seq(Bytes)
        BY <2>2, AppendIsConcat
      <3>5. FlattenSeq(lines) \o (rest \o <<b>>) = (FlattenSeq(lines) \o rest) \o <<b>>
        BY <2>2, <2>3, <3>4, ConcatAssociative
      <3>6. Good(CutUp(Append(s, b)), Append(s, b))
        BY <2>4, <2>5, <2>6, <3>1, <3>3, <3>4, <3>5
      <3>7. QED
        BY <2>1, <3>6
    <2>10. QED
      BY <2>8, <2>9
  <1>3. Seq(Bytes) \subseteq P
    <2> HIDE DEF P
    <2>1. QED
      BY <1>1, <1>2, ListInduction
  <1>4. QED
    BY <1>3

\* What is read off the lines.
ReadBack(texts) == FlattenSeq([n \in DOMAIN texts |-> BytesOf(texts[n])])

\* What is read off each line.
LEMMA ReadBackParts ==
  ASSUME NEW texts \in Seq(Seq(Characters))
  PROVE  [n \in DOMAIN texts |-> BytesOf(texts[n])] \in Seq(Seq(Marks))
  <1>1. DOMAIN texts = 1 .. Len(texts) /\ Len(texts) \in Nat
        /\ \A n \in 1 .. Len(texts) : texts[n] \in Seq(Characters)
    BY LenProperties, ElementOfSeq
  <1>2. \A n \in 1 .. Len(texts) : BytesOf(texts[n]) \in Seq(Marks)
    BY <1>1, ReadUpType DEF BytesOf, Readings
  <1>3. QED
    BY <1>1, <1>2

\* Bytes are among the marks that a reader may note.
LEMMA BytesAreMarks == Seq(Bytes) \subseteq Seq(Marks) /\ Seq(Seq(Bytes)) \subseteq Seq(Seq(Marks))
  BY SeqMonotonic DEF Marks

\* Lines that are shown add their bytes to what is read.
LEMMA EmitsAdds ==
  ASSUME shown \in Seq(Seq(Characters)), NEW lines \in Seq(Seq(Bytes)), Emits(lines)
  PROVE  /\ shown' \in Seq(Seq(Characters))
         /\ ReadBack(shown') = ReadBack(shown) \o FlattenSeq(lines)
  <1> DEFINE texts == [n \in DOMAIN lines |-> SafeText(lines[n])]
  <1>1. DOMAIN lines = 1 .. Len(lines) /\ Len(lines) \in Nat
        /\ \A n \in 1 .. Len(lines) : lines[n] \in Seq(Bytes)
    BY LenProperties, ElementOfSeq
  <1>2. \A n \in 1 .. Len(lines) :
          SafeText(lines[n]) \in Seq(Characters) /\ BytesOf(SafeText(lines[n])) = lines[n]
    BY <1>1, TextReads
  <1>3. /\ texts \in Seq(Seq(Characters)) /\ Len(texts) = Len(lines)
        /\ DOMAIN texts = 1 .. Len(lines)
        /\ \A n \in 1 .. Len(lines) :
             texts[n] \in Seq(Characters) /\ BytesOf(texts[n]) = lines[n]
    BY <1>1, <1>2
  <1>4. shown' = shown \o texts
    BY DEF Emits
  <1> HIDE DEF texts
  <1>5. shown' \in Seq(Seq(Characters)) /\ Len(shown') = Len(shown) + Len(lines)
        /\ \A n \in 1 .. Len(shown) + Len(lines) :
             shown'[n] = IF n <= Len(shown) THEN shown[n] ELSE texts[n - Len(shown)]
    <2>1. /\ shown \o texts \in Seq(Seq(Characters))
          /\ Len(shown \o texts) = Len(shown) + Len(texts)
          /\ \A n \in 1 .. Len(shown) + Len(texts) :
               (shown \o texts)[n] = IF n <= Len(shown) THEN shown[n] ELSE texts[n - Len(shown)]
      BY ZenonT(60), <1>3, ConcatProperties
    <2>2. Len(texts) = Len(lines)
      BY <1>3
    <2>3. QED
      BY <1>4, <2>1, <2>2
  <1> DEFINE old == [n \in DOMAIN shown |-> BytesOf(shown[n])]
             all == [n \in DOMAIN shown' |-> BytesOf(shown'[n])]
  <1>6. old \in Seq(Seq(Marks)) /\ all \in Seq(Seq(Marks)) /\ lines \in Seq(Seq(Marks))
    BY <1>5, ReadBackParts, BytesAreMarks
  <1>7. DOMAIN shown = 1 .. Len(shown) /\ Len(shown) \in Nat
        /\ DOMAIN shown' = 1 .. Len(shown) + Len(lines)
    BY <1>5, LenProperties
  <1>8. /\ Len(old) = Len(shown) /\ Len(all) = Len(shown) + Len(lines)
        /\ \A n \in 1 .. Len(shown) : old[n] = BytesOf(shown[n])
        /\ \A n \in 1 .. Len(shown) + Len(lines) : all[n] = BytesOf(shown'[n])
    BY <1>1, <1>7
  <1> HIDE DEF old, all
  <1>9. all = old \o lines
    <2>1. /\ old \o lines \in Seq(Seq(Marks)) /\ Len(old \o lines) = Len(shown) + Len(lines)
          /\ \A n \in 1 .. Len(shown) + Len(lines) :
               (old \o lines)[n] = IF n <= Len(shown) THEN old[n] ELSE lines[n - Len(shown)]
      BY <1>6, <1>8, ConcatProperties
    <2>2. \A n \in 1 .. Len(all) : all[n] = (old \o lines)[n]
      <3> TAKE n \in 1 .. Len(all)
      <3>1. n \in 1 .. Len(shown) + Len(lines)
        BY <1>8
      <3>2. CASE n <= Len(shown)
        BY <1>1, <1>7, <3>1, <3>2, <1>5, <1>8, <2>1
      <3>3. CASE ~ (n <= Len(shown))
        BY SMTT(30), <1>1, <1>7, <3>1, <3>3, <1>5, <2>1, <1>3, <1>8
      <3>4. QED
        BY <3>2, <3>3
    <2>3. QED
      BY <1>6, <1>8, <2>1, <2>2, SeqEqual
  <1>10. FlattenSeq(old \o lines) = FlattenSeq(old) \o FlattenSeq(lines)
    BY <1>6, FlattenConcat
  <1>11. ReadBack(shown') = FlattenSeq(all) /\ ReadBack(shown) = FlattenSeq(old)
    BY DEF ReadBack, all, old
  <1>12. QED
    BY <1>5, <1>9, <1>10, <1>11

\* The monitor at each of its steps: nothing is lost, and what is kept is no whole line.
MonitorSound ==
  /\ DecoderTypeOK /\ NothingLost(shown, kept, fed)
  /\ Len(kept) <= MaxBuffer /\ \A k \in DOMAIN kept : kept[k] # "newline"
  /\ kept # <<>> => idle < IdleFlush

\* NothingLost in these words.
LEMMA NothingLostMeans ==
  ASSUME NEW texts, NEW left, NEW bytes
  PROVE  NothingLost(texts, left, bytes) <=> ReadBack(texts) \o left = Stripped(bytes)
  BY DEF NothingLost, ReadBack, Stripped

\* The lines that a chunk completes, and the rest when it is too long.
LEMMA FeedsForms ==
  ASSUME NEW data \in Seq(Bytes), MonitorSound, Feeds(data)
  PROVE  \E lines \in Seq(Seq(Bytes)) :
           /\ Emits(lines) /\ kept' \in Seq(Bytes)
           /\ FlattenSeq(lines) \o kept' = Stripped(kept \o data)
           /\ Len(kept') <= MaxBuffer /\ \A k \in DOMAIN kept' : kept'[k] # "newline"
  <1> DEFINE bytes == kept \o data
             rest == RestOf(bytes)
             whole == LinesOf(bytes)
             full == Len(rest) > MaxBuffer
  <1>1. bytes \in Seq(Bytes)
    BY ConcatProperties DEF MonitorSound, DecoderTypeOK
  <1>2. /\ whole \in Seq(Seq(Bytes)) /\ rest \in Seq(Bytes)
        /\ FlattenSeq(whole) \o rest = Stripped(bytes)
        /\ \A k \in DOMAIN rest : rest[k] # "newline"
    BY <1>1, CutUpType, CutKeeps DEF LinesOf, RestOf, Cuts
  <1>3. /\ Emits(whole \o (IF full THEN <<rest>> ELSE <<>>))
        /\ kept' = IF full THEN <<>> ELSE rest
    BY DEF Feeds
  <1>4. MaxBuffer \in Nat /\ Len(rest) \in Nat
    BY <1>2, DecoderAssumption, LenProperties
  <1> HIDE DEF bytes, rest, whole
  <1>5. CASE full
    <2>1. Emits(Append(whole, rest)) /\ kept' = <<>>
      BY <1>2, <1>3, <1>5, AppendIsConcat
    <2>2. FlattenSeq(Append(whole, rest)) = FlattenSeq(whole) \o rest
      BY <1>2, FlattenAppend
    <2>3. Append(whole, rest) \in Seq(Seq(Bytes)) /\ Stripped(bytes) \in Seq(Bytes)
      BY <1>1, <1>2, AppendProperties, StrippedType
    <2>4. Stripped(bytes) \o <<>> = Stripped(bytes) /\ <<>> \in Seq(Bytes) /\ Len(<<>>) = 0
      BY <2>3, ConcatEmptySeq, EmptySeq
    <2>5. \A k \in DOMAIN <<>> : <<>>[k] # "newline"
      OBVIOUS
    <2>6. Len(kept') <= MaxBuffer /\ \A k \in DOMAIN kept' : kept'[k] # "newline"
      BY <1>4, <2>1, <2>4, <2>5
    <2>7. FlattenSeq(Append(whole, rest)) \o kept' = Stripped(bytes) /\ kept' \in Seq(Bytes)
      BY <1>2, <2>1, <2>2, <2>4
    <2> DEFINE lines == Append(whole, rest)
    <2> HIDE DEF lines
    <2>8. /\ lines \in Seq(Seq(Bytes)) /\ Emits(lines)
          /\ FlattenSeq(lines) \o kept' = Stripped(bytes)
      BY <2>1, <2>3, <2>7 DEF lines
    <2>9. QED
      BY <2>6, <2>7, <2>8 DEF bytes
  <1>6. CASE ~ full
    BY <1>3, <1>6, <1>2, ConcatEmptySeq, <1>4 DEF bytes
  <1>7. QED
    BY <1>5, <1>6

\* A chunk keeps the monitor sound.
LEMMA FeedsSound ==
  ASSUME MonitorSound, NEW n \in 1 .. MaxFed - Len(fed), NEW data \in [1 .. n -> Bytes], Feeds(data)
  PROVE  MonitorSound' /\ MonitorHidesNothing
  <1>1. /\ fed \in Seq(Bytes) /\ Len(fed) <= MaxFed /\ Len(fed) \in Nat /\ kept \in Seq(Bytes)
        /\ shown \in Seq(Seq(Characters)) /\ MaxFed \in Nat
    BY DecoderAssumption, LenProperties DEF MonitorSound, DecoderTypeOK
  <1>2. n \in Nat /\ n <= MaxFed - Len(fed)
    BY <1>1
  <1>3. data \in Seq(Bytes) /\ Len(data) = n /\ data # <<>>
    BY <1>2, EmptySeq
  <1>4. PICK lines \in Seq(Seq(Bytes)) :
               /\ Emits(lines) /\ kept' \in Seq(Bytes)
               /\ FlattenSeq(lines) \o kept' = Stripped(kept \o data)
               /\ Len(kept') <= MaxBuffer /\ \A k \in DOMAIN kept' : kept'[k] # "newline"
    BY <1>3, FeedsForms
  <1>5. fed' = fed \o data /\ idle' = 0
    BY DEF Feeds, IdleReset
  <1>6. fed' \in Seq(Bytes) /\ Len(fed') <= MaxFed /\ fed' # fed
    BY <1>1, <1>3, ConcatProperties, ConcatEqualIffEmpty, <1>2, <1>5
  <1>7. /\ shown' \in Seq(Seq(Characters))
        /\ ReadBack(shown') = ReadBack(shown) \o FlattenSeq(lines)
    BY <1>1, <1>4, EmitsAdds
  <1>8. ReadBack(shown') \o kept' = Stripped(fed')
    <2>1. /\ ReadBack(shown) \in Seq(Marks) /\ FlattenSeq(lines) \in Seq(Marks)
          /\ kept' \in Seq(Marks) /\ kept \in Seq(Marks) /\ Stripped(data) \in Seq(Marks)
      BY <1>1, ReadBackParts, FlattenType, <1>3, StrippedType, <1>4, BytesAreMarks DEF ReadBack
    <2>2. (ReadBack(shown) \o FlattenSeq(lines)) \o kept'
            = ReadBack(shown) \o (FlattenSeq(lines) \o kept')
      BY SMTT(30), <2>1, ConcatAssociative
    <2>3. Stripped(kept \o data) = kept \o Stripped(data)
      BY <1>1, <1>3, StrippedConcat, StrippedStays DEF MonitorSound
    <2>4. ReadBack(shown) \o (kept \o Stripped(data)) = (ReadBack(shown) \o kept) \o Stripped(data)
      <3> DEFINE before == ReadBack(shown)
                 after == Stripped(data)
      <3>1. before \in Seq(Marks) /\ after \in Seq(Marks) /\ kept \in Seq(Marks)
        BY <2>1
      <3> HIDE DEF before, after
      <3>2. (before \o kept) \o after = before \o (kept \o after)
        BY <3>1, ConcatAssociative
      <3>3. QED
        BY <3>2 DEF before, after
    <2>5. ReadBack(shown) \o kept = Stripped(fed)
      BY NothingLostMeans DEF MonitorSound
    <2>6. Stripped(fed \o data) = Stripped(fed) \o Stripped(data)
      BY <1>1, <1>3, StrippedConcat
    <2>7. QED
      BY <1>4, <1>5, <1>7, <2>2, <2>3, <2>4, <2>5, <2>6
  <1>9. NothingLost(shown', kept', fed')
    BY <1>8, NothingLostMeans
  <1>10. IdleFlush \in Nat \ {0}
    BY DecoderAssumption
  <1>11. MonitorSound'
    BY <1>4, <1>5, <1>6, <1>7, <1>9, <1>10 DEF MonitorSound, DecoderTypeOK
  <1>12. MonitorHidesNothing
    BY <1>4, <1>5, <1>6, <1>10 DEF MonitorHidesNothing
  <1>13. QED
    BY <1>11, <1>12

\* No byte comes: the partial line is kept, or shown for it has waited long enough.
LEMMA FeedsNothingSound ==
  ASSUME MonitorSound, FeedsNothing
  PROVE  MonitorSound' /\ MonitorHidesNothing
  <1>1. /\ fed' = fed /\ kept \in Seq(Bytes) /\ idle \in 0 .. IdleFlush
        /\ shown \in Seq(Seq(Characters)) /\ IdleFlush \in Nat \ {0} /\ MaxBuffer \in Nat
    BY DecoderAssumption DEF FeedsNothing, MonitorSound, DecoderTypeOK
  <1>2. CASE kept # <<>> /\ idle + 1 >= IdleFlush
    <2>1. Emits(<<kept>>) /\ kept' = <<>> /\ idle' = 0
      BY <1>2 DEF FeedsNothing
    <2>2. <<kept>> \in Seq(Seq(Bytes)) /\ <<kept>> = Append(<<>>, kept) /\ <<>> \in Seq(Seq(Bytes))
      BY <1>1
    <2>3. FlattenSeq(<<kept>>) = kept
      <3>1. FlattenSeq(Append(<<>>, kept)) = FlattenSeq(<<>>) \o kept
        BY <1>1, <2>2, FlattenAppend
      <3>2. QED
        BY <1>1, <2>2, <3>1, FlattenNothing, ConcatEmptySeq
    <2>4. /\ shown' \in Seq(Seq(Characters))
          /\ ReadBack(shown') = ReadBack(shown) \o kept
      BY <1>1, <2>1, <2>2, <2>3, EmitsAdds
    <2>5. ReadBack(shown) \o kept = Stripped(fed) /\ fed \in Seq(Bytes)
      BY NothingLostMeans DEF MonitorSound, DecoderTypeOK
    <2>6. ReadBack(shown') \o <<>> = Stripped(fed)
      BY <2>5, StrippedType, ConcatEmptySeq, <2>4
    <2>7. NothingLost(shown', kept', fed')
      BY <1>1, <2>1, <2>6, NothingLostMeans
    <2>8. <<>> \in Seq(Bytes) /\ Len(<<>>) = 0 /\ \A k \in DOMAIN <<>> : <<>>[k] # "newline"
      BY EmptySeq
    <2>9. MonitorSound'
      BY <1>1, <2>1, <2>4, <2>7, <2>8 DEF MonitorSound, DecoderTypeOK
    <2>10. idle < IdleFlush
      BY <1>2 DEF MonitorSound
    <2>11. MonitorHidesNothing
      BY <1>1, <1>2, <2>1, <2>8, <2>10 DEF MonitorHidesNothing
    <2>12. QED
      BY <2>9, <2>11
  <1>3. CASE ~ (kept # <<>> /\ idle + 1 >= IdleFlush)
    BY <1>3, <1>1 DEF FeedsNothing, MonitorSound, DecoderTypeOK, MonitorHidesNothing
  <1>4. QED
    BY <1>2, <1>3

\* A step that leaves the monitor alone.
LEMMA DecoderUnchanged ==
  ASSUME MonitorSound, UNCHANGED decoderVars
  PROVE  MonitorSound'
  BY DEF decoderVars, MonitorSound, DecoderTypeOK

\* The initial states.
LEMMA MonitorStarts == DecoderInit => MonitorSound
  <1> SUFFICES ASSUME DecoderInit PROVE MonitorSound
    OBVIOUS
  <1>1. fed = <<>> /\ kept = <<>> /\ idle = 0 /\ shown = <<>>
    BY DEF DecoderInit
  <1>2. [n \in DOMAIN <<>> |-> BytesOf(<<>>[n])] = <<>>
    OBVIOUS
  <1>3. ReadBack(<<>>) = <<>>
    BY <1>2, FlattenNothing DEF ReadBack
  <1>4. /\ <<>> \in Seq(Bytes) /\ Len(<<>>) = 0 /\ <<>> \in Seq(Seq(Characters))
        /\ <<>> \o <<>> = <<>> /\ \A k \in DOMAIN <<>> : <<>>[k] # "newline"
    BY EmptySeq, ConcatEmptySeq
  <1>5. NothingLost(shown, kept, fed)
    BY <1>1, <1>3, <1>4, StrippedNothing, NothingLostMeans
  <1>6. MaxFed \in Nat /\ IdleFlush \in Nat \ {0} /\ MaxBuffer \in Nat
    BY DecoderAssumption
  <1>7. QED
    BY <1>1, <1>4, <1>5, <1>6 DEF MonitorSound, DecoderTypeOK

\* A step of the host leaves what the monitor has, or is one of its two.
LEMMA MonitorSteps ==
  ASSUME MonitorSound, [HostNext]_hostVars
  PROVE  MonitorSound' /\ (UNCHANGED decoderVars \/ MonitorHidesNothing)
  <1>1. CASE UNCHANGED decoderVars
    BY <1>1, DecoderUnchanged
  <1>2. ASSUME NEW n \in 1 .. MaxFed - Len(fed), NEW data \in [1 .. n -> Bytes], Feeds(data)
        PROVE  MonitorSound' /\ MonitorHidesNothing
    BY <1>2, FeedsSound
  <1>3. CASE FeedsNothing
    BY <1>3, FeedsNothingSound
  <1>4. CASE UNCHANGED hostVars
    BY <1>1, <1>4 DEF hostVars
  <1>5. CASE program # "monitor" /\ HostNext
    BY <1>1, <1>5, HostLeaves
  <1>6. CASE Monitored
    BY <1>1, <1>2, <1>3, <1>6 DEF MonitorConnects, Watches, Monitored, Monitoring
  <1>7. CASE MonitorEnds
    BY <1>1, <1>7 DEF MonitorEnds, StopsWatching
  <1>8. CASE program = "monitor" /\ HostNext /\ ~ Monitored /\ ~ MonitorEnds
    BY <1>8 DEF HostNext, StoreProgram, Experimented, ExperimentDisturbed, Operated,
                OperationDisturbed, SelfChecked, SelfCheckDisturbed, Acquired, AcquireDisturbed,
                World
  <1>9. QED
    BY <1>4, <1>5, <1>6, <1>7, <1>8

\* Who watches the monitor sees everything the controller sent, in time: in every
\* step nothing is lost, and no partial line is hidden or cut while its bytes come.
THEOREM MonitorShowsEverything == HostSpec => MonitorShowsAll
  <1>1. HostInit => MonitorSound
    BY MonitorStarts DEF HostInit
  <1>2. MonitorSound /\ [HostNext]_hostVars => MonitorSound'
    BY MonitorSteps
  <1>3. MonitorSound /\ MonitorSound' /\ [HostNext]_hostVars
        => [NothingLost(shown', kept', fed') /\ MonitorHidesNothing]_decoderVars
    BY MonitorSteps DEF MonitorSound
  <1>4. QED
    BY <1>1, <1>2, <1>3, PTL DEF HostSpec, MonitorShowsAll

-----------------------------------------------------------------------------
(* What the host tools store, print and report.                            *)

\* In each program the line is sound.
LEMMA HostTyped ==
  ASSUME HostSound, ProgramsTyped, MonitorSound
  PROVE  HostTypeOK
  BY SessionTyped
     DEF HostSound, ProgramsTyped, CapturingSound, RunningSound, SelfCheckSound, CampaignSound,
         WatchingSound, MonitorSound, HostTypeOK

\* What "proact capture" and "proact run" store, print and report is what the board did
\* for that row, whatever answer, trigger or trace is lost, late or older, and every
\* variable keeps its type.
THEOREM ResultsTrue == HostSpec => []ResultsAreTrue
  <1>1. HostInit => HostSound /\ ProgramsTyped /\ MonitorSound
    BY HostStarts, MonitorStarts DEF HostInit
  <1>2. HostSound /\ ProgramsTyped /\ MonitorSound /\ [HostNext]_hostVars
        => (HostSound /\ ProgramsTyped /\ MonitorSound)'
    BY HostKept, TypesKept, MonitorSteps
  <1>3. HostSound /\ ProgramsTyped /\ MonitorSound => ResultsAreTrue
    BY HostTyped, CaptureProves, RunProves DEF HostSound, ResultsAreTrue
  <1>4. QED
    BY <1>1, <1>2, <1>3, PTL DEF HostSpec
===============================================================================
