------------------------- MODULE NativeStore_proofs -------------------------
(***************************************************************************)
(* Proofs about NativeStore for every number of rows, chunk size, set of   *)
(* arrays and set of cell values, and any number of stops.                 *)
(*                                                                         *)
(* First the structural invariant SInv (markers, counters, flushes, the    *)
(* distance to the last checkpoint), which holds wherever Ctrl-C arrives,  *)
(* with what follows from it alone: type correctness, the bound on what a  *)
(* stop loses, and the refinement of the checkpointed log.  Then the       *)
(* digests, whose theorems have the one hypothesis that the runs exposed:  *)
(* no Ctrl-C is delivered while extend_row_digest is between two hashers.  *)
(***************************************************************************)
EXTENDS NativeStore, SequenceTheorems, TLAPS

InSession == pc # "down"

\* Array f holds the same first n rows in the page cache and on disk.
Synced(f, n) == \A r \in Rows : r < n => disk[f][r] = cache[f][r]

\* The markers: a durable checkpoint is never ahead of the published one, and
\* a session never behind it.
MarkersOrdered ==
  /\ metaDisk.done <= meta.done
  /\ InSession => meta.done <= done

\* Where the loop's counters stand at each place of the loop.
CountersAgree ==
  /\ pc \in {"loop", "digest", "ckpt"} => i = done /\ hdone = done
  /\ pc = "digest" => done < N
  /\ pc = "count" => i = done /\ hdone = done + 1
  /\ pc = "appended" => i < N /\ done = i + 1 /\ hdone = done

\* Rows below the published marker are on disk, and a checkpoint in progress
\* has flushed every array it no longer lists.
FlushedFirst ==
  /\ \A f \in Fields : Synced(f, meta.done)
  /\ pc \in {"ckpt", "fin"} => \A f \in Fields \ left : Synced(f, done)

\* Between two periodic checkpoints no index of the loop has been due for one,
\* so that the session is at most a chunk ahead.
ChunkInProgress ==
  /\ pc \in {"loop", "digest", "count", "appended"} =>
       \A n \in meta.done + 1 .. i : ~ CheckpointDue(n)
  /\ LossBounded

SInv ==
  /\ TypeOK
  /\ MarkersOrdered
  /\ CountersAgree
  /\ FlushedFirst
  /\ ChunkInProgress

-----------------------------------------------------------------------------
\* A digest is a value of its type.
LEMMA DigestType ==
  ASSUME NEW a \in Arrays, NEW n
  PROVE  RowDigest(a, n) \in Hashes
  BY DEF RowDigest, Hashes, Arrays

\* The next multiple of c after m.
LEMMA NextMultiple ==
  ASSUME NEW c \in Nat \ {0}, NEW m \in Nat
  PROVE  (m + c - (m % c)) % c = 0
  BY SMT

\* Among any Chunk consecutive indices one is due for a checkpoint.
LEMMA DueWithinChunk ==
  ASSUME NEW m \in Nat, NEW k \in Nat, \A n \in m + 1 .. k : ~ CheckpointDue(n)
  PROVE  k < m + Chunk
  <1> DEFINE n == m + Chunk - (m % Chunk)
  <1>1. m % Chunk \in 0 .. Chunk - 1
    BY ChunkAssumption
  <1>2. n % Chunk = 0
    BY NextMultiple, ChunkAssumption
  <1>3. n \in m + 1 .. m + Chunk
    BY <1>1, ChunkAssumption
  <1>4. QED
    BY <1>2, <1>3, ChunkAssumption DEF CheckpointDue

\* The empty dataset satisfies the invariant.
LEMMA InitSInv == Init => SInv
  <1> SUFFICES ASSUME Init PROVE SInv
    OBVIOUS
  <1> USE NAssumption, ValAssumption, StopsAssumption
  <1>1. cache \in Arrays
    BY DEF Init, Arrays
  <1>2. RowDigest(cache, 0) \in Hashes
    BY <1>1, DigestType
  <1>3. TypeOK
    BY <1>1, <1>2 DEF Init, TypeOK, Metas
  <1>4. MarkersOrdered /\ CountersAgree /\ FlushedFirst /\ ChunkInProgress
    BY DEF Init, MarkersOrdered, CountersAgree, FlushedFirst, InSession, Synced, ChunkInProgress,
           LossBounded
  <1>5. QED
    BY <1>3, <1>4 DEF SInv

\* Writing cells of the row at the done marker disturbs nothing below it.
LEMMA WriteAtMarker ==
  ASSUME SInv, AppendWrite \/ AppendTorn
  PROVE  /\ cache' \in Arrays
         /\ \A f \in Fields, r \in Rows : r < done => cache'[f][r] = cache[f][r]
         /\ meta.done <= done
  <1>1. cache \in Arrays /\ done \in Rows /\ meta.done \in 0 .. N /\ meta.done <= done
    BY NAssumption DEF SInv, TypeOK, Metas, Rows, MarkersOrdered, InSession, AppendWrite, AppendTorn
  <1>2. PICK row \in [Fields -> Val], F \in SUBSET Fields :
          cache' = [f \in Fields |->
                     IF f \in F THEN [cache[f] EXCEPT ![done] = row[f]] ELSE cache[f]]
    <2>1. CASE AppendWrite
      <3>1. PICK row \in [Fields -> Val] :
              cache' = [f \in Fields |-> [cache[f] EXCEPT ![done] = row[f]]]
        BY <2>1 DEF AppendWrite
      <3>2. cache' = [f \in Fields |->
                IF f \in Fields THEN [cache[f] EXCEPT ![done] = row[f]] ELSE cache[f]]
        BY <3>1
      <3>3. QED
        BY <3>2
    <2>2. CASE AppendTorn
      BY <2>2 DEF AppendTorn
    <2>3. QED
      BY <2>1, <2>2
  <1>3. cache' \in Arrays
    BY <1>1, <1>2 DEF Arrays
  <1>4. \A f \in Fields, r \in Rows : r < done => cache'[f][r] = cache[f][r]
    BY <1>1, <1>2 DEF Arrays, Rows
  <1>5. QED
    BY <1>1, <1>3, <1>4

-----------------------------------------------------------------------------
\* Opening, writing and counting rows, and the loop's own steps.
LEMMA LoopStep ==
  ASSUME SInv, OpenResume \/ AppendRow \/ NextIndex \/ LoopEnds
  PROVE  SInv'
  <1> USE NAssumption
  <1>1. /\ cache \in Arrays /\ disk \in Arrays /\ meta \in Metas /\ metaDisk \in Metas
        /\ done \in 0 .. N /\ hdone \in 0 .. N /\ i \in 0 .. N /\ left \in SUBSET Fields
        /\ stops \in 0 .. MaxStops /\ hashed \in Hashes /\ meta.done \in 0 .. N
    BY DEF SInv, TypeOK, Metas
  <1>2. UNCHANGED <<disk, meta, metaDisk>>
    BY DEF OpenResume, AppendRow, NextIndex, LoopEnds, AppendWrite, AppendTorn, AbsorbField,
           AbsorbMark, CountRow, files
  <1>3. CASE OpenResume
    <2>1. /\ pc' = "loop" /\ done' = meta.done /\ i' = meta.done /\ hdone' = meta.done
          /\ hashed' = RowDigest(cache, meta.done) /\ UNCHANGED <<cache, left, stops>>
      BY <1>3 DEF OpenResume, FirstRow, ReopenedDigest, files
    <2>2. hashed' \in Hashes
      BY <1>1, <2>1, DigestType
    <2>3. TypeOK'
      BY <1>1, <1>2, <2>1, <2>2 DEF TypeOK, Points
    <2>4. MarkersOrdered' /\ CountersAgree' /\ FlushedFirst'
      BY <1>1, <1>2, <2>1 DEF SInv, MarkersOrdered, CountersAgree, FlushedFirst, Synced, InSession
    <2>5. ChunkInProgress'
      BY <1>1, <1>2, <2>1, ChunkAssumption DEF ChunkInProgress, LossBounded
    <2>6. QED
      BY <2>3, <2>4, <2>5 DEF SInv
  <1>4. CASE AppendWrite \/ AppendTorn
    <2>1. /\ pc = "loop" /\ i = done /\ hdone = done /\ done < N
          /\ pc' \in {"digest", "fin"} /\ left' = Fields
          /\ UNCHANGED <<done, i, hashed, hdone>> /\ stops' \in 0 .. MaxStops
      BY <1>1, <1>4, StopsAssumption DEF SInv, CountersAgree, AppendWrite, AppendTorn
    <2>2. /\ cache' \in Arrays /\ meta.done <= done
          /\ \A f \in Fields, r \in Rows : r < done => cache'[f][r] = cache[f][r]
      BY <1>4, WriteAtMarker
    <2>3. TypeOK'
      BY <1>1, <1>2, <2>1, <2>2 DEF TypeOK, Points
    <2>4. MarkersOrdered' /\ CountersAgree'
      BY <1>2, <2>1, <2>2 DEF SInv, MarkersOrdered, CountersAgree, InSession
    <2>5. FlushedFirst'
      BY <1>1, <1>2, <2>1, <2>2 DEF SInv, FlushedFirst, Synced, Rows
    <2>6. ChunkInProgress'
      BY <1>2, <2>1 DEF SInv, ChunkInProgress, LossBounded
    <2>7. QED
      BY <2>3, <2>4, <2>5, <2>6 DEF SInv
  <1>5. ASSUME NEW f \in Fields, AbsorbField(f)
        PROVE  SInv'
    <2>1. /\ pc = "digest" /\ hdone = done /\ done < N
          /\ hashed' = [hashed EXCEPT ![f][hdone] = cache[f][hdone]] /\ left' = left \ {f}
          /\ UNCHANGED <<cache, pc, done, i, hdone, stops>>
      BY <1>5 DEF AbsorbField, SInv, CountersAgree, files
    <2>2. hashed' \in Hashes
      BY <1>1, <2>1 DEF Hashes, Arrays, Rows
    <2>3. TypeOK'
      BY <1>1, <1>2, <2>1, <2>2 DEF SInv, TypeOK
    <2>4. MarkersOrdered' /\ CountersAgree' /\ FlushedFirst' /\ ChunkInProgress'
      BY <1>2, <2>1 DEF SInv, MarkersOrdered, CountersAgree, FlushedFirst, Synced, InSession,
                        ChunkInProgress, LossBounded
    <2>5. QED
      BY <2>3, <2>4 DEF SInv
  <1>6. CASE AbsorbMark
    <2>1. /\ pc = "digest" /\ i = done /\ hdone = done /\ done < N
          /\ pc' = "count" /\ hdone' = done + 1
          /\ UNCHANGED <<cache, done, i, hashed, left, stops>>
      BY <1>6 DEF AbsorbMark, SInv, CountersAgree, files
    <2>2. TypeOK'
      BY <1>1, <1>2, <2>1 DEF TypeOK, Points
    <2>3. MarkersOrdered' /\ CountersAgree' /\ FlushedFirst' /\ ChunkInProgress'
      BY <1>2, <2>1 DEF SInv, MarkersOrdered, CountersAgree, FlushedFirst, Synced, InSession,
                        ChunkInProgress, LossBounded
    <2>4. QED
      BY <2>2, <2>3 DEF SInv
  <1>7. CASE CountRow
    <2>1. /\ pc = "count" /\ i = done /\ hdone = done + 1
          /\ pc' = "appended" /\ done' = done + 1
          /\ UNCHANGED <<cache, i, hashed, hdone, left, stops>>
      BY <1>7 DEF CountRow, SInv, CountersAgree, files
    <2>2. TypeOK'
      BY <1>1, <1>2, <2>1 DEF TypeOK, Points
    <2>3. MarkersOrdered' /\ CountersAgree' /\ FlushedFirst'
      BY <1>1, <1>2, <2>1 DEF SInv, MarkersOrdered, CountersAgree, FlushedFirst, Synced, InSession
    <2>4. i < meta.done + Chunk
      BY <1>1, <2>1, DueWithinChunk DEF SInv, ChunkInProgress
    <2>5. ChunkInProgress'
      BY <1>1, <1>2, <2>1, <2>4, ChunkAssumption DEF SInv, ChunkInProgress, LossBounded,
                                                     CheckpointDue
    <2>6. QED
      BY <2>2, <2>3, <2>5 DEF SInv
  <1>8. CASE NextIndex
    <2>1. /\ pc = "appended" /\ i < N /\ done = i + 1 /\ hdone = done /\ i' = i + 1
          /\ pc' \in {"ckpt", "loop"} /\ left' \in {Fields, {}}
          /\ pc' = "ckpt" => left' = Fields
          /\ pc' = "loop" => ~ CheckpointDue(i + 1)
          /\ UNCHANGED <<cache, done, hashed, hdone, stops>>
      BY <1>8 DEF NextIndex, SInv, CountersAgree, files
    <2>2. TypeOK'
      BY <1>1, <1>2, <2>1 DEF TypeOK, Points
    <2>3. MarkersOrdered' /\ CountersAgree' /\ FlushedFirst'
      BY <1>1, <1>2, <2>1 DEF SInv, MarkersOrdered, CountersAgree, FlushedFirst, Synced, InSession
    <2>4. ChunkInProgress'
      BY <1>1, <1>2, <2>1 DEF SInv, ChunkInProgress, LossBounded, CheckpointDue
    <2>5. QED
      BY <2>2, <2>3, <2>4 DEF SInv
  <1>9. CASE LoopEnds
    <2>1. /\ pc = "loop" /\ pc' = "fin" /\ left' = Fields
          /\ UNCHANGED <<cache, done, i, hashed, hdone, stops>>
      BY <1>9 DEF LoopEnds, files
    <2>2. QED
      BY <1>1, <1>2, <2>1 DEF SInv, TypeOK, MarkersOrdered, CountersAgree, FlushedFirst, Synced,
                              InSession, ChunkInProgress, LossBounded
  <1>10. QED
    BY <1>3, <1>4, <1>5, <1>6, <1>7, <1>8, <1>9 DEF AppendRow

\* A checkpoint flushes before it publishes.
LEMMA CheckpointStep ==
  ASSUME SInv, Checkpoint \/ CloseStore
  PROVE  SInv'
  <1>1. /\ cache \in Arrays /\ disk \in Arrays /\ meta \in Metas /\ metaDisk \in Metas
        /\ left \in SUBSET Fields /\ stops \in 0 .. MaxStops
        /\ done \in 0 .. N /\ meta.done \in 0 .. N
    BY DEF SInv, TypeOK, Metas
  <1>2. UNCHANGED <<cache, metaDisk, done, i, hashed, hdone>>
    BY DEF Checkpoint, FlushField, PublishMeta, CheckpointRefused, CheckpointFails, CloseStore,
           files
  <1>3. ASSUME NEW f \in Fields, FlushField(f)
        PROVE  SInv'
    <2>1. /\ pc \in {"ckpt", "fin"} /\ left' = left \ {f}
          /\ UNCHANGED <<meta, pc, stops>>
          /\ disk' = [disk EXCEPT ![f] = cache[f]]
      BY <1>3 DEF FlushField
    <2>2. disk' \in Arrays /\ disk'[f] = cache[f]
      BY <1>1, <2>1 DEF Arrays
    <2>3. \A g \in Fields : disk'[g] = disk[g] \/ disk'[g] = cache[g]
      BY <1>1, <2>1 DEF Arrays
    <2>4. TypeOK'
      BY <1>1, <1>2, <2>1, <2>2 DEF SInv, TypeOK
    <2>5. FlushedFirst'
      BY <1>2, <2>1, <2>2, <2>3 DEF SInv, FlushedFirst, Synced
    <2>6. MarkersOrdered' /\ CountersAgree' /\ ChunkInProgress'
      BY <1>2, <2>1 DEF SInv, MarkersOrdered, CountersAgree, InSession, ChunkInProgress,
                        LossBounded
    <2>7. QED
      BY <2>4, <2>5, <2>6 DEF SInv
  <1>4. CASE PublishMeta
    <2>1. /\ pc \in {"ckpt", "fin"} /\ left = {} /\ i = done /\ hdone = done
          /\ pc' \in {"loop", "close"} /\ left' = {}
          /\ meta' = [done |-> done, digest |-> hashed]
          /\ UNCHANGED <<disk, stops>>
      BY <1>4 DEF PublishMeta, MarkerAgrees
    <2>2. TypeOK'
      BY <1>1, <1>2, <2>1 DEF SInv, TypeOK, Metas, Points
    <2>3. MarkersOrdered'
      BY <1>1, <1>2, <2>1 DEF SInv, TypeOK, MarkersOrdered, InSession, Metas
    <2>4. CountersAgree' /\ FlushedFirst'
      BY <1>2, <2>1 DEF SInv, CountersAgree, FlushedFirst, Synced
    <2>5. ChunkInProgress'
      BY <1>1, <1>2, <2>1, ChunkAssumption DEF ChunkInProgress, LossBounded
    <2>6. QED
      BY <2>2, <2>3, <2>4, <2>5 DEF SInv
  <1>5. CASE CheckpointRefused \/ CheckpointFails
    <2>1. /\ pc \in {"ckpt", "fin"} /\ pc' \in {"fin", "close"} /\ left' \in {Fields, {}}
          /\ pc' = "fin" => left' = Fields
          /\ UNCHANGED <<disk, meta>> /\ stops' \in 0 .. MaxStops
      BY <1>1, <1>5, StopsAssumption DEF CheckpointRefused, CheckpointFails, files
    <2>2. TypeOK'
      BY <1>2, <2>1 DEF SInv, TypeOK
    <2>3. MarkersOrdered' /\ CountersAgree' /\ FlushedFirst' /\ ChunkInProgress'
      BY <1>2, <2>1 DEF SInv, MarkersOrdered, CountersAgree, FlushedFirst, Synced, InSession,
                        ChunkInProgress, LossBounded
    <2>4. QED
      BY <2>2, <2>3 DEF SInv
  <1>6. CASE CloseStore
    <2>1. disk' = cache /\ pc' = "down" /\ left' = {} /\ UNCHANGED <<meta, stops>>
      BY <1>6 DEF CloseStore
    <2>2. TypeOK'
      BY <1>1, <1>2, <2>1 DEF SInv, TypeOK
    <2>3. MarkersOrdered' /\ CountersAgree' /\ FlushedFirst' /\ ChunkInProgress'
      BY <1>2, <2>1 DEF SInv, MarkersOrdered, CountersAgree, FlushedFirst, Synced, InSession,
                        ChunkInProgress, LossBounded
    <2>4. QED
      BY <2>2, <2>3 DEF SInv
  <1>7. QED
    BY <1>3, <1>4, <1>5, <1>6 DEF Checkpoint

\* Ctrl-C wherever it arrives, a kill, the kernel and a power failure.
LEMMA EnvironmentStep ==
  ASSUME SInv, Environment
  PROVE  SInv'
  <1>1. /\ cache \in Arrays /\ disk \in Arrays /\ meta \in Metas /\ metaDisk \in Metas
        /\ stops \in 0 .. MaxStops
    BY DEF SInv, TypeOK
  <1>2. UNCHANGED <<done, i, hashed, hdone>>
    BY DEF Environment, Interrupt, Kill, Writeback, SyncMeta, PowerLoss, files
  <1>3. CASE Interrupt
    <2>1. /\ pc \in Points /\ pc' = "fin" /\ left' = Fields
          /\ UNCHANGED files /\ stops' \in 0 .. MaxStops
      BY <1>1, <1>3, PointsAssumption, StopsAssumption DEF Interrupt
    <2>2. TypeOK'
      BY <1>2, <2>1 DEF SInv, TypeOK, files
    <2>3. MarkersOrdered' /\ CountersAgree' /\ FlushedFirst' /\ ChunkInProgress'
      BY <1>2, <2>1 DEF SInv, MarkersOrdered, CountersAgree, FlushedFirst, Synced, InSession,
                        ChunkInProgress, LossBounded, files, Points
    <2>4. QED
      BY <2>2, <2>3 DEF SInv
  <1>4. CASE Kill
    <2>1. pc' = "down" /\ left' = {} /\ UNCHANGED files /\ stops' \in 0 .. MaxStops
      BY <1>1, <1>4, StopsAssumption DEF Kill
    <2>2. QED
      BY <1>2, <2>1 DEF SInv, TypeOK, MarkersOrdered, CountersAgree, FlushedFirst, Synced,
                        InSession, ChunkInProgress, LossBounded, files
  <1>5. CASE Writeback
    <2>1. PICK f \in Fields, r \in Rows :
            disk[f][r] # cache[f][r] /\ disk' = [disk EXCEPT ![f][r] = cache[f][r]]
      BY <1>5 DEF Writeback
    <2>2. UNCHANGED <<cache, meta, metaDisk, pc, left, stops>>
      BY <1>5 DEF Writeback
    <2>3. disk' \in Arrays
      BY <1>1, <2>1 DEF Arrays
    <2>4. \A g \in Fields, q \in Rows : disk'[g][q] = disk[g][q] \/ disk'[g][q] = cache[g][q]
      BY <1>1, <2>1 DEF Arrays
    <2>5. TypeOK'
      BY <1>2, <2>2, <2>3 DEF SInv, TypeOK
    <2>6. FlushedFirst'
      BY <1>2, <2>2, <2>4 DEF SInv, FlushedFirst, Synced
    <2>7. MarkersOrdered' /\ CountersAgree' /\ ChunkInProgress'
      BY <1>2, <2>2 DEF SInv, MarkersOrdered, CountersAgree, InSession, ChunkInProgress,
                        LossBounded
    <2>8. QED
      BY <2>5, <2>6, <2>7 DEF SInv
  <1>6. CASE SyncMeta
    <2>1. metaDisk' = meta /\ UNCHANGED <<cache, disk, meta, pc, left, stops>>
      BY <1>6 DEF SyncMeta
    <2>2. TypeOK' /\ MarkersOrdered'
      BY <1>1, <1>2, <2>1 DEF SInv, TypeOK, MarkersOrdered, InSession, Metas
    <2>3. CountersAgree' /\ FlushedFirst' /\ ChunkInProgress'
      BY <1>2, <2>1 DEF SInv, CountersAgree, FlushedFirst, Synced, InSession, ChunkInProgress,
                        LossBounded
    <2>4. QED
      BY <2>2, <2>3 DEF SInv
  <1>7. CASE PowerLoss
    <2>1. /\ cache' = disk /\ meta' = metaDisk /\ pc' = "down" /\ left' = {}
          /\ UNCHANGED <<disk, metaDisk>> /\ stops' \in 0 .. MaxStops
      BY <1>1, <1>7, StopsAssumption DEF PowerLoss
    <2>2. TypeOK'
      BY <1>1, <1>2, <2>1 DEF SInv, TypeOK
    <2>3. MarkersOrdered' /\ CountersAgree' /\ FlushedFirst' /\ ChunkInProgress'
      BY <1>1, <2>1 DEF MarkersOrdered, CountersAgree, FlushedFirst, Synced, InSession, Metas,
                        ChunkInProgress, LossBounded
    <2>4. QED
      BY <2>2, <2>3 DEF SInv
  <1>8. QED
    BY <1>3, <1>4, <1>5, <1>6, <1>7 DEF Environment

\* The structural invariant is inductive.
LEMMA SInvInductive == Spec => []SInv
  <1>1. SInv /\ [Next]_vars => SInv'
    <2> SUFFICES ASSUME SInv, [Next]_vars PROVE SInv'
      OBVIOUS
    <2>1. CASE UNCHANGED vars
      BY <2>1 DEF vars, SInv, TypeOK, MarkersOrdered, CountersAgree, FlushedFirst, Synced,
                  InSession, ChunkInProgress, LossBounded
    <2>2. QED
      BY <2>1, LoopStep, CheckpointStep, EnvironmentStep DEF Next, Session
  <1>2. QED
    BY <1>1, InitSInv, PTL DEF Spec

\* Type correctness of the store (TraceStore and its metadata file).
THEOREM StoreTypeCorrect == Spec => []TypeOK
  <1>1. SInv => TypeOK
    BY DEF SInv
  <1>2. QED
    BY <1>1, SInvInductive, PTL

\* No stop of the process loses more than cfg.chunk rows, wherever in a chunk the
\* session was resumed and wherever Ctrl-C arrives (run.py, the periodic checkpoint).
THEOREM StopsLoseAtMostAChunk == Spec => []LossBounded
  <1>1. SInv => LossBounded
    BY DEF SInv, ChunkInProgress
  <1>2. QED
    BY <1>1, SInvInductive, PTL

-----------------------------------------------------------------------------
\* The rows of an array below a marker, as a sequence.
LEMMA RowsBelowType ==
  ASSUME NEW a \in Arrays, NEW n \in 0 .. N
  PROVE  /\ RowsBelow(a, n) \in Seq([Fields -> Val])
         /\ Len(RowsBelow(a, n)) = n
         /\ \A k \in 1 .. n : RowsBelow(a, n)[k] = [f \in Fields |-> a[f][k - 1]]
  <1>1. \A k \in 1 .. n : [f \in Fields |-> a[f][k - 1]] \in [Fields -> Val]
    BY NAssumption DEF Arrays, Rows
  <1>2. n \in Nat
    BY NAssumption
  <1>3. RowsBelow(a, n) \in [1 .. n -> [Fields -> Val]]
    BY <1>1 DEF RowsBelow
  <1>4. RowsBelow(a, n) \in Seq([Fields -> Val]) /\ Len(RowsBelow(a, n)) = n
    BY <1>2, <1>3
  <1>5. QED
    BY <1>4 DEF RowsBelow

\* They depend on nothing else.
LEMMA RowsBelowSame ==
  ASSUME NEW a \in Arrays, NEW b \in Arrays, NEW n \in 0 .. N,
         \A f \in Fields, r \in Rows : r < n => a[f][r] = b[f][r]
  PROVE  RowsBelow(a, n) = RowsBelow(b, n)
  <1>1. \A k \in 1 .. n : k - 1 \in Rows /\ k - 1 < n
    BY NAssumption DEF Rows
  <1>2. \A k \in 1 .. n : [f \in Fields |-> a[f][k - 1]] = [f \in Fields |-> b[f][k - 1]]
    BY <1>1
  <1>3. QED
    BY <1>2 DEF RowsBelow

\* A lower marker is a prefix.
LEMMA RowsBelowPrefix ==
  ASSUME NEW a \in Arrays, NEW n \in 0 .. N, NEW m \in 0 .. n
  PROVE  Log!Prefix(RowsBelow(a, n), m) = RowsBelow(a, m)
  <1> DEFINE s == RowsBelow(a, n)
             t == RowsBelow(a, m)
  <1>1. /\ s \in Seq([Fields -> Val]) /\ Len(s) = n /\ t \in Seq([Fields -> Val]) /\ Len(t) = m
        /\ \A k \in 1 .. n : s[k] = [f \in Fields |-> a[f][k - 1]]
        /\ \A k \in 1 .. m : t[k] = [f \in Fields |-> a[f][k - 1]]
    <2>1. m \in 0 .. N
      BY NAssumption
    <2>2. QED
      BY <2>1, RowsBelowType
  <1> HIDE DEF s, t
  <1>2. CASE m = 0
    <2>1. SubSeq(s, 1, m) = <<>>
      BY <1>2, SubSeqEmpty
    <2>2. t = <<>>
      BY <1>1, <1>2, EmptySeq
    <2>3. QED
      BY <2>1, <2>2 DEF Log!Prefix, s, t
  <1>3. CASE m # 0
    <2>1. m \in 1 .. Len(s) /\ 1 \in 1 .. Len(s) + 1
      BY <1>1, <1>3, NAssumption
    <2>2. /\ SubSeq(s, 1, m) \in Seq([Fields -> Val]) /\ Len(SubSeq(s, 1, m)) = m
          /\ \A k \in 1 .. m : SubSeq(s, 1, m)[k] = s[k]
      BY <1>1, <2>1, NAssumption
    <2>3. ASSUME NEW k \in 1 .. m
          PROVE  SubSeq(s, 1, m)[k] = t[k]
      <3>1. k \in 1 .. n
        BY NAssumption
      <3>2. QED
        BY <1>1, <2>2, <3>1
    <2>4. SubSeq(s, 1, m) = t
      BY <1>1, <2>2, <2>3, SeqEqual
    <2>5. QED
      BY <2>4 DEF Log!Prefix, s, t
  <1>4. QED
    BY <1>2, <1>3

\* Moving the marker up by one takes in one row at the end.
LEMMA RowsBelowAppend ==
  ASSUME NEW a \in Arrays, NEW n \in 0 .. N - 1
  PROVE  \E row \in [Fields -> Val] : RowsBelow(a, n + 1) = Append(RowsBelow(a, n), row)
  <1> DEFINE row == [f \in Fields |-> a[f][n]]
             s == RowsBelow(a, n)
             t == RowsBelow(a, n + 1)
  <1>1. row \in [Fields -> Val]
    BY NAssumption DEF Arrays, Rows
  <1>2. n \in 0 .. N /\ n + 1 \in 0 .. N /\ n \in Nat /\ (n + 1) - 1 = n
    BY NAssumption
  <1>3. /\ s \in Seq([Fields -> Val]) /\ Len(s) = n /\ t \in Seq([Fields -> Val]) /\ Len(t) = n + 1
        /\ \A k \in 1 .. n : s[k] = [f \in Fields |-> a[f][k - 1]]
        /\ \A k \in 1 .. n + 1 : t[k] = [f \in Fields |-> a[f][k - 1]]
    BY <1>2, RowsBelowType
  <1>4. t[n + 1] = row
    BY SMTT(30), <1>2, <1>3
  <1> HIDE DEF row, s, t
  <1>5. /\ Append(s, row) \in Seq([Fields -> Val]) /\ Len(Append(s, row)) = n + 1
        /\ \A k \in 1 .. n : Append(s, row)[k] = s[k]
        /\ Append(s, row)[n + 1] = row
    BY <1>1, <1>3, AppendProperties
  <1>6. ASSUME NEW k \in 1 .. n + 1
        PROVE  t[k] = Append(s, row)[k]
    <2>1. CASE k = n + 1
      BY <1>4, <1>5, <2>1
    <2>2. CASE k \in 1 .. n
      BY <1>3, <1>5, <2>2
    <2>3. k = n + 1 \/ k \in 1 .. n
      BY NAssumption
    <2>4. QED
      BY <2>1, <2>2, <2>3
  <1>7. t = Append(s, row)
    BY <1>2, <1>3, <1>5, <1>6, SeqEqual
  <1>8. QED
    BY <1>1, <1>7 DEF s, t

-----------------------------------------------------------------------------
\* What the log sees of a state of the store: a committed row is an accepted one.
LEMMA LogView ==
  ASSUME SInv
  PROVE  /\ metaDisk.done \in 0 .. N /\ meta.done \in 0 .. N /\ done \in 0 .. N
         /\ metaDisk.done <= meta.done
         /\ cache \in Arrays /\ disk \in Arrays
         /\ \A n \in 0 .. meta.done : RowsBelow(disk, n) = RowsBelow(cache, n)
         /\ AcceptedRows = RowsBelow(cache, IF pc = "down" THEN meta.done ELSE done)
         /\ pc # "down" => meta.done <= done
  <1>1. /\ metaDisk.done \in 0 .. N /\ meta.done \in 0 .. N /\ done \in 0 .. N
        /\ metaDisk.done <= meta.done /\ cache \in Arrays /\ disk \in Arrays
        /\ pc # "down" => meta.done <= done
    BY DEF SInv, TypeOK, Metas, MarkersOrdered, InSession
  <1>2. ASSUME NEW n \in 0 .. meta.done
        PROVE  RowsBelow(disk, n) = RowsBelow(cache, n)
    <2>1. n \in 0 .. N
      BY <1>1, NAssumption
    <2>2. \A f \in Fields, r \in Rows : r < n => disk[f][r] = cache[f][r]
      BY <1>1, NAssumption DEF SInv, FlushedFirst, Synced, Rows
    <2>3. QED
      BY <1>1, <2>1, <2>2, RowsBelowSame
  <1>3. QED
    BY <1>1, <1>2 DEF AcceptedRows

\* A stop keeps what the last checkpoint it finds covers, and loses the rest from the end.
LEMMA StopLoses ==
  ASSUME SInv, NEW n \in metaDisk.done .. meta.done,
         AcceptedRows' = RowsBelow(cache, n),
         RowsBelow(disk, metaDisk.done)' = RowsBelow(disk, metaDisk.done)
  PROVE  Log!Lose
  <1>1. /\ metaDisk.done \in 0 .. N /\ meta.done \in 0 .. N /\ done \in 0 .. N
        /\ metaDisk.done <= meta.done /\ pc # "down" => meta.done <= done
        /\ cache \in Arrays /\ disk \in Arrays
        /\ AcceptedRows = RowsBelow(cache, IF pc = "down" THEN meta.done ELSE done)
    BY LogView
  <1>2. PICK k \in 0 .. N : AcceptedRows = RowsBelow(cache, k) /\ meta.done <= k
    BY <1>1, NAssumption
  <1>3. Len(AcceptedRows) = k /\ Len(RowsBelow(disk, metaDisk.done)) = metaDisk.done
    BY <1>1, <1>2, RowsBelowType
  <1>4. n \in 0 .. k /\ n \in metaDisk.done .. k
    BY <1>1, <1>2, NAssumption
  <1>5. AcceptedRows' = Log!Prefix(AcceptedRows, n)
    BY <1>1, <1>2, <1>4, RowsBelowPrefix
  <1>6. QED
    BY <1>3, <1>4, <1>5 DEF Log!Lose

\* Copying cells from the page cache to the disk changes no committed row.
LEMMA DiskCatchesUp ==
  ASSUME SInv, disk' \in Arrays, metaDisk' = metaDisk,
         \A f \in Fields, r \in Rows : disk'[f][r] = disk[f][r] \/ disk'[f][r] = cache[f][r]
  PROVE  RowsBelow(disk, metaDisk.done)' = RowsBelow(disk, metaDisk.done)
  <1>1. metaDisk.done \in 0 .. N /\ meta.done \in 0 .. N /\ metaDisk.done <= meta.done
          /\ disk \in Arrays
    BY LogView
  <1>2. \A f \in Fields, r \in Rows : r < metaDisk.done => disk'[f][r] = disk[f][r]
    BY <1>1, NAssumption DEF SInv, FlushedFirst, Synced, Rows
  <1>3. RowsBelow(disk', metaDisk.done) = RowsBelow(disk, metaDisk.done)
    BY <1>1, <1>2, RowsBelowSame
  <1>4. QED
    BY <1>3 DEF RowsBelow

\* The steps of a session: a row is accepted when store.done counts it, and the end
\* of the session forgets what was not published.
LEMMA SessionRefines ==
  ASSUME SInv, Session
  PROVE  Log!Accept \/ Log!Lose \/ UNCHANGED Log!vars
  <1>1. /\ metaDisk.done \in 0 .. N /\ meta.done \in 0 .. N /\ done \in 0 .. N
        /\ metaDisk.done <= meta.done
        /\ cache \in Arrays /\ disk \in Arrays
        /\ AcceptedRows = RowsBelow(cache, IF pc = "down" THEN meta.done ELSE done)
    BY LogView
  <1> DEFINE committed == RowsBelow(disk, metaDisk.done)
  <1>2. CASE OpenResume
    <2>1. pc = "down" /\ pc' = "loop" /\ done' = meta.done /\ UNCHANGED <<cache, disk, metaDisk>>
      BY <1>2 DEF OpenResume, FirstRow, files
    <2>2. QED
      BY <1>1, <2>1 DEF AcceptedRows, RowsBelow, Log!vars
  <1>3. CASE AppendWrite \/ AppendTorn
    <2>1. /\ pc = "loop" /\ pc' \in {"digest", "fin"} /\ UNCHANGED <<disk, metaDisk, done>>
          /\ cache' \in Arrays
          /\ \A f \in Fields, r \in Rows : r < done => cache'[f][r] = cache[f][r]
      BY <1>3, WriteAtMarker DEF AppendWrite, AppendTorn
    <2>2. RowsBelow(cache', done) = RowsBelow(cache, done)
      BY <1>1, <2>1, RowsBelowSame
    <2>3. AcceptedRows' = AcceptedRows
      BY <2>1, <2>2 DEF AcceptedRows, RowsBelow
    <2>4. QED
      BY <2>1, <2>3 DEF Log!vars, RowsBelow
  <1>4. CASE \/ \E f \in Fields : AbsorbField(f)
             \/ AbsorbMark \/ NextIndex \/ LoopEnds \/ PublishMeta \/ CheckpointRefused
             \/ CheckpointFails
    <2>1. pc # "down" /\ pc' # "down" /\ UNCHANGED <<cache, disk, metaDisk, done>>
      BY <1>4 DEF AbsorbField, AbsorbMark, NextIndex, LoopEnds, PublishMeta, CheckpointRefused,
                  CheckpointFails, files
    <2>2. QED
      BY <2>1 DEF AcceptedRows, RowsBelow, Log!vars
  <1>5. CASE CountRow
    <2>1. /\ pc = "count" /\ pc' = "appended" /\ done' = done + 1 /\ done \in 0 .. N - 1
          /\ UNCHANGED <<cache, disk, metaDisk>>
      BY <1>1, <1>5, NAssumption DEF CountRow, files, SInv, CountersAgree, TypeOK
    <2>2. AcceptedRows = RowsBelow(cache, done) /\ AcceptedRows' = RowsBelow(cache, done + 1)
      BY <2>1 DEF AcceptedRows, RowsBelow
    <2>3. \E row \in [Fields -> Val] : AcceptedRows' = Append(AcceptedRows, row)
      BY <1>1, <2>1, <2>2, RowsBelowAppend
    <2>4. QED
      BY <2>1, <2>3 DEF Log!Accept, RowsBelow
  <1>6. ASSUME NEW f \in Fields, FlushField(f)
        PROVE  UNCHANGED Log!vars
    <2>1. /\ pc # "down" /\ disk' = [disk EXCEPT ![f] = cache[f]]
          /\ UNCHANGED <<cache, meta, metaDisk, pc, done>>
      BY <1>6 DEF FlushField
    <2>2. disk' \in Arrays /\ \A g \in Fields, r \in Rows :
            disk'[g][r] = disk[g][r] \/ disk'[g][r] = cache[g][r]
      BY <1>1, <2>1 DEF Arrays
    <2>3. RowsBelow(disk, metaDisk.done)' = RowsBelow(disk, metaDisk.done)
      BY <2>1, <2>2, DiskCatchesUp
    <2>4. QED
      BY <2>1, <2>3 DEF AcceptedRows, RowsBelow, Log!vars
  <1>7. CASE CloseStore
    <2>1. pc' = "down" /\ disk' = cache /\ UNCHANGED <<cache, meta, metaDisk>>
      BY <1>7 DEF CloseStore
    <2>2. RowsBelow(disk, metaDisk.done)' = RowsBelow(disk, metaDisk.done)
      BY <1>1, <2>1, DiskCatchesUp
    <2>3. AcceptedRows' = RowsBelow(cache, meta.done)
      BY <2>1 DEF AcceptedRows, RowsBelow
    <2>4. meta.done \in metaDisk.done .. meta.done
      BY <1>1, NAssumption
    <2>5. QED
      BY <2>2, <2>3, <2>4, StopLoses
  <1>8. QED
    BY <1>2, <1>3, <1>4, <1>5, <1>6, <1>7 DEF Session, AppendRow, Checkpoint

\* The environment's steps: a synced metadata file commits, a kill or a power failure
\* loses from the end.
LEMMA EnvironmentRefines ==
  ASSUME SInv, Environment
  PROVE  Log!Commit \/ Log!Lose \/ UNCHANGED Log!vars
  <1>1. /\ metaDisk.done \in 0 .. N /\ meta.done \in 0 .. N /\ done \in 0 .. N
        /\ metaDisk.done <= meta.done /\ cache \in Arrays /\ disk \in Arrays
    BY LogView
  <1>2. metaDisk.done \in 0 .. meta.done /\ meta.done \in 0 .. meta.done
          /\ metaDisk.done \in metaDisk.done .. meta.done
          /\ meta.done \in metaDisk.done .. meta.done
    BY <1>1, NAssumption
  <1>3. CASE Interrupt
    <2>1. pc # "down" /\ pc' # "down" /\ UNCHANGED <<cache, disk, metaDisk, done>>
      BY <1>3, PointsAssumption DEF Interrupt, files, Points
    <2>2. QED
      BY <2>1 DEF AcceptedRows, RowsBelow, Log!vars
  <1>4. CASE Kill
    <2>1. pc' = "down" /\ UNCHANGED files
      BY <1>4 DEF Kill
    <2>2. /\ AcceptedRows' = RowsBelow(cache, meta.done)
          /\ RowsBelow(disk, metaDisk.done)' = RowsBelow(disk, metaDisk.done)
      BY <2>1 DEF AcceptedRows, RowsBelow, files
    <2>3. QED
      BY <1>2, <2>2, StopLoses
  <1>5. CASE Writeback
    <2>1. PICK f \in Fields, r \in Rows : disk' = [disk EXCEPT ![f][r] = cache[f][r]]
      BY <1>5 DEF Writeback
    <2>2. UNCHANGED <<cache, meta, metaDisk, pc, done>>
      BY <1>5 DEF Writeback
    <2>3. disk' \in Arrays /\ \A g \in Fields, q \in Rows :
            disk'[g][q] = disk[g][q] \/ disk'[g][q] = cache[g][q]
      BY <1>1, <2>1 DEF Arrays
    <2>4. RowsBelow(disk, metaDisk.done)' = RowsBelow(disk, metaDisk.done)
      BY <2>2, <2>3, DiskCatchesUp
    <2>5. QED
      BY <2>2, <2>4 DEF AcceptedRows, RowsBelow, Log!vars
  <1>6. CASE SyncMeta
    <2>1. metaDisk' = meta /\ UNCHANGED <<cache, disk, meta, pc, done>>
      BY <1>6 DEF SyncMeta
    <2>2. PICK k \in 0 .. N : AcceptedRows = RowsBelow(cache, k) /\ meta.done <= k
      <3>1. CASE pc = "down"
        BY <1>1, <1>2, <3>1, LogView
      <3>2. CASE pc # "down"
        BY <1>1, <3>2, LogView
      <3>3. QED
        BY <3>1, <3>2
    <2>3. meta.done \in 0 .. k /\ meta.done \in metaDisk.done .. k
      BY <1>1, <2>2, NAssumption
    <2>4. Len(AcceptedRows) = k /\ Len(RowsBelow(disk, metaDisk.done)) = metaDisk.done
      BY <1>1, <2>2, RowsBelowType
    <2>5. RowsBelow(disk, meta.done) = Log!Prefix(AcceptedRows, meta.done)
      BY <1>1, <1>2, <2>2, <2>3, LogView, RowsBelowPrefix
    <2>6. /\ RowsBelow(disk, metaDisk.done)' = RowsBelow(disk, meta.done)
          /\ AcceptedRows' = AcceptedRows
      BY <2>1 DEF AcceptedRows, RowsBelow
    <2>7. QED
      BY <2>3, <2>4, <2>5, <2>6 DEF Log!Commit
  <1>7. CASE PowerLoss
    <2>1. pc' = "down" /\ cache' = disk /\ meta' = metaDisk /\ UNCHANGED <<disk, metaDisk>>
      BY <1>7 DEF PowerLoss
    <2>2. /\ AcceptedRows' = RowsBelow(disk, metaDisk.done)
          /\ RowsBelow(disk, metaDisk.done)' = RowsBelow(disk, metaDisk.done)
      BY <2>1 DEF AcceptedRows, RowsBelow
    <2>3. AcceptedRows' = RowsBelow(cache, metaDisk.done)
      BY <1>2, <2>2, LogView
    <2>4. QED
      BY <1>2, <2>2, <2>3, StopLoses
  <1>8. QED
    BY <1>3, <1>4, <1>5, <1>6, <1>7 DEF Environment

\* The store implements the checkpointed log: no stop of a process or of the machine,
\* wherever it comes, changes, drops or reorders a row that a durable checkpoint covers.
THEOREM StoreImplementsLog == Spec => ImplementsLog
  <1>1. Init => Log!Init
    <2> SUFFICES ASSUME Init PROVE Log!Init
      OBVIOUS
    <2>1. SInv
      BY InitSInv
    <2>2. /\ AcceptedRows = RowsBelow(cache, 0) /\ metaDisk.done = 0
          /\ cache \in Arrays /\ disk \in Arrays
      BY <2>1 DEF Init, AcceptedRows, SInv, TypeOK
    <2>3. /\ Len(RowsBelow(cache, 0)) = 0 /\ RowsBelow(cache, 0) \in Seq([Fields -> Val])
          /\ Len(RowsBelow(disk, 0)) = 0 /\ RowsBelow(disk, 0) \in Seq([Fields -> Val])
      BY <2>2, NAssumption, RowsBelowType
    <2>4. RowsBelow(cache, 0) = <<>> /\ RowsBelow(disk, 0) = <<>>
      BY <2>3, EmptySeq
    <2>5. QED
      BY <2>2, <2>4 DEF Log!Init
  <1>2. SInv /\ [Next]_vars => [Log!Next]_Log!vars
    <2> SUFFICES ASSUME SInv, [Next]_vars PROVE [Log!Next]_Log!vars
      OBVIOUS
    <2>1. CASE Session
      BY <2>1, SessionRefines DEF Log!Next
    <2>2. CASE Environment
      BY <2>2, EnvironmentRefines DEF Log!Next
    <2>3. CASE UNCHANGED vars
      BY <2>3 DEF vars, Log!vars, AcceptedRows, RowsBelow
    <2>4. QED
      BY <2>1, <2>2, <2>3 DEF Next
  <1>3. QED
    BY <1>1, <1>2, SInvInductive, PTL DEF Spec, ImplementsLog, Log!Spec

-----------------------------------------------------------------------------
\* What the hashers have absorbed, outside and inside extend_row_digest.
HashersAgree ==
  /\ InSession /\ pc # "digest" => hashed = RowDigest(cache, hdone)
  /\ pc = "digest" =>
       \A f \in Fields :
         hashed[f] = RowDigest(cache, IF f \in left THEN done ELSE done + 1)[f]

DInv ==
  /\ HashersAgree
  /\ PublishedDigestBindsRows
  /\ DurableDigestBindsRows

NoMidDigest == "digest" \notin InterruptPoints

\* Digests of arrays that hold the same rows are the same.
LEMMA SameDigest ==
  ASSUME NEW a, NEW b, NEW n, \A f \in Fields, r \in Rows : r < n => a[f][r] = b[f][r]
  PROVE  RowDigest(a, n) = RowDigest(b, n)
  BY DEF RowDigest

\* The empty dataset verifies.
LEMMA InitDInv == Init => DInv
  BY DEF Init, DInv, HashersAgree, InSession, PublishedDigestBindsRows, DurableDigestBindsRows,
         Verifies

\* Opening a dataset, and writing a row, whole or torn.
LEMMA OpenWriteDigest ==
  ASSUME SInv, DInv, OpenResume \/ AppendWrite \/ AppendTorn
  PROVE  DInv'
  <1>1. CASE OpenResume
    <2>1. /\ pc' = "loop" /\ hdone' = meta.done /\ hashed' = RowDigest(cache, meta.done)
          /\ UNCHANGED files
      BY <1>1 DEF OpenResume, FirstRow, ReopenedDigest
    <2>2. QED
      BY <2>1 DEF DInv, HashersAgree, PublishedDigestBindsRows, DurableDigestBindsRows, Verifies,
                  RowDigest, files
  <1>2. CASE AppendWrite \/ AppendTorn
    <2>1. /\ pc = "loop" /\ hdone = done /\ pc' \in {"digest", "fin"} /\ left' = Fields
          /\ UNCHANGED <<disk, meta, metaDisk, done, hashed, hdone>>
      BY <1>2 DEF SInv, CountersAgree, AppendWrite, AppendTorn
    <2>2. /\ meta.done \in 0 .. N /\ done \in 0 .. N /\ meta.done <= done
          /\ \A f \in Fields, r \in Rows : r < done => cache'[f][r] = cache[f][r]
      BY <1>2, WriteAtMarker DEF SInv, TypeOK, Metas
    <2>3. \A f \in Fields, r \in Rows : r < meta.done => cache'[f][r] = cache[f][r]
      BY <2>2, NAssumption DEF Rows
    <2>4. RowDigest(cache', done) = RowDigest(cache, done)
            /\ RowDigest(cache', meta.done) = RowDigest(cache, meta.done)
      BY <2>2, <2>3, SameDigest
    <2>5. hashed = RowDigest(cache, done)
      BY <2>1 DEF DInv, HashersAgree, InSession
    <2>6. HashersAgree'
      <3>1. hashed' = RowDigest(cache', hdone') /\ hashed' = RowDigest(cache', done')
        BY <2>1, <2>4, <2>5
      <3>2. QED
        BY <2>1, <3>1 DEF HashersAgree, RowDigest
    <2>7. PublishedDigestBindsRows' /\ DurableDigestBindsRows'
      BY <2>1, <2>4 DEF DInv, PublishedDigestBindsRows, DurableDigestBindsRows, Verifies, RowDigest
    <2>8. QED
      BY <2>6, <2>7 DEF DInv
  <1>3. QED
    BY <1>1, <1>2

\* Absorbing the new row field by field, and counting it.
LEMMA CountDigest ==
  ASSUME SInv, DInv,
         \/ \E f \in Fields : AbsorbField(f)
         \/ AbsorbMark \/ CountRow \/ NextIndex \/ LoopEnds
  PROVE  DInv'
  <1>1. UNCHANGED files
    BY DEF AbsorbField, AbsorbMark, CountRow, NextIndex, LoopEnds, files
  <1>2. PublishedDigestBindsRows' /\ DurableDigestBindsRows'
    BY <1>1 DEF DInv, files, PublishedDigestBindsRows, DurableDigestBindsRows, Verifies, RowDigest
  <1>3. cache \in Arrays /\ done \in 0 .. N /\ hashed \in Hashes
    BY DEF SInv, TypeOK
  <1>4. ASSUME NEW f \in Fields, AbsorbField(f)
        PROVE  HashersAgree'
    <2>1. /\ pc = "digest" /\ f \in left /\ done \in Rows /\ UNCHANGED <<pc, done>>
          /\ left' = left \ {f} /\ hashed' = [hashed EXCEPT ![f][done] = cache[f][done]]
      BY <1>3, <1>4, NAssumption DEF AbsorbField, SInv, CountersAgree, Rows
    <2>2. ASSUME NEW g \in Fields
          PROVE  hashed'[g] = RowDigest(cache', IF g \in left' THEN done' ELSE done' + 1)[g]
      <3>1. hashed[g] = RowDigest(cache, IF g \in left THEN done ELSE done + 1)[g]
        BY <2>1 DEF DInv, HashersAgree
      <3>2. CASE g = f
        <4>1. hashed[f] = [r \in Rows |-> IF r < done THEN cache[f][r] ELSE Nothing]
          BY <3>1, <3>2, <2>1 DEF RowDigest
        <4>2. hashed'[f] = [hashed[f] EXCEPT ![done] = cache[f][done]]
          BY <1>3, <2>1 DEF Hashes
        <4>3. hashed'[f] = [r \in Rows |-> IF r < done + 1 THEN cache[f][r] ELSE Nothing]
          BY SMTT(30), <4>1, <4>2, <1>3, <2>1, NAssumption DEF Rows
        <4>4. QED
          BY <4>3, <3>2, <2>1, <1>1 DEF RowDigest, files
      <3>3. CASE g # f
        <4>1. hashed'[g] = hashed[g] /\ (g \in left' <=> g \in left)
          BY <3>3, <1>3, <2>1 DEF Hashes
        <4>2. QED
          BY <4>1, <3>1, <2>1, <1>1 DEF RowDigest, files
      <3>4. QED
        BY <3>2, <3>3
    <2>3. QED
      BY <2>1, <2>2 DEF HashersAgree
  <1>5. ASSUME AbsorbMark
        PROVE  HashersAgree'
    <2>1. /\ pc = "digest" /\ left = {} /\ hdone = done /\ pc' = "count" /\ hdone' = done + 1
          /\ UNCHANGED hashed
      BY <1>5 DEF AbsorbMark, SInv, CountersAgree
    <2>2. hashed = RowDigest(cache, done + 1)
      BY <1>3, <2>1 DEF DInv, HashersAgree, Hashes, RowDigest
    <2>3. hashed' = RowDigest(cache, hdone)'
      BY <2>1, <2>2, <1>1 DEF RowDigest, files
    <2>4. pc' # "digest"
      BY <2>1
    <2>5. QED
      BY <2>3, <2>4 DEF HashersAgree
  <1>6. ASSUME CountRow \/ NextIndex \/ LoopEnds
        PROVE  HashersAgree'
    <2>1. /\ pc \in {"count", "appended", "loop"} /\ pc' \in {"appended", "ckpt", "loop", "fin"}
          /\ UNCHANGED <<hashed, hdone>>
      BY <1>6 DEF CountRow, NextIndex, LoopEnds
    <2>2. hashed' = RowDigest(cache, hdone)'
      BY <1>1, <2>1 DEF DInv, HashersAgree, InSession, RowDigest, files
    <2>3. pc' # "digest"
      BY <2>1
    <2>4. QED
      BY <2>2, <2>3 DEF HashersAgree
  <1>7. QED
    BY <1>2, <1>4, <1>5, <1>6 DEF DInv

\* The digest of the rows a durable marker covers does not depend on what is still
\* on its way to the disk.
LEMMA DurableKept ==
  ASSUME SInv, DInv, metaDisk' = metaDisk,
         \A f \in Fields, r \in Rows : disk'[f][r] = disk[f][r] \/ disk'[f][r] = cache[f][r]
  PROVE  DurableDigestBindsRows'
  <1>1. metaDisk.done \in 0 .. N /\ meta.done \in 0 .. N /\ metaDisk.done <= meta.done
    BY DEF SInv, TypeOK, Metas, MarkersOrdered
  <1>2. \A f \in Fields, r \in Rows : r < metaDisk.done => disk'[f][r] = disk[f][r]
    BY <1>1, NAssumption DEF SInv, FlushedFirst, Synced, Rows
  <1>3. RowDigest(disk', metaDisk.done) = RowDigest(disk, metaDisk.done)
    BY <1>2, SameDigest
  <1>4. QED
    BY <1>3 DEF DInv, DurableDigestBindsRows, Verifies, RowDigest

\* A checkpoint publishes only what the hashers have absorbed.
LEMMA CheckpointDigest ==
  ASSUME SInv, DInv, Checkpoint \/ CloseStore
  PROVE  DInv'
  <1>1. UNCHANGED <<cache, metaDisk, done, hashed, hdone>>
    BY DEF Checkpoint, FlushField, PublishMeta, CheckpointRefused, CheckpointFails, CloseStore,
           files
  <1>2. cache \in Arrays /\ disk \in Arrays
    BY DEF SInv, TypeOK
  <1>3. ASSUME NEW f \in Fields, FlushField(f)
        PROVE  DInv'
    <2>1. UNCHANGED <<meta, pc>> /\ pc \in {"ckpt", "fin"} /\ disk' = [disk EXCEPT ![f] = cache[f]]
      BY <1>3 DEF FlushField
    <2>2. \A g \in Fields, r \in Rows : disk'[g][r] = disk[g][r] \/ disk'[g][r] = cache[g][r]
      BY <1>2, <2>1 DEF Arrays
    <2>3. DurableDigestBindsRows'
      BY <1>1, <2>2, DurableKept
    <2>4. HashersAgree' /\ PublishedDigestBindsRows'
      BY <1>1, <2>1 DEF DInv, HashersAgree, InSession, PublishedDigestBindsRows, Verifies, RowDigest
    <2>5. QED
      BY <2>3, <2>4 DEF DInv
  <1>4. CASE PublishMeta
    <2>1. /\ pc \in {"ckpt", "fin"} /\ pc' \in {"loop", "close"} /\ hdone = done
          /\ meta' = [done |-> done, digest |-> hashed] /\ UNCHANGED disk
      BY <1>4 DEF PublishMeta, MarkerAgrees
    <2>2. hashed = RowDigest(cache, done)
      BY <2>1 DEF DInv, HashersAgree, InSession
    <2>3. QED
      BY <1>1, <2>1, <2>2 DEF DInv, HashersAgree, PublishedDigestBindsRows, DurableDigestBindsRows,
                              Verifies, RowDigest
  <1>5. CASE CheckpointRefused \/ CheckpointFails
    <2>1. pc \in {"ckpt", "fin"} /\ pc' \in {"fin", "close"} /\ UNCHANGED <<disk, meta>>
      BY <1>5 DEF CheckpointRefused, CheckpointFails, files
    <2>2. QED
      BY <1>1, <2>1 DEF DInv, HashersAgree, InSession, PublishedDigestBindsRows,
                        DurableDigestBindsRows, Verifies, RowDigest
  <1>6. CASE CloseStore
    <2>1. disk' = cache /\ pc' = "down" /\ UNCHANGED meta
      BY <1>6 DEF CloseStore
    <2>2. DurableDigestBindsRows'
      BY <1>1, <2>1, DurableKept
    <2>3. QED
      BY <1>1, <2>1, <2>2 DEF DInv, HashersAgree, InSession, PublishedDigestBindsRows, Verifies,
                              RowDigest
  <1>7. QED
    BY <1>3, <1>4, <1>5, <1>6 DEF Checkpoint

\* Ctrl-C outside extend_row_digest, a kill, the kernel and a power failure.
LEMMA EnvironmentDigest ==
  ASSUME SInv, DInv, NoMidDigest, Environment
  PROVE  DInv'
  <1>1. UNCHANGED <<done, hashed, hdone>>
    BY DEF Environment, Interrupt, Kill, Writeback, SyncMeta, PowerLoss, files
  <1>2. CASE Interrupt \/ Kill
    <2>1. UNCHANGED files /\ (pc' = "down" \/ (pc' = "fin" /\ pc \notin {"digest", "down"}))
      BY <1>2, PointsAssumption DEF Interrupt, Kill, NoMidDigest, Points
    <2>2. QED
      BY <1>1, <2>1 DEF DInv, HashersAgree, InSession, PublishedDigestBindsRows,
                        DurableDigestBindsRows, Verifies, RowDigest, files
  <1>3. CASE Writeback
    <2>1. PICK f \in Fields, r \in Rows : disk' = [disk EXCEPT ![f][r] = cache[f][r]]
      BY <1>3 DEF Writeback
    <2>2. UNCHANGED <<cache, meta, metaDisk, pc, left>>
      BY <1>3 DEF Writeback
    <2>3. \A g \in Fields, q \in Rows : disk'[g][q] = disk[g][q] \/ disk'[g][q] = cache[g][q]
      BY <2>1 DEF SInv, TypeOK, Arrays
    <2>4. DurableDigestBindsRows'
      BY <2>2, <2>3, DurableKept
    <2>5. QED
      BY <1>1, <2>2, <2>4 DEF DInv, HashersAgree, InSession, PublishedDigestBindsRows, Verifies,
                              RowDigest
  <1>4. CASE SyncMeta
    <2>1. metaDisk' = meta /\ UNCHANGED <<cache, disk, meta, pc, left>>
      BY <1>4 DEF SyncMeta
    <2>2. RowDigest(disk, meta.done) = RowDigest(cache, meta.done)
      BY SameDigest DEF SInv, FlushedFirst, Synced
    <2>3. DurableDigestBindsRows'
      BY <2>1, <2>2 DEF DInv, PublishedDigestBindsRows, DurableDigestBindsRows, Verifies, RowDigest
    <2>4. QED
      BY <1>1, <2>1, <2>3 DEF DInv, HashersAgree, InSession, PublishedDigestBindsRows, Verifies,
                              RowDigest
  <1>5. CASE PowerLoss
    <2>1. cache' = disk /\ meta' = metaDisk /\ pc' = "down" /\ UNCHANGED <<disk, metaDisk>>
      BY <1>5 DEF PowerLoss
    <2>2. QED
      BY <2>1 DEF DInv, HashersAgree, InSession, PublishedDigestBindsRows, DurableDigestBindsRows,
                  Verifies, RowDigest
  <1>6. QED
    BY <1>2, <1>3, <1>4, <1>5 DEF Environment

\* The two invariants together are inductive.
LEMMA DInvInductive ==
  ASSUME NoMidDigest
  PROVE  Spec => []DInv
  <1>1. SInv /\ DInv /\ [Next]_vars => DInv'
    <2> SUFFICES ASSUME SInv, DInv, [Next]_vars PROVE DInv'
      OBVIOUS
    <2>1. CASE OpenResume \/ AppendRow \/ NextIndex \/ LoopEnds
      BY <2>1, OpenWriteDigest, CountDigest DEF AppendRow
    <2>2. CASE Environment
      BY <2>2, NoMidDigest, EnvironmentDigest
    <2>3. CASE UNCHANGED vars
      BY <2>3 DEF vars, DInv, HashersAgree, InSession, PublishedDigestBindsRows,
                  DurableDigestBindsRows, Verifies, RowDigest
    <2>4. QED
      BY <2>1, <2>2, <2>3, CheckpointDigest DEF Next, Session
  <1>2. QED
    BY <1>1, InitDInv, SInvInductive, PTL DEF Spec

\* The published digest is the digest of exactly the rows below the published
\* marker, at every instant, whatever the sizes and however sessions end.
THEOREM PublishedDigestCorrect ==
  ASSUME NoMidDigest
  PROVE  Spec => []PublishedDigestBindsRows
  BY NoMidDigest, DInvInductive, PTL DEF DInv

\* The same of what a power failure leaves: no durable marker covers a row
\* that was not flushed before it.
THEOREM DurableDigestCorrect ==
  ASSUME NoMidDigest
  PROVE  Spec => []DurableDigestBindsRows
  BY NoMidDigest, DInvInductive, PTL DEF DInv
=============================================================================
