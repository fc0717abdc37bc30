----------------------------- MODULE NativeStore -----------------------------
(***************************************************************************)
(* The native v2 dataset of the acquisition framework: the row memmaps,    *)
(* the incremental row digest and the atomically replaced metadata file of *)
(* Acquisition/acq/store.py and native.py, written by one capture session  *)
(* after another (run.py), each of which may be interrupted by Ctrl-C,     *)
(* killed, or ended by a power failure.                                    *)
(*                                                                         *)
(* Every per-row file (traces, input, out, group, block, ts, key, trigger  *)
(* index) is one member of Fields: an array of Rows cells.  The model      *)
(* keeps two versions of each array: what the processes of the machine see *)
(* (the page cache behind the memmap) and what the disk holds.  msync, or  *)
(* the kernel at a time of its own choosing, copies the first to the       *)
(* second; a power failure copies the second to the first.  os.replace of  *)
(* the metadata file is atomic and becomes durable at some later time.     *)
(*                                                                         *)
(* Simplifications: SHA-256 is the bytes it has absorbed (no collisions);  *)
(* a durable metadata file is complete (the file system orders the data of *)
(* the renamed file before the rename); creation and migration of the      *)
(* files are StoreAlloc's subject, so the dataset starts allocated.        *)
(*                                                                         *)
(* A definition marked (mutant) is wrong on purpose: a plausible slip that *)
(* takes the place of the definition after it to show that the properties  *)
(* notice.                                                                 *)
(***************************************************************************)
EXTENDS Naturals

CONSTANTS
  N,                    \* rows allocated (cfg.traces)
  Chunk,                \* rows between periodic checkpoints (cfg.chunk)
  Fields,               \* the per-row arrays
  Val,                  \* what one cell of an array may hold
  Zero,                 \* the cell content of a freshly allocated file
  Nothing,              \* marks a cell a hasher has not absorbed
  InterruptPoints,      \* places of the loop at which Ctrl-C may arrive
  MaxStops              \* bound: interrupts, failures, kills and power failures

Points == {"loop", "digest", "count", "appended", "ckpt"}

ASSUME NAssumption == N \in Nat \ {0}
ASSUME ChunkAssumption == Chunk \in Nat \ {0}
ASSUME ValAssumption == Zero \in Val /\ Nothing \notin Val
ASSUME PointsAssumption == InterruptPoints \subseteq Points
ASSUME StopsAssumption == MaxStops \in Nat

VARIABLES
  cache, disk,          \* the arrays as seen by processes, and on disk
  meta, metaDisk,       \* the published metadata file, and its durable version
  pc,                   \* where the session is
  done,                 \* store.done
  i,                    \* the capture loop's row index
  hashed,               \* what each field's hasher has absorbed
  hdone,                \* the digest state's own row count
  left,                 \* fields still to absorb, or to flush, in this step
  stops                 \* stops so far

vars == <<cache, disk, meta, metaDisk, pc, done, i, hashed, hdone, left, stops>>
files == <<cache, disk, meta, metaDisk>>

Rows == 0 .. N - 1
Arrays == [Fields -> [Rows -> Val]]
Hashes == [Fields -> [Rows -> Val \cup {Nothing}]]
Metas == [done : 0 .. N, digest : Hashes]

\* The digest of the first n rows of the arrays a.
RowDigest(a, n) ==
  [f \in Fields |-> [r \in Rows |-> IF r < n THEN a[f][r] ELSE Nothing]]

\* A reader, or a resumed session, recomputes the digest and compares.
Verifies(m, a) == m.digest = RowDigest(a, m.done)

TypeOK ==
  /\ cache \in Arrays /\ disk \in Arrays
  /\ meta \in Metas /\ metaDisk \in Metas
  /\ pc \in Points \cup {"down", "fin", "close"}
  /\ done \in 0 .. N /\ i \in 0 .. N /\ hdone \in 0 .. N
  /\ hashed \in Hashes
  /\ left \in SUBSET Fields
  /\ stops \in 0 .. MaxStops

Init ==
  /\ cache = [f \in Fields |-> [r \in Rows |-> Zero]]
  /\ disk = cache
  /\ meta = [done |-> 0, digest |-> RowDigest(cache, 0)]
  /\ metaDisk = meta
  /\ pc = "down"
  /\ done = 0 /\ i = 0 /\ hdone = 0
  /\ hashed = RowDigest(cache, 0)
  /\ left = {}
  /\ stops = 0

-----------------------------------------------------------------------------
\* store.done on opening, and the digest state with the rows below it absorbed.
ResumesAfterMarker == meta.done + 1   \* (mutant)
ResumesAtZero == 0                    \* (mutant)
FirstRow == meta.done

EmptyDigest == RowDigest(cache, 0)    \* (mutant)
ReopenedDigest == RowDigest(cache, FirstRow)

\* A session opens the dataset.  The done marker is authoritative: rows at and
\* above it are ignored, and the digest of the rows below it must agree.  A dataset
\* that does not verify is refused, by this session and every later one, and nothing
\* of it changes.
OpenResume ==
  /\ pc = "down"
  /\ Verifies(meta, cache)
  /\ pc' = "loop"
  /\ done' = FirstRow /\ i' = FirstRow /\ hdone' = FirstRow
  /\ hashed' = ReopenedDigest
  /\ UNCHANGED <<files, left, stops>>

-----------------------------------------------------------------------------
\* TraceStore.append, first half: the row's cells are written, index by index
\* equal to the done marker.
AppendWrite ==
  /\ pc = "loop" /\ i < N /\ i = done
  /\ \E row \in [Fields -> Val] :
       cache' = [f \in Fields |-> [cache[f] EXCEPT ![done] = row[f]]]
  /\ pc' = "digest" /\ left' = Fields
  /\ UNCHANGED <<disk, meta, metaDisk, done, i, hashed, hdone, stops>>

\* The same half cut short (a scope row without a finite trigger index, or a
\* Ctrl-C between two assignments): some cells are written, none are counted.
AppendTorn ==
  /\ pc = "loop" /\ i < N /\ i = done
  /\ stops < MaxStops
  /\ \E row \in [Fields -> Val], F \in SUBSET Fields :
       cache' = [f \in Fields |->
                   IF f \in F THEN [cache[f] EXCEPT ![done] = row[f]] ELSE cache[f]]
  /\ pc' = "fin" /\ left' = Fields
  /\ stops' = stops + 1
  /\ UNCHANGED <<disk, meta, metaDisk, done, i, hashed, hdone>>

\* extend_row_digest: one hasher.update per field, in turn ...
AbsorbField(f) ==
  /\ pc = "digest" /\ f \in left
  /\ hashed' = [hashed EXCEPT ![f][hdone] = cache[f][hdone]]
  /\ left' = left \ {f}
  /\ UNCHANGED <<files, pc, done, i, hdone, stops>>

\* ... then the state's own row count ...
AbsorbMarkForgotten ==   \* (mutant)
  /\ pc = "digest" /\ left = {}
  /\ pc' = "count"
  /\ UNCHANGED <<files, done, i, hashed, hdone, left, stops>>
AbsorbMark ==
  /\ pc = "digest" /\ left = {}
  /\ hdone' = hdone + 1
  /\ pc' = "count"
  /\ UNCHANGED <<files, done, i, hashed, left, stops>>

\* ... and back in append, store.done.
CountRow ==
  /\ pc = "count"
  /\ done' = done + 1
  /\ pc' = "appended"
  /\ UNCHANGED <<files, i, hashed, hdone, left, stops>>

CheckpointLate(n) == n % (Chunk + 1) = 0   \* (mutant)
CheckpointDue(n) == n % Chunk = 0

\* The loop advances its index and decides on a periodic checkpoint.
NextIndex ==
  /\ pc = "appended"
  /\ i' = i + 1
  /\ IF CheckpointDue(i')
       THEN pc' = "ckpt" /\ left' = Fields
       ELSE pc' = "loop" /\ left' = {}
  /\ UNCHANGED <<files, done, hashed, hdone, stops>>

\* The loop ends; the finally clause checkpoints once more.
LoopEnds ==
  /\ pc = "loop" /\ i = N
  /\ pc' = "fin" /\ left' = Fields
  /\ UNCHANGED <<files, done, i, hashed, hdone, stops>>

-----------------------------------------------------------------------------
\* checkpoint refuses a marker other than store.done, and finish_row_digest a
\* digest that covers another number of rows.
MarkerAgrees == i = done /\ hdone = done

\* One memmap.flush of a checkpoint in progress (periodic or emergency).
FlushSkipped(f) ==   \* (mutant)
  /\ pc \in {"ckpt", "fin"} /\ i = done
  /\ f \in left
  /\ left' = left \ {f}
  /\ UNCHANGED <<files, pc, done, i, hashed, hdone, stops>>
FlushField(f) ==
  /\ pc \in {"ckpt", "fin"} /\ i = done
  /\ f \in left
  /\ disk' = [disk EXCEPT ![f] = cache[f]]
  /\ left' = left \ {f}
  /\ UNCHANGED <<cache, meta, metaDisk, pc, done, i, hashed, hdone, stops>>

\* _checkpoint_meta: the digest is bound to the marker and the file replaced.
PublishMeta ==
  /\ pc \in {"ckpt", "fin"} /\ left = {}
  /\ MarkerAgrees
  /\ meta' = [done |-> done, digest |-> hashed]
  /\ pc' = IF pc = "ckpt" THEN "loop" ELSE "close"
  /\ UNCHANGED <<cache, disk, metaDisk, done, i, hashed, hdone, left, stops>>

\* A marker that disagrees makes the checkpoint raise; in the finally clause
\* the error is kept and the handles are closed.
CheckpointRefused ==
  /\ pc \in {"ckpt", "fin"}
  /\ \/ i # done
     \/ left = {} /\ hdone # done
  /\ pc' = IF pc = "ckpt" THEN "fin" ELSE "close"
  /\ left' = IF pc = "ckpt" THEN Fields ELSE {}
  /\ UNCHANGED <<files, done, i, hashed, hdone, stops>>

\* A flush or the metadata write fails (disk full, I/O error).
CheckpointFails ==
  /\ pc \in {"ckpt", "fin"} /\ i = done
  /\ stops < MaxStops
  /\ stops' = stops + 1
  /\ pc' = IF pc = "ckpt" THEN "fin" ELSE "close"
  /\ left' = IF pc = "ckpt" THEN Fields ELSE {}
  /\ UNCHANGED <<files, done, i, hashed, hdone>>

\* TraceStore.close flushes every array and ends the session.
CloseStore ==
  /\ pc = "close"
  /\ disk' = cache
  /\ pc' = "down" /\ left' = {}
  /\ UNCHANGED <<cache, meta, metaDisk, done, i, hashed, hdone, stops>>

-----------------------------------------------------------------------------
\* Ctrl-C is delivered to the loop between two of its steps; the finally
\* clause then makes its emergency checkpoint.
Interrupt ==
  /\ pc \in InterruptPoints
  /\ stops < MaxStops
  /\ stops' = stops + 1
  /\ pc' = "fin" /\ left' = Fields
  /\ UNCHANGED <<files, done, i, hashed, hdone>>

\* The process is killed: no finally clause runs, the page cache survives.
Kill ==
  /\ pc # "down"
  /\ stops < MaxStops
  /\ stops' = stops + 1
  /\ pc' = "down" /\ left' = {}
  /\ UNCHANGED <<files, done, i, hashed, hdone>>

\* The kernel writes one dirty cell back, at any time.
Writeback ==
  /\ \E f \in Fields, r \in Rows :
       /\ disk[f][r] # cache[f][r]
       /\ disk' = [disk EXCEPT ![f][r] = cache[f][r]]
  /\ UNCHANGED <<cache, meta, metaDisk, pc, done, i, hashed, hdone, left, stops>>

\* The last os.replace of the metadata file becomes durable.
SyncMeta ==
  /\ metaDisk # meta
  /\ metaDisk' = meta
  /\ UNCHANGED <<cache, disk, meta, pc, done, i, hashed, hdone, left, stops>>

\* Power fails: what was not on disk is gone.
PowerLoss ==
  /\ stops < MaxStops
  /\ stops' = stops + 1
  /\ cache' = disk /\ meta' = metaDisk
  /\ pc' = "down" /\ left' = {}
  /\ UNCHANGED <<disk, metaDisk, done, i, hashed, hdone>>

AppendRow ==
  \/ AppendWrite \/ AppendTorn
  \/ \E f \in Fields : AbsorbField(f)
  \/ AbsorbMark \/ CountRow

Checkpoint ==
  \/ \E f \in Fields : FlushField(f)
  \/ PublishMeta \/ CheckpointRefused \/ CheckpointFails

Session == OpenResume \/ AppendRow \/ NextIndex \/ LoopEnds
             \/ Checkpoint \/ CloseStore

Environment == Interrupt \/ Kill \/ Writeback \/ SyncMeta \/ PowerLoss

Next == Session \/ Environment

Spec == Init /\ [][Next]_vars

\* The capture program keeps running, and its user runs the command again
\* after every session that ended.
FairSpec == Spec /\ WF_vars(Session)

-----------------------------------------------------------------------------
\* The digest published with a done marker is the digest of exactly the rows
\* below it, at every instant: also while a later row is half written, and
\* after every kind of stop (store.py _checkpoint_meta, native.py
\* finish_row_digest and verify_row_integrity).
PublishedDigestBindsRows == Verifies(meta, cache)

\* The same for what a power failure would leave: a durable done marker never
\* covers a row that is only in the page cache (flush before replace).
DurableDigestBindsRows == Verifies(metaDisk, disk)

\* A session never runs more than one chunk ahead of the published marker, so
\* no stop of the process loses more than cfg.chunk rows (run.py, the periodic
\* checkpoint), wherever in a chunk the session was resumed.
LossBounded == pc # "down" => done <= meta.done + Chunk

\* The rows of the dataset, as the abstract log sees them.
RowsBelow(a, n) == [k \in 1 .. n |-> [f \in Fields |-> a[f][k - 1]]]
AcceptedRows ==
  IF pc = "down" THEN RowsBelow(cache, meta.done) ELSE RowsBelow(cache, done)

Log == INSTANCE CheckpointedLog
         WITH Row <- [Fields -> Val],
              accepted <- AcceptedRows,
              committed <- RowsBelow(disk, metaDisk.done)

\* The store implements the checkpointed log, with the durable checkpoint as
\* the committed prefix: no stop changes, drops or reorders a committed row.
ImplementsLog == Log!Spec

\* Re-running the command completes the dataset, however the earlier sessions
\* ended: no stop leaves a dataset that can never be resumed.
EventuallyComplete == <>[](meta.done = N)
=============================================================================
