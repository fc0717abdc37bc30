------------------------------ MODULE TracePack ------------------------------
(***************************************************************************)
(* The chunked trace store of the host library                             *)
(* (Software/Python/proact_host/storage.py, ".tracepack"): one writer that *)
(* buffers rows and publishes them as immutable chunk files behind an      *)
(* atomically replaced manifest, and a reader that freezes one manifest    *)
(* and walks its chain of chunks while the writer goes on.                 *)
(*                                                                         *)
(* A flush is five steps (fingerprint, chunk, manifest, state swap,        *)
(* fingerprint kept); an exception, Ctrl-C included, may come between any  *)
(* two of them and reaches the caller, who may flush again, append more or *)
(* give up; the process may die anywhere.                                  *)
(*                                                                         *)
(* Simplifications: the k-th accepted row is the number k; files get the   *)
(* next number for their fresh uuid; _atomic_write publishes a whole file  *)
(* or nothing, and survives a process, not a power, failure (storage.py    *)
(* makes no such promise); SHA-256 is the content; field widths are left   *)
(* out; whole-dataset snapshots (npz, hdf5) are one atomic write.          *)
(*                                                                         *)
(* A definition marked (mutant) is wrong on purpose: a plausible slip that *)
(* takes the place of the definition after it to show that the properties  *)
(* notice.                                                                 *)
(***************************************************************************)
EXTENDS Naturals, Sequences, FiniteSets

CONSTANTS
  None,                 \* Python's None, and a file that is not there
  ChunkRows,            \* chunk_rows: rows buffered before an automatic flush
  Expected,             \* the rows stored with an expected output
  MaxRows,              \* bound: rows accepted
  MaxFiles,             \* bound: chunk files, orphans included
  MaxNotes,             \* bound: entries of the failure log
  MaxFaults             \* bound: exceptions out of a flush

ASSUME ChunkRowsAssumption == ChunkRows \in Nat \ {0}
ASSUME ExpectedAssumption == Expected \subseteq 1 .. MaxRows
ASSUME BoundAssumption ==
  MaxRows \in Nat /\ MaxFiles \in Nat /\ MaxNotes \in Nat /\ MaxFaults \in Nat

VARIABLES
  accepted,             \* rows accepted so far
  buffer,               \* _state["records"]: rows accepted and not yet released
  state,                \* the rest of _state
  notes,                \* length of the failure log
  last,                 \* _last_checkpoint
  chunks,               \* the chunk files of the directory, in order of creation
  manifest,             \* manifest.json
  pc,                   \* where the writer is
  new,                  \* the local variables of the flush in progress
  outcome,              \* how the last flush ended; "open" once something was added
  faults,
  rpc, frozen, chain, pred, cursor, result    \* the reader

writer == <<accepted, buffer, state, notes, last, chunks, manifest, pc, new, outcome, faults>>
reader == <<rpc, frozen, chain, pred, cursor, result>>
vars == <<writer, reader>>

Files == 1 .. MaxFiles
Descriptor == [file : Files, start : 0 .. MaxRows, count : 1 .. MaxRows, sha : Seq(1 .. MaxRows)]
Link == Descriptor \cup {None}
Chunk == [rows : Seq(1 .. MaxRows), prev : Link]
State == [committed : 0 .. MaxRows, head : Link, files : 0 .. MaxFiles, expected : 0 .. MaxRows]
ASSUME NoneAssumption ==
  /\ None \notin Descriptor /\ None \notin Chunk /\ None \notin Nat \X Nat
  /\ None \notin [rows : State, notes : 0 .. MaxNotes]

Fingerprint == <<state.committed + Len(buffer), notes>>

TypeOK ==
  /\ accepted \in 0 .. MaxRows /\ notes \in 0 .. MaxNotes /\ faults \in 0 .. MaxFaults
  /\ buffer \in Seq(1 .. MaxRows)
  /\ state \in State /\ new \in State
  /\ last = None \/ last \in (0 .. MaxRows) \X (0 .. MaxNotes)
  /\ chunks \in Seq(Chunk) /\ Len(chunks) <= MaxFiles
  /\ manifest = None \/ manifest \in [rows : State, notes : 0 .. MaxNotes]
  /\ pc \in {"idle", "flush", "chunk", "manifest", "swap", "keep", "dead"}
  /\ outcome \in {"open", "returned", "raised"}
  /\ rpc \in {"idle", "walk", "rows", "done", "error"}
  /\ frozen \in State /\ chain \in Seq(Descriptor) /\ pred \in Link
  /\ cursor \in 0 .. MaxRows /\ result \in Seq(1 .. MaxRows)

Empty == [committed |-> 0, head |-> None, files |-> 0, expected |-> 0]

Init ==
  /\ accepted = 0 /\ notes = 0 /\ faults = 0
  /\ buffer = <<>> /\ state = Empty /\ new = Empty /\ last = None
  /\ chunks = <<>> /\ manifest = None
  /\ pc = "idle" /\ outcome = "open"
  /\ rpc = "idle" /\ frozen = Empty /\ chain = <<>> /\ pred = None
  /\ cursor = 0 /\ result = <<>>

ExpectedIn(rows) == Cardinality({k \in DOMAIN rows : rows[k] \in Expected})

\* Something is added; a flush that raised stays outstanding.
Reopened == IF outcome = "raised" THEN "raised" ELSE "open"

-----------------------------------------------------------------------------
\* append accepts a whole row and flushes by itself when the buffer is full.
FullTooLate(n) == n > ChunkRows   \* (mutant)
Full(n) == n >= ChunkRows

AppendRow ==
  /\ pc = "idle" /\ accepted < MaxRows
  /\ accepted' = accepted + 1
  /\ buffer' = Append(buffer, accepted')
  /\ outcome' = Reopened
  /\ pc' = IF Full(Len(buffer')) THEN "flush" ELSE "idle"
  /\ UNCHANGED <<state, notes, last, chunks, manifest, new, faults, reader>>

RecordFailure ==
  /\ pc = "idle" /\ notes < MaxNotes
  /\ notes' = notes + 1
  /\ outcome' = Reopened
  /\ UNCHANGED <<accepted, buffer, state, last, chunks, manifest, pc, new, faults, reader>>

\* flush() or close() by the caller.
CallFlush ==
  /\ pc = "idle"
  /\ pc' = "flush"
  /\ UNCHANGED <<accepted, buffer, state, notes, last, chunks, manifest, new, outcome, faults,
                 reader>>

\* Nothing was added since the last flush that returned: nothing to do.
UnchangedRows == last # None /\ last[1] = Fingerprint[1] /\ manifest # None   \* (mutant)
Unchanged == last = Fingerprint /\ manifest # None

Flush ==
  /\ pc = "flush"
  /\ IF Unchanged
       THEN pc' = "idle" /\ outcome' = "returned"
       ELSE pc' = (IF buffer = <<>> THEN "manifest" ELSE "chunk") /\ outcome' = outcome
  /\ new' = state
  /\ UNCHANGED <<accepted, buffer, state, notes, last, chunks, manifest, faults, reader>>

\* A fresh chunk file, linked to the head of the state the flush started from.
RowsRecounted == accepted + Len(buffer)   \* (mutant)
RowsCovered == state.committed + Len(buffer)

WriteChunk ==
  /\ pc = "chunk" /\ Len(chunks) < MaxFiles
  /\ chunks' = Append(chunks, [rows |-> buffer, prev |-> state.head])
  /\ new' = [committed |-> RowsCovered,
             head |-> [file |-> Len(chunks'), start |-> state.committed, count |-> Len(buffer),
                       sha |-> buffer],
             files |-> state.files + 1,
             expected |-> state.expected + ExpectedIn(buffer)]
  /\ pc' = "manifest"
  /\ UNCHANGED <<accepted, buffer, state, notes, last, manifest, outcome, faults, reader>>

WriteManifest ==
  /\ pc = "manifest"
  /\ manifest' = [rows |-> new, notes |-> notes]
  /\ pc' = "swap"
  /\ UNCHANGED <<accepted, buffer, state, notes, last, chunks, new, outcome, faults, reader>>

\* One assignment releases the buffer and advances the count.
BufferKept ==   \* (mutant)
  /\ pc = "swap"
  /\ state' = new /\ buffer' = buffer
  /\ pc' = "keep"
  /\ UNCHANGED <<accepted, notes, last, chunks, manifest, new, outcome, faults, reader>>
SwapState ==
  /\ pc = "swap"
  /\ state' = new /\ buffer' = <<>>
  /\ pc' = "keep"
  /\ UNCHANGED <<accepted, notes, last, chunks, manifest, new, outcome, faults, reader>>

KeepFingerprint ==
  /\ pc = "keep"
  /\ last' = Fingerprint
  /\ pc' = "idle" /\ outcome' = "returned"
  /\ UNCHANGED <<accepted, buffer, state, notes, chunks, manifest, new, faults, reader>>

\* An exception leaves the flush between two of its steps.  Nothing is undone:
\* the chunk may already be referenced by the manifest.
ChunkRemoved ==   \* (mutant)
  IF pc \in {"manifest", "swap", "keep"} /\ new.files > state.files
    THEN [chunks EXCEPT ![new.head.file] = None] ELSE chunks
ChunksAfterFault == chunks

FlushRaises ==
  /\ pc \in {"flush", "chunk", "manifest", "swap", "keep"}
  /\ faults < MaxFaults /\ faults' = faults + 1
  /\ chunks' = ChunksAfterFault
  /\ pc' = "idle" /\ outcome' = "raised"
  /\ UNCHANGED <<accepted, buffer, state, notes, last, manifest, new, reader>>

\* The process dies.  There is no second writer: the directory must be new.
Die ==
  /\ pc # "dead"
  /\ pc' = "dead"
  /\ UNCHANGED <<accepted, buffer, state, notes, last, chunks, manifest, new, outcome, faults,
                 reader>>

-----------------------------------------------------------------------------
\* iter_chunks freezes one manifest ...
ReadManifest ==
  /\ rpc = "idle" /\ manifest # None
  /\ frozen' = manifest.rows
  /\ pred' = frozen'.head /\ cursor' = frozen'.committed /\ chain' = <<>>
  /\ rpc' = "walk"
  /\ UNCHANGED <<writer, result>>

\* ... walks the predecessor links, checking that they join up ...
LinkOK ==
  /\ Len(chain) < frozen.files
  /\ pred.start + pred.count = cursor
  /\ chunks[pred.file] # None
  /\ Len(chunks[pred.file].rows) = pred.count

NotReversed == Append(chain, pred)   \* (mutant)
LinkAdded == <<pred>> \o chain

WalkLink ==
  /\ rpc = "walk" /\ pred # None
  /\ IF LinkOK
       THEN /\ chain' = LinkAdded
            /\ cursor' = pred.start
            /\ pred' = chunks[pred.file].prev
            /\ rpc' = "walk"
       ELSE rpc' = "error" /\ UNCHANGED <<chain, cursor, pred>>
  /\ UNCHANGED <<writer, frozen, result>>

ExpectedInChain ==
  Cardinality({at \in (DOMAIN chain) \X (1 .. MaxRows) :
                 /\ at[2] <= chain[at[1]].count
                 /\ chunks[chain[at[1]].file].rows[at[2]] \in Expected})

ChainOK == cursor = 0 /\ Len(chain) = frozen.files /\ frozen.expected = ExpectedInChain

WalkEnds ==
  /\ rpc = "walk" /\ pred = None
  /\ rpc' = IF ChainOK THEN "rows" ELSE "error"
  /\ UNCHANGED <<writer, frozen, chain, pred, cursor, result>>

\* ... and returns the chunks in order, each checked against its digest.
ReadChunk ==
  /\ rpc = "rows" /\ chain # <<>>
  /\ LET c == Head(chain)
     IN  IF chunks[c.file] # None /\ chunks[c.file].rows = c.sha
           THEN result' = result \o c.sha /\ rpc' = "rows"
           ELSE result' = result /\ rpc' = "error"
  /\ chain' = Tail(chain)
  /\ UNCHANGED <<writer, frozen, pred, cursor>>

ReadEnds ==
  /\ rpc = "rows" /\ chain = <<>>
  /\ rpc' = "done"
  /\ UNCHANGED <<writer, frozen, chain, pred, cursor, result>>

Write ==
  \/ AppendRow \/ RecordFailure \/ CallFlush \/ Flush \/ WriteChunk \/ WriteManifest
  \/ SwapState \/ KeepFingerprint \/ FlushRaises \/ Die
Read == ReadManifest \/ WalkLink \/ WalkEnds \/ ReadChunk \/ ReadEnds

Next == Write \/ Read

Spec == Init /\ [][Next]_vars

-----------------------------------------------------------------------------
\* A read never fails, whatever the writer does meanwhile: publishing more,
\* failing, retrying, dying (storage.py:425, "even during writes").
ReaderNeverRefuses == rpc # "error"

\* A read returns exactly the rows of the checkpoint it froze: none twice after
\* a retried flush, none missing, all in the order they were accepted.
ReaderSeesCheckpoint == rpc = "done" => result = [k \in 1 .. frozen.committed |-> k]

\* When a flush has returned and nothing was added since, the manifest covers
\* every accepted row and every recorded failure: the fingerprint never skips a
\* flush that was needed (storage.py:154-168).
FlushedMeansSaved ==
  outcome = "returned" =>
    /\ manifest # None
    /\ manifest.rows.committed = accepted /\ manifest.notes = notes

\* The writer buffers at most chunk_rows rows unless a flush that raised is
\* still outstanding (docs/STORAGE.md:29, storage.py:5-6).
BufferBounded == Len(buffer) > ChunkRows => outcome = "raised"

\* The rows a reader of the manifest would get.
RowsUpTo[f \in 0 .. Len(chunks)] ==
  IF f = 0 THEN <<>>
  ELSE RowsUpTo[IF chunks[f].prev = None THEN 0 ELSE chunks[f].prev.file] \o chunks[f].rows
Published ==
  IF manifest = None \/ manifest.rows.head = None THEN <<>> ELSE RowsUpTo[manifest.rows.head.file]

Log == INSTANCE CheckpointedLog
         WITH Row <- 1 .. MaxRows,
              accepted <- IF pc = "dead" THEN Published ELSE [k \in 1 .. accepted |-> k],
              committed <- Published

\* The chunked store implements the checkpointed log: a retried, interrupted or
\* abandoned flush never changes, drops or reorders a committed row.
ImplementsLog == Log!Spec
=============================================================================
