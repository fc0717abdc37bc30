----------------------------- MODULE DatasetFiles -----------------------------
(***************************************************************************)
(* The files of one dataset, and the commands that make and use them side  *)
(* by side: acquire.py from its look at the metadata to the last export    *)
(* (Acquisition/acquire.py), the creation, migration and filling of the    *)
(* native files (acq/store.py, acq/native.py, acq/run.py), the analyses    *)
(* with their reports (acq/analysis.py), the exports (acq/exporters.py),   *)
(* and the two advisory locks that are all the commands share              *)
(* (acq/locking.py).                                                       *)
(*                                                                         *)
(* Every command is a process that may raise or be killed between any two  *)
(* steps.  A row holds the seed of the random stream it was captured with, *)
(* or 0 where nothing was captured; the seed stands for all settings of    *)
(* the capture signature.  Files that are replaced atomically change in    *)
(* one step: their temporary names are nobody's input.  Appending a row    *)
(* and publishing the metadata are one step each; NativeStore has their    *)
(* steps.  TVLA and CPA publish in the same way, and are one analysis.     *)
(*                                                                         *)
(* A definition marked (mutant) is wrong on purpose: a plausible slip that *)
(* takes the place of the definition after it to show that the properties  *)
(* notice.                                                                 *)
(***************************************************************************)
EXTENDS Integers, Sequences, FiniteSets

CONSTANTS
  Process,              \* the processes, as numbers
  N,                    \* rows of the dataset
  Fields,               \* its sidecars, as a sequence: the order they are written in
  MaxCommands,          \* bound: commands given
  MaxStops              \* bound: exceptions and kills

ASSUME DatasetAssumption ==
  /\ Process \subseteq Nat \ {0} /\ IsFiniteSet(Process) /\ N \in Nat \ {0}
  /\ Fields \in Seq(STRING) /\ Fields # <<>>
  /\ \A j, k \in 1 .. Len(Fields) : Fields[j] = Fields[k] => j = k
  /\ MaxCommands \in Nat /\ MaxStops \in Nat

VARIABLES
  \* the native dataset
  trace,                \* _traces.npy
  side,                 \* the sidecars
  meta,                 \* _meta.npz
  \* what is made from it
  h5,                   \* rows in the HDF5 copy; -1: there is none
  csv, marker,          \* the generation of the CSV file, and that its marker certifies
  artifact,             \* the generation of each analysis artifact
  report,               \* the generation and the rows of each report
  comparison,           \* the two generations a raw/aligned comparison binds
  \* the locks
  bench, lock,
  \* the processes
  proc,
  \* history
  commands, stops

native == <<trace, side, meta>>
exports == <<h5, csv, marker>>
analysis == <<artifact, report, comparison>>
locks == <<bench, lock>>
history == <<commands, stops>>
vars == <<native, exports, analysis, locks, proc, history>>

Absent == <<>>
Blank == [n \in 1 .. N |-> 0]
Sides == {Fields[k] : k \in 1 .. Len(Fields)}
Nobody == 0
NoMeta == [schema |-> "none", done |-> 0, seed |-> 0]
Default == 0                          \* --seed 0: the recorded seed, or a random one
RandomSeed(q) == 10 + q
Seeds == {1} \cup {RandomSeed(q) : q \in Process}
Variants == {"raw", "aligned"}
Items == {"arrays", "table"}
NoReport == [gen |-> 0, rows |-> 0]
NoComparison == [v \in Variants |-> 0]

Rows(n) == [k \in 1 .. n |-> trace[k]]
Files == [1 .. N -> Seeds \cup {0}] \cup {Absent}

\* Generations are unique (uuid4): one that no file has, and no running command.
Generations == 1 .. 10 + Cardinality(Process)
Used == {csv, marker} \cup {artifact[v][a] : v \in Variants, a \in Items}
          \cup {report[v].gen : v \in Variants} \cup {comparison[v] : v \in Variants}
          \cup {proc[q].gen : q \in Process}
FreshGeneration == CHOOSE g \in Generations : g \notin Used

Idle == [at |-> "idle", asked |-> Default, seed |-> Default, done |-> 0, todo |-> 0,
         gen |-> 0, variant |-> "raw", alone |-> FALSE, made |-> [v \in Variants |-> NoReport]]

TypeOK ==
  /\ trace \in Files /\ side \in [Sides -> Files]
  /\ meta \in [schema : {"none", "legacy", "v2"}, done : 0 .. N, seed : Seeds \cup {0}]
  /\ h5 \in -1 .. meta.done /\ {csv, marker} \subseteq Generations \cup {0}
  /\ \A v \in Variants : report[v].gen \in Generations \cup {0} /\ report[v].rows \in 0 .. meta.done
  /\ {bench, lock} \subseteq Process \cup {Nobody}
  /\ \A q \in Process : proc[q].done \in 0 .. N /\ proc[q].seed \in Seeds \cup {Default}
  /\ commands \in 0 .. MaxCommands /\ stops \in 0 .. MaxStops

\* Nothing yet, or sidecars whose traces and metadata somebody has moved away, or a
\* dataset of the time when the rows were kept inside the metadata.
Init ==
  /\ \/ /\ trace = Absent /\ meta = NoMeta
        /\ side \in [Sides -> {Absent, [k \in 1 .. N |-> 1]}]
     \/ /\ side = [f \in Sides |-> Absent]
        /\ \E n \in 1 .. N : /\ meta = [schema |-> "legacy", done |-> n, seed |-> 1]
                             /\ trace = [k \in 1 .. N |-> IF k <= n THEN 1 ELSE 0]
  /\ h5 = -1 /\ csv = 0 /\ marker = 0
  /\ artifact = [v \in Variants |-> [a \in Items |-> 0]]
  /\ report = [v \in Variants |-> NoReport] /\ comparison = NoComparison
  /\ bench = Nobody /\ lock = Nobody
  /\ proc = [q \in Process |-> Idle] /\ commands = 0 /\ stops = 0

-----------------------------------------------------------------------------
At(q, p) == proc[q].at = p
Goto(q, p) == proc' = [proc EXCEPT ![q].at = p]

\* flock, without waiting; another descriptor of the same process conflicts too.
TakeLock(q, then, busy) ==
  IF lock = Nobody THEN lock' = q /\ Goto(q, then) ELSE UNCHANGED lock /\ Goto(q, busy)

-----------------------------------------------------------------------------
(* acquire.py before the capture: no lock is held.                         *)

Begin(q) ==
  /\ At(q, "idle") /\ commands < MaxCommands
  /\ commands' = commands + 1
  /\ \/ \E s \in {Default, 1} :
          proc' = [proc EXCEPT ![q] = [Idle EXCEPT !.at = "peek", !.asked = s, !.seed = s]]
     \/ \E v \in Variants :
          proc' = [proc EXCEPT ![q] = [Idle EXCEPT !.at = "analyse", !.alone = TRUE, !.variant = v]]
     \/ \E e \in {"h5", "csv"} :
          proc' = [proc EXCEPT ![q] = [Idle EXCEPT !.at = e, !.alone = TRUE]]
  /\ UNCHANGED <<native, exports, analysis, locks, stops>>

\* The recorded seed, the row count, the signature if there is one.
DrawsItsSeedHere(q) ==   \* (mutant)
  IF meta.schema = "none" THEN RandomSeed(q) ELSE meta.seed
PeekedSeed(q) == IF meta.schema = "none" THEN Default ELSE meta.seed

Peek(q) ==
  /\ At(q, "peek")
  /\ LET seed == IF proc[q].seed = Default THEN PeekedSeed(q) ELSE proc[q].seed
         next == CASE meta.schema = "v2" /\ seed # meta.seed -> {"mismatch"}
                   [] meta.schema # "none" /\ meta.done = N -> {"finalise"}
                   [] OTHER -> {"bench", "end"}     \* no space, or the user says no
     IN \E p \in next : proc' = [proc EXCEPT ![q].at = p, ![q].seed = seed]
  /\ UNCHANGED <<native, exports, analysis, locks, history>>

\* NativeDataset: the pair of files, the sidecars, the digest of the rows below done.
Complete(f, n) == f # Absent /\ \A k \in 1 .. n : f[k] = meta.seed
Readable ==
  /\ meta.schema # "none" /\ trace # Absent
  /\ meta.schema = "v2" => /\ Complete(trace, meta.done)
                           /\ \A f \in Sides : Complete(side[f], meta.done)

\* A complete dataset is finished without the bench, opened without a lock.
Finalise(q) ==
  /\ At(q, "finalise")
  /\ \/ Readable /\ meta.done = N /\ Goto(q, "analyse")
     \/ Readable /\ meta.done = N /\ Goto(q, "end")     \* no space, or the user says no
     \/ ~(Readable /\ meta.done = N) /\ Goto(q, "end")
  /\ UNCHANGED <<native, exports, analysis, locks, history>>

-----------------------------------------------------------------------------
(* run: the bench, the dataset, the seed, the files, the rows.             *)

TakeBench(q) ==
  /\ At(q, "bench")
  /\ IF bench = Nobody THEN bench' = q /\ Goto(q, "lock") ELSE UNCHANGED bench /\ Goto(q, "end")
  /\ UNCHANGED <<native, exports, analysis, lock, history>>

TakeDataset(q) ==
  /\ At(q, "lock")
  /\ TakeLock(q, "session", "busy")
  /\ bench' = IF lock = Nobody THEN bench ELSE Nobody
  /\ UNCHANGED <<native, exports, analysis, history>>

\* The seed is settled once, under the locks.
ResolveSeed(q) ==
  /\ At(q, "session")
  /\ proc' = [proc EXCEPT ![q].at = "alloc",
                          ![q].seed = IF @ # Default THEN @
                                      ELSE IF meta.schema = "none" THEN RandomSeed(q) ELSE meta.seed]
  /\ UNCHANGED <<native, exports, analysis, locks, history>>

\* What is there must be the requested dataset, and whole; nothing is repaired.
SettingsTrusted(q) == TRUE   \* (mutant)
SettingsMatch(q) == proc[q].seed = meta.seed

OrphansIgnored == TRUE   \* (mutant)
NoOrphans == \A f \in Sides : side[f] = Absent

ResumesAtStart == 0   \* (mutant)
ResumeIndex == meta.done

Alloc(q) ==
  /\ At(q, "alloc")
  /\ \/ /\ (trace = Absent) # (meta.schema = "none") /\ Goto(q, "release")
     \/ /\ trace = Absent /\ meta.schema = "none"
        /\ Goto(q, IF NoOrphans THEN "fresh" ELSE "release")
     \/ /\ trace # Absent /\ meta.schema # "none"
        /\ \/ ~SettingsMatch(q) /\ Goto(q, "mismatched")
           \/ /\ SettingsMatch(q) /\ meta.schema = "v2"
              /\ IF Readable THEN proc' = [proc EXCEPT ![q].at = "capture", ![q].done = ResumeIndex]
                 ELSE Goto(q, "release")
           \/ /\ SettingsMatch(q) /\ meta.schema = "legacy"
              /\ proc' = [proc EXCEPT ![q].at = "migrate", ![q].done = meta.done, ![q].todo = 1]
  /\ UNCHANGED <<native, exports, analysis, locks, history>>

\* The arrays, one by one, each whole before it has its name; the metadata last.
WriteTrace(q) ==
  /\ At(q, "fresh")
  /\ trace' = Blank
  /\ proc' = [proc EXCEPT ![q].at = "create", ![q].todo = 1]
  /\ UNCHANGED <<side, meta, exports, analysis, locks, history>>

LastFileSkipped(q) ==   \* (mutant)
  IF proc[q].todo + 1 < Len(Fields) THEN proc[q].at ELSE "publish"
AfterSidecar(q) == IF proc[q].todo < Len(Fields) THEN proc[q].at ELSE "publish"

WriteSidecar(q) ==
  /\ proc[q].at \in {"create", "migrate"}
  /\ side' = [side EXCEPT ![Fields[proc[q].todo]] =
                IF At(q, "create") THEN Blank
                ELSE [k \in 1 .. N |-> IF k <= proc[q].done THEN meta.seed ELSE 0]]
  /\ proc' = [proc EXCEPT ![q].at = AfterSidecar(q), ![q].todo = @ + 1]
  /\ UNCHANGED <<trace, meta, exports, analysis, locks, history>>

\* The first metadata of a created dataset, or the v2 metadata of a legacy one.
PublishMeta(q) ==
  /\ At(q, "publish")
  /\ meta' = [schema |-> "v2", done |-> proc[q].done, seed |-> proc[q].seed]
  /\ Goto(q, "capture")
  /\ UNCHANGED <<trace, side, exports, analysis, locks, history>>

AppendRow(q) ==
  /\ At(q, "capture") /\ proc[q].done < N
  /\ LET k == proc[q].done + 1
     IN /\ trace' = [trace EXCEPT ![k] = proc[q].seed]
        /\ side' = [f \in Sides |-> [side[f] EXCEPT ![k] = proc[q].seed]]
        /\ \E p \in {"capture", "checkpoint"} :
             proc' = [proc EXCEPT ![q].done = k, ![q].at = p]
  /\ UNCHANGED <<meta, exports, analysis, locks, history>>

\* The periodic checkpoint, and the last one, after which the store is closed.
Checkpoint(q) ==
  /\ At(q, "checkpoint") \/ (At(q, "capture") /\ proc[q].done = N)
  /\ meta' = [meta EXCEPT !.done = proc[q].done]
  /\ Goto(q, IF At(q, "checkpoint") THEN "capture" ELSE "release")
  /\ UNCHANGED <<trace, side, exports, analysis, locks, history>>

\* The inner lock first.  Only a session that has filled the dataset goes on.
Release(q) ==
  /\ proc[q].at \in {"release", "mismatched"}
  /\ lock' = Nobody
  /\ Goto(q, IF At(q, "release") THEN "unbench" ELSE "mismatch")
  /\ UNCHANGED <<native, exports, analysis, bench, history>>

Unbench(q) ==
  /\ proc[q].at \in {"unbench", "mismatch"}
  /\ bench' = IF bench = q THEN Nobody ELSE bench
  /\ Goto(q, IF At(q, "unbench") /\ proc[q].done = N THEN "analyse" ELSE "end")
  /\ UNCHANGED <<native, exports, analysis, lock, history>>

-----------------------------------------------------------------------------
(* analysis.py: a report is the completion marker of its artifacts, and a  *)
(* comparison of two reports.                                              *)

TakeForAnalysis(q) ==
  /\ At(q, "analyse")
  /\ TakeLock(q, "invalidate", IF proc[q].alone THEN "busy" ELSE "h5")
  /\ UNCHANGED <<native, exports, analysis, bench, history>>

ComparisonKept == UNCHANGED comparison   \* (mutant)
ComparisonDropped == comparison' = NoComparison

InvalidateComparison(q) ==
  /\ At(q, "invalidate")
  /\ ComparisonDropped
  /\ Goto(q, "read")
  /\ UNCHANGED <<native, exports, artifact, report, locks, history>>

\* The dataset is read and analysed before the old marker goes.
ReportKept(v) == UNCHANGED report   \* (mutant)
ReportDropped(v) == report' = [report EXCEPT ![v] = NoReport]

StartPublication(q) ==
  /\ At(q, "read")
  /\ IF Readable
     THEN /\ ReportDropped(proc[q].variant)
          /\ proc' = [proc EXCEPT ![q].at = "arrays", ![q].gen = FreshGeneration, ![q].done = meta.done]
     ELSE Goto(q, "unlock") /\ UNCHANGED report
  /\ UNCHANGED <<native, exports, artifact, comparison, locks, history>>

WriteArtifact(q) ==
  /\ proc[q].at \in Items
  /\ artifact' = [artifact EXCEPT ![proc[q].variant][proc[q].at] = proc[q].gen]
  /\ Goto(q, IF At(q, "arrays") THEN "table" ELSE "report")
  /\ UNCHANGED <<native, exports, report, comparison, locks, history>>

WriteReport(q) ==
  /\ At(q, "report")
  /\ LET v == proc[q].variant
         r == [gen |-> proc[q].gen, rows |-> proc[q].done]
     IN /\ report' = [report EXCEPT ![v] = r]
        /\ proc' = [proc EXCEPT ![q].made[v] = r, ![q].gen = 0, ![q].variant = "aligned",
                                ![q].at = IF proc[q].alone THEN "unlock"
                                          ELSE IF v = "raw" THEN "read" ELSE "compare"]
  /\ UNCHANGED <<native, exports, artifact, comparison, locks, history>>

\* Both reports are still the ones just made, over the same rows.
WriteComparison(q) ==
  /\ At(q, "compare")
  /\ IF /\ report = proc[q].made
        /\ \A v \in Variants, a \in Items : artifact[v][a] = report[v].gen
        /\ report["raw"].rows = report["aligned"].rows
     THEN comparison' = [v \in Variants |-> report[v].gen]
     ELSE UNCHANGED comparison
  /\ proc' = [proc EXCEPT ![q].at = "unlock", ![q].made = Idle.made]
  /\ UNCHANGED <<native, exports, artifact, report, locks, history>>

\* The exports do not depend on the analysis.
LockHeldOn == UNCHANGED lock   \* (mutant)
LockFreed == lock' = Nobody

EndAnalysis(q) ==
  /\ At(q, "unlock")
  /\ LockFreed
  /\ proc' = [proc EXCEPT ![q].at = IF proc[q].alone THEN "end" ELSE "h5", ![q].gen = 0,
                          ![q].made = Idle.made]
  /\ UNCHANGED <<native, exports, analysis, bench, history>>

-----------------------------------------------------------------------------
(* exporters.py: each export takes the lock for itself.                    *)

TakeForExport(q) ==
  /\ proc[q].at \in {"h5", "csv"}
  /\ TakeLock(q, IF At(q, "h5") THEN "h5write" ELSE "csvwrite", "busy")
  /\ UNCHANGED <<native, exports, analysis, bench, history>>

AllRows == N   \* (mutant)
ValidRows == meta.done

ExportH5(q) ==
  /\ At(q, "h5write")
  /\ h5' = IF Readable THEN ValidRows ELSE h5
  /\ Goto(q, IF Readable THEN "h5done" ELSE "exported")
  /\ UNCHANGED <<native, csv, marker, analysis, locks, history>>

EndH5(q) ==
  /\ At(q, "h5done")
  /\ lock' = Nobody
  /\ Goto(q, IF proc[q].alone THEN "end" ELSE "csv")
  /\ UNCHANGED <<native, exports, analysis, bench, history>>

\* The CSV and its marker are complete under temporary names; then the old marker goes.
MarkerKept == UNCHANGED marker   \* (mutant)
MarkerDropped == marker' = 0

DropMarker(q) ==
  /\ At(q, "csvwrite")
  /\ IF Readable
     THEN /\ MarkerDropped
          /\ proc' = [proc EXCEPT ![q].at = "csvfile", ![q].gen = FreshGeneration]
     ELSE Goto(q, "exported") /\ UNCHANGED marker
  /\ UNCHANGED <<native, h5, csv, analysis, locks, history>>

ReplaceCsv(q) ==
  /\ At(q, "csvfile")
  /\ csv' = proc[q].gen
  /\ Goto(q, "csvmarker")
  /\ UNCHANGED <<native, h5, marker, analysis, locks, history>>

ReplaceMarker(q) ==
  /\ At(q, "csvmarker")
  /\ marker' = proc[q].gen
  /\ Goto(q, "exported")
  /\ UNCHANGED <<native, h5, csv, analysis, locks, history>>

EndExport(q) ==
  /\ At(q, "exported")
  /\ lock' = Nobody
  /\ proc' = [proc EXCEPT ![q].at = "end", ![q].gen = 0]
  /\ UNCHANGED <<native, exports, analysis, bench, history>>

End(q) ==
  /\ proc[q].at \in {"end", "busy"}
  /\ proc' = [proc EXCEPT ![q] = Idle]
  /\ UNCHANGED <<native, exports, analysis, locks, history>>

-----------------------------------------------------------------------------
(* Stops.                                                                  *)

Stopped == stops < MaxStops /\ stops' = stops + 1

Recording == {"capture", "checkpoint"}
Acquiring == {"session", "alloc", "fresh", "create", "migrate", "publish"} \cup Recording
Analysing == {"invalidate", "read", "compare", "report"} \cup Items
Exporting == {"h5write", "csvwrite", "csvfile", "csvmarker"}

\* An exception or Ctrl-C on the way: a recording session checkpoints what it has,
\* every context manager releases its lock, and a failed analysis is followed by the
\* exports.
Raises(q) ==
  /\ Stopped
  /\ \/ /\ proc[q].at \in Acquiring
        /\ meta' = IF proc[q].at \in Recording THEN [meta EXCEPT !.done = proc[q].done] ELSE meta
        /\ lock' = Nobody /\ bench' = Nobody
        /\ proc' = [proc EXCEPT ![q] = [Idle EXCEPT !.at = "end"]]
     \/ /\ proc[q].at \in Analysing
        /\ Goto(q, "unlock") /\ UNCHANGED <<meta, locks>>
     \/ /\ proc[q].at \in Exporting
        /\ Goto(q, "exported") /\ UNCHANGED <<meta, locks>>
  /\ UNCHANGED <<trace, side, exports, analysis, commands>>

\* The kernel drops the locks of a dead process.
Kill(q) ==
  /\ Stopped /\ ~At(q, "idle")
  /\ lock' = IF lock = q THEN Nobody ELSE lock
  /\ bench' = IF bench = q THEN Nobody ELSE bench
  /\ proc' = [proc EXCEPT ![q] = Idle]
  /\ UNCHANGED <<native, exports, analysis, commands>>

-----------------------------------------------------------------------------
Works(q) ==
  \/ Peek(q) \/ Finalise(q) \/ TakeBench(q) \/ TakeDataset(q) \/ ResolveSeed(q) \/ Alloc(q)
  \/ WriteTrace(q) \/ WriteSidecar(q) \/ PublishMeta(q) \/ AppendRow(q) \/ Checkpoint(q)
  \/ Release(q) \/ Unbench(q)
  \/ TakeForAnalysis(q) \/ InvalidateComparison(q) \/ StartPublication(q) \/ WriteArtifact(q)
  \/ WriteReport(q) \/ WriteComparison(q) \/ EndAnalysis(q)
  \/ TakeForExport(q) \/ ExportH5(q) \/ EndH5(q)
  \/ DropMarker(q) \/ ReplaceCsv(q) \/ ReplaceMarker(q) \/ EndExport(q)
  \/ End(q)

Next == \E q \in Process : Begin(q) \/ Works(q) \/ Raises(q) \/ Kill(q)

Spec == Init /\ [][Next]_vars

-----------------------------------------------------------------------------
(* Properties.                                                             *)

\* Whatever stops a command and wherever, v2 metadata has all its files, with every
\* row below done in each of them, and legacy metadata its traces: the metadata is
\* the last file of a creation and of a migration (store.py _fresh, _migrate_legacy).
MetadataIsTrue == meta.schema # "none" => Readable

\* All rows below done are of one seed, the recorded one, however many commands with
\* however many seeds have raced for the dataset (store.py _validate_existing,
\* run.py _run_unlocked).
OneExperiment == \A k \in 1 .. meta.done : trace[k] = meta.seed

\* Whoever reads the metadata finds the experiment that it describes, and an HDF5 file
\* or a report never has more rows than it says (TypeOK).
DatasetIsTrue == TypeOK /\ MetadataIsTrue /\ OneExperiment

\* A reader accepts the file that its marker names, byte for byte.
CsvAccepted == marker # 0 /\ csv = marker

\* A reader accepts the CSV file that is there, or there is no marker: an interrupted
\* export is never taken for a finished one, nor a finished one refused (exporters.py
\* _export_csv_unlocked, validate_csv_export).
MarkerCertifies == marker # 0 => CsvAccepted

\* A report is of the artifacts that are there (analysis.py _publication_record).
ReportBindsArtifacts ==
  \A v \in Variants : report[v].gen # 0 => \A a \in Items : artifact[v][a] = report[v].gen

\* A comparison is of the two reports that are there, over the same rows (analysis.py
\* _write_variant_comparison).
ComparisonBindsReports ==
  comparison # NoComparison
  => /\ \A v \in Variants : report[v].gen = comparison[v]
     /\ report["raw"].rows = report["aligned"].rows

\* What is derived from the dataset says the truth of what it was derived from,
\* whenever a reader looks and wherever a command was stopped.
CertificatesAreTrue == MarkerCertifies /\ ReportBindsArtifacts /\ ComparisonBindsReports

Session == {q \in Process : lock = q /\ proc[q].at \in Recording}
Log == INSTANCE CheckpointedLog
         WITH Row <- Seeds,
              accepted <- Rows(IF Session = {} THEN meta.done ELSE proc[lock].done),
              committed <- Rows(meta.done)

\* A creation finds no file that is in use (store.py _alloc).
NothingOverwritten ==
  \A q \in Process : At(q, "create") /\ side' # side => side[Fields[proc[q].todo]] = Absent

\* Many sessions of many processes, one log: a published row never changes and never
\* goes (CheckpointedLog), and no file of an earlier campaign is written over.
CapturedRowsStay == [][[Log!Next]_<<Log!vars>> /\ NothingOverwritten]_vars

\* The dataset is busy for a command only while another process has it, never because
\* of what the command itself still holds (acquire.py main, analysis.py run_requested).
BusyMeansAnother ==
  \A q \in Process : proc'[q].at = "busy" /\ ~At(q, "busy") => lock \notin {q, Nobody}

\* A command that names no seed is never refused for its seed, whoever creates the
\* dataset between its look at the metadata and its locks (acquire.py main, run.py).
DefaultSeedAccepted ==
  \A q \in Process : proc[q].at \in {"mismatch", "mismatched"} => proc[q].asked # Default

\* A command is refused only for what somebody else or its user has done.
RefusalsAreEarned == [][BusyMeansAnother /\ DefaultSeedAccepted']_vars
===============================================================================
