# A TLA+ verification of the PROACT host software

PROACT's host software drives a side-channel evaluation chip, records power
traces of it, and keeps and analyses those traces.  The parts that are hard to
get right, and hard to test, are the ones this directory models: what a dataset
on disk is worth after any kind of stop, what a capture campaign of many sessions
may and may not store, whether a record the oscilloscope returns is the one that
was asked for, in which order the reset lines of the chip may move, which of
several threads and processes gets an answer from its one serial line, and
whether what a tool reports at the end is true.

Paths below are relative to the repository; `acq/` stands for
`Acquisition/acq/` and `proact_host/` for `Software/Python/proact_host/`.

## The system

| Part | State it keeps | Operations | Hard about it | Modules |
| --- | --- | --- | --- | --- |
| Native dataset (`acq/store.py`, `acq/native.py`) | row memmaps, `_meta.npz`, an incremental SHA-256 per field | open, append, checkpoint, close, create, migrate | Ctrl-C, kill or power failure between any two steps; page cache against disk; two row counts that must agree | `NativeStore`, `DatasetFiles` |
| Capture loop (`acq/run.py`) | row index, fault counters, latch, last digest, pinned firmware | start a session, warm up, record, reject, reopen, reprogram, checkpoint, emergency checkpoint | sessions resumed many times; handlers inside handlers; checks whose result is consumed by reading it | `CaptureRun` |
| Scope and Husky backends (`acq/backend/`) | instrument settings, trigger index, time limit | configure, re-size, arm, capture, verify, close | read-to-clear registers; records of an earlier row; settings that drift | `ScopeBackend` |
| Targets and preflight (`acq/targets/`, `acq/validate.py`) | the verified core, warm-up and test counts | open, select, verify, reprogram, preflight | old answers and old results that look right | `TargetAdapter` |
| Inputs, TVLA schedule, resume check (`acq/inputs.py`, `acq/checkpoint.py`) | seed, the labels of one block | input and label of row `i`, verify stored rows | rows asked for out of order; sampled checks | `LeakageCampaign`, `TraceViews` |
| Analysis (`acq/analysis.py`, `acq/alignment.py`) | running sums, artifacts and reports | TVLA, CPA, aligned views, comparison | chunk boundaries, 0/0, ties, shifts at the ends; reports of several generations | `LeakageCampaign`, `TraceViews`, `DatasetFiles` |
| Exports and locks (`acq/exporters.py`, `acq/locking.py`) | derived files, completion marker, advisory locks | export, validate; take, release | a marker and the file it certifies are two files; several processes | `DatasetFiles` |
| Chunked host store (`proact_host/storage.py`) | row buffer, chunk chain, manifest | append, record a failure, flush, read | a flush of five steps that may raise between any two; readers beside the writer | `TracePack` |
| Host programs (`proact_host/experiment.py`, `fullcheck.py`, `cli.py`, `monitor.py`) | one port, one scope, one result | capture, run, selfcheck, monitor | late answers; errors at every step of set-up; an exit status that must be true | `HostTools` and the modules it composes |
| ChipWhisperer (`proact_host/capture.py`) | handle, clock path, samples | connect, arm, capture, disconnect | swallowed errors; traces of an earlier shot | `ChipWhisperer` |
| Reset lines and SPI programmer (`proact_host/resets.py`, `programmer.py`) | four GPIO levels, one pin designation | five modes, program, restart, toggles | the order of writes; jobs cut short; what the previous job left | `ResetLines` |
| UART transport and target API (`proact_host/transport.py`) | serial stream, lock file, transaction lock | command and reply, passive read | threads sharing one stream; replies after a timeout | `UartLink`, `Controller` |
| GUI session (`Software/GUI/proact_gui.py`) | one job, one poll, handles | jobs, poll, connect, disconnect, close | a poll that still holds old handles; closing while busy | `GuiSession`, `Operations` |

The capture loop owns the backend, the target and the store and calls them in
turn; it is single-threaded, and what interleaves with it is its environment:
Ctrl-C, the operating system, the instrument, the board, and a user who edits
files and runs the command again.  The host library's GUI runs one job and one
poll at a time in threads of their own; jobs use the transport, the programmer,
the reset controller and the scope.  The commands of the host CLI are sequential
programs over the same library; what makes them hard is the controller at the
other end, which answers late, not at all, or with an old result.  Several
processes share a host through three kinds of lock: one file per serial port, one
per bench, one per dataset.

`PROJECT.json` lists every component with its status, every hazard with the
properties that cover it, and every definition with the source lines it models.

## The modules

### CheckpointedLog: what every store promises

The abstract specification: rows are accepted one at a time, a checkpoint
commits a prefix, the end of a process may lose accepted rows from the end and
never a committed one.  `NativeStore`, `CaptureRun` and `TracePack` each state
`ImplementsLog == Log!Spec` under a refinement mapping; `CapturedRowsStay` of
`DatasetFiles` says that the sessions of many processes still take only the steps
of this log.

### NativeStore: the native v2 dataset

One session after another opens, appends, checkpoints and closes the dataset.

* `cache` and `disk` are the row arrays as processes and as the disk see them;
  `Writeback` (the kernel) and `FlushField` (msync) copy from the first to the
  second, `PowerLoss` the other way.  `meta` and `metaDisk` are the metadata
  file, replaced atomically and made durable later.
* `append` is four steps: the cells (`AppendWrite`, or `AppendTorn` when it is
  cut short), one hasher per field (`AbsorbField`), the digest's own row count
  (`AbsorbMark`), `store.done` (`CountRow`).  `NextIndex` is `i += 1` and the
  decision to checkpoint.  The checkpoint flushes each field, compares the
  three row counts (`MarkerAgrees`) and replaces the metadata.
* `Interrupt` is Ctrl-C at the places of `InterruptPoints`; it leads to the
  emergency checkpoint of the `finally` clause, as the code does.  `Kill` leads
  nowhere: the next session finds what the page cache holds.

A hash is the bytes it absorbed.  A durable metadata file is complete: the
file system is taken to order the data of a renamed file before the rename,
which the code needs and does not enforce (`np.savez` is not followed by
`fsync`).  Creation and legacy migration of the files are in `DatasetFiles`.

### CaptureRun: a campaign

The sessions of `run.py`, from `StartSession` (pin the firmware) over
`Bringup`, `OpenStore`, `WarmUp`, the loop and its handlers to the last
checkpoint.  `rows` is the published dataset; each row carries its waveform and,
for the properties only, the circumstances of its capture: was the instrument
out of its verified state (`spoilt`), which image had this campaign loaded
(`fw`), had the target been warmed up since it was last opened (`warm`), was
the record the third identical one (`third`), was it the first of its session.

* The program's own state is modelled one for one: `last`/`identical` are
  `last_trace_digest`/`identical_run`, `consec` and `qconsec` the two
  consecutive counters, `latch` is `checkpoint_invalid_reason is not None`,
  `claim` the message `acquire.py` derives from `proact_checkpoint_succeeded`.
* Reject categories that are handled alike are one action (`RejectRecord`);
  `RejectStale`, `OutputMismatch` and `TargetFault` are separate because they
  treat the repeat count and the consecutive counters differently.
* Both handlers run through `verify`, `act`, `check`, because the firmware
  files are re-hashed before and after; a warm-up that reopens the link
  (`WarmUpReopens`) has its own two verifications.
* `HalfOpen` says whether a reopen that failed may nevertheless leave a
  working link.  The code does not exclude it: `target.open` may work and `select`
  fail, and then the warm-up that follows a complete reopen is skipped.
  `RowsAreWarm` is checked where a failed reopen leaves no working link.

### ScopeBackend: the instrument and the backends

The program is the caller's life with a backend: `ConnectHusky` (the board
clock), `OpenInstrument`, `WriteSettings`, `CheckSettings`, `ReadPreamble`,
`ReadBaseline`, then for each row `StartRow` to `UseRecord`, at checkpoints
`Verify`, once `SetSamples`, at the end `Close`.  `phase` says whose rows they are
(warm-up and tests of the preflight, or the campaign), because that decides what
`Raised` does with an exception.

* The instrument moves by itself: `Fills` ends the pretrigger part, `Triggered`
  catches an edge when it is ready.  `ter`, `aer` and `errors` are cleared by being
  read, as on the real instruments; `numAcq` and `memory` survive until the next
  acquisition replaces them.
* `TouchSetting`, `TouchStop`, `StrayEdge` and `CommandFails` are disturbances.
* A record is the number of the arm command that started it, so `RecordIsOfThisRow`
  can tell a stale one.  `lateEvent` marks the one window the code leaves open: an
  acquisition that was never stopped fills or triggers after TER and AER were read
  and before `:SINGle`.
* A change at the front panel between the readback and the baseline becomes part
  of the baseline; the code cannot tell it from what the user wanted.

### DatasetFiles: many commands, one dataset

Each process runs the steps of `acquire.py`: look at the metadata (`Peek`), take
the bench and the dataset (`TakeBench`, `TakeDataset`), create, migrate or resume
(`Alloc` to `PublishMeta`), record, release, analyse, export.  Two processes
interleave; every one may raise (`Raises`, with what its context managers and its
`finally` clauses do) or be killed (`Kill`, with what the kernel does).  Files that
the code replaces atomically change in one step, and every other file is written
in as many as it has.  A row is the seed it was captured with.  A generation is a
number that is used once.  A stop during a creation leaves orphans that every later
session refuses until somebody removes them.

### LeakageCampaign and TraceViews: from the schedule to the verdict

`TraceViews` holds the pure functions: the rows a resume samples, the aligned view,
sample coordinates, Welch's statistic, the window of the model, the diagnostics of
the scores.  `LeakageCampaign` runs them as the tools do: sessions record rows
whose labels come from a generator with a cached block (`Labels`, `CacheAfter`),
a resume checks a sample, two sidecar entries may be damaged between sessions
(possible only where no digest covers them, in datasets of the first schema), and
the analysis streams the rows in chunks.  The random stream is any labelling of the
blocks, and the scores of a key guess are any numbers: the leakage models that
produce them are left out.  Arithmetic is exact (integers and fractions), so the
rounding of floating-point sums is outside the model.

### TracePack: the chunked store of the host library

The writer's flush is split where an exception can leave it: fingerprint,
chunk, manifest, state swap, fingerprint kept.  `FlushRaises` fires between any
two, the caller may flush again, append or give up, the process may `Die`.  The
reader freezes a manifest, walks the chain of chunks backwards with the checks
of `_manifest`, and reads them forwards with the checks of `_iter_pack`.  The
`k`-th accepted row is the number `k`, so a duplicated, lost or reordered row
shows in the result.  No power failure: the code promises none.  `TracePack` has
no run of its own: `HostTools` runs it as one of its programs (any caller, any
reader), and `Experiment` is one particular caller.

### ResetLines: the four reset lines

A job (a mode, `program`, `restart_controller`, a toggle of `spi_select`) is
its sequence of pin writes; `WritePin` performs one, `JobFails` cuts the job
short between two.  `chipSelect` is the designation of the `spi_select` pin
while frames are streamed; a pin so designated follows the SPI engine and not
the output register, which is a fact about the external MCP2210.  The initial
levels are those a connection may find; jobs come one at a time because the
GUI (`_run`) and the CLI run them so.

### UartLink: the serial line

State and steps of the line, without the threads that take them: who holds the
lock file of the port (`flock`) and who has the device open (`opened`), what the
host has received and not read (`rx`), what the controller still has to send
(`due`), and which image it runs.  `UartTransport.open` is `TakeFlock` and
`OpenSerial`, `close` is `CloseSerial` and `ReleaseFlock`, `_cmd` is `Send`,
`read_frame` is `SkipText`, `TakeFrame` or `GiveUp` (its time-out),
`read_available` is `ReadAvailable`.

Commands with an answer are numbered and an answer carries the number of its
command.  The program never sees the number: nothing in a frame ties it to a
command and no caller compares the mode byte.  It is what lets a property say
whose answer was taken.  `abandoned` are the commands given up whose answer may
still come.  A frame arrives whole or not at all, so the time-outs inside a
frame (`transport.py:228-234`) are not distinguished from the one before it.
That opening a serial device empties its buffer, that bytes sent to a closed
device are lost, and that the kernel drops both locks of a dead process are
facts about pyserial and Linux the code relies on.

### GuiSession: the GUI's threads, and a CLI process beside them

The Qt thread handles one request or signal at a time: `On...` are the user's
requests that `_run` turns into a worker, `CloseEvent` is `closeEvent`,
`FinishJob` is `_finish_job` together with the `close()` it may call,
`PollTick` and `FinishPoll` are the two ends of `_poll`.

* `job` is the worker: its kind, the step it is at, the command it waits for,
  and the exception it will report.  `job.pc # "idle"` is `_busy`.  `poll` is the
  poll thread with the transport it read when it started, which is what makes
  the stale handle possible.  `poll.pc # "idle"` is `_poll_active`.
* `uart` and `spi` are the handles the window keeps, `serial` the transport
  whose device is really open.  They differ after a `close` that raised: the
  window still names a transport that is shut (`WriteToClosed`).
* `lock` is `UartTransport.lock` of every transport created.  It is reentrant,
  and a worker holds it for a whole capture or programming job; the poll takes
  it only if it is free.
* `rows` is the running capture: the command of each row beside the answer
  stored with it.  `failures` and `cleanStart` exist for the properties.
* `program` with `verify_running` is `Load` to `AwaitBanner`; the banner is text
  in the same buffer as the frames, which the drain before the restart discards.
* `scope` is the handle the window keeps and `husky` the device behind it; they
  differ while `_connect_new_scope` sets up a device nobody else knows of.

Left out: commands without an answer, what the scope does with a row (a waveform
that does not arrive is a failing row; `ChipWhisperer` has the rest), the pins
(`ResetLines`), and the USB plug being pulled.

### HostTools: the programs of the host library at a board

One program runs, chosen by the initial state, with a board, a Husky and perhaps a
GUI that were there before it.

* `Controller` (on `UartLink` and `ChipWhisperer`) is what all programs share: how
  a program opens and leaves the port, is refused it or is interrupted, and the
  controller firmware as its clients and its documentation describe it.  It answers
  in frames only after `CMD_SB`, keeps one result buffer, and sends from it; a core
  that does not finish leaves junk there, the Sw-RV target leaves what was there.
  `says` is what the answer to each command holds, which the program judges;
  whose answer it is, only the properties know.
* `ChipWhisperer` has the steps of `ChipWhispererCapture`: the handle, the clock
  path of the two platforms, the sample count, one shot.  A trace is the number of
  the operation whose trigger it caught.
* `Experiment` is "proact capture": prepare, measure the trigger window, the loop,
  save, close, with a real `TracePack` writer.  `SelfCheck` is the sweep of
  `fullcheck.py`, a table of commands and judgements.  `Operations` is "proact run"
  and the crypto experiment of the GUI.  `TargetAdapter` is the bring-up of an
  acquisition campaign with its preflight.  `MonitorDecoder` is "proact monitor"
  with the line splitter, fed any bytes in any cuts.
* `MaxTroubles` counts the reboots, the answers that are lost and those given up too
  early; answers left by an earlier process are there from the start.

The monitor's bytes are not the frames of the controller: it must cope with any.

A definition marked `(mutant)` in a module is wrong on purpose.  It stands
before the definition it distorts, and is used to confirm that a property
notices the slip; no specification refers to it.

## What is checked

| Run | Shows |
| --- | --- |
| `native_store` | Published and durable digests bind exactly the rows below the marker, through every stop but one inside the row digest; at most a chunk is lost; re-running the command completes the dataset; the store implements the log. |
| `native_store_mid_digest` | Fails: finding 1. |
| `capture` | No published row is spoilt, cold or of another image; the message after Ctrl-C is true; faults are never forgotten; a campaign implements the log. |
| `capture_stale` | The stale rule, exactly as far as it goes; a broken bench ends the session. |
| `scope_backend` | A returned record was started by this arm; an operation starts only when it can be caught; a verification ends a campaign only for a reason; the board clock stays; every session ends with everything released and its time limit restored. |
| `dataset_files` | Metadata, CSV marker, reports and comparison are true whenever they exist; one seed per dataset; published rows stay; nothing is written over; a lock refuses only for another process; a default seed is never refused. |
| `leakage_campaign` | The schedule is balanced and the same in every session; a report on a finished campaign rests on true labels, although a resume samples; streamed results are the direct ones; neither parity, a tie nor a division by zero passes for a finding; the aligned view interpolates and the model's window is inside the record. |
| `host_tools` | What a program stores, prints, reports or accepts is true although answers come late, never, or from an earlier program, cores are dead and the controller reboots; the trace store implements the log with a reader beside it; the monitor loses and hides nothing; every program ends and leaves port, lock file and scope free. |
| `reset_lines` | No order of complete or interrupted jobs wedges the chip or lets the loader disturb it (all jobs but `reset_all`). |
| `reset_lines_all` | Fails: finding 2. |
| `gui_session` | One process has the port; nobody reads an answer another waits for; rows are aligned as long as no answer was late or lost; the banner that confirms an image is of that image; the window closes with everything given back, the scope too; every worker ends. |
| `gui_late_answer` | Fails: finding 3. |

What several properties promise of one thing is one property of the run, a
conjunction of named parts that each state their own case: `PublishedRowsAreSound`
(`CaptureRun`), `JobsReachTheirLevels` (`ResetLines`), `PortHasOneOwner`
(`GuiSession`), `MeasuresAsSetUp` (`ScopeBackend`), `DatasetIsTrue`,
`CertificatesAreTrue`, `CapturedRowsStay` and `RefusalsAreEarned` (`DatasetFiles`),
`LabelsAreTrue`, `StatisticsAreDirect` and `VerdictIsEarned` (`LeakageCampaign`),
`TraceStoreIsSound`, `ResultsAreTrue`, `SelfCheckIsTrue`, `BringUpIsSound`
(`HostTools`) and `MonitorShowsAll` (`MonitorDecoder`).  The type invariant of a
module is a part of the property it belongs to.  Every part has a wrong form of the
code, marked `(mutant)`, that breaks it.

Deadlock is checked in the runs of the stores' sessions, the capture loop and the
reset lines.  It is not checked where a system may really stop: after the last
session of `ScopeBackend`, the last command of `DatasetFiles`, the refusal or report
of `LeakageCampaign`, the end of a program of `HostTools`, and in the GUI when the
user asks for nothing more.

### What the properties of the host programs say, and where they stop

The wording of several properties is as narrow as the code makes it:

* `ValidRowsAreTheirOwn`, `PassedRowsAreRight` and `RunStatusIsTrue` are about
  randomized inputs.  With one fixed input every row has the same right output, and
  a row may be valid with another row's answer, or with the old result of a Sw-RV
  target that never ran.  The trace of a valid row may be another operation's once
  an answer has been given up.
* `DeadCoreNeverPasses` allows for an answer one command late.  With two late
  answers a dead AES2 can pass the decryption check with an earlier core's output,
  and the known-answer test of the AEAD cores has only the right mask to go by.
* `PreflightProvesTarget` is about campaigns that vary their inputs, for the same
  reason; a single known answer of the bring-up cannot show a shifted link either.
* `SampledOnTargetClock` leaves out the bring-up after an FPGA upload, whose errors
  are swallowed (`capture.py:200-208`).
* `SamplesAreMeasured` leaves out a port on which an earlier process left an answer
  unread: `get_timer` then reads a result as a number of cycles.
* "proact capture" reports success when every row was stored, whether or not one of
  them is valid.  `StatusIsTrue` says no more than that.
* `DevicesReleased` promises the scope for the capture programs and for a sweep that
  ended well: when the self-check cannot open the port, it leaves without
  disconnecting the scope it has.
* The monitor command does not flush at its end, so a last line without its newline
  is shown only if two seconds have passed.

### Bounds

Three rows with a chunk of two give a checkpoint in the middle of the data, a
last partial chunk, and a resume at both an even and an odd index; two fields
are enough for a digest that is half extended; two cell values tell a written
cell from a fresh one.  One or two stops give a stop during the handling of a
stop (an interrupted emergency checkpoint, a power failure after a kill).  The
thresholds of the capture loop (20, 60, 120, 40) become 1 or 2: what matters is
that each counter reaches its threshold, and is reset before it.  Fault counters
saturate at `FaultCap` above every threshold.  One change of the firmware files:
a change and a change back between two verifications is invisible to the code.
Four chunk files for three rows leave room for an orphan, and two faults for a
retry that fails again.

In `ScopeBackend` two trials of the warm-up (6 in the code) and one test (20) give a
warm-up that partly times out, two rows a record of an earlier row, and two
disturbances one that hides another.  In `DatasetFiles` two processes, three
commands and two stops let a command meet what two others left behind.  In
`LeakageCampaign` the campaigns have three to six rows in blocks of two or four: a
last short block, a block across two chunks (chunks of one row and of four), and
three sampled rows (64 in the code) that leave rows unsampled; two damaged entries
can keep the balance of a block.  The squared statistic that counts is 1 instead
of 4.5 squared.  Waveforms have three samples and shifts of half a sample up to
more than the correction allows.

In `HostTools` two captured rows with a checkpoint each and a failure, three
operations of a run, two warm-ups (6) and three tests (20), two baud frames (20)
and one trouble: one late answer shifts everything after it, which is the case the
properties are about.  Four bytes, an idle flush of three feeds (20) and two kept
bytes (4096) give a newline, an escape and a binary byte in one line, cut anywhere.
In `GuiSession` three commands with an answer let one answer be late for a capture of
two rows, or a CLI command and a capture share the line; two transports let a poll
keep the handle of the one a connect has replaced; two images let a banner of the
first be in the buffer when the second is loaded; one CLI command can be refused,
run, or be killed at any step.

### Fairness

`NativeStore!FairSpec` assumes that the program and its user go on
(`WF_vars(Session)`): the CLI tells the user to re-run the command, and
`EventuallyComplete` says that doing so suffices.  Stops are bounded and not
fair.  `CaptureRun!FairSpec` assumes only that a started program keeps running
(`WF_vars(InSession /\ Session)`), and that a warm-up ends
(`SF_vars(WarmUp \/ WarmUpFails)`): it gives up at its 120th failure
(`run.py:50-77`), a count the model does not carry.

`ScopeBackend!FairSpec` assumes that the program runs and its clock reaches every
time limit (`WF_vars(Program)`), and nothing of the instrument.

`HostSpec` assumes that the program that was started goes on, that the time of the
monitor runs out, and that the controller sends what it has to send
(`WF_hostVars(World)`).  The last one stands in for time limits that the bound on
troubles cuts off: in the code a time limit alone ends each wait, in the model it
may fire early only as often as the bound allows.

`GuiSession!FairSpec` assumes that the operating system runs the worker and the
poll thread and that Qt delivers their completion signals.  Nothing is assumed of
the user, the controller, the CLI process or the timer that starts polls: a
controller that never answers costs a time-out, which is a step of the worker.

## What is proved

Each proof module holds for every value of the constants that satisfies the
assumptions named in the module it is about; what a run fixes beyond them is a
hypothesis of the theorem and said below.  The arguments share a form: an
invariant that is not inductive is strengthened by what the code relies on and
never writes down, one lemma per action shows that the action keeps it, and a
temporal step closes the theorem.  An action property and a refinement follow
from the same invariant, step by step.

### NativeStore

* `StoreTypeCorrect`, and `StopsLoseAtMostAChunk`: `Spec => []LossBounded`.
* `PublishedDigestCorrect` and `DurableDigestCorrect`, under `NoMidDigest`
  (Ctrl-C does not arrive inside `extend_row_digest`, which finding 1 shows to be
  necessary): the published metadata verifies against the page cache and the
  durable metadata against the disk, always.
* `StoreImplementsLog`: `Spec => ImplementsLog`, wherever Ctrl-C arrives.

`SInv` is the structural half and needs no hypothesis.  A durable marker is never
ahead of a published one and a session never behind it; rows below a published
marker are on disk, and a checkpoint in progress has flushed the fields it no
longer lists; the loop's index, the store's count and the digest's count differ
by at most the step in progress.  `LossBounded` is not inductive: it needs that
none of the indices since the last published marker was due for a checkpoint
(`ChunkInProgress`), and that among any `Chunk` consecutive indices one is
(`DueWithinChunk`), wherever in a chunk the session was resumed.  The digests add
that rows below the marker do not change any more (`append` writes at `done`) and
that the hashers hold exactly the rows below their own count, but for the fields
already absorbed of the row in progress.

### CaptureRun

* `CampaignTypeCorrect`, `SpoiltRowsAreWithheld`, `CtrlCMessageIsTrue`,
  `StaleRuleBounded` and `FaultHistoryKept` for every size, limit and number of
  stops, and `CampaignImplementsLog`: `Spec => ImplementsLog`.
* `RowsBelongToTheirFirmware` under `MaxFileChanges <= 1`: the program compares
  the firmware files only before and after it uses them, so a change that is undone
  in between is unseen.
* `RowsFollowTheirWarmUp` under `Warmup => ~ HalfOpen`: a failed reopening
  that leaves a working link goes on with a target that nothing warmed up.
* `CheckpointsAreSound` puts them together: `PublishedRowsAreSound`.

In `CInv`, a row spoilt while the instrument was out of its verified state is in the
log only with the latch set or the instrument still out of it (`SpoiltRowsNoticed`),
and a checkpoint passes only without either; published rows are a prefix of the
session's; the session's counters start from the published ones; a run of repeated
records is counted once the session has a row of its own.  `FirmwareHeld` and
`WarmHeld` are the two halves that need the hypotheses.

### ScopeBackend

`EveryRowIsSetUp` (`MeasuresAsSetUp`), `RecordsAreOfTheirRows` (`RecordIsOfThisRow`)
and `OnlyTouchedScopesDrift` (the action property `NoFalseAlarm`), for any number of
trial captures (at least one of each sort), rows and disturbances.  The invariant
says what each read-to-clear register tells: a trigger register that reads true
while a row is armed is about the memory of this row (`TriggerIsOfThisRow`), because
each arm cleared it or started a new acquisition, with the one exception that
`lateEvent` marks; and what has set the instrument apart from its baseline is a hand
at it or a command that failed (`Untouched`).

### DatasetFiles

`MetadataTellsTheTruth` (`DatasetIsTrue`), `MarkersTellTheTruth`
(`CertificatesAreTrue`), `RefusalsHaveACause` (`RefusalsAreEarned`) and
`PublishedRowsStay` (`CapturedRowsStay`), for any finite set of processes and any
number of commands and stops.  The invariant is one of mutual exclusion with
knowledge: the dataset's lock is with exactly the process that is at a step between
taking and releasing it (`LockHeld`), and what that process knows of the files at
its step (`KnowsTheFiles`, `KnowsTheMarkers`) is true because nobody else is at
such a step.  `KnowsItsStart` is what may be known without the lock: a default seed
is the recorded one, because the metadata is only ever created once.  That a new
generation exists is a count: the files name at most ten, and every other process
one (`FreshExists`).

### The trace store in the programs of the host library

`HostTools_proofs` is about `TracePack` inside `HostTools`.  `StoreUsedByItsOperations`
(`HostSpec => Spec`) says that every program, cut short anywhere, takes only steps of
the store; `TraceStoreKeepsItsPromises` is `HostSpec => []TraceStoreIsSound`, for any
chunk size and any number of rows, files, notes and failed writes.

A head names its chunk, the chunk its predecessor, and so on: what is behind a head
is a chain of unbounded length.  The invariant does not compute it.  It says that a
chain exists (`Sound`), whose links are in files of their own, join up, hold
consecutive rows and cover the committed ones each once (`Path`); that every state
that somebody holds (the store's, the one a flush prepares, the published one, the one
a reader froze) has one; and that a reader in the middle of its walk has the part
of it after some link (`ReadUpTo`).  Files are only added, so a chain once there
stays (`PathStays`), which is why the reader need not be told of the writer.  That the
count of expected outputs comes out right in the reader's check is a bijection between
the cells of the chunks and the expected rows (`ChainExpected`).  `FlushedMeansSaved`
rests on the fingerprint: it never exceeds what the manifest covers, rows and notes
each, and both only grow.  `NoneAssumption` says that `None` is no value of the
other types.

`TraceStoreImplementsLog` is `HostSpec => ImplementsLog`.  Here the chain has to be
followed, because the refinement mapping (`Published`) reads the files from the head
of the manifest back.  A file names only older ones (`OlderLinks`: it is written with
the head of its time), so the recursion has a value (`ReadsExist`), and along a chain
that value is the rows up to the end of each link (`ChainReads`).  Then an append is
`Accept`, a manifest `Commit`, a death `Lose`, and everything else stutters.

### What the programs of the host library hold

`ProgramsLetGo` of `HostTools_proofs` is `HostSpec => []DevicesReleased`, for every
program, any options and any bound.  `DevicesReleased` speaks of the last phase only
and is not inductive: nothing in it says that a program at `"unlock"` has closed the
device already, or that one that reports success came through the phase that lets
go of the scope.  The invariant (`Given`, also checked by TLC on the instance of the
run) says for each phase of each program what it cannot hold: no lock file before it
is taken and after it is given back (`Unlocked`), no device outside the phases between
(`Shut`), no scope before it is opened and after it is released (`ScopeGiven`), and
how the program ended is known only from the phases that close.  The proof has one
lemma per program and four for the steps on the port that they have in common; the
board and another terminal change none of it (`WorldKeeps`).

### What the programs of the host library say

The same module goes on with `PreflightIsSound` (`BringUpIsSound`),
`SelfCheckBlamesTheDead` (`SelfCheckIsTrue`), `ResultsTrue` (`ResultsAreTrue`, with the
type invariant of the whole host) and `MonitorShowsEverything` (`MonitorShowsAll`), for
every program, plan, order and campaign, every set of dead cores, any number of rows,
operations, tests, commands and troubles.  The inductive invariant is `HostSound`.

Its common half is what is on the line (`LineSound`): answers come in the order of
their commands, each at most once, none of a command that was not sent.  Every step of
every program either loses answers and asks nothing (`Loses`), or takes the first one,
or asks once more (`AsksOne`); two lemmas say what that does to everything said later.
`SessionSound` adds how many answers can be missing.  Then each program has its own
argument about which command an answer belongs to although no frame says so:

* The acquisition (`AcquireSound`): the second attempt of the bring-up begins with an
  empty line, the first with an output nobody else has asked for (`FirstAttempt`,
  `SecondAttempt`); an input that nobody used before comes in test 1 (`NewInTestOne`),
  and its right output shows both that the target runs and that nothing else is owed
  (`TestsProve`).
* The self-check (`CheckSound`): the table of its checks is such that no check of a core
  begins behind an answer it would accept itself (`Before`, `After`); the result that a
  dead core leaves is not the wanted one (`Replies`, `ResultOfOthers`).  One lemma per
  check says that it fits the table (`RepliesFit`).
* The run and the capture (`RunSound`, `ExperimentSound`): inputs only grow, so no older
  answer holds the output of the operation under way (`InputsNew`), and a right output
  is the answer of its own command; while every command was answered, each is answered
  before the next (`ReadInTurn`), which is what the traces and the window rest on.  The
  exit status rests on the trace store (`SInv`).
* The monitor (`MonitorSound`): the bytes read off the lines, with the kept ones after
  them, are the bytes that came without their newlines.

The monitor's functions are recursive along lists.  The induction theorems of the library
take an operator as a parameter, which the provers here cannot instantiate, so the
modules derive what they need: `SetInduction` (a set of numbers with 0 that is closed
under successor has all of them, by counting), `ListInduction` from it, the existence of a function defined step by step (`Recursion`),
and what such a function does with one element more (`ThroughAppend`, `CutUpAppend`,
`TextAppend`, `FlattenAppend`).

The assumptions are the ones beside the constants: the options are records of their
type, `Tests` is at least two (20 in the code: one test cannot vary its input), `Rows`,
`RunCount` and the tests fit the bound on inputs, the three inputs of the self-check
too, and at least one command may be asked.

### LeakageCampaign

`LabelsTrue` (`LabelsAreTrue`), `StatisticsDirect` (`StatisticsAreDirect`) and
`VerdictEarned` (`VerdictIsEarned`), for every plan, stream of labels, dataset, record,
score, chunk size, threshold, number of sampled rows (at least two, 64 in the code) and
number of damaged entries.  The inductive invariant is `CampaignInv`:

* `StoreInv`: every stored row has the input of its schedule, whatever session took it
  and whatever block the generator held (`Captured`), and while no entry was damaged its
  label and block too.  What `LabelsTrue` says beyond that is counting: a block is an
  interval of rows (`BlockIsInterval`) and one is half fixed because its labels are a
  shuffle of halves (`HalfOfBlock`), also the short last one, which is even because the
  size and the number of rows are (`PlanFacts`), and so half of the campaign is captured
  with the fixed input (`HalfOfCampaign`).  A finished campaign that is accepted has half
  of its rows labelled fixed, all of them among those captured so: the two sets are one,
  and no label is wrong.  That an untouched dataset is accepted needs that
  blocks come in rising order (`BlocksOrdered`) and that a resume samples only rows
  that exist, the first and the last among them (`SampledFacts`).
* `PassInv`: the state of a pass after `pos` rows is a function of those rows.  For the
  label pass that is `Summary`: counts, the block in progress with its part before `pos`,
  and the least and greatest share of the finished ones (`Extremes`); one row keeps it
  (`LabelRowFacts`), hence a chunk (`LabelChunkFacts`), hence the pass, wherever a chunk
  cuts a block.  For the waveforms it is `Direct`: the sums over two sets of rows with
  none in common add up (`SumOverParts`, `ValuesParts`, `AddedFacts`).
* `JobInv` and `ReportInv`: what each phase of an analysis has passed, and that a report
  was made from the state that is still there.

`PeakIsLargest` is an argument about numbers.  The spread of a group is not negative
(`SpreadNotNegative`: it is a sum of squares of distances from the mean, scaled to stay
whole), so that a defined statistic is a fraction with a positive denominator or infinite
(`SquaredFacts`); such fractions are ordered (`LessOrder`, `LargerOrder`), and so a curve
has a first largest one (`FirstPeakExists`).  `RecoveryIsEarned` counts ties: the set of
hypotheses that reach the score of the truth has one member.

The sums and the chunks are recursive functions.  Each is unfolded by showing, by
`SetInduction`, that a function with its equations exists (`SumsExist`, `RowsReadExist`)
and that two such agree.

The assumptions are beside the constants.  `CampaignAssumption` has one that is not a
type: a Husky that reports an offset reports the one that was asked for, because
`configure` refuses any other (`husky.py:75`).  `RecordAssumption`: the records of a
campaign have one length, which the loop checks before it stores a row.
`ScoreAssumption`: a score is a magnitude or not a number, and the truth is one of the
hypotheses.

### ResetLines

`ChipNeverWedged` (with `reset_all` not among the jobs: finding 2), `LoaderIsSafe` for
all jobs, and `JobsDoWhatTheySay` (`JobsReachTheirLevels`), for every set of jobs and
any number cut short.  The static half of the argument is about the sequences as they
stand in the code: every dangerous write is preceded in the same sequence by the
writes that make it safe (`Disciplined`).  The dynamic half is that each line the job
in progress has written still has the level of its last write (`Progress`), whatever
the jobs before it left.

### GuiSession

`PortIsExclusive` (`PortHasOneOwner`), `WindowClosesCleanly`, `ConfirmedBootIsOfTheImage`,
`EveryAnswerReachesItsAsker` (the action property `AnswersReachTheirAskers`) and
`CaptureIsAligned` (`AlignedUntilFirstFailure`), for any pipeline length, number of
images, rows, connects, commands of the other process and jobs.  `GInv` says which
steps each kind of job can be at, and who has the port, the transaction lock and the
scope at each.  On top of it: only the image just loaded can still send a banner
(`OnlyTheLoadedBoots`); every answer on its way is of a command somebody waits for or
of one given up (`AnswersOwed`), because whoever gives up says so before anybody
else can read; and a capture that started clean and has no failure owns everything
on its way (`CaptureOwed`).  `FreeAssumption` says that a free lock is none of the
holders.

## Findings

1. `native_store_mid_digest`: Ctrl-C between two hasher updates of one row.  The
   row marker of the digest has not moved, so the emergency checkpoint accepts
   it and publishes a digest no reader can reproduce; the next session refuses
   the dataset although the message said it could be resumed.
2. `reset_lines_all`: `reset_all` holds the crypto cores before the CPU.
3. `gui_late_answer`: an answer that comes after its row timed out is stored as
   the answer of the next row, and every later row is shifted with it.

Not counted as findings, because no document promises otherwise, but visible in
the wording of properties or worth knowing:

* A resume reloads the digest of the last row and not how often it had been
  repeated, so a third identical record can be the first row of a session
  (`ThirdOnlyAfterResume`).
* A reopen that fails half way skips the warm-up (`HalfOpen` above).
* Alternating waveform rejects and target faults reset each other's consecutive
  counters (`run.py:432`), so a session that never stores a row may never stop.
  `BrokenBenchStops` is about a bench that fails in one way.
* An interrupted programming job leaves `spi_select` designated as chip select, and
  later modes write to a pin that does not follow them.
* The GUI's experiment prints a timer query that timed out as n/a and counts no
  communication error, although the rows after it may be shifted.
* `experiment.py` records `clkgen_locked` from a status that has no such key, so
  the field is always empty; the older `selfcheck.py` indexes one that is missing,
  so its clock check always fails.  The number of samples in the metadata is the one
  before the trigger window was measured.
* `Target.reprogram` opens a bridge handle of its own and never closes it.

## What is only model-checked, and what is not modelled

Model-checked only is liveness, which no prover here reaches: `EventuallyComplete`
(of the native store), `BrokenBenchStops`, `SessionEnds` (of the scope), `JobsEnd` and
`ProgramsEnd`, with the ends of the waits they rest on, all under the fairness above.
Every other property of a passing run is the statement of a theorem, under no hypothesis
but those named above.

Not modelled:

* the arithmetic of the ciphers (`validation.py`, `aead_soft.py`) and of the leakage
  models: an encryption is a pair of a tag and its input, a score any number;
* the search for points of interest and the rounding of floating-point sums;
* the conversion of waveform bytes, and estimates of sizes and disk space;
* the random numbers themselves; a random key behaves like a random input;
* `vmem.py` (a parser without state), `diagnostics.py`, the older `selfcheck.py`;
* argument parsing, the wizard, terminal and widget code, progress and logging;
* the documentation tools of the board, the scripts, and the chip with its
  firmware, which is an environment of the models;
* the `force_reset` path of `_prepare_capture`, which is one more programming job.

Two losses of detail matter to a reader of the results: a setting of the scope
that drifts and drifts back between two checkpoints is outside what the code can
see, and outside the model; and SHA-256 has no collisions here.

## Plan

Every component whose state is at risk has a module and its proofs: each safety property,
action property and refinement of the passing runs is a theorem.  What is left, in order
of importance:

1. More of the source: the CPA page of the GUI, the wizard's path into a campaign, and
   the choice of the sample count in the preflight.
2. The sampling of a resume with every stored row verified by the digest, for datasets
   of the later schemas: `Damage` is then a refusal of the store and not of the schedule.
3. The liveness properties, with a prover that reasons about `ENABLED`.
