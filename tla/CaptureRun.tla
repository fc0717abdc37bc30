----------------------------- MODULE CaptureRun -----------------------------
(***************************************************************************)
(* One capture campaign: the sessions of Acquisition/acq/run.py that fill  *)
(* a dataset, with their retry, reopen and recovery rules, the scope check *)
(* in front of every checkpoint, the firmware pin, warm-up, the stale      *)
(* record rule and the emergency checkpoint of the finally clause.         *)
(*                                                                         *)
(* The dataset is what CheckpointedLog says it is (NativeStore models how  *)
(* the files achieve that): rows is the published checkpoint, log the rows *)
(* the running session has appended.  A row records what the properties    *)
(* ask about it: its waveform, and the circumstances of its capture, which *)
(* the program itself does not see.                                        *)
(*                                                                         *)
(* Simplifications: the reject categories that lead to the same handling   *)
(* are one reject; fault counters saturate; two host firmware images.      *)
(*                                                                         *)
(* A definition marked (mutant) is wrong on purpose: a plausible slip that *)
(* takes the place of the definition after it to show that the properties  *)
(* notice.                                                                 *)
(***************************************************************************)
EXTENDS Naturals, Sequences

CONSTANTS
  N, Chunk,             \* cfg.traces, cfg.chunk
  Wave,                 \* distinguishable waveforms
  Scope,                \* the backend is an oscilloscope (else Husky)
  Warmup,               \* cfg.warmup > 0
  HalfOpen,             \* a failed reopen or recovery may leave a working link
  QualityLimit,         \* MAX_CONSECUTIVE_QUALITY_REJECTS (20)
  ReopenAt,             \* consecutive target faults that reopen the link ({20, 60})
  RecoverAt,            \* consecutive target faults that reprogram (120)
  RecoveryLimit,        \* recoveries after which the run stops (40)
  FaultCap,             \* bound: where the fault counters saturate
  MaxStops,             \* bound: interrupts, kills and storage failures
  MaxFileChanges        \* bound: changes of the host firmware files

None == "none"
Firmware == {"A", "B"}          \* host firmware images
Benches == {"healthy", "board", "scope"}

ASSUME SizeAssumption == N \in Nat \ {0} /\ Chunk \in Nat \ {0}
ASSUME LimitAssumption ==
  /\ QualityLimit \in Nat \ {0} /\ RecoverAt \in Nat \ {0} /\ RecoveryLimit \in Nat
  /\ ReopenAt \subseteq 1 .. RecoverAt - 1
ASSUME BoundAssumption ==
  /\ FaultCap \in Nat /\ FaultCap > RecoveryLimit
  /\ MaxStops \in Nat /\ MaxFileChanges \in Nat
ASSUME SwitchAssumption == Scope \in BOOLEAN /\ Warmup \in BOOLEAN /\ HalfOpen \in BOOLEAN
ASSUME WaveAssumption == None \notin Wave

VARIABLES
  rows, sig, saved,     \* the published checkpoint: rows, firmware identity, counters
  log, i, start,        \* rows appended by the session; the loop index; its first value
  pc,                   \* where the session is
  why,                  \* what the handler in progress is for
  ok,                   \* whether its action succeeded
  pin,                  \* the firmware identity pinned by this session
  last, identical,      \* last_trace_digest, identical_run
  consec, qconsec,      \* consecutive target faults, consecutive quality rejects
  faults,               \* fails and recoveries of the whole campaign
  latch,                \* checkpoint_invalid_reason is set
  ctrlC, claim,         \* the session ended by Ctrl-C; what the user was told
  fileFw, loaded,       \* host firmware file; image this session put on the board
  scopeBad, link, cold, \* instrument state spoilt; link usable; not warmed up
  streak,               \* length of the run of identical records read out
  bench,                \* what, if anything, has broken for good
  stops, changes

vars == <<rows, sig, saved, log, i, start, pc, why, ok, pin, last, identical, consec,
          qconsec, faults, latch, ctrlC, claim, fileFw, loaded, scopeBad, link, cold, streak, bench,
          stops, changes>>

dataset  == <<rows, sig, saved>>
session  == <<start, pin>>
outside  == <<fileFw, bench, changes>>
counters == <<consec, qconsec, faults>>
board    == <<loaded, link, cold>>
stale    == <<last, identical, streak>>
ending   == <<latch, ctrlC, claim, stops>>
handler  == <<why, ok>>
allButPc == <<dataset, log, i, handler, session, stale, counters, ending, outside, board, scopeBad>>

Least(a, b) == IF a < b THEN a ELSE b

Row == [wave : Wave, spoilt : BOOLEAN, fw : Firmware \cup {None},
        warm : BOOLEAN, third : BOOLEAN, first : BOOLEAN]

InSession == pc # "down"

TypeOK ==
  /\ rows \in Seq(Row) /\ log \in Seq(Row) /\ Len(rows) <= N /\ Len(log) <= N
  /\ i \in 0 .. N /\ start \in 0 .. N
  /\ pc \in {"down", "bringup", "open", "warm", "rewarm", "recheck", "loop", "appended",
             "verify", "act", "check", "ckpt", "publish", "fin", "finpublish"}
  /\ why \in {"start", "reopen", "recover"} /\ ok \in BOOLEAN
  /\ sig \in Firmware \cup {None} /\ pin \in Firmware \cup {None}
  /\ last \in Wave \cup {None} /\ identical \in Nat /\ streak \in 0 .. 3
  /\ consec \in 0 .. RecoverAt /\ qconsec \in 0 .. QualityLimit
  /\ saved \in [fails : 0 .. FaultCap, recoveries : 0 .. FaultCap]
  /\ faults \in [fails : 0 .. FaultCap, recoveries : 0 .. FaultCap]
  /\ latch \in BOOLEAN /\ ctrlC \in BOOLEAN /\ claim \in {"none", "saved", "unsaved"}
  /\ fileFw \in Firmware /\ loaded \in Firmware \cup {None}
  /\ scopeBad \in BOOLEAN /\ link \in BOOLEAN /\ cold \in BOOLEAN
  /\ bench \in Benches
  /\ stops \in 0 .. MaxStops /\ changes \in 0 .. MaxFileChanges

NoFaults == [fails |-> 0, recoveries |-> 0]

Init ==
  /\ rows = <<>> /\ sig = None /\ saved = NoFaults
  /\ log = <<>> /\ i = 0 /\ start = 0
  /\ pc = "down" /\ why = "start" /\ ok = FALSE
  /\ pin = None /\ last = None /\ identical = 0 /\ streak = 0
  /\ consec = 0 /\ qconsec = 0 /\ faults = NoFaults
  /\ latch = FALSE /\ ctrlC = FALSE /\ claim = "none"
  /\ fileFw = "A" /\ loaded = None
  /\ scopeBad = FALSE /\ link = FALSE /\ cold = TRUE
  /\ bench = "healthy"
  /\ stops = 0 /\ changes = 0

-----------------------------------------------------------------------------
(* Starting a session: _run_unlocked and _prepare_capture.                 *)

\* verify_or_pin_firmware_identity, once the identity is pinned.
FirmwareNotRehashed == TRUE   \* (mutant)
FirmwareUnchanged == fileFw = pin

\* The length of the run of identical waveforms at the end of the dataset, up to 3.
TrailingRun(s) ==
  LET runs == {n \in 0 .. Least(3, Len(s)) :
                 \A k \in Len(s) - n + 1 .. Len(s) : s[k].wave = s[Len(s)].wave}
  IN  CHOOSE n \in runs : \A m \in runs : m <= n

\* store.done, where the loop of a session starts.
ResumeAtZero == 0   \* (mutant)
FirstIndex == Len(rows)

\* _fault_history: the counters of the last checkpoint.
FaultsForgotten == NoFaults   \* (mutant)
PriorFaults == saved

\* A new process pins the host firmware files.
StartSession ==
  /\ pc = "down"
  /\ pc' = "bringup" /\ why' = "start" /\ ok' = FALSE
  /\ pin' = fileFw
  /\ loaded' = None /\ link' = FALSE /\ cold' = TRUE
  /\ latch' = FALSE /\ ctrlC' = FALSE /\ claim' = "none"
  /\ i' = FirstIndex /\ start' = i' /\ log' = SubSeq(rows, 1, i')
  /\ UNCHANGED <<dataset, stale, counters, outside, scopeBad, stops>>

\* backend.configure, target.open, bringup_and_verify and preflight.  The
\* target is reprogrammed by --reset or when its first known answer is wrong.
Bringup ==
  /\ pc = "bringup"
  /\ bench = "healthy"
  /\ loaded' \in {None, fileFw}
  /\ link' = TRUE
  /\ scopeBad' = FALSE
  /\ pc' = "open"
  /\ UNCHANGED <<dataset, log, i, handler, session, stale, counters, ending, outside, cold>>

BringupFails ==
  /\ pc = "bringup"
  /\ pc' = "down"
  /\ UNCHANGED allButPc

\* The last verifications, then TraceStore: a new dataset records the pinned
\* identity, an existing one must have it; counters and the digest of the last
\* authoritative row are reloaded, the count of repeats is not.
OpenStore ==
  /\ pc = "open"
  /\ FirmwareUnchanged
  /\ sig \in {None, pin}
  /\ ~ (Scope /\ scopeBad)
  /\ sig' = pin
  /\ last' = IF rows = <<>> THEN None ELSE rows[Len(rows)].wave
  /\ identical' = 0
  /\ streak' = TrailingRun(rows)
  /\ consec' = 0 /\ qconsec' = 0 /\ faults' = PriorFaults
  /\ pc' = IF i < N THEN "warm" ELSE "fin"
  /\ UNCHANGED <<rows, saved, log, i, handler, session, ending, outside, board, scopeBad>>

OpenRefused ==
  /\ pc = "open"
  /\ \/ ~ FirmwareUnchanged
     \/ sig \notin {None, pin}
     \/ Scope /\ scopeBad
  /\ pc' = "down"
  /\ UNCHANGED allButPc

-----------------------------------------------------------------------------
(* prepare_recording_session: warm-up, then a new recording session.       *)

\* What follows a handler that did its work.
RecoversForever == "loop"   \* (mutant)
AfterHandler ==
  IF why = "recover" /\ faults.recoveries > RecoveryLimit THEN "fin" ELSE "loop"

WarmUp ==
  /\ pc = "warm"
  /\ ~ Warmup \/ (bench # "board" /\ link)
  /\ cold' = FALSE
  /\ pc' = AfterHandler
  /\ UNCHANGED <<dataset, log, i, handler, session, stale, counters, ending, outside, loaded, link,
                 scopeBad>>

\* A warm-up reopens the link after 20 and 60 failures in a row, between two
\* verifications of the firmware files, and goes on whether that worked or not.
WarmUpReopens ==
  /\ pc = "warm" /\ Warmup
  /\ pc' = IF FirmwareUnchanged THEN "rewarm" ELSE "fin"
  /\ UNCHANGED allButPc

WarmUpReopened ==
  /\ pc = "rewarm"
  /\ link' \in BOOLEAN
  /\ loaded' \in {loaded, fileFw}
  /\ pc' = "recheck"
  /\ UNCHANGED <<dataset, log, i, handler, session, stale, counters, ending, outside, cold, scopeBad>>

WarmUpRechecked ==
  /\ pc = "recheck"
  /\ pc' = IF FirmwareUnchanged THEN "warm" ELSE "fin"
  /\ UNCHANGED allButPc

\* 120 consecutive warm-up failures stop the run.
WarmUpFails ==
  /\ pc = "warm" /\ Warmup
  /\ pc' = "fin"
  /\ UNCHANGED allButPc

-----------------------------------------------------------------------------
(* One pass of the hot loop.                                               *)

CountFail == [faults EXCEPT !.fails = Least(FaultCap, @ + 1)]

\* WaveformQualityError: the measurement path is at fault, the target is left
\* alone, and too many in a row stop the run.
QualityRejectUnlimited ==   \* (mutant)
  /\ qconsec' = qconsec + 1 /\ consec' = 0
  /\ faults' = CountFail
  /\ pc' = "loop"
QualityReject ==
  /\ qconsec' = qconsec + 1 /\ consec' = 0
  /\ faults' = CountFail
  /\ pc' = IF qconsec' >= QualityLimit THEN "fin" ELSE "loop"

\* Arm, readout, shape, non-finite, clipped and constant records.
RejectRecord ==
  /\ pc = "loop" /\ i < N
  /\ bench # "board"
  /\ QualityReject
  /\ UNCHANGED <<dataset, log, i, handler, session, stale, ending, outside, board, scopeBad>>

\* The record just read out is w: the repeat count, and the true run length.
RepeatsUncounted(w) == IF w = last THEN identical ELSE 0   \* (mutant)
Repeats(w) == IF w = last THEN identical + 1 ELSE 0
Streak(w) == IF w = last /\ streak > 0 THEN Least(3, streak + 1) ELSE 1

\* The third bit-identical record in a row, and every repetition of it.
RejectStale(w) ==
  /\ pc = "loop" /\ i < N
  /\ bench = "healthy" /\ link
  /\ Repeats(w) >= 2
  /\ identical' = Least(2, Repeats(w)) /\ streak' = Streak(w)
  /\ QualityReject
  /\ UNCHANGED <<dataset, log, i, handler, session, last, ending, outside, board, scopeBad>>

\* Any other exception counts against the target; after enough of them in a
\* row the link is reopened, and later the controller is reprogrammed.
TargetReject ==
  /\ qconsec' = 0
  /\ consec' = Least(RecoverAt, consec + 1)
  /\ CASE consec + 1 \in ReopenAt  -> /\ pc' = "verify" /\ why' = "reopen"
                                      /\ faults' = CountFail
       [] consec + 1 >= RecoverAt  -> /\ pc' = "verify" /\ why' = "recover"
                                      /\ faults' = [CountFail EXCEPT
                                           !.recoveries = Least(FaultCap, @ + 1)]
       [] OTHER                    -> /\ pc' = "loop" /\ why' = why
                                      /\ faults' = CountFail

\* target.run raises.
TargetFault ==
  /\ pc = "loop" /\ i < N
  /\ bench # "scope"
  /\ TargetReject
  /\ UNCHANGED <<dataset, log, i, ok, session, stale, ending, outside, board, scopeBad>>

\* The record is good but the target's output is not the reference output:
\* the repeat count has moved, last_trace_digest has not.
OutputMismatch(w) ==
  /\ pc = "loop" /\ i < N
  /\ bench = "healthy" /\ link
  /\ Repeats(w) < 2
  /\ identical' = Repeats(w)
  /\ streak' = IF w = last THEN Streak(w) ELSE 0
  /\ TargetReject
  /\ UNCHANGED <<dataset, log, i, ok, session, last, ending, outside, board, scopeBad>>

\* A good record: store.append, outside the retry handler.
Capture(w) ==
  /\ pc = "loop" /\ i < N
  /\ bench = "healthy" /\ link
  /\ Repeats(w) < 2
  /\ Len(log) = i
  /\ log' = Append(log, [wave |-> w, spoilt |-> Scope /\ scopeBad, fw |-> loaded,
                         warm |-> ~ (Warmup /\ cold), third |-> Streak(w) >= 3,
                         first |-> i = start])
  /\ identical' = Repeats(w) /\ last' = w /\ streak' = Streak(w)
  /\ consec' = 0 /\ qconsec' = 0
  /\ pc' = "appended"
  /\ UNCHANGED <<dataset, i, handler, session, faults, ending, outside, board, scopeBad>>

\* A storage fault is fatal at once.
AppendFails ==
  /\ pc = "loop" /\ i < N
  /\ bench = "healthy" /\ link
  /\ stops < MaxStops /\ stops' = stops + 1
  /\ pc' = "fin"
  /\ UNCHANGED <<dataset, log, i, handler, session, stale, counters, latch, ctrlC, claim, outside,
                 board, scopeBad>>

NextIndex ==
  /\ pc = "appended"
  /\ i' = i + 1
  /\ pc' = IF i' % Chunk = 0 THEN "ckpt" ELSE "loop"
  /\ UNCHANGED <<dataset, log, handler, session, stale, counters, ending, outside, board, scopeBad>>

LoopEnds ==
  /\ pc = "loop" /\ i = N
  /\ pc' = "fin"
  /\ UNCHANGED allButPc

-----------------------------------------------------------------------------
(* Reopening the link (why = "reopen") and reprogramming the controller    *)
(* (why = "recover"), between two verifications of the firmware files.     *)

HandlerVerify ==
  /\ pc = "verify"
  /\ pc' = IF FirmwareUnchanged THEN "act" ELSE "fin"
  /\ UNCHANGED allButPc

\* close, (reprogram,) open, select, (known answer): all of it, or part of it.
\* A Sw-RV select loads its program from the host files too.
HandlerAct ==
  /\ pc = "act"
  /\ ok' \in BOOLEAN
  /\ link' \in IF ok' THEN {TRUE} ELSE IF HalfOpen THEN BOOLEAN ELSE {FALSE}
  /\ loaded' \in IF why = "recover" /\ ok' THEN {fileFw} ELSE {loaded, fileFw}
  /\ cold' = TRUE
  /\ pc' = "check"
  /\ UNCHANGED <<dataset, log, i, why, session, stale, counters, ending, outside, scopeBad>>

WarmOnlyRecoveries == IF ok /\ why = "recover" THEN "warm" ELSE AfterHandler   \* (mutant)
WarmIfReady == IF ok THEN "warm" ELSE AfterHandler

HandlerCheck ==
  /\ pc = "check"
  /\ pc' = IF FirmwareUnchanged THEN WarmIfReady ELSE "fin"
  /\ consec' = IF FirmwareUnchanged /\ ok /\ why = "recover" THEN 0 ELSE consec
  /\ ok' = FALSE
  /\ UNCHANGED <<dataset, log, i, why, session, stale, qconsec, faults, ending, outside, board,
                 scopeBad>>

-----------------------------------------------------------------------------
(* verified_checkpoint, from the loop ("ckpt") and from finally ("fin").   *)

\* The scope's error queue and settings are read; reading clears the queue, so a
\* failure is latched.
ScopeVerified ==
  /\ pc \in {"ckpt", "fin"}
  /\ ~ latch /\ ~ (Scope /\ scopeBad)
  /\ pc' = IF pc = "ckpt" THEN "publish" ELSE "finpublish"
  /\ UNCHANGED allButPc

\* checkpoint_invalid_reason once a verification has failed.
NotLatched == latch   \* (mutant)
Latched == TRUE

ScopeRefused ==
  /\ pc \in {"ckpt", "fin"}
  /\ latch \/ (Scope /\ scopeBad)
  /\ latch' = Latched
  /\ scopeBad' \in {FALSE, scopeBad}
  /\ pc' = IF pc = "ckpt" THEN "fin" ELSE "down"
  /\ claim' = IF pc = "fin" /\ ctrlC THEN "unsaved" ELSE claim
  /\ UNCHANGED <<dataset, log, i, handler, session, stale, counters, ctrlC, stops, outside, board>>

\* store.checkpoint: the marker must be store.done, and the metadata's capture
\* signature is computed from the pinned firmware.
PublishableAnyMarker == FirmwareUnchanged   \* (mutant)
Publishable == i = Len(log) /\ FirmwareUnchanged

Publish ==
  /\ pc \in {"publish", "finpublish"}
  /\ Publishable
  /\ rows' = SubSeq(log, 1, i) /\ saved' = faults
  /\ pc' = IF pc = "publish" THEN "loop" ELSE "down"
  /\ claim' = IF pc = "finpublish" /\ ctrlC THEN "saved" ELSE claim
  /\ UNCHANGED <<sig, log, i, handler, session, stale, counters, latch, ctrlC, stops, outside,
                 board, scopeBad>>

PublishRefused ==
  /\ pc \in {"publish", "finpublish"}
  /\ ~ Publishable
  /\ pc' = IF pc = "publish" THEN "fin" ELSE "down"
  /\ claim' = IF pc = "finpublish" /\ ctrlC THEN "unsaved" ELSE claim
  /\ UNCHANGED <<dataset, log, i, handler, session, stale, counters, latch, ctrlC, stops, outside,
                 board, scopeBad>>

PublishFails ==
  /\ pc \in {"publish", "finpublish"}
  /\ stops < MaxStops /\ stops' = stops + 1
  /\ pc' = IF pc = "publish" THEN "fin" ELSE "down"
  /\ claim' = IF pc = "finpublish" /\ ctrlC THEN "unsaved" ELSE claim
  /\ UNCHANGED <<dataset, log, i, handler, session, stale, counters, latch, ctrlC, outside, board,
                 scopeBad>>

-----------------------------------------------------------------------------
(* What happens to a session from outside.                                 *)

\* Ctrl-C.  While the scope is being verified it is latched like any failure.
Interrupt ==
  /\ pc \in {"warm", "rewarm", "recheck", "loop", "appended", "verify", "act", "check",
             "ckpt", "publish"}
  /\ stops < MaxStops /\ stops' = stops + 1
  /\ latch' = (latch \/ (Scope /\ pc = "ckpt"))
  /\ ctrlC' = TRUE
  /\ pc' = "fin"
  /\ UNCHANGED <<dataset, log, i, handler, session, stale, counters, claim, outside, board, scopeBad>>

\* A second Ctrl-C, during the emergency checkpoint, abandons it.
InterruptCleanup ==
  /\ pc \in {"fin", "finpublish"}
  /\ stops < MaxStops /\ stops' = stops + 1
  /\ pc' = "down"
  /\ claim' = IF ctrlC THEN "unsaved" ELSE claim
  /\ UNCHANGED <<dataset, log, i, handler, session, stale, counters, latch, ctrlC, outside, board,
                 scopeBad>>

Kill ==
  /\ InSession
  /\ stops < MaxStops /\ stops' = stops + 1
  /\ pc' = "down" /\ claim' = "none"
  /\ UNCHANGED <<dataset, log, i, handler, session, stale, counters, latch, ctrlC, outside, board,
                 scopeBad>>

\* The instrument reports an error or its state drifts.
ScopeDrift ==
  /\ Scope /\ ~ scopeBad
  /\ pc \in {"loop", "appended", "ckpt", "verify", "act"}
  /\ scopeBad' = TRUE
  /\ UNCHANGED <<dataset, log, i, pc, handler, session, stale, counters, ending, outside, board>>

\* Somebody rebuilds the host firmware files.
FileChange ==
  /\ changes < MaxFileChanges /\ changes' = changes + 1
  /\ fileFw' \in Firmware \ {fileFw}
  /\ UNCHANGED <<dataset, log, i, pc, handler, session, stale, counters, ending, board, scopeBad,
                 bench>>

\* The board or the instrument stops working for good.
BenchBreaks ==
  /\ bench = "healthy"
  /\ bench' \in {"board", "scope"}
  /\ UNCHANGED <<dataset, log, i, pc, handler, session, stale, counters, ending, board, scopeBad,
                 fileFw, changes>>

Start == StartSession \/ Bringup \/ BringupFails \/ OpenStore \/ OpenRefused
Recording ==
  \/ WarmUp \/ WarmUpReopens \/ WarmUpReopened \/ WarmUpRechecked \/ WarmUpFails
  \/ RejectRecord \/ TargetFault
  \/ \E w \in Wave : RejectStale(w) \/ OutputMismatch(w) \/ Capture(w)
  \/ NextIndex \/ LoopEnds
Handling == HandlerVerify \/ HandlerAct \/ HandlerCheck
Checkpoint == ScopeVerified \/ ScopeRefused \/ Publish \/ PublishRefused

Session == Start \/ Recording \/ Handling \/ Checkpoint
Environment ==
  \/ AppendFails \/ PublishFails \/ Interrupt \/ InterruptCleanup \/ Kill
  \/ ScopeDrift \/ FileChange \/ BenchBreaks

Next == Session \/ Environment

Spec == Init /\ [][Next]_vars

\* The program keeps running once started, and a warm-up ends: between two successes
\* it reopens the link twice and gives up at the 120th failure (run.py:50-77).
FairSpec ==
  /\ Spec
  /\ WF_vars(InSession /\ Session)
  /\ SF_vars(WarmUp \/ WarmUpFails)

-----------------------------------------------------------------------------
\* No published row was taken while the instrument was out of its verified
\* state: a failed verification, also one whose error register it cleared,
\* withholds the marker for good (Acquisition/README.md:105-108).
NoSpoiltRowPublished == \A k \in DOMAIN rows : ~ rows[k].spoilt

\* No published row was taken on a board this campaign programmed with another
\* image than the one its signature names (README.md:112-114).
FirmwareBound == \A k \in DOMAIN rows : rows[k].fw \in {None, sig}

\* Whoever was told after Ctrl-C that progress is checkpointed has every row
\* the session appended (run.py:522-527).
ClaimIsTrue == claim = "saved" => rows = log

\* Resuming never forgets faults a checkpoint recorded (run.py _fault_history).
FaultsNeverForgotten ==
  [][saved'.fails >= saved.fails /\ saved'.recoveries >= saved.recoveries]_saved

\* With warm-up requested, every row of the dataset was recorded after a
\* warm-up that ended later than the last reopening or reprogramming of the target
\* (README.md:122-125).
RowsAreWarm == \A k \in DOMAIN rows : rows[k].warm

\* Every row a checkpoint published was taken by a verified instrument, from a warm
\* target, with the firmware that the dataset names.
PublishedRowsAreSound == TypeOK /\ NoSpoiltRowPublished /\ FirmwareBound /\ RowsAreWarm

\* What the stale-record rule achieves: a third identical record enters the
\* dataset only as the first row after a resume, which reloads the digest of the
\* last row but not how often it had been repeated (run.py:282, 313).
ThirdOnlyAfterResume == \A k \in DOMAIN rows : rows[k].third => rows[k].first

\* A bench that has broken for good cannot hold a session: it stops by itself.
BrokenBenchStops == (bench # "healthy") ~> (pc = "down")

\* The campaign implements the checkpointed log.
Log == INSTANCE CheckpointedLog
         WITH accepted <- IF pc \in {"down", "bringup", "open"} THEN rows ELSE log,
              committed <- rows
ImplementsLog == Log!Spec
=============================================================================
