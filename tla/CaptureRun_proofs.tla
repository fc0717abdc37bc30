-------------------------- MODULE CaptureRun_proofs --------------------------
(***************************************************************************)
(* Proofs about CaptureRun for every size of the campaign, every limit of  *)
(* the retry rules, every set of waveforms and any number of stops.        *)
(*                                                                         *)
(* CInv is inductive without further hypotheses, and most theorems follow  *)
(* from it alone.  Two need what a run also fixes: FirmwareHeld that the   *)
(* host files change at most once, because the program compares them only  *)
(* before and after it uses them and a change undone in between is unseen; *)
(* WarmHeld that a failed reopening leaves no working link, because such a *)
(* link carries on with a target that nothing warmed up.                   *)
(***************************************************************************)
EXTENDS CaptureRun, SequenceTheorems, TLAPS

\* The dataset is open: the session's rows are in log.
Opened == pc \notin {"down", "bringup", "open"}

\* The loop, its handlers and its checkpoints, which may go on to the next row.
Running == {"warm", "rewarm", "recheck", "loop", "appended", "verify", "act", "check", "ckpt",
            "publish"}

-----------------------------------------------------------------------------
\* The loop's index, and the limit on quality rejects that ends it.
IndexAgrees ==
  /\ pc \in ({"bringup", "open"} \cup Running) \ {"appended"} => i = Len(log)
  /\ pc = "appended" => Len(log) = i + 1
  /\ pc \in Running => qconsec < QualityLimit

\* The published rows are those the session started with, or the first of its own.
LogExtendsRows ==
  /\ pc \in {"bringup", "open"} => log = rows /\ start = Len(log)
  /\ InSession => Len(rows) <= Len(log) /\ start <= Len(log)
  /\ InSession => \A k \in 1 .. Len(rows) : rows[k] = log[k]

\* The user is told of success only at the end of a session.
ClaimedAtTheEnd ==
  /\ InSession => claim = "none"
  /\ ClaimIsTrue

\* A session counts on from the counters of the checkpoint.
FaultsCarriedOn ==
  Opened => saved.fails <= faults.fails /\ saved.recoveries <= faults.recoveries

\* A spoilt row in the log is noticed at the next verification, or was at an earlier one.
SpoiltRowsNoticed ==
  /\ InSession => latch \/ (Scope /\ scopeBad) \/ \A k \in 1 .. Len(log) : ~ log[k].spoilt
  /\ pc \in {"publish", "finpublish"} => \A k \in 1 .. Len(log) : ~ log[k].spoilt
  /\ \A k \in 1 .. Len(rows) : ~ rows[k].spoilt

\* Once a session has taken a row of its own, a run of two is one it has counted.
RunsCounted ==
  /\ Opened /\ Len(log) > start /\ streak >= 2 => identical >= 1
  /\ InSession => \A k \in 1 .. Len(log) : log[k].third => log[k].first
  /\ \A k \in 1 .. Len(rows) : rows[k].third => rows[k].first

CInv ==
  /\ TypeOK
  /\ IndexAgrees
  /\ LogExtendsRows
  /\ ClaimedAtTheEnd
  /\ FaultsCarriedOn
  /\ SpoiltRowsNoticed
  /\ RunsCounted

-----------------------------------------------------------------------------
\* The image on the board is the pinned one wherever rows are taken, and one that is
\* not has come from files that no longer are.
FirmwareHeld ==
  /\ InSession /\ fileFw # pin => changes = MaxFileChanges
  /\ InSession /\ loaded \notin {None, pin} => fileFw # pin
  /\ pc \in Running \ {"check", "recheck"} => loaded \in {None, pin}
  /\ Opened => sig = pin /\ \A k \in 1 .. Len(log) : log[k].fw \in {None, sig}
  /\ \A k \in 1 .. Len(rows) : rows[k].fw \in {None, sig}

\* A target that is not warm does not answer, except on its way into the warm-up.
WarmHeld ==
  /\ Warmup /\ cold /\ pc \in {"loop", "appended", "verify", "act", "ckpt", "publish"} => ~ link
  /\ Warmup /\ pc = "check" /\ link => ok
  /\ InSession => \A k \in 1 .. Len(log) : log[k].warm
  /\ \A k \in 1 .. Len(rows) : rows[k].warm

-----------------------------------------------------------------------------
(* The counters and the count of repeated records.                         *)

\* What the fault counters of a campaign range over.
Counters == [fails : 0 .. FaultCap, recoveries : 0 .. FaultCap]

\* One more failure on the counters, which saturate.
LEMMA CountFailType ==
  ASSUME TypeOK
  PROVE  /\ CountFail \in Counters
         /\ CountFail.fails >= faults.fails /\ CountFail.recoveries = faults.recoveries
  <1>1. faults \in Counters
    BY DEF TypeOK, Counters
  <1>2. PICK n \in 0 .. FaultCap : n >= faults.fails /\ n = Least(FaultCap, faults.fails + 1)
    BY <1>1, BoundAssumption DEF Least, Counters
  <1>3. CountFail = [faults EXCEPT !.fails = n]
    BY <1>1, <1>2 DEF CountFail
  <1>4. QED
    BY <1>1, <1>2, <1>3 DEF Counters

\* One more failure and one more recovery.
LEMMA RecoveryType ==
  ASSUME TypeOK
  PROVE  LET r == [CountFail EXCEPT !.recoveries = Least(FaultCap, @ + 1)]
         IN  r \in Counters /\ r.fails >= faults.fails /\ r.recoveries >= faults.recoveries
  <1>1. /\ CountFail \in Counters /\ faults \in Counters
        /\ CountFail.fails >= faults.fails /\ CountFail.recoveries = faults.recoveries
    BY CountFailType DEF TypeOK, Counters
  <1>2. PICK n \in 0 .. FaultCap :
          n >= faults.recoveries /\ n = Least(FaultCap, CountFail.recoveries + 1)
    BY <1>1, BoundAssumption DEF Least, Counters
  <1>3. [CountFail EXCEPT !.recoveries = Least(FaultCap, @ + 1)] =
          [CountFail EXCEPT !.recoveries = n]
    BY <1>1, <1>2
  <1>4. QED
    BY <1>1, <1>2, <1>3 DEF Counters

\* What TargetReject does to the counters, whichever handler it asks for.
LEMMA TargetRejectCounts ==
  ASSUME TypeOK, TargetReject
  PROVE  /\ qconsec' = 0 /\ consec' \in 0 .. RecoverAt
         /\ faults' \in Counters
         /\ faults'.fails >= faults.fails /\ faults'.recoveries >= faults.recoveries
         /\ pc' \in {"loop", "verify"} /\ why' \in {"start", "reopen", "recover"}
  <1>0. /\ CountFail \in Counters
        /\ CountFail.fails >= faults.fails /\ CountFail.recoveries = faults.recoveries
    BY CountFailType
  <1>1. /\ faults.recoveries \in Nat /\ why \in {"start", "reopen", "recover"}
    BY DEF TypeOK
  <1>2. qconsec' = 0 /\ consec' \in 0 .. RecoverAt
    BY LimitAssumption DEF TypeOK, TargetReject, Least
  <1>3. CASE consec + 1 \in ReopenAt
    <2>1. ~ (consec + 1 >= RecoverAt)
      BY <1>3, LimitAssumption DEF TypeOK
    <2>2. faults' = CountFail /\ pc' = "verify" /\ why' = "reopen"
      BY <1>3, <2>1 DEF TargetReject
    <2>3. QED
      BY <1>0, <1>1, <1>2, <2>2
  <1>4. CASE consec + 1 \notin ReopenAt /\ consec + 1 >= RecoverAt
    <2>1. /\ faults' = [CountFail EXCEPT !.recoveries = Least(FaultCap, @ + 1)]
          /\ pc' = "verify" /\ why' = "recover"
      BY <1>4 DEF TargetReject
    <2>2. QED
      BY <1>2, <2>1, RecoveryType
  <1>5. CASE consec + 1 \notin ReopenAt /\ ~ (consec + 1 >= RecoverAt)
    <2>1. faults' = CountFail /\ pc' = "loop" /\ why' = why
      BY <1>5 DEF TargetReject
    <2>2. QED
      BY <1>0, <1>1, <1>2, <2>1
  <1>6. QED
    BY <1>3, <1>4, <1>5

\* The run at the end of a dataset is counted up to three.
LEMMA TrailingRunType ==
  ASSUME NEW s \in Seq(Row)
  PROVE  TrailingRun(s) \in 0 .. 3
  <1> DEFINE In(n) == \A k \in Len(s) - n + 1 .. Len(s) : s[k].wave = s[Len(s)].wave
             runs == {n \in 0 .. Least(3, Len(s)) : In(n)}
             longest == CHOOSE n \in runs : \A m \in runs : m <= n
  <1>1. Len(s) \in Nat
    OBVIOUS
  <1>2. 0 \in runs /\ runs \subseteq 0 .. 3
    BY <1>1 DEF Least
  <1> HIDE DEF runs
  <1>3. \E n \in runs : \A m \in runs : m <= n
    <2>1. CASE 3 \in runs
      BY <1>2, <2>1
    <2>2. CASE 3 \notin runs /\ 2 \in runs
      BY <1>2, <2>2
    <2>3. CASE 3 \notin runs /\ 2 \notin runs /\ 1 \in runs
      BY <1>2, <2>3
    <2>4. CASE 3 \notin runs /\ 2 \notin runs /\ 1 \notin runs
      BY <1>2, <2>4
    <2>5. QED
      BY <2>1, <2>2, <2>3, <2>4
  <1>4. longest \in runs
    BY <1>3
  <1>5. TrailingRun(s) = longest
    BY DEF TrailingRun, runs
  <1>6. QED
    BY <1>2, <1>4, <1>5

\* What QualityReject does to the counters, and when it ends the loop.
LEMMA QualityRejectCounts ==
  ASSUME TypeOK, IndexAgrees, pc = "loop", QualityReject
  PROVE  /\ qconsec' \in 0 .. QualityLimit /\ consec' \in 0 .. RecoverAt
         /\ faults' \in Counters
         /\ faults'.fails >= faults.fails /\ faults'.recoveries >= faults.recoveries
         /\ pc' \in {"loop", "fin"} /\ (pc' = "loop" => qconsec' < QualityLimit)
  <1>1. qconsec \in Nat /\ qconsec < QualityLimit /\ faults.recoveries \in Nat
    BY DEF TypeOK, IndexAgrees, Running
  <1>2. /\ faults' \in Counters
        /\ faults'.fails >= faults.fails /\ faults'.recoveries >= faults.recoveries
    BY <1>1, CountFailType DEF QualityReject
  <1>3. QED
    BY <1>1, <1>2, LimitAssumption DEF QualityReject

-----------------------------------------------------------------------------
(* The invariant CInv, one lemma for each phase of a session.              *)

\* The empty dataset satisfies the invariant.
LEMMA InitCInv == Init => CInv
  <1> SUFFICES ASSUME Init PROVE CInv
    OBVIOUS
  <1> USE SizeAssumption, LimitAssumption, BoundAssumption DEF Init, InSession, Opened, Running
  <1>1. TypeOK
    <2>1. /\ ok \in BOOLEAN /\ latch \in BOOLEAN /\ ctrlC \in BOOLEAN
          /\ scopeBad \in BOOLEAN /\ link \in BOOLEAN /\ cold \in BOOLEAN
      OBVIOUS
    <2>2. NoFaults \in [fails : 0 .. FaultCap, recoveries : 0 .. FaultCap]
      BY DEF NoFaults
    <2>3. QED
      BY <2>1, <2>2 DEF TypeOK, Firmware, Benches, None
  <1>2. IndexAgrees /\ LogExtendsRows
    BY DEF IndexAgrees, LogExtendsRows
  <1>3. ClaimedAtTheEnd /\ FaultsCarriedOn
    BY DEF ClaimedAtTheEnd, FaultsCarriedOn, ClaimIsTrue
  <1>4. SpoiltRowsNoticed /\ RunsCounted
    BY DEF SpoiltRowsNoticed, RunsCounted
  <1>5. QED
    BY <1>1, <1>2, <1>3, <1>4 DEF CInv

\* Starting a session, up to the opened dataset.
LEMMA StartStep ==
  ASSUME CInv, Start
  PROVE  CInv'
  <1> USE SizeAssumption, LimitAssumption, BoundAssumption, SwitchAssumption
      DEF InSession, Opened, Running, Firmware, Benches, None, ClaimIsTrue,
          dataset, session, outside, counters, board, stale, ending, handler, allButPc
  <1> USE DEF CInv, TypeOK, IndexAgrees, LogExtendsRows, ClaimedAtTheEnd, FaultsCarriedOn,
              SpoiltRowsNoticed, RunsCounted
  <1>1. CASE StartSession
    <2>1. /\ ok' \in BOOLEAN /\ latch' \in BOOLEAN /\ ctrlC' \in BOOLEAN
          /\ scopeBad' \in BOOLEAN /\ link' \in BOOLEAN /\ cold' \in BOOLEAN
      BY <1>1 DEF StartSession, FirstIndex
    <2>2. TypeOK'
      BY <1>1, <2>1, SMT DEF StartSession, FirstIndex
    <2>3. IndexAgrees' /\ LogExtendsRows' /\ ClaimedAtTheEnd' /\ FaultsCarriedOn'
      BY <1>1, SMT DEF StartSession, FirstIndex
    <2>4. SpoiltRowsNoticed' /\ RunsCounted'
      BY <1>1, SMT DEF StartSession, FirstIndex
    <2>5. QED
      BY <2>2, <2>3, <2>4
  <1>2. CASE Bringup
    <2>1. /\ ok' \in BOOLEAN /\ latch' \in BOOLEAN /\ ctrlC' \in BOOLEAN
          /\ scopeBad' \in BOOLEAN /\ link' \in BOOLEAN /\ cold' \in BOOLEAN
      BY <1>2 DEF Bringup
    <2>2. TypeOK'
      BY <1>2, <2>1, SMT DEF Bringup
    <2>3. IndexAgrees' /\ LogExtendsRows' /\ ClaimedAtTheEnd' /\ FaultsCarriedOn'
      BY <1>2, SMT DEF Bringup
    <2>4. SpoiltRowsNoticed' /\ RunsCounted'
      BY <1>2, SMT DEF Bringup
    <2>5. QED
      BY <2>2, <2>3, <2>4
  <1>3. CASE BringupFails
    BY <1>3, SMT DEF BringupFails
  <1>4. CASE OpenStore
    <2>1. /\ ok' \in BOOLEAN /\ latch' \in BOOLEAN /\ ctrlC' \in BOOLEAN
          /\ scopeBad' \in BOOLEAN /\ link' \in BOOLEAN /\ cold' \in BOOLEAN
      BY <1>4 DEF OpenStore
    <2>2. streak' \in 0 .. 3
      BY <1>4, TrailingRunType DEF OpenStore
    <2>3. last' \in Wave \cup {None}
      <3>1. CASE rows = <<>>
        BY <1>4, <3>1 DEF OpenStore
      <3>2. CASE rows # <<>>
        <4>1. rows[Len(rows)] \in Row
          BY <3>2 DEF TypeOK
        <4>2. QED
          BY <1>4, <3>2, <4>1 DEF OpenStore, Row
      <3>3. QED
        BY <3>1, <3>2
    <2>4. TypeOK'
      BY <1>4, <2>1, <2>2, <2>3, SMT DEF OpenStore, PriorFaults, FirmwareUnchanged
    <2>5. IndexAgrees' /\ LogExtendsRows' /\ ClaimedAtTheEnd' /\ FaultsCarriedOn'
      BY <1>4, SMT DEF OpenStore, PriorFaults
    <2>6. SpoiltRowsNoticed' /\ RunsCounted'
      BY <1>4, SMT DEF OpenStore
    <2>7. QED
      BY <2>4, <2>5, <2>6
  <1>5. CASE OpenRefused
    BY <1>5, SMT DEF OpenRefused
  <1>6. QED
    BY <1>1, <1>2, <1>3, <1>4, <1>5 DEF Start

\* The warm-up, and the end of a pass of the loop.
LEMMA WarmUpStep ==
  ASSUME CInv, WarmUp \/ WarmUpReopens \/ WarmUpReopened \/ WarmUpRechecked \/ WarmUpFails
               \/ NextIndex \/ LoopEnds
  PROVE  CInv'
  <1> USE SizeAssumption, LimitAssumption, BoundAssumption, SwitchAssumption
      DEF InSession, Opened, Running, Firmware, Benches, None, ClaimIsTrue,
          dataset, session, outside, counters, board, stale, ending, handler, allButPc
  <1> USE DEF CInv, TypeOK, IndexAgrees, LogExtendsRows, ClaimedAtTheEnd, FaultsCarriedOn,
              SpoiltRowsNoticed, RunsCounted
  <1>1. CASE WarmUp
    <2>1. /\ ok' \in BOOLEAN /\ latch' \in BOOLEAN /\ ctrlC' \in BOOLEAN
          /\ scopeBad' \in BOOLEAN /\ link' \in BOOLEAN /\ cold' \in BOOLEAN
      BY <1>1 DEF WarmUp, AfterHandler
    <2>2. TypeOK'
      BY <1>1, <2>1, SMT DEF WarmUp, AfterHandler
    <2>3. IndexAgrees' /\ LogExtendsRows' /\ ClaimedAtTheEnd' /\ FaultsCarriedOn'
      BY <1>1, SMT DEF WarmUp, AfterHandler
    <2>4. SpoiltRowsNoticed' /\ RunsCounted'
      BY <1>1, SMT DEF WarmUp, AfterHandler
    <2>5. QED
      BY <2>2, <2>3, <2>4
  <1>2. CASE WarmUpReopens
    BY <1>2, SMT DEF WarmUpReopens
  <1>3. CASE WarmUpReopened
    BY <1>3, SMT DEF WarmUpReopened
  <1>4. CASE WarmUpRechecked
    BY <1>4, SMT DEF WarmUpRechecked
  <1>5. CASE WarmUpFails
    BY <1>5, SMT DEF WarmUpFails
  <1>6. CASE NextIndex
    BY <1>6, SMT DEF NextIndex
  <1>7. CASE LoopEnds
    BY <1>7, SMT DEF LoopEnds
  <1>8. QED
    BY <1>1, <1>2, <1>3, <1>4, <1>5, <1>6, <1>7 DEF CInv

\* A record: rejected for either reason, or appended.
LEMMA RecordStep ==
  ASSUME CInv, RejectRecord \/ TargetFault
               \/ \E w \in Wave : RejectStale(w) \/ OutputMismatch(w) \/ Capture(w)
  PROVE  CInv'
  <1> USE SizeAssumption, LimitAssumption, BoundAssumption, SwitchAssumption
      DEF InSession, Opened, Running, Firmware, Benches, None, ClaimIsTrue,
          dataset, session, outside, counters, board, stale, ending, handler, allButPc
  <1> USE DEF CInv, TypeOK, IndexAgrees, LogExtendsRows, ClaimedAtTheEnd, FaultsCarriedOn,
              SpoiltRowsNoticed, RunsCounted
  <1>1. CASE RejectRecord
    <2>1. pc = "loop" /\ QualityReject
      BY <1>1 DEF RejectRecord
    <2>2. TypeOK'
      BY <1>1, <2>1, QualityRejectCounts, SMT DEF RejectRecord, Counters
    <2>3. IndexAgrees' /\ LogExtendsRows'
      BY <1>1, <2>1, QualityRejectCounts, SMT DEF RejectRecord, Counters
    <2>4. ClaimedAtTheEnd' /\ FaultsCarriedOn'
      BY <1>1, <2>1, QualityRejectCounts, SMT DEF RejectRecord, Counters
    <2>5. SpoiltRowsNoticed'
      BY <1>1, <2>1, QualityRejectCounts, SMT DEF RejectRecord, Counters
    <2>6. RunsCounted'
      BY <1>1, <2>1, QualityRejectCounts, SMT DEF RejectRecord, Counters
    <2>7. QED
      BY <2>2, <2>3, <2>4, <2>5, <2>6
  <1>2. CASE TargetFault
    <2>1. pc = "loop" /\ TargetReject
      BY <1>2 DEF TargetFault
    <2>2. TypeOK'
      BY <1>2, <2>1, TargetRejectCounts, SMT DEF TargetFault, Counters
    <2>3. IndexAgrees' /\ LogExtendsRows'
      BY <1>2, <2>1, TargetRejectCounts, SMT DEF TargetFault, Counters
    <2>4. ClaimedAtTheEnd' /\ FaultsCarriedOn'
      BY <1>2, <2>1, TargetRejectCounts, SMT DEF TargetFault, Counters
    <2>5. SpoiltRowsNoticed'
      BY <1>2, <2>1, TargetRejectCounts, SMT DEF TargetFault, Counters
    <2>6. RunsCounted'
      BY <1>2, <2>1, TargetRejectCounts, SMT DEF TargetFault, Counters
    <2>7. QED
      BY <2>2, <2>3, <2>4, <2>5, <2>6
  <1>3. ASSUME NEW w \in Wave, RejectStale(w) PROVE CInv'
    <2>1. pc = "loop" /\ QualityReject
      BY <1>3 DEF RejectStale
    <2>2. TypeOK'
      BY <1>3, <2>1, QualityRejectCounts, SMT DEF RejectStale, Counters, Repeats, Streak, Least
    <2>3. IndexAgrees' /\ LogExtendsRows'
      BY <1>3, <2>1, QualityRejectCounts, SMT DEF RejectStale, Counters, Repeats, Streak, Least
    <2>4. ClaimedAtTheEnd' /\ FaultsCarriedOn'
      BY <1>3, <2>1, QualityRejectCounts, SMT DEF RejectStale, Counters, Repeats, Streak, Least
    <2>5. SpoiltRowsNoticed'
      BY <1>3, <2>1, QualityRejectCounts, SMT DEF RejectStale, Counters, Repeats, Streak, Least
    <2>6. RunsCounted'
      BY <1>3, <2>1, QualityRejectCounts, SMT DEF RejectStale, Counters, Repeats, Streak, Least
    <2>7. QED
      BY <2>2, <2>3, <2>4, <2>5, <2>6
  <1>4. ASSUME NEW w \in Wave, OutputMismatch(w) PROVE CInv'
    <2>1. pc = "loop" /\ TargetReject
      BY <1>4 DEF OutputMismatch
    <2>2. TypeOK'
      BY <1>4, <2>1, TargetRejectCounts, SMT DEF OutputMismatch, Counters, Repeats, Streak, Least
    <2>3. IndexAgrees' /\ LogExtendsRows'
      BY <1>4, <2>1, TargetRejectCounts, SMT DEF OutputMismatch, Counters, Repeats, Streak, Least
    <2>4. ClaimedAtTheEnd' /\ FaultsCarriedOn'
      BY <1>4, <2>1, TargetRejectCounts, SMT DEF OutputMismatch, Counters, Repeats, Streak, Least
    <2>5. SpoiltRowsNoticed'
      BY <1>4, <2>1, TargetRejectCounts, SMT DEF OutputMismatch, Counters, Repeats, Streak, Least
    <2>6. RunsCounted'
      BY <1>4, <2>1, TargetRejectCounts, SMT DEF OutputMismatch, Counters, Repeats, Streak, Least
    <2>7. QED
      BY <2>2, <2>3, <2>4, <2>5, <2>6
  <1>5. ASSUME NEW w \in Wave, Capture(w) PROVE CInv'
    <2>1. TypeOK'
      BY <1>5, SMT DEF Capture, Repeats, Streak, Least, Row
    <2>2. IndexAgrees'
      BY <1>5, SMT DEF Capture, Repeats, Streak, Least, Row
    <2>3. LogExtendsRows'
      BY <1>5, SMT DEF Capture, Repeats, Streak, Least, Row
    <2>4. ClaimedAtTheEnd'
      BY <1>5, SMT DEF Capture, Repeats, Streak, Least, Row
    <2>5. FaultsCarriedOn'
      BY <1>5, SMT DEF Capture, Repeats, Streak, Least, Row
    <2>6. SpoiltRowsNoticed'
      BY <1>5, SMT DEF Capture, Repeats, Streak, Least, Row
    <2>7. RunsCounted'
      BY <1>5, SMT DEF Capture, Repeats, Streak, Least, Row
    <2>8. QED
      BY <2>1, <2>2, <2>3, <2>4, <2>5, <2>6, <2>7
  <1>6. QED
    BY <1>1, <1>2, <1>3, <1>4, <1>5

\* Reopening the link and reprogramming the controller.
LEMMA HandlingStep ==
  ASSUME CInv, Handling
  PROVE  CInv'
  <1> USE SizeAssumption, LimitAssumption, BoundAssumption, SwitchAssumption
      DEF InSession, Opened, Running, Firmware, Benches, None, ClaimIsTrue,
          dataset, session, outside, counters, board, stale, ending, handler, allButPc
  <1> USE DEF CInv, TypeOK, IndexAgrees, LogExtendsRows, ClaimedAtTheEnd, FaultsCarriedOn,
              SpoiltRowsNoticed, RunsCounted
  <1>1. CASE HandlerVerify
    BY <1>1, SMT DEF HandlerVerify
  <1>2. CASE HandlerAct
    <2>1. /\ ok' \in BOOLEAN /\ latch' \in BOOLEAN /\ ctrlC' \in BOOLEAN
          /\ scopeBad' \in BOOLEAN /\ link' \in BOOLEAN /\ cold' \in BOOLEAN
      BY <1>2 DEF HandlerAct
    <2>2. TypeOK'
      BY <1>2, <2>1, SMT DEF HandlerAct
    <2>3. IndexAgrees' /\ LogExtendsRows' /\ ClaimedAtTheEnd' /\ FaultsCarriedOn'
      BY <1>2, SMT DEF HandlerAct
    <2>4. SpoiltRowsNoticed' /\ RunsCounted'
      BY <1>2, SMT DEF HandlerAct
    <2>5. QED
      BY <2>2, <2>3, <2>4
  <1>3. CASE HandlerCheck
    <2>1. /\ ok' \in BOOLEAN /\ latch' \in BOOLEAN /\ ctrlC' \in BOOLEAN
          /\ scopeBad' \in BOOLEAN /\ link' \in BOOLEAN /\ cold' \in BOOLEAN
      BY <1>3 DEF HandlerCheck, WarmIfReady, AfterHandler
    <2>2. TypeOK'
      BY <1>3, <2>1, SMT DEF HandlerCheck, WarmIfReady, AfterHandler
    <2>3. IndexAgrees' /\ LogExtendsRows' /\ ClaimedAtTheEnd' /\ FaultsCarriedOn'
      BY <1>3, SMT DEF HandlerCheck, WarmIfReady, AfterHandler
    <2>4. SpoiltRowsNoticed' /\ RunsCounted'
      BY <1>3, SMT DEF HandlerCheck, WarmIfReady, AfterHandler
    <2>5. QED
      BY <2>2, <2>3, <2>4
  <1>4. QED
    BY <1>1, <1>2, <1>3 DEF Handling

\* A checkpoint, from the loop or from finally.
LEMMA CheckpointStep ==
  ASSUME CInv, Checkpoint
  PROVE  CInv'
  <1> USE SizeAssumption, LimitAssumption, BoundAssumption, SwitchAssumption
      DEF InSession, Opened, Running, Firmware, Benches, None, ClaimIsTrue,
          dataset, session, outside, counters, board, stale, ending, handler, allButPc
  <1> USE DEF CInv, TypeOK, IndexAgrees, LogExtendsRows, ClaimedAtTheEnd, FaultsCarriedOn,
              SpoiltRowsNoticed, RunsCounted
  <1>1. CASE ScopeVerified
    BY <1>1, SMT DEF ScopeVerified
  <1>2. CASE ScopeRefused
    <2>1. /\ ok' \in BOOLEAN /\ latch' \in BOOLEAN /\ ctrlC' \in BOOLEAN
          /\ scopeBad' \in BOOLEAN /\ link' \in BOOLEAN /\ cold' \in BOOLEAN
      BY <1>2 DEF ScopeRefused, Latched
    <2>2. TypeOK'
      BY <1>2, <2>1, SMT DEF ScopeRefused, Latched
    <2>3. IndexAgrees' /\ LogExtendsRows' /\ ClaimedAtTheEnd' /\ FaultsCarriedOn'
      BY <1>2, SMT DEF ScopeRefused, Latched
    <2>4. SpoiltRowsNoticed' /\ RunsCounted'
      BY <1>2, SMT DEF ScopeRefused, Latched
    <2>5. QED
      BY <2>2, <2>3, <2>4
  <1>3. CASE Publish
    BY <1>3, SMT DEF Publish, Publishable
  <1>4. CASE PublishRefused
    BY <1>4, SMT DEF PublishRefused
  <1>5. QED
    BY <1>1, <1>2, <1>3, <1>4 DEF Checkpoint

\* Storage faults, interrupts, kills, and what changes around a session.
LEMMA EnvironmentStep ==
  ASSUME CInv, Environment
  PROVE  CInv'
  <1> USE SizeAssumption, LimitAssumption, BoundAssumption, SwitchAssumption
      DEF InSession, Opened, Running, Firmware, Benches, None, ClaimIsTrue,
          dataset, session, outside, counters, board, stale, ending, handler, allButPc
  <1> USE DEF CInv, TypeOK, IndexAgrees, LogExtendsRows, ClaimedAtTheEnd, FaultsCarriedOn,
              SpoiltRowsNoticed, RunsCounted
  <1>1. CASE AppendFails
    BY <1>1, SMT DEF AppendFails
  <1>2. CASE PublishFails
    BY <1>2, SMT DEF PublishFails
  <1>3. CASE Interrupt
    BY <1>3, SMT DEF Interrupt
  <1>4. CASE InterruptCleanup
    BY <1>4, SMT DEF InterruptCleanup
  <1>5. CASE Kill
    BY <1>5, SMT DEF Kill
  <1>6. CASE ScopeDrift
    BY <1>6, SMT DEF ScopeDrift
  <1>7. CASE FileChange
    BY <1>7, SMT DEF FileChange
  <1>8. CASE BenchBreaks
    BY <1>8, SMT DEF BenchBreaks
  <1>9. QED
    BY <1>1, <1>2, <1>3, <1>4, <1>5, <1>6, <1>7, <1>8 DEF Environment

\* CInv is an inductive invariant of the campaign.
LEMMA CInvInductive == Spec => []CInv
  <1>1. CInv /\ [Next]_vars => CInv'
    <2> SUFFICES ASSUME CInv, [Next]_vars PROVE CInv'
      OBVIOUS
    <2>1. CASE Start
      BY <2>1, StartStep
    <2>2. CASE Recording
      BY <2>2, WarmUpStep, RecordStep DEF Recording
    <2>3. CASE Handling
      BY <2>3, HandlingStep
    <2>4. CASE Checkpoint
      BY <2>4, CheckpointStep
    <2>5. CASE Environment
      BY <2>5, EnvironmentStep
    <2>6. CASE UNCHANGED vars
      BY <2>6 DEF vars, CInv, TypeOK, IndexAgrees, LogExtendsRows, ClaimedAtTheEnd,
                  FaultsCarriedOn, SpoiltRowsNoticed, RunsCounted, InSession, Opened, ClaimIsTrue
    <2>7. QED
      BY <2>1, <2>2, <2>3, <2>4, <2>5, <2>6 DEF Next, Session
  <1>2. QED
    BY InitCInv, <1>1, PTL DEF Spec

-----------------------------------------------------------------------------
(* What follows for the campaign.                                          *)

\* Every variable keeps to its type.
THEOREM CampaignTypeCorrect == Spec => []TypeOK
  <1>1. CInv => TypeOK
    BY DEF CInv
  <1>2. QED
    BY <1>1, CInvInductive, PTL

\* No spoilt row is published, whatever fails.
THEOREM SpoiltRowsAreWithheld == Spec => []NoSpoiltRowPublished
  <1>1. CInv => NoSpoiltRowPublished
    BY DEF CInv, TypeOK, SpoiltRowsNoticed, NoSpoiltRowPublished
  <1>2. QED
    BY <1>1, CInvInductive, PTL

\* What the user is told after Ctrl-C is true.
THEOREM CtrlCMessageIsTrue == Spec => []ClaimIsTrue
  <1>1. CInv => ClaimIsTrue
    BY DEF CInv, ClaimedAtTheEnd
  <1>2. QED
    BY <1>1, CInvInductive, PTL

\* The stale-record rule lets a third identical record in only after a resume.
THEOREM StaleRuleBounded == Spec => []ThirdOnlyAfterResume
  <1>1. CInv => ThirdOnlyAfterResume
    BY DEF CInv, TypeOK, RunsCounted, ThirdOnlyAfterResume
  <1>2. QED
    BY <1>1, CInvInductive, PTL

\* The fault counters of the published checkpoint never go down.
THEOREM FaultHistoryKept == Spec => FaultsNeverForgotten
  <1>1. CInv /\ [Next]_vars =>
          [saved'.fails >= saved.fails /\ saved'.recoveries >= saved.recoveries]_saved
    <2> SUFFICES ASSUME CInv, [Next]_vars, saved' # saved
                 PROVE  saved'.fails >= saved.fails /\ saved'.recoveries >= saved.recoveries
      OBVIOUS
    <2>1. CASE Publish
      BY <2>1 DEF Publish, CInv, FaultsCarriedOn, Opened
    <2>2. QED
      BY <2>1 DEF Next, Session, Start, Recording, Handling, Checkpoint, Environment,
                  StartSession, Bringup, BringupFails, OpenStore, OpenRefused, WarmUp,
                  WarmUpReopens, WarmUpReopened, WarmUpRechecked, WarmUpFails, RejectRecord,
                  TargetFault, RejectStale, OutputMismatch, Capture, NextIndex, LoopEnds,
                  HandlerVerify, HandlerAct, HandlerCheck, ScopeVerified, ScopeRefused,
                  PublishRefused, AppendFails, PublishFails, Interrupt, InterruptCleanup, Kill,
                  ScopeDrift, FileChange, BenchBreaks, dataset, allButPc, vars
  <1>2. QED
    BY <1>1, CInvInductive, PTL DEF Spec, FaultsNeverForgotten

-----------------------------------------------------------------------------
(* The firmware identity.  The program compares the files with the pin     *)
(* before and after it uses them: a change that is undone in between stays *)
(* unseen, which the one hypothesis excludes.                              *)

\* FirmwareHeld is inductive when the files change at most once.
LEMMA FirmwareInductive ==
  ASSUME MaxFileChanges <= 1
  PROVE  Spec => []FirmwareHeld
  <1>1. Init => FirmwareHeld
    BY DEF Init, FirmwareHeld, InSession, Opened, Running
  <1>2. CInv /\ FirmwareHeld /\ [Next]_vars => FirmwareHeld'
    <2> SUFFICES ASSUME CInv, FirmwareHeld, [Next]_vars PROVE FirmwareHeld'
      OBVIOUS
    <2> USE BoundAssumption DEF CInv, TypeOK, IndexAgrees, LogExtendsRows, FirmwareHeld, InSession,
            Opened, Running, FirmwareUnchanged, Firmware, None, dataset, session, outside,
            counters, board, stale, ending, handler, allButPc
    <2>1. CASE Start
      <3>1. CASE StartSession
        BY <3>1, SMTT(30) DEF StartSession
      <3>2. CASE Bringup
        BY <3>2, SMT DEF Bringup
      <3>3. CASE BringupFails
        BY <3>3, SMT DEF BringupFails
      <3>4. CASE OpenStore
        BY <3>4, SMT DEF OpenStore
      <3>5. CASE OpenRefused
        BY <3>5, SMT DEF OpenRefused
      <3>6. QED
        BY <2>1, <3>1, <3>2, <3>3, <3>4, <3>5 DEF Start
    <2>2. CASE WarmUp \/ WarmUpReopens \/ WarmUpReopened \/ WarmUpRechecked \/ WarmUpFails
      <3>1. CASE WarmUp
        BY <3>1, SMT DEF WarmUp
      <3>2. CASE WarmUpReopens
        BY <3>2, SMT DEF WarmUpReopens
      <3>3. CASE WarmUpReopened
        BY <3>3, SMT DEF WarmUpReopened
      <3>4. CASE WarmUpRechecked
        BY <3>4, SMT DEF WarmUpRechecked
      <3>5. CASE WarmUpFails
        BY <3>5, SMT DEF WarmUpFails
      <3>6. QED
        BY <2>2, <3>1, <3>2, <3>3, <3>4, <3>5
    <2>3. CASE RejectRecord \/ TargetFault \/ NextIndex \/ LoopEnds
      BY <2>3, SMTT(30) DEF RejectRecord, TargetFault, NextIndex, LoopEnds, QualityReject, TargetReject
    <2>4. CASE \E w \in Wave : RejectStale(w) \/ OutputMismatch(w)
      <3>1. /\ pc = "loop" /\ pc' \in {"loop", "verify", "fin"}
            /\ UNCHANGED <<rows, sig, log, pin, loaded, fileFw, changes>>
        BY <2>4, TargetRejectCounts, QualityRejectCounts DEF RejectStale, OutputMismatch
      <3>2. QED
        BY <3>1
    <2>5. CASE \E w \in Wave : Capture(w)
      BY <2>5, SMT DEF Capture, Row
    <2>6. CASE Handling
      <3>1. CASE HandlerVerify
        BY <3>1, SMT DEF HandlerVerify, WarmIfReady, AfterHandler
      <3>2. CASE HandlerAct
        BY <3>2, SMT DEF HandlerAct, WarmIfReady, AfterHandler
      <3>3. CASE HandlerCheck
        BY <3>3, SMT DEF HandlerCheck, WarmIfReady, AfterHandler
      <3>4. QED
        BY <2>6, <3>1, <3>2, <3>3 DEF Handling
    <2>7. CASE Checkpoint
      <3>1. CASE ScopeVerified
        BY <3>1, SMT DEF ScopeVerified, Publishable
      <3>2. CASE ScopeRefused
        BY <3>2, SMT DEF ScopeRefused, Publishable
      <3>3. CASE Publish
        BY <3>3, SMT DEF Publish, Publishable
      <3>4. CASE PublishRefused
        BY <3>4, SMT DEF PublishRefused, Publishable
      <3>5. QED
        BY <2>7, <3>1, <3>2, <3>3, <3>4 DEF Checkpoint
    <2>8. CASE Environment
      <3>1. CASE AppendFails
        BY <3>1, SMT DEF AppendFails
      <3>2. CASE PublishFails
        BY <3>2, SMT DEF PublishFails
      <3>3. CASE Interrupt
        BY <3>3, SMT DEF Interrupt
      <3>4. CASE InterruptCleanup
        BY <3>4, SMT DEF InterruptCleanup
      <3>5. CASE Kill
        BY <3>5, SMT DEF Kill
      <3>6. CASE ScopeDrift
        BY <3>6, SMT DEF ScopeDrift
      <3>7. CASE FileChange
        BY <3>7, SMT DEF FileChange
      <3>8. CASE BenchBreaks
        BY <3>8, SMT DEF BenchBreaks
      <3>9. QED
        BY <2>8, <3>1, <3>2, <3>3, <3>4, <3>5, <3>6, <3>7, <3>8 DEF Environment
    <2>9. CASE UNCHANGED vars
      BY <2>9, SMT DEF vars
    <2>10. QED
      BY <2>1, <2>2, <2>3, <2>4, <2>5, <2>6, <2>7, <2>8, <2>9 DEF Next, Session, Recording
  <1>3. QED
    BY <1>1, <1>2, CInvInductive, PTL DEF Spec

\* A warm target behind every row, when a failed reopening leaves no working link.
LEMMA WarmInductive ==
  ASSUME Warmup => ~ HalfOpen
  PROVE  Spec => []WarmHeld
  <1>1. Init => WarmHeld
    BY DEF Init, WarmHeld, InSession
  <1>2. CInv /\ WarmHeld /\ [Next]_vars => WarmHeld'
    <2> SUFFICES ASSUME CInv, WarmHeld, [Next]_vars PROVE WarmHeld'
      OBVIOUS
    <2> USE SwitchAssumption DEF CInv, TypeOK, IndexAgrees, LogExtendsRows, WarmHeld, InSession,
            Opened, Running, dataset, session, outside, counters, board, stale, ending,
            handler, allButPc
    <2>1. CASE Start
      <3>1. CASE StartSession
        <4>1. /\ pc' = "bringup" /\ rows' = rows /\ log' = rows
          BY <3>1 DEF StartSession, FirstIndex
        <4>2. QED
          BY <4>1
      <3>2. CASE Bringup
        BY <3>2, SMT DEF Bringup
      <3>3. CASE BringupFails
        BY <3>3, SMT DEF BringupFails
      <3>4. CASE OpenStore
        BY <3>4, SMT DEF OpenStore
      <3>5. CASE OpenRefused
        BY <3>5, SMT DEF OpenRefused
      <3>6. QED
        BY <2>1, <3>1, <3>2, <3>3, <3>4, <3>5 DEF Start
    <2>2. CASE WarmUp \/ WarmUpReopens \/ WarmUpReopened \/ WarmUpRechecked \/ WarmUpFails
      <3>1. CASE WarmUp
        <4>1. ~ cold' /\ pc' # "check" /\ pc # "down" /\ UNCHANGED <<rows, log>>
          BY <3>1 DEF WarmUp, AfterHandler
        <4>2. QED
          BY <4>1
      <3>2. CASE WarmUpReopens
        BY <3>2, SMT DEF WarmUpReopens
      <3>3. CASE WarmUpReopened
        BY <3>3, SMT DEF WarmUpReopened
      <3>4. CASE WarmUpRechecked
        BY <3>4, SMT DEF WarmUpRechecked
      <3>5. CASE WarmUpFails
        BY <3>5, SMT DEF WarmUpFails
      <3>6. QED
        BY <2>2, <3>1, <3>2, <3>3, <3>4, <3>5
    <2>3. CASE RejectRecord \/ TargetFault \/ NextIndex \/ LoopEnds
      BY <2>3, SMT DEF RejectRecord, TargetFault, NextIndex, LoopEnds, QualityReject, TargetReject
    <2>4. CASE \E w \in Wave : RejectStale(w) \/ OutputMismatch(w)
      BY <2>4, SMTT(30) DEF RejectStale, OutputMismatch, QualityReject, TargetReject
    <2>5. CASE \E w \in Wave : Capture(w)
      <3>1. PICK w \in Wave : Capture(w)
        BY <2>5
      <3>2. /\ pc = "loop" /\ pc' = "appended" /\ ~ (Warmup /\ cold)
            /\ UNCHANGED <<rows, link, cold>>
        BY <3>1 DEF Capture
      <3> DEFINE row == [wave |-> w, spoilt |-> Scope /\ scopeBad, fw |-> loaded,
                         warm |-> ~ (Warmup /\ cold), third |-> Streak(w) >= 3,
                         first |-> i = start]
      <3>3. log' = Append(log, row)
        BY <3>1, Zenon DEF Capture
      <3>4. row.warm
        BY <3>2
      <3> HIDE DEF row
      <3>5. Len(log') = Len(log) + 1 /\ log'[Len(log) + 1] = row
        BY <3>3
      <3>6. \A k \in 1 .. Len(log) : log'[k] = log[k] /\ log[k].warm
        BY <3>2, <3>3
      <3>7. \A k \in 1 .. Len(log') : log'[k].warm
        BY <3>4, <3>5, <3>6
      <3>8. QED
        BY <3>2, <3>7
    <2>6. CASE Handling
      <3>1. CASE HandlerVerify
        BY <3>1, SMT DEF HandlerVerify, WarmIfReady, AfterHandler
      <3>2. CASE HandlerAct
        <4>1. pc = "act" /\ pc' = "check" /\ UNCHANGED <<rows, log>>
          BY <3>2 DEF HandlerAct
        <4>2. ASSUME Warmup, link' PROVE ok'
          BY <3>2, <4>2 DEF HandlerAct
        <4>3. /\ \A k \in 1 .. Len(log') : log'[k].warm
              /\ \A k \in 1 .. Len(rows') : rows'[k].warm
          BY <4>1
        <4>4. QED
          BY <4>1, <4>2, <4>3, Zenon
      <3>3. CASE HandlerCheck
        BY <3>3, SMT DEF HandlerCheck, WarmIfReady, AfterHandler
      <3>4. QED
        BY <2>6, <3>1, <3>2, <3>3 DEF Handling
    <2>7. CASE Checkpoint
      <3>1. CASE ScopeVerified
        BY <3>1, SMT DEF ScopeVerified, Publishable
      <3>2. CASE ScopeRefused
        BY <3>2, SMT DEF ScopeRefused, Publishable
      <3>3. CASE Publish
        BY <3>3, SMT DEF Publish, Publishable
      <3>4. CASE PublishRefused
        BY <3>4, SMT DEF PublishRefused, Publishable
      <3>5. QED
        BY <2>7, <3>1, <3>2, <3>3, <3>4 DEF Checkpoint
    <2>8. CASE Environment
      <3>1. CASE AppendFails
        BY <3>1, SMT DEF AppendFails
      <3>2. CASE PublishFails
        BY <3>2, SMT DEF PublishFails
      <3>3. CASE Interrupt
        BY <3>3, SMT DEF Interrupt
      <3>4. CASE InterruptCleanup
        BY <3>4, SMT DEF InterruptCleanup
      <3>5. CASE Kill
        BY <3>5, SMT DEF Kill
      <3>6. CASE ScopeDrift
        BY <3>6, SMT DEF ScopeDrift
      <3>7. CASE FileChange
        BY <3>7, SMT DEF FileChange
      <3>8. CASE BenchBreaks
        BY <3>8, SMT DEF BenchBreaks
      <3>9. QED
        BY <2>8, <3>1, <3>2, <3>3, <3>4, <3>5, <3>6, <3>7, <3>8 DEF Environment
    <2>9. CASE UNCHANGED vars
      BY <2>9, SMT DEF vars
    <2>10. QED
      BY <2>1, <2>2, <2>3, <2>4, <2>5, <2>6, <2>7, <2>8, <2>9 DEF Next, Session, Recording
  <1>3. QED
    BY <1>1, <1>2, CInvInductive, PTL DEF Spec

\* A dataset names the firmware of each of its rows.
THEOREM RowsBelongToTheirFirmware ==
  ASSUME MaxFileChanges <= 1
  PROVE  Spec => []FirmwareBound
  <1>1. CInv /\ FirmwareHeld => FirmwareBound
    BY DEF CInv, TypeOK, FirmwareHeld, FirmwareBound
  <1>2. QED
    BY <1>1, CInvInductive, FirmwareInductive, PTL

\* With a warm-up requested, every published row has one behind it.
THEOREM RowsFollowTheirWarmUp ==
  ASSUME Warmup => ~ HalfOpen
  PROVE  Spec => []RowsAreWarm
  <1>1. CInv /\ WarmHeld => RowsAreWarm
    BY DEF CInv, TypeOK, WarmHeld, RowsAreWarm
  <1>2. QED
    BY <1>1, CInvInductive, WarmInductive, PTL

\* Both hypotheses together: what a checkpoint publishes is sound in every respect.
THEOREM CheckpointsAreSound ==
  ASSUME MaxFileChanges <= 1, Warmup => ~ HalfOpen
  PROVE  Spec => []PublishedRowsAreSound
  <1>1. TypeOK /\ NoSpoiltRowPublished /\ FirmwareBound /\ RowsAreWarm => PublishedRowsAreSound
    BY DEF PublishedRowsAreSound
  <1>2. QED
    BY <1>1, CampaignTypeCorrect, SpoiltRowsAreWithheld, RowsBelongToTheirFirmware,
       RowsFollowTheirWarmUp, PTL

-----------------------------------------------------------------------------
(* The campaign implements the checkpointed log.                           *)

\* Besides Capture and Publish, no step touches the published rows, the log of an
\* open dataset stays as it is, and a dataset is opened by its own step.
LEMMA OtherStepsKeepRows ==
  ASSUME CInv, [Next]_vars, ~ Publish, \A w \in Wave : ~ Capture(w)
  PROVE  /\ rows' = rows
         /\ Opened => log' = log
         /\ ~ Opened /\ Opened' => pc = "open" /\ log' = log
  <1> USE DEF Opened, dataset, session, allButPc, AfterHandler, WarmIfReady
  <1>1. CASE Start
    BY <1>1 DEF Start, StartSession, Bringup, BringupFails, OpenStore, OpenRefused
  <1>2. CASE Recording
    BY <1>2 DEF Recording, WarmUp, WarmUpReopens, WarmUpReopened, WarmUpRechecked, WarmUpFails,
                RejectRecord, TargetFault, RejectStale, OutputMismatch, NextIndex, LoopEnds
  <1>3. CASE Handling
    BY <1>3 DEF Handling, HandlerVerify, HandlerAct, HandlerCheck
  <1>4. CASE Checkpoint
    BY <1>4 DEF Checkpoint, ScopeVerified, ScopeRefused, PublishRefused
  <1>5. CASE Environment
    BY <1>5 DEF Environment, AppendFails, PublishFails, Interrupt, InterruptCleanup, Kill,
                ScopeDrift, FileChange, BenchBreaks
  <1>6. CASE UNCHANGED vars
    BY <1>6 DEF vars
  <1>7. QED
    BY <1>1, <1>2, <1>3, <1>4, <1>5, <1>6 DEF Next, Session

\* What the checkpointed log sees of a campaign.
AcceptedRows == IF pc \in {"down", "bringup", "open"} THEN rows ELSE log

\* Every step of the campaign is a step of the log, or invisible in it.
LEMMA CampaignRefines ==
  ASSUME CInv, CInv', [Next]_vars
  PROVE  [Log!Next]_Log!vars
  <1>1. /\ rows \in Seq(Row) /\ log \in Seq(Row) /\ Len(rows) \in Nat /\ Len(log) \in Nat
        /\ InSession => Len(rows) <= Len(log) /\ \A k \in 1 .. Len(rows) : rows[k] = log[k]
        /\ pc \in {"bringup", "open"} => log = rows
    <2>1. rows \in Seq(Row) /\ log \in Seq(Row)
      BY DEF CInv, TypeOK
    <2>2. /\ InSession => Len(rows) <= Len(log)
          /\ InSession => \A k \in 1 .. Len(rows) : rows[k] = log[k]
          /\ pc \in {"bringup", "open"} => log = rows
      BY DEF CInv, LogExtendsRows
    <2>3. QED
      BY <2>1, <2>2
  <1>2. ASSUME NEW w \in Wave, Capture(w) PROVE Log!Accept
    <2> DEFINE row == [wave |-> w, spoilt |-> Scope /\ scopeBad, fw |-> loaded,
                       warm |-> ~ (Warmup /\ cold), third |-> Streak(w) >= 3,
                       first |-> i = start]
    <2>1. log' = Append(log, row) /\ rows' = rows
      BY <1>2, Zenon DEF Capture, dataset
    <2>2. pc = "loop" /\ pc' = "appended"
      BY <1>2 DEF Capture
    <2>3. row \in Row
      <3> HIDE DEF row
      <3>1. log' \in Seq(Row) /\ Len(log') = Len(log) + 1 /\ log'[Len(log) + 1] = row
        BY <1>1, <2>1 DEF CInv, TypeOK
      <3>2. QED
        BY <1>1, <3>1
    <2> HIDE DEF row
    <2>4. AcceptedRows = log /\ AcceptedRows' = log'
      BY <2>2 DEF AcceptedRows
    <2>5. QED
      BY <2>1, <2>3, <2>4 DEF Log!Accept, AcceptedRows
  <1>3. CASE Publish
    <2>1. rows' = log /\ log' = log
      <3>1. rows' = SubSeq(log, 1, Len(log)) /\ log' = log
        BY <1>3 DEF Publish, Publishable
      <3>2. QED
        BY <1>1, <3>1, SubSeqFull
    <2>2. AcceptedRows = log /\ AcceptedRows' = log
      BY <1>3, <2>1 DEF AcceptedRows, Publish
    <2>3. Len(rows) <= Len(log)
      BY <1>1, <1>3 DEF Publish, InSession
    <2>4. rows' = Log!Prefix(log, Len(log))
      BY <1>1, <2>1, SubSeqFull DEF Log!Prefix
    <2>5. QED
      BY <1>1, <2>2, <2>3, <2>4 DEF Log!Next, Log!Commit, AcceptedRows
  <1>4. CASE ~ Publish /\ \A w \in Wave : ~ Capture(w)
    <2>1. /\ rows' = rows
          /\ Opened => log' = log
          /\ ~ Opened /\ Opened' => pc = "open" /\ log' = log
      BY <1>4, OtherStepsKeepRows
    <2>2. CASE Opened /\ ~ Opened'
      <3>1. AcceptedRows = log /\ AcceptedRows' = rows
        BY <2>1, <2>2 DEF AcceptedRows, Opened
      <3>2. /\ SubSeq(log, 1, Len(rows)) \in Seq(Row) /\ Len(rows) <= Len(log)
            /\ Len(SubSeq(log, 1, Len(rows))) = Len(rows)
            /\ \A k \in 1 .. Len(rows) : SubSeq(log, 1, Len(rows))[k] = log[k]
        BY <1>1, <2>2 DEF Opened, InSession
      <3>3. \A k \in 1 .. Len(rows) : rows[k] = log[k]
        BY <1>1, <2>2 DEF Opened, InSession
      <3>4. rows = Log!Prefix(log, Len(rows))
        BY <1>1, <3>2, <3>3, SeqEqual DEF Log!Prefix
      <3>5. QED
        BY <1>1, <2>1, <3>1, <3>2, <3>4 DEF Log!Next, Log!Lose, AcceptedRows
    <2>3. CASE ~ (Opened /\ ~ Opened')
      <3>1. AcceptedRows' = AcceptedRows
        BY <1>1, <2>1, <2>3 DEF AcceptedRows, Opened
      <3>2. QED
        BY <2>1, <3>1 DEF Log!vars, AcceptedRows
    <2>4. QED
      BY <2>2, <2>3
  <1>5. QED
    BY <1>2, <1>3, <1>4 DEF Log!Next

\* The campaign implements the checkpointed log: however sessions end, a published
\* row is never lost, changed or reordered, and a row is lost only with its session.
THEOREM CampaignImplementsLog == Spec => ImplementsLog
  <1>1. Init => Log!Init
    BY DEF Init, Log!Init
  <1>2. QED
    BY <1>1, CampaignRefines, CInvInductive, PTL DEF Spec, ImplementsLog, Log!Spec
=============================================================================
