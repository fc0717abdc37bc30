--------------------------- MODULE LeakageCampaign ---------------------------
(***************************************************************************)
(* From the schedule of a campaign to the verdict about it: which rows are *)
(* captured with the fixed input (acq/inputs.py, acq/config.py), whether a *)
(* later session carries on the same schedule (acq/checkpoint.py), and     *)
(* what the streaming analyses say of the rows (acq/analysis.py).          *)
(*                                                                         *)
(* The random stream of a campaign is the labelling of its blocks: the     *)
(* generator computes the labels of a block again whenever it needs them,  *)
(* and keeps those of the last one.  A row records what the tool stores of *)
(* it and, in input, what was really sent.  The label and block sidecars   *)
(* of a dataset of the first schema carry no digest, so their bytes may    *)
(* have changed between two sessions (Damage).  The behaviour ends with    *)
(* the first refusal or report: the analyses do not change the dataset.    *)
(*                                                                         *)
(* A definition marked (mutant) is wrong on purpose: a plausible slip that *)
(* takes the place of the definition after it to show that the properties  *)
(* notice.                                                                 *)
(***************************************************************************)
EXTENDS TraceViews

CONSTANTS
  Campaigns,            \* requested plans (see Validated), each with the instrument and
                        \* metadata of its dataset (see TraceViews)
  Records(_, _),        \* Records(plan, i): what the instrument may return for row i
  Scores,               \* score rows of the CPA engine, over the hypotheses
  Truth,                \* the true hypothesis
  NCheck,               \* rows a resume looks at (64 in the code)
  Threshold,            \* the squared t that counts as leakage (4.5 squared in the code)
  Chunks,               \* rows analysed at a time
  MaxDamage             \* bound: changed sidecar entries

\* A configured instrument has read back the offset that was asked for, or the campaign
\* does not begin (HuskyBackend.configure).
ASSUME CampaignAssumption ==
  \A c \in Campaigns :
    /\ c = <<c[1], c[2]>>
    /\ c[1] \in [traces : Nat, size : Nat, order : {"block", "alternate"}, tvla : BOOLEAN,
                 fixedInput : BOOLEAN]
    /\ c[2] \in [backend : {"husky", "scope"},
                 provenance : {"missing", "unattested", "prealigned", "complete"},
                 offset : Nat, observedOffset : Nat, readback : BOOLEAN, adcMul : Nat \ {0}]
    /\ c[2].readback => c[2].observedOffset = c[2].offset

\* All records of a campaign have the same number of samples.
ASSUME RecordAssumption ==
  \A c \in Campaigns : \A i \in 0 .. c[1].traces - 1 :
    /\ Records(c[1], i) # {}
    /\ \A r \in Records(c[1], i) : r.wave \in Seq(Int) /\ r.trigger \in Int
    /\ \A r \in Records(c[1], i), q \in Records(c[1], 0) : Len(r.wave) = Len(q.wave)

\* A score is a magnitude, and the truth is one of the hypotheses.
ASSUME ScoreAssumption ==
  \A scores \in Scores :
    /\ IsFiniteSet(DOMAIN scores) /\ DOMAIN scores = 0 .. Cardinality(DOMAIN scores) - 1
    /\ Truth \in DOMAIN scores
    /\ scores \in [DOMAIN scores -> Nat \cup {NotFinite}]

ASSUME BoundAssumption ==
  NCheck \in Nat \ {0, 1} /\ Threshold \in Nat /\ MaxDamage \in Nat /\ Chunks \subseteq Nat \ {0}

VARIABLES
  plan, dataset, stream,                \* fixed when the campaign starts
  rows,                                 \* the native dataset
  damage,                               \* history: changed entries
  cache,                                \* the block whose labels the generator holds
  phase,                                \* what is going on
  job,                                  \* the analysis: its kind, view and chunk
  pos,                                  \* rows it has read in this pass
  protocol,                             \* the label pass
  sums,                                 \* the waveform pass
  report

campaign == <<plan, dataset, stream>>
analysis == <<job, pos, protocol, sums, report>>
vars == <<campaign, rows, damage, cache, phase, analysis>>

Group == {0, 1}                         \* 0: the fixed input, 1: a random one
FixedInput == 0
N == plan.traces
Done == Len(rows)
Samples == Len(CHOOSE w \in {r.wave : r \in Records(plan, 0)} : TRUE)
Row(i) == rows[i + 1]                   \* rows are counted from 0, as in the code

-----------------------------------------------------------------------------
(* The schedule (config.AcqConfig.validate, inputs.InputGen).              *)

\* The part of validate that the schedule rests on.
Validated(p) ==
  /\ p.traces > 0
  /\ p.size >= 2 /\ p.size % 2 = 0
  /\ p.tvla => p.traces % 2 = 0

BlockOf(i) == IF plan.order = "alternate" THEN i \div 2 ELSE i \div plan.size
BlockLength(p, b) == AtMost(p.size, p.traces - b * p.size)
BlockCount(p) == (p.traces + p.size - 1) \div p.size
BalancedLabels(n) ==
  {s \in [0 .. n - 1 -> Group] : Cardinality({k \in 0 .. n - 1 : s[k] = 1}) = n - n \div 2}

(* (mutant) The labels of the last block stay in use in the next one. *)
LabelsStale(b) == stream[IF cache = -1 THEN b ELSE cache]

\* The cached labels, or those of the block computed again.
Labels(b) == IF cache = b THEN stream[cache] ELSE stream[b]

\* tvla_group: the label of row i.
TvlaGroup(i) ==
  IF plan.order = "alternate" THEN i % 2 ELSE Labels(i \div plan.size)[i % plan.size]

(* (mutant) The block of the row that comes next. *)
CacheAfterNext(i) ==
  IF plan.tvla /\ plan.order = "block" THEN (i + 1) \div plan.size ELSE cache

CacheAfter(i) ==
  IF plan.tvla /\ plan.order = "block" THEN i \div plan.size ELSE cache

RandomInput(i) == i + 1
\* inp: what row i is captured with.
InputOf(i) ==
  IF plan.tvla THEN IF TvlaGroup(i) = 0 THEN FixedInput ELSE RandomInput(i)
  ELSE IF plan.fixedInput THEN FixedInput ELSE RandomInput(i)

-----------------------------------------------------------------------------
NoJob == [kind |-> "none", variant |-> "raw", chunk |-> 1]
NoReport == [verdict |-> "none"]
ZeroCurve == [s \in 1 .. Samples |-> 0]
NoProtocol == [count |-> [g \in Group |-> 0], even |-> [g \in Group |-> 0],
               current |-> -1, total |-> 0, fixed |-> 0, blocks |-> 0,
               least |-> <<1, 1>>, most |-> <<0, 1>>, bad |-> FALSE]
NoSums == [count |-> [g \in Group |-> 0], sum |-> [g \in Group |-> ZeroCurve],
           square |-> [g \in Group |-> ZeroCurve]]

Init ==
  /\ \E c \in Campaigns : Validated(c[1]) /\ plan = c[1] /\ dataset = c[2]
  /\ stream \in {f \in [0 .. BlockCount(plan) - 1 ->
                          UNION {BalancedLabels(BlockLength(plan, b)) :
                                   b \in 0 .. BlockCount(plan) - 1}] :
                   \A b \in DOMAIN f : f[b] \in BalancedLabels(BlockLength(plan, b))}
  /\ rows = <<>> /\ damage = 0 /\ cache = -1 /\ phase = "idle"
  /\ job = NoJob /\ pos = 0 /\ protocol = NoProtocol /\ sums = NoSums /\ report = NoReport

\* An exception: no report, only its reason.
Refuse(why) ==
  /\ phase' = "refused" /\ report' = [verdict |-> why]
  /\ UNCHANGED <<campaign, rows, damage, cache, job, pos, protocol, sums>>

-----------------------------------------------------------------------------
(* Sessions.                                                               *)

\* verify_resume: all labels in range, the sampled rows as the generator makes them.
ResumeAccepts ==
  /\ plan.tvla => \A i \in 0 .. Done - 1 : Row(i).label \in Group /\ Row(i).block >= 0
  /\ \A i \in Sampled(Done, NCheck) :
       /\ Row(i).input = InputOf(i)
       /\ plan.tvla => Row(i).label = TvlaGroup(i) /\ Row(i).block = BlockOf(i)

\* A new process with a new generator, whose cache holds nothing yet; the check of a
\* resume leaves the block of its last sampled row there.
OpenSession ==
  /\ phase = "idle" /\ Done < N
  /\ IF Done > 0 /\ ~ResumeAccepts THEN Refuse("schedule")
     ELSE /\ phase' = "session" /\ cache' = IF Done = 0 THEN cache ELSE CacheAfter(Done - 1)
          /\ UNCHANGED <<campaign, rows, damage, analysis>>

\* One verified row: the hot loop asks for its input, its label and its block.
AppendRow ==
  /\ phase = "session" /\ Done < N
  /\ \E r \in Records(plan, Done) :
       rows' = Append(rows, [input |-> InputOf(Done),
                             label |-> IF plan.tvla THEN TvlaGroup(Done) ELSE 0,
                             block |-> IF plan.tvla THEN BlockOf(Done) ELSE 0,
                             wave |-> r.wave, trigger |-> r.trigger])
  /\ cache' = CacheAfter(Done)
  /\ UNCHANGED <<campaign, damage, phase, analysis>>

\* The session ends, complete or not, and its generator with it.
EndSession ==
  /\ phase = "session" /\ phase' = "idle" /\ cache' = -1
  /\ UNCHANGED <<campaign, rows, damage, analysis>>

\* An entry of the label or block sidecar is not what was written.
Damage ==
  /\ phase = "idle" /\ plan.tvla /\ damage < MaxDamage /\ damage' = damage + 1
  /\ \E i \in 1 .. Done :
       \/ \E g \in 0 .. 2 : /\ g # rows[i].label
                            /\ rows' = [rows EXCEPT ![i] = [@ EXCEPT !.label = g]]
       \/ \E b \in -1 .. 1 : /\ b # rows[i].block
                             /\ rows' = [rows EXCEPT ![i] = [@ EXCEPT !.block = b]]
  /\ UNCHANGED <<campaign, cache, phase, analysis>>

-----------------------------------------------------------------------------
(* Analyses.                                                               *)

\* _selection: CPA on a TVLA campaign needs labels that are all in range.
Selectable == plan.tvla => \A i \in 0 .. Done - 1 : Row(i).label \in Group

\* _run_aead_cpa has a window only for the Husky, inside the record.
AeadUsable == dataset.backend = "husky" /\ ModelWindow(dataset, Samples) # {}

\* run_requested: TVLA for a TVLA campaign, CPA for each; _open_native builds the view
\* that was asked for.
Startable(kind, variant) ==
  /\ ViewExists(dataset, {Row(i).trigger : i \in 0 .. Done - 1}, variant)
  /\ kind # "tvla" => Selectable
  /\ kind = "aead" => AeadUsable

Start ==
  /\ phase = "idle" /\ Done > 0
  /\ \E kind \in {"tvla", "aes", "aead"}, variant \in {"raw", "aligned"}, chunk \in Chunks :
       /\ kind = "tvla" => plan.tvla
       /\ IF ~Startable(kind, variant) THEN Refuse("unusable")
          ELSE /\ job' = [kind |-> kind, variant |-> variant, chunk |-> chunk]
               /\ phase' = IF kind = "tvla" THEN "labels" ELSE "correlate"
               /\ UNCHANGED <<campaign, rows, damage, cache, pos, protocol, sums, report>>

Stop == AtMost(Done, pos + job.chunk)

\* finish_block: the share of fixed rows of the block that ends here.
FinishBlock(p) ==
  LET share == <<p.fixed, p.total>>
  IN  IF p.current = -1 THEN p
      ELSE [count |-> p.count, even |-> p.even, current |-> p.current, total |-> p.total,
            fixed |-> p.fixed, blocks |-> p.blocks + 1,
            least |-> IF Less(share, p.least) THEN share ELSE p.least,
            most |-> IF Less(p.most, share) THEN share ELSE p.most, bad |-> p.bad]

\* One row of _tvla_protocol_diagnostics: i counts rows from 0, and the row may be the
\* first one of its block.
LabelRow(p, i) ==
  LET row == Row(i)
      enters == row.block # p.current
      before == IF enters THEN FinishBlock(p) ELSE p
  IN  [count |-> [p.count EXCEPT ![row.label] = @ + 1],
       even |-> [p.even EXCEPT ![row.label] = @ + IF i % 2 = 0 THEN 1 ELSE 0],
       current |-> row.block,
       total |-> (IF enters THEN 0 ELSE p.total) + 1,
       fixed |-> (IF enters THEN 0 ELSE p.fixed) + IF row.label = 0 THEN 1 ELSE 0,
       blocks |-> before.blocks, least |-> before.least, most |-> before.most,
       bad |-> p.bad \/ (enters /\ row.block <= p.current)]

(* (mutant) The block that spans two chunks starts again in the second. *)
LabelChunkForgets(p) ==
  LET read[n \in 0 .. Stop - pos] ==
        IF n = 0 THEN [p EXCEPT !.total = 0, !.fixed = 0] ELSE LabelRow(read[n - 1], pos + n - 1)
  IN  read[Stop - pos]

\* One row after the other, from the state that the last chunk left.
LabelChunk(p) ==
  LET read[n \in 0 .. Stop - pos] == IF n = 0 THEN p ELSE LabelRow(read[n - 1], pos + n - 1)
  IN  read[Stop - pos]

\* The first pass of TVLA; labels out of range and blocks out of order end the analysis.
ReadLabels ==
  /\ phase = "labels" /\ pos < Done
  /\ IF \E i \in pos .. Stop - 1 : Row(i).label \notin Group \/ Row(i).block < 0
     THEN Refuse("labels")
     ELSE LET p == LabelChunk(protocol)
          IN  IF p.bad THEN Refuse("labels")
              ELSE /\ protocol' = IF Stop = Done THEN FinishBlock(p) ELSE p
                   /\ pos' = IF Stop = Done THEN 0 ELSE Stop
                   /\ phase' = IF Stop = Done THEN "welch" ELSE phase
                   /\ UNCHANGED <<campaign, rows, damage, cache, job, sums, report>>

\* The rows of a chunk that belong to group g, and what is added up of them.
Of(g) == {i \in pos .. Stop - 1 : Row(i).label = g}
Values(S, s) == [i \in S |-> ViewOf(Row(i), job.variant)[s]]
Squares(S, s) == [i \in S |-> Values(S, s)[i] * Values(S, s)[i]]
Added(acc, g, S) ==
  [count |-> [acc.count EXCEPT ![g] = @ + Cardinality(S)],
   sum |-> [acc.sum EXCEPT ![g] = [s \in 1 .. Samples |-> @[s] + SumOver(Values(S, s), Done)]],
   square |-> [acc.square EXCEPT ![g] =
                 [s \in 1 .. Samples |-> @[s] + SumOver(Squares(S, s), Done)]]]

(* (mutant) The last, shorter chunk is left out. *)
ReadWaveformsWhole ==
  /\ phase = "welch" /\ pos < Done
  /\ pos' = Stop
  /\ sums' = IF Stop - pos < job.chunk THEN sums ELSE Added(Added(sums, 0, Of(0)), 1, Of(1))
  /\ UNCHANGED <<campaign, rows, damage, cache, phase, job, protocol, report>>

\* The second pass: _welch_from_native adds up both groups, chunk after chunk.
ReadWaveforms ==
  /\ phase = "welch" /\ pos < Done
  /\ pos' = Stop
  /\ sums' = Added(Added(sums, 0, Of(0)), 1, Of(1))
  /\ UNCHANGED <<campaign, rows, damage, cache, phase, job, protocol, report>>

Curve == [s \in 1 .. Samples |->
            TSquared(sums.count, [g \in Group |-> sums.sum[g][s]],
                     [g \in Group |-> sums.square[g][s]])]

\* What a finished campaign must have: the requested rows of each group, every block
\* balanced, and the fixed input in every row of group 0.
(* (mutant) The inputs are not looked at. *)
CompleteUnlessInputs ==
  /\ \A g \in Group : sums.count[g] = N \div 2
  /\ protocol.least[1] * 2 = protocol.least[2] /\ protocol.most[1] * 2 = protocol.most[2]

CompleteAsRequested ==
  /\ \A g \in Group : sums.count[g] = N \div 2
  /\ protocol.least[1] * 2 = protocol.least[2] /\ protocol.most[1] * 2 = protocol.most[2]
  /\ \A i \in 0 .. Done - 1 : Row(i).label = 0 => Row(i).input = FixedInput

\* The groups differ by half or more in how many of their rows have an even index.
Confounded ==
  LET e0 == protocol.even[0] * protocol.count[1]
      e1 == protocol.even[1] * protocol.count[0]
  IN  2 * Magnitude(e0 - e1) >= protocol.count[0] * protocol.count[1]

(* (mutant) The threshold speaks before the parity check. *)
InterpretationEager(peak) ==
  IF Less(<<Threshold, 1>>, peak) THEN "detected" ELSE IF Confounded THEN "confounded" ELSE "quiet"

Interpretation(peak) ==
  IF Confounded THEN "confounded" ELSE IF Less(<<Threshold, 1>>, peak) THEN "detected" ELSE "quiet"

\* The end of _run_tvla_unlocked: refuse what has no statistic, or report.
Verdict ==
  /\ phase = "welch" /\ pos = Done
  /\ IF \E g \in Group : sums.count[g] < 2 THEN Refuse("rows")
     ELSE IF Done = N /\ ~CompleteAsRequested THEN Refuse("request")
     ELSE IF \A s \in 1 .. Samples : Undefined(Curve[s]) THEN Refuse("statistic")
     ELSE /\ report' = [verdict |-> Interpretation(Curve[PeakOf(Curve)]),
                        peak |-> PeakOf(Curve),
                        at |-> CoordinateOf(dataset, Samples, PeakOf(Curve) - 1)]
          /\ phase' = "reported"
          /\ UNCHANGED <<campaign, rows, damage, cache, job, pos, protocol, sums>>

\* _selection: the rows of group 1 of a TVLA campaign, every row of another one.
(* (mutant) The fixed rows are correlated too. *)
SelectedAll == pos .. Stop - 1

Selected == IF plan.tvla THEN Of(1) ELSE pos .. Stop - 1

\* The one pass of CPA; the sums of the selected rows stand in the place of group 1.
CorrelateAes ==
  /\ phase = "correlate" /\ job.kind = "aes" /\ pos < Done
  /\ pos' = Stop /\ sums' = Added(sums, 1, Selected)
  /\ UNCHANGED <<campaign, rows, damage, cache, phase, job, protocol, report>>

\* The AEAD model reads only its window of every row.
Windowed(curve) ==
  [s \in 1 .. Samples |-> IF s - 1 \in ModelWindow(dataset, Samples) THEN curve[s] ELSE 0]

CorrelateAead ==
  /\ phase = "correlate" /\ job.kind = "aead" /\ pos < Done
  /\ pos' = Stop
  /\ LET new == Added(sums, 1, Selected)
     IN  sums' = [count |-> new.count,
                  sum |-> [new.sum EXCEPT ![1] = Windowed(@)],
                  square |-> [new.square EXCEPT ![1] = Windowed(@)]]
  /\ UNCHANGED <<campaign, rows, damage, cache, phase, job, protocol, report>>

\* _require_trace_variation: some sample has a variance (the others are zero).
Varies == \E s \in 1 .. Samples : Spread(sums.count, [g \in Group |-> sums.sum[g][s]],
                                          [g \in Group |-> sums.square[g][s]], 1) > 0
InputsVary ==
  Cardinality({Row(i).input : i \in {j \in 0 .. Done - 1 : plan.tvla => Row(j).label = 1}}) > 1

Scorable == sums.count[1] >= 2 /\ InputsVary /\ Varies
Scored(scores, verdict) ==
  /\ phase' = "reported"
  /\ report' = [verdict |-> verdict, rank |-> RankOf(scores, Truth), scores |-> scores]
  /\ UNCHANGED <<campaign, rows, damage, cache, job, pos, protocol, sums>>

\* The candidate key is tried on stored rows only when its score is informative, and
\* only the true key gives their ciphertexts.
ScoreAes ==
  /\ phase = "correlate" /\ job.kind = "aes" /\ pos = Done
  /\ IF ~Scorable THEN Refuse("variation")
     ELSE \E scores \in Scores :
            Scored(scores, IF Informative(scores) /\ GuessOf(scores) = Truth
                           THEN "recovered" ELSE "ranked")

\* The AEAD analysis tries no key: it ranks positions.
ScoreAead ==
  /\ phase = "correlate" /\ job.kind = "aead" /\ pos = Done
  /\ IF ~Scorable THEN Refuse("variation")
     ELSE \E scores \in Scores : Scored(scores, "ranked")

-----------------------------------------------------------------------------
Session == OpenSession \/ AppendRow \/ EndSession \/ Damage
Analyse ==
  \/ Start \/ ReadLabels \/ ReadWaveforms \/ Verdict
  \/ CorrelateAes \/ CorrelateAead \/ ScoreAes \/ ScoreAead
Next == Session \/ Analyse

Spec == Init /\ [][Next]_vars

-----------------------------------------------------------------------------
\* The state has its types.
TypeOK ==
  /\ <<plan, dataset>> \in Campaigns /\ damage \in 0 .. MaxDamage
  /\ Done <= N /\ \A i \in 0 .. Done - 1 : Row(i).input \in {FixedInput, RandomInput(i)}
  /\ cache \in -1 .. BlockCount(plan) - 1 /\ pos \in 0 .. Done
  /\ phase \in {"idle", "session", "labels", "welch", "correlate", "refused", "reported"}
  /\ job.kind \in {"none", "tvla", "aes", "aead"} /\ job.variant \in {"raw", "aligned"}

\* What the random stream and the plan say of row i, whoever asks and in whatever order.
ScheduledLabel(i) ==
  IF plan.order = "alternate" THEN i % 2 ELSE stream[i \div plan.size][i % plan.size]
ScheduledBlock(i) == IF plan.order = "alternate" THEN i \div 2 ELSE i \div plan.size

\* Every row of a TVLA campaign is captured with the input its schedule gives it, and of
\* every finished block exactly half with the fixed one, over all sessions and with the
\* labels the generator keeps (inputs.InputGen, the cached block).
BalancedCampaign ==
  plan.tvla =>
    /\ \A i \in 0 .. Done - 1 : Row(i).input = FixedInput <=> ScheduledLabel(i) = 0
    /\ \A b \in {ScheduledBlock(i) : i \in 0 .. N - 1} :
         LET members == {i \in 0 .. N - 1 : ScheduledBlock(i) = b}
         IN  (\A i \in members : i < Done) =>
               2 * Cardinality({i \in members : Row(i).input = FixedInput}) = Cardinality(members)

\* A session carries on only a dataset whose first and last rows are those of its own
\* schedule, and all of them while no more rows exist than the resume looks at
\* (checkpoint.verify_resume).
ResumeMeetsSchedule ==
  (phase = "idle" /\ phase' = "session" /\ plan.tvla) =>
    \A i \in 0 .. Done - 1 :
      (Done <= NCheck \/ i \in {0, Done - 1}) =>
        Row(i).label = ScheduledLabel(i) /\ Row(i).block = ScheduledBlock(i)

\* The report on a finished TVLA campaign rests on true labels: a row counts as fixed
\* exactly when it was captured with the fixed input, whatever has become of the label
\* and block sidecars (analysis._run_tvla_unlocked, the checks of a completed campaign).
ReportedLabelsAreTrue ==
  (phase = "reported" /\ job.kind = "tvla" /\ Done = N) =>
    \A i \in 0 .. N - 1 : Row(i).label = 0 <=> Row(i).input = FixedInput

\* What the tool has recorded itself, it resumes and accepts: an untouched dataset is never
\* refused for its schedule, its labels or its counts.
OwnCampaignAccepted ==
  damage = 0 => report.verdict \notin {"schedule", "labels", "request"}

\* From the schedule to the report, over all sessions and whatever happens to the
\* sidecars, a label says with which input its row was captured, or the campaign is
\* refused; and it is refused for nothing else.
LabelsAreTrue ==
  [][ResumeMeetsSchedule
     /\ (TypeOK /\ BalancedCampaign /\ ReportedLabelsAreTrue /\ OwnCampaignAccepted)']_vars

\* What was streamed chunk by chunk is what the rows say: the counts and sums of both
\* passes, whatever the chunk and wherever it cuts a block.
StreamedIsDirect ==
  LET read == 0 .. (IF phase \in {"welch", "correlate", "reported"} THEN pos ELSE 0) - 1
      of(g) == {i \in read : IF job.kind = "tvla" THEN Row(i).label = g
                             ELSE g = 1 /\ (plan.tvla => Row(i).label = 1)}
      runs == {Row(i).block : i \in 0 .. Done - 1}
      share(b) == LET m == {i \in 0 .. Done - 1 : Row(i).block = b}
                  IN  <<Cardinality({i \in m : Row(i).label = 0}), Cardinality(m)>>
  IN  /\ phase # "refused" => \A g \in Group :
           /\ sums.count[g] = Cardinality(of(g))
           /\ \A s \in 1 .. Samples :
                sums.sum[g][s] =
                  IF job.kind = "aead" /\ s - 1 \notin ModelWindow(dataset, Samples) THEN 0
                  ELSE SumOver(Values(of(g), s), Done)
      /\ (phase \in {"welch", "reported"} /\ job.kind = "tvla") =>
           /\ protocol.blocks = Cardinality(runs)
           /\ \A b \in runs : ~Less(share(b), protocol.least) /\ ~Less(protocol.most, share(b))
           /\ \E b \in runs : ~Less(protocol.least, share(b))
           /\ \E b \in runs : ~Less(share(b), protocol.most)

\* A leakage verdict is never given for groups that differ by half or more in the parity of
\* their row numbers, and so never for an alternating campaign.
DetectionIsNotParity ==
  (phase = "reported" /\ job.kind = "tvla" /\ damage = 0) =>
    LET f == {i \in 0 .. Done - 1 : Row(i).input = FixedInput}
        r == {i \in 0 .. Done - 1 : Row(i).input # FixedInput}
        even(S) == Cardinality({i \in S : i % 2 = 0})
    IN  /\ plan.order = "alternate" => report.verdict = "confounded"
        /\ report.verdict = "detected" =>
             2 * Magnitude(even(f) * Cardinality(r) - even(r) * Cardinality(f))
               < Cardinality(f) * Cardinality(r)

\* The peak of a report is a sample whose statistic no other one exceeds; it has a time
\* after the trigger exactly when the instrument gives one.
PeakIsLargest ==
  (phase = "reported" /\ job.kind = "tvla") =>
    /\ ~Undefined(Curve[report.peak])
    /\ \A s \in 1 .. Samples : ~Undefined(Curve[s]) => ~Larger(Curve[s], Curve[report.peak])
    /\ report.at = NoCoordinate <=> dataset.backend = "scope"

\* CPA on an untouched TVLA campaign uses the rows captured with a random input, all of
\* them and no other: the fixed ones are no observation of the key.
CpaUsesRandomRows ==
  (phase \in {"correlate", "reported"} /\ job.kind # "tvla" /\ plan.tvla /\ damage = 0) =>
    sums.count[1] = Cardinality({i \in 0 .. pos - 1 : Row(i).input # FixedInput})

\* A key is reported as recovered, and a rank of one given, only when the true hypothesis
\* has a score above every other one: a tie never counts as a success.
RecoveryIsEarned ==
  (phase = "reported" /\ job.kind # "tvla" /\ (report.verdict = "recovered" \/ report.rank = 1)) =>
    \A h \in DOMAIN report.scores \ {Truth} : report.scores[h] < report.scores[Truth]

\* The scope-aligned view of a row is its linear interpolation at the time of the recorded
\* trigger, held at the ends of the record: nothing wraps round.
AlignmentInterpolates ==
  job.variant = "aligned" =>
    \A i \in 0 .. Done - 1 :
      LET w == Row(i).wave
          at(k) == AtLeast(2, AtMost(2 * Len(w), 2 * k + Row(i).trigger))
      IN  ViewOf(Row(i), "aligned") =
            [k \in DOMAIN w |-> w[at(k) \div 2] + w[(at(k) + 1) \div 2]]

\* The window of the AEAD model is exactly the samples whose reported coordinate lies in
\* the target cycles [5, 16).
WindowIsModelledCycles ==
  job.kind = "aead" =>
    ModelWindow(dataset, Samples) =
      {s \in 0 .. Samples - 1 :
         LET c == CyclesFromTrigger(dataset, s) IN ~Less(c, <<5, 1>>) /\ Less(c, <<16, 1>>)}

\* The statistics are those of the rows they name, in the view they name.
StatisticsAreDirect == StreamedIsDirect /\ CpaUsesRandomRows /\ AlignmentInterpolates

\* What a report calls a detection, a peak or a recovered key is one.
VerdictIsEarned ==
  DetectionIsNotParity /\ PeakIsLargest /\ RecoveryIsEarned /\ WindowIsModelledCycles
=============================================================================
