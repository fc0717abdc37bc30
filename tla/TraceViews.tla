----------------------------- MODULE TraceViews -----------------------------
(***************************************************************************)
(* The pure functions between a native dataset and a report on it: the     *)
(* resume sample (acq/checkpoint.py), the scope-aligned view of a row      *)
(* (acq/alignment.py), and the sample coordinates, the Welch statistic,    *)
(* the modelled window and the score diagnostics of acq/analysis.py.       *)
(* LeakageCampaign runs them on the datasets a campaign can leave.         *)
(*                                                                         *)
(* Numbers are exact: a waveform holds integers, a trigger index is        *)
(* counted in half samples, a fraction is a pair <<numerator,              *)
(* denominator>>, and aligned samples are doubled to stay whole.           *)
(***************************************************************************)
EXTENDS Integers, Sequences, FiniteSets

Less(f, g) == f[1] * g[2] < g[1] * f[2]
\* The sum of f over its domain, rows below n.
SumOver(f, n) ==
  LET sum[k \in 0 .. n] ==
        IF k = 0 THEN 0 ELSE sum[k - 1] + IF k - 1 \in DOMAIN f THEN f[k - 1] ELSE 0
  IN  sum[n]
Magnitude(n) == IF n < 0 THEN -n ELSE n
AtMost(a, b) == IF a < b THEN a ELSE b
AtLeast(a, b) == IF a > b THEN a ELSE b

-----------------------------------------------------------------------------
(* checkpoint.verify_resume: the rows a resume looks at, counted from 0.   *)
(* (mutant) The spacing leaves out the last row. *)
SampledShort(done, check) ==
  LET n == AtMost(check, done) IN {(k * (done - 1)) \div n : k \in 0 .. n - 1}

\* unique(linspace(0, done - 1, min(check, done)).astype(int)): both ends included.
Sampled(done, check) ==
  LET n == AtMost(check, done)
  IN  IF n = 1 THEN {0} ELSE {(k * (done - 1)) \div (n - 1) : k \in 0 .. n - 1}

-----------------------------------------------------------------------------
(* alignment: one row, moved by the half samples its trigger came late.    *)

OneSample == 2                        \* the validated bound of a correction

(* (mutant) The shift wraps: numpy.roll without its edge. *)
FractionalAlignWrapped(w, d) ==
  [k \in DOMAIN w |->
     IF d > 0 THEN (2 - d) * w[k] + d * w[(k % Len(w)) + 1]
     ELSE (2 + d) * w[k] - d * w[((k + Len(w) - 2) % Len(w)) + 1]]

\* fractional_align_rows: towards the right neighbour when the trigger was late, towards
\* the left one when it was early; the outermost sample stays.
FractionalAlign(w, d) ==
  [k \in DOMAIN w |->
     CASE d > 0 /\ k < Len(w) -> (2 - d) * w[k] + d * w[k + 1]
       [] d < 0 /\ k > 1      -> (2 + d) * w[k] - d * w[k - 1]
       [] OTHER               -> 2 * w[k]]

\* scope_alignment_context: may the dataset be aligned?  "none": it cannot, which only the
\* raw view accepts; "invalid": no view accepts it.
AlignmentContext(dataset, indices) ==
  CASE dataset.backend # "scope" \/ dataset.provenance = "missing" -> "none"
    [] dataset.provenance \in {"unattested", "prealigned"}         -> "invalid"
    [] \E d \in indices : Magnitude(d) > OneSample                 -> "invalid"
    [] OTHER                                                       -> "usable"

\* trace_processing: does this view of the dataset exist?
ViewExists(dataset, indices, variant) ==
  AlignmentContext(dataset, indices) \in
    (IF variant = "raw" THEN {"none", "usable"} ELSE {"usable"})

\* One row as the analysis reads it (ScopeAlignedTraceView, or the array itself).
ViewOf(row, variant) ==
  IF variant = "raw" THEN [k \in DOMAIN row.wave |-> 2 * row.wave[k]]
  ELSE FractionalAlign(row.wave, row.trigger)

-----------------------------------------------------------------------------
(* analysis: coordinates and windows.                                      *)

NoCoordinate == <<0, 0>>

\* _sample_coordinates: target cycles from the requested trigger to sample s, counted
\* from 0; the scope backend has no such coordinate.
CyclesFromTrigger(dataset, s) ==
  IF dataset.backend = "scope" THEN NoCoordinate
  ELSE LET offset == IF dataset.readback THEN dataset.observedOffset ELSE dataset.offset
       IN  <<s + offset, dataset.adcMul>>

\* _coordinate_report: only for a sample of the record.
CoordinateOf(dataset, samples, s) ==
  IF s \in 0 .. samples - 1 THEN CyclesFromTrigger(dataset, s) ELSE NoCoordinate

(* (mutant) Only the start of the window is moved by the recorded offset. *)
ModelWindowLong(dataset, samples) ==
  AtLeast(0, 5 * dataset.adcMul - dataset.offset) .. AtMost(samples, 16 * dataset.adcMul) - 1

\* _run_aead_cpa: the samples of the target cycles [5, 16).
ModelWindow(dataset, samples) ==
  AtLeast(0, 5 * dataset.adcMul - dataset.offset)
    .. AtMost(samples, 16 * dataset.adcMul - dataset.offset) - 1

-----------------------------------------------------------------------------
(* analysis: Welch's t from the streamed sums of one sample.  count, sum   *)
(* and square are indexed by the group, 0 fixed and 1 random.              *)

Spread(count, sum, square, g) == count[g] * square[g] - sum[g] * sum[g]

\* t squared as a fraction: <<1, 0>> is infinite, <<0, 0>> is undefined.
TSquared(count, sum, square) ==
  LET D == sum[0] * count[1] - sum[1] * count[0]
      E == Spread(count, sum, square, 0) * count[1] * count[1] * (count[1] - 1)
             + Spread(count, sum, square, 1) * count[0] * count[0] * (count[0] - 1)
  IN  IF E # 0 THEN <<D * D * (count[0] - 1) * (count[1] - 1), E>>
      ELSE IF D # 0 THEN <<1, 0>> ELSE <<0, 0>>

Undefined(t) == t = <<0, 0>>
Larger(t, u) == IF u[2] = 0 THEN FALSE ELSE t[2] = 0 \/ Less(u, t)

(* (mutant) argmax of a curve takes the first undefined sample for its peak. *)
PeakOfAny(curve) ==
  IF \A s \in DOMAIN curve : ~Undefined(curve[s])
  THEN CHOOSE s \in DOMAIN curve : \A r \in DOMAIN curve : ~Larger(curve[r], curve[s])
  ELSE CHOOSE s \in DOMAIN curve : Undefined(curve[s])

\* argmax over the samples whose statistic is defined, the first one of equals.
PeakOf(curve) ==
  LET defined == {s \in DOMAIN curve : ~Undefined(curve[s])}
  IN  CHOOSE s \in defined :
        \A r \in defined : ~Larger(curve[r], curve[s]) /\ (r < s => Larger(curve[s], curve[r]))

-----------------------------------------------------------------------------
(* analysis._score_row_diagnostics: one row of scores, a number for each   *)
(* hypothesis and NotFinite where there is none.                           *)

NotFinite == -1
Finite(scores) == {h \in DOMAIN scores : scores[h] # NotFinite}

GuessOf(scores) ==
  CHOOSE h \in DOMAIN scores :
    \A o \in DOMAIN scores : scores[o] <= scores[h] /\ (o < h => scores[o] < scores[h])

BestTies(scores) == Cardinality({h \in Finite(scores) : scores[h] = scores[GuessOf(scores)]})

(* (mutant) The top score counts even when another one equals it. *)
InformativeTied(scores) == scores[GuessOf(scores)] > 0

Informative(scores) == scores[GuessOf(scores)] > 0 /\ BestTies(scores) = 1

\* Hypotheses that tie with the true one count as better; no score at all is the last rank.
RankOf(scores, truth) ==
  IF truth \notin Finite(scores) THEN Cardinality(DOMAIN scores)
  ELSE Cardinality({h \in Finite(scores) : scores[h] >= scores[truth]})
=============================================================================
