-------------------------------- MODULE Drift --------------------------------
(***************************************************************************)
(* The drift correction of a search (explore/drift.cpp): the reference's   *)
(* readings, in time order, say what the machine was doing at each moment, *)
(* and a trial's score is corrected by how far the reference had moved by  *)
(* then.  The arithmetic is exact: a fraction of a span is held in parts   *)
(* of Unit, which every span that occurs divides.                          *)
(***************************************************************************)
EXTENDS Integers, Sequences, FiniteSets, SequencesExt

CONSTANTS Values,        \* of a reading of the reference
          AnchorCount,   \* readings before the first candidate: reference_replicates
          Gaps,          \* between the midpoints of one trial and the next
          Unit,          \* divisible by every span up to MaxTime
          MaxTime, MaxTrials, MaxReferences

VARIABLES points,   \* references_: readings of the reference, [at, value]
          times     \* when the candidate's trials were

vars == <<points, times>>

-----------------------------------------------------------------------------
(* bracket_at: the readings around a time, and how far between them it is. *)
Fraction(ps, i, at) == ((at - ps[i - 1].at) * Unit) \div (ps[i].at - ps[i - 1].at)

Bracket(ps, at) ==
  IF at <= ps[1].at THEN [lower |-> 1, upper |-> 1, fraction |-> 0]
  ELSE IF at > ps[Len(ps)].at THEN [lower |-> Len(ps), upper |-> Len(ps), fraction |-> 0]
  ELSE LET i == CHOOSE i \in 2 .. Len(ps) : at <= ps[i].at /\ \A j \in 2 .. i - 1 : at > ps[j].at
       IN  [lower |-> i - 1, upper |-> i, fraction |-> Fraction(ps, i, at)]

(* baseline_at, in parts of Unit                                           *)
Interpolated(ps, at) ==
  LET b == Bracket(ps, at)
  IN  ps[b.lower].value * Unit + b.fraction * (ps[b.upper].value - ps[b.lower].value)
Baseline(ps, at) == Interpolated(ps, at)

(* corrected, less the raw score: anchor - baseline, in parts of           *)
(* Unit * AnchorCount.  The anchor is the mean of the first readings.      *)
Sum(s) == FoldLeft(LAMBDA a, b : a + b, 0, s)
Anchor(ps) == Sum([k \in 1 .. AnchorCount |-> ps[k].value])
Shift(ps, at) == Anchor(ps) * Unit - Baseline(ps, at) * AnchorCount

(* correction_gain: the weight of each reading in the corrected mean, in   *)
(* parts of Unit * AnchorCount * the number of trials, and the sum of the  *)
(* squares.                                                                *)
LowerOnly(ps, ts, k) ==
  Sum([i \in DOMAIN ts |-> IF Bracket(ps, ts[i]).lower = k THEN Unit - Bracket(ps, ts[i]).fraction ELSE 0])
InBaseline(ps, ts, k) ==
  Sum([i \in DOMAIN ts |->
         LET b == Bracket(ps, ts[i])
         IN  (IF b.lower = k THEN Unit - b.fraction ELSE 0) + (IF b.upper = k THEN b.fraction ELSE 0)])
Weight(ps, ts, k) ==
  InBaseline(ps, ts, k) * AnchorCount - (IF k <= AnchorCount THEN Unit * Len(ts) ELSE 0)
CorrectionGain(ps, ts) ==
  Sum([k \in DOMAIN ps |-> Weight(ps, ts, k) * Weight(ps, ts, k)])

(* reference_variance, of three readings or more: the residual of each     *)
(* interior reading from the line through its neighbours, squared and      *)
(* scaled.  Each term is a numerator and a denominator; the variance is    *)
(* their mean.                                                             *)
Residual(ps, i) ==
  LET span == ps[i + 1].at - ps[i - 1].at
      w == ps[i].at - ps[i - 1].at
  IN  ps[i].value * span - (ps[i - 1].value * span + w * (ps[i + 1].value - ps[i - 1].value))
Term(ps, i) ==
  LET span == ps[i + 1].at - ps[i - 1].at
      w == ps[i].at - ps[i - 1].at
  IN  <<Residual(ps, i) * Residual(ps, i), span * span + w * w + (span - w) * (span - w)>>
VarianceTerms(ps) == [i \in 1 .. Len(ps) - 2 |-> Term(ps, i + 1)]

(* reference_degrees                                                       *)
Degrees(n) == IF n <= 3 THEN 1 ELSE (n - 2) \div 2

-----------------------------------------------------------------------------
Clock == IF Len(times) > 0 /\ times[Len(times)] > points[Len(points)].at
         THEN times[Len(times)] ELSE points[Len(points)].at

(* The anchor, then trials and readings in any order, one after the other. *)
Init ==
  /\ points \in [1 .. AnchorCount -> [at : 0 .. MaxTime, value : Values]]
  /\ points[1].at = 0
  /\ \A k \in 2 .. AnchorCount : points[k].at - points[k - 1].at \in Gaps
  /\ times = <<>>

ReferenceTrial(value, gap) ==
  /\ Len(points) < MaxReferences /\ Clock + gap <= MaxTime
  /\ points' = Append(points, [at |-> Clock + gap, value |-> value]) /\ UNCHANGED times

CandidateTrial(gap) ==
  /\ Len(times) < MaxTrials /\ Clock + gap <= MaxTime
  /\ times' = Append(times, Clock + gap) /\ UNCHANGED points

Over ==
  /\ \/ \A gap \in Gaps : Clock + gap > MaxTime
     \/ Len(points) = MaxReferences /\ Len(times) = MaxTrials
  /\ UNCHANGED vars

Next ==
  \/ \E gap \in Gaps : CandidateTrial(gap) \/ \E value \in Values : ReferenceTrial(value, gap)
  \/ Over

Spec == Init /\ [][Next]_vars

-----------------------------------------------------------------------------
(* The readings and the trials are in time order.                          *)
TypeOK ==
  /\ \A k \in DOMAIN points : points[k].at \in 0 .. MaxTime /\ points[k].value \in Values
  /\ \A k \in 2 .. Len(points) : points[k - 1].at < points[k].at
  /\ \A i \in 2 .. Len(times) : times[i - 1] < times[i]
  /\ \A at \in 0 .. MaxTime : Bracket(points, at).fraction \in 0 .. Unit

Tilted(ps, slope) == [k \in DOMAIN ps |-> [ps[k] EXCEPT !.value = @ + slope * ps[k].at]]

(* A drift that is linear in time is taken out whole: however steep it is, *)
(* a trial between the first reading and the last moves with the reference.*)
LinearDriftIsRemoved ==
  \A slope \in {-1, 2}, i \in DOMAIN times :
    times[i] <= points[Len(points)].at =>
      Baseline(Tilted(points, slope), times[i]) = Baseline(points, times[i]) + slope * times[i] * Unit

(* The gain credited to the reference's noise is what the noise does: each *)
(* reading's weight is the change in the corrected mean when that reading  *)
(* is one higher, readings that serve both the anchor and the baseline     *)
(* included.                                                               *)
Moved(k) == [points EXCEPT ![k].value = @ + 1]
Influence(k) == Sum([i \in DOMAIN times |-> Shift(Moved(k), times[i]) - Shift(points, times[i])])
GainIsInfluence ==
  times # <<>> => CorrectionGain(points, times)
                  = Sum([k \in DOMAIN points |-> Influence(k) * Influence(k)])

(* The noise is measured free of a linear drift, at whatever spacing.      *)
NoiseIsNotDrift == \A slope \in {-1, 2} : VarianceTerms(Tilted(points, slope)) = VarianceTerms(points)

(* The degrees of freedom credited to the noise are at least one and never *)
(* above the effective ones of m = n - 2 overlapping residuals,            *)
(* m^2 / (m + 8 (m - 1) / 9 + (m - 2) / 18), beyond three readings.        *)
DegreesErrWide ==
  \A n \in 2 .. 12 * Len(points) :
    /\ Degrees(n) >= 1
    /\ n > 3 => Degrees(n) * (35 * (n - 2) - 18) <= 18 * (n - 2) * (n - 2)

(* The correction takes out the drift, all of it and nothing else, and its *)
(* own uncertainty is what it is said to be.                               *)
DriftIsRemoved == LinearDriftIsRemoved /\ GainIsInfluence /\ NoiseIsNotDrift /\ DegreesErrWide
=============================================================================
