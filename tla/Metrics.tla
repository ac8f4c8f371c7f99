------------------------------ MODULE Metrics ------------------------------
(***************************************************************************)
(* What a forecast is scored by (evaluation/metrics.py), over what a model *)
(* said about one outcome (evaluation/predictions.py).                     *)
(*                                                                         *)
(* A number of the data is an integer and a level is in tenths, so that a  *)
(* quantile read off draws is a whole number of tenths. A measurement is a *)
(* fraction <<n, d>>, and None where there is none. RMSE is left out: it   *)
(* is MAE with another arithmetic. So are the names of metrics: their %g   *)
(* keeps such levels apart.                                                *)
(***************************************************************************)
EXTENDS Integers, Sequences, SequencesExt

CONSTANT None    (* no number, no level *)

Median == 5

Magnitude(x) == IF x < 0 THEN -x ELSE x

Plus(p, q) == IF p[2] = q[2] THEN <<p[1] + q[1], p[2]>>
              ELSE <<p[1] * q[2] + q[1] * p[2], p[2] * q[2]>>
Less(p, q) == p[1] * q[2] < q[1] * p[2]
Absolute(p) == <<Magnitude(p[1]), p[2]>>

(* Of a set, under an operator that gives fractions.                       *)
MeanOver(value(_), set) ==
  LET sum == MapThenFoldSet(Plus, <<0, 1>>, value, LAMBDA S : CHOOSE x \in S : TRUE, set)
  IN <<sum[1], sum[2] * Cardinality(set)>>

-----------------------------------------------------------------------------
(* What a model said about one outcome:                                    *)
(*   [actual, point, quantiles: level -> number, samples: draw -> number]  *)

(* quantile_of_samples: between the draws on both sides of the position.   *)
QuantileOfSamples(samples, level) ==
  LET Before(d, e) == samples[d] < samples[e] \/ (samples[d] = samples[e] /\ d < e)
      ordered == SetToSortSeq(DOMAIN samples, Before)
      position == (Len(ordered) - 1) * level
      below == samples[ordered[position \div 10 + 1]]
      above == samples[ordered[(position + 9) \div 10 + 1]]
  IN 10 * below + (position % 10) * (above - below)

Holds(p, level) == level \in DOMAIN p.quantiles \/ DOMAIN p.samples # {}

HasPointEstimate(p) == p.point # None \/ Holds(p, Median)

Quantile(p, level) ==
  IF level \in DOMAIN p.quantiles THEN 10 * p.quantiles[level]
  ELSE QuantileOfSamples(p.samples, level)

PointEstimate(p) == IF p.point # None THEN 10 * p.point ELSE Quantile(p, Median)

-----------------------------------------------------------------------------
(* Metrics: [kind, level], the level None for those of a point.            *)

PointMetrics == {"mae", "mape", "bias"}
IntervalMetrics == {"coverage", "interval_width"}

IsMetric(m) ==
  \/ m.kind \in PointMetrics /\ m.level = None
  \/ m.kind = "pinball" /\ m.level \in 1 .. 9
  \/ m.kind \in IntervalMetrics /\ m.level \in 1 .. 9 /\ m.level % 2 = 0

Bounds(m) == <<(10 - m.level) \div 2, 10 - (10 - m.level) \div 2>>

(* The levels a metric reads.                                              *)
LevelsOf(m) == IF m.kind = "pinball" THEN {m.level} ELSE {Bounds(m)[1], Bounds(m)[2]}

CanScore(m, p) ==
  IF m.kind \in PointMetrics THEN HasPointEstimate(p)
  ELSE \A level \in LevelsOf(m) : Holds(p, level)

Width(m, p) == Quantile(p, Bounds(m)[2]) - Quantile(p, Bounds(m)[1])

Loss(m, p) ==
  LET error == 10 * p.actual - Quantile(p, m.level)
  IN IF error >= 0 THEN error * m.level ELSE -error * (10 - m.level)

(* What one prediction adds. Coverage counts.                              *)
ScoreOf(m, p) ==
  LET error == PointEstimate(p) - 10 * p.actual
  IN CASE m.kind = "mae" -> <<Magnitude(error), 10>>
       [] m.kind = "bias" -> <<error, 10>>
       [] m.kind = "mape" -> <<Magnitude(error), Magnitude(p.actual)>>
       [] m.kind = "pinball" -> <<Loss(m, p), 100>>
       [] m.kind = "interval_width" -> <<Width(m, p), 10>>
       [] m.kind = "coverage" ->
            IF /\ Quantile(p, Bounds(m)[1]) <= 10 * p.actual
               /\ 10 * p.actual <= Quantile(p, Bounds(m)[2]) THEN <<1, 1>> ELSE <<0, 1>>

(* predictions: a function of outcomes. Percentage errors of outcomes that *)
(* are zero are refused.                                                   *)
IsUndefined(m, predictions) ==
  m.kind = "mape" /\ \E o \in DOMAIN predictions :
    CanScore(m, predictions[o]) /\ predictions[o].actual = 0

Measure(m, predictions) ==
  LET usable == {o \in DOMAIN predictions : CanScore(m, predictions[o])}
  IN [ pairs |-> Cardinality(usable),
       value |-> IF usable = {} THEN None
                 ELSE MeanOver(LAMBDA o : ScoreOf(m, predictions[o]), usable) ]

(* Mutant of NeedsLevels: the check is of one of the bounds. *)
NeedsSomeLevel(levels, output) ==
  \/ output.kind = "samples"
  \/ output.kind = "quantiles" /\ levels \cap output.levels # {}

(* Can a forecast of this output be scored: what is checked before a fit.  *)
NeedsLevels(levels, output) ==
  \/ output.kind = "samples"
  \/ output.kind = "quantiles" /\ levels \subseteq output.levels

Requirement(m, output) ==
  IF m.kind \in PointMetrics THEN output.kind = "quantiles" => Median \in output.levels
  ELSE NeedsLevels(LevelsOf(m), output)

(* Lower ranks are better.                                                 *)
Rank(m, value) ==
  CASE m.kind = "bias" -> Absolute(value)
    [] m.kind = "coverage" -> Absolute(Plus(value, <<-m.level, 10>>))
    [] OTHER -> value
=============================================================================
