------------------------------- MODULE Scores -------------------------------
(***************************************************************************)
(* What a backtest makes of its folds (evaluation/backtest.py) and how its *)
(* result is read (evaluation/result.py): one table of metrics, and one of *)
(* the predictions every one of those numbers was computed from.           *)
(*                                                                         *)
(* The folds themselves, and what a candidate is fitted on and asked, are  *)
(* Backtest's. Here a fold is a number and its truth, and what a candidate *)
(* forecasts is any number in each of its cells.                           *)
(***************************************************************************)
EXTENDS Metrics, TLC

CONSTANTS
  KeyName,         (* the name of the instance key                         *)
  Cells,           (* the cells of a forecast: [instance, step, target]    *)
  Truths,          (* the truths of a fold, a sequence of them a run       *)
  Answers,         (* what may be forecast: a number in every cell         *)
  Calls,           (* what backtest may be asked: [metrics, output, plan,  *)
                   (* models]. A candidate of models is [label, slug,      *)
                   (* kind, views, plan, params, pinned]: a recipe of      *)
                   (* models that learn from views, a fitted revision or a *)
                   (* pretrained model; what its caller configures for it; *)
                   (* and whether a revision is a step of the recipe.      *)
  Draws,           (* sample paths of a forecast                           *)
  MaxNulls         (* values a run's forecasts leave out. Bounds the model *)

ASSUME ScoresAssumption ==
  /\ \A call \in Calls :
       /\ call.metrics \in Seq(Range(call.metrics)) \ {<<>>} /\ call.models \in Seq(Range(call.models)) \ {<<>>}
       /\ \A k \in DOMAIN call.metrics : IsMetric(call.metrics[k])
       /\ \A k \in DOMAIN call.models : call.models[k].kind \in {"recipe", "revision", "pretrained"}
       /\ call.plan # None => "context" \in DOMAIN call.plan
       /\ call.output.kind \in {"point", "quantiles", "samples"}
       /\ IsFiniteSet(call.output.levels)
  /\ IsFiniteSet(Cells)
  /\ \A cell \in Cells :
       cell.step \in Nat /\ cell = [instance |-> cell.instance, step |-> cell.step, target |-> cell.target]
  /\ None \notin Int /\ \A numbers \in Answers : numbers \in [Cells -> Int]
  /\ \A folds \in Truths : /\ folds \in Seq(Range(folds)) \ {<<>>}
                           /\ \A k \in DOMAIN folds : DOMAIN folds[k] \subseteq Cells
  /\ MaxNulls \in Nat /\ Draws \in Nat \ {0}

VARIABLES
  metrics, output, template, models, truths,   (* what backtest was asked  *)
  phase,         (* "asked", "run", then "done", "refused" or "raised"     *)
  candidate,     (* the candidate being evaluated                          *)
  fold,          (* the fold it is evaluated at                            *)
  executed,      (* the artifact it forecasts with                         *)
  published,     (* who fitted every revision: [model, fold, plan]         *)
  aliases,       (* the revision each artifact name stands for             *)
  rows,          (* the metric table                                       *)
  predictions,   (* the prediction table                                   *)
  nulls          (* values left out so far                                 *)

asked == <<metrics, output, template, models, truths>>
vars == <<asked, phase, candidate, fold, executed, published, aliases, rows, predictions, nulls>>

NotExecuted == [revision |-> "none"]

-----------------------------------------------------------------------------
(* The prediction table. Its columns are the prediction columns and one of *)
(* the instance key, under the caller's own name for it; what is built     *)
(* last of two columns of one name is what the table holds.                *)

PredictionColumns == {"model", "fold", "origin_time", "event_time", "horizon_step", "target",
                      "kind", "quantile", "sample", "prediction", "actual"}

DescribesTheRow == {"kind", "quantile", "sample", "prediction", "actual"}

TableRow(p) ==
  [c \in PredictionColumns \ {"model", "fold"} |-> p[c]]
    @@ (KeyName :> p.keys) @@ [model |-> p.model, fold |-> p.fold]

Table == [k \in DOMAIN predictions |-> TableRow(predictions[k])]

Columns == PredictionColumns \cup {KeyName}

(* Mutant of OutcomeColumns: without the instance keys. *)
OutcomeColumnsOfPredictions == PredictionColumns \ DescribesTheRow

OutcomeColumns == Columns \ DescribesTheRow

-----------------------------------------------------------------------------
(* predictions_of: rows into what was said about each outcome. The last of *)
(* two rows that say one thing is kept. Rows are [outcome, kind, level,    *)
(* draw, predicted, actual], own those of one outcome.                     *)

IsScorable(row) == row.predicted # None /\ row.actual # None

Gathered(sequence, own) ==
  LET Of(kind) == {k \in own : sequence[k].kind = kind}
      LastOf(S) == sequence[Max(S)].predicted
  IN [ actual    |-> sequence[Min(own)].actual,
       point     |-> IF Of("point") = {} THEN None ELSE LastOf(Of("point")),
       quantiles |-> [l \in {sequence[k].level : k \in Of("quantile")} |->
                        LastOf({k \in Of("quantile") : sequence[k].level = l})],
       samples   |-> [n \in {sequence[k].draw : k \in Of("sample")} |->
                        LastOf({k \in Of("sample") : sequence[k].draw = n})] ]

PredictionsOf(sequence) ==
  LET scorable == {k \in DOMAIN sequence : IsScorable(sequence[k])}
  IN [o \in {sequence[k].outcome : k \in scorable} |->
        Gathered(sequence, {k \in scorable : sequence[k].outcome = o})]

-----------------------------------------------------------------------------
(* A call.                                                                 *)

Init ==
  /\ \E call \in Calls :
       /\ metrics = call.metrics /\ output = call.output
       /\ template = call.plan /\ models = call.models
  /\ truths \in Truths
  /\ phase = "asked" /\ candidate = 1 /\ fold = 1 /\ executed = NotExecuted
  /\ published = <<>> /\ aliases = <<>> /\ rows = <<>> /\ predictions = <<>> /\ nulls = 0

Measurable == \A k \in DOMAIN metrics : Requirement(metrics[k], output)
Distinct == \A j, k \in DOMAIN models : models[j].label = models[k].label => j = k
NoneInside == \A k \in DOMAIN models : models[k].kind = "recipe" => ~models[k].pinned
Evaluable == Distinct /\ NoneInside

(* _check_metrics, then _candidates: before anything is fitted.            *)
Check ==
  /\ phase = "asked"
  /\ phase' = IF Measurable /\ Evaluable THEN "run" ELSE "refused"
  /\ UNCHANGED <<asked, candidate, fold, executed, published, aliases, rows, predictions, nulls>>

Model == models[candidate]

ArtifactName == <<Model.slug, fold>>

(* Mutant of Described: a result records the name it fitted under. *)
DescribedByName(revision) == [revision |-> "named", name |-> ArtifactName]

(* A handle's reference names its revision.                                *)
Described(revision) == [revision |-> "pinned", id |-> revision]

Resolved(ref) == IF ref.revision = "named" THEN aliases[ref.name] ELSE ref.id

(* A candidate that already stands is not fitted, and what would configure *)
(* a fit of it is refused, when it is reached and not before.              *)
Standing(model) == model.kind \in {"revision", "pretrained"}

RejectsSettings(model) == Standing(model) /\ (model.plan # None \/ model.params)

SettingsRejected ==
  /\ phase = "run" /\ executed = NotExecuted
  /\ RejectsSettings(Model)
  /\ phase' = "raised"
  /\ UNCHANGED <<asked, candidate, fold, executed, published, aliases, rows, predictions, nulls>>

(* The plan of its own, or the template as its models can bind it.         *)
PlanFor(model) ==
  IF model.plan # None THEN model.plan
  ELSE IF template = None \/ "sequences" \in model.views THEN template
  ELSE [template EXCEPT !.context = None]

(* _fit_for                                                                *)
Fit ==
  /\ phase = "run" /\ executed = NotExecuted
  /\ ~RejectsSettings(Model)
  /\ IF Standing(Model)
     THEN /\ executed' = [revision |-> "standing", id |-> Model.label]
          /\ UNCHANGED <<published, aliases>>
     ELSE /\ published' = Append(published, [model |-> Model.label, fold |-> fold, plan |-> PlanFor(Model)])
          /\ aliases' = (ArtifactName :> Len(published')) @@ aliases
          /\ executed' = Described(Len(published'))
  /\ UNCHANGED <<asked, phase, candidate, fold, rows, predictions, nulls>>

-----------------------------------------------------------------------------
(* A forecast says a number in every cell, spread as far as the output     *)
(* asks for, and may leave values out.                                     *)

Parts ==
  CASE output.kind = "point" -> {[kind |-> "point", quantile |-> None, sample |-> None]}
    [] output.kind = "quantiles" ->
         {[kind |-> "quantile", quantile |-> l, sample |-> None] : l \in output.levels}
    [] output.kind = "samples" ->
         {[kind |-> "sample", quantile |-> None, sample |-> n] : n \in 0 .. Draws - 1}

Spread(part) ==
  CASE part.kind = "point" -> 0
    [] part.kind = "quantile" -> IF part.quantile < Median THEN -1 ELSE IF part.quantile = Median THEN 0 ELSE 1
    [] part.kind = "sample" -> 1 - 2 * (part.sample % 2)

Places == Cells \X Parts

(* _predictions: the forecast beside what happened in its cells.           *)
PredictionAt(place, numbers, missing) ==
  LET cell == place[1]
      part == place[2]
  IN [ model |-> Model.label, fold |-> fold, keys |-> cell.instance,
       origin_time |-> fold, event_time |-> fold + cell.step, horizon_step |-> cell.step,
       target |-> cell.target, kind |-> part.kind, quantile |-> part.quantile, sample |-> part.sample,
       prediction |-> IF place \in missing THEN None ELSE numbers[cell] + Spread(part),
       actual |-> IF cell \in DOMAIN truths[fold] THEN truths[fold][cell] ELSE None ]

Predicted(numbers, missing) ==
  LET places == SetToSeq(Places)
  IN [k \in DOMAIN places |-> PredictionAt(places[k], numbers, missing)]

(* _Prediction.value, whose outcome is the candidate's own.                *)
Value(p) ==
  [ outcome |-> <<p.model, p.fold, p.keys, p.origin_time, p.event_time, p.target>>,
    kind |-> p.kind, level |-> p.quantile, draw |-> p.sample,
    predicted |-> p.prediction, actual |-> p.actual ]

Values(sequence) == [k \in DOMAIN sequence |-> Value(sequence[k])]

MetricRow(m, measured) ==
  [ model |-> Model.label, fold |-> fold, metric |-> m, value |-> measured.value,
    pairs |-> measured.pairs, artifact |-> executed ]

Advance ==
  /\ executed' = NotExecuted
  /\ IF fold < Len(truths) THEN fold' = fold + 1 /\ UNCHANGED <<candidate, phase>>
     ELSE IF candidate < Len(models)
     THEN candidate' = candidate + 1 /\ fold' = 1 /\ UNCHANGED phase
     ELSE phase' = "done" /\ UNCHANGED <<candidate, fold>>

(* _measure, after the fit.                                                *)
Forecast ==
  /\ phase = "run" /\ executed # NotExecuted
  /\ \E numbers \in Answers, missing \in {{}} \cup {{place} : place \in Places} :
       LET found == Predicted(numbers, missing)
           scored == PredictionsOf(Values(found))
           fails == \/ DOMAIN scored = {}
                    \/ \E k \in DOMAIN metrics : IsUndefined(metrics[k], scored)
       IN /\ nulls' = nulls + Cardinality(missing) /\ nulls' <= MaxNulls
          /\ IF fails
             THEN phase' = "raised" /\ UNCHANGED <<candidate, fold, executed, rows, predictions>>
             ELSE /\ predictions' = predictions \o found
                  /\ rows' = rows \o [k \in DOMAIN metrics |->
                                        MetricRow(metrics[k], Measure(metrics[k], scored))]
                  /\ Advance
  /\ UNCHANGED <<asked, published, aliases>>

(* A fit or a forecast that is refused, or fails at its provider.          *)
Raises ==
  /\ phase = "run"
  /\ phase' = "raised"
  /\ UNCHANGED <<asked, candidate, fold, executed, published, aliases, rows, predictions, nulls>>

Next == Check \/ SettingsRejected \/ Fit \/ Forecast \/ Raises

Spec == Init /\ [][Next]_vars

-----------------------------------------------------------------------------
(* Reading the result.                                                     *)

RowValue(row) ==
  [ outcome |-> [c \in OutcomeColumns |-> row[c]],
    kind |-> row.kind, level |-> row.quantile, draw |-> row.sample,
    predicted |-> row.prediction, actual |-> row.actual ]

Grouping(row, keys) == [c \in keys \cup {"model"} |-> row[c]]

(* metrics_by, of one metric.                                              *)
MetricsBy(m, keys) ==
  LET table == Table
  IN [g \in {Grouping(table[k], keys) : k \in DOMAIN table} |->
        LET own == SelectSeq(table, LAMBDA row : Grouping(row, keys) = g)
        IN Measure(m, PredictionsOf([k \in DOMAIN own |-> RowValue(own[k])]))]

(* The models in the order of their rows, the value of each its mean over  *)
(* the folds it has one in.                                                *)
Models == LET labels == [k \in DOMAIN rows |-> rows[k].model]
          IN SelectSeq([k \in DOMAIN models |-> models[k].label],
                       LAMBDA label : label \in Range(labels))

Summary(m, label) ==
  LET measured == {k \in DOMAIN rows : /\ rows[k].metric = m /\ rows[k].model = label
                                       /\ rows[k].value # None}
  IN [ model |-> label, folds |-> Cardinality(measured),
       value |-> IF measured = {} THEN None ELSE MeanOver(LAMBDA k : rows[k].value, measured) ]

RanksBefore(m, value, other) ==
  value # None /\ (other = None \/ Less(Rank(m, value), Rank(m, other)))

Leaderboard(m) ==
  LET entries == [k \in DOMAIN Models |-> Summary(m, Models[k])]
      Before(j, k) == \/ RanksBefore(m, entries[j].value, entries[k].value)
                      \/ ~RanksBefore(m, entries[k].value, entries[j].value) /\ j < k
      order == SetToSortSeq(DOMAIN entries, Before)
  IN [n \in DOMAIN order |-> entries[order[n]]]

Best(m) == Leaderboard(m)[1].model

-----------------------------------------------------------------------------
(* Properties.                                                             *)

Done == phase = "done"

MetricsAsked == Range(metrics)

(* The metric rows are derivable from the prediction rows: grouping the    *)
(* predictions by fold gives every row of the metric table again, in value *)
(* and in pairs, and however outcomes are grouped, each of them is counted *)
(* once. The two ways to say what one outcome is (the tuple of a running   *)
(* backtest, the columns of its result) may not drift apart, or the rows   *)
(* of two outcomes are read as one. And the best of a ranking was          *)
(* measured, if any candidate was.                                         *)
DerivableFromPredictions ==
  Done => \A m \in MetricsAsked :
    LET byFold == MetricsBy(m, {"fold"})
        Pairs(by) == MapThenSumSet(LAMBDA g : by[g].pairs, DOMAIN by)
    IN /\ \A k \in DOMAIN rows : rows[k].metric = m =>
            LET group == [model |-> rows[k].model, fold |-> rows[k].fold]
            IN /\ group \in DOMAIN byFold
               /\ byFold[group] = [value |-> rows[k].value, pairs |-> rows[k].pairs]
       /\ \A keys \in SUBSET {KeyName, "horizon_step"} :
            Pairs(MetricsBy(m, keys)) = Pairs(byFold)
       /\ (\E k \in DOMAIN rows : rows[k].metric = m /\ rows[k].value # None)
            => \E k \in DOMAIN rows : rows[k].metric = m /\ rows[k].value # None
                                      /\ rows[k].model = Best(m)

(* The outcomes of a fold that are known, and whether a forecast of it     *)
(* left nothing out.                                                       *)
Known(f) == {cell \in DOMAIN truths[f] : truths[f][cell] # None}

IsWhole(label, f) ==
  \A k \in DOMAIN predictions :
    predictions[k].model = label /\ predictions[k].fold = f => predictions[k].prediction # None

(* A forecast that says all parts of the output.                           *)
Ideal ==
  LET parts == SetToSeq(Parts)
  IN Gathered([k \in DOMAIN parts |->
                 [ kind |-> parts[k].kind, level |-> parts[k].quantile, draw |-> parts[k].sample,
                   predicted |-> Spread(parts[k]), actual |-> 1 ]], DOMAIN parts)

(* A backtest that was not refused in its first line ends with every       *)
(* metric it was asked for: a fold whose forecast left nothing out is      *)
(* scored in every outcome that is known, one at least (and so it has a    *)
(* value, see Measure), by every metric, so that the means of a            *)
(* leaderboard are over the same folds and the same outcomes.              *)
(* And only what no such forecast could be scored by was refused.          *)
(* backtest.py:285, 553-560, metrics.py:486-509.                           *)
AskedIsMeasured ==
  /\ \A k \in DOMAIN rows : IsWhole(rows[k].model, rows[k].fold) =>
       /\ rows[k].pairs > 0
       /\ rows[k].pairs = Cardinality(Known(rows[k].fold))
  /\ phase = "refused" /\ Evaluable => \E m \in MetricsAsked : ~CanScore(m, Ideal)

(* A candidate that stands was given nothing to fit it with, and one that  *)
(* was fitted was fitted under its own plan, if it has one.                *)
StandsAsGiven(label) ==
  \E n \in DOMAIN models :
    /\ models[n].label = label /\ models[n].kind # "recipe"
    /\ models[n].plan = None /\ ~models[n].params

FittedAsGiven(fit, row) ==
  /\ fit.model = row.model /\ fit.fold = row.fold
  /\ \E n \in DOMAIN models :
       /\ models[n].label = fit.model /\ models[n].kind = "recipe"
       /\ fit.plan = models[n].plan \/ models[n].plan = None
       /\ fit.plan # None /\ fit.plan.context # None =>
            fit.plan = models[n].plan \/ "sequences" \in models[n].views

(* The winner is a reference that can be forecast with: the artifact its   *)
(* rows name, like those of every other row, is when the run is over the   *)
(* one its own candidate was fitted into on that fold, whatever else has   *)
(* been published under the same name since. And what its caller           *)
(* configured was not ignored: a plan of its own is the one it was fitted  *)
(* with, and no candidate that was given a plan or parameters went         *)
(* unfitted. backtest.py:325-344, 562-599, 699-711.                        *)
WinnerIsReproducible ==
  Done => \A k \in DOMAIN rows :
    LET ref == rows[k].artifact
    IN IF ref.revision = "standing"
       THEN ref.id = rows[k].model /\ StandsAsGiven(ref.id)
       ELSE Resolved(ref) \in DOMAIN published /\ FittedAsGiven(published[Resolved(ref)], rows[k])
=============================================================================
