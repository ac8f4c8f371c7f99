------------------------------ MODULE Backtest ------------------------------
(***************************************************************************)
(* A backtest (evaluation/backtest.py, evaluation/validation.py) of data   *)
(* that a feed has been collecting.                                        *)
(*                                                                         *)
(* The feed comes first: at every moment each instance may have an outcome *)
(* measured, recorded without a value, or not recorded, and a vintage      *)
(* issued. What was known at each moment is remembered in asKnown, which   *)
(* no code reads: it is what a caller would have had in its hands then.    *)
(*                                                                         *)
(* Then the backtest: folds are cut out of the whole data, and at each of  *)
(* them every candidate is fitted, forecasts and is scored. Any step may   *)
(* raise, and what is published by then stays published.                   *)
(***************************************************************************)
EXTENDS Views, Sequences

CONSTANTS
  LastMoment,    (* when the feed ends. Bounds the model.                  *)
  Horizon,       (* steps ahead that are forecast                          *)
  LateStarters,  (* the instances that may come into being after the start *)
  MaxIrregular,  (* how often a feed departs from its schedule. A bound.   *)
  MaxUnanswered, (* values that forecasts leave out. Bounds the model.     *)
  Validations,   (* the validations that may be asked for                  *)
  ModelLists     (* the sequences of candidates that may be compared       *)

(* A candidate is [contract, selection, context]: the view its model is    *)
(* trained on, the origins of its plan, and the context length of its      *)
(* plan where the contract binds one. "standing" needs no fit: a frozen    *)
(* revision, or a pretrained model.                                        *)
Contracts == {"series", "sequences", "tabular", "standing"}

ASSUME BacktestAssumption ==
  /\ LastMoment \in Nat /\ MaxIrregular \in Nat /\ MaxUnanswered \in Nat
  /\ Horizon \in Nat \ {0}
  /\ IsFiniteSet(Instance) /\ LateStarters \subseteq Instance
  /\ \A validation \in Validations :
       \/ /\ validation.mode = "rolling"
          /\ validation.windows \in Nat \ {0} /\ validation.stride \in Nat \ {0}
       \/ /\ validation.mode = "origins"
          /\ validation.origins.mode \in OriginModes
  /\ \A list \in ModelLists :
       /\ Len(list) \in Nat \ {0} /\ DOMAIN list = 1 .. Len(list)
       /\ \A k \in DOMAIN list : /\ list[k].contract \in Contracts
                                 /\ list[k].selection.mode \in OriginModes

VARIABLES
  clock,        (* the moment the feed is about to live through            *)
  info,         (* the vintages issued so far                              *)
  truth,        (* the outcomes recorded so far                            *)
  irregular,    (* departures of the feed from its schedule                *)
  asKnown,      (* history: what the feed held after each moment           *)
  phase,        (* "feed", then "run", then "done" or "raised"             *)
  models,       (* the candidates                                          *)
  folds,        (* the folds                                               *)
  candidate,    (* the candidate being evaluated, by its place in models   *)
  pending,      (* the origins it has not been evaluated at                *)
  executed,     (* the artifact this fold forecasts with; Unfitted before  *)
  published,    (* the training view of every artifact fitted so far       *)
  rows,         (* the table of metrics, each with its pairs               *)
  predictions   (* the table of predictions                                *)

feed == <<clock, info, truth, irregular, asKnown>>
results == <<published, rows, predictions>>
progress == <<candidate, pending, executed>>
vars == <<feed, phase, models, folds, progress, results>>

Unfitted == -1
Standing == 0

Moments == 0 .. LastMoment
OnGrid(moment) == moment % Period = 0

-----------------------------------------------------------------------------
(* The feed. On the event grid every instance that has started records its *)
(* outcome and issues a vintage as far as the horizon; off the grid it is  *)
(* silent. Anything else is a departure.                                   *)

Usual(moment) == IF OnGrid(moment) THEN [lead |-> Horizon, outcome |-> "measured"]
                 ELSE [lead |-> 0, outcome |-> "none"]

Reports(moment) ==
  [lead : 0 .. Horizon, outcome : IF OnGrid(moment) THEN {"measured", "null", "none"} ELSE {"none"}]

Silence == [lead |-> 0, outcome |-> "none"]

NotStarted(i) == i \in LateStarters /\ i \notin InstancesIn(info) \cup InstancesIn(truth)

Departs(i, report) == report # Usual(clock) /\ ~(NotStarted(i) /\ report = Silence)

Issued(report) ==
  UNION {{[origin |-> clock, instance |-> i, event |-> t] :
            t \in {u \in clock .. Shift(clock, report[i].lead) : report[i].lead > 0 /\ OnGrid(u)}} :
           i \in Instance}

Recorded(report) ==
  {[instance |-> i, event |-> clock, measured |-> report[i].outcome = "measured"] :
     i \in {j \in Instance : report[j].outcome # "none"}}

Live ==
  /\ phase = "feed" /\ clock \in Moments
  /\ \E report \in [Instance -> Reports(clock)] :
       /\ irregular' = irregular + Cardinality({i \in Instance : Departs(i, report[i])})
       /\ irregular' <= MaxIrregular
       /\ info' = info \cup Issued(report)
       /\ truth' = truth \cup Recorded(report)
  /\ asKnown' = [asKnown EXCEPT ![clock] = [info |-> info', truth |-> truth']]
  /\ clock' = clock + 1
  /\ UNCHANGED <<phase, models, folds, progress, results>>

-----------------------------------------------------------------------------
(* The folds. A static feature is declared or not.                         *)

Statics == {{}, InstancesIn(truth)}

Dataset(static) == [info |-> info, truth |-> truth, static |-> static]

(* The event-time frame of the same outcomes, with the known features of   *)
(* the steps after its end where it was given some.                        *)
Frame(beyond, static) ==
  [ history |-> truth,
    future  |-> {[instance |-> i, event |-> t] :
                   i \in InstancesIn(truth), t \in ForecastWindow(Max(EventsIn(truth)), beyond)},
    static  |-> static ]

(* Origins stepping back from the end, the last with all of its horizon.   *)
RollingOrigins(validation, frame) ==
  {Shift(Max(EventsIn(frame.history)), -(Horizon + k * validation.stride)) :
     k \in 0 .. validation.windows - 1}

RollingFold(frame, origin) ==
  LET past == FrameUpTo(frame, origin)
  IN [ origin  |-> origin,
       train   |-> FrameSource(past),
       context |-> ContextOf(past),
       truth   |-> Outcomes(frame.history, origin, Horizon) ]

OriginFold(dataset, origin) ==
  [ origin  |-> origin,
    train   |-> DatasetSource(UpTo(dataset, origin)),
    context |-> AtOrigin(dataset, origin),
    truth   |-> Outcomes(dataset.truth, origin, Horizon) ]

Begin(list, cut) ==
  /\ models' = list
  /\ folds' = cut
  /\ candidate' = 1
  /\ pending' = {fold.origin : fold \in cut}
  /\ phase' = "run"
  /\ UNCHANGED <<feed, executed, results>>

Raise ==
  /\ phase' = "raised"
  /\ UNCHANGED <<feed, models, folds, progress, results>>

(* backtest(frame, validation=RollingOrigin(...)): every fold is cut       *)
(* before anything is fitted.                                              *)
StartRolling ==
  /\ phase = "feed" /\ clock > LastMoment /\ truth # {}
  /\ \E validation \in {v \in Validations : v.mode = "rolling"},
        list \in ModelLists, beyond \in {0, Horizon}, static \in Statics :
       LET frame == Frame(beyond, static)
           origins == RollingOrigins(validation, frame)
       IN IF /\ Min(origins) >= Min(EventsIn(truth))
             /\ \A o \in origins : FrameReaches(frame, o)
          THEN Begin(list, {RollingFold(frame, o) : o \in origins})
          ELSE Raise

(* backtest(dataset, validation=ForecastOriginValidation(...)).            *)
StartOrigins ==
  /\ phase = "feed" /\ clock > LastMoment /\ info # {}
  /\ \E validation \in {v \in Validations : v.mode = "origins"},
        list \in ModelLists, static \in Statics :
       LET dataset == Dataset(static)
           origins == Selected(validation.origins, Origins(dataset))
       IN /\ IsDataset(dataset)
          /\ IF /\ origins # {}
                /\ \A o \in origins : Reaches(dataset, o) /\ HasContext(dataset, o)
             THEN Begin(list, {OriginFold(dataset, o) : o \in origins})
             ELSE Raise

-----------------------------------------------------------------------------
(* One measurement: the earliest origin the candidate has not met.         *)

Fold == CHOOSE fold \in folds : fold.origin = Min(pending)
Model == models[candidate]

(* _fit_for                                                                *)
Fit ==
  /\ phase = "run" /\ executed = Unfitted
  /\ IF Model.contract = "standing"
     THEN /\ executed' = Standing
          /\ UNCHANGED <<feed, phase, models, folds, candidate, pending, results>>
     ELSE LET view == FitView(Fold.train, Model.contract, Model.selection, Model.context, Horizon)
          IN /\ view # {}
             /\ published' = Append(published, view)
             /\ executed' = Len(published) + 1
             /\ UNCHANGED <<feed, phase, models, folds, candidate, pending, rows, predictions>>

(* What the view is refused for, or the provider fails at.                 *)
FitRaises ==
  /\ phase = "run" /\ executed = Unfitted /\ Model.contract # "standing"
  /\ Raise

(* _predictions: every cell of the forecast beside what happened there. A  *)
(* model may answer a cell with a null or a NaN: it says that it does not  *)
(* know.                                                                   *)
Prediction(cell, step, answered) ==
  [ model    |-> candidate,
    fold     |-> Fold.origin,
    artifact |-> executed,
    instance |-> cell.instance,
    event    |-> cell.event,
    step     |-> step,
    given    |-> cell.values,
    answered |-> answered,
    actual   |-> {row \in Fold.truth : CellOf(row) = CellOf(cell)} ]

Asked == ForecastCells(Fold.context, Horizon)

Predicted(silent) ==
  LET cells == Asked
      step(cell) == Cardinality({t \in EventsIn(cells) : t <= cell.event})
  IN {Prediction(cell, step(cell), cell \notin silent) : cell \in cells}

Unanswered(table) == {p \in table : ~p.answered}

IsMeasured(prediction) == \E row \in prediction.actual : row.measured

(* Mutant of IsScorable: a value that is left out is scored as any other. *)
IsScorableByItsOutcome(prediction) == IsMeasured(prediction)

IsScorable(prediction) == prediction.answered /\ IsMeasured(prediction)

ContextLength == IF Model.contract = "sequences" THEN Model.context ELSE NoContext

(* Mutant of Advance: the last fold is taken for the end. *)
AdvanceToTheLast ==
  LET left == pending \ {Min(pending)}
  IN /\ executed' = Unfitted
     /\ IF Cardinality(left) > 1
        THEN pending' = left /\ UNCHANGED <<candidate, phase>>
        ELSE phase' = "done" /\ pending' = {} /\ UNCHANGED candidate

(* The candidates in order, and for each the folds in order.               *)
Advance ==
  LET left == pending \ {Min(pending)}
  IN /\ executed' = Unfitted
     /\ IF left # {}
        THEN pending' = left /\ UNCHANGED <<candidate, phase>>
        ELSE IF candidate < Len(models)
        THEN /\ candidate' = candidate + 1
             /\ pending' = {fold.origin : fold \in folds}
             /\ UNCHANGED phase
        ELSE phase' = "done" /\ pending' = {} /\ UNCHANGED candidate

(* _measure, after the fit. What is scored is what is left of the forecast *)
(* and of the truth.                                                       *)
Forecast ==
  /\ phase = "run" /\ executed # Unfitted
  /\ LongEnough(Fold.context, ContextLength)
  /\ \E silent \in SUBSET Asked :
       LET found == Predicted(silent)
           scored == {p \in found : IsScorable(p)}
       IN /\ Cardinality(silent) + Cardinality(Unanswered(predictions)) <= MaxUnanswered
          /\ scored # {}
          /\ predictions' = predictions \cup found
          /\ rows' = rows \cup {[ model |-> candidate, fold |-> Fold.origin,
                                  artifact |-> executed, pairs |-> Cardinality(Cells(scored)) ]}
  /\ Advance
  /\ UNCHANGED <<feed, models, folds, published>>

(* A context that is too short, a provider that fails or that answers      *)
(* something else, and a fold with nothing to score.                       *)
ForecastRaises ==
  /\ phase = "run" /\ executed # Unfitted
  /\ Raise

-----------------------------------------------------------------------------
Init ==
  /\ clock = 0
  /\ info = {} /\ truth = {}
  /\ irregular = 0
  /\ asKnown = [t \in Moments |-> [info |-> {}, truth |-> {}]]
  /\ phase = "feed"
  /\ models = <<>>
  /\ folds = {}
  /\ candidate = 1 /\ pending = {} /\ executed = Unfitted
  /\ published = <<>> /\ rows = {} /\ predictions = {}

Next ==
  \/ Live
  \/ StartRolling \/ StartOrigins
  \/ Fit \/ FitRaises
  \/ Forecast \/ ForecastRaises

Spec == Init /\ [][Next]_vars

-----------------------------------------------------------------------------
TypeOK ==
  /\ clock \in 0 .. LastMoment + 1
  /\ info \subseteq Information
  /\ truth \subseteq Outcome
  /\ irregular \in 0 .. MaxIrregular
  /\ phase \in {"feed", "run", "done", "raised"}
  /\ executed \in {Unfitted, Standing} \cup DOMAIN published
  /\ pending \subseteq {fold.origin : fold \in folds}
  /\ phase = "run" => pending # {} /\ candidate \in DOMAIN models

(* A fold is what a caller would have had at its origin: the same training *)
(* data and the same context can be cut from what the feed held then, and  *)
(* nothing that arrived later, nor a vintage that was issued before,       *)
(* makes a difference. forecast_dataset.py:161-213 and 92-159,             *)
(* frame.py:123-193.                                                       *)
FoldsAreAsKnown ==
  \A fold \in folds :
    LET known == asKnown[fold.origin]
    IN /\ fold.train.truth = known.truth
       /\ fold.train.kind = "dataset" =>
            LET live == AtOrigin([info |-> known.info, truth |-> known.truth,
                                  static |-> fold.context.static], fold.origin)
            IN /\ fold.train.info = known.info
               /\ fold.context = live

(* What an artifact learned, at any fold and under any contract, is older  *)
(* than the forecasts it is scored on: no outcome after the origin, no     *)
(* vintage other than a sample's own, no observed feature past a sample's  *)
(* origin, and no outcome that it is then scored against.                  *)
LearnedBeforeTheOrigin ==
  \A p \in {q \in predictions : q.artifact # Standing} :
    \A sample \in published[p.artifact] :
      /\ \A row \in sample.outcomes : row.event <= p.fold
      /\ p.actual \cap sample.outcomes = {}
      /\ sample.origin <= p.fold
      /\ \A row \in sample.observed : sample.origin # NoOrigin => row.event <= sample.origin
      /\ \A row \in sample.known : "origin" \in DOMAIN row => row.origin = sample.origin

(* A forecast conditions on its origin's vintage and on no other, its      *)
(* steps count from where its context ends, and what it is scored against  *)
(* happened after the origin and within the horizon.                       *)
ForecastFromItsOrigin ==
  \A p \in predictions :
    /\ \A fold \in folds : fold.origin = p.fold => p.event = Shift(fold.context.origin, p.step)
    /\ \A row \in p.given : "origin" \in DOMAIN row => row.origin = p.fold
    /\ \A row \in p.actual : p.fold < row.event /\ row.event <= Shift(p.fold, Horizon)

(* What the table of predictions says of one row of the metrics.           *)
PredictionsOf(row) == {p \in predictions : p.model = row.model /\ p.fold = row.fold}

AskedOf(row) == {<<p.instance, p.event, p.step, p.actual>> : p \in PredictionsOf(row)}

LeftOut(row) == Cells({p \in PredictionsOf(row) : IsMeasured(p) /\ ~p.answered})

(* Candidates are comparable: two of them that were measured at one origin *)
(* were asked for the same cells at the same steps, beside the same        *)
(* outcomes, and every one of these outcomes that was measured is a pair   *)
(* of each, or a value which the table of predictions shows it left out;   *)
(* and each row names an artifact that was fitted for it and for no other, *)
(* unless its model is never fitted. backtest.py:289-309, 457-599.         *)
RowsAreComparable ==
  \A r, s \in rows :
    /\ r.fold = s.fold =>
         /\ AskedOf(r) = AskedOf(s)
         /\ r.pairs + Cardinality(LeftOut(r)) = s.pairs + Cardinality(LeftOut(s))
    /\ r # s /\ r.artifact = s.artifact =>
         \A row \in {r, s} : models[row.model].contract = "standing"

(* A backtest that returns has measured every candidate at every fold,     *)
(* once.                                                                   *)
DoneIsComplete ==
  phase = "done" =>
    \A k \in DOMAIN models, fold \in folds :
      Cardinality({r \in rows : r.model = k /\ r.fold = fold.origin}) = 1
=============================================================================
