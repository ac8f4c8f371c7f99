---------------------------- MODULE NixtlaModels ----------------------------
(***************************************************************************)
(* StatsForecast and NeuralForecast (integrations/nixtla). Both libraries  *)
(* take and return long frames: rows of a unique_id and a moment ds.       *)
(*                                                                         *)
(* A local model has one series per id; a global one learns from samples,  *)
(* one id each. The ids and the library's answer about them come back as   *)
(* a frame of rows in no order that is relied on.                          *)
(***************************************************************************)
EXTENDS ModelViews, NativeParameters

(* What a quantile level is read from: a bound of an interval, or the      *)
(* point forecast. Levels are percent.                                     *)
Median == 50

Confidence(level) == IF level < Median THEN 100 - 2 * level ELSE 2 * level - 100
Confidences(levels) == {Confidence(level) : level \in levels \ {Median}}

(* Mutant of BoundOf: the side of the interval is not looked at. *)
UpperBoundOf(level) ==
  IF level = Median THEN <<"point", 0>> ELSE <<"hi", Confidence(level)>>

BoundOf(level) ==
  CASE level = Median -> <<"point", 0>>
    [] level < Median -> <<"lo", Confidence(level)>>
    [] level > Median -> <<"hi", Confidence(level)>>

-----------------------------------------------------------------------------
(* training_frame and StatsForecastAdapter.fit                             *)

StatsDeclares(exogenous, quantiles) ==
  Declared("series", FALSE, IF exogenous THEN {"known"} ELSE {},
           {"point"} \cup (IF quantiles THEN {"quantiles"} ELSE {}))

StatsAdapter(exogenous, quantiles, parameters) ==
  Adapter("stats", StatsDeclares(exogenous, quantiles), parameters)

(* One parameter of every kind that AutoARIMA is given by hand.            *)
AutoArimaParameters ==
  [season_length |-> AtLeast("integer", 1), stepwise |-> Flag,
   ic |-> OneOf({Word(1), Word(2)})]

StatsCertified == Named("autoarima", StatsAdapter(TRUE, TRUE, AutoArimaParameters))

(* _discover_statsforecast                                                 *)
StatsReserved == {"alias", "prediction_intervals"}

StatsAdapters(library) ==
  Catalogued(StatsCertified, library,
    LAMBDA class : ~class.excluded /\ class.forecasts /\ IsConstructible(class.constructor, StatsReserved),
    LAMBDA class : StatsAdapter(FALSE, FALSE, Discovered(class.constructor, StatsReserved)))

SeriesId(sample) == <<sample.instance, sample.origin>>

StatsFits(view) ==
  view.kind = "series" /\ view.roles \subseteq {"known"}

(* _instantiate adds nothing to the parameters.                            *)
StatsCompiled(view) == NoParams

StatsFit(view) ==
  [ exogenous |-> view.roles,
    series    |-> {[ unique_id |-> SeriesId(s), key |-> s.instance,
                     last |-> Max(EventsIn(s.outcomes)) ] : s \in view.samples} ]

UniqueIds(state) ==
  [i \in {one.key : one \in state.series} |->
     (CHOOSE one \in state.series : one.key = i).unique_id]

(* _require_matching_origin                                                *)
AtItsOrigin(state, view) ==
  \A i \in ToSet(view.instances) :
    \E one \in state.series : one.key = i /\ one.last = view.origin

(* External: every series that was fitted is continued.                    *)
StatsPredicts(state, steps) ==
  UNION {{ [unique_id |-> one.unique_id, ds |-> Shift(one.last, k),
            value |-> Continued(one.key, one.last, steps[one.key])[k]] :
             k \in 1 .. steps[one.key]} : one \in state.series}

(* _long_answer. The rows of an id in the order of their moments, one for  *)
(* each event time of the view.                                            *)
OfSeries(predictions, id) ==
  LET own == {row \in predictions : row.unique_id = id}
  IN InOrder(own, {p \in own \X own : p[1].ds < p[2].ds})

LongAnswer(view, ids, predictions, parts) ==
  IF \E i \in ToSet(view.instances) : Len(OfSeries(predictions, ids[i])) # view.horizon
  THEN Refused
  ELSE {Row(i, EventTimes(view)[k], part, OfSeries(predictions, ids[i])[k].value) :
          i \in ToSet(view.instances), k \in 1 .. view.horizon, part \in parts}

StatsPart(level) == <<level, BoundOf(level)>>

StatsForecast(adapter, state, view, output, steps) ==
  LET parts == IF output.kind = "point" THEN {Point}
               ELSE {StatsPart(level) : level \in output.levels}
  IN IF \/ output.kind \notin adapter.declares.outputs
        \/ ~AtItsOrigin(state, view)
        \/ ~(state.exogenous \subseteq view.roles)
     THEN Refused
     ELSE LongAnswer(view, UniqueIds(state), StatsPredicts(state, steps), parts)

-----------------------------------------------------------------------------
(* sequence_frames and NeuralForecastAdapter.fit                           *)

NeuralDeclares(roles) == Declared("sequences", TRUE, roles, {"point"})

NeuralAdapter(roles, parameters) == Adapter("neural", NeuralDeclares(roles), parameters)

NhitsParameters ==
  [max_steps |-> AtLeast("integer", 1), learning_rate |-> AtLeast("number", 0),
   activation |-> OneOf({Word(1), Word(2)}), drop_last_loader |-> Flag]

NeuralCertified == Named("nhits", NeuralAdapter(Roles, NhitsParameters))

(* _discover_neuralforecast                                                *)
NeuralReserved ==
  { "h", "input_size", "hist_exog_list", "futr_exog_list", "stat_exog_list", "alias",
    "loss", "valid_loss", "optimizer", "optimizer_kwargs", "lr_scheduler",
    "lr_scheduler_kwargs", "random_seed", "step_size", "start_padding_enabled",
    "training_data_availability_threshold", "dataloader_kwargs" }

NeuralAdapters(library) ==
  Catalogued(NeuralCertified, library,
    LAMBDA class : ~class.multivariate /\ IsConstructible(class.constructor, NeuralReserved),
    LAMBDA class : NeuralAdapter(class.roles, Discovered(class.constructor, NeuralReserved)))

(* _adapters: StatsForecast is looked through first, and a name is given   *)
(* once.                                                                   *)
NixtlaAdapters(stats, neural) ==
  Over(Over(StatsCertified, NeuralCertified), Over(StatsAdapters(stats), NeuralAdapters(neural)))

(* Mutant of NeuralSeries: the samples of one instance are one series. *)
SeriesOfInstances(view) ==
  {UNION {EventsIn(s.outcomes) : s \in {r \in view.samples : r.instance = i}} :
     i \in InstancesIn(view.samples)}

NeuralSeries(view) == {EventsIn(s.outcomes) : s \in view.samples}

NeuralFits(view) == view.kind = "sequences"

(* _instantiate: the window of the samples, and the lists of features.     *)
NeuralCompiled(view) ==
  [ h |-> Number(view.horizon), input_size |-> Number(view.context),
    training_data_availability_threshold |-> Number(1), random_seed |-> Seed ]

NeuralFit(view, built) ==
  [ roles   |-> view.roles,
    context |-> view.context,
    horizon |-> view.horizon,
    windows |-> UNION {Windows(events, built.input_size.size + built.h.size) : events \in NeuralSeries(view)} ]

(* forecast_frames: an id for every instance, by its place.                *)
InstanceIds(view) == [i \in ToSet(view.instances) |-> CHOOSE n \in DOMAIN view.instances : view.instances[n] = i]

NeuralWindow(state, view) == state.context = view.context /\ state.horizon = view.horizon

(* External: every series that is handed over is continued, as many steps  *)
(* as the model learned.                                                   *)
NeuralPredicts(state, view, steps) ==
  UNION {{ [unique_id |-> InstanceIds(view)[i], ds |-> Shift(Max(view.history[i]), k),
            value |-> Continued(i, Max(view.history[i]), steps[i])[k]] :
             k \in 1 .. steps[i]} : i \in ToSet(view.instances)}

NeuralForecast(state, view, output, steps) ==
  IF \/ output.kind # "point"
     \/ ~NeuralWindow(state, view)
     \/ ~(state.roles \subseteq view.roles)
  THEN Refused
  ELSE LongAnswer(view, InstanceIds(view), NeuralPredicts(state, view, steps), {Point})
=============================================================================
