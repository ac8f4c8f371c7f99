---------------------------- MODULE ModelAnswers ----------------------------
(***************************************************************************)
(* The models of every provider, fitted at one moment and asked at any     *)
(* other: which instance and which moment a number is of, from the views   *)
(* the planner makes of the data to the rows an adapter answers with.      *)
(*                                                                         *)
(* The libraries are external: any of them may raise, at any time, and may *)
(* answer fewer steps than it was asked for. What they are given and what  *)
(* is made of their answers is in the modules of the integrations.         *)
(***************************************************************************)
EXTENDS SeasonalNaive, NixtlaModels, DartsModels, SktimeModels, SklearnModels, ChronosModel

CONSTANTS
  Worlds,          (* what is ever observed: frames                        *)
  Moments,         (* when models are fitted and asked                     *)
  Selections,      (* which origins a view is made at                      *)
  Contexts,        (* context lengths                                      *)
  Horizons,
  RoleSets,        (* features the data have                               *)
  Libraries,       (* the classes of every library that is installed       *)
  Bags,            (* parameters a recipe may carry                        *)
  Outputs,         (* what a forecast may be asked for                     *)
  MaxAsks          (* forecasts from one fit. Bounds the model.            *)

Layouts == {"by_instance", "by_event"}

ASSUME AnswersAssumption ==
  /\ \A w \in Worlds : IsFrame(w) /\ IsFiniteSet(w.history) /\ w.history \subseteq Outcome
  /\ Moments \subseteq Int /\ MaxAsks \in Nat
  /\ \A selection \in Selections : selection.mode \in OriginModes
  /\ Horizons \subseteq Nat \ {0} /\ Contexts \subseteq Nat \ {0}
  /\ \A params \in Bags : \A name \in DOMAIN params : params[name].size \in Int
  /\ \A output \in Outputs :
       /\ output.kind \in {"point", "quantiles", "samples"}
       /\ IsFiniteSet(output.levels) /\ output.levels \subseteq 1 .. 99
       /\ output.kind = "quantiles" => output.levels # {}
  /\ DOMAIN Libraries = {"statsforecast", "neuralforecast", "darts", "sktime", "sklearn"}
  /\ \A library \in DOMAIN Libraries :
       IsFiniteSet(DOMAIN Libraries[library]) /\ DOMAIN Libraries[library] \subseteq Nat

(* The models: every provider's catalog, of the libraries as they are.     *)
Catalogs ==
  [ builtin |-> Named("seasonal-naive", SeasonalAdapter),
    nixtla  |-> NixtlaAdapters(Libraries.statsforecast, Libraries.neuralforecast),
    darts   |-> DartsAdapters(Libraries.darts),
    sktime  |-> SktimeAdapters(Libraries.sktime),
    sklearn |-> SklearnAdapters(Libraries.sklearn),
    amazon  |-> Named("chronos-2", Adapter("chronos", ChronosDeclares, NoParams)) ]

Models == UNION {{<<namespace, name>> : name \in DOMAIN Catalogs[namespace]} : namespace \in DOMAIN Catalogs}

(* adapter_for                                                             *)
AdapterFor == [model \in Models |-> Catalogs[model[1]][model[2]]]

Declares(model) == AdapterFor[model].declares
Pretrained == {model \in Models : Declares(model).view = "none"}
Fitted == Models \ Pretrained

VARIABLES
  world,    (* what will have been observed                                *)
  fitted,   (* the model that is fitted, with what, and on which view      *)
  asked,    (* the forecast view it was asked about last, and the output   *)
  answer,   (* the rows it answered with                                   *)
  asks

vars == <<world, fitted, asked, answer, asks>>

NotFitted == [model |-> "none"]
NotAsked == [output |-> "none"]

-----------------------------------------------------------------------------
TrainingView(frame, contract, selection, context, horizon, roles) ==
  [ kind    |-> contract,
    samples |-> FitView(FrameSource(frame), contract, selection, context, horizon),
    roles   |-> roles,
    context |-> IF contract = "sequences" THEN context ELSE NoContext,
    horizon |-> IF contract = "series" THEN 0 ELSE horizon ]

Compiled(adapter, view) ==
  CASE adapter.protocol = "seasonal_naive" -> NoParams
    [] adapter.protocol = "stats"          -> StatsCompiled(view)
    [] adapter.protocol = "neural"         -> NeuralCompiled(view)
    [] adapter.protocol = "darts_local"    -> DartsLocalCompiled(adapter, view)
    [] adapter.protocol = "darts_global"   -> DartsGlobalCompiled(adapter, view)
    [] adapter.protocol = "sktime_local"   -> SktimeLocalCompiled(adapter, view)
    [] adapter.protocol = "sktime_panel"   -> SktimePanelCompiled(view)
    [] adapter.protocol = "sklearn"        -> SklearnCompiled(adapter, view)

FitsOf(adapter, view, built) ==
  CASE adapter.protocol = "seasonal_naive" -> SeasonalFits(view, built)
    [] adapter.protocol = "stats"          -> StatsFits(view)
    [] adapter.protocol = "neural"         -> NeuralFits(view)
    [] adapter.protocol = "darts_local"    -> DartsLocalFits(view)
    [] adapter.protocol = "darts_global"   -> DartsGlobalFits(view, adapter.declares.roles)
    [] adapter.protocol = "sktime_local"   -> SktimeLocalFits(view)
    [] adapter.protocol = "sktime_panel"   -> SktimePanelFits(view)
    [] adapter.protocol = "sklearn"        -> SklearnFits(view)

StateOf(adapter, view, built) ==
  CASE adapter.protocol = "seasonal_naive" -> SeasonalFit(view, built)
    [] adapter.protocol = "stats"          -> StatsFit(view)
    [] adapter.protocol = "neural"         -> NeuralFit(view, built)
    [] adapter.protocol = "darts_local"    -> DartsLocalFit(view)
    [] adapter.protocol = "darts_global"   -> DartsGlobalFit(view, built)
    [] adapter.protocol = "sktime_local"   -> SktimeLocalFit(view)
    [] adapter.protocol = "sktime_panel"   -> SktimePanelFit(view)
    [] adapter.protocol = "sklearn"        -> SklearnFit(view)

(* A fit with what was known at some moment, on features the model says it *)
(* takes. A library that raises, and an adapter that refuses the view,     *)
(* leave nothing behind.                                                   *)
Fit ==
  /\ fitted = NotFitted
  /\ \E model \in Fitted, moment \in Moments, selection \in Selections,
        context \in Contexts, horizon \in Horizons, roles \in RoleSets, params \in Bags :
       LET adapter == AdapterFor[model]
           view == TrainingView(FrameUpTo(world, moment), adapter.declares.view, selection, context, horizon, roles)
           compiled == Compiled(adapter, view)
           built == Settings(adapter, params, compiled)
       IN /\ FrameReaches(world, moment)
          /\ view.samples # {} /\ roles \subseteq adapter.declares.roles
          /\ IsRecipeOf(params) /\ Instantiates(adapter, params, compiled)
          /\ FitsOf(adapter, view, built)
          /\ fitted' = [ model |-> model, params |-> params, built |-> built,
                         state |-> StateOf(adapter, view, built), view |-> view ]
  /\ UNCHANGED <<world, asked, answer, asks>>

(* A fit whose parameters are refused, whatever it is on.                  *)
RefuseParameters ==
  /\ fitted = NotFitted
  /\ \E model \in Fitted, params \in Bags :
       /\ ~(IsRecipeOf(params) /\ Checked(params, AdapterFor[model].parameters))
       /\ fitted' = [model |-> model, params |-> params, refused |-> TRUE]
  /\ UNCHANGED <<world, asked, answer, asks>>

HasModel == fitted # NotFitted /\ "refused" \notin DOMAIN fitted

(* A pretrained model has no fit.                                          *)
Load ==
  /\ fitted = NotFitted
  /\ \E model \in Pretrained : fitted' = [model |-> model, params |-> NoParams, state |-> {}, view |-> [kind |-> "none"]]
  /\ UNCHANGED <<world, asked, answer, asks>>

(* A new revision takes the place of the last one.                         *)
Discard ==
  /\ fitted # NotFitted
  /\ fitted' = NotFitted /\ asked' = NotAsked /\ answer' = Refused /\ asks' = 0
  /\ UNCHANGED world

-----------------------------------------------------------------------------
ForecastOf(adapter, state, view, output, steps) ==
  CASE adapter.protocol = "seasonal_naive" -> SeasonalForecast(state, view, output.kind)
    [] adapter.protocol = "stats"          -> StatsForecast(adapter, state, view, output, steps)
    [] adapter.protocol = "neural"         -> NeuralForecast(state, view, output, steps)
    [] adapter.protocol = "darts_local"    -> DartsLocalForecast(state, view, output, steps)
    [] adapter.protocol = "darts_global"   -> DartsGlobalForecast(state, view, output, steps, adapter.declares.bound)
    [] adapter.protocol = "sktime_local"   -> SktimeLocalForecast(state, view, output, steps)
    [] adapter.protocol = "sktime_panel"   -> SktimePanelForecast(state, view, output, steps)
    [] adapter.protocol = "sklearn"        -> SklearnForecast(state, view, output, steps)
    [] adapter.protocol = "chronos"        -> ChronosForecast(view, output, steps)

(* The steps a library answers of every series: as many as asked for, or   *)
(* one too few of one of them.                                             *)
StepCounts(instances, horizon) ==
  LET all == [i \in Instance |-> horizon]
  IN {all} \cup {[all EXCEPT ![i] = horizon - 1] : i \in instances}

(* The context length a forecast view is made with: that of the artifact.  *)
StepsBack == IF fitted.view.kind = "sequences" THEN fitted.view.context ELSE NoContext

(* A forecast at some moment, of the model as it was fitted.               *)
Ask ==
  /\ HasModel /\ asks < MaxAsks
  /\ \E moment \in Moments, horizon \in Horizons, roles \in RoleSets, output \in Outputs,
        layout \in Layouts :
       LET context == ContextOf(FrameUpTo(world, moment))
           present == InstancesIn(context.history)
       IN /\ FrameReaches(world, moment)
          /\ LongEnough(context, StepsBack)
          /\ \E instances \in SetToSeqs(present), steps \in StepCounts(present, horizon) :
               LET view == ForecastViewOf(context, instances, StepsBack, horizon, roles, layout)
               IN /\ asked' = [view |-> view, output |-> output,
                              whole |-> \A i \in present : steps[i] = horizon]
                  /\ answer' = ForecastOf(AdapterFor[fitted.model], fitted.state, view, output, steps)
  /\ asks' = asks + 1
  /\ UNCHANGED <<world, fitted>>

(* The library raises, and nothing is answered.                            *)
AskRaises ==
  /\ HasModel /\ asks < MaxAsks
  /\ asked' = NotAsked /\ answer' = Refused /\ asks' = asks + 1
  /\ UNCHANGED <<world, fitted>>

Init ==
  /\ world \in Worlds
  /\ fitted = NotFitted /\ asked = NotAsked /\ answer = Refused /\ asks = 0

Next == Fit \/ RefuseParameters \/ Load \/ Discard \/ Ask \/ AskRaises

Spec == Init /\ [][Next]_vars

-----------------------------------------------------------------------------
(* The rows of an instance that the model looked at are one after another, *)
(* up to the origin.                                                       *)
Unbroken(events, origin) ==
  origin \in events /\ \A t \in events : t = origin \/ Shift(t, 1) \in events

SeenUnbroken(instance) ==
  IF AdapterFor[fitted.model].protocol = "seasonal_naive"
  THEN \A s \in fitted.view.samples :
         s.instance = instance => Unbroken(EventsIn(s.outcomes), Max(EventsIn(s.outcomes)))
  ELSE Unbroken(asked.view.history[instance], asked.view.origin)

(* A number is of the instance it is labelled with, and, where the history *)
(* that was looked at has no gap, of the moment it is labelled with:       *)
(* whatever order the rows, the instances and the predictions came in, and *)
(* however much later than the fit the model is asked.                     *)
(* nixtla/conversion.py:383-430, darts/conversion.py:349-380,              *)
(* sktime/conversion.py:321-370, sklearn/conversion.py:155-215,            *)
(* chronos/conversion.py:204-250, seasonal_naive.py:165-215.               *)
AnsweredForItsCell ==
  \A row \in answer :
    /\ row.value.of = row.instance
    /\ SeenUnbroken(row.instance) => row.value.about = row.event

(* A forecast is whole or refused: one row for every instance, event time  *)
(* and part that was asked for, even if the library answered less.         *)
AnsweredInFull ==
  answer # Refused =>
    LET view == asked.view
        parts == IF asked.output.kind = "point" THEN 1 ELSE Cardinality(asked.output.levels)
    IN /\ {<<row.instance, row.event>> : row \in answer}
            = ToSet(view.instances) \X ForecastWindow(view.origin, view.horizon)
       /\ Cardinality(answer) = Len(view.instances) * view.horizon * parts

(* No answer is worked out from an observation that was made after the     *)
(* origin it is asked at, although the fit may have seen later ones.       *)
NothingFromAfterTheOrigin ==
  \A row \in answer : row.value.from <= asked.view.origin

(* A model that learns windows learns those of its samples and no others,  *)
(* although the library cuts them out of the series it is given; and what  *)
(* the library was built with is what the recipe said, and the window of   *)
(* the samples where the recipe has no say. darts/conversion.py:224-274,   *)
(* nixtla/conversion.py:218-255, providers/native.py:191-205.              *)
LearnsItsSamples ==
  HasModel /\ fitted.model \in Fitted =>
    /\ Declares(fitted.model).bound =>
         fitted.state.windows = {EventsIn(s.outcomes) : s \in fitted.view.samples}
    /\ \A name \in DOMAIN fitted.params : fitted.built[name] = fitted.params[name]
    /\ \A name \in DOMAIN fitted.built \cap OwnedParameters :
         fitted.built[name] \in {Number(fitted.view.context), Number(fitted.view.horizon), Seed}

(* The quantiles of one cell are in the order of their levels.             *)
(* statsforecast.py:288-339.                                               *)
Rank(part) ==
  CASE part[2][1] = "lo"    -> 0 - part[2][2]
    [] part[2][1] = "hi"    -> part[2][2]
    [] part[2][1] = "point" -> 0
    [] part[2][1] = "level" -> part[1]

LevelsDoNotCross ==
  asked # NotAsked /\ asked.output.kind = "quantiles" =>
    \A a, b \in answer :
      a.instance = b.instance /\ a.event = b.event /\ a.part[1] < b.part[1]
        => Rank(a.part) < Rank(b.part)

(* A model answers what it declares: when the library does its part, the   *)
(* histories are unbroken and hold what the model was fitted with, a       *)
(* forecast of a declared kind is never refused, over any horizon unless   *)
(* the model declares itself bound to the one of its fit. Only a model of  *)
(* one series may decline a moment that is not the last of its fit. And    *)
(* parameters that its published schema admits are only refused for a name *)
(* that belongs to the recipe: a class of a library may have a parameter   *)
(* of that name, which is published and which no recipe may carry.         *)
(* The descriptors against darts/global_models.py:255-272,                 *)
(* sktime/panel_models.py:214-231, statsforecast.py:241-272, and           *)
(* parameters_schema against native.py:89-104, recipes/nodes.py:116-132.   *)
AtTheFit ==
  /\ \A s \in fitted.view.samples : Max(EventsIn(s.outcomes)) = asked.view.origin
  /\ ToSet(asked.view.instances) \subseteq InstancesIn(fitted.view.samples)

AnswersWhatItDeclares ==
  /\ "refused" \in DOMAIN fitted =>
       ~IsRecipeOf(fitted.params) \/ ~Admits(AdapterFor[fitted.model].parameters, fitted.params)
  /\ asked # NotAsked =>
       LET declared == Declares(fitted.model)
           served ==
             /\ asked.output.kind \in declared.outputs
             /\ asked.whole
             /\ \A i \in ToSet(asked.view.instances) :
                  Unbroken(asked.view.history[i], asked.view.origin)
             /\ fitted.model \in Fitted => fitted.view.roles \subseteq asked.view.roles
             /\ declared.bound => asked.view.horizon = fitted.view.horizon
             /\ declared.view = "series" => AtTheFit
       IN served => answer # Refused
=============================================================================
