------------------------------- MODULE Engine -------------------------------
(***************************************************************************)
(* Fit and forecast (runtime/engine.py), for recipes of several models.    *)
(*                                                                         *)
(* A fit resolves every model, prepares the training view of every model,  *)
(* and only then has one provider after another fit, each into a directory *)
(* of its own; what they wrote is published in one piece. A forecast       *)
(* checks the whole artifact against the request, asks the provider of     *)
(* every model, and folds their answers back up the recipe.                *)
(*                                                                         *)
(* The models a client knows are those its process has catalogued, and the *)
(* ones it can run are those whose providers were installed when it was    *)
(* opened. An artifact outlives both.                                      *)
(*                                                                         *)
(* What a provider does is external: it may raise, and it may answer       *)
(* something other than what it was asked.                                 *)
(***************************************************************************)
EXTENDS FittedTransforms

CONSTANTS
  Catalog,         (* the descriptor of every reference                    *)
  Installations,   (* the references whose providers a client may find     *)
  DataSets,        (* the data fitted on, and the contexts forecast from   *)
  Plans, Horizons, (* what a fit may be asked for; a horizon may be None   *)
  Outputs,         (* what a forecast may be asked for                     *)
  Imputed,         (* a recipe's transforms fill missing values            *)
  MaxCalls,        (* calls one behaviour makes. Bounds the model.         *)
  MaxDepartures    (* answers of a call that are not what was asked for    *)

ASSUME EngineAssumption ==
  /\ \A r \in RecipeSet : IsRecipe(r)
  /\ \A ref \in DOMAIN Catalog : IsDescriptor(Catalog[ref])
  /\ Installations \subseteq SUBSET DOMAIN Catalog
  /\ \A output \in Outputs : IsOutput(output)
  /\ "scaler" \notin Imputed
  /\ MaxCalls \in Nat /\ MaxDepartures \in Nat

VARIABLES
  catalogued,  (* the references the catalog of the process names          *)
  installed,   (* those of them the client has a provider for              *)
  call,        (* what was asked for last                                  *)
  stage,       (* "idle", "preparing", "fitting" or "asking"               *)
  outcome,     (* how the last call ended: "none" while it has not,        *)
               (* "refused" by a check, "failed" at a provider, "done"     *)
  prepared,    (* the leaves a fit has materialized and checked            *)
  directory,   (* what is in the staging directory, by the path of a leaf  *)
  artifact,    (* what was published                                       *)
  answers,     (* what the leaves of a forecast have answered              *)
  forecast,    (* what a forecast returned                                 *)
  asked,       (* history: what the providers were asked in this call      *)
  calls, departures

vars == <<catalogued, installed, call, stage, outcome, prepared, directory, artifact, answers, forecast, asked, calls, departures>>

NoCall == [op |-> "none"]
NoArtifact == [recipe |-> "none"]
NoForecast == [output |-> "none"]

Descriptor(leaf) == Catalog[leaf.ref]

(* What ProviderRegistry.get has a client for.                             *)
HasProvider(ref) == ref \in installed

(* What resolve and for_fit find by the name of a model.                   *)
ResolvesPretrained(ref) == ref \in catalogued /\ ~Catalog[ref].requires_fit
ResolvesForFit(ref) == ref \in catalogued /\ Catalog[ref].supports_fit

-----------------------------------------------------------------------------
(* A client opened in this process adds to its catalog, which forgets      *)
(* nothing; one opened in another process starts from what it finds. One   *)
(* that is opened before another has made a call is no different.          *)
Open ==
  /\ stage = "idle" /\ call # NoCall /\ calls < MaxCalls
  /\ departures' = 0
  /\ installed' \in Installations
  /\ catalogued' \in {installed', catalogued \cup installed'}
  /\ call' = NoCall /\ outcome' = "none"
  /\ prepared' = <<>> /\ directory' = <<>> /\ answers' = <<>> /\ asked' = <<>>
  /\ forecast' = NoForecast
  /\ UNCHANGED <<stage, calls, artifact>>

-----------------------------------------------------------------------------
(* The directory a leaf has inside an artifact: its provider's own, when   *)
(* the recipe is one model.                                                *)

(* Mutant of PathOf: the leaves share the provider directory. *)
PathOfProvider(r, k) == 0

PathOf(r, k) == IF IsComposite(r) THEN k ELSE 0

Cells(data, columns) == [instance : DOMAIN data.length, column : columns]

(* Begin and end of a call.                                                *)
Begins(asking, next) ==
  /\ stage = "idle" /\ calls < MaxCalls
  /\ calls' = calls + 1 /\ departures' = 0
  /\ call' = asking
  /\ stage' = next
  /\ outcome' = IF next = "idle" THEN "refused" ELSE "none"
  /\ prepared' = <<>> /\ directory' = <<>> /\ answers' = <<>> /\ asked' = <<>>
  /\ forecast' = NoForecast
  /\ UNCHANGED <<artifact, catalogued, installed>>

Ends(how) ==
  /\ stage' = "idle" /\ outcome' = how
  /\ UNCHANGED <<call, calls, departures>>

-----------------------------------------------------------------------------
(* fit                                                                     *)

SharedPlanReaches(plan, found) ==
  \/ Len(found) < 2 \/ plan.context = None
  \/ \E k \in DOMAIN found : Descriptor(found[k]).training.view = "sequences"

Resolves(r, plan) ==
  /\ Executable[r]
  /\ \A k \in DOMAIN Leaves[r] : ResolvesForFit(Leaves[r][k].ref)
  /\ SharedPlanReaches(plan, Leaves[r])

BeginFit ==
  \E r \in RecipeSet, data \in DataSets, plan \in Plans, horizon \in Horizons :
    Begins([op |-> "fit", recipe |-> r, data |-> data, plan |-> plan, horizon |-> horizon],
           IF Resolves(r, plan) THEN "preparing" ELSE "idle")

Found == Leaves[call.recipe]

(* _materialize, but for the provider                                      *)
Preparable(leaf, data, plan, horizon, shared) ==
  LET contract == Descriptor(leaf).training
      view == ViewOf(data, RequestFor(contract, plan, horizon))
  IN /\ Asks(contract, plan, horizon, shared)
     /\ Materializes(data, view.request)
     /\ \A n \in DOMAIN leaf.transforms : Fits(leaf.transforms[n], view)
     /\ Consumes(Descriptor(leaf), view, \E n \in DOMAIN leaf.transforms : leaf.transforms[n].kind \in Imputed)

Prepared(leaf) ==
  LET view == ViewOf(call.data, RequestFor(Descriptor(leaf).training, call.plan, call.horizon))
  IN [leaf |-> leaf, view |-> view, steps |-> FitAll(leaf.transforms, view)]

(* Mutant of Prepare: the first leaf that is prepared is fitted at once. *)
PrepareTheFirst ==
  LET leaf == Found[Len(prepared) + 1]
  IN /\ stage = "preparing"
     /\ IF /\ Preparable(leaf, call.data, call.plan, call.horizon, Len(Found) > 1)
           /\ HasProvider(leaf.ref)
        THEN /\ prepared' = Append(prepared, Prepared(leaf))
             /\ stage' = "fitting"
             /\ UNCHANGED <<call, outcome, calls, departures>>
        ELSE Ends("refused") /\ UNCHANGED prepared
     /\ UNCHANGED <<directory, artifact, answers, forecast, asked, catalogued, installed>>

Prepare ==
  LET leaf == Found[Len(prepared) + 1]
  IN /\ stage = "preparing"
     /\ IF /\ Preparable(leaf, call.data, call.plan, call.horizon, Len(Found) > 1)
           /\ HasProvider(leaf.ref)
        THEN /\ prepared' = Append(prepared, Prepared(leaf))
             /\ stage' = IF Len(prepared') = Len(Found) THEN "fitting" ELSE "preparing"
             /\ UNCHANGED <<call, outcome, calls, departures>>
        ELSE Ends("refused") /\ UNCHANGED prepared
     /\ UNCHANGED <<directory, artifact, answers, forecast, asked, catalogued, installed>>

(* Mutant of DataSchema: the schema of the first leaf. *)
FirstSchema(found) == NamesOf(found[1].view.features)

(* The manifest: one record per leaf, and the schema of their union.       *)
DataSchema(found) == UNION {NamesOf(found[k].view.features) : k \in DOMAIN found}

RecordOf(leaf, view) ==
  [ context |-> view.request.context,
    horizon |-> view.request.horizon,
    bound   |-> Descriptor(leaf).training.horizon_bound ]

Describes(found, contents) ==
  [ recipe   |-> call.recipe,
    panel    |-> call.data.panel,
    targets  |-> call.data.targets,
    features |-> DataSchema(found),
    records  |-> [k \in DOMAIN found |-> RecordOf(found[k].leaf, found[k].view)],
    directory |-> contents ]

(* What a provider learned, and from values on which scale.                *)
Fitted(one) ==
  [ ref   |-> one.leaf.ref,
    view  |-> one.view,
    scale |-> [cell \in [instance : one.view.instances, column : ColumnsOf(one.view)] |->
                 ScaleOf(one.steps, cell)] ]

(* A directory in which something was written at a path.                   *)
Holding(contents, path, written) ==
  [at \in DOMAIN contents \cup {path} |-> IF at = path THEN written ELSE contents[at]]

(* Its transforms are written, and then the provider is asked.             *)
FitLeaf ==
  LET k == Len(asked) + 1
      one == prepared[k]
      written == [transforms |-> Stored(one.steps), state |-> Fitted(one)]
  IN /\ stage = "fitting"
     /\ asked' = Append(asked, [verb |-> "fit", ref |-> one.leaf.ref])
     /\ directory' = Holding(directory, PathOf(call.recipe, k), written)
     /\ IF k < Len(prepared)
        THEN UNCHANGED <<stage, outcome, call, calls, departures, artifact>>
        ELSE /\ Ends("done")
             /\ artifact' = Describes(prepared, directory')
     /\ UNCHANGED <<prepared, answers, forecast, catalogued, installed>>

(* The staging directory goes away with everything in it.                  *)
FitLeafRaises ==
  /\ stage = "fitting"
  /\ asked' = Append(asked, [verb |-> "fit", ref |-> prepared[Len(asked) + 1].leaf.ref])
  /\ directory' = <<>>
  /\ Ends("failed")
  /\ UNCHANGED <<prepared, artifact, answers, forecast, catalogued, installed>>

-----------------------------------------------------------------------------
(* forecast, with an artifact                                              *)

ServesHorizon(horizon) ==
  \A k \in DOMAIN artifact.records :
    LET record == artifact.records[k]
    IN ~record.bound \/ record.horizon \in {None, horizon}

HasDataSchema(context) ==
  /\ context.panel = artifact.panel
  /\ context.targets = artifact.targets
  /\ artifact.features \subseteq NamesOf(context.features)

CanAllAnswer(found, output) ==
  /\ \A k \in DOMAIN found :
       found[k].ref \in catalogued /\ CanAnswer(Descriptor(found[k]), output)
  /\ Len(found) > 1 => AsExecuted(output).kind # "samples"

BeginForecast ==
  /\ artifact # NoArtifact
  /\ \E context \in DataSets, horizon \in Horizons \ {None}, output \in Outputs :
       Begins([op |-> "forecast", recipe |-> artifact.recipe, data |-> context,
               horizon |-> horizon, output |-> output],
              IF /\ ServesHorizon(horizon)
                 /\ HasDataSchema(context)
                 /\ CanAllAnswer(Leaves[artifact.recipe], output)
              THEN "asking" ELSE "idle")

(* An answer is the parts it has of every cell, the cells it has no value  *)
(* for, and the order of its rows. A provider may leave out a cell or a    *)
(* part, answer one that was not asked for, not know, or sort.             *)
Faithful(cells, parts) ==
  [rows |-> [cell \in cells |-> parts], missing |-> {}, order |-> "asked"]

Departing(cells, parts) ==
  LET asAsked == Faithful(cells, parts)
  IN {[asAsked EXCEPT !.order = "other"]} \cup
     UNION {{ [asAsked EXCEPT !.rows[cell] = {}],
              [asAsked EXCEPT !.rows[cell] = @ \ {CHOOSE part \in parts : TRUE}],
              [asAsked EXCEPT !.rows[cell] = @ \cup {<<"other", 0>>}],
              [asAsked EXCEPT !.missing = {cell}] } : cell \in cells}

Answer(cells, parts) ==
  {Faithful(cells, parts)} \cup (IF departures < MaxDepartures THEN Departing(cells, parts) ELSE {})

Counted(answer, cells, parts) ==
  departures' = IF answer = Faithful(cells, parts) THEN departures ELSE departures + 1

(* Mutant of Answers: the cells that came back are not looked at. *)
AnswersInKind(answer, parts) == UNION {answer.rows[cell] : cell \in DOMAIN answer.rows} = parts

(* _check_answer: every cell was described, and over all of them the parts *)
(* are those that were asked for.                                          *)
Answers(answer, parts) ==
  /\ \A cell \in DOMAIN answer.rows : answer.rows[cell] # {}
  /\ UNION {answer.rows[cell] : cell \in DOMAIN answer.rows} = parts

(* The scale a provider answers on: that of what it learned, for a model   *)
(* of one series, and otherwise that of the history it is given.           *)
AnswerScale(state, given, cell) ==
  IF state.view.request.view = "series" THEN state.scale[cell] ELSE given[cell]

Knows(state, context) ==
  state.view.request.view = "series" => DOMAIN context.length \subseteq state.view.instances

(* _weighted_mean, over the leaves.                                        *)
Matched(parts) == \A j, k \in DOMAIN parts : parts[j].rows = parts[k].rows /\ parts[j].order = parts[k].order

(* to_quantiles, of what was executed as samples.                          *)
Reduced(rows, output) ==
  IF DerivedFromSamples(output)
  THEN [cell \in DOMAIN rows |-> {<<"quantile", level>> : level \in output.levels}]
  ELSE rows

Scaled(answer, scale) ==
  [rows |-> answer.rows, missing |-> answer.missing, order |-> answer.order, scale |-> scale]

Combined(parts) ==
  [ output  |-> call.output,
    rows    |-> Reduced(parts[1].rows, call.output),
    missing |-> UNION {parts[k].missing : k \in DOMAIN parts},
    shares  |-> Shares[call.recipe],
    scales  |-> {parts[k].scale : k \in DOMAIN parts} ]

LongEnough(context, steps) == \A i \in DOMAIN context.length : context.length[i] >= steps

RecordFor(k) == artifact.records[k]

(* The history a leaf's provider is given, scaled by its own transforms.   *)
Given(own) ==
  [cell \in Cells(call.data, call.data.targets \cup NamesOf({f \in call.data.features : f.role # "static"})) |->
     ScaleOf(own.transforms, cell)]

(* _answer, and _combine after the last one.                               *)
Ask ==
  LET k == Len(answers) + 1
      leaf == Found[k]
      own == artifact.directory[PathOf(artifact.recipe, k)]
      context == RecordFor(k).context
      cells == Cells(call.data, call.data.targets)
      parts == Parts(AsExecuted(call.output))
  IN /\ stage = "asking" /\ LongEnough(call.data, context) /\ HasProvider(leaf.ref)
     /\ Knows(own.state, call.data)
     /\ asked' = Append(asked, [ verb |-> "forecast", leaf |-> k, ref |-> leaf.ref,
                                 state |-> own.state, given |-> Given(own),
                                 context |-> context, horizon |-> call.horizon ])
     /\ \E answer \in Answer(cells, parts) :
          LET scale == [cell \in cells |->
                          Inverted(own.transforms, cell, AnswerScale(own.state, Given(own), cell))]
              found == Append(answers, Scaled(answer, scale))
          IN /\ Counted(answer, cells, parts)
             /\ IF ~Answers(answer, parts) \/ ~Matched(found)
                THEN /\ stage' = "idle" /\ outcome' = "failed"
                     /\ UNCHANGED <<answers, forecast>>
                ELSE /\ answers' = found
                     /\ IF Len(found) < Len(Found)
                        THEN UNCHANGED <<stage, outcome, forecast>>
                        ELSE /\ stage' = "idle" /\ outcome' = "done"
                             /\ forecast' = Combined(found)
     /\ UNCHANGED <<call, calls, prepared, directory, artifact, catalogued, installed>>

(* The context is shorter than this leaf was trained to expect.            *)
TooShort ==
  /\ stage = "asking" /\ ~LongEnough(call.data, RecordFor(Len(answers) + 1).context)
  /\ Ends("refused")
  /\ UNCHANGED <<prepared, directory, artifact, answers, forecast, asked, catalogued, installed>>

(* The provider raises, or is one the client does not have.                *)
AskRaises ==
  /\ stage = "asking" /\ LongEnough(call.data, RecordFor(Len(answers) + 1).context)
  /\ Ends("failed")
  /\ UNCHANGED <<prepared, directory, artifact, answers, forecast, asked, catalogued, installed>>

-----------------------------------------------------------------------------
(* forecast, with a model that is not fitted here                          *)

GivenZeroShot(descriptor, context) ==
  /\ HasShape(descriptor, context.panel, context.targets, context.features)
  /\ TakesMissing(descriptor, context.gaps, FALSE)

BeginZeroShot ==
  \E ref \in DOMAIN Catalog, context \in DataSets, horizon \in Horizons \ {None}, output \in Outputs :
    Begins([op |-> "zero_shot", ref |-> ref, data |-> context, horizon |-> horizon, output |-> output],
           IF /\ ResolvesPretrained(ref)
              /\ CanAnswer(Catalog[ref], output)
              /\ GivenZeroShot(Catalog[ref], context)
           THEN "pretrained" ELSE "idle")

ZeroShot ==
  LET cells == Cells(call.data, call.data.targets)
      parts == Parts(AsExecuted(call.output))
  IN /\ stage = "pretrained" /\ HasProvider(call.ref)
     /\ asked' = Append(asked, [verb |-> "zero_shot", ref |-> call.ref])
     /\ \E answer \in Answer(cells, parts) :
          /\ Counted(answer, cells, parts)
          /\ stage' = "idle"
          /\ IF Answers(answer, parts)
             THEN /\ outcome' = "done"
                  /\ forecast' = [ output  |-> call.output,
                                   rows    |-> Reduced(answer.rows, call.output),
                                   missing |-> answer.missing,
                                   shares  |-> <<<<1, 1>>>>,
                                   scales  |-> {} ]
             ELSE outcome' = "failed" /\ UNCHANGED forecast
     /\ UNCHANGED <<call, calls, prepared, directory, artifact, answers, catalogued, installed>>

ZeroShotRaises ==
  /\ stage = "pretrained"
  /\ Ends("failed")
  /\ UNCHANGED <<prepared, directory, artifact, answers, forecast, asked, catalogued, installed>>

-----------------------------------------------------------------------------
(* eligible_models: what a fit would do, short of fitting, under the plan  *)
(* as the model's own contract can receive it.                             *)

PlanFor(descriptor, plan) ==
  IF descriptor.supports_fit /\ descriptor.training.view = "sequences" THEN plan
  ELSE [plan EXCEPT !.context = None]

(* Mutant of Eligible: only the view is tried. *)
EligibleByView(ref, data, plan, horizon) ==
  LET contract == Catalog[ref].training
      received == PlanFor(Catalog[ref], plan)
  IN /\ Catalog[ref].supports_fit
     /\ Asks(contract, received, horizon, FALSE)
     /\ Materializes(data, RequestFor(contract, received, horizon))

Eligible(ref, data, plan, horizon) ==
  /\ ref \in catalogued /\ Catalog[ref].supports_fit
  /\ Preparable(Leaf(ref, <<>>), data, PlanFor(Catalog[ref], plan), horizon, FALSE)

-----------------------------------------------------------------------------
Init ==
  /\ call = NoCall /\ stage = "idle" /\ outcome = "none"
  /\ prepared = <<>> /\ directory = <<>>
  /\ artifact = NoArtifact
  /\ answers = <<>> /\ forecast = NoForecast /\ asked = <<>>
  /\ calls = 0 /\ departures = 0
  /\ installed \in Installations /\ catalogued = installed

Next ==
  \/ Open
  \/ BeginFit \/ Prepare \/ FitLeaf \/ FitLeafRaises
  \/ BeginForecast \/ Ask \/ TooShort \/ AskRaises
  \/ BeginZeroShot \/ ZeroShot \/ ZeroShotRaises

Spec == Init /\ [][Next]_vars

-----------------------------------------------------------------------------
TypeOK ==
  /\ stage \in {"idle", "preparing", "fitting", "asking", "pretrained"}
  /\ outcome \in {"none", "refused", "failed", "done"}
  /\ stage # "idle" => outcome = "none"
  /\ call.op \in {"none", "fit", "forecast", "zero_shot"}
  /\ catalogued \subseteq DOMAIN Catalog /\ installed \subseteq catalogued
  /\ calls \in 0 .. MaxCalls /\ departures \in 0 .. MaxDepartures

(* A fit that the engine refuses has started no provider: every model was  *)
(* resolved, and every view materialized and checked, before any provider  *)
(* was asked to fit; and no provider is asked about an artifact of which   *)
(* some model is not known any more. engine.py:182-206, 314-325.           *)
RefusedBeforeAnythingRuns ==
  asked # <<>> /\ call.op # "zero_shot" =>
    /\ \A k \in DOMAIN Found : Found[k].ref \in catalogued
    /\ call.op = "fit" =>
         /\ outcome # "refused"
         /\ \A k \in DOMAIN Found :
              /\ Found[k].ref \in installed
              /\ Preparable(Found[k], call.data, call.plan, call.horizon, Len(Found) > 1)

(* What is published holds every model of its recipe, each in a directory  *)
(* that no other model wrote to, fitted on the view of its own contract.   *)
(* engine.py:192-206, 455-477.                                             *)
PublishedIsWhole ==
  artifact # NoArtifact =>
    LET found == Leaves[artifact.recipe]
        own(k) == artifact.directory[PathOf(artifact.recipe, k)].state
    IN /\ Len(artifact.records) = Len(found)
       /\ Cardinality(DOMAIN artifact.directory) = Len(found)
       /\ \A k \in DOMAIN found :
            /\ own(k).ref = found[k].ref
            /\ own(k).view.request.view = Descriptor(found[k]).training.view
            /\ own(k).view.request.context = artifact.records[k].context
            /\ own(k).view.missing # {} => Descriptor(found[k]).missing = "native"

(* The history of an instance that a model has seen is given to it on the  *)
(* scale it saw it on. transforms.py:203-207.                              *)
ScaledAsTrained ==
  \A n \in DOMAIN asked :
    LET one == asked[n]
    IN one.verb = "forecast" =>
         \A cell \in DOMAIN one.given \cap DOMAIN one.state.scale :
           one.given[cell] = one.state.scale[cell]

(* Every model of an artifact is asked as it was trained: from its own     *)
(* state, with the context length of its own samples, for a horizon it is  *)
(* not bound away from, with every feature it learned from, and on the     *)
(* same scale. engine.py:303-330, 372-415.                                 *)
AskedAsTrained ==
  /\ \A n \in DOMAIN asked :
       LET one == asked[n]
       IN one.verb = "forecast" =>
         /\ one.state.ref = one.ref
         /\ one.context = one.state.view.request.context
         /\ Catalog[one.ref].training.horizon_bound => one.horizon = one.state.view.request.horizon
         /\ NamesOf(one.state.view.features) \subseteq NamesOf(call.data.features)
  /\ ScaledAsTrained

(* A forecast comes back on the scale of the caller's data, whatever       *)
(* transforms each of its models was fitted behind. transforms.py:210-220. *)
OnTheCallersScale ==
  forecast # NoForecast =>
    \A scale \in forecast.scales : \A cell \in DOMAIN scale : scale[cell] = <<>>

(* The members of an ensemble contribute in proportion to their weights,   *)
(* and together they are the whole forecast, however recipes are nested.   *)
(* nodes.py:259-265, engine.py:520-567.                                    *)
SharesFollowTheWeights ==
  forecast # NoForecast /\ call.op = "forecast" =>
    LET recipe == artifact.recipe
        top == IF recipe.kind = "pipeline" THEN recipe.estimator ELSE recipe
        before(k) == Len(FlattenSeq([j \in 1 .. k |-> Leaves[top.models[j]]]))
        share(k) == Total(SubSeq(forecast.shares, before(k - 1) + 1, before(k)))
        weight(k) == IF top.weights = Equal THEN 1 ELSE top.weights[k]
    IN /\ Len(forecast.shares) = Len(Leaves[recipe])
       /\ SameShare(Total(forecast.shares), <<1, 1>>)
       /\ top.kind = "ensemble" =>
            \A j, k \in DOMAIN top.models :
              SameShare(Times(share(j), <<weight(k), 1>>), Times(share(k), <<weight(j), 1>>))

(* A forecast describes every cell that was asked for and no other kind of *)
(* row, every level and every draw that was asked for is in it, all of its *)
(* models have answered, and a value that one of them did not know is not  *)
(* known. A cell without some of the levels passes: they are looked for in *)
(* the whole of the answer. engine.py:711-765, 535-567.                    *)
EveryCellIsAnswered ==
  forecast # NoForecast =>
    /\ DOMAIN forecast.rows = Cells(call.data, call.data.targets)
    /\ \A cell \in DOMAIN forecast.rows : forecast.rows[cell] # {}
    /\ UNION {forecast.rows[cell] : cell \in DOMAIN forecast.rows} =
         Parts([call.output EXCEPT !.draws = IF DerivedFromSamples(call.output) THEN None ELSE @])
    /\ call.op = "forecast" =>
         /\ Len(answers) = Len(Found)
         /\ \A k \in DOMAIN answers : answers[k].missing \subseteq forecast.missing

(* A model that is screened as eligible is one that a fit under the same   *)
(* plan is not refused, and the other way round, as long as its provider   *)
(* is there: the screen asks the catalog alone. eligibility.py:121-142.    *)
ScreenedAsFitted ==
  call.op = "fit" /\ call.recipe.kind = "model" =>
    LET ref == call.recipe.ref
    IN Catalog[ref].supports_fit /\ PlanFor(Catalog[ref], call.plan) = call.plan =>
         /\ outcome = "refused" /\ (ref \in installed \/ ref \notin catalogued) => ~Eligible(ref, call.data, call.plan, call.horizon)
         /\ stage = "fitting" \/ outcome \in {"done", "failed"} =>
              Eligible(ref, call.data, call.plan, call.horizon)
=============================================================================
