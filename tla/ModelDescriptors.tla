-------------------------- MODULE ModelDescriptors --------------------------
(***************************************************************************)
(* What a model declares (models/), what a request for a forecast asks     *)
(* for (tasks/), and the checks in which the two meet the data, before any *)
(* provider is started (views/planner.py, runtime/validation.py).          *)
(*                                                                         *)
(*   contract    [view, origins, context_required, horizon_bound, unseen]  *)
(*   descriptor  [requires_fit, supports_fit, training, instances,         *)
(*                targets, roles, outputs, missing]                        *)
(*   plan        [context], and a horizon beside it                        *)
(*   output      [kind, levels, draws]                                     *)
(*   data        [panel, length, targets, features, gaps]                  *)
(*                                                                         *)
(* The length of the data is that of the gapless history of every          *)
(* instance, in steps; gaps are the columns that hold a missing value. A   *)
(* feature is [name, role]. What a view holds of the data, moment by       *)
(* moment, is in Views.                                                    *)
(***************************************************************************)
EXTENDS Integers, FiniteSets

None == 0    (* No context, no horizon, no draws: all are counts from one. *)

Roles == {"observed", "known", "static"}
OutputKinds == {"point", "quantiles", "samples"}
NoContract == [view |-> "none"]

-----------------------------------------------------------------------------
(* Declarations.                                                           *)

IsContract(contract) ==
  /\ contract.view \in {"series", "sequences", "tabular"}
  /\ contract.view = "series" =>
       contract.origins = "single" /\ ~contract.horizon_bound /\ ~contract.unseen
  /\ contract.context_required => contract.view = "sequences"

IsDescriptor(descriptor) ==
  /\ descriptor.requires_fit => descriptor.supports_fit
  /\ IF descriptor.supports_fit THEN IsContract(descriptor.training)
     ELSE descriptor.training = NoContract
  /\ descriptor.instances \in (SUBSET {"single", "panel"}) \ {{}}
  /\ descriptor.targets \in (SUBSET {"univariate", "multivariate"}) \ {{}}
  /\ descriptor.roles \subseteq Roles
  /\ descriptor.outputs \in (SUBSET OutputKinds) \ {{}}
  /\ descriptor.missing \in {"native", "requires_transform", "unsupported"}

-----------------------------------------------------------------------------
(* The view a contract, a plan and a horizon ask for. A window that the    *)
(* view does not bind is refused, unless the plan is shared.               *)

Asks(contract, plan, horizon, shared) ==
  /\ contract.view # "series" => horizon # None
  /\ contract.context_required => plan.context # None
  /\ contract.view = "sequences" => plan.context # None
  /\ contract.view # "sequences" => plan.context = None \/ shared

RequestFor(contract, plan, horizon) ==
  [ view    |-> contract.view,
    horizon |-> IF contract.view = "series" THEN None ELSE horizon,
    context |-> IF contract.view = "sequences" THEN plan.context ELSE None ]

(* How much history an instance needs for one sample. A supervised row has *)
(* an origin and an outcome after it.                                      *)
Needed(request) ==
  CASE request.view = "series"    -> 1
    [] request.view = "sequences" -> request.context + request.horizon
    [] request.view = "tabular"   -> 2

FeaturesOf(data, request) ==
  {f \in data.features : request.view = "tabular" => f.role # "observed"}

NamesOf(features) == {f.name : f \in features}

(* An observed feature is masked past the origin of a sample, so that a    *)
(* sequence that has one always has missing values.                        *)
MissingIn(data, request) ==
  LET columns == data.targets \cup NamesOf(FeaturesOf(data, request))
      masked == {f \in data.features : f.role = "observed" /\ request.view = "sequences"}
  IN (data.gaps \cap columns) \cup NamesOf(masked)

ViewOf(data, request) ==
  [ request   |-> request,
    panel     |-> data.panel,
    instances |-> {i \in DOMAIN data.length : data.length[i] >= Needed(request)},
    targets   |-> data.targets,
    features  |-> FeaturesOf(data, request),
    missing   |-> MissingIn(data, request) ]

Materializes(data, request) ==
  LET view == ViewOf(data, request)
  IN view.instances # {} /\ (request.view = "tabular" => view.features # {})

-----------------------------------------------------------------------------
(* Capabilities meeting data. Imputed says whether the recipe states how   *)
(* missing values are filled.                                              *)

HasShape(descriptor, panel, targets, features) ==
  /\ (IF panel THEN "panel" ELSE "single") \in descriptor.instances
  /\ (IF Cardinality(targets) = 1 THEN "univariate" ELSE "multivariate") \in descriptor.targets
  /\ {f.role : f \in features} \subseteq descriptor.roles

TakesMissing(descriptor, missing, imputed) ==
  \/ descriptor.missing = "native" \/ missing = {}
  \/ descriptor.missing = "requires_transform" /\ imputed

Consumes(descriptor, view, imputed) ==
  /\ HasShape(descriptor, view.panel, view.targets, view.features)
  /\ TakesMissing(descriptor, view.missing, imputed)

-----------------------------------------------------------------------------
(* What kind of forecast is asked for. A part is one row of the answer to  *)
(* one instance, event time and target.                                    *)

IsOutput(output) ==
  /\ output \in [kind : OutputKinds, levels : SUBSET Int, draws : Nat]
  /\ output.kind = "quantiles" <=> output.levels # {}
  /\ output.kind = "point" => output.draws = None
  /\ output.kind = "samples" => output.draws # None

DerivedFromSamples(output) == output.kind = "quantiles" /\ output.draws # None

(* Quantiles of drawn samples are executed as samples.                     *)
AsExecuted(output) ==
  IF DerivedFromSamples(output)
  THEN [kind |-> "samples", levels |-> {}, draws |-> output.draws]
  ELSE output

CanAnswer(descriptor, output) == AsExecuted(output).kind \in descriptor.outputs

Parts(output) ==
  CASE output.kind = "point"     -> {<<"point", 0>>}
    [] output.kind = "quantiles" -> {<<"quantile", level>> : level \in output.levels}
    [] output.kind = "samples"   -> {<<"sample", draw>> : draw \in 0 .. output.draws - 1}
=============================================================================
