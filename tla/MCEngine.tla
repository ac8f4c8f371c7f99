------------------------------ MODULE MCEngine ------------------------------
(* Instances of Engine for TLC. *)
EXTENDS Engine, TLC

CONSTANTS i, j    (* instances *)

(* Models: a local one, a global one that binds its context and horizon, a *)
(* tabular one, and a pretrained one.                                      *)
Contract(view, required, bound) ==
  [ view |-> view, origins |-> IF view = "series" THEN "single" ELSE "multiple",
    context_required |-> required, horizon_bound |-> bound, unseen |-> view # "series" ]

Everything == [ instances |-> {"single", "panel"}, targets |-> {"univariate", "multivariate"},
                roles |-> Roles ]

Local == [requires_fit |-> TRUE, supports_fit |-> TRUE, training |-> Contract("series", FALSE, FALSE),
          outputs |-> {"point"}, missing |-> "native"] @@ Everything
Global == [requires_fit |-> TRUE, supports_fit |-> TRUE, training |-> Contract("sequences", TRUE, TRUE),
           outputs |-> {"point", "samples"}, missing |-> "requires_transform"] @@ Everything
Rows == [requires_fit |-> TRUE, supports_fit |-> TRUE, training |-> Contract("tabular", FALSE, FALSE),
         outputs |-> {"point"}, missing |-> "native",
         instances |-> {"single", "panel"}, targets |-> {"univariate"}, roles |-> {"known", "static"}]
Pretrained == [requires_fit |-> FALSE, supports_fit |-> FALSE, training |-> NoContract,
               outputs |-> {"quantiles", "samples"}, missing |-> "native",
               instances |-> {"single", "panel"}, targets |-> {"univariate"}, roles |-> {"known"}]

Models == ("local" :> Local) @@ ("global" :> Global) @@ ("rows" :> Rows) @@ ("pretrained" :> Pretrained)

(* With every provider installed, and without that of one model.           *)
Environments == {DOMAIN Models, DOMAIN Models \ {"global"}}

Scaler(role, names, per_instance) ==
  [kind |-> "scaler", columns |-> [role |-> role, names |-> names], per_instance |-> per_instance]
Impute == [kind |-> "impute", columns |-> [role |-> "targets", names |-> {}], per_instance |-> FALSE]

M(ref) == [kind |-> "model", ref |-> ref]
P(transforms, estimator) == [kind |-> "pipeline", transforms |-> transforms, estimator |-> estimator]
E(models, weights) == [kind |-> "ensemble", models |-> models, weights |-> weights]

(* Each, then all together. *)
Twice == P(<<Scaler("targets", {}, TRUE), Scaler("named", {"y"}, FALSE)>>, M("global"))
Unlike == E(<<M("local"), Twice>>, <<2, 1>>)
Nested == E(<<M("rows"), Unlike>>, Equal)
Featured == E(<<M("rows"), M("local")>>, <<1, 3>>)
Tuned == P(<<Scaler("targets", {}, TRUE)>>, E(<<M("local"), M("global")>>, Equal))
Filled == P(<<Impute>>, M("global"))
Lagged == [kind |-> "reduction", ref |-> "rows"]

Everyone == {M("local"), M("global"), M("rows"), M("pretrained"),
             Twice, Unlike, Nested, Featured, Tuned, E(<<M("local"), M("global")>>, Equal), Filled, Lagged}

Known == [name |-> "f", role |-> "known"]
Observed == [name |-> "o", role |-> "observed"]

Data(length, features, gaps) ==
  [panel |-> TRUE, length |-> length, targets |-> {"y"}, features |-> features, gaps |-> gaps]

Long == (i :> 4) @@ (j :> 4)
Datas == {Data(Long, {Known}, {}), Data((i :> 4) @@ (j :> 1), {Known}, {}),
          Data(Long, {Known, Observed}, {}), Data((i :> 1), {}, {"y"})}

Context == {[context |-> None], [context |-> 2]}

Point == [kind |-> "point", levels |-> {}, draws |-> None]
Quantiles(draws) == [kind |-> "quantiles", levels |-> {10, 90}, draws |-> draws]
Samples == [kind |-> "samples", levels |-> {}, draws |-> 2]
Asked == {Point, Quantiles(None), Quantiles(2), Samples}
=============================================================================
