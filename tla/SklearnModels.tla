---------------------------- MODULE SklearnModels ----------------------------
(***************************************************************************)
(* scikit-learn estimators (integrations/sklearn): supervised rows in, one *)
(* number per row out. A number is of the row at its place.                *)
(***************************************************************************)
EXTENDS ModelViews, NativeParameters

(* design_matrix and SklearnAdapter.fit. A row without a target is not an  *)
(* example, and a row needs a feature.                                     *)
SklearnDeclares == Declared("tabular", FALSE, Roles, {"point"})

SklearnAdapter(parameters, seeded) ==
  [Adapter("sklearn", SklearnDeclares, parameters)
     EXCEPT !.sets = IF seeded THEN {"random_state"} ELSE {}]

BoostingParameters ==
  [max_iter |-> AtLeast("integer", 1), max_depth |-> AtLeast("integer", 1),
   max_bins |-> Between("integer", 2, 255)]

(* _adapters, of regressors of one target that can be constructed bare.    *)
SklearnAdapters(library) ==
  Catalogued(Named("hist-gradient-boosting", SklearnAdapter(BoostingParameters, TRUE)), library,
    LAMBDA class :
      /\ IsConstructible(class.constructor, {"random_state"}) /\ class.probed
      /\ class.two_d_array /\ class.single_output,
    LAMBDA class :
      SklearnAdapter(Discovered(class.constructor, {"random_state"}),
                     "random_state" \in DOMAIN class.constructor))

(* _instantiate                                                            *)
SklearnCompiled(adapter, view) == [name \in adapter.sets |-> Seed]

SklearnFits(view) ==
  /\ view.kind = "tabular"
  /\ view.roles \ {"observed"} # {}
  /\ \A s \in view.samples : \A outcome \in s.outcomes : outcome.measured

SklearnFit(view) ==
  [ features |-> view.roles \ {"observed"},
    rows     |-> {[of |-> s.instance, origin |-> s.origin, about |-> EventsIn(s.outcomes)] : s \in view.samples} ]

(* _horizon_rows: the cells of the view, by instance and then by event     *)
(* time, each looked up among the future rows wherever it is.              *)
RowsAskedFor(view) ==
  [n \in 1 .. Len(view.instances) * view.horizon |->
     [ instance |-> view.instances[(n - 1) \div view.horizon + 1],
       event    |-> EventTimes(view)[((n - 1) % view.horizon) + 1] ]]

PlaceOf(view, cell) ==
  CHOOSE n \in DOMAIN view.future :
    view.future[n].instance = cell.instance /\ view.future[n].event = cell.event

(* Mutant of HorizonRows: the future rows are taken as they come. *)
RowsAsTheyCome(view) == view.future

HorizonRows(view) ==
  [n \in DOMAIN RowsAskedFor(view) |-> view.future[PlaceOf(view, RowsAskedFor(view)[n])]]

(* The array of numbers has no labels: one that is too short is of no rows.*)
OneForEveryRow(view, steps) == \A i \in ToSet(view.instances) : steps[i] = view.horizon

(* inference_matrix, the prediction, and answer.                           *)
SklearnForecast(state, view, output, steps) ==
  IF \/ output.kind # "point" \/ ~(state.features \subseteq view.roles)
     \/ ~OneForEveryRow(view, steps)
  THEN Refused
  ELSE LET X == HorizonRows(view)
           predicted == [n \in DOMAIN X |-> Value(X[n].instance, view.origin, X[n].event)]
           asked == RowsAskedFor(view)
       IN {Row(asked[n].instance, asked[n].event, Point, predicted[n]) : n \in DOMAIN asked}
=============================================================================
