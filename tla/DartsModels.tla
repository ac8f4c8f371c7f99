----------------------------- MODULE DartsModels -----------------------------
(***************************************************************************)
(* Darts (integrations/darts). A panel is a list of series without ids,    *)
(* and the answer a list in the same order: a place in the list is all     *)
(* that says which instance a prediction is of.                            *)
(***************************************************************************)
EXTENDS ModelViews, NativeParameters

(* What a library cannot hold: moments that are not on the grid.           *)
OnGrid(events) == \A t \in events : t = Max(events) \/ Shift(t, 1) \in events

-----------------------------------------------------------------------------
(* training_series and DartsLocalAdapter.fit: a model for each series, in  *)
(* a file of its own, and an entry that says whose it is.                  *)

DartsLocalDeclares == Declared("series", FALSE, {}, {"point"})

DartsLocalAdapter(parameters, seeded) ==
  [Adapter("darts_local", DartsLocalDeclares, parameters)
     EXCEPT !.sets = IF seeded THEN {"random_state"} ELSE {}]

DartsThetaParameters ==
  [seasonality_period |-> AtLeast("integer", 1), season_mode |-> OneOf({Word(1), Word(2)})]

DartsLocalCompiled(adapter, view) == [name \in adapter.sets |-> Seed]

DartsSeries(view) == SetToSeq(view.samples)

DartsLocalFits(view) ==
  /\ view.kind = "series"
  /\ view.roles = {}
  /\ \A s \in view.samples : OnGrid(EventsIn(s.outcomes))

DartsLocalFit(view) ==
  LET series == DartsSeries(view)
  IN [ files   |-> [n \in DOMAIN series |->
                      [of |-> series[n].instance, end |-> Max(EventsIn(series[n].outcomes))]],
       entries |-> {[file |-> n, key |-> series[n].instance,
                     last |-> Max(EventsIn(series[n].outcomes))] : n \in DOMAIN series} ]

(* _entry_for                                                              *)
HasEntry(state, view, i) == \E one \in state.entries : one.key = i /\ one.last = view.origin

Entry(state, i) == CHOOSE one \in state.entries : one.key = i

(* answer: the predictions in the order of the instances, and each of them *)
(* as long as the view's event times.                                      *)
(* Mutant of ByPlace: the shorter of the two is what was answered. *)
ByPlaceAsFarAsItGoes(view, predictions, instances) ==
  UNION {{Row(instances[n], EventTimes(view)[k], Point, predictions[n][k]) :
            k \in 1 .. Len(predictions[n])} : n \in DOMAIN instances}

ByPlace(view, predictions, instances) ==
  IF \/ Len(predictions) # Len(instances)
     \/ \E n \in DOMAIN predictions : Len(predictions[n]) # view.horizon
  THEN Refused
  ELSE {Row(instances[n], EventTimes(view)[k], Point, predictions[n][k]) :
          n \in DOMAIN instances, k \in 1 .. view.horizon}

DartsLocalForecast(state, view, output, steps) ==
  IF \/ output.kind # "point"
     \/ \E i \in ToSet(view.instances) : ~HasEntry(state, view, i)
  THEN Refused
  ELSE LET model(i) == state.files[Entry(state, i).file]
           predictions == [n \in DOMAIN view.instances |->
                             LET instance == view.instances[n]
                             IN Continued(model(instance).of, model(instance).end,
                                          steps[instance])]
       IN ByPlace(view, predictions, view.instances)

-----------------------------------------------------------------------------
(* sequence_series and DartsGlobalAdapter.fit: a list of one series per    *)
(* sample, so that a window has one place in it.                           *)

DartsGlobalDeclares(bound, accepted) == Declared("sequences", bound, accepted, {"point"})

(* A model whose constructor takes the length of what it answers is bound  *)
(* to that length.                                                         *)
DartsGlobalAdapter(sets, accepted, parameters) ==
  [Adapter("darts_global", DartsGlobalDeclares("output_chunk_length" \in sets, accepted), parameters)
     EXCEPT !.sets = sets]

Compiles == {"input_chunk_length", "output_chunk_length", "pl_trainer_kwargs", "random_state"}

TorchParameters ==
  [n_epochs |-> AtLeast("integer", 1), dropout |-> Between("number", 0, 1)]
TideParameters == [hidden_size |-> AtLeast("integer", 1), use_layer_norm |-> Flag]
DartsNhitsParameters == [num_stacks |-> AtLeast("integer", 1), activation |-> OneOf({Word(1), Word(2)})]

DartsCertified ==
  [ theta |-> DartsLocalAdapter(DartsThetaParameters, FALSE),
    tide  |-> DartsGlobalAdapter(Compiles, Roles, Over(TorchParameters, TideParameters)),
    nhits |-> DartsGlobalAdapter(Compiles, {"observed"}, Over(TorchParameters, DartsNhitsParameters)) ]

(* _adapters. A class that is neither local nor global is none of its      *)
(* base; a global one has to take a length of context, and to let itself   *)
(* be constructed for the probe of what it supports.                       *)
DartsReserved ==
  { "input_chunk_length", "output_chunk_length", "output_chunk_shift", "random_state",
    "pl_trainer_kwargs", "model_name", "work_dir", "save_checkpoints", "force_reset",
    "add_encoders", "likelihood" }

DartsAdapters(library) ==
  Catalogued(DartsCertified, library,
    LAMBDA class :
      /\ class.base \in {"local", "global"} /\ ~class.pretrained
      /\ IsConstructible(class.constructor, DartsReserved)
      /\ class.base = "global" => "input_chunk_length" \in DOMAIN class.constructor /\ class.probed,
    LAMBDA class :
      LET parameters == Discovered(class.constructor, DartsReserved)
      IN IF class.base = "local"
         THEN DartsLocalAdapter(parameters, "random_state" \in DOMAIN class.constructor)
         ELSE DartsGlobalAdapter(DOMAIN class.constructor \cap Compiles, class.roles, parameters))

(* _instantiate: every one of them that the constructor takes.             *)
DartsGlobalCompiled(adapter, view) ==
  [name \in adapter.sets |->
     CASE name = "input_chunk_length"  -> Number(view.context)
       [] name = "output_chunk_length" -> Number(view.horizon)
       [] OTHER                        -> Seed]

DartsSamples(view) == {EventsIn(s.outcomes) : s \in view.samples}

DartsGlobalFits(view, accepted) ==
  /\ view.kind = "sequences"
  /\ view.roles \subseteq accepted

(* External: a model that is not told how many steps to answer learns to   *)
(* answer one.                                                             *)
WindowOf(built) ==
  built.input_chunk_length.size +
    (IF "output_chunk_length" \in DOMAIN built THEN built.output_chunk_length.size ELSE 1)

DartsGlobalFit(view, built) ==
  [ roles   |-> view.roles,
    context |-> view.context,
    horizon |-> view.horizon,
    windows |-> UNION {Windows(events, WindowOf(built)) : events \in DartsSamples(view)} ]

(* Mutant of DartsWindow: every model is taken to be bound to its horizon. *)
DartsWindowAndHorizon(state, view, bound) ==
  state.context = view.context /\ state.horizon = view.horizon

(* _require_matching_window                                                *)
DartsWindow(state, view, bound) ==
  state.context = view.context /\ (bound => state.horizon = view.horizon)

(* forecast_series: the history of every instance, in the view's order.    *)

DartsHistories(view) ==
  [n \in DOMAIN view.instances |->
     [of |-> view.instances[n], events |-> view.history[view.instances[n]]]]

DartsGlobalForecast(state, view, output, steps, bound) ==
  IF \/ output.kind # "point"
     \/ ~DartsWindow(state, view, bound)
     \/ ~(state.roles \subseteq view.roles)
  THEN Refused
  ELSE LET given == DartsHistories(view)
           predictions == [n \in DOMAIN given |->
                             Continued(given[n].of, Max(given[n].events), steps[given[n].of])]
       IN ByPlace(view, predictions, view.instances)
=============================================================================
