---------------------------- MODULE SktimeModels ----------------------------
(***************************************************************************)
(* sktime (integrations/sktime). A panel is a table with a unit and a      *)
(* moment as its index; the answer is indexed alike, and it is looked up   *)
(* by both. A unit is a sample, or, as a forecast labels them, an instance *)
(* by its place.                                                           *)
(***************************************************************************)
EXTENDS ModelViews, NativeParameters

Label(n) == <<"instance", n>>

InstanceLabels(instances) == [label \in {Label(n) : n \in DOMAIN instances} |-> instances[label[2]]]

OnTheGrid(events) == \A t \in events : t = Max(events) \/ Shift(t, 1) \in events

-----------------------------------------------------------------------------
(* training_series and SktimeLocalAdapter.fit                              *)

SktimeLocalDeclares == Declared("series", FALSE, {}, {"point"})

SktimeLocalAdapter(parameters, defaults, seeded) ==
  [Adapter("sktime_local", SktimeLocalDeclares, parameters)
     EXCEPT !.defaults = defaults, !.sets = IF seeded THEN {"random_state"} ELSE {}]

Off == [type |-> "boolean", size |-> 0]

SktimeThetaParameters == [sp |-> AtLeast("integer", 1), deseasonalize |-> Flag]

SktimeLocalCompiled(adapter, view) == [name \in adapter.sets |-> Seed]

SktimeLocalFits(view) ==
  /\ view.kind = "series"
  /\ view.roles = {}
  /\ \A s \in view.samples : OnTheGrid(EventsIn(s.outcomes))

SktimeLocalFit(view) ==
  LET series == SetToSeq(view.samples)
  IN [ files   |-> [n \in DOMAIN series |->
                      [of |-> series[n].instance, end |-> Max(EventsIn(series[n].outcomes))]],
       entries |-> {[file |-> n, key |-> series[n].instance,
                     last |-> Max(EventsIn(series[n].outcomes))] : n \in DOMAIN series} ]

(* _entry_for                                                              *)
IsFittedTo(state, view, i) == \E one \in state.entries : one.key = i /\ one.last = view.origin

ModelOf(state, i) == state.files[(CHOOSE one \in state.entries : one.key = i).file]

(* _as_panel: the answers about single series, as rows of one panel.       *)
Panel(answers) ==
  UNION {{[unit |-> label, event |-> answers[label][k].about, value |-> answers[label][k]] :
            k \in DOMAIN answers[label]} : label \in DOMAIN answers}

(* answer: every event time of the view is looked up in the library's own  *)
(* index, under the label of its instance.                                 *)
IsAnswered(view, predicted, label) ==
  \A k \in 1 .. view.horizon :
    \E row \in predicted : row.unit = label /\ row.event = EventTimes(view)[k]

ByLabel(view, predicted, instances) ==
  IF \E label \in DOMAIN instances : ~IsAnswered(view, predicted, label)
  THEN Refused
  ELSE {Row(instances[label], EventTimes(view)[k], Point,
            (CHOOSE row \in predicted : row.unit = label /\ row.event = EventTimes(view)[k]).value) :
          label \in DOMAIN instances, k \in 1 .. view.horizon}

SktimeLocalForecast(state, view, output, steps) ==
  LET labels == InstanceLabels(view.instances)
  IN IF \/ output.kind # "point"
        \/ \E i \in ToSet(view.instances) : ~IsFittedTo(state, view, i)
     THEN Refused
     ELSE LET answers == [label \in DOMAIN labels |->
                LET model == ModelOf(state, labels[label])
                IN Continued(model.of, model.end, steps[labels[label]])]
          IN ByLabel(view, Panel(answers), labels)

-----------------------------------------------------------------------------
(* sequence_panel and SktimePanelAdapter.fit. A recursive reduction learns *)
(* one step after every window of the context, and rolls.                  *)

SktimePanelDeclares == Declared("sequences", FALSE, {"known", "static"}, {"point"})

PooledTreesParameters ==
  [max_iter |-> AtLeast("integer", 1), learning_rate |-> AtLeast("number", 0),
   max_leaf_nodes |-> AtLeast("integer", 2)]

SktimePanelAdapter == Adapter("sktime_panel", SktimePanelDeclares, PooledTreesParameters)

(* _instantiate: of the regressor, and of the reduction around it.         *)
SktimePanelCompiled(view) == [random_state |-> Seed]
ReductionWindow(view) == view.context + 1

SktimeCertified ==
  Over(Named("theta", SktimeLocalAdapter(SktimeThetaParameters, [deseasonalize |-> Off], FALSE)),
       Named("pooled-trees", SktimePanelAdapter))

(* _adapters, of forecasters of one series that need no horizon to fit.    *)
SktimeAdapters(library) ==
  Catalogued(SktimeCertified, library,
    LAMBDA class :
      /\ ~class.requires_fh_in_fit /\ class.installed /\ ~class.multivariate
      /\ IsConstructible(class.constructor, {"random_state"}),
    LAMBDA class :
      SktimeLocalAdapter(Discovered(class.constructor, {"random_state"}), NoParams,
                         "random_state" \in DOMAIN class.constructor))

Unit(sample) == <<sample.instance, sample.origin>>

SktimePanelFits(view) ==
  view.kind = "sequences" /\ view.roles \subseteq {"known", "static"}

SktimePanelFit(view) ==
  [ roles   |-> view.roles,
    context |-> view.context,
    panel   |-> [unit \in {Unit(s) : s \in view.samples} |->
                   EventsIn((CHOOSE s \in view.samples : Unit(s) = unit).outcomes)],
    windows |-> UNION {Windows(EventsIn(s.outcomes), ReductionWindow(view)) : s \in view.samples} ]

(* forecast_panel, handed to update: the units that were fitted on stay.   *)

Updated(state, view) ==
  LET labels == InstanceLabels(view.instances)
  IN [unit \in DOMAIN state.panel \cup DOMAIN labels |->
        IF unit \in DOMAIN labels
        THEN [of |-> labels[unit], events |-> view.history[labels[unit]]]
        ELSE [of |-> unit[1], events |-> state.panel[unit]]]

SktimePanelForecast(state, view, output, steps) ==
  LET labels == InstanceLabels(view.instances)
      held == Updated(state, view)
  IN IF \/ output.kind # "point"
        \/ state.context # view.context
        \/ ~(state.roles \subseteq view.roles)
     THEN Refused
     ELSE LET answers == [unit \in DOMAIN held |->
                Continued(held[unit].of, Max(held[unit].events),
                          IF unit \in DOMAIN labels THEN steps[labels[unit]] ELSE view.horizon)]
          IN ByLabel(view, Panel(answers), labels)
=============================================================================
