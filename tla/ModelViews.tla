----------------------------- MODULE ModelViews -----------------------------
(***************************************************************************)
(* The views a provider is given (views/series.py, views/sequences.py,     *)
(* views/tabular.py, views/forecast.py), as the adapters of the libraries  *)
(* read them, and what an adapter answers with.                            *)
(*                                                                         *)
(*   training view  [kind, samples, roles, context, horizon]               *)
(*   forecast view  [origin, horizon, context, instances, history, future, *)
(*                   roles]                                                *)
(*                                                                         *)
(* The samples of a training view are those of Views. A forecast view has  *)
(* its instances and its future rows in some order; its history is the     *)
(* rows of each instance. Roles are those of the features in the schema.   *)
(*                                                                         *)
(* A number a model answers with is what it was worked out from:           *)
(*                                                                         *)
(*   value  [of, from, about]     the instance, the last moment that was   *)
(*                                looked at, and the moment it is meant for*)
(*   row    [instance, event, part, value]                                 *)
(***************************************************************************)
EXTENDS Views, SequencesExt

Roles == {"observed", "known", "static"}

(* An adapter that refuses answers no rows.                                *)
Refused == {}

Value(of, from, about) == [of |-> of, from |-> from, about |-> about]
Row(instance, event, part, value) ==
  [instance |-> instance, event |-> event, part |-> part, value |-> value]

Point == "point"

(* What a model says of itself: the view it is trained on, whether it only *)
(* forecasts the horizon it was trained for, the feature roles it takes    *)
(* and what it can be asked for.                                           *)
Declared(view, bound, roles, outputs) ==
  [view |-> view, bound |-> bound, roles |-> roles, outputs |-> outputs]

-----------------------------------------------------------------------------
(* The elements of a set, each after the ones that are before it: before   *)
(* is the set of pairs of an order.                                        *)
InOrder(set, before) ==
  [k \in 1 .. Cardinality(set) |->
     CHOOSE x \in set : Cardinality({y \in set : <<y, x>> \in before}) = k - 1]

(* ForecastView, from a context. The planner lays its future rows out by   *)
(* instance; a transport may hand them on in another order.                *)

InLayout(cells, layout) ==
  InOrder(cells,
    {p \in cells \X cells :
       LET a == p[1]
           b == p[2]
       IN CASE layout = "by_instance" -> a.place < b.place \/ (a.place = b.place /\ a.event < b.event)
            [] layout = "by_event"    -> a.event < b.event \/ (a.event = b.event /\ a.place < b.place)})

FutureRows(instances, origin, horizon, layout) ==
  InLayout({[place |-> n, instance |-> instances[n], event |-> t] :
              n \in DOMAIN instances, t \in ForecastWindow(origin, horizon)}, layout)

ForecastViewOf(context, instances, steps, horizon, roles, layout) ==
  [ origin    |-> context.origin,
    horizon   |-> horizon,
    context   |-> steps,
    instances |-> instances,
    history   |-> [i \in ToSet(instances) |->
                     EventsIn({row \in Trimmed(context, steps) : row.instance = i})],
    future    |-> FutureRows(instances, context.origin, horizon, layout),
    roles     |-> roles ]

(* ForecastView.event_times: ascending, whatever the order of the rows.    *)
EventTimes(view) == [k \in 1 .. view.horizon |-> Shift(view.origin, k)]

-----------------------------------------------------------------------------
(* External: what a library answers for one series that ends at a moment,  *)
(* as many steps as it cares to.                                           *)
Continued(of, end, steps) == [k \in 1 .. steps |-> Value(of, end, Shift(end, k))]

(* The training series of an instance, and its windows of a length: what a *)
(* library that slides a window along a series learns from.                *)
Windows(events, length) ==
  {w \in {{Shift(t, k) : k \in 0 .. length - 1} : t \in events} : w \subseteq events}
=============================================================================
