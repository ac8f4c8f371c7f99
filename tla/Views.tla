------------------------------- MODULE Views -------------------------------
(***************************************************************************)
(* What the view planner (views/planner.py, views/_sources.py) hands a     *)
(* provider: the samples of a training view, and the cells of a forecast   *)
(* view. The tables a view is laid out in, its opaque ids and its          *)
(* provenance are left out; a view is the set of its samples.              *)
(*                                                                         *)
(*   sample [instance, origin, outcomes, known, observed]                  *)
(*                                                                         *)
(* The last three are the rows the sample's targets, known features and    *)
(* observed features were read from.                                       *)
(***************************************************************************)
EXTENDS PointInTime

(* The origin of a view of a whole event-time series: it has none.         *)
NoOrigin == -1

(* The context length of a request that states none.                       *)
NoContext == 0

-----------------------------------------------------------------------------
(* The two sources, read alike. Any event time of a frame is an origin, at *)
(* which all of the frame is the vintage; a dataset has its own.           *)

FrameSource(frame) ==
  [ kind      |-> "frame",
    origins   |-> EventsIn(frame.history),
    instances |-> InstancesIn(frame.history),
    truth     |-> frame.history,
    info      |-> Cells(frame.history) \cup frame.future ]

DatasetSource(dataset) ==
  [ kind      |-> "dataset",
    origins   |-> Origins(dataset),
    instances |-> InstancesIn(dataset.info),
    truth     |-> dataset.truth,
    info      |-> dataset.info ]

Vintage(source, origin) ==
  IF source.kind = "frame" THEN source.info
  ELSE {row \in source.info : row.origin = origin}

AtCells(rows, instance, events) ==
  {row \in rows : row.instance = instance /\ row.event \in events}

Holds(rows, instance, events) ==
  \A t \in events : \E row \in rows : row.instance = instance /\ row.event = t

(* Mutant of Observable: nothing is masked. *)
AllObservable(rows, origin) == rows

(* An observed feature is masked past the origin of the sample.            *)
Observable(rows, origin) ==
  IF origin = NoOrigin THEN rows ELSE Happened(rows, origin)

-----------------------------------------------------------------------------
(* One complete series per instance, at one origin.                        *)

SeriesOrigins(source, selection) ==
  IF selection.mode = "all" /\ source.kind = "frame" THEN {NoOrigin}
  ELSE IF selection.mode = "all" THEN source.origins
  ELSE Selected(selection, source.origins)

SeriesMoments(source, instance, origin) ==
  EventsIn({row \in Observable(source.truth, origin) : row.instance = instance})

SeriesSample(source, instance, origin) ==
  LET moments == SeriesMoments(source, instance, origin)
      values == AtCells(Vintage(source, origin), instance, moments)
  IN [ instance |-> instance, origin |-> origin,
       outcomes |-> AtCells(source.truth, instance, moments),
       known    |-> values,
       observed |-> Observable(values, origin) ]

SeriesSamples(source, origin) ==
  {SeriesSample(source, i, origin) :
     i \in {j \in source.instances : SeriesMoments(source, j, origin) # {}}}

-----------------------------------------------------------------------------
(* One context -> horizon sequence per instance and origin that has all of *)
(* its outcomes and, ahead of the origin, all of its features.             *)

ContextWindow(origin, context) == {Shift(origin, -k) : k \in 0 .. context - 1}
ForecastWindow(origin, horizon) == {Shift(origin, k) : k \in 1 .. horizon}

Covers(source, instance, origin, context, horizon) ==
  /\ Holds(source.truth, instance, ContextWindow(origin, context))
  /\ Holds(source.truth, instance, ForecastWindow(origin, horizon))
  /\ Holds(Vintage(source, origin), instance, ForecastWindow(origin, horizon))

SequenceSample(source, instance, origin, context, horizon) ==
  LET window == ContextWindow(origin, context) \cup ForecastWindow(origin, horizon)
      values == AtCells(Vintage(source, origin), instance, window)
  IN [ instance |-> instance, origin |-> origin,
       outcomes |-> AtCells(source.truth, instance, window),
       known    |-> values,
       observed |-> Observable(values, origin) ]

SequenceSamples(source, origins, context, horizon) ==
  {SequenceSample(source, p[1], p[2], context, horizon) :
     p \in {q \in source.instances \X origins : Covers(source, q[1], q[2], context, horizon)}}

-----------------------------------------------------------------------------
(* One supervised row per instance, origin and step that has an outcome    *)
(* and what its vintage said of it. Observed features are not in a row.    *)

TabularSample(source, instance, origin, moment) ==
  [ instance |-> instance, origin |-> origin,
    outcomes |-> AtCells(source.truth, instance, {moment}),
    known    |-> AtCells(Vintage(source, origin), instance, {moment}),
    observed |-> {} ]

Supported(source, instance, origin, horizon) ==
  {t \in ForecastWindow(origin, horizon) :
     /\ Holds(source.truth, instance, {t})
     /\ Holds(Vintage(source, origin), instance, {t})}

TabularSamples(source, origins, horizon) ==
  UNION {{TabularSample(source, p[1], p[2], t) : t \in Supported(source, p[1], p[2], horizon)} :
           p \in source.instances \X origins}

-----------------------------------------------------------------------------
(* The training view a model's contract and a plan ask for. A series view  *)
(* holds one origin, and no view is ever empty: what asks for another is   *)
(* refused, here an empty set.                                             *)

FitView(source, contract, selection, context, horizon) ==
  LET origins == IF contract = "series" THEN SeriesOrigins(source, selection)
                 ELSE Selected(selection, source.origins)
  IN CASE contract = "series" ->
            IF Cardinality(origins) = 1
            THEN UNION {SeriesSamples(source, o) : o \in origins}
            ELSE {}
       [] contract = "sequences" -> SequenceSamples(source, origins, context, horizon)
       [] contract = "tabular"   -> TabularSamples(source, origins, horizon)

(* The cells a forecast view asks for, each with the known values the      *)
(* context has for it; and whether the history reaches back as far as the  *)
(* model was trained to expect, for every instance.                        *)
ForecastCells(context, horizon) ==
  {[ instance |-> i, event |-> t, values |-> AtCells(context.future, i, {t}) ] :
     i \in InstancesIn(context.history), t \in ForecastWindow(context.origin, horizon)}

Trimmed(context, steps) ==
  IF steps = NoContext THEN context.history
  ELSE {row \in context.history : row.event \in ContextWindow(context.origin, steps)}

LongEnough(context, steps) ==
  \A i \in InstancesIn(context.history) :
     Holds(Trimmed(context, steps), i, ContextWindow(context.origin, steps))
=============================================================================
