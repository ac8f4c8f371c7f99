---------------------------- MODULE PointInTime ----------------------------
(***************************************************************************)
(* The two semantic sources a model is fitted on and forecast from         *)
(* (data/frame.py, data/forecast_dataset.py, data/forecast_context.py).    *)
(*                                                                         *)
(* A moment is an integer. What a table holds is the set of its rows, and  *)
(* a row stands for its values:                                            *)
(*                                                                         *)
(*   outcome      [instance, event, measured]   a row of a history or of a *)
(*                truth frame; not measured when its target is null        *)
(*   information  [origin, instance, event]     a row of one vintage: its  *)
(*                known feature, and its observed one up to the origin     *)
(*   cell         [instance, event]             a known feature of an      *)
(*                event-time frame, which has no vintages                  *)
(*                                                                         *)
(*   frame    [history: outcomes, future: cells, static: instances]        *)
(*   dataset  [info: information, truth: outcomes, static: instances]      *)
(*                                                                         *)
(* All data declare one target, one known and one observed feature. static *)
(* is the instances the static table has a row of: none when the schema    *)
(* declares no static feature.                                             *)
(***************************************************************************)
EXTENDS Integers, FiniteSetsExt

CONSTANTS
  Instance,   (* the values of the instance keys                           *)
  Period      (* the event frequency, in units of time                     *)

ASSUME PeriodAssumption == Period \in Nat \ {0}

Information == [origin : Int, instance : Instance, event : Int]
Outcome == [instance : Instance, event : Int, measured : BOOLEAN]

Shift(moment, steps) == moment + steps * Period

CellOf(row) == [instance |-> row.instance, event |-> row.event]
Cells(rows) == {CellOf(row) : row \in rows}
InstancesIn(rows) == {row.instance : row \in rows}
EventsIn(rows) == {row.event : row \in rows}

Happened(rows, moment) == {row \in rows : row.event <= moment}
Ahead(rows, moment) == {row \in rows : row.event > moment}

-----------------------------------------------------------------------------
(* Event-time frames.                                                      *)

(* The constructor refuses future rows of instances without history, and a *)
(* static table that is not of exactly the instances of the history.       *)
IsFrame(frame) ==
  /\ InstancesIn(frame.future) \subseteq InstancesIn(frame.history)
  /\ frame.static \in {{}, InstancesIn(frame.history)}

(* The known values of the rows that are cut off move into the future.     *)
FrameUpTo(frame, moment) ==
  LET kept == Happened(frame.history, moment)
  IN [ history |-> kept,
       future  |-> {cell \in Ahead(Cells(frame.history) \cup frame.future, moment) :
                      cell.instance \in InstancesIn(kept)},
       static  |-> frame.static \cap InstancesIn(kept) ]

FrameReaches(frame, moment) ==
  LET past == FrameUpTo(frame, moment)
  IN past.history # {} /\ IsFrame(past)

-----------------------------------------------------------------------------
(* Point-in-time datasets.                                                 *)

Origins(dataset) == {row.origin : row \in dataset.info}
IssuedBy(dataset, moment) == {row \in dataset.info : row.origin <= moment}

(* Mutant of VintageOf: older vintages are seen through the newest. *)
VintagesUpTo(dataset, origin) == IssuedBy(dataset, origin)

VintageOf(dataset, origin) == {row \in dataset.info : row.origin = origin}

IsDataset(dataset) ==
  /\ IsFrame([history |-> dataset.truth, future |-> {}, static |-> dataset.static])
  /\ InstancesIn(dataset.truth) \subseteq InstancesIn(dataset.info)

(* Mutant of UpTo: only the vintages are cut. *)
UpToOfVintages(dataset, moment) ==
  [info |-> IssuedBy(dataset, moment), truth |-> dataset.truth, static |-> dataset.static]

UpTo(dataset, moment) ==
  LET happened == Happened(dataset.truth, moment)
  IN [ info   |-> IssuedBy(dataset, moment),
       truth  |-> happened,
       static |-> dataset.static \cap InstancesIn(happened) ]

Reaches(dataset, moment) ==
  LET past == UpTo(dataset, moment)
  IN past.info # {} /\ past.truth # {} /\ IsDataset(past)

-----------------------------------------------------------------------------
(* One inference origin. A row of a context's history says which outcomes  *)
(* and which feature values it was gathered from.                          *)

HistoryRow(cell, outcomes, values) ==
  [ instance |-> cell.instance,
    event    |-> cell.event,
    outcomes |-> {row \in outcomes : CellOf(row) = cell},
    values   |-> {row \in values : CellOf(row) = cell} ]

AtOrigin(dataset, origin) ==
  LET vintage == VintageOf(dataset, origin)
      past == Happened(Cells(dataset.truth) \cup Cells(vintage), origin)
  IN [ origin  |-> origin,
       history |-> {HistoryRow(cell, dataset.truth, vintage) : cell \in past},
       future  |-> Ahead(vintage, origin),
       static  |-> dataset.static ]

HasContext(dataset, origin) ==
  LET context == AtOrigin(dataset, origin)
  IN /\ origin \in Origins(dataset)
     /\ context.history # {}
     /\ IsFrame(context)

(* A frame is the origin at the end of its history.                        *)
ContextOf(frame) ==
  [ origin  |-> Max(EventsIn(frame.history)),
    history |-> {HistoryRow(CellOf(row), frame.history, Cells(frame.history)) :
                   row \in frame.history},
    future  |-> frame.future,
    static  |-> frame.static ]

-----------------------------------------------------------------------------
(* What happened over the steps after a moment.                            *)

Outcomes(truth, after, horizon) ==
  {row \in truth : after < row.event /\ row.event <= Shift(after, horizon)}

(* Which origins a fit learns from or a validation evaluates at: all of    *)
(* them, the latest, one, or those of a closed interval, thinned.          *)
Thinned(origins, stride) ==
  {t \in origins : Cardinality({s \in origins : s < t}) % stride = 0}

OriginModes == {"all", "latest", "at", "between"}

Selected(selection, available) ==
  CASE selection.mode = "all"     -> Thinned(available, selection.stride)
    [] selection.mode = "latest"  -> {Max(available)}
    [] selection.mode = "at"      -> available \cap {selection.start}
    [] selection.mode = "between" ->
         Thinned({t \in available : selection.start <= t /\ t <= selection.end}, selection.stride)
=============================================================================
