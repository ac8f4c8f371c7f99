---------------------------- MODULE SeasonalNaive ----------------------------
(***************************************************************************)
(* builtin/seasonal-naive (providers/builtin/seasonal_naive.py): the last  *)
(* season of every series is remembered, and repeated.                     *)
(*                                                                         *)
(*   state  [season, series: instance -> [last, tail]]                     *)
(***************************************************************************)
EXTENDS ModelViews, NativeParameters

SeasonalDeclares == Declared("series", FALSE, Roles, {"point"})

(* _season_length. A season is one step unless a recipe says otherwise.    *)
SeasonalAdapter ==
  [Adapter("seasonal_naive", SeasonalDeclares, [season_length |-> AtLeast("integer", 1)])
     EXCEPT !.defaults = [season_length |-> Number(1)]]

(* fit. The tail is the last rows of a series, as many as a season has     *)
(* steps.                                                                  *)
Ordered(sample) ==
  LET times == EventsIn(sample.outcomes)
  IN InOrder(times, {p \in times \X times : p[1] < p[2]})

Remembers(sample, season) ==
  LET times == Ordered(sample)
  IN [ last |-> times[Len(times)],
       tail |-> SubSeq(times, Len(times) - season + 1, Len(times)) ]

SeasonalFits(view, built) ==
  /\ view.kind = "series"
  /\ \A s \in view.samples : Len(Ordered(s)) >= built.season_length.size

SeasonalFit(view, built) ==
  [ season |-> built.season_length.size,
    series |-> [i \in InstancesIn(view.samples) |->
                  Remembers(CHOOSE s \in view.samples : s.instance = i, built.season_length.size)] ]

(* _phase, of a moment a whole number of steps after the last one.         *)
IsAhead(entry, moment) == moment > entry.last /\ (moment - entry.last) % Period = 0
StepsAhead(entry, moment) == (moment - entry.last) \div Period

Phase(entry, season, moment) == (StepsAhead(entry, moment) - 1) % season

(* The row at that phase, repeated season after season.                    *)
SeasonAgo(entry, season, instance, moment) ==
  LET row == entry.tail[Phase(entry, season, moment) + 1]
      seasons == (StepsAhead(entry, moment) - 1) \div season + 1
  IN Value(instance, row, Shift(row, seasons * season))

(* Mutant of SeasonalAnswers: only the instances are looked at. *)
AnswersAboutThePast(state, view, kind) ==
  /\ kind = "point"
  /\ \A n \in DOMAIN view.future : view.future[n].instance \in DOMAIN state.series

SeasonalAnswers(state, view, kind) ==
  /\ kind = "point"
  /\ \A n \in DOMAIN view.future :
       /\ view.future[n].instance \in DOMAIN state.series
       /\ IsAhead(state.series[view.future[n].instance], view.future[n].event)

SeasonalForecast(state, view, kind) ==
  IF ~SeasonalAnswers(state, view, kind) THEN Refused
  ELSE {LET cell == view.future[n]
        IN Row(cell.instance, cell.event, Point, SeasonAgo(state.series[cell.instance], state.season, cell.instance, cell.event)) :
          n \in DOMAIN view.future}
=============================================================================
