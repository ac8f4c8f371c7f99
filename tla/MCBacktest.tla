----------------------------- MODULE MCBacktest -----------------------------
(* Instances of Backtest for TLC. *)
EXTENDS Backtest

AllOrigins == [mode |-> "all", stride |-> 1]
LatestOrigin == [mode |-> "latest"]
Between(first, last) == [mode |-> "between", start |-> first, end |-> last, stride |-> 1]

Candidate(contract, selection, context) ==
  [contract |-> contract, selection |-> selection, context |-> context]

Series == Candidate("series", LatestOrigin, NoContext)
Tabular == Candidate("tabular", AllOrigins, NoContext)
Sequences == Candidate("sequences", AllOrigins, 1)
Standings == Candidate("standing", AllOrigins, NoContext)

Lists == {<<Series, Tabular>>, <<Sequences, Standings, Standings>>}

Rolling(windows, stride) == [mode |-> "rolling", windows |-> windows, stride |-> stride]
AtOrigins(selection) == [mode |-> "origins", origins |-> selection]

EveryValidation ==
  {Rolling(2, Horizon), Rolling(2, 1), AtOrigins(AllOrigins),
   AtOrigins(Between(2 * Period, LastMoment - Period))}
=============================================================================
