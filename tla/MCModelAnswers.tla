--------------------------- MODULE MCModelAnswers ---------------------------
(* Instances of ModelAnswers for TLC. *)
EXTENDS ModelAnswers, TLC

CONSTANTS i, j    (* instances *)

Seen(instance, events) == {[instance |-> instance, event |-> t, measured |-> TRUE] : t \in events}

Frame(history) == [history |-> history, future |-> {}, static |-> {}]

(* Whole, with an instance that starts late, one that stops early, one     *)
(* with a gap, and one that is not measured once.                          *)
Whole == Frame(Seen(i, 1 .. 6) \cup Seen(j, 1 .. 6))
Late == Frame(Seen(i, 1 .. 6) \cup Seen(j, 5 .. 6))
Early == Frame(Seen(i, 1 .. 6) \cup Seen(j, 1 .. 4))
Gap == Frame(Seen(i, 1 .. 6) \cup Seen(j, {1, 2, 4, 5, 6}))
Unmeasured == Frame(Seen(i, 1 .. 6) \cup Seen(j, {1, 2, 4, 5, 6})
                    \cup {[instance |-> j, event |-> 3, measured |-> FALSE]})

AllWorlds == {Whole, Late, Early, Gap, Unmeasured}

AllOrigins(stride) == [mode |-> "all", stride |-> stride]
AnySelection == {AllOrigins(1), AllOrigins(2)}

AnyOutput == {[kind |-> "point", levels |-> {}], [kind |-> "quantiles", levels |-> {10, 50, 80}],
              [kind |-> "samples", levels |-> {}]}

AnyRoles == {{}, {"known"}, {"known", "static"}}

-----------------------------------------------------------------------------
(* The libraries: for every one, a class that is offered beside those that *)
(* were written by hand, and classes that are not.                         *)
Native(types, choices, default) == [types |-> types, choices |-> choices, default |-> default]
Typed(type) == Native({type}, {}, Number(1))
Untyped(default) == Native({}, {}, default)
Opaque == [type |-> "opaque", size |-> 0]

Trains == ("hidden_dim" :> Typed("integer")) @@ ("model" :> Native({"string", "object"}, {}, Word(1)))

StatsClass(name, constructor) ==
  [name |-> name, excluded |-> FALSE, forecasts |-> TRUE, constructor |-> constructor]
NeuralClass(name, constructor) ==
  [name |-> name, multivariate |-> FALSE, roles |-> {"known"}, constructor |-> constructor]
DartsClass(name, base, constructor) ==
  [name |-> name, base |-> base, pretrained |-> FALSE, probed |-> TRUE, roles |-> {"known"},
   constructor |-> constructor]
SktimeClass(name, constructor) ==
  [name |-> name, requires_fh_in_fit |-> FALSE, installed |-> TRUE, multivariate |-> FALSE,
   constructor |-> constructor]
SklearnClass(name, constructor) ==
  [name |-> name, probed |-> TRUE, two_d_array |-> TRUE, single_output |-> TRUE, constructor |-> constructor]

Chunk == "input_chunk_length" :> Native({"integer"}, {}, NoDefault)

Installed ==
  [ statsforecast  |-> << StatsClass("autoarima", NoParams),
                          StatsClass("autoets", "season_length" :> Typed("integer")),
                          StatsClass("sklearnmodel", "model" :> Untyped(NoDefault)) >>,
    neuralforecast |-> << [NeuralClass("timesmixer", NoParams) EXCEPT !.multivariate = TRUE] >>,
    darts          |-> << DartsClass("kalman", "global", NoParams),
                          DartsClass("rnn", "global", Chunk @@ Trains),
                          [DartsClass("chronos2", "global", Chunk) EXCEPT !.pretrained = TRUE] >>,
    sktime         |-> << SktimeClass("croston", "smoothing" :> Untyped(Number(0))),
                          SktimeClass("croston", NoParams),
                          SktimeClass("naive", "window_length" :> Untyped(Number(10))),
                          SktimeClass("bagging", "forecaster" :> Untyped(Opaque)),
                          [SktimeClass("rbf", NoParams) EXCEPT !.requires_fh_in_fit = TRUE] >>,
    sklearn        |-> << SklearnClass("ridge", ("alpha" :> Typed("number")) @@ ("random_state" :> Untyped(NoDefault))),
                          SklearnClass("voting", "estimators" :> Native({}, {Opaque}, NoDefault)) >> ]

(* No parameters, some of the right kind, and some that are not.           *)
No == [type |-> "boolean", size |-> 0]
AnyBag ==
  { NoParams, [season_length |-> Number(2)], [season_length |-> Number(0)], [season_length |-> No],
    [deseasonalize |-> No], [activation |-> Word(3)], [max_bins |-> Number(256)],
    [model |-> Word(2)], [model |-> Number(2)], [input_size |-> Number(3)], [random_state |-> Number(7)],
    [window_length |-> Number(3)] }
=============================================================================
