------------------------------ MODULE MCScores ------------------------------
(* Instances of Scores for TLC. *)
EXTENDS Scores

CONSTANTS a, b    (* instances *)

Cell(instance, step) == [instance |-> instance, step |-> step, target |-> "y"]
Two == {Cell(a, 1), Cell(b, 1)}

Outcome(first, second) == (Cell(a, 1) :> first) @@ (Cell(b, 1) :> second)

(* An outcome that is null, one that is missing, one of zero; and one fold *)
(* with one outcome, of which a candidate may answer too little to score.  *)
SomeTruths == {<<Outcome(1, 2), Outcome(2, None)>>, <<Cell(a, 1) :> 1, Outcome(0, 2)>>,
               <<Outcome(1, None)>>}

Metric(kind, level) == [kind |-> kind, level |-> level]

Means == <<Metric("mae", None), Metric("bias", None)>>
Percent == <<Metric("mape", None)>>
Interval == <<Metric("coverage", 8), Metric("mae", None)>>
Widths == <<Metric("interval_width", 8), Metric("pinball", 9)>>
Odd == <<Metric("pinball", 3)>>
Repeated == <<Metric("mae", None), Metric("mae", None)>>

Points == [kind |-> "point", levels |-> {}]
Quantiles(levels) == [kind |-> "quantiles", levels |-> levels]
Paths == [kind |-> "samples", levels |-> {}]

Entry(label, slug, kind) ==
  [label |-> label, slug |-> slug, kind |-> kind, views |-> {"series"},
   plan |-> None, params |-> FALSE, pinned |-> FALSE]

(* Two labels of one slug; a standing candidate; a label that is repeated. *)
Clash == <<Entry("x y", "x-y", "recipe"), Entry("x-y", "x-y", "recipe")>>
Frozen == <<Entry("x", "x", "recipe"), Entry("z", "z", "revision")>>
Same == <<Entry("x", "x", "recipe"), Entry("x", "x", "pretrained")>>

(* Plans: one of its own beside one that takes the template, for a model   *)
(* of sequences and for one of series; a plan for a model that is never    *)
(* fitted, parameters for another; and a revision inside a recipe.         *)
Window == [context |-> 2]
Planned == <<[Entry("x", "x", "recipe") EXCEPT !.plan = [context |-> 3], !.views = {"sequences"}],
             [Entry("z", "z", "recipe") EXCEPT !.views = {"series", "sequences"}]>>
Adapted == <<Entry("x", "x", "recipe"), Entry("z", "z", "pretrained")>>
Overdone == <<Entry("x", "x", "recipe"), [Entry("z", "z", "pretrained") EXCEPT !.plan = Window]>>
Extra == <<[Entry("z", "z", "revision") EXCEPT !.params = TRUE]>>
Inside == <<[Entry("x", "x", "recipe") EXCEPT !.pinned = TRUE]>>

Call(list, form, entries) == [metrics |-> list, output |-> form, plan |-> None, models |-> entries]
Under(plan, entries) == [metrics |-> <<Means[1]>>, output |-> Points, plan |-> plan, models |-> entries]

Wide == Quantiles({1, 5, 9})
High == Quantiles({5, 9})

Asked == {Call(Means, Points, Clash), Call(Percent, Points, Frozen), Call(Repeated, Points, Frozen),
          Call(Interval, Wide, Clash), Call(Interval, Wide, Same), Call(Widths, Wide, Frozen),
          Call(Widths, High, Frozen), Call(Odd, Wide, Clash), Call(Odd, Paths, Clash),
          Call(Interval, Paths, Frozen), Call(Interval, Points, Frozen),
          Call(Means, Quantiles({1, 9}), Frozen),
          Under(Window, Planned), Under(Window, Adapted), Under(None, Overdone), Under(None, Extra),
          Under(None, Inside)}

Forecasts == {Outcome(0, 2), Outcome(2, 1)}
=============================================================================
