-------------------------- MODULE FittedTransforms --------------------------
(***************************************************************************)
(* The transforms of one model (runtime/transforms.py): what is fitted,    *)
(* where it applies, and what undoes it.                                   *)
(*                                                                         *)
(* A fitted step is [per_instance, columns, keys]: the columns it scales   *)
(* and the keys it has statistics of, instances or all of them at once.    *)
(* The numbers are left out. What a value has been through is its scale,   *)
(* the sequence of the statistics it was centered and scaled by.           *)
(***************************************************************************)
EXTENDS Recipes, ModelDescriptors

CONSTANTS
  Pooled,        (* the key of the statistics of all instances at once     *)
  KeysSurvive    (* whether the instance keys are of a type that JSON      *)
                 (* gives back as it was given: a date is not              *)

ASSUME TransformAssumption == KeysSurvive \in BOOLEAN

Columns(transform, view) ==
  CASE transform.columns.role = "targets"  -> view.targets
    [] transform.columns.role = "features" -> NamesOf({f \in view.features : f.role # "static"})
    [] OTHER                               -> transform.columns.names

ColumnsOf(view) == view.targets \cup NamesOf({f \in view.features : f.role # "static"})

(* A scaler is the only transform that runs, and it runs on no tabular     *)
(* view, on no column the view does not have, and not on none.             *)
Fits(transform, view) ==
  /\ transform.kind = "scaler"
  /\ view.request.view # "tabular"
  /\ Columns(transform, view) \in (SUBSET ColumnsOf(view)) \ {{}}

FitStep(transform, view) ==
  [ per_instance |-> transform.per_instance,
    columns      |-> Columns(transform, view),
    keys         |-> IF transform.per_instance THEN view.instances ELSE {Pooled} ]

FitAll(transforms, view) == [k \in DOMAIN transforms |-> FitStep(transforms[k], view)]

(* transforms.json, written and read back.                                 *)
Stored(steps) ==
  [k \in DOMAIN steps |->
     IF steps[k].per_instance /\ ~KeysSurvive THEN [steps[k] EXCEPT !.keys = {}] ELSE steps[k]]

-----------------------------------------------------------------------------
KeyFor(step, instance) == IF step.per_instance THEN instance ELSE Pooled

Touches(step, cell) ==
  cell.column \in step.columns /\ KeyFor(step, cell.instance) \in step.keys

Statistics(steps, k, cell) == [step |-> k, key |-> KeyFor(steps[k], cell.instance)]

(* What each of the steps does to a value: nothing, or centers and scales  *)
(* it by one of its statistics.                                            *)
Passes(steps, cell) ==
  [k \in DOMAIN steps |-> IF Touches(steps[k], cell) THEN <<Statistics(steps, k, cell)>> ELSE <<>>]

(* The scale of a value that every step was applied to, in order.          *)
ScaleOf(steps, cell) == FlattenSeq(Passes(steps, cell))

Undone(scale, statistics) ==
  IF scale # <<>> /\ Last(scale) = statistics THEN Front(scale)
  ELSE Append(scale, [undone |-> statistics])

Undo(pass, scale) == IF pass = <<>> THEN scale ELSE Undone(scale, pass[1])

(* Mutant of Inverted: the steps are undone in the order they were applied. *)
InvertedInOrder(steps, cell, scale) ==
  FoldLeft(LAMBDA rest, pass : Undo(pass, rest), scale, Passes(steps, cell))

(* The steps undone, the last one first.                                   *)
Inverted(steps, cell, scale) == FoldRight(Undo, Passes(steps, cell), scale)
=============================================================================
