------------------------------ MODULE Recipes ------------------------------
(***************************************************************************)
(* Recipes (recipes/nodes.py, recipes/base.py), and how the engine takes   *)
(* one apart into the models it is made of and puts their answers back     *)
(* together (runtime/engine.py).                                           *)
(*                                                                         *)
(*   [kind: "model", ref]                                                  *)
(*   [kind: "ensemble", models, weights]   weights are Equal if not given  *)
(*   [kind: "pipeline", transforms, estimator]                             *)
(*   [kind: "reduction", ref]                                              *)
(*                                                                         *)
(* A transform is [kind, columns, per_instance], and its columns           *)
(* [role, names]: "targets", "features", or "named" for the names.         *)
(***************************************************************************)
EXTENDS Integers, SequencesExt

CONSTANT RecipeSet    (* the recipes considered, with all of their members *)

Equal == <<>>

MembersOf(r) ==
  CASE r.kind = "pipeline" -> {r.estimator}
    [] r.kind = "ensemble" -> {r.models[k] : k \in DOMAIN r.models}
    [] OTHER               -> {}

(* A recipe is built from recipes that exist, so that none is among its    *)
(* own members, however deep.                                              *)
ASSUME RecipeAssumption ==
  /\ \A r \in RecipeSet :
       /\ r.kind \in {"model", "reduction", "pipeline", "ensemble"}
       /\ r.kind = "ensemble" => r.models \in Seq(RecipeSet) /\ r.weights \in Seq(Int)
       /\ r.kind = "pipeline" => r.transforms \in Seq(Range(r.transforms))
       /\ MembersOf(r) \subseteq RecipeSet
  /\ \A S \in SUBSET RecipeSet : S # {} => \E r \in S : MembersOf(r) \cap S = {}

-----------------------------------------------------------------------------
(* What may be constructed.                                                *)

Named(transform) == transform.columns.role = "named"

MayOverlap(first, second) ==
  CASE Named(first) /\ Named(second)   -> first.columns.names \cap second.columns.names # {}
    [] ~Named(first) /\ ~Named(second) -> first.columns = second.columns
    [] OTHER                           -> TRUE

(* A column that was imputed has nothing missing left to indicate.         *)
IndicatorsComeFirst(transforms) ==
  \A j, k \in DOMAIN transforms :
    j < k /\ transforms[j].kind = "impute" /\ transforms[k].kind = "indicator"
      => ~MayOverlap(transforms[j], transforms[k])

IsRecipe(r) ==
  CASE r.kind = "ensemble" ->
         /\ Len(r.models) >= 2
         /\ r.weights # Equal =>
              Len(r.weights) = Len(r.models) /\ \A k \in DOMAIN r.weights : r.weights[k] > 0
    [] r.kind = "pipeline" ->
         r.estimator.kind # "pipeline" /\ IndicatorsComeFirst(r.transforms)
    [] OTHER -> TRUE

-----------------------------------------------------------------------------
(* Every model of a recipe in order, with the transforms of the pipelines  *)
(* around it.                                                              *)

Leaf(ref, transforms) == [ref |-> ref, transforms |-> transforms]

Within(transforms, leaf) == Leaf(leaf.ref, transforms \o leaf.transforms)

(* What the leaves of its members make of a recipe.                        *)
LeavesFrom(found, r) ==
  CASE r.kind \in {"model", "reduction"} -> <<Leaf(r.ref, <<>>)>>
    [] r.kind = "pipeline" ->
         [k \in DOMAIN found[r.estimator] |-> Within(r.transforms, found[r.estimator][k])]
    [] r.kind = "ensemble" ->
         FlattenSeq([k \in DOMAIN r.models |-> found[r.models[k]]])

Leaves[r \in RecipeSet] == LeavesFrom(Leaves, r)

(* A reduction is recorded and stored, and not executable.                 *)
ExecutableFrom(known, r) == r.kind # "reduction" /\ \A member \in MembersOf(r) : known[member]

Executable[r \in RecipeSet] == ExecutableFrom(Executable, r)

IsComposite(r) == r.kind # "model"

-----------------------------------------------------------------------------
(* Weights are fractions <<n, d>>. Those an ensemble is given are whole:   *)
(* only what they are to each other matters.                               *)

Times(a, b) == <<a[1] * b[1], a[2] * b[2]>>
Plus(a, b) == <<a[1] * b[2] + b[1] * a[2], a[2] * b[2]>>
SameShare(a, b) == a[1] * b[2] = b[1] * a[2]

(* Of the first members of a list: of none, of one, of two and so on.      *)
Totals(shares) ==
  LET total[k \in 0 .. Len(shares)] == IF k = 0 THEN <<0, 1>> ELSE Plus(total[k - 1], shares[k])
  IN total

Total(shares) == Totals(shares)[Len(shares)]

(* Mutant of NormalizedWeight: the weights are taken as they are. *)
GivenWeight(r, k) == IF r.weights = Equal THEN <<1, Len(r.models)>> ELSE <<r.weights[k], 1>>

NormalizedWeight(r, k) ==
  IF r.weights = Equal THEN <<1, Len(r.models)>>
  ELSE LET total == Total([j \in DOMAIN r.weights |-> <<r.weights[j], 1>>])
       IN <<r.weights[k] * total[2], total[1]>>

Weighted(weight, shares) == [j \in DOMAIN shares |-> Times(weight, shares[j])]

(* What each leaf contributes to the mean the answers are folded into,     *)
(* from what it contributes to the members of a recipe.                    *)
SharesFrom(found, r) ==
  CASE r.kind \in {"model", "reduction"} -> <<<<1, 1>>>>
    [] r.kind = "pipeline" -> found[r.estimator]
    [] r.kind = "ensemble" ->
         FlattenSeq([k \in DOMAIN r.models |-> Weighted(NormalizedWeight(r, k), found[r.models[k]])])

Shares[r \in RecipeSet] == SharesFrom(Shares, r)
=============================================================================
