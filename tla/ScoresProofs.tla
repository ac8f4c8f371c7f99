---------------------------- MODULE ScoresProofs ----------------------------
(***************************************************************************)
(* For any candidates, metrics, folds and forecasts, what the rows of a    *)
(* backtest name is what they were computed with, and what was asked for   *)
(* is measured.                                                            *)
(*                                                                         *)
(* The inductive invariants are ScoresInv, which says that whoever is      *)
(* evaluated is one of the candidates, and that what it forecasts with     *)
(* (ExecutedInv), like the artifact of every row so far (RowsInv), is its  *)
(* own; and MeasuredInv, which says that every metric can be scored once   *)
(* the folds are run, and that every row counts what is known.             *)
(***************************************************************************)
EXTENDS Scores, TLAPS, WellFoundedInduction, FiniteSetTheorems, FunctionTheorems

-----------------------------------------------------------------------------
(* The artifact of a row.                                                  *)

IsList(s) == \E X : s \in Seq(X)

(* What one of the candidates forecasts with at a fold: itself, or a       *)
(* revision that was published for it there.                               *)
IsOwn(ref, label, f) ==
  IF ref.revision = "standing"
  THEN ref.id = label /\ StandsAsGiven(label)
  ELSE /\ ref.revision = "pinned" /\ ref.id \in DOMAIN published
       /\ FittedAsGiven(published[ref.id], [model |-> label, fold |-> f])

CallInv ==
  /\ models \in Seq(Range(models)) /\ metrics \in Seq(Range(metrics))
  /\ template # None => "context" \in DOMAIN template
  /\ \A k \in DOMAIN models : models[k].kind \in {"recipe", "revision", "pretrained"}
  /\ candidate \in DOMAIN models
  /\ IsList(rows) /\ IsList(published)

ExecutedInv == executed # NotExecuted => IsOwn(executed, Model.label, fold)

RowsInv == \A k \in DOMAIN rows : IsOwn(rows[k].artifact, rows[k].model, rows[k].fold)

ScoresInv == CallInv /\ ExecutedInv /\ RowsInv

(* A list that something is added to is a list.                            *)
LEMMA ListsGrow ==
  ASSUME NEW s, IsList(s), NEW x
  PROVE  /\ DOMAIN s = 1 .. Len(s) /\ Len(s) \in Nat
         /\ IsList(Append(s, x))
         /\ DOMAIN Append(s, x) = 1 .. Len(s) + 1 /\ Len(Append(s, x)) = Len(s) + 1
         /\ Append(s, x)[Len(s) + 1] = x
         /\ \A k \in DOMAIN s : Append(s, x)[k] = s[k]
<1>1. PICK X : s \in Seq(X)
  BY DEF IsList
<1>2. DOMAIN s = 1 .. Len(s) /\ Len(s) \in Nat
  BY <1>1
<1> DEFINE Y == X \cup {x}
<1>3. s \in Seq(Y) /\ x \in Y
  BY <1>1
<1> HIDE DEF Y
<1>4. Append(s, x) \in Seq(Y) /\ Len(Append(s, x)) = Len(s) + 1
  BY <1>3
<1>5. \A k \in 1 .. Len(s) + 1 : Append(s, x)[k] = IF k <= Len(s) THEN s[k] ELSE x
  BY <1>3
<1> QED BY <1>2, <1>4, <1>5 DEF IsList

(* What two lists hold one after the other is what one of them holds.      *)
HoldsBoth(u, s, t) ==
  /\ \A k \in DOMAIN u : (k \in DOMAIN s /\ u[k] = s[k]) \/ \E j \in DOMAIN t : u[k] = t[j]
  /\ \A k \in DOMAIN s : k \in DOMAIN u /\ u[k] = s[k]
  /\ \A j \in DOMAIN t : \E k \in DOMAIN u : u[k] = t[j]

LEMMA ListsJoin ==
  ASSUME NEW s, IsList(s), NEW t, IsList(t)
  PROVE  IsList(s \o t) /\ HoldsBoth(s \o t, s, t)
<1>1. PICK X, Z : s \in Seq(X) /\ t \in Seq(Z)
  BY DEF IsList
<1> DEFINE Y == X \cup Z
           u == s \o t
           m == Len(s)
           n == Len(t)
<1>2. s \in Seq(Y) /\ t \in Seq(Y)
  BY <1>1
<1> HIDE DEF Y
<1>3. /\ u \in Seq(Y) /\ m \in Nat /\ n \in Nat /\ DOMAIN u = 1 .. m + n
      /\ DOMAIN s = 1 .. m /\ DOMAIN t = 1 .. n
      /\ \A k \in 1 .. m : u[k] = s[k]
      /\ \A k \in 1 .. n : u[m + k] = t[k]
  BY <1>2
<1> HIDE DEF u, m, n
<1>4. ASSUME NEW k \in DOMAIN u
      PROVE  (k \in DOMAIN s /\ u[k] = s[k]) \/ \E j \in DOMAIN t : u[k] = t[j]
  <2>1. CASE k <= m
    BY <1>3, <2>1
  <2>2. CASE k > m
    <3>1. k - m \in 1 .. n /\ m + (k - m) = k
      BY <1>3, <2>2
    <3>2. u[k] = t[k - m]
      BY <1>3, <3>1
    <3> QED BY <1>3, <3>1, <3>2
  <2> QED BY <1>3, <2>1, <2>2
<1>5. \A k \in DOMAIN s : k \in DOMAIN u /\ u[k] = s[k]
  BY <1>3
<1>6. \A j \in DOMAIN t : m + j \in DOMAIN u /\ u[m + j] = t[j]
  BY <1>3
<1> QED BY <1>3, <1>4, <1>5, <1>6 DEF u, IsList, HoldsBoth

(* What belongs to a candidate still does when more is published.          *)
LEMMA OwnStays ==
  ASSUME UNCHANGED models, NEW ref, NEW label, NEW f, IsOwn(ref, label, f),
         DOMAIN published \subseteq DOMAIN published',
         \A id \in DOMAIN published : published'[id] = published[id]
  PROVE  IsOwn(ref, label, f)'
BY DEF IsOwn, StandsAsGiven, FittedAsGiven

(* A fit is of the candidate, under its own plan or the template's.        *)
LEMMA FitIsOwn ==
  ASSUME CallInv, Fit
  PROVE  ExecutedInv' /\ IsList(published')
         /\ DOMAIN published \subseteq DOMAIN published'
         /\ \A id \in DOMAIN published : published'[id] = published[id]
<1>1. PICK own, c, f : own = Model /\ c = candidate /\ f = fold
  OBVIOUS
<1>2. /\ models' = models /\ candidate' = c /\ candidate = c /\ fold' = f /\ fold = f
      /\ c \in DOMAIN models /\ own = models[c] /\ ~RejectsSettings(own)
      /\ own.kind \in {"recipe", "revision", "pretrained"} /\ IsList(published)
  BY <1>1 DEF Fit, asked, CallInv, Model
<1>3. Model' = own
  BY <1>2 DEF Model
<1>4. CASE Standing(own)
  <2>1. executed' = [revision |-> "standing", id |-> own.label] /\ published' = published
    BY <1>1, <1>4 DEF Fit
  <2>2. own.kind # "recipe" /\ own.plan = None /\ ~own.params
    BY <1>2, <1>4 DEF RejectsSettings, Standing
  <2>3. StandsAsGiven(own.label)
    BY <1>2, <2>2 DEF StandsAsGiven
  <2>4. StandsAsGiven(own.label)'
    BY <1>2, <2>3 DEF StandsAsGiven
  <2>5. executed'.revision = "standing" /\ executed'.id = own.label
    BY <2>1
  <2>6. IsOwn(executed, Model.label, fold)'
    BY <1>2, <1>3, <2>4, <2>5 DEF IsOwn
  <2> QED BY <1>2, <1>3, <2>1, <2>6 DEF ExecutedInv
<1>5. CASE ~Standing(own)
  <2>1. PICK one, n, row : /\ one = [model |-> own.label, fold |-> f, plan |-> PlanFor(own)]
                           /\ n = Len(published) + 1 /\ row = [model |-> own.label, fold |-> f]
    OBVIOUS
  <2>2. published' = Append(published, one) /\ executed' = Described(Len(published'))
    BY <1>1, <1>5, <2>1 DEF Fit
  <2>3. /\ own.kind = "recipe" /\ one.model = own.label /\ one.fold = f /\ one.plan = PlanFor(own)
        /\ row.model = own.label /\ row.fold = f
    BY <1>2, <1>5, <2>1 DEF Standing
  <2>4. /\ n \in DOMAIN published' /\ published'[n] = one /\ Len(published') = n /\ IsList(published')
        /\ DOMAIN published \subseteq DOMAIN published'
        /\ \A id \in DOMAIN published : published'[id] = published[id]
    <3>1. PICK s, t : s = published /\ t = published'
      OBVIOUS
    <3>2. IsList(s) /\ t = Append(s, one) /\ n = Len(s) + 1
      BY <1>2, <2>1, <2>2, <3>1
    <3>3. DOMAIN s = 1 .. Len(s) /\ Len(s) \in Nat
      BY <3>2, ListsGrow
    <3>4. /\ IsList(t) /\ DOMAIN t = 1 .. n /\ Len(t) = n /\ t[n] = one
          /\ \A id \in DOMAIN s : t[id] = s[id]
      BY <3>2, ListsGrow
    <3> QED BY <3>1, <3>2, <3>3, <3>4
  <2>5. one.plan = own.plan \/ own.plan = None
    BY <2>3 DEF PlanFor
  <2>6. one.plan # None /\ one.plan.context # None => one.plan = own.plan \/ "sequences" \in own.views
    <3>1. template # None => [template EXCEPT !.context = None].context = None
      BY DEF CallInv
    <3> QED BY <2>3, <3>1 DEF PlanFor
  <2>7. FittedAsGiven(one, row)
    BY <1>2, <2>3, <2>5, <2>6 DEF FittedAsGiven
  <2>8. FittedAsGiven(one, row)'
    BY <1>2, <2>7 DEF FittedAsGiven
  <2>9. executed'.revision = "pinned" /\ executed'.id = n
    BY <2>2, <2>4 DEF Described
  <2>10. IsOwn(executed, Model.label, fold)'
    BY <1>2, <1>3, <2>1, <2>4, <2>8, <2>9 DEF IsOwn
  <2> QED BY <1>2, <1>3, <2>4, <2>10 DEF ExecutedInv
<1> QED BY <1>4, <1>5

(* What is forecast is scored in rows that name what it was forecast with. *)
LEMMA ForecastIsOwn ==
  ASSUME ScoresInv, Forecast
  PROVE  /\ UNCHANGED <<models, published>>
         /\ candidate' \in DOMAIN models /\ ExecutedInv' /\ IsList(rows')
         /\ \A k \in DOMAIN rows' : IsOwn(rows'[k].artifact, rows'[k].model, rows'[k].fold)
<1>1. /\ UNCHANGED <<models, published>> /\ executed # NotExecuted
      /\ IsList(rows) /\ candidate \in DOMAIN models /\ models \in Seq(Range(models))
      /\ metrics \in Seq(Range(metrics))
      /\ IsOwn(executed, Model.label, fold)
      /\ \A k \in DOMAIN rows : IsOwn(rows[k].artifact, rows[k].model, rows[k].fold)
  BY DEF Forecast, asked, ScoresInv, CallInv, ExecutedInv, RowsInv
<1>2. CASE UNCHANGED <<candidate, fold, executed, rows>>
  <2>1. ExecutedInv'
    BY <1>1, <1>2 DEF ExecutedInv, IsOwn, Model, StandsAsGiven, FittedAsGiven
  <2> QED BY <1>1, <1>2, <2>1
<1>3. ASSUME NEW scored, Advance,
             rows' = rows \o [k \in DOMAIN metrics |-> MetricRow(metrics[k], Measure(metrics[k], scored))]
      PROVE  /\ candidate' \in DOMAIN models /\ ExecutedInv' /\ IsList(rows')
             /\ \A k \in DOMAIN rows' : IsOwn(rows'[k].artifact, rows'[k].model, rows'[k].fold)
  <2>1. PICK s, t : s = rows /\ t = [k \in DOMAIN metrics |-> MetricRow(metrics[k], Measure(metrics[k], scored))]
    OBVIOUS
  <2>2. IsList(s) /\ rows' = s \o t
    BY <1>1, <1>3, <2>1
  <2>3. IsList(t)
    <3>1. DOMAIN metrics = 1 .. Len(metrics) /\ Len(metrics) \in Nat
      BY <1>1
    <3>2. t \in Seq({t[k] : k \in DOMAIN metrics})
      BY <2>1, <3>1
    <3> QED BY <3>2 DEF IsList
  <2>4. \A k \in DOMAIN t : t[k].artifact = executed /\ t[k].model = Model.label /\ t[k].fold = fold
    BY <2>1 DEF MetricRow
  <2>5. IsList(s \o t) /\ HoldsBoth(s \o t, s, t)
    BY <2>2, <2>3, ListsJoin
  <2>6. ASSUME NEW k \in DOMAIN (s \o t)
        PROVE  IsOwn((s \o t)[k].artifact, (s \o t)[k].model, (s \o t)[k].fold)
    <3>1. CASE k \in DOMAIN s /\ (s \o t)[k] = s[k]
      BY <1>1, <2>1, <3>1
    <3>2. CASE \E j \in DOMAIN t : (s \o t)[k] = t[j]
      BY <1>1, <2>4, <3>2
    <3> QED BY <2>5, <3>1, <3>2 DEF HoldsBoth
  <2>7. candidate' \in DOMAIN models /\ executed' = NotExecuted
    BY <1>1, <1>3 DEF Advance
  <2> QED BY <2>2, <2>5, <2>6, <2>7 DEF ExecutedInv
<1> DEFINE fails(scored) == \/ DOMAIN scored = {}
                            \/ \E k \in DOMAIN metrics : IsUndefined(metrics[k], scored)
<1>4. \E scored : IF fails(scored) THEN UNCHANGED <<candidate, fold, executed, rows>>
                  ELSE /\ rows' = rows \o [k \in DOMAIN metrics |->
                                             MetricRow(metrics[k], Measure(metrics[k], scored))]
                       /\ Advance
  BY DEF Forecast
<1> QED BY <1>1, <1>2, <1>3, <1>4

(* Nothing but a forecast adds a row, and a row keeps what it names.       *)
LEMMA ScoresInvHolds == Spec => []ScoresInv
<1>1. Init => ScoresInv
  <2> SUFFICES ASSUME Init PROVE ScoresInv
    OBVIOUS
  <2>1. PICK call \in Calls : /\ metrics = call.metrics /\ template = call.plan /\ models = call.models
    BY DEF Init
  <2>2. /\ rows = <<>> /\ published = <<>> /\ candidate = 1 /\ executed = NotExecuted
    BY DEF Init
  <2>3. /\ models \in Seq(Range(models)) \ {<<>>} /\ metrics \in Seq(Range(metrics))
        /\ template # None => "context" \in DOMAIN template
        /\ \A k \in DOMAIN models : models[k].kind \in {"recipe", "revision", "pretrained"}
    BY <2>1, ScoresAssumption
  <2>4. candidate \in DOMAIN models
    BY <2>2, <2>3
  <2>5. IsList(rows) /\ IsList(published) /\ DOMAIN rows = {}
    BY <2>2 DEF IsList
  <2> QED BY <2>2, <2>3, <2>4, <2>5 DEF ScoresInv, CallInv, ExecutedInv, RowsInv
<1>2. ScoresInv /\ [Next]_vars => ScoresInv'
  <2> SUFFICES ASSUME ScoresInv, [Next]_vars PROVE ScoresInv'
    OBVIOUS
  <2>1. UNCHANGED <<metrics, template, models>>
    BY DEF Next, vars, asked, Check, SettingsRejected, Fit, Forecast, Raises
  <2>2. CASE UNCHANGED <<candidate, fold, executed, published, rows>>
    BY <2>1, <2>2 DEF ScoresInv, CallInv, ExecutedInv, RowsInv, IsOwn, Model, StandsAsGiven, FittedAsGiven, Range
  <2>3. CASE Fit
    <3>1. /\ ExecutedInv' /\ IsList(published') /\ DOMAIN published \subseteq DOMAIN published'
          /\ \A id \in DOMAIN published : published'[id] = published[id]
      BY <2>3, FitIsOwn DEF ScoresInv
    <3>2. UNCHANGED <<candidate, rows>>
      BY <2>3 DEF Fit
    <3>3. RowsInv'
      BY <2>1, <3>1, <3>2, OwnStays DEF ScoresInv, RowsInv
    <3> QED BY <2>1, <3>1, <3>2, <3>3 DEF ScoresInv, CallInv, Range
  <2>4. CASE Forecast
    <3>1. /\ UNCHANGED <<models, published>>
          /\ candidate' \in DOMAIN models /\ ExecutedInv' /\ IsList(rows')
          /\ \A k \in DOMAIN rows' : IsOwn(rows'[k].artifact, rows'[k].model, rows'[k].fold)
      BY <2>4, ForecastIsOwn
    <3>2. RowsInv'
      BY <3>1, OwnStays DEF RowsInv
    <3> QED BY <2>1, <3>1, <3>2 DEF ScoresInv, CallInv, Range
  <2> QED BY <2>2, <2>3, <2>4 DEF Next, vars, Check, SettingsRejected, Raises
<1> QED BY <1>1, <1>2, PTL DEF Spec

(* However many candidates, folds and metrics there are and whatever is    *)
(* forecast, the artifact a row names when a backtest is over is the one   *)
(* its own candidate was fitted into on that fold, as its caller           *)
(* configured it, or the candidate itself when that stands and nothing     *)
(* was to configure it. backtest.py:325-344, 562-599, 699-711.             *)
THEOREM WinnersAreReproducible == Spec => []WinnerIsReproducible
<1>1. ScoresInv => WinnerIsReproducible
  <2> SUFFICES ASSUME ScoresInv, NEW k \in DOMAIN rows
               PROVE  LET ref == rows[k].artifact
                      IN IF ref.revision = "standing"
                         THEN ref.id = rows[k].model /\ StandsAsGiven(ref.id)
                         ELSE Resolved(ref) \in DOMAIN published /\ FittedAsGiven(published[Resolved(ref)], rows[k])
    BY DEF WinnerIsReproducible
  <2>1. IsOwn(rows[k].artifact, rows[k].model, rows[k].fold)
    BY DEF ScoresInv, RowsInv
  <2> QED BY <2>1 DEF IsOwn, Resolved, FittedAsGiven
<1> QED BY <1>1, ScoresInvHolds, PTL

-----------------------------------------------------------------------------
(* What a forecast can be scored by.                                       *)

(* A set of naturals that is not empty has a least one.                    *)
LEMMA LeastNumber ==
  ASSUME NEW S, S \subseteq Nat, S # {}
  PROVE  \E least \in S : \A t \in S : least <= t
<1> DEFINE Below == OpToRel(<, Nat)
<1>1. IsWellFoundedOn(Below, Nat)
  BY NatLessThanWellFounded
<1>2. PICK least \in S : \A t \in S : ~(<<t, least>> \in Below)
  <2> HIDE DEF Below
  <2> QED BY <1>1, WFMin
<1>3. \A t \in S : ~(t < least)
  BY <1>2 DEF OpToRel
<1> QED BY <1>3

(* A finite set as a sequence holds all of its elements and no others.     *)
LEMMA ListOfSet ==
  ASSUME NEW S, IsFiniteSet(S)
  PROVE  /\ DOMAIN SetToSeq(S) = 1 .. Cardinality(S) /\ Cardinality(S) \in Nat
         /\ \A n \in DOMAIN SetToSeq(S) : SetToSeq(S)[n] \in S
         /\ \A x \in S : \E n \in DOMAIN SetToSeq(S) : SetToSeq(S)[n] = x
<1> DEFINE n == Cardinality(S)
           D == 1 .. n
           list == SetToSeq(S)
<1>1. n \in Nat /\ ExistsBijection(D, S)
  BY FS_CardinalityType
<1>2. PICK f : f \in Bijection(D, S)
  BY <1>1, Fun_ExistsBij DEF ExistsBijection
<1>3. f \in [D -> S] /\ \A j, k \in D : f[j] = f[k] => j = k
  <2> HIDE DEF D
  <2>1. f \in Injection(D, S)
    BY <1>2 DEF Bijection
  <2> QED BY <2>1 DEF Injection, IsInjective
<1>4. list \in [D -> S] /\ IsInjective(list)
  <2>1. list = CHOOSE g \in [D -> S] : IsInjective(g)
    BY DEF SetToSeq
  <2>2. IsInjective(f)
    BY <1>3 DEF IsInjective
  <2> HIDE DEF D, list
  <2> QED BY <1>3, <2>1, <2>2
<1>5. list \in Injection(D, S)
  <2> HIDE DEF D, list
  <2> QED BY <1>4 DEF Injection, IsInjective
<1>6. IsFiniteSet(D) /\ Cardinality(D) = Cardinality(S)
  BY <1>1, FS_Interval
<1> HIDE DEF D, list
<1>7. list \in Surjection(D, S)
  BY <1>5, <1>6, FS_Injection
<1>8. \A x \in S : \E k \in D : list[k] = x
  BY <1>7, Fun_SurjectionProperties
<1>9. DOMAIN list = D
  BY <1>4
<1> QED BY <1>1, <1>4, <1>8, <1>9 DEF list, D

(* The greatest of some of the first numbers is one of them.               *)
LEMMA MaxIsAMember ==
  ASSUME NEW n \in Nat, NEW S, S \subseteq 1 .. n, S # {}
  PROVE  Max(S) \in S
<1> DEFINE T == {n - x : x \in S}
<1>1. T \subseteq Nat /\ T # {}
  <2>1. \A x \in S : x \in Int /\ n - x \in Nat
    OBVIOUS
  <2> QED BY <2>1
<1>2. PICK least \in T : \A t \in T : least <= t
  BY <1>1, LeastNumber
<1>3. PICK x \in S : least = n - x
  BY <1>2
<1>4. \A y \in S : x >= y
  <2> SUFFICES ASSUME NEW y \in S PROVE x >= y
    OBVIOUS
  <2>1. n - x <= n - y
    BY <1>2, <1>3
  <2>2. x \in Int /\ y \in Int
    OBVIOUS
  <2> QED BY <2>1, <2>2
<1> QED BY <1>3, <1>4 DEF Max

IsOutput ==
  /\ output.kind \in {"point", "quantiles", "samples"}
  /\ IsFiniteSet(output.levels)

(* own are rows that say all parts of an output, and nothing else.         *)
Says(row, part) == row.kind = part.kind /\ row.level = part.quantile /\ row.draw = part.sample

SaysAll(sequence, own) ==
  /\ \A k \in own : sequence[k].predicted # None /\ \E part \in Parts : Says(sequence[k], part)
  /\ \A part \in Parts : \E k \in own : Says(sequence[k], part)

(* Rows that say all of an output can be scored by what was checked to be  *)
(* able to score it, and by nothing else.                                  *)
LEMMA CheckedIsScorable ==
  ASSUME NEW n \in Nat, NEW sequence, NEW own, own \subseteq 1 .. n, SaysAll(sequence, own), IsOutput,
         NEW m, IsMetric(m), Draws \in Nat \ {0}
  PROVE  CanScore(m, Gathered(sequence, own)) <=> Requirement(m, output)
<1> DEFINE p == Gathered(sequence, own)
           Of(kind) == {k \in own : sequence[k].kind = kind}
<1>1. /\ DOMAIN p.quantiles = {sequence[k].level : k \in Of("quantile")}
      /\ DOMAIN p.samples = {sequence[k].draw : k \in Of("sample")}
      /\ p.point = IF Of("point") = {} THEN None ELSE sequence[Max(Of("point"))].predicted
  BY DEF Gathered
<1>2. p.point = None <=> Of("point") = {}
  <2>1. ASSUME Of("point") # {} PROVE Max(Of("point")) \in own
    BY <2>1, MaxIsAMember
  <2> QED BY <1>1, <2>1 DEF SaysAll
<1> HIDE DEF p
<1> SUFFICES CanScore(m, p) <=> Requirement(m, output)
  BY DEF p
<1>3. LevelsOf(m) # {}
  BY DEF LevelsOf
<1>4. /\ \A k \in own : \E part \in Parts : Says(sequence[k], part)
      /\ \A part \in Parts : \E k \in own : Says(sequence[k], part)
  BY DEF SaysAll
<1>5. CASE output.kind = "point"
  <2> DEFINE part == [kind |-> "point", quantile |-> None, sample |-> None]
  <2>1. Parts = {part}
    BY <1>5 DEF Parts
  <2>2. PICK k \in own : sequence[k].kind = "point"
    BY <1>4, <2>1 DEF Says
  <2>3. \A j \in own : sequence[j].kind = "point"
    BY <1>4, <2>1 DEF Says
  <2>4. Of("point") # {} /\ Of("quantile") = {} /\ Of("sample") = {}
    BY <2>2, <2>3
  <2>5. p.point # None /\ DOMAIN p.quantiles = {} /\ DOMAIN p.samples = {}
    BY <1>1, <1>2, <2>4
  <2>6. \A level : ~Holds(p, level)
    BY <2>5 DEF Holds
  <2>7. HasPointEstimate(p)
    BY <2>5 DEF HasPointEstimate
  <2>8. ~(output.kind = "quantiles") /\ ~NeedsLevels(LevelsOf(m), output)
    BY <1>5 DEF NeedsLevels
  <2> QED BY <1>3, <2>6, <2>7, <2>8 DEF CanScore, Requirement
<1>6. CASE output.kind = "quantiles"
  <2> DEFINE part(l) == [kind |-> "quantile", quantile |-> l, sample |-> None]
  <2>1. Parts = {part(l) : l \in output.levels}
    BY <1>6 DEF Parts
  <2>2. \A k \in own : sequence[k].kind = "quantile" /\ sequence[k].level \in output.levels
    BY <1>4, <2>1 DEF Says
  <2>3. \A l \in output.levels : \E k \in own : sequence[k].kind = "quantile" /\ sequence[k].level = l
    <3>1. \A l \in output.levels : part(l) \in Parts
      BY <2>1
    <3> QED BY <1>4, <3>1 DEF Says
  <2>4. Of("point") = {} /\ Of("sample") = {}
    BY <2>2
  <2>5. {sequence[k].level : k \in Of("quantile")} = output.levels
    <3>1. Of("quantile") = own
      BY <2>2
    <3>2. {sequence[k].level : k \in own} = output.levels
      <4> DEFINE L == {sequence[k].level : k \in own}
      <4>1. ASSUME NEW l \in L PROVE l \in output.levels
        BY <2>2
      <4>2. ASSUME NEW l \in output.levels PROVE l \in L
        <5>1. PICK k \in own : sequence[k].level = l
          BY <2>3
        <5> QED BY <5>1
      <4> HIDE DEF L
      <4>3. L = output.levels
        BY <4>1, <4>2
      <4> QED BY <4>3 DEF L
    <3> QED BY <3>1, <3>2
  <2>6. p.point = None /\ DOMAIN p.quantiles = output.levels /\ DOMAIN p.samples = {}
    BY <1>1, <1>2, <2>4, <2>5
  <2>7. \A level : Holds(p, level) <=> level \in output.levels
    BY <2>6 DEF Holds
  <2>8. HasPointEstimate(p) <=> Median \in output.levels
    BY <2>6, <2>7 DEF HasPointEstimate
  <2>9. NeedsLevels(LevelsOf(m), output) <=> LevelsOf(m) \subseteq output.levels
    BY <1>6 DEF NeedsLevels
  <2> QED BY <1>6, <2>7, <2>8, <2>9 DEF CanScore, Requirement
<1>7. CASE output.kind = "samples"
  <2> DEFINE part(d) == [kind |-> "sample", quantile |-> None, sample |-> d]
  <2>1. Parts = {part(d) : d \in 0 .. Draws - 1}
    BY <1>7 DEF Parts
  <2>2. part(0) \in Parts
    BY <2>1
  <2>3. PICK k \in own : sequence[k].kind = "sample"
    BY <1>4, <2>2 DEF Says
  <2>4. DOMAIN p.samples # {}
    <3>1. k \in Of("sample")
      BY <2>3
    <3> HIDE DEF Of
    <3>2. sequence[k].draw \in DOMAIN p.samples
      BY <1>1, <3>1
    <3> QED BY <3>2
  <2>5. \A level : Holds(p, level)
    BY <2>4 DEF Holds
  <2>6. HasPointEstimate(p)
    BY <2>5 DEF HasPointEstimate
  <2>7. ~(output.kind = "quantiles") /\ NeedsLevels(LevelsOf(m), output)
    BY <1>7 DEF NeedsLevels
  <2> QED BY <2>5, <2>6, <2>7 DEF CanScore, Requirement
<1> QED BY <1>5, <1>6, <1>7 DEF IsOutput

(* There are finitely many parts, and so finitely many rows of a forecast. *)
LEMMA PartsAreFinite ==
  ASSUME IsOutput, Draws \in Nat \ {0}
  PROVE  IsFiniteSet(Parts)
<1>1. CASE output.kind = "point"
  <2>1. PICK one : Parts = {one}
    BY <1>1 DEF Parts
  <2>2. IsFiniteSet({one})
    BY FS_Singleton
  <2> QED BY <2>1, <2>2
<1>2. CASE output.kind = "quantiles"
  <2> DEFINE f == [l \in output.levels |-> [kind |-> "quantile", quantile |-> l, sample |-> None]]
  <2>1. Parts = {f[l] : l \in output.levels}
    BY <1>2 DEF Parts
  <2>2. f \in Surjection(output.levels, Parts)
    BY <2>1 DEF Surjection
  <2> QED BY <2>2, FS_Surjection DEF IsOutput
<1>3. CASE output.kind = "samples"
  <2> DEFINE D == 0 .. Draws - 1
             f == [d \in D |-> [kind |-> "sample", quantile |-> None, sample |-> d]]
  <2>1. Parts = {f[d] : d \in D}
    BY <1>3 DEF Parts
  <2>2. f \in Surjection(D, Parts)
    BY <2>1 DEF Surjection
  <2>3. IsFiniteSet(D)
    BY FS_Interval
  <2> QED BY <2>2, <2>3, FS_Surjection
<1> QED BY <1>1, <1>2, <1>3 DEF IsOutput

(* What a fold's truth is for.                                             *)
FoldInv ==
  /\ IsOutput
  /\ fold \in Nat /\ fold \in DOMAIN truths /\ DOMAIN truths[fold] \subseteq Cells

Named(cell) == <<Model.label, fold, cell.instance, fold, fold + cell.step, cell.target>>

(* Every row of a forecast is about a cell and says a part of it.          *)
LEMMA RowsAreOfPlaces ==
  ASSUME FoldInv, NEW numbers, NEW missing, NEW values, values = Values(Predicted(numbers, missing))
  PROVE  \E list :
           /\ \E n \in Nat : DOMAIN values = 1 .. n
           /\ DOMAIN Predicted(numbers, missing) = DOMAIN values
           /\ \A j \in DOMAIN values :
                /\ list[j] \in Places /\ list[j][1] \in Cells /\ list[j][2] \in Parts
                /\ values[j].outcome = Named(list[j][1]) /\ Says(values[j], list[j][2])
                /\ values[j].predicted = Predicted(numbers, missing)[j].prediction
                /\ values[j].predicted = IF list[j] \in missing THEN None
                                         ELSE numbers[list[j][1]] + Spread(list[j][2])
                /\ values[j].actual # None <=> list[j][1] \in Known(fold)
                /\ Predicted(numbers, missing)[j].model = Model.label
                /\ Predicted(numbers, missing)[j].fold = fold
           /\ \A place \in Places : \E j \in DOMAIN values : list[j] = place
<1> DEFINE list == SetToSeq(Places)
           found == Predicted(numbers, missing)
<1>1. IsFiniteSet(Places)
  BY PartsAreFinite, FS_Product, ScoresAssumption DEF Places, FoldInv
<1>2. /\ \E n \in Nat : DOMAIN list = 1 .. n
      /\ \A j \in DOMAIN list : list[j] \in Places
      /\ \A place \in Places : \E j \in DOMAIN list : list[j] = place
  BY <1>1, ListOfSet
<1>3. found = [j \in DOMAIN list |-> PredictionAt(list[j], numbers, missing)]
  BY DEF Predicted
<1> HIDE DEF list, found
<1>4. values = [j \in DOMAIN list |-> Value(found[j])]
  BY <1>3 DEF Values, found
<1>5. DOMAIN values = DOMAIN list /\ DOMAIN found = DOMAIN values
  BY <1>3, <1>4
<1>6. ASSUME NEW j \in DOMAIN list
      PROVE  /\ list[j] \in Places /\ list[j][1] \in Cells /\ list[j][2] \in Parts
             /\ values[j].outcome = Named(list[j][1]) /\ Says(values[j], list[j][2])
             /\ values[j].predicted = found[j].prediction
             /\ values[j].predicted = IF list[j] \in missing THEN None
                                      ELSE numbers[list[j][1]] + Spread(list[j][2])
             /\ values[j].actual # None <=> list[j][1] \in Known(fold)
             /\ found[j].model = Model.label /\ found[j].fold = fold
  <2>1. PICK cell, part, place : cell = list[j][1] /\ part = list[j][2] /\ place = list[j]
    OBVIOUS
  <2>2. place \in Places /\ cell \in Cells /\ part \in Parts
    BY <1>2, <2>1 DEF Places
  <2>3. values[j] = Value(PredictionAt(place, numbers, missing)) /\ found[j] = PredictionAt(place, numbers, missing)
    BY <1>3, <1>4, <2>1
  <2>4. /\ found[j].model = Model.label /\ found[j].fold = fold /\ found[j].keys = cell.instance
        /\ found[j].origin_time = fold /\ found[j].event_time = fold + cell.step /\ found[j].target = cell.target
        /\ found[j].kind = part.kind /\ found[j].quantile = part.quantile /\ found[j].sample = part.sample
        /\ found[j].prediction = (IF place \in missing THEN None ELSE numbers[cell] + Spread(part))
        /\ found[j].actual = (IF cell \in DOMAIN truths[fold] THEN truths[fold][cell] ELSE None)
    BY <2>1, <2>3 DEF PredictionAt
  <2>5. /\ values[j].outcome = Named(cell) /\ Says(values[j], part)
        /\ values[j].predicted = found[j].prediction /\ values[j].actual = found[j].actual
    BY <2>3, <2>4 DEF Value, Named, Says
  <2>6. values[j].actual # None <=> cell \in Known(fold)
    BY <2>4, <2>5 DEF Known
  <2> QED BY <2>1, <2>2, <2>4, <2>5, <2>6
<1> QED BY <1>2, <1>5, <1>6 DEF found

(* A forecast that left nothing out is scored in every outcome there is.   *)
LEMMA ScoredInFull ==
  ASSUME FoldInv, NEW numbers, NEW missing,
         \A j \in DOMAIN Predicted(numbers, missing) : Predicted(numbers, missing)[j].prediction # None,
         NEW scored, scored = PredictionsOf(Values(Predicted(numbers, missing))), DOMAIN scored # {},
         NEW m, IsMetric(m), Requirement(m, output)
  PROVE  /\ Measure(m, scored).pairs = Cardinality(Known(fold))
         /\ Measure(m, scored).pairs > 0
<1>1. PICK values : values = Values(Predicted(numbers, missing))
  OBVIOUS
<1>2. PICK list :
           /\ \E n \in Nat : DOMAIN values = 1 .. n
           /\ DOMAIN Predicted(numbers, missing) = DOMAIN values
           /\ \A j \in DOMAIN values :
                /\ list[j] \in Places /\ list[j][1] \in Cells /\ list[j][2] \in Parts
                /\ values[j].outcome = Named(list[j][1]) /\ Says(values[j], list[j][2])
                /\ values[j].predicted = Predicted(numbers, missing)[j].prediction
                /\ values[j].predicted = IF list[j] \in missing THEN None
                                         ELSE numbers[list[j][1]] + Spread(list[j][2])
                /\ values[j].actual # None <=> list[j][1] \in Known(fold)
                /\ Predicted(numbers, missing)[j].model = Model.label
                /\ Predicted(numbers, missing)[j].fold = fold
           /\ \A place \in Places : \E j \in DOMAIN values : list[j] = place
  BY <1>1, RowsAreOfPlaces
<1>3. PICK n \in Nat : DOMAIN values = 1 .. n
  BY <1>2
<1> DEFINE K == {j \in DOMAIN values : IsScorable(values[j])}
           Own(o) == {j \in K : values[j].outcome = o}
<1>4. \A j \in DOMAIN values : values[j].predicted # None
  BY <1>2
<1>5. K = {j \in DOMAIN values : list[j][1] \in Known(fold)}
  BY <1>2, <1>4 DEF IsScorable
<1>6. /\ DOMAIN scored = {values[j].outcome : j \in K}
      /\ \A o \in DOMAIN scored : scored[o] = Gathered(values, Own(o))
  BY <1>1 DEF PredictionsOf
<1> HIDE DEF K
<1>7. PICK one \in Parts : TRUE
  <2>1. PICK o : o \in DOMAIN scored
    OBVIOUS
  <2>2. PICK j \in K : values[j].outcome = o
    BY <1>6, <2>1
  <2> QED BY <1>2, <1>5, <2>2
<1>8. Known(fold) \subseteq Cells
  BY DEF Known, FoldInv
<1>9. \A c \in Known(fold), part \in Parts : \E j \in K : list[j] = <<c, part>> /\ list[j][1] = c /\ list[j][2] = part
  <2> SUFFICES ASSUME NEW c \in Known(fold), NEW part \in Parts
               PROVE  \E j \in K : list[j] = <<c, part>> /\ list[j][1] = c /\ list[j][2] = part
    OBVIOUS
  <2>1. <<c, part>> \in Places
    BY <1>8 DEF Places
  <2>2. PICK j \in DOMAIN values : list[j] = <<c, part>>
    BY <1>2, <2>1
  <2> QED BY <1>5, <2>2
<1>10. DOMAIN scored = {Named(c) : c \in Known(fold)}
  <2>1. \A j \in K : list[j][1] \in Known(fold) /\ values[j].outcome = Named(list[j][1])
    BY <1>2, <1>5
  <2>2. \A c \in Known(fold) : \E j \in K : values[j].outcome = Named(c)
    BY <1>7, <1>9, <2>1
  <2> QED BY <1>6, <2>1, <2>2
<1>11. \A c, d \in Cells : Named(c) = Named(d) => c = d
  <2> SUFFICES ASSUME NEW c \in Cells, NEW d \in Cells, Named(c) = Named(d) PROVE c = d
    OBVIOUS
  <2>1. c.instance = d.instance /\ fold + c.step = fold + d.step /\ c.target = d.target
    BY DEF Named
  <2>2. /\ c = [instance |-> c.instance, step |-> c.step, target |-> c.target] /\ c.step \in Nat
        /\ d = [instance |-> d.instance, step |-> d.step, target |-> d.target] /\ d.step \in Nat
    BY ScoresAssumption
  <2>3. c.step = d.step
    BY <2>1, <2>2 DEF FoldInv
  <2> QED BY <2>1, <2>2, <2>3
<1>12. ASSUME NEW c \in Known(fold) PROVE CanScore(m, scored[Named(c)])
  <2> DEFINE own == Own(Named(c))
  <2>1. \A j \in K : j \in own <=> list[j][1] = c
    BY <1>2, <1>5, <1>8, <1>11
  <2>2. own \subseteq K /\ own \subseteq 1 .. n
    BY <1>3, <1>5
  <2> HIDE DEF own
  <2>3. SaysAll(values, own)
    <3>1. \A k \in own : values[k].predicted # None /\ \E part \in Parts : Says(values[k], part)
      BY <1>2, <1>4, <1>5, <2>2
    <3>2. ASSUME NEW part \in Parts PROVE \E k \in own : Says(values[k], part)
      <4>1. PICK j \in K : list[j][1] = c /\ list[j][2] = part
        BY <1>9
      <4> QED BY <1>2, <1>5, <2>1, <4>1
    <3> QED BY <3>1, <3>2 DEF SaysAll
  <2>4. CanScore(m, Gathered(values, own))
    BY <2>2, <2>3, CheckedIsScorable, ScoresAssumption DEF FoldInv
  <2>5. scored[Named(c)] = Gathered(values, own)
    BY <1>6, <1>10 DEF own
  <2> QED BY <2>4, <2>5
<1>13. {o \in DOMAIN scored : CanScore(m, scored[o])} = DOMAIN scored
  BY <1>10, <1>12
<1>14. Measure(m, scored).pairs = Cardinality(DOMAIN scored)
  BY <1>13 DEF Measure
<1>15. IsFiniteSet(DOMAIN scored) /\ Cardinality(DOMAIN scored) = Cardinality(Known(fold))
  <2> DEFINE f == [c \in Known(fold) |-> Named(c)]
  <2>1. IsFiniteSet(Known(fold))
    BY <1>8, FS_Subset, ScoresAssumption
  <2>2. f \in [Known(fold) -> DOMAIN scored]
    BY <1>10
  <2>3. \A c, d \in Known(fold) : f[c] = f[d] => c = d
    BY <1>8, <1>11
  <2>4. \A o \in DOMAIN scored : \E c \in Known(fold) : f[c] = o
    BY <1>10
  <2> HIDE DEF f
  <2>5. f \in Bijection(Known(fold), DOMAIN scored)
    BY <2>2, <2>3, <2>4 DEF Bijection, Injection, Surjection, IsInjective
  <2>6. ExistsBijection(Known(fold), DOMAIN scored)
    BY <2>5 DEF ExistsBijection
  <2> QED BY <2>1, <2>6, FS_Bijection
<1>16. Cardinality(DOMAIN scored) \in Nat /\ Cardinality(DOMAIN scored) # 0
  BY <1>15, FS_CardinalityType, FS_EmptySet
<1> QED BY <1>14, <1>15, <1>16

-----------------------------------------------------------------------------
(* What was asked for is measured.                                         *)

Counted(row) ==
  IsWhole(row.model, row.fold) => row.pairs > 0 /\ row.pairs = Cardinality(Known(row.fold))

MeasuredInv ==
  /\ IsOutput /\ \A k \in DOMAIN metrics : IsMetric(metrics[k])
  /\ truths \in Seq(Range(truths)) /\ \A k \in DOMAIN truths : DOMAIN truths[k] \subseteq Cells
  /\ fold \in Nat /\ fold \in DOMAIN truths
  /\ phase \in {"asked", "refused"} \/ Measurable
  /\ phase = "refused" => ~Measurable \/ ~Evaluable
  /\ IsList(predictions)
  /\ \A k \in DOMAIN rows : Counted(rows[k])

(* Rows that are added make no other row whole.                            *)
LEMMA CountedStays ==
  ASSUME UNCHANGED truths, IsList(predictions), NEW t, IsList(t), predictions' = predictions \o t,
         NEW row, Counted(row)
  PROVE  Counted(row)'
<1>1. PICK label, f, s : label = row.model /\ f = row.fold /\ s = predictions
  OBVIOUS
<1>2. IsWhole(label, f)' => IsWhole(label, f)
  <2>1. HoldsBoth(s \o t, s, t)
    BY <1>1, ListsJoin
  <2> QED BY <1>1, <2>1 DEF IsWhole, HoldsBoth
<1>3. Known(f)' = Known(f)
  BY DEF Known
<1> QED BY <1>1, <1>2, <1>3 DEF Counted

(* The rows of a forecast count what is known, one for each metric.        *)
LEMMA ForecastIsCounted ==
  ASSUME ScoresInv, MeasuredInv, Forecast
  PROVE  /\ fold' \in Nat /\ fold' \in DOMAIN truths /\ IsList(predictions')
         /\ phase' \in {"run", "done", "raised"}
         /\ (\A k \in DOMAIN rows : Counted(rows[k]))'
<1>1. PICK numbers, missing :
        LET found == Predicted(numbers, missing)
            scored == PredictionsOf(Values(found))
            fails == \/ DOMAIN scored = {}
                     \/ \E k \in DOMAIN metrics : IsUndefined(metrics[k], scored)
        IN IF fails
           THEN phase' = "raised" /\ UNCHANGED <<candidate, fold, executed, rows, predictions>>
           ELSE /\ predictions' = predictions \o found
                /\ rows' = rows \o [k \in DOMAIN metrics |->
                                      MetricRow(metrics[k], Measure(metrics[k], scored))]
                /\ Advance
  BY DEF Forecast
<1>2. PICK found, scored, t, s, label, f :
        /\ found = Predicted(numbers, missing) /\ scored = PredictionsOf(Values(found))
        /\ t = [k \in DOMAIN metrics |-> MetricRow(metrics[k], Measure(metrics[k], scored))]
        /\ s = rows /\ label = Model.label /\ f = fold
  OBVIOUS
<1>3. /\ UNCHANGED <<truths, models>> /\ phase = "run" /\ IsList(s) /\ IsList(predictions)
      /\ \A k \in DOMAIN s : Counted(s[k])
      /\ metrics \in Seq(Range(metrics)) /\ truths \in Seq(Range(truths))
      /\ fold \in Nat /\ fold \in DOMAIN truths
  BY <1>2 DEF Forecast, asked, MeasuredInv, ScoresInv, CallInv
<1>4. CASE phase' = "raised" /\ UNCHANGED <<fold, rows, predictions>>
  <2>1. \A k \in DOMAIN s : Counted(s[k])'
    BY <1>3, <1>4 DEF Counted, IsWhole, Known
  <2> QED BY <1>2, <1>3, <1>4, <2>1
<1>5. CASE DOMAIN scored # {} /\ predictions' = predictions \o found /\ rows' = s \o t /\ Advance
  <2>1. fold' \in Nat /\ fold' \in DOMAIN truths /\ phase' \in {"run", "done"}
    BY <1>3, <1>5 DEF Advance
  <2>2. FoldInv
    BY DEF FoldInv, MeasuredInv
  <2>3. IsList(found) /\ \A j \in DOMAIN found : found[j].model = label /\ found[j].fold = f
    <3>1. PICK values : values = Values(found)
      OBVIOUS
    <3>2. /\ \E n \in Nat : DOMAIN found = 1 .. n
          /\ \A j \in DOMAIN found : found[j].model = label /\ found[j].fold = f
      BY <1>2, <2>2, <3>1, RowsAreOfPlaces
    <3>3. found = [j \in DOMAIN found |-> found[j]]
      BY <1>2 DEF Predicted
    <3>4. found \in Seq({found[j] : j \in DOMAIN found})
      BY <3>2, <3>3
    <3> QED BY <3>2, <3>4 DEF IsList
  <2>4. IsList(predictions') /\ \A j \in DOMAIN found : \E k \in DOMAIN predictions' : predictions'[k] = found[j]
    <3>1. PICK p : p = predictions
      OBVIOUS
    <3>2. IsList(p) /\ IsList(found)
      BY <1>3, <2>3, <3>1
    <3>3. IsList(p \o found) /\ HoldsBoth(p \o found, p, found)
      BY <3>2, ListsJoin
    <3> QED BY <1>5, <3>1, <3>3 DEF HoldsBoth
  <2>5. IsList(t)
    <3>1. DOMAIN metrics = 1 .. Len(metrics) /\ Len(metrics) \in Nat
      BY <1>3
    <3>2. t \in Seq({t[k] : k \in DOMAIN metrics})
      BY <1>2, <3>1
    <3> QED BY <3>2 DEF IsList
  <2>6. ASSUME NEW k \in DOMAIN t PROVE Counted(t[k])'
    <3>1. PICK m, row : m = metrics[k] /\ row = t[k]
      OBVIOUS
    <3>2. row.model = label /\ row.fold = f /\ row.pairs = Measure(m, scored).pairs
      BY <1>2, <3>1 DEF MetricRow
    <3>3. IsMetric(m) /\ Requirement(m, output)
      BY <1>2, <1>3, <3>1 DEF MeasuredInv, Measurable
    <3>4. ASSUME IsWhole(label, f)'
          PROVE  row.pairs > 0 /\ row.pairs = Cardinality(Known(f))
      <4>1. \A j \in DOMAIN found : found[j].prediction # None
        BY <2>3, <2>4, <3>4 DEF IsWhole
      <4> QED BY <1>2, <1>5, <2>2, <3>2, <3>3, <4>1, ScoredInFull
    <3>5. Known(f)' = Known(f)
      BY <1>3 DEF Known
    <3>6. Counted(row)'
      BY <3>2, <3>4, <3>5 DEF Counted
    <3> QED BY <3>1, <3>6
  <2>7. \A k \in DOMAIN s : Counted(s[k])'
    BY <1>3, <1>5, <2>3, CountedStays
  <2>8. HoldsBoth(s \o t, s, t)
    <3>1. IsList(s) /\ IsList(t)
      BY <1>3, <2>5
    <3> QED BY <3>1, ListsJoin
  <2>9. \A k \in DOMAIN (s \o t) : Counted((s \o t)[k])'
    BY <2>6, <2>7, <2>8 DEF HoldsBoth
  <2> QED BY <1>5, <2>1, <2>4, <2>9
<1> QED BY <1>1, <1>2, <1>4, <1>5

(* Only a forecast adds rows, and it runs once all metrics were checked.   *)
LEMMA MeasuredInvHolds == Spec => []MeasuredInv
<1>1. Init => MeasuredInv
  <2> SUFFICES ASSUME Init PROVE MeasuredInv
    OBVIOUS
  <2>1. PICK call \in Calls : metrics = call.metrics /\ output = call.output
    BY DEF Init
  <2>2. /\ rows = <<>> /\ predictions = <<>> /\ fold = 1 /\ phase = "asked" /\ truths \in Truths
    BY DEF Init
  <2>3. IsOutput /\ \A k \in DOMAIN metrics : IsMetric(metrics[k])
    BY <2>1, ScoresAssumption DEF IsOutput
  <2>4. /\ truths \in Seq(Range(truths)) \ {<<>>}
        /\ \A k \in DOMAIN truths : DOMAIN truths[k] \subseteq Cells
    BY <2>2, ScoresAssumption
  <2>5. fold \in Nat /\ fold \in DOMAIN truths
    BY <2>2, <2>4
  <2>6. IsList(predictions) /\ DOMAIN rows = {}
    BY <2>2 DEF IsList
  <2> QED BY <2>2, <2>3, <2>4, <2>5, <2>6 DEF MeasuredInv
<1>2. ScoresInv /\ MeasuredInv /\ [Next]_vars => MeasuredInv'
  <2> SUFFICES ASSUME ScoresInv, MeasuredInv, [Next]_vars PROVE MeasuredInv'
    OBVIOUS
  <2>1. UNCHANGED <<metrics, output, truths, models>>
    BY DEF Next, vars, asked, Check, SettingsRejected, Fit, Forecast, Raises
  <2>2. /\ (IsOutput /\ \A k \in DOMAIN metrics : IsMetric(metrics[k]))'
        /\ (truths \in Seq(Range(truths)) /\ \A k \in DOMAIN truths : DOMAIN truths[k] \subseteq Cells)'
        /\ Measurable' = Measurable /\ Evaluable' = Evaluable
    BY <2>1 DEF MeasuredInv, IsOutput, Range, Measurable, Evaluable, Distinct, NoneInside
  <2>3. CASE Forecast
    <3>1. /\ fold' \in Nat /\ fold' \in DOMAIN truths /\ IsList(predictions')
          /\ phase' \in {"run", "done", "raised"}
          /\ (\A k \in DOMAIN rows : Counted(rows[k]))'
      BY <2>3, ForecastIsCounted
    <3>2. Measurable
      BY <2>3 DEF MeasuredInv, Forecast
    <3> QED BY <2>1, <2>2, <3>1, <3>2 DEF MeasuredInv
  <2>4. CASE UNCHANGED <<fold, rows, predictions>>
    <3>1. (\A k \in DOMAIN rows : Counted(rows[k]))'
      BY <2>1, <2>4 DEF MeasuredInv, Counted, IsWhole, Known
    <3>2. (phase' \in {"asked", "refused"} \/ Measurable) /\ (phase' = "refused" => ~Measurable \/ ~Evaluable)
      <4>1. CASE Check
        BY <4>1 DEF Check
      <4>2. CASE SettingsRejected \/ Raises
        BY <4>2 DEF SettingsRejected, Raises, MeasuredInv
      <4>3. CASE UNCHANGED phase
        BY <4>3 DEF MeasuredInv
      <4> QED BY <2>3, <4>1, <4>2, <4>3, ForecastIsCounted DEF Next, vars, Fit, MeasuredInv, Forecast
    <3> QED BY <2>1, <2>2, <2>4, <3>1, <3>2 DEF MeasuredInv
  <2> QED BY <2>3, <2>4 DEF Next, vars, Check, SettingsRejected, Fit, Raises
<1> QED BY <1>1, <1>2, ScoresInvHolds, PTL DEF Spec

(* The forecast that says all parts of an output.                          *)
LEMMA IdealSaysAll ==
  ASSUME IsOutput, NEW m, IsMetric(m)
  PROVE  CanScore(m, Ideal) <=> Requirement(m, output)
<1>1. PICK parts, sequence :
        /\ parts = SetToSeq(Parts)
        /\ sequence = [k \in DOMAIN parts |->
                         [ kind |-> parts[k].kind, level |-> parts[k].quantile, draw |-> parts[k].sample,
                           predicted |-> Spread(parts[k]), actual |-> 1 ]]
  OBVIOUS
<1>2. Draws \in Nat \ {0} /\ None \notin Int
  BY ScoresAssumption
<1>3. /\ \E n \in Nat : DOMAIN parts = 1 .. n
      /\ \A k \in DOMAIN parts : parts[k] \in Parts
      /\ \A part \in Parts : \E k \in DOMAIN parts : parts[k] = part
  BY <1>1, <1>2, PartsAreFinite, ListOfSet
<1>4. \A part \in Parts : Spread(part) # None
  <2> SUFFICES ASSUME NEW part \in Parts PROVE Spread(part) \in Int
    BY <1>2
  <2>1. CASE output.kind = "point"
    BY <2>1 DEF Parts, Spread
  <2>2. CASE output.kind = "quantiles"
    <3>1. part.kind = "quantile"
      BY <2>2 DEF Parts
    <3> QED BY <3>1 DEF Spread
  <2>3. CASE output.kind = "samples"
    <3>1. part.kind = "sample" /\ part.sample \in Nat
      BY <1>2, <2>3 DEF Parts
    <3> QED BY <3>1 DEF Spread
  <2> QED BY <2>1, <2>2, <2>3 DEF IsOutput
<1>5. SaysAll(sequence, DOMAIN parts)
  <2>1. \A k \in DOMAIN parts : Says(sequence[k], parts[k]) /\ sequence[k].predicted = Spread(parts[k])
    BY <1>1 DEF Says
  <2> QED BY <1>3, <1>4, <2>1 DEF SaysAll
<1>6. PICK n \in Nat : DOMAIN parts = 1 .. n
  BY <1>3
<1>7. CanScore(m, Gathered(sequence, DOMAIN parts)) <=> Requirement(m, output)
  BY <1>2, <1>5, <1>6, CheckedIsScorable
<1> QED BY <1>1, <1>7 DEF Ideal

(* Whatever metrics a backtest is asked for and whatever is forecast, a    *)
(* forecast that left nothing out is scored by every metric in every       *)
(* outcome that is known, and what was refused before the first fit could  *)
(* not have been. backtest.py:285, 553-560, metrics.py:486-509.            *)
THEOREM WhatIsAskedIsMeasured == Spec => []AskedIsMeasured
<1>1. MeasuredInv => AskedIsMeasured
  <2> SUFFICES ASSUME MeasuredInv PROVE AskedIsMeasured
    OBVIOUS
  <2>1. \A k \in DOMAIN rows : IsWhole(rows[k].model, rows[k].fold) =>
          rows[k].pairs > 0 /\ rows[k].pairs = Cardinality(Known(rows[k].fold))
    BY DEF MeasuredInv, Counted
  <2>2. ASSUME phase = "refused", Evaluable PROVE \E m \in MetricsAsked : ~CanScore(m, Ideal)
    <3>1. PICK k \in DOMAIN metrics : ~Requirement(metrics[k], output)
      BY <2>2 DEF MeasuredInv, Measurable
    <3>2. ~CanScore(metrics[k], Ideal)
      BY <3>1, IdealSaysAll DEF MeasuredInv
    <3> QED BY <3>2 DEF MetricsAsked, Range
  <2> QED BY <2>1, <2>2 DEF AskedIsMeasured
<1> QED BY <1>1, MeasuredInvHolds, PTL
=============================================================================
