------------------------- MODULE ModelAnswersProofs -------------------------
(***************************************************************************)
(* The safety invariants of ModelAnswers, for any data, any libraries and  *)
(* any number of steps that they answer.                                   *)
(*                                                                         *)
(* An answer is one row for each instance, step and part, a value at each  *)
(* (IsAnswer). Each integration has a lemma that it serves: that what it   *)
(* makes of the predictions of its library is an answer or a refusal, and  *)
(* a refusal only for a reason (Serves). They rest on what the planner     *)
(* lays out (IsView), on what a fit has learned (IsLearned) and on what it *)
(* is to take the elements of a set in an order. The inductive invariant,  *)
(* AnswersInv, says of what is fitted that some fit learned it, or that    *)
(* its parameters were refused for cause, and of what was answered last    *)
(* that the model that is fitted gave that answer to what it was asked.    *)
(***************************************************************************)
EXTENDS ModelAnswers, TLAPS, WellFoundedInduction, FiniteSetTheorems, FunctionTheorems

-----------------------------------------------------------------------------
(* Sets in an order.                                                       *)

IsOrderOf(before, S) ==
  /\ \A x \in S : <<x, x>> \notin before
  /\ \A x, y \in S : x = y \/ <<x, y>> \in before \/ <<y, x>> \in before
  /\ \A x, y, z \in S : <<x, y>> \in before /\ <<y, z>> \in before => <<x, z>> \in before

Before(x, S, before) == {y \in S : <<y, x>> \in before}

(* What is before one element of a finite set is fewer than what is before *)
(* a later one, so the numbers of them are 0, 1, and so on.                *)
LEMMA EveryRankIsTaken ==
  ASSUME NEW S, IsFiniteSet(S), NEW before, IsOrderOf(before, S), NEW k \in 0 .. Cardinality(S) - 1
  PROVE  \E x \in S : Cardinality(Before(x, S, before)) = k
<1> DEFINE rank == [x \in S |-> Cardinality(Before(x, S, before))]
           T == 0 .. Cardinality(S) - 1
<1>1. Cardinality(S) \in Nat
  BY FS_CardinalityType
<1>2. ASSUME NEW x \in S
      PROVE IsFiniteSet(Before(x, S, before)) /\ Cardinality(Before(x, S, before)) \in T
  <2>1. Before(x, S, before) \in SUBSET S /\ x \notin Before(x, S, before)
    BY DEF Before, IsOrderOf
  <2>2. IsFiniteSet(Before(x, S, before)) /\ Cardinality(Before(x, S, before)) <= Cardinality(S)
    BY <2>1, FS_Subset
  <2>3. Cardinality(Before(x, S, before)) # Cardinality(S)
    BY <2>1, FS_Subset
  <2>4. Cardinality(Before(x, S, before)) \in Nat
    BY <2>2, FS_CardinalityType
  <2> QED BY <1>1, <2>2, <2>3, <2>4
<1>3. ASSUME NEW x \in S, NEW y \in S, <<x, y>> \in before
      PROVE Cardinality(Before(x, S, before)) < Cardinality(Before(y, S, before))
  <2>1. Before(x, S, before) \in SUBSET Before(y, S, before)
    BY <1>3 DEF Before, IsOrderOf
  <2>2. x \in Before(y, S, before) /\ x \notin Before(x, S, before)
    BY <1>3 DEF Before, IsOrderOf
  <2>3. IsFiniteSet(Before(y, S, before))
    BY <1>2
  <2>4. Cardinality(Before(x, S, before)) <= Cardinality(Before(y, S, before))
    BY <2>1, <2>3, FS_Subset
  <2>5. Cardinality(Before(x, S, before)) # Cardinality(Before(y, S, before))
    BY <2>1, <2>2, <2>3, FS_Subset
  <2> QED BY <1>1, <1>2, <2>4, <2>5
<1>4. rank \in [S -> T]
  BY <1>2
<1>5. \A x, y \in S : rank[x] = rank[y] => x = y
  <2> SUFFICES ASSUME NEW x \in S, NEW y \in S, rank[x] = rank[y], x # y PROVE FALSE
    OBVIOUS
  <2>1. <<x, y>> \in before \/ <<y, x>> \in before
    BY DEF IsOrderOf
  <2>2. Cardinality(Before(x, S, before)) \in Int /\ Cardinality(Before(y, S, before)) \in Int
    BY <1>2
  <2> QED BY <1>3, <2>1, <2>2
<1>6. rank \in Injection(S, T)
  BY <1>4, <1>5, Fun_IsInj
<1>7. IsFiniteSet(T) /\ Cardinality(T) = Cardinality(S)
  BY <1>1, FS_Interval
<1>8. rank \in Surjection(S, T)
  BY <1>6, <1>7, FS_Injection
<1>9. \E x \in S : rank[x] = k
  <2>1. k \in T
    OBVIOUS
  <2> HIDE DEF rank, T
  <2> QED BY <1>8, <2>1, Fun_SurjectionProperties
<1> QED BY <1>9

(* InOrder holds every element of a finite set once, and the earlier ones  *)
(* in earlier places.                                                      *)
LEMMA InOrderIsSorted ==
  ASSUME NEW S, IsFiniteSet(S), NEW before, IsOrderOf(before, S)
  PROVE  /\ Cardinality(S) \in Nat
         /\ InOrder(S, before) \in [1 .. Cardinality(S) -> S]
         /\ \A x \in S : \E k \in 1 .. Cardinality(S) : InOrder(S, before)[k] = x
         /\ \A j, k \in 1 .. Cardinality(S) :
              j < k => <<InOrder(S, before)[j], InOrder(S, before)[k]>> \in before
<1> DEFINE s == InOrder(S, before)
           n == Cardinality(S)
<1>1. n \in Nat
  BY FS_CardinalityType
<1>2. ASSUME NEW k \in 1 .. n
      PROVE s[k] \in S /\ Cardinality(Before(s[k], S, before)) = k - 1
  <2>1. k - 1 \in 0 .. n - 1
    BY <1>1
  <2>2. \E x \in S : Cardinality({y \in S : <<y, x>> \in before}) = k - 1
    BY <2>1, EveryRankIsTaken DEF Before
  <2>3. s[k] = CHOOSE x \in S : Cardinality({y \in S : <<y, x>> \in before}) = k - 1
    BY DEF InOrder
  <2> QED BY <2>2, <2>3 DEF Before
<1>3. s \in [1 .. n -> S]
  BY <1>2 DEF InOrder
<1>4. ASSUME NEW x \in S, NEW y \in S, <<x, y>> \in before
      PROVE /\ Cardinality(Before(x, S, before)) <= Cardinality(Before(y, S, before))
            /\ Cardinality(Before(x, S, before)) # Cardinality(Before(y, S, before))
  <2>1. Before(x, S, before) \in SUBSET Before(y, S, before)
    BY <1>4 DEF Before, IsOrderOf
  <2>2. x \in Before(y, S, before) /\ x \notin Before(x, S, before)
    BY <1>4 DEF Before, IsOrderOf
  <2>3. IsFiniteSet(Before(y, S, before))
    BY FS_Subset DEF Before
  <2> QED BY <2>1, <2>2, <2>3, FS_Subset
<1> HIDE DEF s, n
<1>5. ASSUME NEW j \in 1 .. n, NEW k \in 1 .. n, j < k
      PROVE <<s[j], s[k]>> \in before
  <2>1. s[j] # s[k]
    BY <1>1, <1>2, <1>5
  <2>2. CASE <<s[k], s[j]>> \in before
    <3>1. Cardinality(Before(s[k], S, before)) <= Cardinality(Before(s[j], S, before))
      BY <1>2, <1>4, <2>2
    <3> QED BY <1>1, <1>2, <1>5, <3>1
  <2> QED BY <1>2, <2>1, <2>2 DEF IsOrderOf
<1>6. IsFiniteSet(1 .. n) /\ Cardinality(1 .. n) = n
  BY <1>1, FS_Interval
<1>7. \A j, k \in 1 .. n : s[j] = s[k] => j = k
  <2> SUFFICES ASSUME NEW j \in 1 .. n, NEW k \in 1 .. n, s[j] = s[k] PROVE j = k
    OBVIOUS
  <2>1. j - 1 = k - 1
    BY <1>2
  <2> QED BY <1>1, <2>1
<1>8. s \in Injection(1 .. n, S)
  BY <1>3, <1>7, Fun_IsInj
<1>9. s \in Surjection(1 .. n, S)
  BY <1>6, <1>8, FS_Injection DEF n
<1>10. \A x \in S : \E k \in 1 .. n : s[k] = x
  <2> DEFINE places == 1 .. n
  <2>1. s \in Surjection(places, S)
    BY <1>9
  <2> HIDE DEF places
  <2>2. \A x \in S : \E k \in places : s[k] = x
    BY <2>1, Fun_SurjectionProperties
  <2> QED BY <2>2 DEF places
<1> QED BY <1>1, <1>3, <1>5, <1>10 DEF s, n

(* What is enumerated in its order already stays as it is.                 *)
LEMMA InOrderAlready ==
  ASSUME NEW n \in Nat, NEW e, NEW before,
         \A j, k \in 1 .. n : <<e[j], e[k]>> \in before <=> j < k
  PROVE  LET S == {e[k] : k \in 1 .. n}
         IN /\ IsFiniteSet(S) /\ Cardinality(S) = n
            /\ InOrder(S, before) = [k \in 1 .. n |-> e[k]]
<1> DEFINE S == {e[k] : k \in 1 .. n}
           f == [k \in 1 .. n |-> e[k]]
<1>1. \A j, k \in 1 .. n : e[j] = e[k] => j = k
  <2> SUFFICES ASSUME NEW j \in 1 .. n, NEW k \in 1 .. n, e[j] = e[k] PROVE j = k
    OBVIOUS
  <2>1. (<<e[k], e[k]>> \in before <=> k < k) /\ (<<e[j], e[k]>> \in before <=> j < k)
        /\ (<<e[k], e[j]>> \in before <=> k < j)
    OBVIOUS
  <2> QED BY <2>1
<1>2. ASSUME NEW m \in 0 .. n
      PROVE /\ IsFiniteSet({e[k] : k \in 1 .. m})
            /\ Cardinality({e[k] : k \in 1 .. m}) = m
  <2> DEFINE g == [k \in 1 .. m |-> e[k]]
             T == {e[k] : k \in 1 .. m}
  <2>1. m \in Nat /\ \A k \in 1 .. m : k \in 1 .. n
    OBVIOUS
  <2>2. g \in [1 .. m -> T] /\ \A j, k \in 1 .. m : g[j] = g[k] => j = k
    BY <1>1, <2>1
  <2>3. \A t \in T : \E k \in 1 .. m : g[k] = t
    OBVIOUS
  <2>4. g \in Bijection(1 .. m, T)
    BY <2>2, <2>3, Fun_IsBij
  <2>5. ExistsBijection(1 .. m, T)
    BY <2>4, Fun_ExistsBij
  <2> HIDE DEF T, g
  <2>6. IsFiniteSet(T) /\ Cardinality(T) = m
    BY <2>1, <2>5, FS_NatBijection, FS_CountingElements
  <2> QED BY <2>6 DEF T
<1>3. IsFiniteSet(S) /\ Cardinality(S) = n
  BY <1>2
<1>4. ASSUME NEW k \in 1 .. n
      PROVE {y \in S : <<y, e[k]>> \in before} = {e[j] : j \in 1 .. k - 1}
  <2>1. \A j \in 1 .. n : <<e[j], e[k]>> \in before <=> j \in 1 .. k - 1
    OBVIOUS
  <2>2. \A j \in 1 .. k - 1 : j \in 1 .. n
    OBVIOUS
  <2> QED BY <2>1, <2>2
<1>5. ASSUME NEW k \in 1 .. n
      PROVE Cardinality({y \in S : <<y, e[k]>> \in before}) = k - 1
  <2>1. k - 1 \in 0 .. n
    OBVIOUS
  <2>2. Cardinality({e[j] : j \in 1 .. k - 1}) = k - 1
    BY <1>2, <2>1
  <2> QED BY <1>4, <2>2
<1>6. ASSUME NEW k \in 1 .. n
      PROVE (CHOOSE x \in S : Cardinality({y \in S : <<y, x>> \in before}) = k - 1) = e[k]
  <2>1. e[k] \in S
    OBVIOUS
  <2>2. ASSUME NEW x \in S, Cardinality({y \in S : <<y, x>> \in before}) = k - 1
        PROVE x = e[k]
    <3>1. PICK j \in 1 .. n : x = e[j]
      OBVIOUS
    <3>2. Cardinality({y \in S : <<y, e[j]>> \in before}) = j - 1
      BY <1>5
    <3>3. j - 1 = k - 1
      BY <2>2, <3>1, <3>2
    <3> QED BY <3>1, <3>3
  <2> HIDE DEF S
  <2> QED BY <1>5, <2>1, <2>2
<1> HIDE DEF S
<1>7. InOrder(S, before) = [k \in 1 .. n |-> e[k]]
  BY <1>3, <1>6 DEF InOrder
<1> QED BY <1>3, <1>7 DEF S

(* A finite set of numbers that is not empty has a greatest one.           *)
LEMMA MaxIsOneOfThem ==
  ASSUME NEW S, IsFiniteSet(S), S \subseteq Int, S # {}
  PROVE  Max(S) \in S /\ \A t \in S : t <= Max(S)
<1> DEFINE before == {p \in S \X S : p[1] < p[2]}
<1>1. IsOrderOf(before, S)
  BY DEF IsOrderOf
<1>2. Cardinality(S) \in Nat /\ Cardinality(S) # 0
  BY FS_CardinalityType, FS_EmptySet
<1>3. PICK x \in S : Cardinality(Before(x, S, before)) = Cardinality(S) - 1
  <2>1. Cardinality(S) - 1 \in 0 .. Cardinality(S) - 1
    BY <1>2
  <2> HIDE DEF before
  <2> QED BY <1>1, <2>1, EveryRankIsTaken
<1>4. Before(x, S, before) \in SUBSET (S \ {x})
  BY DEF Before
<1>5. IsFiniteSet(S \ {x}) /\ Cardinality(S \ {x}) = Cardinality(S) - 1
  BY FS_RemoveElement
<1>6. Before(x, S, before) = S \ {x}
  BY <1>3, <1>4, <1>5, FS_Subset
<1>7. ASSUME NEW t \in S PROVE x >= t
  <2>1. CASE t # x
    <3>1. <<t, x>> \in before
      BY <1>6, <2>1 DEF Before
    <3> QED BY <3>1
  <2> QED BY <2>1
<1>8. \A t \in S : Max(S) >= t /\ Max(S) \in S
  BY <1>7 DEF Max
<1> QED BY <1>8

-----------------------------------------------------------------------------
(* Moments.                                                                *)

(* A moment a number of steps away is a moment.                            *)
LEMMA ShiftIsInt ==
  ASSUME NEW t \in Int, NEW k \in Int
  PROVE  Shift(t, k) \in Int
BY PeriodAssumption DEF Shift

(* More steps lead to a later moment.                                      *)
LEMMA ShiftsAreApart ==
  ASSUME NEW t \in Int, NEW j \in Int, NEW k \in Int
  PROVE  Shift(t, j) < Shift(t, k) <=> j < k
<1>1. Period \in Int /\ Period >= 1
  BY PeriodAssumption
<1>2. j < k => j * Period < k * Period
  <2> SUFFICES ASSUME j < k PROVE j * Period < k * Period
    OBVIOUS
  <2> DEFINE d == k - j - 1
  <2>1. d \in Nat /\ k = j + 1 + d
    OBVIOUS
  <2>2. d * Period \in Nat
    BY <1>1, <2>1
  <2> HIDE DEF d
  <2>3. k * Period = j * Period + Period + d * Period
    BY <1>1, <2>1
  <2> QED BY <1>1, <2>1, <2>2, <2>3
<1>3. k < j => k * Period < j * Period
  <2> SUFFICES ASSUME k < j PROVE k * Period < j * Period
    OBVIOUS
  <2> DEFINE d == j - k - 1
  <2>1. d \in Nat /\ j = k + 1 + d
    OBVIOUS
  <2>2. d * Period \in Nat
    BY <1>1, <2>1
  <2> HIDE DEF d
  <2>3. j * Period = k * Period + Period + d * Period
    BY <1>1, <2>1
  <2> QED BY <1>1, <2>1, <2>2, <2>3
<1>4. j * Period \in Int /\ k * Period \in Int
  BY <1>1
<1> QED BY <1>2, <1>3, <1>4 DEF Shift

(* Different numbers of steps lead to different moments.                   *)
LEMMA ShiftIsInjective ==
  ASSUME NEW t \in Int, NEW j \in Int, NEW k \in Int, Shift(t, j) = Shift(t, k)
  PROVE  j = k
<1>1. ~(j < k) /\ ~(k < j)
  BY ShiftsAreApart, ShiftIsInt
<1> QED BY <1>1

-----------------------------------------------------------------------------
(* What a forecast view is, and what an answer to it is.                   *)

Asked(view) == ToSet(view.instances)

IsView(view) ==
  /\ view.origin \in Int /\ view.horizon \in Nat \ {0}
  /\ Len(view.instances) \in Nat \ {0}
  /\ view.instances \in [1 .. Len(view.instances) -> Instance]
  /\ \A m, n \in 1 .. Len(view.instances) : view.instances[m] = view.instances[n] => m = n
  /\ \A i \in Asked(view) :
       /\ IsFiniteSet(view.history[i]) /\ view.history[i] # {}
       /\ \A t \in view.history[i] : t \in Int /\ t <= view.origin
  /\ \A n \in DOMAIN view.future :
       /\ view.future[n].instance \in Asked(view)
       /\ \E k \in 1 .. view.horizon : view.future[n].event = Shift(view.origin, k)
  /\ \A i \in Asked(view), k \in 1 .. view.horizon :
       \E n \in DOMAIN view.future : view.future[n].instance = i /\ view.future[n].event = Shift(view.origin, k)

IsOutput(output) ==
  /\ output.kind \in {"point", "quantiles", "samples"}
  /\ IsFiniteSet(output.levels) /\ output.levels \subseteq 1 .. 99
  /\ output.kind = "quantiles" => output.levels # {}

(* One part, or one for every level, in their order.                       *)
IsPartsOf(parts, output) ==
  /\ IsFiniteSet(parts) /\ parts # {}
  /\ Cardinality(parts) = (IF output.kind = "point" THEN 1 ELSE Cardinality(output.levels))
  /\ output.kind = "quantiles" => \A p, q \in parts : p[1] < q[1] => Rank(p) < Rank(q)

Rows(view, parts, value) ==
  {Row(i, Shift(view.origin, k), part, value[<<i, k>>]) :
     i \in Asked(view), k \in 1 .. view.horizon, part \in parts}

(* A row for each instance, step and part. Each is of its instance and     *)
(* from no later than the origin, and of an instance that is sure it is    *)
(* about the moment it says.                                               *)
IsAnswer(rows, view, output, sure) ==
  \E parts, value :
    /\ IsPartsOf(parts, output)
    /\ rows = Rows(view, parts, value)
    /\ \A i \in Asked(view), k \in 1 .. view.horizon :
         /\ value[<<i, k>>].of = i
         /\ value[<<i, k>>].from <= view.origin
         /\ i \in sure => value[<<i, k>>].about = Shift(view.origin, k)

(* The instances of a view are as many as its list of them is long.        *)
LEMMA AskedOnce ==
  ASSUME NEW view, IsView(view)
  PROVE  /\ IsFiniteSet(Asked(view)) /\ Cardinality(Asked(view)) = Len(view.instances)
         /\ Asked(view) # {} /\ Asked(view) \subseteq Instance
         /\ Asked(view) = {view.instances[n] : n \in 1 .. Len(view.instances)}
         /\ DOMAIN view.instances = 1 .. Len(view.instances)
<1> DEFINE n == Len(view.instances)
           s == view.instances
<1>1. n \in Nat \ {0} /\ s \in [1 .. n -> Instance] /\ \A m, l \in 1 .. n : s[m] = s[l] => m = l
  BY DEF IsView
<1> HIDE DEF n
<1>2. DOMAIN s = 1 .. n /\ Asked(view) = {s[m] : m \in 1 .. n}
  BY <1>1 DEF Asked, ToSet
<1> HIDE DEF s
<1>3. s \in [1 .. n -> Asked(view)] /\ \A x \in Asked(view) : \E m \in 1 .. n : s[m] = x
  BY <1>1, <1>2
<1>4. s \in Bijection(1 .. n, Asked(view))
  BY <1>1, <1>3, Fun_IsBij
<1>5. ExistsBijection(1 .. n, Asked(view))
  BY <1>4, Fun_ExistsBij
<1>6. IsFiniteSet(Asked(view)) /\ Cardinality(Asked(view)) = n
  BY <1>1, <1>5, FS_NatBijection, FS_CountingElements
<1>7. s[1] \in Asked(view)
  BY <1>1, <1>2
<1>8. Asked(view) \subseteq Instance
  BY <1>1, <1>2
<1> QED BY <1>2, <1>6, <1>7, <1>8 DEF n, s

(* The rows of an answer are as many as there are instances, steps and     *)
(* parts.                                                                  *)
LEMMA RowsAreCounted ==
  ASSUME NEW view, IsView(view), NEW parts, IsFiniteSet(parts), NEW value
  PROVE  Cardinality(Rows(view, parts, value)) = Len(view.instances) * view.horizon * Cardinality(parts)
<1> DEFINE I == Asked(view)
           K == 1 .. view.horizon
           S == (I \X K) \X parts
           T == Rows(view, parts, value)
           f == [c \in S |-> Row(c[1][1], Shift(view.origin, c[1][2]), c[2], value[<<c[1][1], c[1][2]>>])]
<1>1. view.origin \in Int /\ view.horizon \in Nat
  BY DEF IsView
<1>2. IsFiniteSet(I) /\ Cardinality(I) = Len(view.instances)
  BY AskedOnce
<1>3. IsFiniteSet(K) /\ Cardinality(K) = view.horizon
  <2> DEFINE h == view.horizon
  <2>1. h \in Nat
    BY <1>1
  <2> HIDE DEF h
  <2>2. IsFiniteSet(1 .. h) /\ Cardinality(1 .. h) = h
    BY <2>1, FS_Interval
  <2> QED BY <2>2 DEF h
<1>4. IsFiniteSet(S) /\ Cardinality(S) = Len(view.instances) * view.horizon * Cardinality(parts)
  <2> HIDE DEF I, K
  <2>1. IsFiniteSet(I \X K) /\ Cardinality(I \X K) = Len(view.instances) * view.horizon
    BY <1>2, <1>3, FS_Product
  <2> QED BY <2>1, FS_Product
<1>5. ASSUME NEW c \in S PROVE f[c] \in T
  BY DEF Rows
<1>6. ASSUME NEW t \in T PROVE \E c \in S : f[c] = t
  <2>1. PICK i \in I, k \in K, part \in parts : t = Row(i, Shift(view.origin, k), part, value[<<i, k>>])
    BY DEF Rows
  <2>2. <<<<i, k>>, part>> \in S /\ f[<<<<i, k>>, part>>] = t
    BY <2>1
  <2> QED BY <2>2
<1>7. ASSUME NEW c \in S, NEW d \in S, f[c] = f[d] PROVE c = d
  <2>1. c[1][1] = d[1][1] /\ c[2] = d[2] /\ Shift(view.origin, c[1][2]) = Shift(view.origin, d[1][2])
    BY <1>7 DEF Row
  <2>2. c[1][2] = d[1][2]
    BY <1>1, <2>1, ShiftIsInjective
  <2> QED BY <2>1, <2>2
<1>8. f \in [S -> T]
  BY <1>5
<1> HIDE DEF f, S, T
<1>9. f \in Bijection(S, T)
  BY <1>6, <1>7, <1>8, Fun_IsBij
<1>10. ExistsBijection(S, T)
  BY <1>9, Fun_ExistsBij
<1>11. Cardinality(T) = Cardinality(S)
  BY <1>4, <1>10, FS_Bijection
<1> QED BY <1>4, <1>11 DEF T

(* An answer has a row at least: it is told from a refusal.                *)
LEMMA AnswersHaveRows ==
  ASSUME NEW rows, NEW view, NEW output, NEW sure, IsView(view), IsAnswer(rows, view, output, sure)
  PROVE  rows # Refused
<1>1. PICK parts, value : IsPartsOf(parts, output) /\ rows = Rows(view, parts, value)
  BY DEF IsAnswer
<1>2. PICK part \in parts : TRUE
  BY <1>1 DEF IsPartsOf
<1>3. PICK i \in Asked(view) : TRUE
  BY AskedOnce
<1>4. 1 \in 1 .. view.horizon
  BY DEF IsView
<1>5. Row(i, Shift(view.origin, 1), part, value[<<i, 1>>]) \in rows
  BY <1>1, <1>2, <1>3, <1>4 DEF Rows
<1> QED BY <1>5 DEF Refused
-----------------------------------------------------------------------------
(* Series without a gap.                                                   *)

OnSteps(S, origin) == \A t \in S : \E j \in Nat : origin = Shift(t, j)

(* Every moment of an unbroken series is a whole number of steps before    *)
(* the origin.                                                             *)
LEMMA UnbrokenIsOnSteps ==
  ASSUME NEW S, IsFiniteSet(S), S \subseteq Int, NEW origin, Unbroken(S, origin),
         \A t \in S : t <= origin
  PROVE  OnSteps(S, origin)
<1> DEFINE apart == {t \in S : ~\E j \in Nat : origin = Shift(t, j)}
<1>1. Period \in Nat \ {0} /\ origin \in S /\ origin \in Int
  BY PeriodAssumption DEF Unbroken
<1>2. SUFFICES ASSUME apart # {} PROVE FALSE
  BY DEF OnSteps
<1>3. IsFiniteSet(apart) /\ apart \subseteq Int
  BY FS_Subset
<1>4. Max(apart) \in apart /\ \A t \in apart : t <= Max(apart)
  <2> HIDE DEF apart
  <2> QED BY <1>2, <1>3, MaxIsOneOfThem
<1>5. PICK m \in apart : \A t \in apart : t <= m
  BY <1>4
<1>6. m # origin
  BY <1>1 DEF Shift
<1>7. Shift(m, 1) \in S /\ Shift(m, 1) > m /\ m \in Int
  BY <1>1, <1>6 DEF Unbroken, Shift
<1>8. PICK j \in Nat : origin = Shift(Shift(m, 1), j)
  <2>1. Shift(m, 1) \notin apart
    <3> HIDE DEF apart
    <3>1. Shift(m, 1) \in Int
      BY <1>7
    <3> QED BY <1>5, <1>7, <3>1
  <2> QED BY <1>7, <2>1
<1>9. Shift(Shift(m, 1), j) = Shift(m, j + 1)
  <2>1. (j + 1) * Period = j * Period + Period /\ j * Period \in Int
    BY <1>1, <1>8
  <2> QED BY <1>1, <1>7, <2>1 DEF Shift
<1>10. j + 1 \in Nat
  OBVIOUS
<1> QED BY <1>8, <1>9, <1>10

Earlier(S) == {p \in S \X S : p[1] < p[2]}

(* Moments in their order end with the greatest.                           *)
LEMMA MomentsInOrder ==
  ASSUME NEW S, IsFiniteSet(S), S \subseteq Int, S # {}
  PROVE  LET n == Cardinality(S)
             times == InOrder(S, Earlier(S))
         IN /\ n \in Nat \ {0} /\ times \in [1 .. n -> S]
            /\ \A x \in S : \E k \in 1 .. n : times[k] = x
            /\ \A j, k \in 1 .. n : j < k => times[j] < times[k]
            /\ times[n] = Max(S)
            /\ \A k \in 1 .. n : times[k] <= Max(S)
<1> DEFINE n == Cardinality(S)
           times == InOrder(S, Earlier(S))
<1>1. IsOrderOf(Earlier(S), S)
  BY DEF IsOrderOf, Earlier
<1>2. /\ n \in Nat /\ times \in [1 .. n -> S]
      /\ \A x \in S : \E k \in 1 .. n : times[k] = x
      /\ \A j, k \in 1 .. n : j < k => <<times[j], times[k]>> \in Earlier(S)
  BY <1>1, InOrderIsSorted
<1>3. n # 0
  BY FS_EmptySet
<1>4. Max(S) \in S /\ \A t \in S : t <= Max(S)
  BY MaxIsOneOfThem
<1> HIDE DEF n, times
<1>5. \A j, k \in 1 .. n : j < k => times[j] < times[k]
  BY <1>2 DEF Earlier
<1>6. \A k \in 1 .. n : times[k] \in S /\ times[k] \in Int
  BY <1>2
<1>7. times[n] = Max(S)
  <2>1. PICK k \in 1 .. n : times[k] = Max(S)
    BY <1>2, <1>4
  <2>2. n \in 1 .. n /\ times[n] <= times[k] /\ times[n] \in Int
    BY <1>2, <1>3, <1>4, <1>6, <2>1
  <2>3. k < n => times[k] < times[n]
    BY <1>5, <2>2
  <2> QED BY <1>2, <1>6, <2>1, <2>2, <2>3
<1> QED BY <1>2, <1>3, <1>4, <1>5, <1>6, <1>7 DEF n, times

(* Those of an unbroken series are one step apart.                         *)
LEMMA UnbrokenInOrder ==
  ASSUME NEW S, IsFiniteSet(S), S \subseteq Int, S # {}, Unbroken(S, Max(S))
  PROVE  LET n == Cardinality(S)
             times == InOrder(S, Earlier(S))
         IN \A k \in 1 .. n : times[k] = Shift(Max(S), k - n)
<1> DEFINE n == Cardinality(S)
           times == InOrder(S, Earlier(S))
           m == Max(S)
           off == {k \in 1 .. n : times[k] # Shift(m, k - n)}
<1>1. /\ n \in Nat \ {0} /\ times \in [1 .. n -> S]
      /\ \A x \in S : \E k \in 1 .. n : times[k] = x
      /\ \A j, k \in 1 .. n : j < k => times[j] < times[k]
      /\ times[n] = m
  BY MomentsInOrder
<1>2. m \in S /\ (\A t \in S : t <= m) /\ m \in Int /\ Unbroken(S, m)
  BY MaxIsOneOfThem
<1> HIDE DEF n, times, m
<1>3. OnSteps(S, m)
  BY <1>2, UnbrokenIsOnSteps
<1> SUFFICES ASSUME off # {} PROVE FALSE
  BY DEF m, n, times
<1>4. IsFiniteSet(1 .. n)
  BY <1>1, FS_Interval
<1>5. IsFiniteSet(off) /\ off \subseteq Int
  <2> DEFINE places == 1 .. n
  <2>1. off \in SUBSET places /\ IsFiniteSet(places) /\ places \subseteq Int
    BY <1>1, <1>4
  <2> HIDE DEF off, places
  <2>2. IsFiniteSet(off)
    BY <2>1, FS_Subset
  <2> QED BY <2>1, <2>2
<1>6. Max(off) \in off /\ \A k \in off : k <= Max(off)
  <2> HIDE DEF off
  <2> QED BY <1>5, MaxIsOneOfThem
<1>7. PICK k \in off : \A l \in off : l <= k
  BY <1>6
<1>8. Period \in Nat \ {0} /\ k \in 1 .. n /\ k \in Int /\ n \in Int
  BY <1>1, PeriodAssumption
<1>9. k # n
  BY <1>1, <1>2, <1>8 DEF Shift
<1>10. k + 1 \in 1 .. n /\ k + 1 \notin off
  BY <1>7, <1>8, <1>9
<1>11. times[k + 1] = Shift(m, k + 1 - n)
  <2>1. \A l \in 1 .. n : l \notin off => times[l] = Shift(m, l - n)
    OBVIOUS
  <2> HIDE DEF off
  <2> QED BY <1>8, <1>10, <2>1
<1>12. times[k] \in S /\ times[k] \in Int /\ times[k] < times[k + 1] /\ times[k] # m
  <2>1. times[k] \in S /\ times[k + 1] \in S
    BY <1>1, <1>8, <1>10
  <2>2. times[k] < times[k + 1]
    BY <1>1, <1>8, <1>10
  <2>3. times[k] \in Int /\ times[k + 1] \in Int /\ times[k + 1] <= m
    BY <1>2, <2>1
  <2> QED BY <1>2, <2>1, <2>2, <2>3
<1>13. PICK j \in Nat : m = Shift(times[k], j)
  BY <1>3, <1>12 DEF OnSteps
<1>14. times[k] = Shift(m, 0 - j)
  <2>1. (0 - j) * Period = 0 - j * Period /\ j * Period \in Int
    BY <1>8
  <2> QED BY <1>2, <1>12, <1>13, <2>1 DEF Shift
<1>15. 0 - j < k + 1 - n
  BY <1>2, <1>8, <1>11, <1>12, <1>14, ShiftsAreApart
<1>16. Shift(times[k], 1) \in S
  <2> QED BY <1>2, <1>12 DEF Unbroken
<1>17. PICK l \in 1 .. n : times[l] = Shift(times[k], 1)
  BY <1>1, <1>16
<1>18. Shift(times[k], 1) = Shift(m, 1 - j) /\ Shift(times[k], 1) > times[k]
  <2>1. (0 - j) * Period = 0 - j * Period /\ j * Period \in Int /\ (1 - j) * Period = Period - j * Period
    BY <1>8
  <2> QED BY <1>2, <1>8, <1>12, <1>14, <2>1 DEF Shift
<1>19. l >= k + 1
  <2>1. l < k => times[l] < times[k]
    BY <1>1, <1>8
  <2>2. l # k
    BY <1>12, <1>17, <1>18
  <2>3. times[l] \in Int
    BY <1>16, <1>17
  <2> QED BY <1>8, <1>12, <1>17, <1>18, <2>1, <2>2, <2>3
<1>20. times[k + 1] <= times[l]
  <2>1. k + 1 < l => times[k + 1] < times[l]
    BY <1>1, <1>10
  <2>2. times[k + 1] \in Int /\ times[l] \in Int
    BY <1>1, <1>10, <1>16, <1>17
  <2> QED BY <1>8, <1>19, <2>1, <2>2
<1>21. ~(1 - j < k + 1 - n)
  <2>1. Shift(m, 1 - j) >= Shift(m, k + 1 - n) /\ Shift(m, 1 - j) \in Int /\ Shift(m, k + 1 - n) \in Int
    BY <1>2, <1>8, <1>11, <1>17, <1>18, <1>20, ShiftIsInt
  <2> QED BY <1>2, <1>8, <2>1, ShiftsAreApart
<1>22. 0 - j = k - n
  BY <1>8, <1>15, <1>21
<1> QED BY <1>14, <1>22

-----------------------------------------------------------------------------
(* What the planner lays out.                                              *)

(* What is said of each element of a finite set is finitely many things.   *)
LEMMA ImageIsFinite ==
  ASSUME NEW S, IsFiniteSet(S), NEW f
  PROVE  IsFiniteSet({f[x] : x \in S})
<1> DEFINE T == {f[x] : x \in S}
           g == [x \in S |-> f[x]]
<1>1. g \in [S -> T] /\ \A y \in T : \E x \in S : g[x] = y
  OBVIOUS
<1> HIDE DEF g, T
<1>2. g \in Surjection(S, T)
  BY <1>1, Fun_IsSurj
<1>3. IsFiniteSet(T)
  BY <1>2, FS_Surjection
<1> QED BY <1>3 DEF T

(* Finitely many rows are of finitely many moments and instances.          *)
LEMMA RowsAreOfFinitelyMany ==
  ASSUME NEW rows, IsFiniteSet(rows)
  PROVE  IsFiniteSet(EventsIn(rows)) /\ IsFiniteSet(InstancesIn(rows))
<1>1. {[row \in rows |-> row.event][x] : x \in rows} = EventsIn(rows)
  BY DEF EventsIn
<1>2. {[row \in rows |-> row.instance][x] : x \in rows} = InstancesIn(rows)
  BY DEF InstancesIn
<1>3. IsFiniteSet({[row \in rows |-> row.event][x] : x \in rows})
  BY ImageIsFinite
<1>4. IsFiniteSet({[row \in rows |-> row.instance][x] : x \in rows})
  BY ImageIsFinite
<1> QED BY <1>1, <1>2, <1>3, <1>4

IsHistory(rows) == IsFiniteSet(rows) /\ rows \subseteq Outcome /\ rows # {}

(* A selection of origins selects among those there are.                   *)
LEMMA SelectedAreOrigins ==
  ASSUME NEW S, IsFiniteSet(S), S \subseteq Int, S # {},
         NEW selection, selection.mode \in OriginModes
  PROVE  Selected(selection, S) \subseteq S
<1>1. Max(S) \in S
  BY MaxIsOneOfThem
<1>2. \A T, stride : Thinned(T, stride) \subseteq T
  BY DEF Thinned
<1>3. Thinned(S, selection.stride) \subseteq S
  BY <1>2
<1>4. Thinned({t \in S : selection.start <= t /\ t <= selection.end}, selection.stride) \subseteq S
  <2>1. Thinned({t \in S : selection.start <= t /\ t <= selection.end}, selection.stride)
          \subseteq {t \in S : selection.start <= t /\ t <= selection.end}
    BY <1>2
  <2> QED BY <2>1
<1>5. CASE selection.mode = "all"
  BY <1>3, <1>5 DEF Selected
<1>6. CASE selection.mode = "latest"
  BY <1>1, <1>6 DEF Selected
<1>7. CASE selection.mode = "at"
  BY <1>7 DEF Selected
<1>8. CASE selection.mode = "between"
  BY <1>4, <1>8 DEF Selected
<1> QED BY <1>5, <1>6, <1>7, <1>8 DEF OriginModes

IsSample(s) ==
  /\ s.instance \in Instance
  /\ IsFiniteSet(EventsIn(s.outcomes)) /\ EventsIn(s.outcomes) \subseteq Int /\ EventsIn(s.outcomes) # {}

(* One sample for each instance.                                           *)
IsSeries(samples) ==
  /\ IsFiniteSet(samples)
  /\ \A s \in samples : IsSample(s)
  /\ \A r, s \in samples : r.instance = s.instance => r = s

(* The series samples at an origin are one for each instance.              *)
LEMMA SeriesSamplesAreSeries ==
  ASSUME NEW frame, IsHistory(frame.history), NEW origin
  PROVE  IsSeries(SeriesSamples(FrameSource(frame), origin))
<1> DEFINE source == FrameSource(frame)
           kept == {j \in source.instances : SeriesMoments(source, j, origin) # {}}
           samples == SeriesSamples(source, origin)
<1>1. source.truth = frame.history /\ source.instances = InstancesIn(frame.history)
  BY DEF FrameSource
<1>2. IsFiniteSet(kept)
  <2>1. IsFiniteSet(source.instances) /\ kept \in SUBSET source.instances
    BY <1>1, RowsAreOfFinitelyMany DEF IsHistory
  <2> HIDE DEF kept, source
  <2> QED BY <2>1, FS_Subset
<1> HIDE DEF source
<1>3. {[i \in kept |-> SeriesSample(source, i, origin)][x] : x \in kept} = samples
  BY DEF SeriesSamples
<1>4. IsFiniteSet(samples)
  <2> HIDE DEF kept, samples
  <2>1. IsFiniteSet({[i \in kept |-> SeriesSample(source, i, origin)][x] : x \in kept})
    BY <1>2, ImageIsFinite
  <2> QED BY <1>3, <2>1
<1>5. ASSUME NEW i \in kept
      PROVE /\ SeriesSample(source, i, origin).instance = i
            /\ IsSample(SeriesSample(source, i, origin))
  <2> DEFINE moments == SeriesMoments(source, i, origin)
             outcomes == AtCells(source.truth, i, moments)
  <2>1. SeriesSample(source, i, origin).instance = i /\ SeriesSample(source, i, origin).outcomes = outcomes
    BY DEF SeriesSample
  <2>2. i \in Instance
    BY <1>1 DEF InstancesIn, IsHistory, Outcome
  <2>3. outcomes \in SUBSET frame.history
    BY <1>1 DEF AtCells
  <2>4. IsFiniteSet(outcomes)
    BY <2>3, FS_Subset DEF IsHistory
  <2>5. Observable(source.truth, origin) \subseteq source.truth
    BY DEF Observable, Happened
  <2>6. EventsIn(outcomes) # {}
    <3>1. PICK row \in Observable(source.truth, origin) : row.instance = i /\ row.event \in moments
      BY DEF SeriesMoments, EventsIn
    <3>2. row \in outcomes
      BY <2>5, <3>1 DEF AtCells
    <3> QED BY <3>2 DEF EventsIn
  <2>7. EventsIn(outcomes) \subseteq Int
    BY <2>3 DEF EventsIn, IsHistory, Outcome
  <2>8. IsFiniteSet(EventsIn(outcomes))
    BY <2>4, RowsAreOfFinitelyMany
  <2> HIDE DEF outcomes
  <2> QED BY <2>1, <2>2, <2>6, <2>7, <2>8 DEF IsSample
<1>6. samples = {SeriesSample(source, i, origin) : i \in kept}
  BY DEF SeriesSamples
<1> HIDE DEF kept, samples
<1>7. \A s \in samples : IsSample(s)
  BY <1>5, <1>6
<1>8. \A r, s \in samples : r.instance = s.instance => r = s
  BY <1>5, <1>6
<1> QED BY <1>4, <1>7, <1>8 DEF IsSeries, samples, source

(* A training view of series holds one sample for each instance.           *)
LEMMA SeriesViews ==
  ASSUME NEW frame, IsHistory(frame.history), NEW selection, selection.mode \in OriginModes,
         NEW context, NEW horizon, NEW roles
  PROVE  LET view == TrainingView(frame, "series", selection, context, horizon, roles)
         IN view.kind = "series" /\ IsSeries(view.samples)
<1> DEFINE source == FrameSource(frame)
           origins == SeriesOrigins(source, selection)
           view == TrainingView(frame, "series", selection, context, horizon, roles)
<1>1. view.kind = "series" /\ view.samples = FitView(source, "series", selection, context, horizon)
  BY DEF TrainingView
<1>2. FitView(source, "series", selection, context, horizon) =
        IF Cardinality(origins) = 1 THEN UNION {SeriesSamples(source, o) : o \in origins} ELSE {}
  BY DEF FitView
<1>3. IsFiniteSet(origins)
  <2>1. source.kind = "frame" /\ source.origins = EventsIn(frame.history)
    BY DEF FrameSource
  <2>2. IsFiniteSet(EventsIn(frame.history)) /\ EventsIn(frame.history) \subseteq Int
        /\ EventsIn(frame.history) # {}
    BY RowsAreOfFinitelyMany DEF IsHistory, Outcome, EventsIn
  <2>3. IsFiniteSet(Selected(selection, source.origins))
    <3>1. Selected(selection, source.origins) \in SUBSET source.origins
      BY <2>1, <2>2, SelectedAreOrigins
    <3> QED BY <2>1, <2>2, <3>1, FS_Subset
  <2>4. IsFiniteSet({NoOrigin})
    BY FS_Singleton
  <2> HIDE DEF source
  <2> QED BY <2>1, <2>3, <2>4 DEF SeriesOrigins
<1> HIDE DEF source, origins, view
<1>4. CASE Cardinality(origins) = 1
  <2>1. PICK o : origins = {o}
    BY <1>3, <1>4, FS_Singleton
  <2>2. view.samples = SeriesSamples(source, o)
    BY <1>1, <1>2, <1>4, <2>1
  <2> QED BY <1>1, <2>2, SeriesSamplesAreSeries DEF source, view
<1>5. CASE Cardinality(origins) # 1
  <2>1. view.samples = {}
    BY <1>1, <1>2, <1>5
  <2> QED BY <1>1, <2>1, FS_EmptySet DEF IsSeries, view
<1> QED BY <1>4, <1>5

(* The window of a sequence sample.                                        *)
WindowAt(origin, context, horizon) ==
  {Shift(Shift(origin, 1 - context), k) : k \in 0 .. context + horizon - 1}

(* A training view of sequences holds whole windows.                       *)
LEMMA SequenceViews ==
  ASSUME NEW frame, IsHistory(frame.history), NEW selection, selection.mode \in OriginModes,
         NEW context \in Nat \ {0}, NEW horizon \in Nat \ {0}, NEW roles
  PROVE  LET view == TrainingView(frame, "sequences", selection, context, horizon, roles)
         IN /\ view.kind = "sequences" /\ view.context = context /\ view.horizon = horizon
            /\ \A s \in view.samples :
                 \E origin \in Int : EventsIn(s.outcomes) = WindowAt(origin, context, horizon)
<1> DEFINE source == FrameSource(frame)
           origins == Selected(selection, source.origins)
           view == TrainingView(frame, "sequences", selection, context, horizon, roles)
<1>1. /\ view.kind = "sequences" /\ view.context = context /\ view.horizon = horizon
      /\ view.samples = FitView(source, "sequences", selection, context, horizon)
  BY DEF TrainingView
<1>2. FitView(source, "sequences", selection, context, horizon) = SequenceSamples(source, origins, context, horizon)
  BY DEF FitView
<1>3. origins \subseteq Int
  <2>1. source.origins = EventsIn(frame.history)
    BY DEF FrameSource
  <2>2. IsFiniteSet(EventsIn(frame.history)) /\ EventsIn(frame.history) \subseteq Int
        /\ EventsIn(frame.history) # {}
    BY RowsAreOfFinitelyMany DEF IsHistory, Outcome, EventsIn
  <2>3. origins \subseteq source.origins
    BY <2>1, <2>2, SelectedAreOrigins
  <2> QED BY <2>1, <2>2, <2>3
<1> HIDE DEF source, origins, view
<1>4. ASSUME NEW s \in view.samples
      PROVE \E origin \in Int : EventsIn(s.outcomes) = WindowAt(origin, context, horizon)
  <2>1. PICK p \in source.instances \X origins :
               /\ Covers(source, p[1], p[2], context, horizon)
               /\ s = SequenceSample(source, p[1], p[2], context, horizon)
    BY <1>1, <1>2 DEF SequenceSamples
  <2> DEFINE window == ContextWindow(p[2], context) \cup ForecastWindow(p[2], horizon)
  <2>2. p[2] \in Int
    BY <1>3, <2>1
  <2>3. s.outcomes = AtCells(source.truth, p[1], window)
    BY <2>1 DEF SequenceSample
  <2>4. \A t \in window : \E row \in source.truth : row.instance = p[1] /\ row.event = t
    BY <2>1 DEF Covers, Holds
  <2> HIDE DEF window
  <2>5. EventsIn(s.outcomes) = window
    <3>1. \A row \in s.outcomes : row.event \in window
      BY <2>3 DEF AtCells
    <3>2. \A t \in window : \E row \in s.outcomes : row.event = t
      BY <2>3, <2>4 DEF AtCells
    <3> QED BY <3>1, <3>2 DEF EventsIn
  <2>6. window = WindowAt(p[2], context, horizon)
    <3> DEFINE first == Shift(p[2], 1 - context)
    <3>1. \A k \in Int : Shift(first, k) = Shift(p[2], k + 1 - context)
      <4> SUFFICES ASSUME NEW k \in Int PROVE Shift(first, k) = Shift(p[2], k + 1 - context)
        OBVIOUS
      <4>1. Period \in Int /\ 1 - context \in Int /\ k + 1 - context = k + (1 - context)
        BY PeriodAssumption
      <4>2. (k + (1 - context)) * Period = k * Period + (1 - context) * Period
            /\ k * Period \in Int /\ (1 - context) * Period \in Int
        BY <4>1
      <4> QED BY <2>2, <4>1, <4>2 DEF Shift
    <3> HIDE DEF first
    <3>2. ASSUME NEW k \in 0 .. context - 1
          PROVE /\ context - 1 - k \in 0 .. context + horizon - 1
                /\ Shift(p[2], 0 - k) = Shift(first, context - 1 - k)
      BY <3>1
    <3>3. ASSUME NEW k \in 1 .. horizon
          PROVE /\ context - 1 + k \in 0 .. context + horizon - 1
                /\ Shift(p[2], k) = Shift(first, context - 1 + k)
      BY <3>1
    <3>4. ASSUME NEW k \in 0 .. context + horizon - 1
          PROVE \/ \E j \in 0 .. context - 1 : Shift(first, k) = Shift(p[2], 0 - j)
                \/ \E j \in 1 .. horizon : Shift(first, k) = Shift(p[2], j)
      <4>1. CASE k <= context - 1
        <5>1. context - 1 - k \in 0 .. context - 1 /\ k + 1 - context = 0 - (context - 1 - k)
          BY <4>1
        <5> QED BY <3>1, <5>1
      <4>2. CASE k > context - 1
        <5>1. k + 1 - context \in 1 .. horizon
          BY <4>2
        <5> QED BY <3>1, <5>1
      <4> QED BY <4>1, <4>2
    <3>5. ContextWindow(p[2], context) = {Shift(p[2], 0 - k) : k \in 0 .. context - 1}
      BY DEF ContextWindow
    <3>6. WindowAt(p[2], context, horizon) = {Shift(first, k) : k \in 0 .. context + horizon - 1}
      BY DEF WindowAt, first
    <3>7. \A t \in window : t \in WindowAt(p[2], context, horizon)
      BY <3>2, <3>3, <3>5, <3>6 DEF window, ForecastWindow
    <3>8. \A t \in WindowAt(p[2], context, horizon) : t \in window
      BY <3>4, <3>5, <3>6 DEF window, ForecastWindow
    <3> QED BY <3>7, <3>8
  <2> QED BY <2>2, <2>5, <2>6
<1> QED BY <1>1, <1>4 DEF view

(* The only window of that length in it is itself.                         *)
LEMMA OneWindow ==
  ASSUME NEW origin \in Int, NEW context \in Nat \ {0}, NEW horizon \in Nat \ {0}
  PROVE  Windows(WindowAt(origin, context, horizon), context + horizon) = {WindowAt(origin, context, horizon)}
<1> DEFINE first == Shift(origin, 1 - context)
           n == context + horizon
           W == WindowAt(origin, context, horizon)
           from(t) == {Shift(t, k) : k \in 0 .. n - 1}
<1>1. first \in Int /\ n \in Nat /\ n >= 2
  BY ShiftIsInt
<1>2. W = from(first)
  BY DEF WindowAt
<1>3. Windows(W, n) = {w \in {from(t) : t \in W} : w \subseteq W}
  BY DEF Windows
<1> HIDE DEF first, n, W
<1>4. first \in W
  <2>1. 0 \in 0 .. n - 1 /\ Shift(first, 0) = first
    BY <1>1, PeriodAssumption DEF Shift
  <2> QED BY <1>2, <2>1
<1>5. ASSUME NEW t \in W, from(t) \subseteq W
      PROVE t = first
  <2>1. PICK k \in 0 .. n - 1 : t = Shift(first, k)
    BY <1>2
  <2>2. Shift(t, n - 1) \in W
    <3>1. n - 1 \in 0 .. n - 1
      BY <1>1
    <3> QED BY <1>5, <3>1
  <2>3. PICK j \in 0 .. n - 1 : Shift(t, n - 1) = Shift(first, j)
    BY <1>2, <2>2
  <2>4. Shift(t, n - 1) = Shift(first, k + n - 1)
    <3>1. (k + n - 1) * Period = k * Period + (n - 1) * Period
          /\ k * Period \in Int /\ (n - 1) * Period \in Int
      BY <1>1, PeriodAssumption
    <3> QED BY <1>1, <2>1, <3>1, PeriodAssumption DEF Shift
  <2>5. j = k + n - 1
    BY <1>1, <2>3, <2>4, ShiftIsInjective
  <2>6. k = 0
    BY <1>1, <2>5
  <2> QED BY <1>1, <2>1, <2>6, PeriodAssumption DEF Shift
<1>6. ASSUME NEW w \in Windows(W, n) PROVE w = W
  <2>1. PICK t \in W : w = from(t)
    BY <1>3
  <2>2. from(t) \subseteq W
    BY <1>3, <2>1
  <2>3. t = first
    BY <1>5, <2>2
  <2> QED BY <1>2, <2>1, <2>3
<1>7. W \in Windows(W, n)
  BY <1>2, <1>3, <1>4
<1>8. Windows(W, n) = {W}
  BY <1>6, <1>7
<1> QED BY <1>8 DEF W, n

(* A forecast window is finitely many moments.                             *)
LEMMA ForecastWindowIsFinite ==
  ASSUME NEW origin \in Int, NEW horizon \in Nat
  PROVE  IsFiniteSet(ForecastWindow(origin, horizon)) /\ ForecastWindow(origin, horizon) \subseteq Int
<1> DEFINE K == 1 .. horizon
           f == [k \in K |-> Shift(origin, k)]
<1>1. IsFiniteSet(K)
  BY FS_Interval
<1>2. {f[k] : k \in K} = ForecastWindow(origin, horizon)
  BY DEF ForecastWindow
<1>3. IsFiniteSet({f[k] : k \in K})
  <2> HIDE DEF K, f
  <2> QED BY <1>1, ImageIsFinite
<1>4. \A k \in K : Shift(origin, k) \in Int
  BY ShiftIsInt
<1>5. ForecastWindow(origin, horizon) \subseteq Int
  BY <1>4 DEF ForecastWindow
<1> HIDE DEF K, f
<1> QED BY <1>2, <1>3, <1>5

(* Whatever the layout, every cell is laid out, and nothing else.          *)
LEMMA EveryCellIsLaidOut ==
  ASSUME NEW cells, IsFiniteSet(cells), NEW layout \in Layouts,
         \A c \in cells : c.place \in Int /\ c.event \in Int,
         \A a, b \in cells : a.place = b.place /\ a.event = b.event => a = b
  PROVE  LET rows == InLayout(cells, layout)
         IN /\ \A m \in DOMAIN rows : rows[m] \in cells
            /\ \A c \in cells : \E m \in DOMAIN rows : rows[m] = c
<1> DEFINE before ==
             {p \in cells \X cells :
                LET a == p[1]
                    b == p[2]
                IN CASE layout = "by_instance" -> a.place < b.place \/ (a.place = b.place /\ a.event < b.event)
                     [] layout = "by_event"    -> a.event < b.event \/ (a.event = b.event /\ a.place < b.place)}
           rows == InLayout(cells, layout)
<1>1. rows = InOrder(cells, before)
  BY DEF InLayout
<1>2. IsOrderOf(before, cells)
  <2>1. CASE layout = "by_instance"
    <3>1. \A a, b \in cells :
            <<a, b>> \in before <=> a.place < b.place \/ (a.place = b.place /\ a.event < b.event)
      BY <2>1
    <3> HIDE DEF before
    <3> QED BY <3>1 DEF IsOrderOf
  <2>2. CASE layout = "by_event"
    <3>1. \A a, b \in cells :
            <<a, b>> \in before <=> a.event < b.event \/ (a.event = b.event /\ a.place < b.place)
      BY <2>2
    <3> HIDE DEF before
    <3> QED BY <3>1 DEF IsOrderOf
  <2> QED BY <2>1, <2>2 DEF Layouts
<1> HIDE DEF before, rows
<1>3. /\ rows \in [1 .. Cardinality(cells) -> cells]
      /\ \A c \in cells : \E m \in 1 .. Cardinality(cells) : rows[m] = c
  BY <1>1, <1>2, InOrderIsSorted
<1>4. DOMAIN rows = 1 .. Cardinality(cells)
  BY <1>3
<1> QED BY <1>3, <1>4 DEF rows

CellAt(instances, p, t) == [place |-> p, instance |-> instances[p], event |-> t]

AreTheCells(future, instances, n, origin, horizon) ==
  /\ \A m \in DOMAIN future : \E p \in 1 .. n, k \in 1 .. horizon :
       future[m].instance = instances[p] /\ future[m].event = Shift(origin, k)
  /\ \A p \in 1 .. n, k \in 1 .. horizon : \E m \in DOMAIN future :
       future[m].instance = instances[p] /\ future[m].event = Shift(origin, k)

(* The future rows are the cells of the view.                              *)
LEMMA FutureRowsAreTheCells ==
  ASSUME NEW n \in Nat, NEW instances, DOMAIN instances = 1 .. n,
         NEW origin \in Int, NEW horizon \in Nat, NEW layout \in Layouts
  PROVE  AreTheCells(FutureRows(instances, origin, horizon, layout), instances, n, origin, horizon)
<1> DEFINE P == 1 .. n
           F == ForecastWindow(origin, horizon)
           cells == {CellAt(instances, p, t) : p \in P, t \in F}
           future == FutureRows(instances, origin, horizon, layout)
<1>1. future = InLayout(cells, layout)
  BY DEF FutureRows, CellAt
<1>2. P \subseteq Int /\ F \subseteq Int
  BY ForecastWindowIsFinite
<1>3. IsFiniteSet(cells)
  <2> DEFINE S == P \X F
             f == [c \in S |-> CellAt(instances, c[1], c[2])]
  <2>1. IsFiniteSet(P) /\ IsFiniteSet(F)
    BY FS_Interval, ForecastWindowIsFinite
  <2> HIDE DEF P, F
  <2>2. IsFiniteSet(S)
    BY <2>1, FS_Product
  <2>3. \A p \in P, t \in F : <<p, t>> \in S /\ f[<<p, t>>] = CellAt(instances, p, t)
    OBVIOUS
  <2>4. \A c \in S : c[1] \in P /\ c[2] \in F /\ f[c] = CellAt(instances, c[1], c[2])
    OBVIOUS
  <2> HIDE DEF f, S
  <2>5. {f[c] : c \in S} = cells
    <3>1. ASSUME NEW y \in {f[c] : c \in S} PROVE y \in cells
      <4>1. PICK c \in S : y = f[c]
        OBVIOUS
      <4> QED BY <2>4, <4>1
    <3>2. ASSUME NEW y \in cells PROVE y \in {f[c] : c \in S}
      <4>1. PICK p \in P, t \in F : y = CellAt(instances, p, t)
        OBVIOUS
      <4>2. <<p, t>> \in S /\ f[<<p, t>>] = y
        BY <2>3, <4>1
      <4> QED BY <4>2
    <3> QED BY <3>1, <3>2
  <2> HIDE DEF cells
  <2> QED BY <2>2, <2>5, ImageIsFinite
<1>4. \A c \in cells : c.place \in Int /\ c.event \in Int /\ c = CellAt(instances, c.place, c.event)
  BY <1>2 DEF CellAt
<1>5. /\ \A m \in DOMAIN future : future[m] \in cells
      /\ \A c \in cells : \E m \in DOMAIN future : future[m] = c
  <2>1. \A a, b \in cells : a.place = b.place /\ a.event = b.event => a = b
    BY <1>4
  <2> HIDE DEF cells, future
  <2> QED BY <1>1, <1>3, <1>4, <2>1, EveryCellIsLaidOut
<1> HIDE DEF future
<1>6. ASSUME NEW m \in DOMAIN future
      PROVE \E p \in 1 .. n, k \in 1 .. horizon :
              future[m].instance = instances[p] /\ future[m].event = Shift(origin, k)
  <2>1. PICK p \in P, t \in F : future[m] = CellAt(instances, p, t)
    BY <1>5
  <2>2. PICK k \in 1 .. horizon : t = Shift(origin, k)
    BY DEF ForecastWindow
  <2> QED BY <2>1, <2>2 DEF CellAt
<1>7. ASSUME NEW p \in 1 .. n, NEW k \in 1 .. horizon
      PROVE \E m \in DOMAIN future : future[m].instance = instances[p] /\ future[m].event = Shift(origin, k)
  <2>1. Shift(origin, k) \in F
    BY DEF ForecastWindow
  <2>2. CellAt(instances, p, Shift(origin, k)) \in cells
    BY <2>1
  <2> HIDE DEF cells
  <2>3. PICK m \in DOMAIN future : future[m] = CellAt(instances, p, Shift(origin, k))
    BY <1>5, <2>2
  <2> QED BY <2>3 DEF CellAt
<1> QED BY <1>6, <1>7 DEF future, AreTheCells

(* What a forecast view is made of.                                        *)
LEMMA ForecastViewsAreViews ==
  ASSUME NEW frame, IsHistory(frame.history), NEW steps \in Nat,
         LongEnough(ContextOf(frame), steps),
         NEW instances \in SetToSeqs(InstancesIn(ContextOf(frame).history)),
         NEW horizon \in Nat \ {0}, NEW roles, NEW layout \in Layouts
  PROVE  LET view == ForecastViewOf(ContextOf(frame), instances, steps, horizon, roles, layout)
         IN /\ IsView(view)
            /\ view.horizon = horizon /\ view.roles = roles /\ view.context = steps
<1> DEFINE context == ContextOf(frame)
           rows == context.history
           present == InstancesIn(rows)
           n == Cardinality(present)
           view == ForecastViewOf(context, instances, steps, horizon, roles, layout)
           kept(i) == {row \in Trimmed(context, steps) : row.instance = i}
<1>1. /\ context.origin = Max(EventsIn(frame.history))
      /\ rows = {HistoryRow(CellOf(row), frame.history, Cells(frame.history)) : row \in frame.history}
  BY DEF ContextOf
<1>2. /\ \A row \in rows : row.instance \in Instance /\ row.event \in EventsIn(frame.history)
      /\ \E row \in rows : TRUE
  <2>1. \A row \in frame.history :
          /\ HistoryRow(CellOf(row), frame.history, Cells(frame.history)).instance = row.instance
          /\ HistoryRow(CellOf(row), frame.history, Cells(frame.history)).event = row.event
    BY DEF HistoryRow, CellOf
  <2>2. \A row \in frame.history : row.instance \in Instance /\ row.event \in EventsIn(frame.history)
    BY DEF IsHistory, Outcome, EventsIn
  <2>3. PICK row \in frame.history : TRUE
    BY DEF IsHistory
  <2> HIDE DEF rows
  <2>4. HistoryRow(CellOf(row), frame.history, Cells(frame.history)) \in rows
    BY <1>1
  <2> QED BY <1>1, <2>1, <2>2, <2>4
<1>3. IsFiniteSet(rows)
  <2> DEFINE f == [row \in frame.history |-> HistoryRow(CellOf(row), frame.history, Cells(frame.history))]
  <2>1. {f[row] : row \in frame.history} = rows
    BY <1>1
  <2> HIDE DEF f, rows
  <2> QED BY <2>1, ImageIsFinite DEF IsHistory
<1>4. IsFiniteSet(EventsIn(frame.history)) /\ EventsIn(frame.history) \subseteq Int /\ EventsIn(frame.history) # {}
  BY RowsAreOfFinitelyMany DEF IsHistory, Outcome, EventsIn
<1>5. context.origin \in Int /\ \A t \in EventsIn(frame.history) : t \in Int /\ t <= context.origin
  <2> HIDE DEF context
  <2> QED BY <1>1, <1>4, MaxIsOneOfThem
<1>6. /\ view.origin = context.origin /\ view.horizon = horizon /\ view.context = steps
      /\ view.instances = instances /\ view.roles = roles
      /\ view.history = [i \in ToSet(instances) |-> EventsIn(kept(i))]
      /\ view.future = FutureRows(instances, context.origin, horizon, layout)
  BY DEF ForecastViewOf
<1>7. LongEnough(context, steps) /\ instances \in SetToSeqs(present)
  OBVIOUS
<1> HIDE DEF view, context
<1>8. IsFiniteSet(present) /\ n \in Nat /\ present \subseteq Instance /\ present # {}
  <2>1. IsFiniteSet(present)
    <3> HIDE DEF rows
    <3> QED BY <1>3, RowsAreOfFinitelyMany
  <2>2. n \in Nat
    BY <2>1, FS_CardinalityType
  <2>3. present \subseteq Instance /\ present # {}
    BY <1>2 DEF InstancesIn
  <2> QED BY <2>1, <2>2, <2>3
<1>9. n # 0
  BY <1>8, FS_EmptySet
<1>10. /\ instances \in [1 .. n -> present] /\ Len(instances) = n
       /\ \A p, q \in 1 .. n : instances[p] = instances[q] => p = q
  <2> HIDE DEF n, present
  <2>1. instances \in [1 .. n -> present]
        /\ \A p, q \in 1 .. n : p # q => instances[p] # instances[q]
    BY <1>7 DEF SetToSeqs, n
  <2>2. instances \in Seq(present)
    BY <1>8, <2>1
  <2>3. Len(instances) = n
    BY <1>8, <2>1, <2>2
  <2> QED BY <2>1, <2>3
<1>11. ToSet(instances) \subseteq present /\ ToSet(instances) = {instances[p] : p \in 1 .. n}
  <2> HIDE DEF n, present
  <2> QED BY <1>10 DEF ToSet
<1>12. ASSUME NEW i \in ToSet(instances)
       PROVE /\ IsFiniteSet(view.history[i]) /\ view.history[i] # {}
             /\ \A t \in view.history[i] : t \in Int /\ t <= view.origin
  <2>1. view.history[i] = EventsIn(kept(i))
    BY <1>6
  <2>2. Trimmed(context, steps) \in SUBSET rows
    BY DEF Trimmed
  <2>3. kept(i) \in SUBSET rows
    BY <2>2
  <2>4. IsFiniteSet(kept(i))
    <3> HIDE DEF rows, kept
    <3> QED BY <1>3, <2>3, FS_Subset
  <2>5. IsFiniteSet(EventsIn(kept(i)))
    <3> HIDE DEF kept
    <3> QED BY <2>4, RowsAreOfFinitelyMany
  <2>6. \A t \in EventsIn(kept(i)) : t \in Int /\ t <= context.origin
    BY <1>2, <1>5, <2>3 DEF EventsIn
  <2>7. i \in present
    BY <1>11
  <2>8. \E row \in kept(i) : TRUE
    <3>1. CASE steps = 0
      BY <2>7, <3>1 DEF Trimmed, NoContext, InstancesIn
    <3>2. CASE steps # 0
      <4>1. 0 \in 0 .. steps - 1 /\ Shift(context.origin, -0) \in ContextWindow(context.origin, steps)
        BY <3>2 DEF ContextWindow
      <4>2. Holds(Trimmed(context, steps), i, ContextWindow(context.origin, steps))
        BY <1>7, <2>7 DEF LongEnough
      <4> QED BY <4>1, <4>2 DEF Holds
    <3> QED BY <3>1, <3>2
  <2>9. EventsIn(kept(i)) # {}
    BY <2>8 DEF EventsIn
  <2> HIDE DEF kept
  <2> QED BY <1>6, <2>1, <2>5, <2>6, <2>9
<1> HIDE DEF kept
<1>13. /\ \A m \in DOMAIN view.future : \E p \in 1 .. n, k \in 1 .. horizon :
            view.future[m].instance = instances[p] /\ view.future[m].event = Shift(view.origin, k)
       /\ \A p \in 1 .. n, k \in 1 .. horizon : \E m \in DOMAIN view.future :
            view.future[m].instance = instances[p] /\ view.future[m].event = Shift(view.origin, k)
  <2>1. DOMAIN instances = 1 .. n
    BY <1>10
  <2> HIDE DEF n, present
  <2>2. n \in Nat /\ context.origin \in Int /\ horizon \in Nat
    BY <1>5, <1>8
  <2>3. AreTheCells(FutureRows(instances, context.origin, horizon, layout), instances, n, context.origin, horizon)
    BY <2>1, <2>2, FutureRowsAreTheCells
  <2>4. AreTheCells(view.future, instances, n, view.origin, horizon)
    BY <1>6, <2>3
  <2> QED BY <2>4 DEF AreTheCells
<1> HIDE DEF n, present
<1>14. Asked(view) = ToSet(instances)
  BY <1>6 DEF Asked
<1>15. instances \in [1 .. n -> Instance]
  BY <1>8, <1>10
<1>16. \A m \in DOMAIN view.future :
         /\ view.future[m].instance \in Asked(view)
         /\ \E k \in 1 .. view.horizon : view.future[m].event = Shift(view.origin, k)
  <2> SUFFICES ASSUME NEW m \in DOMAIN view.future
               PROVE /\ view.future[m].instance \in Asked(view)
                     /\ \E k \in 1 .. view.horizon : view.future[m].event = Shift(view.origin, k)
    OBVIOUS
  <2>1. PICK p \in 1 .. n, k \in 1 .. horizon :
               view.future[m].instance = instances[p] /\ view.future[m].event = Shift(view.origin, k)
    BY <1>13
  <2> QED BY <1>6, <1>11, <1>14, <2>1
<1>17. \A i \in Asked(view), k \in 1 .. view.horizon : \E m \in DOMAIN view.future :
         view.future[m].instance = i /\ view.future[m].event = Shift(view.origin, k)
  <2> SUFFICES ASSUME NEW i \in Asked(view), NEW k \in 1 .. view.horizon
               PROVE \E m \in DOMAIN view.future :
                       view.future[m].instance = i /\ view.future[m].event = Shift(view.origin, k)
    OBVIOUS
  <2>1. PICK p \in 1 .. n : i = instances[p]
    BY <1>11, <1>14
  <2>2. k \in 1 .. horizon
    BY <1>6
  <2> QED BY <1>13, <2>1, <2>2
<1>18. n \in Nat \ {0}
  BY <1>8, <1>9
<1>19. IsView(view)
  BY <1>5, <1>6, <1>10, <1>12, <1>14, <1>15, <1>16, <1>17, <1>18 DEF IsView
<1> QED BY <1>6, <1>19 DEF view, context

-----------------------------------------------------------------------------
(* The models that there are.                                              *)

IsAdapter(adapter) ==
  \/ /\ adapter.protocol = "seasonal_naive" /\ adapter.declares = SeasonalDeclares
     /\ adapter.parameters = [season_length |-> AtLeast("integer", 1)]
     /\ adapter.defaults = [season_length |-> Number(1)]
  \/ /\ adapter.protocol = "stats" /\ adapter.defaults = NoParams
     /\ \E exogenous, quantiles \in BOOLEAN : adapter.declares = StatsDeclares(exogenous, quantiles)
  \/ /\ adapter.protocol = "neural" /\ adapter.defaults = NoParams
     /\ \E roles : adapter.declares = NeuralDeclares(roles)
  \/ /\ adapter.protocol = "darts_local" /\ adapter.defaults = NoParams
     /\ adapter.declares = DartsLocalDeclares
  \/ /\ adapter.protocol = "darts_global" /\ adapter.defaults = NoParams
     /\ adapter.sets \subseteq Compiles /\ "input_chunk_length" \in adapter.sets
     /\ \E accepted : adapter.declares = DartsGlobalDeclares("output_chunk_length" \in adapter.sets, accepted)
  \/ /\ adapter.protocol = "sktime_local"
     /\ adapter.defaults \in {[deseasonalize |-> Off], NoParams}
     /\ adapter.declares = SktimeLocalDeclares
  \/ /\ adapter.protocol = "sktime_panel" /\ adapter.defaults = NoParams
     /\ adapter.declares = SktimePanelDeclares
  \/ /\ adapter.protocol = "sklearn" /\ adapter.defaults = NoParams
     /\ adapter.declares = SklearnDeclares
  \/ adapter.protocol = "chronos" /\ adapter.declares = ChronosDeclares

(* A mapping says what one of the two that it is made of says.             *)
LEMMA OneOfTheTwo ==
  ASSUME NEW upper, NEW lower, NEW name \in DOMAIN Over(upper, lower)
  PROVE  \/ name \in DOMAIN upper /\ Over(upper, lower)[name] = upper[name]
         \/ name \in DOMAIN lower /\ Over(upper, lower)[name] = lower[name]
BY DEF Over

(* Every StatsForecast model, certified or found in the library, is an     *)
(* adapter of its protocol.                                                *)
LEMMA StatsAdaptersAre ==
  ASSUME NEW library, NEW name \in DOMAIN StatsAdapters(library)
  PROVE  IsAdapter(StatsAdapters(library)[name])
<1> DEFINE certified == StatsCertified
           offered == {n \in DOMAIN library :
                         /\ ~library[n].excluded /\ library[n].forecasts
                         /\ IsConstructible(library[n].constructor, StatsReserved)
                         /\ library[n].name \notin DOMAIN certified}
           first(called) == Min({n \in offered : library[n].name = called})
           found == [called \in {library[n].name : n \in offered} |->
                       StatsAdapter(FALSE, FALSE, Discovered(library[first(called)].constructor, StatsReserved))]
<1>1. StatsAdapters(library) = Over(certified, found)
  BY DEF StatsAdapters, Catalogued
<1>2. \A parameters : /\ IsAdapter(StatsAdapter(FALSE, FALSE, parameters))
                      /\ IsAdapter(StatsAdapter(TRUE, TRUE, parameters))
  BY DEF IsAdapter, StatsAdapter, Adapter
<1>3. \A called \in DOMAIN certified : IsAdapter(certified[called])
  BY <1>2 DEF StatsCertified, Named
<1>4. \A called \in DOMAIN found : IsAdapter(found[called])
  BY <1>2
<1> HIDE DEF certified, found
<1> QED BY <1>1, <1>3, <1>4, OneOfTheTwo

(* Every NeuralForecast model is an adapter of its protocol.               *)
LEMMA NeuralAdaptersAre ==
  ASSUME NEW library, NEW name \in DOMAIN NeuralAdapters(library)
  PROVE  IsAdapter(NeuralAdapters(library)[name])
<1> DEFINE certified == NeuralCertified
           offered == {n \in DOMAIN library :
                         /\ ~library[n].multivariate
                         /\ IsConstructible(library[n].constructor, NeuralReserved)
                         /\ library[n].name \notin DOMAIN certified}
           first(called) == Min({n \in offered : library[n].name = called})
           found == [called \in {library[n].name : n \in offered} |->
                       NeuralAdapter(library[first(called)].roles,
                                     Discovered(library[first(called)].constructor, NeuralReserved))]
<1>1. NeuralAdapters(library) = Over(certified, found)
  BY DEF NeuralAdapters, Catalogued
<1>2. \A roles, parameters : IsAdapter(NeuralAdapter(roles, parameters))
  BY DEF IsAdapter, NeuralAdapter, Adapter
<1>3. \A called \in DOMAIN certified : IsAdapter(certified[called])
  BY <1>2 DEF NeuralCertified, Named
<1>4. \A called \in DOMAIN found : IsAdapter(found[called])
  BY <1>2
<1> HIDE DEF certified, found
<1> QED BY <1>1, <1>3, <1>4, OneOfTheTwo

(* Every model of Nixtla is one of the two libraries.                      *)
LEMMA NixtlaAdaptersAre ==
  ASSUME NEW stats, NEW neural, NEW name \in DOMAIN NixtlaAdapters(stats, neural)
  PROVE  IsAdapter(NixtlaAdapters(stats, neural)[name])
<1> DEFINE certified == Over(StatsCertified, NeuralCertified)
           found == Over(StatsAdapters(stats), NeuralAdapters(neural))
<1>1. NixtlaAdapters(stats, neural) = Over(certified, found)
  BY DEF NixtlaAdapters
<1>2. ASSUME NEW called \in DOMAIN certified PROVE IsAdapter(certified[called])
  <2>1. \A known \in DOMAIN StatsCertified : IsAdapter(StatsCertified[known])
    <3>1. \A parameters : IsAdapter(StatsAdapter(TRUE, TRUE, parameters))
      BY DEF IsAdapter, StatsAdapter, Adapter
    <3> QED BY <3>1 DEF StatsCertified, Named
  <2>2. \A known \in DOMAIN NeuralCertified : IsAdapter(NeuralCertified[known])
    <3>1. \A roles, parameters : IsAdapter(NeuralAdapter(roles, parameters))
      BY DEF IsAdapter, NeuralAdapter, Adapter
    <3> QED BY <3>1 DEF NeuralCertified, Named
  <2> QED BY <1>2, <2>1, <2>2, OneOfTheTwo
<1>3. ASSUME NEW called \in DOMAIN found PROVE IsAdapter(found[called])
  BY <1>3, OneOfTheTwo, StatsAdaptersAre, NeuralAdaptersAre
<1> HIDE DEF certified, found
<1> QED BY <1>1, <1>2, <1>3, OneOfTheTwo

(* The library is a finite list of classes, so that the first of a name is *)
(* one that is offered.                                                    *)
LEMMA MinIsOneOfThem ==
  ASSUME NEW S, S \subseteq Nat, S # {}
  PROVE  Min(S) \in S
<1>1. PICK x \in S : \A y \in S : x <= y
  <2>1. IsWellFoundedOn(OpToRel(<, Nat), Nat)
    BY NatLessThanWellFounded
  <2>2. PICK x \in S : \A y \in S : ~(<<y, x>> \in OpToRel(<, Nat))
    BY <2>1, WFMin
  <2>3. \A y \in S : ~(y < x)
    BY <2>2 DEF OpToRel
  <2> QED BY <2>3
<1> QED BY <1>1 DEF Min

(* Every Darts model is an adapter, and a global one sets the length of    *)
(* its input.                                                              *)
LEMMA DartsAdaptersAre ==
  ASSUME NEW library, DOMAIN library \subseteq Nat, NEW name \in DOMAIN DartsAdapters(library)
  PROVE  IsAdapter(DartsAdapters(library)[name])
<1> DEFINE offered == {n \in DOMAIN library :
                         /\ library[n].base \in {"local", "global"} /\ ~library[n].pretrained
                         /\ IsConstructible(library[n].constructor, DartsReserved)
                         /\ library[n].base = "global" =>
                              "input_chunk_length" \in DOMAIN library[n].constructor /\ library[n].probed
                         /\ library[n].name \notin DOMAIN DartsCertified}
           first(called) == Min({n \in offered : library[n].name = called})
           of(class) ==
             IF class.base = "local"
             THEN DartsLocalAdapter(Discovered(class.constructor, DartsReserved),
                                    "random_state" \in DOMAIN class.constructor)
             ELSE DartsGlobalAdapter(DOMAIN class.constructor \cap Compiles, class.roles,
                                     Discovered(class.constructor, DartsReserved))
           found == [called \in {library[n].name : n \in offered} |-> of(library[first(called)])]
<1>1. DartsAdapters(library) = Over(DartsCertified, found)
  BY DEF DartsAdapters, Catalogued
<1>2. \A parameters, seeded : IsAdapter(DartsLocalAdapter(parameters, seeded))
  BY DEF IsAdapter, DartsLocalAdapter, Adapter
<1>3. \A sets, accepted, parameters : sets \subseteq Compiles /\ "input_chunk_length" \in sets
        => IsAdapter(DartsGlobalAdapter(sets, accepted, parameters))
  BY DEF IsAdapter, DartsGlobalAdapter, Adapter
<1>4. \A called \in DOMAIN DartsCertified : IsAdapter(DartsCertified[called])
  <2>1. IsAdapter(DartsCertified.theta)
    BY <1>2 DEF DartsCertified
  <2>2. "input_chunk_length" \in Compiles
    BY DEF Compiles
  <2>3. IsAdapter(DartsCertified.tide)
    BY <1>3, <2>2 DEF DartsCertified
  <2>4. IsAdapter(DartsCertified.nhits)
    BY <1>3, <2>2 DEF DartsCertified
  <2>5. DOMAIN DartsCertified = {"theta", "tide", "nhits"}
    BY DEF DartsCertified
  <2> QED BY <2>1, <2>3, <2>4, <2>5
<1>5. ASSUME NEW called \in DOMAIN found PROVE IsAdapter(found[called])
  <2> DEFINE same == {n \in offered : library[n].name = called}
             class == library[first(called)]
  <2>1. same # {} /\ same \subseteq Nat
    OBVIOUS
  <2>2. first(called) \in same
    BY <2>1, MinIsOneOfThem
  <2>3. class.base \in {"local", "global"} /\ (class.base = "global" => "input_chunk_length" \in DOMAIN class.constructor)
    BY <2>2
  <2>4. found[called] = of(class)
    OBVIOUS
  <2> HIDE DEF found, class
  <2>5. CASE class.base = "local"
    BY <1>2, <2>4, <2>5
  <2>6. CASE class.base = "global"
    <3>1. "input_chunk_length" \in DOMAIN class.constructor \cap Compiles
      BY <2>3, <2>6 DEF Compiles
    <3> QED BY <1>3, <2>4, <2>6, <3>1
  <2> QED BY <2>3, <2>5, <2>6
<1> HIDE DEF found
<1> QED BY <1>1, <1>4, <1>5, OneOfTheTwo

(* Every sktime model is an adapter.                                       *)
LEMMA SktimeAdaptersAre ==
  ASSUME NEW library, NEW name \in DOMAIN SktimeAdapters(library)
  PROVE  IsAdapter(SktimeAdapters(library)[name])
<1> DEFINE offered == {n \in DOMAIN library :
                         /\ ~library[n].requires_fh_in_fit /\ library[n].installed /\ ~library[n].multivariate
                         /\ IsConstructible(library[n].constructor, {"random_state"})
                         /\ library[n].name \notin DOMAIN SktimeCertified}
           first(called) == Min({n \in offered : library[n].name = called})
           found == [called \in {library[n].name : n \in offered} |->
                       SktimeLocalAdapter(Discovered(library[first(called)].constructor, {"random_state"}), NoParams,
                                          "random_state" \in DOMAIN library[first(called)].constructor)]
           theta == Named("theta", SktimeLocalAdapter(SktimeThetaParameters, [deseasonalize |-> Off], FALSE))
           trees == Named("pooled-trees", SktimePanelAdapter)
<1>1. SktimeAdapters(library) = Over(SktimeCertified, found)
  BY DEF SktimeAdapters, Catalogued
<1>2. \A parameters, seeded, defaults : defaults \in {[deseasonalize |-> Off], NoParams}
        => IsAdapter(SktimeLocalAdapter(parameters, defaults, seeded))
  BY DEF IsAdapter, SktimeLocalAdapter, Adapter
<1>3. IsAdapter(SktimePanelAdapter)
  BY DEF IsAdapter, SktimePanelAdapter, Adapter
<1>4. \A called \in DOMAIN theta : IsAdapter(theta[called])
  BY <1>2 DEF Named
<1>5. \A called \in DOMAIN trees : IsAdapter(trees[called])
  BY <1>3 DEF Named
<1>6. SktimeCertified = Over(theta, trees)
  BY DEF SktimeCertified
<1>7. \A called \in DOMAIN found : IsAdapter(found[called])
  BY <1>2
<1> HIDE DEF found, theta, trees
<1>8. \A called \in DOMAIN SktimeCertified : IsAdapter(SktimeCertified[called])
  BY <1>4, <1>5, <1>6, OneOfTheTwo
<1> QED BY <1>1, <1>7, <1>8, OneOfTheTwo

(* Every scikit-learn model is an adapter.                                 *)
LEMMA SklearnAdaptersAre ==
  ASSUME NEW library, NEW name \in DOMAIN SklearnAdapters(library)
  PROVE  IsAdapter(SklearnAdapters(library)[name])
<1> DEFINE certified == Named("hist-gradient-boosting", SklearnAdapter(BoostingParameters, TRUE))
           offered == {n \in DOMAIN library :
                         /\ IsConstructible(library[n].constructor, {"random_state"}) /\ library[n].probed
                         /\ library[n].two_d_array /\ library[n].single_output
                         /\ library[n].name \notin DOMAIN certified}
           first(called) == Min({n \in offered : library[n].name = called})
           found == [called \in {library[n].name : n \in offered} |->
                       SklearnAdapter(Discovered(library[first(called)].constructor, {"random_state"}),
                                      "random_state" \in DOMAIN library[first(called)].constructor)]
<1>1. SklearnAdapters(library) = Over(certified, found)
  BY DEF SklearnAdapters, Catalogued
<1>2. \A parameters, seeded : IsAdapter(SklearnAdapter(parameters, seeded))
  BY DEF IsAdapter, SklearnAdapter, Adapter
<1>3. \A called \in DOMAIN certified : IsAdapter(certified[called])
  BY <1>2 DEF Named
<1>4. \A called \in DOMAIN found : IsAdapter(found[called])
  BY <1>2
<1> HIDE DEF certified, found
<1> QED BY <1>1, <1>3, <1>4, OneOfTheTwo

(* Every model of every catalog is one of the adapters.                    *)
LEMMA EveryAdapter ==
  ASSUME NEW model \in Models
  PROVE  IsAdapter(AdapterFor[model])
<1>1. /\ DOMAIN Libraries.darts \subseteq Nat
  BY AnswersAssumption
<1>2. PICK namespace \in DOMAIN Catalogs : \E n \in DOMAIN Catalogs[namespace] : model = <<namespace, n>>
  BY DEF Models
<1> PICK name \in DOMAIN Catalogs[namespace] : model = <<namespace, name>>
  BY <1>2
<1>3. AdapterFor[model] = Catalogs[namespace][name]
  BY <1>2 DEF AdapterFor
<1>4. CASE namespace = "builtin"
  <2>1. IsAdapter(SeasonalAdapter)
    BY DEF IsAdapter, SeasonalAdapter, Adapter
  <2>2. Catalogs[namespace] = Named("seasonal-naive", SeasonalAdapter)
    BY <1>4 DEF Catalogs
  <2> QED BY <1>2, <1>3, <2>1, <2>2 DEF Named
<1>5. CASE namespace = "nixtla"
  <2>1. Catalogs[namespace] = NixtlaAdapters(Libraries.statsforecast, Libraries.neuralforecast)
    BY <1>5 DEF Catalogs
  <2> QED BY <1>2, <1>3, <2>1, NixtlaAdaptersAre
<1>6. CASE namespace = "darts"
  <2>1. Catalogs[namespace] = DartsAdapters(Libraries.darts)
    BY <1>6 DEF Catalogs
  <2> QED BY <1>1, <1>2, <1>3, <2>1, DartsAdaptersAre
<1>7. CASE namespace = "sktime"
  <2>1. Catalogs[namespace] = SktimeAdapters(Libraries.sktime)
    BY <1>7 DEF Catalogs
  <2> QED BY <1>2, <1>3, <2>1, SktimeAdaptersAre
<1>8. CASE namespace = "sklearn"
  <2>1. Catalogs[namespace] = SklearnAdapters(Libraries.sklearn)
    BY <1>8 DEF Catalogs
  <2> QED BY <1>2, <1>3, <2>1, SklearnAdaptersAre
<1>9. CASE namespace = "amazon"
  <2>1. IsAdapter(Adapter("chronos", ChronosDeclares, NoParams))
    BY DEF IsAdapter, Adapter
  <2>2. Catalogs[namespace] = Named("chronos-2", Adapter("chronos", ChronosDeclares, NoParams))
    BY <1>9 DEF Catalogs
  <2> QED BY <1>2, <1>3, <2>1, <2>2 DEF Named
<1>10. namespace \in {"builtin", "nixtla", "darts", "sktime", "sklearn", "amazon"}
  BY DEF Catalogs
<1> QED BY <1>4, <1>5, <1>6, <1>7, <1>8, <1>9, <1>10

-----------------------------------------------------------------------------
(* Series that are continued.                                              *)

Sure(view) == {i \in Asked(view) : Unbroken(view.history[i], view.origin)}

IsSteps(steps) == steps \in [Instance -> Nat]

Whole(view, steps) == \A i \in Asked(view) : steps[i] = view.horizon

(* A series is continued step by step from its end.                        *)
LEMMA ContinuedIs ==
  ASSUME NEW of, NEW end, NEW n \in Nat
  PROVE  /\ Len(Continued(of, end, n)) = n /\ DOMAIN Continued(of, end, n) = 1 .. n
         /\ \A k \in 1 .. n : Continued(of, end, n)[k] = Value(of, end, Shift(end, k))
<1>1. /\ DOMAIN Continued(of, end, n) = 1 .. n
      /\ \A k \in 1 .. n : Continued(of, end, n)[k] = Value(of, end, Shift(end, k))
  BY DEF Continued
<1>2. Len(Continued(of, end, n)) = n
  BY DEF Continued
<1> QED BY <1>1, <1>2

(* A history ends no later than the origin, and at it if it has no gap.    *)
LEMMA HistoriesEnd ==
  ASSUME NEW view, IsView(view), NEW i \in Asked(view)
  PROVE  /\ Max(view.history[i]) \in Int /\ Max(view.history[i]) <= view.origin
         /\ i \in Sure(view) => Max(view.history[i]) = view.origin
<1> DEFINE S == view.history[i]
<1>1. IsFiniteSet(S) /\ S # {} /\ \A t \in S : t \in Int /\ t <= view.origin
  BY DEF IsView
<1>2. view.origin \in Int
  BY DEF IsView
<1> HIDE DEF S
<1>3. Max(S) \in S /\ \A t \in S : t <= Max(S)
  <2>1. S \subseteq Int
    BY <1>1
  <2> QED BY <1>1, <2>1, MaxIsOneOfThem
<1>4. i \in Sure(view) => view.origin \in S
  BY DEF Sure, Unbroken, S
<1>5. Max(S) \in Int /\ Max(S) <= view.origin
  BY <1>1, <1>3
<1>6. i \in Sure(view) => Max(S) = view.origin
  <2> SUFFICES ASSUME i \in Sure(view) PROVE Max(S) = view.origin
    OBVIOUS
  <2>1. view.origin <= Max(S)
    BY <1>3, <1>4
  <2> QED BY <1>2, <1>5, <2>1
<1> QED BY <1>5, <1>6 DEF S

(* The numbers of series that end at given moments.                        *)
ValuesFrom(view, ends) ==
  [c \in Asked(view) \X (1 .. view.horizon) |-> Value(c[1], ends[c[1]], Shift(ends[c[1]], c[2]))]

AreEnds(view, ends) ==
  \A i \in Asked(view) :
    /\ ends[i] \in Int /\ ends[i] <= view.origin
    /\ i \in Sure(view) => ends[i] = view.origin

(* Numbers of series that end no later than the origin, and at it if they  *)
(* have no gap, are an answer.                                             *)
LEMMA ContinuedIsAnAnswer ==
  ASSUME NEW view, NEW output, NEW parts, IsPartsOf(parts, output),
         NEW ends, AreEnds(view, ends)
  PROVE  IsAnswer(Rows(view, parts, ValuesFrom(view, ends)), view, output, Sure(view))
<1> DEFINE value == ValuesFrom(view, ends)
<1>1. ASSUME NEW i \in Asked(view), NEW k \in 1 .. view.horizon
      PROVE /\ value[<<i, k>>].of = i
            /\ value[<<i, k>>].from <= view.origin
            /\ i \in Sure(view) => value[<<i, k>>].about = Shift(view.origin, k)
  <2>1. value[<<i, k>>] = Value(i, ends[i], Shift(ends[i], k))
    BY DEF ValuesFrom
  <2> HIDE DEF value
  <2> QED BY <2>1 DEF AreEnds, Value
<1> HIDE DEF value
<1> QED BY <1>1 DEF IsAnswer, value

(* The event times of a view are the steps after its origin.               *)
LEMMA EventTimesAre ==
  ASSUME NEW view, NEW k \in 1 .. view.horizon
  PROVE  EventTimes(view)[k] = Shift(view.origin, k)
BY DEF EventTimes

(* Numbers that are of the instance at their place.                        *)
LEMMA RowsByPlace ==
  ASSUME NEW view, IsView(view), NEW parts, NEW ends, NEW predictions,
         NEW D, D = DOMAIN view.instances,
         \A n \in D, k \in 1 .. view.horizon :
           predictions[n][k] = Value(view.instances[n], ends[view.instances[n]],
                                     Shift(ends[view.instances[n]], k))
  PROVE  {Row(view.instances[n], EventTimes(view)[k], part, predictions[n][k]) :
            n \in D, k \in 1 .. view.horizon, part \in parts}
           = Rows(view, parts, ValuesFrom(view, ends))
<1> DEFINE K == 1 .. view.horizon
           value == ValuesFrom(view, ends)
           placed == {Row(view.instances[n], EventTimes(view)[k], part, predictions[n][k]) :
                        n \in D, k \in K, part \in parts}
<1>1. ASSUME NEW n \in D, NEW k \in K
      PROVE /\ view.instances[n] \in Asked(view)
            /\ EventTimes(view)[k] = Shift(view.origin, k)
            /\ predictions[n][k] = value[<<view.instances[n], k>>]
  <2>1. view.instances[n] \in Asked(view)
    BY DEF Asked, ToSet
  <2> QED BY <2>1, EventTimesAre DEF ValuesFrom
<1>2. \A i \in Asked(view) : \E n \in D : view.instances[n] = i
  BY DEF Asked, ToSet
<1> HIDE DEF value
<1>3. Rows(view, parts, value) =
        {Row(i, Shift(view.origin, k), part, value[<<i, k>>]) : i \in Asked(view), k \in K, part \in parts}
  BY DEF Rows
<1> HIDE DEF K
<1>4. ASSUME NEW y \in placed PROVE y \in Rows(view, parts, value)
  <2>1. PICK n \in D, k \in K, part \in parts :
               y = Row(view.instances[n], EventTimes(view)[k], part, predictions[n][k])
    OBVIOUS
  <2> DEFINE i == view.instances[n]
  <2>2. y = Row(i, Shift(view.origin, k), part, value[<<i, k>>]) /\ i \in Asked(view)
    BY <1>1, <2>1
  <2> HIDE DEF i, placed
  <2> QED BY <1>3, <2>2
<1>5. ASSUME NEW y \in Rows(view, parts, value) PROVE y \in placed
  <2>1. PICK i \in Asked(view), k \in K, part \in parts :
               y = Row(i, Shift(view.origin, k), part, value[<<i, k>>])
    BY <1>3
  <2>2. PICK n \in D : view.instances[n] = i
    BY <1>2
  <2>3. y = Row(view.instances[n], EventTimes(view)[k], part, predictions[n][k])
    BY <1>1, <2>1, <2>2
  <2> QED BY <2>3
<1>6. placed = Rows(view, parts, value)
  <2> HIDE DEF placed
  <2> QED BY <1>4, <1>5
<1> QED BY <1>6 DEF placed, value, K

(* One part for each level.                                                *)
LEMMA PartsOfLevels ==
  ASSUME NEW L, IsFiniteSet(L), NEW f, \A l \in L : f[l][1] = l
  PROVE  IsFiniteSet({f[l] : l \in L}) /\ Cardinality({f[l] : l \in L}) = Cardinality(L)
<1> DEFINE T == {f[l] : l \in L}
           g == [l \in L |-> f[l]]
<1>1. g \in [L -> T] /\ \A y \in T : \E l \in L : g[l] = y
  OBVIOUS
<1>2. \A l, m \in L : g[l] = g[m] => l = m
  <2> SUFFICES ASSUME NEW l \in L, NEW m \in L, f[l] = f[m] PROVE l = m
    OBVIOUS
  <2>1. f[l][1] = l /\ f[m][1] = m
    OBVIOUS
  <2> QED BY <2>1
<1> HIDE DEF g, T
<1>3. g \in Bijection(L, T)
  BY <1>1, <1>2, Fun_IsBij
<1>4. ExistsBijection(L, T)
  BY <1>3, Fun_ExistsBij
<1> QED BY <1>4, FS_Bijection DEF T

(* A point forecast has one part.                                          *)
LEMMA OnePoint ==
  ASSUME NEW output, output.kind = "point"
  PROVE  IsPartsOf({Point}, output)
BY FS_Singleton DEF IsPartsOf

(* What a model answers, and that it answers unless there is a reason.     *)
Serves(forecast, view, output, reason) ==
  /\ forecast = Refused \/ IsAnswer(forecast, view, output, Sure(view))
  /\ ~reason => forecast # Refused

(* What answers unless it has a reason to refuse serves.                   *)
LEMMA AnAnswerServes ==
  ASSUME NEW forecast, NEW view, NEW output, NEW refused \in BOOLEAN, NEW reason \in BOOLEAN, IsView(view),
         refused => forecast = Refused,
         ~refused => IsAnswer(forecast, view, output, Sure(view)),
         refused => reason
  PROVE  Serves(forecast, view, output, reason)
<1>1. ~refused => forecast # Refused
  BY AnswersHaveRows
<1> QED BY <1>1 DEF Serves

(* Chronos answers unless it is asked for samples or its library answers   *)
(* other than it should.                                                   *)
LEMMA ChronosAnswers ==
  ASSUME NEW view, IsView(view), NEW output, IsOutput(output), NEW steps, IsSteps(steps)
  PROVE  Serves(ChronosForecast(view, output, steps), view, output,
                output.kind = "samples" \/ ~Whole(view, steps))
<1> DEFINE s == view.instances
           N == Len(s)
           inputs == Inputs(view)
           predicted == [n \in DOMAIN inputs |->
                           Continued(inputs[n].of, Max(inputs[n].events), steps[inputs[n].of])]
           refused == \/ output.kind = "samples"
                      \/ Len(predicted) # N
                      \/ \E n \in DOMAIN predicted : Len(predicted[n]) # view.horizon
           ends == [i \in Asked(view) |-> Max(view.history[i])]
           forecast == ChronosForecast(view, output, steps)
           rows == {Row(view.instances[n], EventTimes(view)[k], part, predicted[n][k]) :
                      n \in DOMAIN predicted, k \in 1 .. view.horizon, part \in Parts(output)}
<1>1. DOMAIN s = 1 .. N /\ N \in Nat
  BY AskedOnce DEF IsView
<1>4. DOMAIN inputs = DOMAIN s
      /\ \A n \in DOMAIN s : inputs[n].of = s[n] /\ inputs[n].events = view.history[s[n]]
  BY DEF Inputs
<1>6. forecast = IF refused THEN Refused ELSE rows
  BY DEF ChronosForecast
<1> HIDE DEF inputs
<1>2. ASSUME NEW n \in DOMAIN s
      PROVE /\ s[n] \in Asked(view) /\ steps[s[n]] \in Nat
            /\ Len(predicted[n]) = steps[s[n]]
            /\ \A k \in 1 .. steps[s[n]] : predicted[n][k] = Value(s[n], ends[s[n]], Shift(ends[s[n]], k))
  <2>1. s[n] \in Asked(view)
    BY DEF Asked, ToSet
  <2>2. steps[s[n]] \in Nat
    BY <2>1, AskedOnce DEF IsSteps
  <2>3. predicted[n] = Continued(s[n], ends[s[n]], steps[s[n]])
    BY <1>4, <2>1
  <2> HIDE DEF predicted, ends
  <2> QED BY <2>1, <2>2, <2>3, ContinuedIs
<1>3. Len(predicted) = N /\ DOMAIN predicted = DOMAIN s
  <2> HIDE DEF N, s
  <2> QED BY <1>1, <1>4
<1>7. AreEnds(view, ends)
  BY HistoriesEnd DEF AreEnds
<1>8. ASSUME ~refused PROVE IsPartsOf(Parts(output), output)
  <2>1. CASE output.kind = "point"
    BY <2>1, OnePoint DEF Parts
  <2>2. CASE output.kind = "quantiles"
    <3> DEFINE f == [l \in output.levels |-> <<l, <<"level", l>>>>]
               T == {f[l] : l \in output.levels}
    <3>1. Parts(output) = T
      BY <2>2 DEF Parts
    <3>2. \A l \in output.levels : f[l][1] = l
      OBVIOUS
    <3>3. ASSUME NEW p \in T PROVE Rank(p) = p[1]
      <4>1. PICK l \in output.levels : p = <<l, <<"level", l>>>>
        OBVIOUS
      <4>2. p[2][1] = "level" /\ p[1] = l
        BY <4>1
      <4> HIDE DEF T, f
      <4> QED BY <4>2 DEF Rank
    <3>4. T # {}
      BY <2>2 DEF IsOutput
    <3> HIDE DEF f
    <3>5. IsFiniteSet(T) /\ Cardinality(T) = Cardinality(output.levels)
      BY <3>2, PartsOfLevels DEF IsOutput
    <3> HIDE DEF T
    <3> QED BY <2>2, <3>1, <3>3, <3>4, <3>5 DEF IsPartsOf
  <2> QED BY <1>8, <2>1, <2>2 DEF IsOutput
<1>9. ASSUME ~refused PROVE IsAnswer(forecast, view, output, Sure(view))
  <2>1. \A n \in DOMAIN s : steps[s[n]] = view.horizon
    BY <1>2, <1>3, <1>9
  <2>2. rows = Rows(view, Parts(output), ValuesFrom(view, ends))
    <3> HIDE DEF predicted, ends
    <3>1. \A n \in DOMAIN s, k \in 1 .. view.horizon :
            predicted[n][k] = Value(s[n], ends[s[n]], Shift(ends[s[n]], k))
      BY <1>2, <2>1
    <3> QED BY <1>3, <3>1, RowsByPlace
  <2> HIDE DEF refused, rows, ends
  <2> QED BY <1>6, <1>7, <1>8, <1>9, <2>2, ContinuedIsAnAnswer
<1>10. ASSUME refused PROVE output.kind = "samples" \/ ~Whole(view, steps)
  <2>1. Whole(view, steps) => \A n \in DOMAIN s : Len(predicted[n]) = view.horizon
    BY <1>2 DEF Whole
  <2> HIDE DEF predicted
  <2> QED BY <1>3, <1>10, <2>1
<1>11. refused => forecast = Refused
  <2> HIDE DEF refused, rows, forecast
  <2> QED BY <1>6
<1> HIDE DEF refused, forecast
<1> DEFINE reason == output.kind = "samples" \/ ~Whole(view, steps)
<1>12. refused \in BOOLEAN /\ reason \in BOOLEAN
  BY DEF refused
<1>13. refused => reason
  BY <1>10
<1>14. ~refused => IsAnswer(forecast, view, output, Sure(view))
  BY <1>9
<1> HIDE DEF reason
<1>15. Serves(forecast, view, output, reason)
  BY <1>11, <1>12, <1>13, <1>14, AnAnswerServes
<1> QED BY <1>15 DEF reason, forecast

-----------------------------------------------------------------------------
(* Darts.                                                                  *)

(* Predictions in the order of the instances, continued from given ends.   *)
LEMMA ByPlaceServes ==
  ASSUME NEW view, IsView(view), NEW output, output.kind = "point",
         NEW steps, IsSteps(steps), NEW ends, AreEnds(view, ends),
         NEW predictions, DOMAIN predictions = DOMAIN view.instances, Len(predictions) = Len(view.instances),
         \A n \in DOMAIN view.instances :
           predictions[n] = Continued(view.instances[n], ends[view.instances[n]], steps[view.instances[n]])
  PROVE  Serves(ByPlace(view, predictions, view.instances), view, output, ~Whole(view, steps))
<1> DEFINE s == view.instances
           K == 1 .. view.horizon
           refused == \E n \in DOMAIN predictions : Len(predictions[n]) # view.horizon
           rows == {Row(view.instances[n], EventTimes(view)[k], Point, predictions[n][k]) :
                      n \in DOMAIN view.instances, k \in 1 .. view.horizon}
           forecast == ByPlace(view, predictions, view.instances)
           parts == {Point}
           placed == {Row(view.instances[n], EventTimes(view)[k], part, predictions[n][k]) :
                        n \in DOMAIN view.instances, k \in 1 .. view.horizon, part \in parts}
           reason == ~Whole(view, steps)
<1>1. ASSUME NEW n \in DOMAIN s
      PROVE /\ s[n] \in Asked(view) /\ steps[s[n]] \in Nat
            /\ Len(predictions[n]) = steps[s[n]]
            /\ \A k \in 1 .. steps[s[n]] : predictions[n][k] = Value(s[n], ends[s[n]], Shift(ends[s[n]], k))
  <2>1. s[n] \in Asked(view)
    BY DEF Asked, ToSet
  <2>2. steps[s[n]] \in Nat
    BY <2>1, AskedOnce DEF IsSteps
  <2>3. predictions[n] = Continued(s[n], ends[s[n]], steps[s[n]])
    OBVIOUS
  <2> QED BY <2>1, <2>2, <2>3, ContinuedIs
<1>2. forecast = IF refused THEN Refused ELSE rows
  BY DEF ByPlace
<1>3. rows = placed
  <2>1. ASSUME NEW y \in rows PROVE y \in placed
    OBVIOUS
  <2>2. ASSUME NEW y \in placed PROVE y \in rows
    OBVIOUS
  <2> HIDE DEF rows, placed
  <2> QED BY <2>1, <2>2
<1>4. ASSUME ~refused PROVE IsAnswer(forecast, view, output, Sure(view))
  <2>1. \A n \in DOMAIN s : steps[s[n]] = view.horizon
    BY <1>1, <1>4
  <2>2. \A n \in DOMAIN s, k \in 1 .. view.horizon :
          predictions[n][k] = Value(s[n], ends[s[n]], Shift(ends[s[n]], k))
    BY <1>1, <2>1
  <2> HIDE DEF parts
  <2>3. placed = Rows(view, parts, ValuesFrom(view, ends))
    BY <2>2, RowsByPlace
  <2>4. IsPartsOf(parts, output)
    BY OnePoint DEF parts
  <2> HIDE DEF refused, rows, placed, forecast
  <2>5. forecast = Rows(view, parts, ValuesFrom(view, ends))
    BY <1>2, <1>3, <1>4, <2>3
  <2> QED BY <2>4, <2>5, ContinuedIsAnAnswer
<1>5. refused => reason
  BY <1>1 DEF Whole
<1>6. refused \in BOOLEAN /\ reason \in BOOLEAN
  OBVIOUS
<1> HIDE DEF refused, reason, rows, placed, forecast
<1>7. refused => forecast = Refused
  BY <1>2
<1>8. ~refused => IsAnswer(forecast, view, output, Sure(view))
  BY <1>4
<1>9. Serves(forecast, view, output, reason)
  BY <1>5, <1>6, <1>7, <1>8, AnAnswerServes
<1> QED BY <1>9 DEF forecast, reason

(* A refusal for a reason serves.                                          *)
LEMMA RefusalServes ==
  ASSUME NEW forecast, NEW view, NEW output, NEW reason, forecast = Refused, reason
  PROVE  Serves(forecast, view, output, reason)
BY DEF Serves

(* What serves with one reason to refuse serves with more.                 *)
LEMMA ServesForLess ==
  ASSUME NEW forecast, NEW view, NEW output, NEW reason, NEW more,
         Serves(forecast, view, output, reason), reason => more
  PROVE  Serves(forecast, view, output, more)
BY DEF Serves

(* A global Darts model answers about the histories it is handed.          *)
LEMMA DartsGlobalAnswers ==
  ASSUME NEW view, IsView(view), NEW output, NEW steps, IsSteps(steps), NEW state, NEW bound
  PROVE  Serves(DartsGlobalForecast(state, view, output, steps, bound), view, output,
                \/ output.kind # "point" \/ ~DartsWindow(state, view, bound)
                \/ ~(state.roles \subseteq view.roles) \/ ~Whole(view, steps))
<1> DEFINE s == view.instances
           refused == output.kind # "point" \/ ~DartsWindow(state, view, bound) \/ ~(state.roles \subseteq view.roles)
           given == DartsHistories(view)
           predictions == [n \in DOMAIN given |->
                             Continued(given[n].of, Max(given[n].events), steps[given[n].of])]
           ends == [i \in Asked(view) |-> Max(view.history[i])]
           forecast == DartsGlobalForecast(state, view, output, steps, bound)
<1>1. forecast = IF refused THEN Refused ELSE ByPlace(view, predictions, view.instances)
  BY DEF DartsGlobalForecast
<1>2. CASE refused
  BY <1>1, <1>2, RefusalServes
<1>3. CASE ~refused
  <2>1. DOMAIN s = 1 .. Len(s) /\ Len(s) \in Nat
    BY AskedOnce DEF IsView
  <2>2. DOMAIN given = DOMAIN s
        /\ \A n \in DOMAIN s : given[n].of = s[n] /\ given[n].events = view.history[s[n]]
    BY DEF DartsHistories
  <2> HIDE DEF given
  <2>3. DOMAIN predictions = DOMAIN s /\ Len(predictions) = Len(s)
    <3> HIDE DEF s
    <3> QED BY <2>1, <2>2
  <2>4. \A n \in DOMAIN s : predictions[n] = Continued(s[n], ends[s[n]], steps[s[n]])
    <3>1. \A n \in DOMAIN s : s[n] \in Asked(view)
      BY DEF Asked, ToSet
    <3> QED BY <2>2, <3>1
  <2>5. AreEnds(view, ends)
    BY HistoriesEnd DEF AreEnds
  <2> HIDE DEF predictions, ends, forecast
  <2>6. output.kind = "point"
    BY <1>3
  <2>7. Serves(ByPlace(view, predictions, view.instances), view, output, ~Whole(view, steps))
    BY <2>3, <2>4, <2>5, <2>6, ByPlaceServes
  <2> HIDE DEF refused
  <2>8. forecast = ByPlace(view, predictions, view.instances)
    BY <1>1, <1>3
  <2> QED BY <2>7, <2>8, ServesForLess DEF forecast
<1> QED BY <1>2, <1>3

(* Models of one series each, in files, and the entries that say whose     *)
(* they are.                                                               *)
IsLocal(state, samples) ==
  /\ \A one \in state.entries : \E s \in samples :
       /\ one.key = s.instance /\ one.last = Max(EventsIn(s.outcomes))
       /\ state.files[one.file].of = s.instance
       /\ state.files[one.file].end = Max(EventsIn(s.outcomes))
  /\ \A s \in samples : \E one \in state.entries :
       one.key = s.instance /\ one.last = Max(EventsIn(s.outcomes))

(* A finite set as a sequence holds all of its elements and no others.     *)
LEMMA ListOfSet ==
  ASSUME NEW S, IsFiniteSet(S)
  PROVE  /\ \A n \in DOMAIN SetToSeq(S) : SetToSeq(S)[n] \in S
         /\ \A x \in S : \E n \in DOMAIN SetToSeq(S) : SetToSeq(S)[n] = x
<1> DEFINE n == Cardinality(S)
           D == 1 .. n
           list == SetToSeq(S)
<1>1. n \in Nat /\ ExistsBijection(D, S)
  BY FS_CardinalityType
<1>2. PICK f : f \in Bijection(D, S)
  BY <1>1, Fun_ExistsBij DEF ExistsBijection
<1>3. f \in [D -> S] /\ \A j, k \in D : f[j] = f[k] => j = k
  <2> HIDE DEF D
  <2>1. f \in Injection(D, S)
    BY <1>2 DEF Bijection
  <2> QED BY <2>1 DEF Injection, IsInjective
<1>4. list \in [D -> S] /\ IsInjective(list)
  <2>1. list = CHOOSE g \in [D -> S] : IsInjective(g)
    BY DEF SetToSeq
  <2>2. IsInjective(f)
    BY <1>3 DEF IsInjective
  <2> HIDE DEF D, list
  <2> QED BY <1>3, <2>1, <2>2
<1>5. list \in Injection(D, S)
  <2> HIDE DEF D, list
  <2> QED BY <1>4 DEF Injection, IsInjective
<1>6. IsFiniteSet(D) /\ Cardinality(D) = Cardinality(S)
  BY <1>1, FS_Interval
<1> HIDE DEF D, list
<1>7. list \in Surjection(D, S)
  BY <1>5, <1>6, FS_Injection
<1>8. \A x \in S : \E k \in D : list[k] = x
  BY <1>7, Fun_SurjectionProperties
<1>9. DOMAIN list = D
  BY <1>4
<1> QED BY <1>4, <1>8, <1>9 DEF list

(* A local fit of Darts keeps a file and an entry for every series.        *)
LEMMA DartsLocalIsLocal ==
  ASSUME NEW view, IsSeries(view.samples)
  PROVE  IsLocal(DartsLocalFit(view), view.samples)
<1> DEFINE series == SetToSeq(view.samples)
           state == DartsLocalFit(view)
<1>1. /\ state.files = [n \in DOMAIN series |->
                         [of |-> series[n].instance, end |-> Max(EventsIn(series[n].outcomes))]]
      /\ state.entries = {[file |-> n, key |-> series[n].instance,
                           last |-> Max(EventsIn(series[n].outcomes))] : n \in DOMAIN series}
  BY DEF DartsLocalFit, DartsSeries
<1>2. /\ \A n \in DOMAIN series : series[n] \in view.samples
      /\ \A x \in view.samples : \E n \in DOMAIN series : series[n] = x
  BY ListOfSet DEF IsSeries
<1> HIDE DEF series, state
<1>3. ASSUME NEW one \in state.entries
      PROVE \E s \in view.samples :
              /\ one.key = s.instance /\ one.last = Max(EventsIn(s.outcomes))
              /\ state.files[one.file].of = s.instance
              /\ state.files[one.file].end = Max(EventsIn(s.outcomes))
  <2>1. PICK n \in DOMAIN series : one = [file |-> n, key |-> series[n].instance,
                                          last |-> Max(EventsIn(series[n].outcomes))]
    BY <1>1
  <2>2. /\ one.file = n /\ one.key = series[n].instance /\ one.last = Max(EventsIn(series[n].outcomes))
        /\ state.files[n].of = series[n].instance
        /\ state.files[n].end = Max(EventsIn(series[n].outcomes))
    BY <1>1, <2>1
  <2> QED BY <1>2, <2>2
<1>4. ASSUME NEW s \in view.samples
      PROVE \E one \in state.entries : one.key = s.instance /\ one.last = Max(EventsIn(s.outcomes))
  <2>1. PICK n \in DOMAIN series : series[n] = s
    BY <1>2
  <2>2. [file |-> n, key |-> series[n].instance, last |-> Max(EventsIn(series[n].outcomes))] \in state.entries
    BY <1>1
  <2> QED BY <2>1, <2>2
<1> QED BY <1>3, <1>4 DEF IsLocal, state

(* A local fit of sktime keeps the same.                                   *)
LEMMA SktimeLocalIsLocal ==
  ASSUME NEW view, IsSeries(view.samples)
  PROVE  IsLocal(SktimeLocalFit(view), view.samples)
<1>1. SktimeLocalFit(view) = DartsLocalFit(view)
  BY DEF SktimeLocalFit, DartsLocalFit, DartsSeries
<1> QED BY <1>1, DartsLocalIsLocal

(* The series of a fit all end at the origin, and are those asked for.     *)
FittedAt(samples, view) ==
  /\ \A s \in samples : Max(EventsIn(s.outcomes)) = view.origin
  /\ Asked(view) \subseteq InstancesIn(samples)

(* An instance has one entry, which is of it.                              *)
LEMMA EntryOfInstance ==
  ASSUME NEW samples, IsSeries(samples), NEW state, IsLocal(state, samples),
         NEW view, NEW i, HasEntry(state, view, i)
  PROVE  /\ state.files[Entry(state, i).file].of = i
         /\ state.files[Entry(state, i).file].end = view.origin
<1> DEFINE one == Entry(state, i)
<1>1. PICK that \in state.entries : that.key = i /\ that.last = view.origin
  BY DEF HasEntry
<1>2. one \in state.entries /\ one.key = i
  BY <1>1 DEF Entry
<1> HIDE DEF one
<1>3. PICK s \in samples : /\ one.key = s.instance
                           /\ state.files[one.file].of = s.instance
                           /\ state.files[one.file].end = Max(EventsIn(s.outcomes))
  BY <1>2 DEF IsLocal
<1>4. PICK r \in samples : that.key = r.instance /\ that.last = Max(EventsIn(r.outcomes))
  BY <1>1 DEF IsLocal
<1>5. r = s
  BY <1>1, <1>2, <1>3, <1>4 DEF IsSeries
<1> QED BY <1>1, <1>2, <1>3, <1>4, <1>5 DEF one

(* A model that was fitted on all that is asked for, and at its origin,    *)
(* has an entry for each instance.                                         *)
LEMMA EntriesAtTheFit ==
  ASSUME NEW samples, NEW state, IsLocal(state, samples), NEW view, FittedAt(samples, view),
         NEW i \in Asked(view)
  PROVE  HasEntry(state, view, i)
<1>1. PICK s \in samples : s.instance = i
  BY DEF FittedAt, InstancesIn
<1>2. Max(EventsIn(s.outcomes)) = view.origin
  BY DEF FittedAt
<1> QED BY <1>1, <1>2 DEF IsLocal, HasEntry

(* Every series ends at the origin.                                        *)
AtOrigins(view) == [i \in Asked(view) |-> view.origin]

(* Series that end at the origin are ends of histories as they should be.  *)
LEMMA OriginsAreEnds ==
  ASSUME NEW view, IsView(view)
  PROVE  AreEnds(view, AtOrigins(view))
BY DEF AreEnds, AtOrigins, IsView

(* A local Darts model answers where it was fitted, and nowhere else.      *)
LEMMA DartsLocalAnswers ==
  ASSUME NEW view, IsView(view), NEW output, NEW steps, IsSteps(steps),
         NEW samples, IsSeries(samples), NEW state, IsLocal(state, samples)
  PROVE  Serves(DartsLocalForecast(state, view, output, steps), view, output,
                output.kind # "point" \/ ~FittedAt(samples, view) \/ ~Whole(view, steps))
<1> DEFINE s == view.instances
           refused == output.kind # "point" \/ \E i \in ToSet(view.instances) : ~HasEntry(state, view, i)
           model(i) == state.files[Entry(state, i).file]
           predictions == [n \in DOMAIN view.instances |->
                             LET instance == view.instances[n]
                             IN Continued(model(instance).of, model(instance).end, steps[instance])]
           forecast == DartsLocalForecast(state, view, output, steps)
           reason == output.kind # "point" \/ ~FittedAt(samples, view) \/ ~Whole(view, steps)
<1>1. forecast = IF refused THEN Refused ELSE ByPlace(view, predictions, view.instances)
  BY DEF DartsLocalForecast
<1>2. CASE refused
  <2>1. forecast = Refused
    BY <1>1, <1>2
  <2>2. reason
    <3>1. FittedAt(samples, view) => \A i \in ToSet(view.instances) : HasEntry(state, view, i)
      BY EntriesAtTheFit DEF Asked
    <3> QED BY <1>2, <3>1
  <2> HIDE DEF forecast, reason
  <2>3. Serves(forecast, view, output, reason)
    BY <2>1, <2>2, RefusalServes
  <2> QED BY <2>3 DEF forecast, reason
<1>3. CASE ~refused
  <2>1. DOMAIN s = 1 .. Len(s) /\ Len(s) \in Nat
    BY AskedOnce DEF IsView
  <2>2. \A n \in DOMAIN s : s[n] \in Asked(view)
    BY DEF Asked, ToSet
  <2>3. DOMAIN predictions = DOMAIN s /\ Len(predictions) = Len(s)
    BY <2>1
  <2>4. ASSUME NEW i \in Asked(view)
        PROVE model(i).of = i /\ model(i).end = view.origin
    <3>1. HasEntry(state, view, i)
      BY <1>3 DEF Asked
    <3> QED BY <3>1, EntryOfInstance
  <2>5. \A n \in DOMAIN s : predictions[n] = Continued(s[n], AtOrigins(view)[s[n]], steps[s[n]])
    BY <2>2, <2>4 DEF AtOrigins
  <2>6. AreEnds(view, AtOrigins(view))
    BY OriginsAreEnds
  <2>7. output.kind = "point"
    BY <1>3
  <2> HIDE DEF predictions
  <2>8. Serves(ByPlace(view, predictions, view.instances), view, output, ~Whole(view, steps))
    BY <2>3, <2>5, <2>6, <2>7, ByPlaceServes
  <2> HIDE DEF refused, reason
  <2>9. forecast = ByPlace(view, predictions, view.instances)
    BY <1>1, <1>3
  <2>10. ~Whole(view, steps) => reason
    BY DEF reason
  <2> HIDE DEF forecast
  <2>11. Serves(forecast, view, output, reason)
    BY <2>8, <2>9, <2>10, ServesForLess
  <2> QED BY <2>11 DEF forecast, reason
<1> QED BY <1>2, <1>3

-----------------------------------------------------------------------------
(* sktime.                                                                 *)

(* The numbers that are found at the moments they are about.               *)
ValuesAbout(view, ends) ==
  [c \in Asked(view) \X (1 .. view.horizon) |-> Value(c[1], ends[c[1]], Shift(view.origin, c[2]))]

(* Numbers that are found at the moment they are about are an answer.      *)
LEMMA AboutIsAnAnswer ==
  ASSUME NEW view, NEW output, NEW parts, IsPartsOf(parts, output),
         NEW ends, AreEnds(view, ends)
  PROVE  IsAnswer(Rows(view, parts, ValuesAbout(view, ends)), view, output, Sure(view))
<1> DEFINE value == ValuesAbout(view, ends)
<1>1. ASSUME NEW i \in Asked(view), NEW k \in 1 .. view.horizon
      PROVE /\ value[<<i, k>>].of = i
            /\ value[<<i, k>>].from <= view.origin
            /\ i \in Sure(view) => value[<<i, k>>].about = Shift(view.origin, k)
  <2>1. value[<<i, k>>] = Value(i, ends[i], Shift(view.origin, k))
    BY DEF ValuesAbout
  <2> HIDE DEF value
  <2> QED BY <2>1 DEF AreEnds, Value
<1> HIDE DEF value
<1> QED BY <1>1 DEF IsAnswer, value

AllAtTheOrigin(view, ends) == \A i \in Asked(view) : ends[i] = view.origin

(* Answers that are looked up by their label and moment.                   *)
LEMMA ByLabelServes ==
  ASSUME NEW view, IsView(view), NEW output, output.kind = "point",
         NEW steps, IsSteps(steps), NEW ends, AreEnds(view, ends),
         NEW labels, labels = InstanceLabels(view.instances),
         NEW answers, DOMAIN labels \subseteq DOMAIN answers,
         \A label \in DOMAIN labels :
           answers[label] = Continued(labels[label], ends[labels[label]], steps[labels[label]])
  PROVE  Serves(ByLabel(view, Panel(answers), labels), view, output,
                ~Whole(view, steps) \/ ~AllAtTheOrigin(view, ends))
<1> DEFINE K == 1 .. view.horizon
           predicted == Panel(answers)
           refused == \E label \in DOMAIN labels : ~IsAnswered(view, predicted, label)
           found(label, k) == CHOOSE row \in predicted : row.unit = label /\ row.event = EventTimes(view)[k]
           rows == {Row(labels[label], EventTimes(view)[k], Point,
                        (CHOOSE row \in predicted : row.unit = label /\ row.event = EventTimes(view)[k]).value) :
                      label \in DOMAIN labels, k \in 1 .. view.horizon}
           forecast == ByLabel(view, predicted, labels)
           value == ValuesAbout(view, ends)
           parts == {Point}
           reason == ~Whole(view, steps) \/ ~AllAtTheOrigin(view, ends)
<1>1. /\ \A label \in DOMAIN labels : labels[label] \in Asked(view)
      /\ \A i \in Asked(view) : \E label \in DOMAIN labels : labels[label] = i
  <2>1. DOMAIN labels = {Label(n) : n \in DOMAIN view.instances}
        /\ \A n \in DOMAIN view.instances : labels[Label(n)] = view.instances[n]
    BY DEF InstanceLabels, Label
  <2>2. Asked(view) = {view.instances[n] : n \in DOMAIN view.instances}
    BY DEF Asked, ToSet
  <2> QED BY <2>1, <2>2
<1>2. forecast = IF refused THEN Refused ELSE rows
  BY DEF ByLabel
<1>3. ASSUME NEW label \in DOMAIN labels
      PROVE /\ steps[labels[label]] \in Nat /\ label \in DOMAIN answers
            /\ DOMAIN answers[label] = 1 .. steps[labels[label]]
            /\ \A k \in 1 .. steps[labels[label]] :
                 answers[label][k] = Value(labels[label], ends[labels[label]], Shift(ends[labels[label]], k))
  <2>1. steps[labels[label]] \in Nat
    BY <1>1, AskedOnce DEF IsSteps
  <2>2. answers[label] = Continued(labels[label], ends[labels[label]], steps[labels[label]])
    OBVIOUS
  <2> QED BY <2>1, <2>2, ContinuedIs
<1>4. ASSUME NEW row \in predicted, row.unit \in DOMAIN labels
      PROVE row.value = Value(labels[row.unit], ends[labels[row.unit]], row.event)
  <2>1. PICK label \in DOMAIN answers :
               row \in {[unit |-> label, event |-> answers[label][k].about, value |-> answers[label][k]] :
                          k \in DOMAIN answers[label]}
    BY DEF Panel
  <2>2. PICK k \in DOMAIN answers[label] :
               row = [unit |-> label, event |-> answers[label][k].about, value |-> answers[label][k]]
    BY <2>1
  <2>3. label \in DOMAIN labels /\ row.unit = label /\ row.event = answers[label][k].about
        /\ row.value = answers[label][k]
    BY <1>4, <2>2
  <2>4. answers[label][k] = Value(labels[label], ends[labels[label]], Shift(ends[labels[label]], k))
    BY <1>3, <2>3
  <2> QED BY <2>3, <2>4 DEF Value
<1> HIDE DEF predicted
<1>5. ASSUME ~refused, NEW label \in DOMAIN labels, NEW k \in K
      PROVE found(label, k).value = value[<<labels[label], k>>]
  <2>1. \E row \in predicted : row.unit = label /\ row.event = EventTimes(view)[k]
    BY <1>5 DEF IsAnswered
  <2>2. found(label, k) \in predicted /\ found(label, k).unit = label
        /\ found(label, k).event = EventTimes(view)[k]
    BY <2>1
  <2> HIDE DEF found
  <2>3. found(label, k).value = Value(labels[label], ends[labels[label]], Shift(view.origin, k))
    BY <1>4, <2>2, EventTimesAre
  <2> QED BY <1>1, <2>3 DEF ValuesAbout
<1> Point \in parts /\ \A part \in parts : part = Point
  OBVIOUS
<1>10. IsPartsOf(parts, output)
  BY OnePoint
<1> HIDE DEF parts
<1>6. ASSUME ~refused PROVE rows = Rows(view, parts, value)
  <2>1. Rows(view, parts, value) =
          {Row(i, Shift(view.origin, k), part, value[<<i, k>>]) : i \in Asked(view), k \in K, part \in parts}
    BY DEF Rows
  <2>2. ASSUME NEW label \in DOMAIN labels, NEW k \in K
        PROVE Row(labels[label], EventTimes(view)[k], Point, found(label, k).value)
                = Row(labels[label], Shift(view.origin, k), Point, value[<<labels[label], k>>])
    <3> HIDE DEF found, value
    <3> QED BY <1>5, <1>6, EventTimesAre
  <2>3. rows = {Row(labels[label], EventTimes(view)[k], Point, found(label, k).value) :
                  label \in DOMAIN labels, k \in K}
    OBVIOUS
  <2> HIDE DEF found, value, rows, K, refused
  <2>4. ASSUME NEW y \in rows PROVE y \in Rows(view, parts, value)
    <3>1. PICK label \in DOMAIN labels, k \in K :
                 y = Row(labels[label], EventTimes(view)[k], Point, found(label, k).value)
      BY <2>3
    <3> DEFINE i == labels[label]
    <3>2. y = Row(i, Shift(view.origin, k), Point, value[<<i, k>>]) /\ i \in Asked(view)
      BY <1>1, <2>2, <3>1
    <3> HIDE DEF i
    <3> QED BY <2>1, <3>2
  <2>5. ASSUME NEW y \in Rows(view, parts, value) PROVE y \in rows
    <3>1. PICK i \in Asked(view), k \in K : y = Row(i, Shift(view.origin, k), Point, value[<<i, k>>])
      BY <2>1
    <3>2. PICK label \in DOMAIN labels : labels[label] = i
      BY <1>1
    <3>3. y = Row(labels[label], EventTimes(view)[k], Point, found(label, k).value)
      BY <2>2, <3>1, <3>2
    <3> QED BY <2>3, <3>3
  <2> QED BY <2>4, <2>5
<1>7. ASSUME Whole(view, steps), AllAtTheOrigin(view, ends) PROVE ~refused
  <2> SUFFICES ASSUME NEW label \in DOMAIN labels, NEW k \in K
               PROVE \E row \in predicted : row.unit = label /\ row.event = EventTimes(view)[k]
    BY DEF IsAnswered
  <2>1. steps[labels[label]] = view.horizon /\ ends[labels[label]] = view.origin
    BY <1>1, <1>7 DEF Whole, AllAtTheOrigin
  <2> DEFINE row == [unit |-> label, event |-> answers[label][k].about, value |-> answers[label][k]]
  <2>2. label \in DOMAIN answers /\ k \in DOMAIN answers[label]
    BY <1>3, <2>1
  <2>3. row \in predicted
    BY <2>2 DEF Panel, predicted
  <2>4. answers[label][k] = Value(labels[label], view.origin, Shift(view.origin, k))
    BY <1>3, <2>1
  <2>5. row.unit = label /\ row.event = EventTimes(view)[k]
    BY <2>4, EventTimesAre DEF Value
  <2> HIDE DEF row
  <2> QED BY <2>3, <2>5
<1>8. refused \in BOOLEAN /\ reason \in BOOLEAN
  OBVIOUS
<1>9. refused => reason
  BY <1>7
<1> HIDE DEF refused, reason, rows, forecast, value
<1>11. ~refused => IsAnswer(forecast, view, output, Sure(view))
  <2> SUFFICES ASSUME ~refused PROVE IsAnswer(forecast, view, output, Sure(view))
    OBVIOUS
  <2>1. forecast = Rows(view, parts, ValuesAbout(view, ends))
    BY <1>2, <1>6 DEF value
  <2> QED BY <1>10, <2>1, AboutIsAnAnswer
<1>12. Serves(forecast, view, output, reason)
  <2>1. refused => forecast = Refused
    BY <1>2
  <2> QED BY <1>8, <1>9, <1>11, <2>1, AnAnswerServes
<1> QED BY <1>12 DEF forecast, reason, predicted

(* A label stands for an instance that was asked for.                      *)
LEMMA LabelsAre ==
  ASSUME NEW view, NEW label \in DOMAIN InstanceLabels(view.instances)
  PROVE  InstanceLabels(view.instances)[label] \in Asked(view)
BY DEF InstanceLabels, Label, Asked, ToSet

(* A local sktime model answers where it was fitted, and nowhere else.     *)
LEMMA SktimeLocalAnswers ==
  ASSUME NEW view, IsView(view), NEW output, NEW steps, IsSteps(steps),
         NEW samples, IsSeries(samples), NEW state, IsLocal(state, samples)
  PROVE  Serves(SktimeLocalForecast(state, view, output, steps), view, output,
                output.kind # "point" \/ ~FittedAt(samples, view) \/ ~Whole(view, steps))
<1> DEFINE labels == InstanceLabels(view.instances)
           refused == output.kind # "point" \/ \E i \in ToSet(view.instances) : ~IsFittedTo(state, view, i)
           answers == [label \in DOMAIN labels |->
                         LET model == ModelOf(state, labels[label])
                         IN Continued(model.of, model.end, steps[labels[label]])]
           forecast == SktimeLocalForecast(state, view, output, steps)
           reason == output.kind # "point" \/ ~FittedAt(samples, view) \/ ~Whole(view, steps)
<1>1. forecast = IF refused THEN Refused ELSE ByLabel(view, Panel(answers), labels)
  BY DEF SktimeLocalForecast
<1>2. \A i : IsFittedTo(state, view, i) <=> HasEntry(state, view, i)
  BY DEF IsFittedTo, HasEntry
<1>3. CASE refused
  <2>1. forecast = Refused
    BY <1>1, <1>3
  <2>2. reason
    <3>1. FittedAt(samples, view) => \A i \in ToSet(view.instances) : HasEntry(state, view, i)
      BY EntriesAtTheFit DEF Asked
    <3> QED BY <1>2, <1>3, <3>1
  <2> HIDE DEF forecast, reason
  <2>3. Serves(forecast, view, output, reason)
    BY <2>1, <2>2, RefusalServes
  <2> QED BY <2>3 DEF forecast, reason
<1>4. CASE ~refused
  <2>1. ASSUME NEW i \in Asked(view)
        PROVE ModelOf(state, i).of = i /\ ModelOf(state, i).end = view.origin
    <3>1. HasEntry(state, view, i)
      BY <1>2, <1>4 DEF Asked
    <3>2. ModelOf(state, i) = state.files[Entry(state, i).file]
      BY DEF ModelOf, Entry
    <3> QED BY <3>1, <3>2, EntryOfInstance
  <2>2. /\ DOMAIN answers = DOMAIN labels
        /\ \A label \in DOMAIN labels :
             answers[label] = Continued(labels[label], AtOrigins(view)[labels[label]], steps[labels[label]])
    <3>1. \A label \in DOMAIN labels : labels[label] \in Asked(view)
      BY LabelsAre
    <3> HIDE DEF labels
    <3> QED BY <2>1, <3>1 DEF AtOrigins
  <2>3. AreEnds(view, AtOrigins(view)) /\ AllAtTheOrigin(view, AtOrigins(view))
    BY OriginsAreEnds DEF AtOrigins, AllAtTheOrigin
  <2>4. output.kind = "point"
    BY <1>4
  <2>5. forecast = ByLabel(view, Panel(answers), labels)
    <3> HIDE DEF refused, forecast, answers, labels
    <3> QED BY <1>1, <1>4
  <2> HIDE DEF answers
  <2>6. labels = InstanceLabels(view.instances)
    OBVIOUS
  <2> HIDE DEF labels
  <2>7. Serves(ByLabel(view, Panel(answers), labels), view, output,
               ~Whole(view, steps) \/ ~AllAtTheOrigin(view, AtOrigins(view)))
    BY <2>2, <2>3, <2>4, <2>6, ByLabelServes
  <2>8. ~Whole(view, steps) \/ ~AllAtTheOrigin(view, AtOrigins(view)) => reason
    BY <2>3
  <2> HIDE DEF reason, forecast
  <2>9. Serves(forecast, view, output, reason)
    BY <2>5, <2>7, <2>8, ServesForLess
  <2> QED BY <2>9 DEF forecast, reason
<1> QED BY <1>3, <1>4

(* The pooled model is updated with the histories it is handed, and        *)
(* answers about them, unless one of them has a gap.                       *)
LEMMA SktimePanelAnswers ==
  ASSUME NEW view, IsView(view), NEW output, NEW steps, IsSteps(steps), NEW state
  PROVE  Serves(SktimePanelForecast(state, view, output, steps), view, output,
                \/ output.kind # "point" \/ state.context # view.context
                \/ ~(state.roles \subseteq view.roles) \/ ~Whole(view, steps)
                \/ ~(Asked(view) \subseteq Sure(view)))
<1> DEFINE labels == InstanceLabels(view.instances)
           held == Updated(state, view)
           refused == output.kind # "point" \/ state.context # view.context \/ ~(state.roles \subseteq view.roles)
           answers == [unit \in DOMAIN held |->
                         Continued(held[unit].of, Max(held[unit].events),
                                   IF unit \in DOMAIN labels THEN steps[labels[unit]] ELSE view.horizon)]
           ends == [i \in Asked(view) |-> Max(view.history[i])]
           forecast == SktimePanelForecast(state, view, output, steps)
           reason == \/ output.kind # "point" \/ state.context # view.context
                     \/ ~(state.roles \subseteq view.roles) \/ ~Whole(view, steps)
                     \/ ~(Asked(view) \subseteq Sure(view))
<1>1. forecast = IF refused THEN Refused ELSE ByLabel(view, Panel(answers), labels)
  BY DEF SktimePanelForecast
<1>2. CASE refused
  <2>1. forecast = Refused
    <3> HIDE DEF forecast, answers
    <3> QED BY <1>1, <1>2
  <2>2. reason
    BY <1>2
  <2> HIDE DEF forecast, reason
  <2>3. Serves(forecast, view, output, reason)
    BY <2>1, <2>2, RefusalServes
  <2> QED BY <2>3 DEF forecast, reason
<1>3. CASE ~refused
  <2>1. DOMAIN labels \subseteq DOMAIN held
        /\ \A label \in DOMAIN labels :
             held[label].of = labels[label] /\ held[label].events = view.history[labels[label]]
    <3>1. DOMAIN held = DOMAIN state.panel \cup DOMAIN labels
      BY DEF Updated
    <3>2. \A label \in DOMAIN labels :
            held[label] = [of |-> labels[label], events |-> view.history[labels[label]]]
      BY DEF Updated
    <3> HIDE DEF held, labels
    <3> QED BY <3>1, <3>2
  <2>2. \A label \in DOMAIN labels : labels[label] \in Asked(view)
    BY LabelsAre
  <2>3. labels = InstanceLabels(view.instances)
    OBVIOUS
  <2>4. forecast = ByLabel(view, Panel(answers), labels)
    <3> HIDE DEF refused, forecast, answers, labels
    <3> QED BY <1>1, <1>3
  <2> HIDE DEF labels, held
  <2>5. /\ DOMAIN labels \subseteq DOMAIN answers
        /\ \A label \in DOMAIN labels :
             answers[label] = Continued(labels[label], ends[labels[label]], steps[labels[label]])
    BY <2>1, <2>2
  <2>6. AreEnds(view, ends)
    BY HistoriesEnd DEF AreEnds
  <2>7. Asked(view) \subseteq Sure(view) => AllAtTheOrigin(view, ends)
    BY HistoriesEnd DEF AllAtTheOrigin
  <2>8. output.kind = "point"
    BY <1>3
  <2> HIDE DEF answers, ends
  <2>9. Serves(ByLabel(view, Panel(answers), labels), view, output,
               ~Whole(view, steps) \/ ~AllAtTheOrigin(view, ends))
    BY <2>3, <2>5, <2>6, <2>8, ByLabelServes
  <2>10. ~Whole(view, steps) \/ ~AllAtTheOrigin(view, ends) => reason
    BY <2>7
  <2> HIDE DEF reason, forecast
  <2>11. Serves(forecast, view, output, reason)
    BY <2>4, <2>9, <2>10, ServesForLess
  <2> QED BY <2>11 DEF forecast, reason
<1> QED BY <1>2, <1>3

-----------------------------------------------------------------------------
(* scikit-learn.                                                           *)

(* The cells of a view by instance and then by step are all of them.       *)
LEMMA AllCellsAreAskedFor ==
  ASSUME NEW view, IsView(view)
  PROVE  /\ \A n \in DOMAIN RowsAskedFor(view) :
              \E i \in Asked(view), k \in 1 .. view.horizon :
                /\ RowsAskedFor(view)[n].instance = i
                /\ RowsAskedFor(view)[n].event = Shift(view.origin, k)
         /\ \A i \in Asked(view), k \in 1 .. view.horizon :
              \E n \in DOMAIN RowsAskedFor(view) :
                /\ RowsAskedFor(view)[n].instance = i
                /\ RowsAskedFor(view)[n].event = Shift(view.origin, k)
<1> DEFINE s == view.instances
           N == Len(s)
           h == view.horizon
           place(n) == (n - 1) \div h + 1
           step(n) == ((n - 1) % h) + 1
<1>1. N \in Nat /\ h \in Nat \ {0} /\ DOMAIN s = 1 .. N /\ Asked(view) = {s[m] : m \in 1 .. N}
  BY AskedOnce DEF IsView
<1>2. DOMAIN RowsAskedFor(view) = 1 .. N * h
      /\ \A n \in 1 .. N * h : /\ RowsAskedFor(view)[n].instance = s[place(n)]
                               /\ RowsAskedFor(view)[n].event = EventTimes(view)[step(n)]
  BY DEF RowsAskedFor
<1> HIDE DEF h, N, s
<1>3. ASSUME NEW n \in 1 .. N * h
      PROVE place(n) \in 1 .. N /\ step(n) \in 1 .. h
  <2> DEFINE q == (n - 1) \div h
             r == (n - 1) % h
  <2>1. N * h \in Nat /\ n - 1 \in Nat /\ n - 1 < N * h
    BY <1>1
  <2>2. q \in Int /\ r \in 0 .. h - 1 /\ n - 1 = q * h + r
    BY <1>1, <2>1
  <2> HIDE DEF q, r
  <2>3. q >= 0
    <3> SUFFICES ASSUME q < 0 PROVE FALSE
      BY <2>2
    <3>1. (0 - q - 1) * h \in Nat
      BY <1>1, <2>2
    <3>2. q * h = 0 - h - (0 - q - 1) * h
      BY <1>1, <2>2
    <3> QED BY <1>1, <2>1, <2>2, <3>1, <3>2
  <2>4. q < N
    <3> SUFFICES ASSUME q >= N PROVE FALSE
      BY <1>1, <2>2
    <3>1. (q - N) * h \in Nat
      BY <1>1, <2>2
    <3>2. q * h = N * h + (q - N) * h /\ q * h \in Int /\ N * h \in Int
      BY <1>1, <2>2
    <3> QED BY <1>1, <2>1, <2>2, <3>1, <3>2
  <2> QED BY <1>1, <2>2, <2>3, <2>4 DEF q, r
<1>4. ASSUME NEW m \in 1 .. N, NEW k \in 1 .. h
      PROVE \E n \in 1 .. N * h : place(n) = m /\ step(n) = k
  <2> DEFINE n == (m - 1) * h + k
  <2>1. (m - 1) * h \in Nat /\ N * h = (m - 1) * h + h + (N - m) * h /\ (N - m) * h \in Nat
    BY <1>1
  <2>2. n \in 1 .. N * h
    BY <1>1, <2>1
  <2>3. n - 1 = (m - 1) * h + (k - 1) /\ k - 1 \in 0 .. h - 1
    BY <1>1, <2>1
  <2>4. (n - 1) \div h = m - 1 /\ (n - 1) % h = k - 1
    <3> DEFINE q == (n - 1) \div h
               r == (n - 1) % h
               d == q - (m - 1)
    <3>1. q \in Int /\ r \in 0 .. h - 1 /\ n - 1 = q * h + r
      BY <1>1, <2>2
    <3> HIDE DEF q, r, n
    <3>2. d \in Int /\ d * h = q * h - (m - 1) * h
      BY <1>1, <3>1
    <3>3. d * h = (k - 1) - r
      BY <1>1, <2>1, <2>3, <3>1, <3>2
    <3> HIDE DEF d
    <3>4. d <= 0
      <4> SUFFICES ASSUME d >= 1 PROVE FALSE
        BY <3>2
      <4>1. (d - 1) * h \in Nat /\ d * h = (d - 1) * h + h
        BY <1>1, <3>2
      <4> QED BY <1>1, <2>3, <3>1, <3>3, <4>1
    <3>5. d >= 0
      <4> SUFFICES ASSUME d <= 0 - 1 PROVE FALSE
        BY <3>2
      <4>1. (0 - d - 1) * h \in Nat /\ d * h = 0 - h - (0 - d - 1) * h
        BY <1>1, <3>2
      <4> QED BY <1>1, <2>3, <3>1, <3>3, <4>1
    <3>6. d = 0
      BY <3>2, <3>4, <3>5
    <3>7. r = k - 1
      BY <1>1, <2>3, <3>1, <3>3, <3>6
    <3> QED BY <3>1, <3>6, <3>7 DEF d, q, r
  <2> HIDE DEF n
  <2>5. place(n) = m /\ step(n) = k
    BY <1>1, <2>4
  <2> QED BY <2>2, <2>5
<1> HIDE DEF place, step
<1>5. \A k \in 1 .. h : EventTimes(view)[k] = Shift(view.origin, k)
  BY EventTimesAre DEF h
<1>6. ASSUME NEW n \in DOMAIN RowsAskedFor(view)
      PROVE \E i \in Asked(view), k \in 1 .. h :
              /\ RowsAskedFor(view)[n].instance = i
              /\ RowsAskedFor(view)[n].event = Shift(view.origin, k)
  BY <1>1, <1>2, <1>3, <1>5
<1>7. ASSUME NEW i \in Asked(view), NEW k \in 1 .. h
      PROVE \E n \in DOMAIN RowsAskedFor(view) :
              /\ RowsAskedFor(view)[n].instance = i
              /\ RowsAskedFor(view)[n].event = Shift(view.origin, k)
  <2>1. PICK m \in 1 .. N : s[m] = i
    BY <1>1
  <2>2. PICK n \in 1 .. N * h : place(n) = m /\ step(n) = k
    BY <1>4
  <2> QED BY <1>2, <1>5, <2>1, <2>2
<1> QED BY <1>6, <1>7 DEF h

(* A number is asked for at the row of its cell, wherever that row is, so  *)
(* that it is about the cell it is written into.                           *)
LEMMA SklearnAnswers ==
  ASSUME NEW view, IsView(view), NEW output, NEW steps, NEW state
  PROVE  Serves(SklearnForecast(state, view, output, steps), view, output,
                \/ output.kind # "point" \/ ~(state.features \subseteq view.roles)
                \/ ~OneForEveryRow(view, steps))
<1> DEFINE K == 1 .. view.horizon
           refused == \/ output.kind # "point" \/ ~(state.features \subseteq view.roles)
                      \/ ~OneForEveryRow(view, steps)
           X == HorizonRows(view)
           predicted == [n \in DOMAIN X |-> Value(X[n].instance, view.origin, X[n].event)]
           wanted == RowsAskedFor(view)
           rows == {Row(wanted[n].instance, wanted[n].event, Point, predicted[n]) : n \in DOMAIN wanted}
           forecast == SklearnForecast(state, view, output, steps)
           parts == {Point}
           value == ValuesAbout(view, AtOrigins(view))
<1>1. forecast = IF refused THEN Refused ELSE rows
  BY DEF SklearnForecast
<1>2. ASSUME NEW n \in DOMAIN wanted
      PROVE predicted[n] = Value(wanted[n].instance, view.origin, wanted[n].event)
  <2>1. PICK i \in Asked(view), k \in K :
               wanted[n].instance = i /\ wanted[n].event = Shift(view.origin, k)
    BY AllCellsAreAskedFor
  <2>2. \E m \in DOMAIN view.future : view.future[m].instance = wanted[n].instance
                                      /\ view.future[m].event = wanted[n].event
    BY <2>1 DEF IsView
  <2>3. LET place == PlaceOf(view, wanted[n])
        IN view.future[place].instance = wanted[n].instance /\ view.future[place].event = wanted[n].event
    BY <2>2 DEF PlaceOf
  <2>4. n \in DOMAIN X /\ X[n] = view.future[PlaceOf(view, wanted[n])]
    BY DEF HorizonRows
  <2> HIDE DEF X, wanted
  <2> QED BY <2>3, <2>4
<1>3. /\ \A n \in DOMAIN wanted :
           \E i \in Asked(view), k \in K : wanted[n].instance = i /\ wanted[n].event = Shift(view.origin, k)
      /\ \A i \in Asked(view), k \in K :
           \E n \in DOMAIN wanted : wanted[n].instance = i /\ wanted[n].event = Shift(view.origin, k)
  BY AllCellsAreAskedFor
<1>4. \A i \in Asked(view), k \in K : value[<<i, k>>] = Value(i, view.origin, Shift(view.origin, k))
  BY DEF ValuesAbout, AtOrigins
<1>5. Point \in parts /\ \A part \in parts : part = Point
  OBVIOUS
<1>6. output.kind = "point" => IsPartsOf(parts, output)
  BY OnePoint
<1>7. Rows(view, parts, value) =
        {Row(i, Shift(view.origin, k), part, value[<<i, k>>]) : i \in Asked(view), k \in K, part \in parts}
  BY DEF Rows
<1> HIDE DEF parts, value, K, predicted, wanted
<1>8. ASSUME NEW y \in rows PROVE y \in Rows(view, parts, value)
  <2>1. PICK n \in DOMAIN wanted : y = Row(wanted[n].instance, wanted[n].event, Point, predicted[n])
    OBVIOUS
  <2>2. PICK i \in Asked(view), k \in K : wanted[n].instance = i /\ wanted[n].event = Shift(view.origin, k)
    BY <1>3
  <2>3. y = Row(i, Shift(view.origin, k), Point, value[<<i, k>>])
    BY <1>2, <1>4, <2>1, <2>2
  <2> QED BY <1>5, <1>7, <2>3
<1>9. ASSUME NEW y \in Rows(view, parts, value) PROVE y \in rows
  <2>1. PICK i \in Asked(view), k \in K : y = Row(i, Shift(view.origin, k), Point, value[<<i, k>>])
    BY <1>5, <1>7
  <2>2. PICK n \in DOMAIN wanted : wanted[n].instance = i /\ wanted[n].event = Shift(view.origin, k)
    BY <1>3
  <2>3. y = Row(wanted[n].instance, wanted[n].event, Point, predicted[n])
    BY <1>2, <1>4, <2>1, <2>2
  <2> QED BY <2>3
<1>10. rows = Rows(view, parts, value)
  BY <1>8, <1>9
<1>11. ~refused => IsAnswer(forecast, view, output, Sure(view))
  <2> SUFFICES ASSUME ~refused PROVE IsAnswer(forecast, view, output, Sure(view))
    OBVIOUS
  <2>1. forecast = Rows(view, parts, ValuesAbout(view, AtOrigins(view)))
    BY <1>1, <1>10 DEF value
  <2>2. AreEnds(view, AtOrigins(view)) /\ IsPartsOf(parts, output)
    BY <1>6, OriginsAreEnds
  <2> HIDE DEF forecast
  <2> QED BY <2>1, <2>2, AboutIsAnAnswer
<1>12. refused \in BOOLEAN /\ (refused => forecast = Refused)
  BY <1>1
<1> HIDE DEF refused, rows, forecast
<1>13. Serves(forecast, view, output, refused)
  BY <1>11, <1>12, AnAnswerServes
<1> QED BY <1>13 DEF forecast, refused

-----------------------------------------------------------------------------
(* StatsForecast and NeuralForecast: long frames.                          *)

LongRow(id, of, end, n, k) ==
  [unique_id |-> id, ds |-> Shift(end, k), value |-> Continued(of, end, n)[k]]

(* The rows of an id are those of one series that is continued.            *)
IsLongSeries(predictions, id, of, end, n) ==
  {row \in predictions : row.unique_id = id} = {LongRow(id, of, end, n, k) : k \in 1 .. n}

(* The rows of an id come out in the order of their moments.               *)
LEMMA OfSeriesIs ==
  ASSUME NEW predictions, NEW id, NEW of, NEW end \in Int, NEW n \in Nat,
         IsLongSeries(predictions, id, of, end, n)
  PROVE  /\ Len(OfSeries(predictions, id)) = n
         /\ \A k \in 1 .. n : OfSeries(predictions, id)[k].value = Value(of, end, Shift(end, k))
<1> DEFINE own == {row \in predictions : row.unique_id = id}
           e == [k \in 1 .. n |-> LongRow(id, of, end, n, k)]
           before == {p \in own \X own : p[1].ds < p[2].ds}
<1>1. own = {e[k] : k \in 1 .. n}
  BY DEF IsLongSeries
<1>2. \A k \in 1 .. n : e[k] \in own /\ e[k].ds = Shift(end, k) /\ e[k].value = Value(of, end, Shift(end, k))
  <2>1. \A k \in 1 .. n : e[k] = LongRow(id, of, end, n, k)
    OBVIOUS
  <2>2. \A k \in 1 .. n : Continued(of, end, n)[k] = Value(of, end, Shift(end, k))
    BY ContinuedIs
  <2>3. \A k \in 1 .. n : LongRow(id, of, end, n, k).ds = Shift(end, k)
          /\ LongRow(id, of, end, n, k).value = Continued(of, end, n)[k]
    BY DEF LongRow
  <2> HIDE DEF e, own
  <2>4. \A k \in 1 .. n : e[k] \in own
    BY <1>1
  <2> QED BY <2>1, <2>2, <2>3, <2>4
<1> HIDE DEF e, own
<1>3. \A j, k \in 1 .. n : <<e[j], e[k]>> \in before <=> j < k
  <2> SUFFICES ASSUME NEW j \in 1 .. n, NEW k \in 1 .. n
               PROVE <<e[j], e[k]>> \in before <=> j < k
    OBVIOUS
  <2>1. <<e[j], e[k]>> \in before <=> Shift(end, j) < Shift(end, k)
    BY <1>2
  <2>2. Shift(end, j) < Shift(end, k) <=> j < k
    BY ShiftsAreApart
  <2> QED BY <2>1, <2>2
<1> HIDE DEF before
<1>4. InOrder(own, before) = [k \in 1 .. n |-> e[k]]
  BY <1>1, <1>3, InOrderAlready
<1>5. OfSeries(predictions, id) = [k \in 1 .. n |-> e[k]]
  BY <1>4 DEF OfSeries, own, before
<1> QED BY <1>2, <1>5

(* Rows that are looked up by id, and by their place among those of an id. *)
LEMMA LongAnswerServes ==
  ASSUME NEW view, IsView(view), NEW output, NEW parts, IsPartsOf(parts, output),
         NEW steps, IsSteps(steps), NEW ends, AreEnds(view, ends), NEW ids, NEW predictions,
         \A i \in Asked(view) : IsLongSeries(predictions, ids[i], i, ends[i], steps[i])
  PROVE  Serves(LongAnswer(view, ids, predictions, parts), view, output, ~Whole(view, steps))
<1> DEFINE K == 1 .. view.horizon
           refused == \E i \in ToSet(view.instances) : Len(OfSeries(predictions, ids[i])) # view.horizon
           rows == {Row(i, EventTimes(view)[k], part, OfSeries(predictions, ids[i])[k].value) :
                      i \in ToSet(view.instances), k \in 1 .. view.horizon, part \in parts}
           forecast == LongAnswer(view, ids, predictions, parts)
           value == ValuesFrom(view, ends)
           reason == ~Whole(view, steps)
<1>1. forecast = IF refused THEN Refused ELSE rows
  BY DEF LongAnswer
<1>2. ASSUME NEW i \in Asked(view)
      PROVE /\ Len(OfSeries(predictions, ids[i])) = steps[i]
            /\ \A k \in 1 .. steps[i] :
                 OfSeries(predictions, ids[i])[k].value = Value(i, ends[i], Shift(ends[i], k))
  <2>1. steps[i] \in Nat /\ ends[i] \in Int
    BY AskedOnce DEF IsSteps, AreEnds
  <2>2. IsLongSeries(predictions, ids[i], i, ends[i], steps[i])
    OBVIOUS
  <2> QED BY <2>1, <2>2, OfSeriesIs
<1>3. ASSUME ~refused PROVE rows = Rows(view, parts, value)
  <2>1. Rows(view, parts, value) =
          {Row(i, Shift(view.origin, k), part, value[<<i, k>>]) : i \in Asked(view), k \in K, part \in parts}
    BY DEF Rows
  <2>2. ASSUME NEW i \in Asked(view), NEW k \in K
        PROVE /\ OfSeries(predictions, ids[i])[k].value = value[<<i, k>>]
              /\ EventTimes(view)[k] = Shift(view.origin, k)
    <3>1. steps[i] = view.horizon
      BY <1>2, <1>3 DEF Asked
    <3>2. OfSeries(predictions, ids[i])[k].value = Value(i, ends[i], Shift(ends[i], k))
      BY <1>2, <3>1
    <3>3. value[<<i, k>>] = Value(i, ends[i], Shift(ends[i], k))
      BY DEF ValuesFrom
    <3> QED BY <3>2, <3>3, EventTimesAre
  <2>3. rows = {Row(i, EventTimes(view)[k], part, OfSeries(predictions, ids[i])[k].value) :
                  i \in Asked(view), k \in K, part \in parts}
    BY DEF Asked
  <2> HIDE DEF rows, value, K, refused
  <2>4. ASSUME NEW y \in rows PROVE y \in Rows(view, parts, value)
    <3>1. PICK i \in Asked(view), k \in K, part \in parts :
                 y = Row(i, EventTimes(view)[k], part, OfSeries(predictions, ids[i])[k].value)
      BY <2>3
    <3>2. y = Row(i, Shift(view.origin, k), part, value[<<i, k>>])
      BY <2>2, <3>1
    <3> QED BY <2>1, <3>2
  <2>5. ASSUME NEW y \in Rows(view, parts, value) PROVE y \in rows
    <3>1. PICK i \in Asked(view), k \in K, part \in parts :
                 y = Row(i, Shift(view.origin, k), part, value[<<i, k>>])
      BY <2>1
    <3>2. y = Row(i, EventTimes(view)[k], part, OfSeries(predictions, ids[i])[k].value)
      BY <2>2, <3>1
    <3> QED BY <2>3, <3>2
  <2> QED BY <2>4, <2>5
<1>4. ASSUME ~refused PROVE IsAnswer(forecast, view, output, Sure(view))
  <2>1. forecast = Rows(view, parts, ValuesFrom(view, ends))
    BY <1>1, <1>3, <1>4
  <2> HIDE DEF forecast
  <2> QED BY <2>1, ContinuedIsAnAnswer
<1>5. refused => reason
  BY <1>2 DEF Whole, Asked
<1>6. refused \in BOOLEAN /\ reason \in BOOLEAN /\ (refused => forecast = Refused)
  BY <1>1
<1> HIDE DEF refused, reason, rows, forecast
<1>7. Serves(forecast, view, output, reason)
  BY <1>4, <1>5, <1>6, AnAnswerServes
<1> QED BY <1>7 DEF forecast, reason

(* An interval has its bounds on the two sides of the middle, and a wider  *)
(* one is outside of a narrower one.                                       *)
LEMMA StatsPartsAreInOrder ==
  ASSUME NEW output, IsOutput(output), output.kind = "quantiles"
  PROVE  IsPartsOf({StatsPart(level) : level \in output.levels}, output)
<1> DEFINE L == output.levels
           T == {StatsPart(l) : l \in L}
           f == [l \in L |-> StatsPart(l)]
<1>1. IsFiniteSet(L) /\ L \subseteq 1 .. 99 /\ L # {}
  BY DEF IsOutput
<1>2. ASSUME NEW l \in L PROVE StatsPart(l)[1] = l /\ Rank(StatsPart(l)) = 2 * l - 100
  <2>1. l \in 1 .. 99 /\ StatsPart(l)[1] = l /\ StatsPart(l)[2] = BoundOf(l)
    BY <1>1 DEF StatsPart
  <2>2. CASE l = 50
    <3>1. BoundOf(l) = <<"point", 0>>
      BY <2>2 DEF BoundOf, Median
    <3> QED BY <2>1, <2>2, <3>1 DEF Rank
  <2>3. CASE l < 50
    <3>1. BoundOf(l) = <<"lo", 100 - 2 * l>>
      BY <2>1, <2>3 DEF BoundOf, Median, Confidence
    <3> QED BY <2>1, <2>3, <3>1 DEF Rank
  <2>4. CASE l > 50
    <3>1. BoundOf(l) = <<"hi", 2 * l - 100>>
      BY <2>1, <2>4 DEF BoundOf, Median, Confidence
    <3> QED BY <2>1, <2>4, <3>1 DEF Rank
  <2> QED BY <2>1, <2>2, <2>3, <2>4
<1>3. T = {f[l] : l \in L} /\ \A l \in L : f[l][1] = l
  BY <1>2
<1>4. T # {}
  BY <1>1
<1>5. \A p, q \in T : p[1] < q[1] => Rank(p) < Rank(q)
  <2> SUFFICES ASSUME NEW l \in L, NEW m \in L, StatsPart(l)[1] < StatsPart(m)[1]
               PROVE Rank(StatsPart(l)) < Rank(StatsPart(m))
    OBVIOUS
  <2>1. l \in 1 .. 99 /\ m \in 1 .. 99 /\ l < m
    BY <1>1, <1>2
  <2>2. Rank(StatsPart(l)) = 2 * l - 100 /\ Rank(StatsPart(m)) = 2 * m - 100
    BY <1>2
  <2> QED BY <2>1, <2>2
<1> HIDE DEF f, L
<1>8. IsFiniteSet({f[l] : l \in L}) /\ Cardinality({f[l] : l \in L}) = Cardinality(L)
  BY <1>1, <1>3, PartsOfLevels
<1> HIDE DEF T
<1>6. IsFiniteSet(T) /\ Cardinality(T) = Cardinality(L)
  BY <1>3, <1>8
<1> USE DEF L
<1>7. IsPartsOf(T, output)
  BY <1>4, <1>5, <1>6 DEF IsPartsOf
<1> QED BY <1>7 DEF T

(* The series of a fit, by ids that are told apart by their instances.     *)
IsFittedSeries(state, samples) ==
  state.series = {[ unique_id |-> SeriesId(s), key |-> s.instance,
                    last |-> Max(EventsIn(s.outcomes)) ] : s \in samples}

(* The series of an instance whose fit ended at the origin.                *)
LEMMA StatsSeriesAre ==
  ASSUME NEW view, NEW steps, NEW samples, IsSeries(samples),
         NEW state, IsFittedSeries(state, samples),
         AtItsOrigin(state, view), NEW i \in Asked(view)
  PROVE  IsLongSeries(StatsPredicts(state, steps), UniqueIds(state)[i], i, view.origin, steps[i])
<1> DEFINE predictions == StatsPredicts(state, steps)
           rowsOf(one) == {[unique_id |-> one.unique_id, ds |-> Shift(one.last, k),
                            value |-> Continued(one.key, one.last, steps[one.key])[k]] :
                             k \in 1 .. steps[one.key]}
<1>1. predictions = UNION {rowsOf(one) : one \in state.series}
  BY DEF StatsPredicts
<1>2. PICK one \in state.series : one.key = i /\ one.last = view.origin
  BY DEF AtItsOrigin, Asked
<1>3. \A that \in state.series : that.key = i => that = one
  BY <1>2 DEF IsFittedSeries, IsSeries
<1>4. \A that \in state.series : that.unique_id = one.unique_id => that = one
  <2> SUFFICES ASSUME NEW that \in state.series, that.unique_id = one.unique_id PROVE that = one
    OBVIOUS
  <2>1. PICK s \in samples : that.unique_id = <<s.instance, s.origin>> /\ that.key = s.instance
    BY DEF IsFittedSeries, SeriesId
  <2>2. PICK r \in samples : one.unique_id = <<r.instance, r.origin>> /\ one.key = r.instance
    BY DEF IsFittedSeries, SeriesId
  <2>3. <<s.instance, s.origin>> = <<r.instance, r.origin>>
    BY <2>1, <2>2
  <2>4. s.instance = r.instance
    BY <2>3
  <2>5. that.key = i
    BY <1>2, <2>1, <2>2, <2>4
  <2> QED BY <1>3, <2>5
<1>5. UniqueIds(state)[i] = one.unique_id
  <2>1. i \in {that.key : that \in state.series}
    BY <1>2
  <2>2. UniqueIds(state)[i] = (CHOOSE that \in state.series : that.key = i).unique_id
    BY <2>1 DEF UniqueIds
  <2>3. (CHOOSE that \in state.series : that.key = i) = one
    BY <1>2, <1>3
  <2> QED BY <2>2, <2>3
<1> DEFINE own == {row \in predictions : row.unique_id = one.unique_id}
           long == {LongRow(one.unique_id, i, view.origin, steps[i], k) : k \in 1 .. steps[i]}
<1>6. rowsOf(one) = long
  BY <1>2 DEF LongRow
<1>7. \A that : \A row \in rowsOf(that) : row.unique_id = that.unique_id
  OBVIOUS
<1> HIDE DEF predictions, rowsOf, long
<1>8. ASSUME NEW y \in own PROVE y \in long
  BY <1>1, <1>4, <1>6, <1>7
<1>9. ASSUME NEW y \in long PROVE y \in own
  BY <1>1, <1>2, <1>6, <1>7
<1>10. own = long
  BY <1>8, <1>9
<1> QED BY <1>5, <1>10 DEF IsLongSeries, long, predictions

(* StatsForecast answers where it was fitted, in the kinds it declares.    *)
LEMMA StatsAnswers ==
  ASSUME NEW view, IsView(view), NEW output, IsOutput(output), NEW steps, IsSteps(steps),
         NEW samples, IsSeries(samples), NEW state, IsFittedSeries(state, samples),
         NEW adapter, NEW exogenous, NEW quantiles, adapter.declares = StatsDeclares(exogenous, quantiles)
  PROVE  Serves(StatsForecast(adapter, state, view, output, steps), view, output,
                \/ output.kind \notin adapter.declares.outputs \/ ~FittedAt(samples, view)
                \/ ~(state.exogenous \subseteq view.roles) \/ ~Whole(view, steps))
<1> DEFINE refused == \/ output.kind \notin adapter.declares.outputs
                      \/ ~AtItsOrigin(state, view)
                      \/ ~(state.exogenous \subseteq view.roles)
           parts == IF output.kind = "point" THEN {Point}
                    ELSE {StatsPart(level) : level \in output.levels}
           forecast == StatsForecast(adapter, state, view, output, steps)
           reason == \/ output.kind \notin adapter.declares.outputs \/ ~FittedAt(samples, view)
                     \/ ~(state.exogenous \subseteq view.roles) \/ ~Whole(view, steps)
           ids == UniqueIds(state)
           predictions == StatsPredicts(state, steps)
<1>1. forecast = IF refused THEN Refused ELSE LongAnswer(view, ids, predictions, parts)
  BY DEF StatsForecast
<1>2. CASE refused
  <2>1. forecast = Refused
    <3> HIDE DEF forecast, refused
    <3> QED BY <1>1, <1>2
  <2>2. FittedAt(samples, view) => AtItsOrigin(state, view)
    <3> SUFFICES ASSUME FittedAt(samples, view), NEW i \in ToSet(view.instances)
                 PROVE \E one \in state.series : one.key = i /\ one.last = view.origin
      BY DEF AtItsOrigin
    <3>1. PICK s \in samples : s.instance = i
      BY DEF FittedAt, InstancesIn, Asked
    <3>2. Max(EventsIn(s.outcomes)) = view.origin
      BY DEF FittedAt
    <3> DEFINE one == [unique_id |-> SeriesId(s), key |-> s.instance, last |-> Max(EventsIn(s.outcomes))]
    <3>3. one \in state.series
      BY DEF IsFittedSeries
    <3>4. one.key = i /\ one.last = view.origin
      BY <3>1, <3>2
    <3> HIDE DEF one
    <3> QED BY <3>3, <3>4
  <2>3. reason
    BY <1>2, <2>2
  <2> HIDE DEF forecast, reason
  <2>4. Serves(forecast, view, output, reason)
    BY <2>1, <2>3, RefusalServes
  <2> QED BY <2>4 DEF forecast, reason
<1>3. CASE ~refused
  <2>1. AtItsOrigin(state, view) /\ output.kind \in {"point", "quantiles"}
    BY <1>3 DEF StatsDeclares, Declared
  <2>2. IsPartsOf(parts, output)
    <3>1. CASE output.kind = "point"
      BY <3>1, OnePoint
    <3>2. CASE output.kind = "quantiles"
      BY <3>2, StatsPartsAreInOrder
    <3> QED BY <2>1, <3>1, <3>2
  <2>3. AreEnds(view, AtOrigins(view))
    BY OriginsAreEnds
  <2> HIDE DEF parts, ids, predictions
  <2>4. \A i \in Asked(view) : IsLongSeries(predictions, ids[i], i, AtOrigins(view)[i], steps[i])
    BY <2>1, StatsSeriesAre DEF AtOrigins, ids, predictions
  <2>5. Serves(LongAnswer(view, ids, predictions, parts), view, output, ~Whole(view, steps))
    BY <2>2, <2>3, <2>4, LongAnswerServes
  <2>6. ~Whole(view, steps) => reason
    OBVIOUS
  <2>7. forecast = LongAnswer(view, ids, predictions, parts)
    <3> HIDE DEF forecast, refused
    <3> QED BY <1>1, <1>3
  <2> HIDE DEF forecast, reason
  <2>8. Serves(forecast, view, output, reason)
    BY <2>5, <2>6, <2>7, ServesForLess
  <2> QED BY <2>8 DEF forecast, reason
<1> QED BY <1>2, <1>3

(* The series of an instance that a global model continues: it goes by the *)
(* place of the instance, which no other one has.                          *)
LEMMA NeuralSeriesAre ==
  ASSUME NEW view, IsView(view), NEW state, NEW steps, NEW i \in Asked(view)
  PROVE  IsLongSeries(NeuralPredicts(state, view, steps), InstanceIds(view)[i], i, Max(view.history[i]), steps[i])
<1> DEFINE predictions == NeuralPredicts(state, view, steps)
           ids == InstanceIds(view)
           rowsOf(j) == {[unique_id |-> InstanceIds(view)[j], ds |-> Shift(Max(view.history[j]), k),
                          value |-> Continued(j, Max(view.history[j]), steps[j])[k]] :
                           k \in 1 .. steps[j]}
           own == {row \in predictions : row.unique_id = ids[i]}
           long == {LongRow(ids[i], i, Max(view.history[i]), steps[i], k) : k \in 1 .. steps[i]}
<1>1. predictions = UNION {rowsOf(j) : j \in Asked(view)}
  BY DEF NeuralPredicts, Asked
<1>2. \A j \in Asked(view) : view.instances[ids[j]] = j
  BY DEF InstanceIds, Asked, ToSet
<1>3. \A j \in Asked(view) : ids[j] = ids[i] => j = i
  <2> HIDE DEF ids
  <2> QED BY <1>2
<1>4. rowsOf(i) = long
  BY DEF LongRow
<1>5. \A j : \A row \in rowsOf(j) : row.unique_id = ids[j]
  OBVIOUS
<1> HIDE DEF predictions, rowsOf, long, ids
<1>6. ASSUME NEW y \in own PROVE y \in long
  BY <1>1, <1>3, <1>4, <1>5
<1>7. ASSUME NEW y \in long PROVE y \in own
  BY <1>1, <1>4, <1>5
<1>8. own = long
  BY <1>6, <1>7
<1> QED BY <1>8 DEF IsLongSeries, long, predictions, ids

(* NeuralForecast answers about the histories it is handed, over the       *)
(* window it learned.                                                      *)
LEMMA NeuralAnswers ==
  ASSUME NEW view, IsView(view), NEW output, NEW steps, IsSteps(steps), NEW state
  PROVE  Serves(NeuralForecast(state, view, output, steps), view, output,
                \/ output.kind # "point" \/ ~NeuralWindow(state, view)
                \/ ~(state.roles \subseteq view.roles) \/ ~Whole(view, steps))
<1> DEFINE refused == \/ output.kind # "point" \/ ~NeuralWindow(state, view)
                      \/ ~(state.roles \subseteq view.roles)
           ends == [i \in Asked(view) |-> Max(view.history[i])]
           forecast == NeuralForecast(state, view, output, steps)
           reason == \/ output.kind # "point" \/ ~NeuralWindow(state, view)
                     \/ ~(state.roles \subseteq view.roles) \/ ~Whole(view, steps)
           ids == InstanceIds(view)
           predictions == NeuralPredicts(state, view, steps)
           parts == {Point}
<1>1. forecast = IF refused THEN Refused ELSE LongAnswer(view, ids, predictions, parts)
  BY DEF NeuralForecast
<1>2. CASE refused
  <2>1. forecast = Refused
    <3> HIDE DEF forecast, refused
    <3> QED BY <1>1, <1>2
  <2>2. reason
    BY <1>2
  <2> HIDE DEF forecast, reason
  <2>3. Serves(forecast, view, output, reason)
    BY <2>1, <2>2, RefusalServes
  <2> QED BY <2>3 DEF forecast, reason
<1>3. CASE ~refused
  <2>1. IsPartsOf(parts, output)
    BY <1>3, OnePoint
  <2>2. AreEnds(view, ends)
    BY HistoriesEnd DEF AreEnds
  <2>3. \A i \in Asked(view) : IsLongSeries(predictions, ids[i], i, ends[i], steps[i])
    <3>1. \A i \in Asked(view) : ends[i] = Max(view.history[i])
      OBVIOUS
    <3> HIDE DEF predictions, ids, ends
    <3> QED BY <3>1, NeuralSeriesAre DEF predictions, ids
  <2> HIDE DEF parts, ids, predictions, ends
  <2>4. Serves(LongAnswer(view, ids, predictions, parts), view, output, ~Whole(view, steps))
    BY <2>1, <2>2, <2>3, LongAnswerServes
  <2>5. ~Whole(view, steps) => reason
    OBVIOUS
  <2>6. forecast = LongAnswer(view, ids, predictions, parts)
    <3> HIDE DEF forecast, refused
    <3> QED BY <1>1, <1>3
  <2> HIDE DEF forecast, reason
  <2>7. Serves(forecast, view, output, reason)
    BY <2>4, <2>5, <2>6, ServesForLess
  <2> QED BY <2>7 DEF forecast, reason
<1> QED BY <1>2, <1>3

-----------------------------------------------------------------------------
(* The seasonal naive model.                                               *)

(* The tail of a series is its last moments, one season of them.           *)
LEMMA TheLastSeason ==
  ASSUME NEW s, IsSample(s), NEW season \in Nat \ {0}, Len(Ordered(s)) >= season
  PROVE  LET entry == Remembers(s, season)
             last == Max(EventsIn(s.outcomes))
         IN /\ entry.last = last /\ last \in Int
            /\ \A p \in 1 .. season :
                 /\ entry.tail[p] \in Int /\ entry.tail[p] <= last
                 /\ Unbroken(EventsIn(s.outcomes), last) => entry.tail[p] = Shift(last, p - season)
<1> DEFINE S == EventsIn(s.outcomes)
           n == Cardinality(S)
           times == InOrder(S, Earlier(S))
           entry == Remembers(s, season)
           last == Max(S)
<1>1. IsFiniteSet(S) /\ S \subseteq Int /\ S # {}
  BY DEF IsSample
<1>2. Ordered(s) = times
  BY DEF Ordered, Earlier
<1> HIDE DEF S
<1>3. /\ n \in Nat \ {0} /\ times \in [1 .. n -> S] /\ times[n] = last
      /\ \A k \in 1 .. n : times[k] <= last
  BY <1>1, MomentsInOrder
<1>4. last \in Int
  BY <1>1, MaxIsOneOfThem
<1>5. Unbroken(S, last) => \A k \in 1 .. n : times[k] = Shift(last, k - n)
  BY <1>1, UnbrokenInOrder
<1> HIDE DEF n, times, last
<1>6. times \in Seq(S) /\ Len(times) = n
  BY <1>3
<1>7. entry.last = times[n] /\ entry.tail = SubSeq(times, n - season + 1, n) /\ season <= n
  BY <1>2, <1>6 DEF Remembers
<1> HIDE DEF entry
<1>8. ASSUME NEW p \in 1 .. season
      PROVE /\ entry.tail[p] \in Int /\ entry.tail[p] <= last
            /\ Unbroken(S, last) => entry.tail[p] = Shift(last, p - season)
  <2> DEFINE k == n - season + p
  <2>1. k \in 1 .. n /\ k - n = p - season
    BY <1>3, <1>7
  <2>2. entry.tail[p] = times[k]
    BY <1>3, <1>6, <1>7
  <2> HIDE DEF k
  <2>3. times[k] \in Int /\ times[k] <= last
    BY <1>1, <1>3, <2>1
  <2> QED BY <1>5, <2>1, <2>2, <2>3
<1> QED BY <1>3, <1>4, <1>7, <1>8 DEF S, last, entry

(* The row of the season before, brought forward by whole seasons.         *)
LEMMA SeasonAgoIs ==
  ASSUME NEW s, IsSample(s), NEW season \in Nat \ {0}, Len(Ordered(s)) >= season,
         NEW moment \in Int, IsAhead(Remembers(s, season), moment), NEW instance
  PROVE  LET value == SeasonAgo(Remembers(s, season), season, instance, moment)
             last == Max(EventsIn(s.outcomes))
         IN /\ value.of = instance /\ value.from \in Int /\ last \in Int /\ value.from <= last
            /\ Unbroken(EventsIn(s.outcomes), last) => value.about = moment
<1> DEFINE entry == Remembers(s, season)
           last == Max(EventsIn(s.outcomes))
           ahead == StepsAhead(entry, moment)
           q == (ahead - 1) \div season
           r == (ahead - 1) % season
           row == entry.tail[r + 1]
           value == SeasonAgo(entry, season, instance, moment)
<1>1. /\ entry.last = last /\ last \in Int
      /\ \A p \in 1 .. season :
           /\ entry.tail[p] \in Int /\ entry.tail[p] <= last
           /\ Unbroken(EventsIn(s.outcomes), last) => entry.tail[p] = Shift(last, p - season)
  BY TheLastSeason
<1>2. value = Value(instance, row, Shift(row, (q + 1) * season))
  BY DEF SeasonAgo, Phase
<1> DEFINE gap == moment - last
<1>3. gap \in Nat \ {0} /\ gap % Period = 0 /\ ahead = gap \div Period
  BY <1>1 DEF IsAhead, StepsAhead
<1> HIDE DEF entry, last, ahead, value
<1>4. Period \in Nat \ {0}
  BY PeriodAssumption
<1>5. ahead \in Nat \ {0} /\ gap = ahead * Period
  <2> HIDE DEF gap
  <2>1. ahead \in Int /\ gap = ahead * Period
    BY <1>3, <1>4
  <2>2. ahead >= 1
    <3> SUFFICES ASSUME ahead <= 0 PROVE FALSE
      BY <2>1
    <3>1. (0 - ahead) * Period \in Nat /\ ahead * Period = 0 - (0 - ahead) * Period
      BY <1>4, <2>1
    <3> QED BY <1>3, <2>1, <3>1
  <2> QED BY <2>1, <2>2
<1>6. q \in Int /\ r \in 0 .. season - 1 /\ ahead - 1 = q * season + r
  BY <1>5
<1> HIDE DEF q, r
<1>7. r + 1 \in 1 .. season
  BY <1>6
<1>8. row \in Int /\ row <= last
  BY <1>1, <1>7
<1>9. ASSUME Unbroken(EventsIn(s.outcomes), last) PROVE Shift(row, (q + 1) * season) = moment
  <2>1. row = Shift(last, (r + 1) - season)
    <3>1. \A p \in 1 .. season : entry.tail[p] = Shift(last, p - season)
      BY <1>1, <1>9
    <3> DEFINE p == r + 1
    <3>2. p \in 1 .. season
      BY <1>7
    <3> HIDE DEF p
    <3>3. entry.tail[p] = Shift(last, p - season)
      BY <3>1, <3>2
    <3> QED BY <3>3 DEF p
  <2>2. (q + 1) * season \in Int /\ (q + 1) * season = q * season + season /\ q * season \in Int
    BY <1>6
  <2> DEFINE a == (r + 1) - season
             b == (q + 1) * season
  <2>3. a \in Int /\ b \in Int /\ a + b = ahead
    BY <1>5, <1>6, <2>2
  <2> HIDE DEF a, b
  <2>4. a * Period + b * Period = ahead * Period /\ a * Period \in Int /\ b * Period \in Int
    BY <1>4, <2>3
  <2>5. Shift(row, b) = last + ahead * Period
    BY <1>1, <2>1, <2>4 DEF Shift, a
  <2>6. moment = last + ahead * Period
    BY <1>1, <1>5
  <2> QED BY <2>5, <2>6 DEF b
<1> HIDE DEF row
<1>10. /\ value.of = instance /\ value.from \in Int /\ last \in Int /\ value.from <= last
       /\ Unbroken(EventsIn(s.outcomes), last) => value.about = moment
  BY <1>1, <1>2, <1>8, <1>9 DEF Value
<1> QED BY <1>10 DEF value, last, entry

(* What comes at least a step before the step after the origin is not      *)
(* after the origin.                                                       *)
LEMMA AheadByAStep ==
  ASSUME NEW origin \in Int, NEW last \in Int,
         Shift(origin, 1) > last, (Shift(origin, 1) - last) % Period = 0
  PROVE  last <= origin
<1> DEFINE gap == Shift(origin, 1) - last
           c == gap \div Period
<1>1. Period \in Nat \ {0}
  BY PeriodAssumption
<1>2. Shift(origin, 1) = origin + Period
  BY <1>1 DEF Shift
<1>3. gap \in Int /\ gap % Period = 0 /\ gap > 0 /\ gap = origin + (Period - last)
  BY <1>1, <1>2
<1> HIDE DEF gap
<1>4. c \in Int /\ gap = c * Period
  BY <1>1, <1>3
<1> HIDE DEF c
<1>5. c >= 1
  <2> SUFFICES ASSUME c <= 0 PROVE FALSE
    BY <1>4
  <2>1. (0 - c) * Period \in Nat /\ c * Period = 0 - (0 - c) * Period
    BY <1>1, <1>4
  <2> QED BY <1>3, <1>4, <2>1
<1>6. (c - 1) * Period \in Nat /\ c * Period = (c - 1) * Period + Period
  BY <1>1, <1>4, <1>5
<1> QED BY <1>1, <1>3, <1>4, <1>6

(* The instances whose series had no gap when it was fitted.               *)
SureAtTheFit(view, samples) ==
  {i \in Asked(view) : \A s \in samples :
     s.instance = i => Unbroken(EventsIn(s.outcomes), Max(EventsIn(s.outcomes)))}

(* What a season of every series is remembered as.                         *)
IsRemembered(state, samples) ==
  /\ state.season \in Nat \ {0}
  /\ DOMAIN state.series = InstancesIn(samples)
  /\ \A s \in samples : /\ Len(Ordered(s)) >= state.season
                        /\ state.series[s.instance] = Remembers(s, state.season)

(* A fit remembers a season of every series.                               *)
LEMMA SeasonalFitRemembers ==
  ASSUME NEW view, IsSeries(view.samples), NEW built, built.season_length.size \in Nat \ {0},
         SeasonalFits(view, built)
  PROVE  IsRemembered(SeasonalFit(view, built), view.samples)
<1> DEFINE state == SeasonalFit(view, built)
           season == built.season_length.size
<1>1. ASSUME NEW s \in view.samples PROVE state.series[s.instance] = Remembers(s, season)
  <2>1. s.instance \in InstancesIn(view.samples)
    BY DEF InstancesIn
  <2>2. (CHOOSE r \in view.samples : r.instance = s.instance) = s
    BY DEF IsSeries
  <2> QED BY <2>1, <2>2 DEF SeasonalFit
<1>2. state.season = season /\ DOMAIN state.series = InstancesIn(view.samples)
  BY DEF SeasonalFit
<1> HIDE DEF state
<1> QED BY <1>1, <1>2 DEF IsRemembered, SeasonalFits, state

(* A season ago is the step it should be if the series had no gap. The     *)
(* last moment of a fit is not after the origin, because every step that   *)
(* is asked for comes after it, the first one too.                         *)
LEMMA SeasonalAnswersAre ==
  ASSUME NEW view, IsView(view), NEW output, NEW samples, IsSeries(samples),
         NEW state, IsRemembered(state, samples)
  PROVE  /\ \/ SeasonalForecast(state, view, output.kind) = Refused
            \/ IsAnswer(SeasonalForecast(state, view, output.kind), view, output, SureAtTheFit(view, samples))
         /\ output.kind = "point" /\ FittedAt(samples, view)
              => SeasonalForecast(state, view, output.kind) # Refused
<1> DEFINE K == 1 .. view.horizon
           fut == view.future
           served == SeasonalAnswers(state, view, output.kind)
           forecast == SeasonalForecast(state, view, output.kind)
           ago(i, t) == SeasonAgo(state.series[i], state.season, i, t)
           rows == {Row(fut[n].instance, fut[n].event, Point, ago(fut[n].instance, fut[n].event)) : n \in DOMAIN fut}
           value == [c \in Asked(view) \X K |-> ago(c[1], Shift(view.origin, c[2]))]
           parts == {Point}
           sure == SureAtTheFit(view, samples)
<1>1. forecast = IF served THEN rows ELSE Refused
  BY DEF SeasonalForecast
<1>2. /\ view.origin \in Int /\ view.horizon \in Nat \ {0} /\ 1 \in K
      /\ \A n \in DOMAIN fut : /\ fut[n].instance \in Asked(view)
                               /\ \E k \in K : fut[n].event = Shift(view.origin, k)
      /\ \A i \in Asked(view), k \in K :
           \E n \in DOMAIN fut : fut[n].instance = i /\ fut[n].event = Shift(view.origin, k)
  BY DEF IsView
<1>4. ASSUME served, NEW i \in Asked(view)
      PROVE \E s \in samples :
              /\ s.instance = i /\ state.series[i] = Remembers(s, state.season)
              /\ \A k \in K : IsAhead(state.series[i], Shift(view.origin, k))
              /\ Max(EventsIn(s.outcomes)) <= view.origin
  <2>1. \A k \in K : i \in DOMAIN state.series /\ IsAhead(state.series[i], Shift(view.origin, k))
    BY <1>2, <1>4 DEF SeasonalAnswers
  <2>2. PICK s \in samples : s.instance = i
    BY <1>2, <2>1 DEF IsRemembered, InstancesIn
  <2>3. state.series[i] = Remembers(s, state.season) /\ IsSample(s)
        /\ state.season \in Nat \ {0} /\ Len(Ordered(s)) >= state.season
    BY <2>2 DEF IsRemembered, IsSeries
  <2> DEFINE last == Max(EventsIn(s.outcomes))
  <2>4. state.series[i].last = last /\ last \in Int
    BY <2>3, TheLastSeason
  <2>5. Shift(view.origin, 1) > last /\ (Shift(view.origin, 1) - last) % Period = 0
    BY <1>2, <2>1, <2>4 DEF IsAhead
  <2>7. last <= view.origin
    BY <1>2, <2>4, <2>5, AheadByAStep
  <2> QED BY <2>1, <2>2, <2>3, <2>7
<1>5. ASSUME served, NEW i \in Asked(view), NEW k \in K
      PROVE /\ value[<<i, k>>].of = i
            /\ value[<<i, k>>].from <= view.origin
            /\ i \in sure => value[<<i, k>>].about = Shift(view.origin, k)
  <2>1. PICK s \in samples :
               /\ s.instance = i /\ state.series[i] = Remembers(s, state.season)
               /\ \A m \in K : IsAhead(state.series[i], Shift(view.origin, m))
               /\ Max(EventsIn(s.outcomes)) <= view.origin
    BY <1>4, <1>5
  <2> DEFINE moment == Shift(view.origin, k)
             last == Max(EventsIn(s.outcomes))
             x == ago(i, moment)
  <2>2. moment \in Int
    <3>1. k \in Int /\ view.origin \in Int
      BY <1>2
    <3> QED BY <3>1, ShiftIsInt
  <2>3. IsSample(s) /\ state.season \in Nat \ {0} /\ Len(Ordered(s)) >= state.season
    BY DEF IsSeries, IsRemembered
  <2>4. IsAhead(Remembers(s, state.season), moment)
    BY <2>1
  <2>5. x = SeasonAgo(Remembers(s, state.season), state.season, i, moment)
    BY <2>1
  <2> HIDE DEF moment, x
  <2>7. /\ x.of = i /\ x.from \in Int /\ last \in Int /\ x.from <= last
        /\ Unbroken(EventsIn(s.outcomes), last) => x.about = moment
    BY <2>2, <2>3, <2>4, <2>5, SeasonAgoIs
  <2>8. i \in sure => Unbroken(EventsIn(s.outcomes), last)
    BY <2>1 DEF SureAtTheFit
  <2>9. value[<<i, k>>] = x
    BY DEF x, moment
  <2>10. x.from \in Int /\ last \in Int
    BY <2>7
  <2> HIDE DEF value
  <2> QED BY <1>2, <2>1, <2>7, <2>8, <2>9, <2>10 DEF moment
<1>6. Point \in parts /\ \A part \in parts : part = Point
  OBVIOUS
<1>7. output.kind = "point" => IsPartsOf(parts, output)
  BY OnePoint
<1>8. served => output.kind = "point"
  BY DEF SeasonalAnswers
<1>9. \A i \in Asked(view), k \in K : value[<<i, k>>] = ago(i, Shift(view.origin, k))
  OBVIOUS
<1>10. Rows(view, parts, value) =
         {Row(i, Shift(view.origin, k), part, value[<<i, k>>]) : i \in Asked(view), k \in K, part \in parts}
  BY DEF Rows
<1>11. rows = {Row(fut[n].instance, fut[n].event, Point, ago(fut[n].instance, fut[n].event)) : n \in DOMAIN fut}
  OBVIOUS
<1>12. output.kind = "point" /\ FittedAt(samples, view) => served
  <2> SUFFICES ASSUME output.kind = "point", FittedAt(samples, view), NEW n \in DOMAIN fut
               PROVE fut[n].instance \in DOMAIN state.series
                     /\ IsAhead(state.series[fut[n].instance], fut[n].event)
    BY DEF SeasonalAnswers
  <2>1. PICK k \in K : fut[n].event = Shift(view.origin, k)
    BY <1>2
  <2>2. fut[n].instance \in InstancesIn(samples)
    BY <1>2 DEF FittedAt
  <2>3. PICK s \in samples : s.instance = fut[n].instance
    BY <2>2 DEF InstancesIn
  <2>4. state.series[s.instance] = Remembers(s, state.season) /\ IsSample(s)
        /\ state.season \in Nat \ {0} /\ Len(Ordered(s)) >= state.season
    BY DEF IsRemembered, IsSeries
  <2>5. state.series[s.instance].last = view.origin
    <3>1. Remembers(s, state.season).last = Max(EventsIn(s.outcomes))
      BY <2>4, TheLastSeason
    <3> QED BY <2>4, <3>1 DEF FittedAt
  <2>6. Shift(view.origin, k) > view.origin /\ (Shift(view.origin, k) - view.origin) % Period = 0
    <3>1. Period \in Nat \ {0} /\ k \in Nat \ {0} /\ view.origin \in Int
      BY <1>2, PeriodAssumption
    <3>2. k * Period > 0 /\ k * Period \in Nat /\ (k * Period) % Period = 0
      BY <3>1
    <3>3. Shift(view.origin, k) = view.origin + k * Period
      BY DEF Shift
    <3>4. Shift(view.origin, k) - view.origin = k * Period
      BY <3>1, <3>2, <3>3
    <3> QED BY <3>1, <3>2, <3>3, <3>4
  <2>7. IsAhead(state.series[s.instance], Shift(view.origin, k))
    BY <2>5, <2>6 DEF IsAhead
  <2> QED BY <2>1, <2>2, <2>3, <2>7 DEF IsRemembered
<1> HIDE DEF parts, value, K, rows, forecast, served, ago, sure, fut
<1>13. ASSUME NEW y \in rows PROVE y \in Rows(view, parts, value)
  <2>1. PICK n \in DOMAIN fut : y = Row(fut[n].instance, fut[n].event, Point, ago(fut[n].instance, fut[n].event))
    BY <1>11
  <2>2. PICK k \in K : fut[n].event = Shift(view.origin, k)
    BY <1>2
  <2> DEFINE i == fut[n].instance
  <2>3. i \in Asked(view)
    BY <1>2
  <2> HIDE DEF i
  <2>4. y = Row(i, Shift(view.origin, k), Point, value[<<i, k>>])
    BY <1>9, <2>1, <2>2, <2>3 DEF i
  <2> QED BY <1>6, <1>10, <2>3, <2>4
<1>14. ASSUME NEW y \in Rows(view, parts, value) PROVE y \in rows
  <2>1. PICK i \in Asked(view), k \in K : y = Row(i, Shift(view.origin, k), Point, value[<<i, k>>])
    BY <1>6, <1>10
  <2>2. PICK n \in DOMAIN fut : fut[n].instance = i /\ fut[n].event = Shift(view.origin, k)
    BY <1>2
  <2>3. y = Row(fut[n].instance, fut[n].event, Point, ago(fut[n].instance, fut[n].event))
    BY <1>9, <2>1, <2>2
  <2> QED BY <1>11, <2>3
<1>15. rows = Rows(view, parts, value)
  BY <1>13, <1>14
<1>16. ASSUME served PROVE IsAnswer(forecast, view, output, sure)
  <2>1. forecast = Rows(view, parts, value) /\ IsPartsOf(parts, output)
    BY <1>1, <1>7, <1>8, <1>15, <1>16
  <2> QED BY <1>5, <1>16, <2>1 DEF IsAnswer, K
<1>17. served => forecast # Refused
  BY <1>16, AnswersHaveRows
<1>18. forecast = Refused \/ IsAnswer(forecast, view, output, sure)
  BY <1>1, <1>16
<1> QED BY <1>12, <1>17, <1>18 DEF forecast, sure

-----------------------------------------------------------------------------
(* What a fit leaves behind.                                               *)

(* What is known of a model's state and of the view it was made from.      *)
IsLearned(adapter, state, view) ==
  /\ view.kind = adapter.declares.view
  /\ view.kind = "sequences" => view.context \in Nat
  /\ view.kind = "series" => IsSeries(view.samples)
  /\ adapter.protocol = "seasonal_naive" => IsRemembered(state, view.samples)
  /\ adapter.protocol = "stats" => IsFittedSeries(state, view.samples) /\ state.exogenous = view.roles
  /\ adapter.protocol \in {"darts_local", "sktime_local"} => IsLocal(state, view.samples)
  /\ adapter.protocol \in {"neural", "darts_global", "sktime_panel"} =>
       state.roles = view.roles /\ state.context = view.context
  /\ adapter.protocol \in {"neural", "darts_global"} => state.horizon = view.horizon
  /\ adapter.protocol = "sklearn" => state.features \subseteq view.roles
  /\ adapter.declares.bound => state.windows = {EventsIn(s.outcomes) : s \in view.samples}

(* The contract of every protocol.                                         *)
LEMMA ContractsAre ==
  ASSUME NEW adapter, IsAdapter(adapter)
  PROVE  /\ adapter.protocol \in {"seasonal_naive", "stats", "darts_local", "sktime_local"}
              => adapter.declares.view = "series"
         /\ adapter.protocol \in {"neural", "darts_global", "sktime_panel"} => adapter.declares.view = "sequences"
         /\ adapter.protocol = "sklearn" => adapter.declares.view = "tabular"
         /\ adapter.protocol = "chronos" <=> adapter.declares.view = "none"
         /\ adapter.declares.bound =>
              \/ adapter.protocol = "neural"
              \/ adapter.protocol = "darts_global" /\ "output_chunk_length" \in adapter.sets
         /\ adapter.protocol \in {"seasonal_naive", "stats", "neural", "darts_local", "darts_global",
                                  "sktime_local", "sktime_panel", "sklearn", "chronos"}
<1> DEFINE p == adapter.protocol
           v == adapter.declares.view
           b == adapter.declares.bound
<1>2. \/ p \in {"seasonal_naive", "stats", "darts_local", "sktime_local"} /\ v = "series" /\ ~b
      \/ p = "neural" /\ v = "sequences" /\ b
      \/ p = "darts_global" /\ v = "sequences" /\ (b => "output_chunk_length" \in adapter.sets)
      \/ p = "sktime_panel" /\ v = "sequences" /\ ~b
      \/ p = "sklearn" /\ v = "tabular" /\ ~b
      \/ p = "chronos" /\ v = "none" /\ ~b
  <2>1. CASE p = "seasonal_naive" /\ adapter.declares = SeasonalDeclares
    BY <2>1 DEF SeasonalDeclares, Declared
  <2>2. CASE p = "stats" /\ \E exogenous, quantiles \in BOOLEAN : adapter.declares = StatsDeclares(exogenous, quantiles)
    BY <2>2 DEF StatsDeclares, Declared
  <2>3. CASE p = "neural" /\ \E roles : adapter.declares = NeuralDeclares(roles)
    BY <2>3 DEF NeuralDeclares, Declared
  <2>4. CASE p = "darts_local" /\ adapter.declares = DartsLocalDeclares
    BY <2>4 DEF DartsLocalDeclares, Declared
  <2>5. CASE p = "darts_global" /\
             \E accepted : adapter.declares = DartsGlobalDeclares("output_chunk_length" \in adapter.sets, accepted)
    <3>1. PICK accepted : adapter.declares = DartsGlobalDeclares("output_chunk_length" \in adapter.sets, accepted)
      BY <2>5
    <3> DEFINE bounds == "output_chunk_length" \in adapter.sets
    <3> HIDE DEF bounds
    <3>2. adapter.declares = [view |-> "sequences", bound |-> bounds, roles |-> accepted, outputs |-> {"point"}]
      BY <3>1 DEF DartsGlobalDeclares, Declared, bounds
    <3>3. v = "sequences"
      BY <3>2
    <3>4. b = bounds
      BY <3>2
    <3>5. b => "output_chunk_length" \in adapter.sets
      BY <3>4 DEF bounds
    <3> QED BY <2>5, <3>3, <3>5
  <2>6. CASE p = "sktime_local" /\ adapter.declares = SktimeLocalDeclares
    BY <2>6 DEF SktimeLocalDeclares, Declared
  <2>7. CASE p = "sktime_panel" /\ adapter.declares = SktimePanelDeclares
    BY <2>7 DEF SktimePanelDeclares, Declared
  <2>8. CASE p = "sklearn" /\ adapter.declares = SklearnDeclares
    BY <2>8 DEF SklearnDeclares, Declared
  <2>9. CASE p = "chronos" /\ adapter.declares = ChronosDeclares
    BY <2>9 DEF ChronosDeclares, Declared
  <2> HIDE DEF p, v, b
  <2> QED BY <2>1, <2>2, <2>3, <2>4, <2>5, <2>6, <2>7, <2>8, <2>9 DEF IsAdapter, p
<1> HIDE DEF p, v, b
<1>3. /\ p \in {"seasonal_naive", "stats", "darts_local", "sktime_local"} => v = "series"
      /\ p \in {"neural", "darts_global", "sktime_panel"} => v = "sequences"
      /\ p = "sklearn" => v = "tabular"
      /\ p = "chronos" <=> v = "none"
      /\ p \in {"seasonal_naive", "stats", "neural", "darts_local", "darts_global",
                "sktime_local", "sktime_panel", "sklearn", "chronos"}
  BY <1>2
<1>4. b => p = "neural" \/ (p = "darts_global" /\ "output_chunk_length" \in adapter.sets)
  BY <1>2
<1> QED BY <1>3, <1>4 DEF p, v, b

(* The windows of samples that are one window each.                        *)
LEMMA WindowsOfSamples ==
  ASSUME NEW samples, NEW context \in Nat \ {0}, NEW horizon \in Nat \ {0},
         \A s \in samples : \E origin \in Int : EventsIn(s.outcomes) = WindowAt(origin, context, horizon),
         NEW length, length = context + horizon
  PROVE  UNION {Windows(events, length) : events \in {EventsIn(s.outcomes) : s \in samples}}
           = {EventsIn(s.outcomes) : s \in samples}
<1> DEFINE all == {EventsIn(s.outcomes) : s \in samples}
<1>1. ASSUME NEW events \in all PROVE Windows(events, length) = {events}
  <2>1. PICK origin \in Int : events = WindowAt(origin, context, horizon)
    OBVIOUS
  <2> QED BY <2>1, OneWindow
<1> HIDE DEF all
<1>2. UNION {Windows(events, length) : events \in all} = all
  BY <1>1
<1> QED BY <1>2 DEF all

(* A season is at least one step, whether it was given or not.             *)
LEMMA SeasonsAre ==
  ASSUME NEW adapter, adapter.protocol = "seasonal_naive", IsAdapter(adapter), NEW params,
         \A name \in DOMAIN params : params[name].size \in Int,
         NEW compiled, DOMAIN compiled = {}, Instantiates(adapter, params, compiled)
  PROVE  Settings(adapter, params, compiled).season_length.size \in Nat \ {0}
<1> DEFINE name == "season_length"
           built == Settings(adapter, params, compiled)
<1>1. /\ adapter.parameters = [season_length |-> AtLeast("integer", 1)]
      /\ adapter.defaults = [season_length |-> Number(1)]
  BY DEF IsAdapter
<1>2. Checked(params, adapter.parameters)
  BY DEF Instantiates
<1>3. built[name] = IF name \in DOMAIN params THEN params[name] ELSE Number(1)
  BY <1>1 DEF Settings, Over
<1>4. CASE name \in DOMAIN params
  <2> DEFINE value == params[name]
  <2>1. value.size \in Int
    BY <1>4
  <2>2. Check(AtLeast("integer", 1), value)
    BY <1>1, <1>2, <1>4 DEF Checked
  <2> HIDE DEF value
  <2>3. value.type = "integer"
    BY <2>2 DEF Check, AtLeast, Matches
  <2>4. value.size >= 1
    BY <2>2, <2>3 DEF Check, InBounds, IsNumber, AtLeast, Number, NoBound
  <2>5. built[name] = value
    BY <1>3, <1>4 DEF value
  <2> QED BY <2>1, <2>4, <2>5
<1>5. CASE name \notin DOMAIN params
  <2>1. built[name] = Number(1)
    BY <1>3, <1>5
  <2> HIDE DEF built
  <2> QED BY <2>1 DEF Number, built
<1> QED BY <1>4, <1>5

(* A fit has learned its view, and no more than its view.                  *)
LEMMA AFitIsLearned ==
  ASSUME NEW adapter, IsAdapter(adapter), adapter.protocol # "chronos",
         NEW frame, IsHistory(frame.history), NEW selection, selection.mode \in OriginModes,
         NEW context \in Nat \ {0}, NEW horizon \in Nat \ {0}, NEW roles,
         NEW params, \A name \in DOMAIN params : params[name].size \in Int,
         NEW view, view = TrainingView(frame, adapter.declares.view, selection, context, horizon, roles),
         NEW compiled, compiled = Compiled(adapter, view), Instantiates(adapter, params, compiled),
         NEW built, built = Settings(adapter, params, compiled), FitsOf(adapter, view, built)
  PROVE  IsLearned(adapter, StateOf(adapter, view, built), view)
<1> DEFINE p == adapter.protocol
           state == StateOf(adapter, view, built)
<1>1. /\ view.kind = adapter.declares.view
      /\ view.kind = "sequences" => view.context = context /\ view.horizon = horizon
  BY DEF TrainingView
<1>2. view.kind = "series" => IsSeries(view.samples)
  BY <1>1, SeriesViews
<1>3. ASSUME view.kind = "sequences", NEW length, length = context + horizon
      PROVE UNION {Windows(events, length) : events \in {EventsIn(s.outcomes) : s \in view.samples}}
              = {EventsIn(s.outcomes) : s \in view.samples}
  <2>1. \A s \in view.samples :
          \E origin \in Int : EventsIn(s.outcomes) = WindowAt(origin, context, horizon)
    BY <1>1, <1>3, SequenceViews
  <2> QED BY <1>3, <2>1, WindowsOfSamples
<1>4. view.kind = "sequences" => view.context \in Nat
  BY <1>1
<1>5. /\ p \in {"seasonal_naive", "stats", "darts_local", "sktime_local"} => view.kind = "series"
      /\ p \in {"neural", "darts_global", "sktime_panel"} => view.kind = "sequences"
      /\ adapter.declares.bound => p = "neural" \/ (p = "darts_global" /\ "output_chunk_length" \in adapter.sets)
      /\ p \in {"seasonal_naive", "stats", "neural", "darts_local", "darts_global",
                "sktime_local", "sktime_panel", "sklearn"}
  BY <1>1, ContractsAre
<1>6. \A name \in DOMAIN compiled : name \in DOMAIN built /\ built[name] = compiled[name]
  BY DEF Settings, Over
<1>7. p = "seasonal_naive" => IsRemembered(state, view.samples)
  <2> SUFFICES ASSUME p = "seasonal_naive" PROVE IsRemembered(state, view.samples)
    OBVIOUS
  <2>1. compiled = NoParams /\ SeasonalFits(view, built) /\ state = SeasonalFit(view, built)
    BY DEF Compiled, FitsOf, StateOf
  <2>2. DOMAIN compiled = {}
    BY <2>1 DEF NoParams
  <2>3. built.season_length.size \in Nat \ {0}
    BY <2>2, SeasonsAre
  <2>4. IsSeries(view.samples)
    BY <1>2, <1>5
  <2> HIDE DEF state
  <2> QED BY <2>1, <2>3, <2>4, SeasonalFitRemembers
<1>8. p = "stats" => IsFittedSeries(state, view.samples) /\ state.exogenous = view.roles
  <2> SUFFICES ASSUME p = "stats" PROVE IsFittedSeries(state, view.samples) /\ state.exogenous = view.roles
    OBVIOUS
  <2>1. state = StatsFit(view)
    BY DEF StateOf
  <2> HIDE DEF state
  <2> QED BY <2>1 DEF StatsFit, IsFittedSeries
<1>9. p \in {"darts_local", "sktime_local"} => IsLocal(state, view.samples)
  <2>1. p \in {"darts_local", "sktime_local"} => IsSeries(view.samples)
    BY <1>2, <1>5
  <2>2. p = "darts_local" => state = DartsLocalFit(view)
    BY DEF StateOf
  <2>3. p = "sktime_local" => state = SktimeLocalFit(view)
    BY DEF StateOf
  <2> HIDE DEF state
  <2> QED BY <2>1, <2>2, <2>3, DartsLocalIsLocal, SktimeLocalIsLocal
<1>10. p = "neural" => /\ state.roles = view.roles /\ state.context = view.context /\ state.horizon = view.horizon
                       /\ state.windows = {EventsIn(s.outcomes) : s \in view.samples}
  <2> SUFFICES ASSUME p = "neural"
               PROVE /\ state.roles = view.roles /\ state.context = view.context /\ state.horizon = view.horizon
                     /\ state.windows = {EventsIn(s.outcomes) : s \in view.samples}
    OBVIOUS
  <2>1. state = NeuralFit(view, built) /\ compiled = NeuralCompiled(view)
    BY DEF StateOf, Compiled
  <2>2. /\ "h" \in DOMAIN compiled /\ "input_size" \in DOMAIN compiled
        /\ compiled["h"] = Number(view.horizon) /\ compiled["input_size"] = Number(view.context)
    BY <2>1 DEF NeuralCompiled
  <2>3. built["h"] = Number(horizon) /\ built["input_size"] = Number(context)
    BY <1>1, <1>5, <1>6, <2>2
  <2>4. built.input_size.size + built.h.size = context + horizon
    BY <2>3 DEF Number
  <2>5. state.windows = UNION {Windows(events, built.input_size.size + built.h.size) :
                                 events \in {EventsIn(s.outcomes) : s \in view.samples}}
    BY <2>1 DEF NeuralFit, NeuralSeries
  <2>6. state.windows = {EventsIn(s.outcomes) : s \in view.samples}
    <3> DEFINE length == built.input_size.size + built.h.size
    <3> HIDE DEF length, state
    <3> QED BY <1>3, <1>5, <2>4, <2>5 DEF length
  <2> HIDE DEF state
  <2> QED BY <2>1, <2>6 DEF NeuralFit
<1>11. p = "darts_global" => state.roles = view.roles /\ state.context = view.context /\ state.horizon = view.horizon
  <2>1. p = "darts_global" => state = DartsGlobalFit(view, built)
    BY DEF StateOf
  <2> HIDE DEF state
  <2> QED BY <2>1 DEF DartsGlobalFit
<1>12. p = "darts_global" /\ "output_chunk_length" \in adapter.sets
         => state.windows = {EventsIn(s.outcomes) : s \in view.samples}
  <2> SUFFICES ASSUME p = "darts_global", "output_chunk_length" \in adapter.sets
               PROVE state.windows = {EventsIn(s.outcomes) : s \in view.samples}
    OBVIOUS
  <2>1. state = DartsGlobalFit(view, built) /\ compiled = DartsGlobalCompiled(adapter, view)
    BY DEF StateOf, Compiled
  <2>2. "input_chunk_length" \in adapter.sets
    BY DEF IsAdapter
  <2>3. /\ "input_chunk_length" \in DOMAIN compiled /\ "output_chunk_length" \in DOMAIN compiled
        /\ compiled["input_chunk_length"] = Number(view.context)
        /\ compiled["output_chunk_length"] = Number(view.horizon)
    BY <2>1, <2>2 DEF DartsGlobalCompiled
  <2>4. /\ built["input_chunk_length"] = Number(context)
        /\ "output_chunk_length" \in DOMAIN built /\ built["output_chunk_length"] = Number(horizon)
    BY <1>1, <1>5, <1>6, <2>3
  <2>5. WindowOf(built) = context + horizon
    BY <2>4 DEF WindowOf, Number
  <2>6. state.windows = UNION {Windows(events, WindowOf(built)) :
                                 events \in {EventsIn(s.outcomes) : s \in view.samples}}
    BY <2>1 DEF DartsGlobalFit, DartsSamples
  <2> HIDE DEF state
  <2> QED BY <1>3, <1>5, <2>5, <2>6
<1>13. p = "sktime_panel" => state.roles = view.roles /\ state.context = view.context
  <2>1. p = "sktime_panel" => state = SktimePanelFit(view)
    BY DEF StateOf
  <2> HIDE DEF state
  <2> QED BY <2>1 DEF SktimePanelFit
<1>14. p = "sklearn" => state.features \subseteq view.roles
  <2>1. p = "sklearn" => state = SklearnFit(view)
    BY DEF StateOf
  <2> HIDE DEF state
  <2> QED BY <2>1 DEF SklearnFit
<1> HIDE DEF p, state
<1>15. p \in {"neural", "darts_global", "sktime_panel"} => state.roles = view.roles /\ state.context = view.context
  BY <1>10, <1>11, <1>13
<1>16. p \in {"neural", "darts_global"} => state.horizon = view.horizon
  BY <1>10, <1>11
<1>17. adapter.declares.bound => state.windows = {EventsIn(s.outcomes) : s \in view.samples}
  BY <1>5, <1>10, <1>12
<1>18. IsLearned(adapter, state, view)
  BY <1>1, <1>2, <1>4, <1>7, <1>8, <1>9, <1>14, <1>15, <1>16, <1>17 DEF IsLearned, p
<1> QED BY <1>18 DEF state

(* What a library is built with is what the recipe said, and under a name  *)
(* that belongs to the recipe what the view and the plan said.             *)
LEMMA BuiltFromTheRecipe ==
  ASSUME NEW adapter, IsAdapter(adapter), adapter.protocol # "chronos", NEW view,
         NEW params, IsRecipeOf(params),
         NEW compiled, compiled = Compiled(adapter, view), Instantiates(adapter, params, compiled),
         NEW built, built = Settings(adapter, params, compiled)
  PROVE  /\ \A name \in DOMAIN params : built[name] = params[name]
         /\ \A name \in DOMAIN built \cap OwnedParameters :
              built[name] \in {Number(view.context), Number(view.horizon), Seed}
<1> DEFINE p == adapter.protocol
<1>1. DOMAIN params \cap DOMAIN compiled = {}
  BY DEF Instantiates
<1>2. /\ DOMAIN built = DOMAIN compiled \cup (DOMAIN params \cup DOMAIN adapter.defaults)
      /\ \A name \in DOMAIN built :
           built[name] = IF name \in DOMAIN compiled THEN compiled[name]
                         ELSE IF name \in DOMAIN params THEN params[name] ELSE adapter.defaults[name]
  BY DEF Settings, Over
<1>3. \A name \in DOMAIN params : built[name] = params[name]
  BY <1>1, <1>2
<1>4. DOMAIN params \cap OwnedParameters = {}
  BY DEF IsRecipeOf
<1>5. DOMAIN adapter.defaults \cap OwnedParameters = {}
  <2>1. DOMAIN adapter.defaults \subseteq {"season_length", "deseasonalize"}
    <3>1. DOMAIN NoParams = {} /\ DOMAIN [season_length |-> Number(1)] = {"season_length"}
          /\ DOMAIN [deseasonalize |-> Off] = {"deseasonalize"}
      BY DEF NoParams
    <3>2. adapter.defaults \in {NoParams, [season_length |-> Number(1)], [deseasonalize |-> Off]}
      BY DEF IsAdapter
    <3> QED BY <3>1, <3>2
  <2>2. "season_length" \notin OwnedParameters /\ "deseasonalize" \notin OwnedParameters
    BY DEF OwnedParameters
  <2> QED BY <2>1, <2>2
<1>6. ASSUME NEW name \in DOMAIN compiled \cap OwnedParameters
      PROVE compiled[name] \in {Number(view.context), Number(view.horizon), Seed}
  <2>1. p \in {"seasonal_naive", "stats", "neural", "darts_local", "darts_global",
               "sktime_local", "sktime_panel", "sklearn"}
    BY ContractsAre
  <2>2. CASE p \in {"seasonal_naive", "stats"}
    <3>1. compiled = NoParams
      BY <2>2 DEF Compiled, StatsCompiled
    <3> QED BY <3>1 DEF NoParams
  <2>3. CASE p \in {"darts_local", "sktime_local", "sklearn"}
    <3>1. compiled = [n \in adapter.sets |-> Seed]
      BY <2>3 DEF Compiled, DartsLocalCompiled, SktimeLocalCompiled, SklearnCompiled
    <3> QED BY <3>1
  <2>4. CASE p = "sktime_panel"
    <3>1. compiled = [random_state |-> Seed]
      BY <2>4 DEF Compiled, SktimePanelCompiled
    <3> QED BY <3>1
  <2>5. CASE p = "darts_global"
    <3>1. compiled = DartsGlobalCompiled(adapter, view)
      BY <2>5 DEF Compiled
    <3>2. \A n \in DOMAIN compiled : compiled[n] = CASE n = "input_chunk_length"  -> Number(view.context)
                                                     [] n = "output_chunk_length" -> Number(view.horizon)
                                                     [] OTHER                     -> Seed
      BY <3>1 DEF DartsGlobalCompiled
    <3> QED BY <3>2
  <2>6. CASE p = "neural"
    <3>1. compiled = NeuralCompiled(view)
      BY <2>6 DEF Compiled
    <3>2. /\ DOMAIN compiled = {"h", "input_size", "training_data_availability_threshold", "random_seed"}
          /\ compiled["h"] = Number(view.horizon) /\ compiled["input_size"] = Number(view.context)
          /\ compiled["random_seed"] = Seed
      BY <3>1 DEF NeuralCompiled
    <3>3. "training_data_availability_threshold" \notin OwnedParameters
      BY DEF OwnedParameters
    <3> QED BY <3>2, <3>3
  <2> QED BY <2>1, <2>2, <2>3, <2>4, <2>5, <2>6
<1>7. \A name \in DOMAIN built \cap OwnedParameters :
        built[name] \in {Number(view.context), Number(view.horizon), Seed}
  BY <1>2, <1>4, <1>5, <1>6
<1> QED BY <1>3, <1>7

(* What a model can be asked for: only two protocols answer more than a    *)
(* point.                                                                  *)
LEMMA OutputsAre ==
  ASSUME NEW adapter, IsAdapter(adapter)
  PROVE  /\ adapter.protocol \notin {"stats", "chronos"} => adapter.declares.outputs = {"point"}
         /\ adapter.protocol = "chronos" => adapter.declares.outputs = {"point", "quantiles"}
         /\ adapter.protocol = "neural" => adapter.declares.bound
<1> DEFINE p == adapter.protocol
           o == adapter.declares.outputs
<1>1. CASE p = "seasonal_naive" /\ adapter.declares = SeasonalDeclares
  BY <1>1 DEF SeasonalDeclares, Declared
<1>2. CASE p = "stats"
  BY <1>2
<1>3. CASE p = "neural" /\ \E roles : adapter.declares = NeuralDeclares(roles)
  BY <1>3 DEF NeuralDeclares, Declared
<1>4. CASE p = "darts_local" /\ adapter.declares = DartsLocalDeclares
  BY <1>4 DEF DartsLocalDeclares, Declared
<1>5. CASE p = "darts_global" /\
           \E accepted : adapter.declares = DartsGlobalDeclares("output_chunk_length" \in adapter.sets, accepted)
  <2>1. PICK accepted : adapter.declares = DartsGlobalDeclares("output_chunk_length" \in adapter.sets, accepted)
    BY <1>5
  <2>2. o = {"point"}
    BY <2>1 DEF DartsGlobalDeclares, Declared
  <2> QED BY <1>5, <2>2
<1>6. CASE p = "sktime_local" /\ adapter.declares = SktimeLocalDeclares
  BY <1>6 DEF SktimeLocalDeclares, Declared
<1>7. CASE p = "sktime_panel" /\ adapter.declares = SktimePanelDeclares
  BY <1>7 DEF SktimePanelDeclares, Declared
<1>8. CASE p = "sklearn" /\ adapter.declares = SklearnDeclares
  BY <1>8 DEF SklearnDeclares, Declared
<1>9. CASE p = "chronos" /\ adapter.declares = ChronosDeclares
  BY <1>9 DEF ChronosDeclares, Declared
<1> QED BY <1>1, <1>2, <1>3, <1>4, <1>5, <1>6, <1>7, <1>8, <1>9 DEF IsAdapter

(* The instances a model is sure of.                                       *)
SureOf(adapter, learned, view) ==
  IF adapter.protocol = "seasonal_naive" THEN SureAtTheFit(view, learned.samples) ELSE Sure(view)

(* What a model owes an answer to.                                         *)
IsOwed(adapter, learned, view, output, steps) ==
  /\ output.kind \in adapter.declares.outputs
  /\ Whole(view, steps) /\ Asked(view) \subseteq Sure(view)
  /\ adapter.protocol # "chronos" => learned.roles \subseteq view.roles
  /\ adapter.declares.bound => view.horizon = learned.horizon
  /\ adapter.declares.view = "series" => FittedAt(learned.samples, view)

(* It answers about the instances it is sure of, and what it owes.         *)
Answers(adapter, learned, view, output, steps, rows) ==
  /\ rows = Refused \/ IsAnswer(rows, view, output, SureOf(adapter, learned, view))
  /\ IsOwed(adapter, learned, view, output, steps) => rows # Refused

(* What serves answers, if there is no reason to refuse what is owed.      *)
LEMMA AnswersIfServed ==
  ASSUME NEW adapter, adapter.protocol # "seasonal_naive", NEW learned, NEW view, NEW output, NEW steps,
         NEW rows, NEW reason, Serves(rows, view, output, reason),
         IsOwed(adapter, learned, view, output, steps) => ~reason
  PROVE  Answers(adapter, learned, view, output, steps, rows)
<1>1. SureOf(adapter, learned, view) = Sure(view)
  BY DEF SureOf
<1> QED BY <1>1 DEF Serves, Answers

(* Every model answers about the view it is asked about.                   *)
LEMMA EveryModelAnswers ==
  ASSUME NEW adapter, IsAdapter(adapter), NEW view, IsView(view), NEW output, IsOutput(output),
         NEW steps, IsSteps(steps), NEW state, NEW learned,
         adapter.protocol # "chronos" => IsLearned(adapter, state, learned),
         learned.kind = "sequences" => view.context = learned.context
  PROVE  Answers(adapter, learned, view, output, steps, ForecastOf(adapter, state, view, output, steps))
<1> DEFINE p == adapter.protocol
           rows == ForecastOf(adapter, state, view, output, steps)
           owed == IsOwed(adapter, learned, view, output, steps)
<1>1. p \in {"seasonal_naive", "stats", "neural", "darts_local", "darts_global",
             "sktime_local", "sktime_panel", "sklearn", "chronos"}
  BY ContractsAre
<1>2. owed => /\ Whole(view, steps) /\ Asked(view) \subseteq Sure(view)
              /\ p # "chronos" => learned.roles \subseteq view.roles
              /\ p \notin {"stats", "chronos"} => output.kind = "point"
              /\ p = "chronos" => output.kind # "samples"
              /\ output.kind \in adapter.declares.outputs
              /\ p \in {"seasonal_naive", "stats", "darts_local", "sktime_local"} => FittedAt(learned.samples, view)
              /\ adapter.declares.bound => view.horizon = learned.horizon
  BY ContractsAre, OutputsAre DEF IsOwed
<1>3. /\ p \in {"seasonal_naive", "stats", "darts_local", "sktime_local"} => IsSeries(learned.samples)
      /\ p \in {"neural", "darts_global", "sktime_panel"} => view.context = learned.context
  BY ContractsAre DEF IsLearned
<1>5. CASE p = "seasonal_naive"
  <2>1. rows = SeasonalForecast(state, view, output.kind)
    BY <1>5 DEF ForecastOf
  <2>2. IsRemembered(state, learned.samples) /\ IsSeries(learned.samples)
    BY <1>3, <1>5 DEF IsLearned
  <2>3. SureOf(adapter, learned, view) = SureAtTheFit(view, learned.samples)
    BY <1>5 DEF SureOf
  <2> HIDE DEF rows
  <2>4. /\ rows = Refused \/ IsAnswer(rows, view, output, SureAtTheFit(view, learned.samples))
        /\ output.kind = "point" /\ FittedAt(learned.samples, view) => rows # Refused
    BY <2>1, <2>2, SeasonalAnswersAre
  <2> QED BY <1>2, <1>5, <2>3, <2>4 DEF Answers, owed, rows
<1>6. CASE p = "stats"
  <2> DEFINE reason == \/ output.kind \notin adapter.declares.outputs \/ ~FittedAt(learned.samples, view)
                       \/ ~(state.exogenous \subseteq view.roles) \/ ~Whole(view, steps)
  <2>1. rows = StatsForecast(adapter, state, view, output, steps)
    BY <1>6 DEF ForecastOf
  <2>2. /\ IsFittedSeries(state, learned.samples) /\ IsSeries(learned.samples)
        /\ state.exogenous = learned.roles
    BY <1>3, <1>6 DEF IsLearned
  <2>3. PICK exogenous, quantiles \in BOOLEAN : adapter.declares = StatsDeclares(exogenous, quantiles)
    BY <1>6 DEF IsAdapter
  <2>4. owed => ~reason
    BY <1>2, <1>6, <2>2
  <2> HIDE DEF rows
  <2>5. Serves(rows, view, output, reason)
    BY <2>1, <2>2, <2>3, StatsAnswers
  <2> HIDE DEF reason
  <2> QED BY <1>6, <2>4, <2>5, AnswersIfServed DEF rows
<1>7. CASE p = "neural"
  <2> DEFINE reason == \/ output.kind # "point" \/ ~NeuralWindow(state, view)
                       \/ ~(state.roles \subseteq view.roles) \/ ~Whole(view, steps)
  <2>1. rows = NeuralForecast(state, view, output, steps)
    BY <1>7 DEF ForecastOf
  <2>2. state.roles = learned.roles /\ state.context = view.context /\ state.horizon = learned.horizon
    BY <1>3, <1>7 DEF IsLearned
  <2>3. adapter.declares.bound
    BY <1>7, OutputsAre
  <2>4. owed => ~reason
    BY <1>2, <1>7, <2>2, <2>3 DEF NeuralWindow
  <2> HIDE DEF rows
  <2>5. Serves(rows, view, output, reason)
    BY <2>1, NeuralAnswers
  <2> HIDE DEF reason
  <2> QED BY <1>7, <2>4, <2>5, AnswersIfServed DEF rows
<1>8. CASE p = "darts_local"
  <2> DEFINE reason == output.kind # "point" \/ ~FittedAt(learned.samples, view) \/ ~Whole(view, steps)
  <2>1. rows = DartsLocalForecast(state, view, output, steps)
    BY <1>8 DEF ForecastOf
  <2>2. IsLocal(state, learned.samples) /\ IsSeries(learned.samples)
    BY <1>3, <1>8 DEF IsLearned
  <2>3. owed => ~reason
    BY <1>2, <1>8
  <2> HIDE DEF rows
  <2>4. Serves(rows, view, output, reason)
    BY <2>1, <2>2, DartsLocalAnswers
  <2> HIDE DEF reason
  <2> QED BY <1>8, <2>3, <2>4, AnswersIfServed DEF rows
<1>9. CASE p = "darts_global"
  <2> DEFINE bound == adapter.declares.bound
             reason == \/ output.kind # "point" \/ ~DartsWindow(state, view, bound)
                       \/ ~(state.roles \subseteq view.roles) \/ ~Whole(view, steps)
  <2>1. rows = DartsGlobalForecast(state, view, output, steps, bound)
    BY <1>9 DEF ForecastOf
  <2>2. state.roles = learned.roles /\ state.context = view.context /\ state.horizon = learned.horizon
    BY <1>3, <1>9 DEF IsLearned
  <2>3. owed => ~reason
    BY <1>2, <1>9, <2>2 DEF DartsWindow
  <2> HIDE DEF rows, bound
  <2>4. Serves(rows, view, output, reason)
    BY <2>1, DartsGlobalAnswers
  <2> HIDE DEF reason
  <2> QED BY <1>9, <2>3, <2>4, AnswersIfServed DEF rows
<1>10. CASE p = "sktime_local"
  <2> DEFINE reason == output.kind # "point" \/ ~FittedAt(learned.samples, view) \/ ~Whole(view, steps)
  <2>1. rows = SktimeLocalForecast(state, view, output, steps)
    BY <1>10 DEF ForecastOf
  <2>2. IsLocal(state, learned.samples) /\ IsSeries(learned.samples)
    BY <1>3, <1>10 DEF IsLearned
  <2>3. owed => ~reason
    BY <1>2, <1>10
  <2> HIDE DEF rows
  <2>4. Serves(rows, view, output, reason)
    BY <2>1, <2>2, SktimeLocalAnswers
  <2> HIDE DEF reason
  <2> QED BY <1>10, <2>3, <2>4, AnswersIfServed DEF rows
<1>11. CASE p = "sktime_panel"
  <2> DEFINE reason == \/ output.kind # "point" \/ state.context # view.context
                       \/ ~(state.roles \subseteq view.roles) \/ ~Whole(view, steps)
                       \/ ~(Asked(view) \subseteq Sure(view))
  <2>1. rows = SktimePanelForecast(state, view, output, steps)
    BY <1>11 DEF ForecastOf
  <2>2. state.roles = learned.roles /\ state.context = view.context
    BY <1>3, <1>11 DEF IsLearned
  <2>3. owed => ~reason
    BY <1>2, <1>11, <2>2
  <2> HIDE DEF rows
  <2>4. Serves(rows, view, output, reason)
    BY <2>1, SktimePanelAnswers
  <2> HIDE DEF reason
  <2> QED BY <1>11, <2>3, <2>4, AnswersIfServed DEF rows
<1>12. CASE p = "sklearn"
  <2> DEFINE reason == \/ output.kind # "point" \/ ~(state.features \subseteq view.roles)
                       \/ ~OneForEveryRow(view, steps)
  <2>1. rows = SklearnForecast(state, view, output, steps)
    BY <1>12 DEF ForecastOf
  <2>2. state.features \subseteq learned.roles
    BY <1>12 DEF IsLearned
  <2>3. owed => ~reason
    BY <1>2, <1>12, <2>2 DEF Whole, OneForEveryRow, Asked
  <2> HIDE DEF rows
  <2>4. Serves(rows, view, output, reason)
    BY <2>1, SklearnAnswers
  <2> HIDE DEF reason
  <2> QED BY <1>12, <2>3, <2>4, AnswersIfServed DEF rows
<1>13. CASE p = "chronos"
  <2> DEFINE reason == output.kind = "samples" \/ ~Whole(view, steps)
  <2>1. rows = ChronosForecast(view, output, steps)
    BY <1>13 DEF ForecastOf
  <2>2. owed => ~reason
    BY <1>2, <1>13
  <2> HIDE DEF rows
  <2>3. Serves(rows, view, output, reason)
    BY <2>1, ChronosAnswers
  <2> HIDE DEF reason
  <2> QED BY <1>13, <2>2, <2>3, AnswersIfServed DEF rows
<1> HIDE DEF p
<1> QED BY <1>1, <1>5, <1>6, <1>7, <1>8, <1>9, <1>10, <1>11, <1>12, <1>13

-----------------------------------------------------------------------------
(* The invariant.                                                          *)

(* What is left of a fit: a model and what it has learned, a refusal of    *)
(* parameters that are not the model's, or a model that needs no fit.      *)
IsFit(f) ==
  /\ "refused" \notin DOMAIN f /\ f.model \in Fitted
  /\ IsLearned(AdapterFor[f.model], f.state, f.view)
  /\ \A name \in DOMAIN f.params : f.built[name] = f.params[name]
  /\ \A name \in DOMAIN f.built \cap OwnedParameters :
       f.built[name] \in {Number(f.view.context), Number(f.view.horizon), Seed}

IsRefusal(f) ==
  /\ "refused" \in DOMAIN f /\ f.model \in Fitted
  /\ ~(IsRecipeOf(f.params) /\ Checked(f.params, AdapterFor[f.model].parameters))

IsLoaded(f) == "refused" \notin DOMAIN f /\ f.model \in Pretrained /\ f.view.kind = "none"

IsRevision(f) == f = NotFitted \/ IsFit(f) \/ IsRefusal(f) \/ IsLoaded(f)

(* What was asked of it last, and answered.                                *)
IsTold(f, a, rows) ==
  \/ a = NotAsked /\ rows = Refused
  \/ /\ a # NotAsked
     /\ IsFit(f) \/ IsLoaded(f)
     /\ IsView(a.view) /\ IsOutput(a.output)
     /\ \E steps : /\ a.whole => Whole(a.view, steps)
                   /\ Answers(AdapterFor[f.model], f.view, a.view, a.output, steps, rows)

AnswersInv ==
  /\ world \in Worlds
  /\ IsRevision(fitted)
  /\ fitted = NotFitted => asked = NotAsked
  /\ IsTold(fitted, asked, answer)

-----------------------------------------------------------------------------
(* A model that is fitted is not Chronos, and one that is not is.          *)
LEMMA FittedOrNot ==
  /\ \A model \in Fitted : /\ IsAdapter(AdapterFor[model]) /\ AdapterFor[model].protocol # "chronos"
  /\ \A model \in Pretrained : IsAdapter(AdapterFor[model]) /\ AdapterFor[model].protocol = "chronos"
BY EveryAdapter, ContractsAre DEF Fitted, Pretrained, Declares

(* What was known at a moment is a history.                                *)
LEMMA ThePastIsAHistory ==
  ASSUME NEW w \in Worlds, NEW moment, FrameReaches(w, moment)
  PROVE  IsHistory(FrameUpTo(w, moment).history)
<1>1. IsFiniteSet(w.history) /\ w.history \subseteq Outcome
  BY AnswersAssumption
<1>2. FrameUpTo(w, moment).history = {row \in w.history : row.event <= moment}
  BY DEF FrameUpTo, Happened
<1>3. FrameUpTo(w, moment).history # {}
  BY DEF FrameReaches
<1>4. IsFiniteSet({row \in w.history : row.event <= moment})
  BY <1>1, FS_Subset
<1> QED BY <1>1, <1>2, <1>3, <1>4 DEF IsHistory

(* What is fitted from there on.                                           *)
LEMMA FitIsAFit ==
  ASSUME AnswersInv, Fit
  PROVE  IsFit(fitted')
<1>1. PICK model \in Fitted, moment \in Moments, selection \in Selections,
           context \in Contexts, horizon \in Horizons, roles \in RoleSets, params \in Bags :
        LET adapter == AdapterFor[model]
            view == TrainingView(FrameUpTo(world, moment), adapter.declares.view, selection, context, horizon, roles)
            compiled == Compiled(adapter, view)
            built == Settings(adapter, params, compiled)
        IN /\ FrameReaches(world, moment)
           /\ view.samples # {} /\ roles \subseteq adapter.declares.roles
           /\ IsRecipeOf(params) /\ Instantiates(adapter, params, compiled)
           /\ FitsOf(adapter, view, built)
           /\ fitted' = [ model |-> model, params |-> params, built |-> built,
                          state |-> StateOf(adapter, view, built), view |-> view ]
  BY DEF Fit
<1> DEFINE adapter == AdapterFor[model]
           frame == FrameUpTo(world, moment)
           view == TrainingView(frame, adapter.declares.view, selection, context, horizon, roles)
           compiled == Compiled(adapter, view)
           built == Settings(adapter, params, compiled)
           state == StateOf(adapter, view, built)
<1>2. /\ FrameReaches(world, moment)
      /\ IsRecipeOf(params) /\ Instantiates(adapter, params, compiled) /\ FitsOf(adapter, view, built)
  BY <1>1
<1>3. fitted' = [model |-> model, params |-> params, built |-> built, state |-> state, view |-> view]
  BY <1>1
<1>4. IsAdapter(adapter) /\ adapter.protocol # "chronos"
  BY FittedOrNot
<1>5. IsHistory(frame.history)
  BY <1>2, ThePastIsAHistory DEF AnswersInv
<1>6. /\ selection.mode \in OriginModes /\ context \in Nat \ {0} /\ horizon \in Nat \ {0}
      /\ \A name \in DOMAIN params : params[name].size \in Int
  BY AnswersAssumption
<1> HIDE DEF adapter, frame, state
<1>7. view = TrainingView(frame, adapter.declares.view, selection, context, horizon, roles)
      /\ compiled = Compiled(adapter, view) /\ built = Settings(adapter, params, compiled)
  OBVIOUS
<1> HIDE DEF view, compiled, built
<1>8. IsLearned(adapter, StateOf(adapter, view, built), view)
  BY <1>2, <1>4, <1>5, <1>6, <1>7, AFitIsLearned
<1>9. /\ \A name \in DOMAIN params : built[name] = params[name]
      /\ \A name \in DOMAIN built \cap OwnedParameters :
           built[name] \in {Number(view.context), Number(view.horizon), Seed}
  BY <1>2, <1>4, <1>7, BuiltFromTheRecipe
<1>10. DOMAIN fitted' = {"model", "params", "built", "state", "view"}
  BY <1>3
<1>11. "refused" \notin DOMAIN fitted' /\ fitted'.model = model /\ fitted'.params = params
       /\ fitted'.built = built /\ fitted'.state = state /\ fitted'.view = view
  BY <1>3
<1> QED BY <1>8, <1>9, <1>11 DEF IsFit, adapter, state

(* The steps a library answers, and what it means that it answered whole.  *)
LEMMA StepsAreCounted ==
  ASSUME NEW present, NEW horizon \in Nat \ {0}, NEW steps \in StepCounts(present, horizon)
  PROVE  IsSteps(steps)
<1> DEFINE all == [i \in Instance |-> horizon]
<1>1. all \in [Instance -> Nat] /\ horizon - 1 \in Nat
  OBVIOUS
<1> HIDE DEF all
<1>2. \A i : [all EXCEPT ![i] = horizon - 1] \in [Instance -> Nat]
  BY <1>1
<1>3. steps \in {all} \cup {[all EXCEPT ![i] = horizon - 1] : i \in present}
  BY DEF StepCounts, all
<1> QED BY <1>1, <1>2, <1>3 DEF IsSteps

(* What is told of a model that is asked.                                  *)
LEMMA AskTells ==
  ASSUME AnswersInv, Ask
  PROVE  IsTold(fitted, asked', answer')
<1> DEFINE adapter == AdapterFor[fitted.model]
<1>1. IsFit(fitted) \/ IsLoaded(fitted)
  BY DEF AnswersInv, IsRevision, IsRefusal, Ask, HasModel
<1>2. IsAdapter(adapter)
  BY <1>1, FittedOrNot DEF IsFit, IsLoaded
<1>3. adapter.protocol # "chronos" => IsLearned(adapter, fitted.state, fitted.view)
  BY <1>1, FittedOrNot DEF IsFit, IsLoaded
<1>4. StepsBack \in Nat /\ (fitted.view.kind = "sequences" => StepsBack = fitted.view.context)
  BY <1>1 DEF StepsBack, IsFit, IsLoaded, IsLearned, NoContext
<1>5. PICK moment \in Moments, horizon \in Horizons, roles \in RoleSets, output \in Outputs, layout \in Layouts :
        LET context == ContextOf(FrameUpTo(world, moment))
            present == InstancesIn(context.history)
        IN /\ FrameReaches(world, moment)
           /\ LongEnough(context, StepsBack)
           /\ \E instances \in SetToSeqs(present), steps \in StepCounts(present, horizon) :
                LET view == ForecastViewOf(context, instances, StepsBack, horizon, roles, layout)
                IN /\ asked' = [view |-> view, output |-> output,
                               whole |-> \A i \in present : steps[i] = horizon]
                   /\ answer' = ForecastOf(AdapterFor[fitted.model], fitted.state, view, output, steps)
  BY DEF Ask
<1> DEFINE frame == FrameUpTo(world, moment)
           context == ContextOf(frame)
           present == InstancesIn(context.history)
<1>6. FrameReaches(world, moment) /\ LongEnough(context, StepsBack)
  BY <1>5
<1>7. PICK instances \in SetToSeqs(present), steps \in StepCounts(present, horizon) :
        LET view == ForecastViewOf(context, instances, StepsBack, horizon, roles, layout)
        IN /\ asked' = [view |-> view, output |-> output,
                        whole |-> \A i \in present : steps[i] = horizon]
           /\ answer' = ForecastOf(adapter, fitted.state, view, output, steps)
  BY <1>5
<1> DEFINE view == ForecastViewOf(context, instances, StepsBack, horizon, roles, layout)
<1>8. /\ asked' = [view |-> view, output |-> output, whole |-> \A i \in present : steps[i] = horizon]
      /\ answer' = ForecastOf(adapter, fitted.state, view, output, steps)
  BY <1>7
<1>9. IsHistory(frame.history)
  BY <1>6, ThePastIsAHistory DEF AnswersInv
<1>10. horizon \in Nat \ {0} /\ IsOutput(output)
  BY AnswersAssumption DEF IsOutput
<1>11. IsSteps(steps)
  BY <1>10, StepsAreCounted
<1>12. ToSet(instances) \subseteq present
  BY DEF SetToSeqs, ToSet
<1> HIDE DEF adapter, frame
<1>13. IsView(view) /\ view.horizon = horizon /\ view.context = StepsBack
  BY <1>4, <1>6, <1>9, <1>10, ForecastViewsAreViews
<1>14. view.instances = instances
  BY DEF ForecastViewOf
<1> HIDE DEF view, present, context
<1>15. (\A i \in present : steps[i] = horizon) => Whole(view, steps)
  BY <1>12, <1>13, <1>14 DEF Whole, Asked
<1>16. Answers(adapter, fitted.view, view, output, steps, ForecastOf(adapter, fitted.state, view, output, steps))
  <2>1. fitted.view.kind = "sequences" => view.context = fitted.view.context
    BY <1>4, <1>13
  <2> QED BY <1>2, <1>3, <1>10, <1>11, <1>13, <2>1, EveryModelAnswers
<1>17. asked' # NotAsked
  <2>1. "view" \in DOMAIN asked' /\ "view" \notin DOMAIN NotAsked
    BY <1>8 DEF NotAsked
  <2> QED BY <2>1
<1>18. /\ asked'.view = view /\ asked'.output = output
       /\ asked'.whole => \A i \in present : steps[i] = horizon
  BY <1>8
<1>19. asked'.whole => Whole(asked'.view, steps)
  BY <1>15, <1>18
<1>20. Answers(AdapterFor[fitted.model], fitted.view, asked'.view, asked'.output, steps, answer')
  BY <1>8, <1>16, <1>18 DEF adapter
<1>21. IsView(asked'.view) /\ IsOutput(asked'.output)
  BY <1>10, <1>13, <1>18
<1> QED BY <1>1, <1>17, <1>19, <1>20, <1>21 DEF IsTold

(* The invariant holds to begin with.                                      *)
LEMMA InitAnswersInv == Init => AnswersInv
BY DEF Init, AnswersInv, IsRevision, IsTold

(* Every step keeps the invariant.                                         *)
LEMMA NextAnswersInv == AnswersInv /\ [Next]_vars => AnswersInv'
<1> SUFFICES ASSUME AnswersInv, [Next]_vars PROVE AnswersInv'
  OBVIOUS
<1>1. fitted = NotFitted => asked = NotAsked /\ answer = Refused
  BY DEF AnswersInv, IsTold
<1>2. CASE Fit
  <2>1. IsFit(fitted')
    BY <1>2, FitIsAFit
  <2>2. asked = NotAsked /\ answer = Refused /\ UNCHANGED <<world, asked, answer>>
    BY <1>1, <1>2 DEF Fit
  <2> QED BY <2>1, <2>2 DEF AnswersInv, IsRevision, IsTold
<1>3. CASE RefuseParameters
  <2>1. asked = NotAsked /\ answer = Refused /\ UNCHANGED <<world, asked, answer>>
    BY <1>1, <1>3 DEF RefuseParameters
  <2>2. PICK model \in Fitted, params \in Bags :
               /\ ~(IsRecipeOf(params) /\ Checked(params, AdapterFor[model].parameters))
               /\ fitted' = [model |-> model, params |-> params, refused |-> TRUE]
    BY <1>3 DEF RefuseParameters
  <2>3. IsRefusal(fitted')
    <3>1. "refused" \in DOMAIN fitted' /\ fitted'.model = model /\ fitted'.params = params
      BY <2>2
    <3> QED BY <2>2, <3>1 DEF IsRefusal
  <2> QED BY <2>1, <2>3 DEF AnswersInv, IsRevision, IsTold
<1>4. CASE Load
  <2>1. asked = NotAsked /\ answer = Refused /\ UNCHANGED <<world, asked, answer>>
    BY <1>1, <1>4 DEF Load
  <2>2. PICK model \in Pretrained :
               fitted' = [model |-> model, params |-> NoParams, state |-> {}, view |-> [kind |-> "none"]]
    BY <1>4 DEF Load
  <2>3. "refused" \notin DOMAIN fitted' /\ fitted'.model = model /\ fitted'.view.kind = "none"
    BY <2>2
  <2>4. IsLoaded(fitted')
    BY <2>3 DEF IsLoaded
  <2> QED BY <2>1, <2>4 DEF AnswersInv, IsRevision, IsTold
<1>5. CASE Discard
  BY <1>5 DEF Discard, AnswersInv, IsRevision, IsTold
<1>6. CASE Ask
  <2>1. IsTold(fitted, asked', answer')
    BY <1>6, AskTells
  <2>2. UNCHANGED <<world, fitted>> /\ fitted # NotFitted
    BY <1>6 DEF Ask, HasModel
  <2> QED BY <2>1, <2>2 DEF AnswersInv, IsRevision
<1>7. CASE AskRaises
  <2>1. UNCHANGED <<world, fitted>> /\ asked' = NotAsked /\ answer' = Refused
    BY <1>7 DEF AskRaises
  <2> QED BY <2>1 DEF AnswersInv, IsRevision, IsTold
<1>8. CASE UNCHANGED vars
  BY <1>8 DEF vars, AnswersInv, IsRevision, IsTold
<1> QED BY <1>2, <1>3, <1>4, <1>5, <1>6, <1>7, <1>8 DEF Next

(* The invariant holds in every state that is reached.                     *)
LEMMA AnswersInvAlways == Spec => []AnswersInv
BY InitAnswersInv, NextAnswersInv, PTL DEF Spec

-----------------------------------------------------------------------------
(* The properties.                                                         *)

(* What an answer is, told of a model.                                     *)
LEMMA AnswersAreTold ==
  ASSUME AnswersInv, answer # Refused
  PROVE  /\ asked # NotAsked /\ IsView(asked.view) /\ IsOutput(asked.output)
         /\ IsAnswer(answer, asked.view, asked.output,
                     SureOf(AdapterFor[fitted.model], fitted.view, asked.view))
BY DEF AnswersInv, IsTold, Answers

(* A row of an answer.                                                     *)
LEMMA RowsOfAnswers ==
  ASSUME NEW rows, NEW view, NEW output, NEW sure, IsAnswer(rows, view, output, sure), NEW row \in rows
  PROVE  /\ row.instance \in Asked(view)
         /\ row.value.of = row.instance
         /\ row.value.from <= view.origin
         /\ row.instance \in sure => row.value.about = row.event
<1>1. PICK parts, value :
             /\ rows = Rows(view, parts, value)
             /\ \A i \in Asked(view), k \in 1 .. view.horizon :
                  /\ value[<<i, k>>].of = i
                  /\ value[<<i, k>>].from <= view.origin
                  /\ i \in sure => value[<<i, k>>].about = Shift(view.origin, k)
  BY DEF IsAnswer
<1>2. PICK i \in Asked(view), k \in 1 .. view.horizon, part \in parts :
             row = Row(i, Shift(view.origin, k), part, value[<<i, k>>])
  <2> DEFINE K == 1 .. view.horizon
  <2>1. row \in {Row(i, Shift(view.origin, k), part, value[<<i, k>>]) : i \in Asked(view), k \in K, part \in parts}
    BY <1>1 DEF Rows
  <2> HIDE DEF K
  <2>2. PICK i \in Asked(view), k \in K, part \in parts : row = Row(i, Shift(view.origin, k), part, value[<<i, k>>])
    BY <2>1
  <2> QED BY <2>2 DEF K
<1>3. row.instance = i /\ row.event = Shift(view.origin, k) /\ row.value = value[<<i, k>>]
  BY <1>2 DEF Row
<1> QED BY <1>1, <1>3

(* Every number any model answers with is of the instance it is labelled   *)
(* with, and of the moment it is labelled with where the series that was   *)
(* looked at has no gap: whatever the order of rows and instances.         *)
THEOREM ModelsAnswerForTheirCells == Spec => []AnsweredForItsCell
<1>1. AnswersInv => AnsweredForItsCell
  <2> SUFFICES ASSUME AnswersInv, NEW row \in answer
               PROVE /\ row.value.of = row.instance
                     /\ SeenUnbroken(row.instance) => row.value.about = row.event
    BY DEF AnsweredForItsCell
  <2> DEFINE sure == SureOf(AdapterFor[fitted.model], fitted.view, asked.view)
  <2>1. IsAnswer(answer, asked.view, asked.output, sure)
    BY AnswersAreTold DEF Refused
  <2>2. SeenUnbroken(row.instance) /\ row.instance \in Asked(asked.view) => row.instance \in sure
    BY DEF SeenUnbroken, SureOf, SureAtTheFit, Sure
  <2> HIDE DEF sure
  <2> QED BY <2>1, <2>2, RowsOfAnswers
<1> QED BY <1>1, AnswersInvAlways, PTL

(* A forecast is never of a part of what was asked for: a row for every    *)
(* instance, event time and part, or none.                                 *)
THEOREM ModelsAnswerInFull == Spec => []AnsweredInFull
<1>1. AnswersInv => AnsweredInFull
  <2> SUFFICES ASSUME AnswersInv, answer # Refused PROVE AnsweredInFull
    BY DEF AnsweredInFull
  <2> DEFINE view == asked.view
             output == asked.output
             size == IF output.kind = "point" THEN 1 ELSE Cardinality(output.levels)
             cells == {<<row.instance, row.event>> : row \in answer}
             all == ToSet(view.instances) \X ForecastWindow(view.origin, view.horizon)
  <2>1. IsView(view) /\ IsAnswer(answer, view, output, SureOf(AdapterFor[fitted.model], fitted.view, view))
    BY AnswersAreTold
  <2>2. PICK parts, value : IsPartsOf(parts, output) /\ answer = Rows(view, parts, value)
    BY <2>1 DEF IsAnswer
  <2>3. IsFiniteSet(parts) /\ parts # {} /\ Cardinality(parts) = size
    BY <2>2 DEF IsPartsOf
  <2>4. Cardinality(answer) = Len(view.instances) * view.horizon * size
    <3> HIDE DEF view, output, size
    <3> QED BY <2>1, <2>2, <2>3, RowsAreCounted
  <2>5. answer = {Row(i, Shift(view.origin, k), part, value[<<i, k>>]) :
                    i \in Asked(view), k \in 1 .. view.horizon, part \in parts}
    BY <2>2 DEF Rows
  <2>6. all = Asked(view) \X {Shift(view.origin, k) : k \in 1 .. view.horizon}
    BY DEF Asked, ForecastWindow
  <2> HIDE DEF view, output, size, all
  <2>7. ASSUME NEW c \in cells PROVE c \in all
    <3>1. PICK row \in answer : c = <<row.instance, row.event>>
      OBVIOUS
    <3>2. PICK i \in Asked(view), k \in 1 .. view.horizon, part \in parts :
                 row = Row(i, Shift(view.origin, k), part, value[<<i, k>>])
      BY <2>5
    <3>3. c = <<i, Shift(view.origin, k)>>
      BY <3>1, <3>2 DEF Row
    <3> QED BY <2>6, <3>3
  <2>8. ASSUME NEW c \in all PROVE c \in cells
    <3>1. PICK i \in Asked(view), k \in 1 .. view.horizon : c = <<i, Shift(view.origin, k)>>
      BY <2>6
    <3>2. PICK part \in parts : TRUE
      BY <2>3
    <3> DEFINE row == Row(i, Shift(view.origin, k), part, value[<<i, k>>])
    <3>3. row \in answer
      BY <2>5
    <3>4. c = <<row.instance, row.event>>
      BY <3>1 DEF Row
    <3> HIDE DEF row
    <3> QED BY <3>3, <3>4
  <2>9. cells = all
    <3> HIDE DEF cells
    <3> QED BY <2>7, <2>8
  <2> QED BY <2>4, <2>9 DEF AnsweredInFull, view, output, size, all
<1> QED BY <1>1, AnswersInvAlways, PTL

(* No number comes from an observation of after the origin it is asked at. *)
THEOREM ModelsLookAtThePast == Spec => []NothingFromAfterTheOrigin
<1>1. AnswersInv => NothingFromAfterTheOrigin
  <2> SUFFICES ASSUME AnswersInv, NEW row \in answer PROVE row.value.from <= asked.view.origin
    BY DEF NothingFromAfterTheOrigin
  <2>1. IsAnswer(answer, asked.view, asked.output, SureOf(AdapterFor[fitted.model], fitted.view, asked.view))
    BY AnswersAreTold DEF Refused
  <2> QED BY <2>1, RowsOfAnswers
<1> QED BY <1>1, AnswersInvAlways, PTL

(* A model that learns windows learns those of its samples, and is built   *)
(* with what the recipe and the plan said.                                 *)
THEOREM ModelsLearnTheirSamples == Spec => []LearnsItsSamples
<1>1. AnswersInv => LearnsItsSamples
  <2> SUFFICES ASSUME AnswersInv, HasModel, fitted.model \in Fitted PROVE LearnsItsSamples
    BY DEF LearnsItsSamples
  <2>1. IsFit(fitted)
    BY DEF AnswersInv, IsRevision, HasModel, IsRefusal, IsLoaded, Fitted
  <2> QED BY <2>1 DEF IsFit, IsLearned, LearnsItsSamples, Declares
<1> QED BY <1>1, AnswersInvAlways, PTL

(* The quantiles of a cell are in the order of their levels.               *)
THEOREM QuantilesDoNotCross == Spec => []LevelsDoNotCross
<1>1. AnswersInv => LevelsDoNotCross
  <2> SUFFICES ASSUME AnswersInv, asked.output.kind = "quantiles", NEW a \in answer, NEW b \in answer,
                      a.part[1] < b.part[1]
               PROVE Rank(a.part) < Rank(b.part)
    BY DEF LevelsDoNotCross
  <2>1. IsAnswer(answer, asked.view, asked.output, SureOf(AdapterFor[fitted.model], fitted.view, asked.view))
    BY AnswersAreTold DEF Refused
  <2>2. PICK parts, value : IsPartsOf(parts, asked.output) /\ answer = Rows(asked.view, parts, value)
    BY <2>1 DEF IsAnswer
  <2>3. ASSUME NEW row \in answer PROVE row.part \in parts
    <3>1. answer = {Row(i, Shift(asked.view.origin, k), part, value[<<i, k>>]) :
                      i \in Asked(asked.view), k \in 1 .. asked.view.horizon, part \in parts}
      BY <2>2 DEF Rows
    <3>2. PICK i \in Asked(asked.view), k \in 1 .. asked.view.horizon, part \in parts :
                 row = Row(i, Shift(asked.view.origin, k), part, value[<<i, k>>])
      BY <3>1
    <3> QED BY <3>2 DEF Row
  <2> QED BY <2>2, <2>3 DEF IsPartsOf
<1> QED BY <1>1, AnswersInvAlways, PTL

(* A parameter is checked for less than what is published of it.           *)
LEMMA AdmittedIsChecked ==
  ASSUME NEW declared, NEW params, Admits(declared, params)
  PROVE  Checked(params, declared)
BY DEF Admits, Checked, Published, Check

(* A model answers what it declares: no forecast of a declared kind is     *)
(* refused when the library does its part, and no parameters that the      *)
(* schema admits are, unless for a name that belongs to the recipe.        *)
THEOREM ModelsAnswerWhatTheyDeclare == Spec => []AnswersWhatItDeclares
<1>1. AnswersInv => AnswersWhatItDeclares
  <2> SUFFICES ASSUME AnswersInv PROVE AnswersWhatItDeclares
    OBVIOUS
  <2>1. ASSUME "refused" \in DOMAIN fitted
        PROVE ~IsRecipeOf(fitted.params) \/ ~Admits(AdapterFor[fitted.model].parameters, fitted.params)
    <3>1. IsRefusal(fitted)
      BY <2>1 DEF AnswersInv, IsRevision, IsFit, IsLoaded, NotFitted
    <3> QED BY <3>1, AdmittedIsChecked DEF IsRefusal
  <2>2. ASSUME asked # NotAsked,
               asked.output.kind \in Declares(fitted.model).outputs,
               asked.whole,
               \A i \in ToSet(asked.view.instances) : Unbroken(asked.view.history[i], asked.view.origin),
               fitted.model \in Fitted => fitted.view.roles \subseteq asked.view.roles,
               Declares(fitted.model).bound => asked.view.horizon = fitted.view.horizon,
               Declares(fitted.model).view = "series" => AtTheFit
        PROVE answer # Refused
    <3> DEFINE adapter == AdapterFor[fitted.model]
    <3>1. IsFit(fitted) \/ IsLoaded(fitted)
      BY <2>2 DEF AnswersInv, IsTold
    <3>2. PICK steps : /\ asked.whole => Whole(asked.view, steps)
                       /\ Answers(adapter, fitted.view, asked.view, asked.output, steps, answer)
      BY <2>2 DEF AnswersInv, IsTold
    <3>3. adapter.protocol # "chronos" => fitted.model \in Fitted
      BY <3>1, FittedOrNot DEF IsFit, IsLoaded
    <3>4. Asked(asked.view) \subseteq Sure(asked.view)
      BY <2>2 DEF Asked, Sure
    <3>5. AtTheFit => FittedAt(fitted.view.samples, asked.view)
      BY DEF AtTheFit, FittedAt, Asked
    <3>6. IsOwed(adapter, fitted.view, asked.view, asked.output, steps)
      BY <2>2, <3>2, <3>3, <3>4, <3>5 DEF IsOwed, Declares
    <3> QED BY <3>2, <3>6 DEF Answers
  <2> QED BY <2>1, <2>2 DEF AnswersWhatItDeclares
<1> QED BY <1>1, AnswersInvAlways, PTL
=============================================================================
