---------------------------- MODULE EngineProofs ----------------------------
(***************************************************************************)
(* The engine fits and forecasts as it promises, for every set of recipes, *)
(* every provider and every plan that the assumptions of Engine and of the *)
(* modules under it admit.                                                 *)
(*                                                                         *)
(* The inductive invariant is EngineInv. It says of an artifact that some  *)
(* fit call made it (MadeBy), of a fit that what was prepared, asked and   *)
(* written are the models of the recipe in their order (FitInv), and of a  *)
(* forecast that it is about that artifact (AskInv) and has answers on the *)
(* scale of the caller (ScaleInv, AnswersInv).                             *)
(*                                                                         *)
(* The two theorems about the transforms an artifact stores need one       *)
(* hypothesis of their own, KeysSurvive: the key of a stored statistic is  *)
(* read back as it was written. MCEngine has it.                           *)
(*                                                                         *)
(* What each model of a recipe contributes to a forecast is a fraction,    *)
(* and fractions are equal in the sense of SameShare: sums of them are not *)
(* reduced.                                                                *)
(***************************************************************************)
EXTENDS Engine, TLAPS, WellFoundedInduction, FiniteSetTheorems, SequenceTheorems

-----------------------------------------------------------------------------
(* A function that is defined by recursion over recipes is defined. Step   *)
(* says the value of one of three at a recipe from its values at members.  *)

Step(which, f, r) ==
  CASE which = "leaves"     -> LeavesFrom(f, r)
    [] which = "executable" -> ExecutableFrom(f, r)
    [] which = "shares"     -> SharesFrom(f, r)

Local(which) ==
  \A r \in RecipeSet : \A f, g :
    (\A m \in MembersOf(r) : f[m] = g[m]) => Step(which, f, r) = Step(which, g, r)

(* What is defined on recipes and on all of their members.                 *)
Grown(which, D, f) ==
  /\ D \subseteq RecipeSet
  /\ \A r \in D : MembersOf(r) \subseteq D
  /\ f = [r \in D |-> Step(which, f, r)]

(* Two such functions say the same wherever both say something.            *)
LEMMA GrownAgree ==
  ASSUME NEW which, Local(which), NEW D, NEW f, Grown(which, D, f), NEW E, NEW g, Grown(which, E, g)
  PROVE  \A r \in D \cap E : f[r] = g[r]
<1> DEFINE S == {r \in D \cap E : f[r] # g[r]}
<1> SUFFICES ASSUME S # {} PROVE FALSE
  OBVIOUS
<1>1. S \in SUBSET RecipeSet
  BY DEF Grown
<1>2. PICK r \in S : MembersOf(r) \cap S = {}
  BY <1>1, RecipeAssumption
<1>3. r \in D /\ r \in E /\ r \in RecipeSet /\ f[r] # g[r]
  BY <1>1
<1>4. MembersOf(r) \subseteq D \cap E
  BY <1>3 DEF Grown
<1>5. \A m \in MembersOf(r) : f[m] = g[m]
  BY <1>2, <1>4
<1>6. Step(which, f, r) = Step(which, g, r)
  BY <1>3, <1>5 DEF Local
<1>7. f[r] = Step(which, f, r)
  BY <1>3 DEF Grown
<1>8. g[r] = Step(which, g, r)
  BY <1>3 DEF Grown
<1> QED BY <1>3, <1>6, <1>7, <1>8

(* A function defined by recursion over recipes exists.                    *)
LEMMA Recursion ==
  ASSUME NEW which, Local(which)
  PROVE  \E f : f = [r \in RecipeSet |-> Step(which, f, r)]
<1> DEFINE G == {r \in RecipeSet : \E D, f : Grown(which, D, f) /\ r \in D}
           h == [r \in G |-> CHOOSE v : \E D, f : Grown(which, D, f) /\ r \in D /\ v = f[r]]
<1>1. ASSUME NEW D, NEW f, Grown(which, D, f), NEW r \in D PROVE r \in G /\ h[r] = f[r]
  <2>1. r \in G
    BY <1>1 DEF Grown
  <2>2. h[r] = CHOOSE v : \E E, g : Grown(which, E, g) /\ r \in E /\ v = g[r]
    BY <2>1
  <2>3. \E v : \E E, g : Grown(which, E, g) /\ r \in E /\ v = g[r]
    BY <1>1
  <2>4. PICK E, g : Grown(which, E, g) /\ r \in E /\ h[r] = g[r]
    BY <2>2, <2>3
  <2>5. f[r] = g[r]
    BY <1>1, <2>4, GrownAgree
  <2> QED BY <2>1, <2>4, <2>5
<1> HIDE DEF h
<1>2. ASSUME NEW r \in G PROVE MembersOf(r) \subseteq G /\ h[r] = Step(which, h, r)
  <2>1. PICK D, f : Grown(which, D, f) /\ r \in D
    OBVIOUS
  <2>2. MembersOf(r) \subseteq D /\ f[r] = Step(which, f, r) /\ r \in RecipeSet
    BY <2>1 DEF Grown
  <2>3. \A m \in MembersOf(r) : m \in G /\ h[m] = f[m]
    BY <1>1, <2>1, <2>2
  <2>4. Step(which, h, r) = Step(which, f, r)
    BY <2>2, <2>3 DEF Local
  <2> QED BY <1>1, <2>1, <2>2, <2>3, <2>4
<1>3. h = [r \in G |-> Step(which, h, r)]
  <2>1. h = [r \in G |-> h[r]]
    BY DEF h
  <2> QED BY <1>2, <2>1
<1>4. G = RecipeSet
  <2> SUFFICES ASSUME RecipeSet \ G # {} PROVE FALSE
    OBVIOUS
  <2>1. PICK r \in RecipeSet \ G : MembersOf(r) \cap (RecipeSet \ G) = {}
    BY RecipeAssumption
  <2>2. MembersOf(r) \subseteq G
    BY <2>1, RecipeAssumption
  <2> DEFINE H == G \cup {r}
             g == [x \in H |-> IF x = r THEN Step(which, h, r) ELSE h[x]]
  <2>3. \A x \in G : g[x] = h[x]
    BY <2>1
  <2>4. g[r] = Step(which, h, r)
    OBVIOUS
  <2>5. g = [x \in H |-> g[x]]
    OBVIOUS
  <2> HIDE DEF g, G
  <2>6. ASSUME NEW x \in H PROVE MembersOf(x) \subseteq H /\ g[x] = Step(which, g, x)
    <3>1. CASE x = r
      <4>1. \A m \in MembersOf(r) : g[m] = h[m]
        BY <2>2, <2>3
      <4>2. Step(which, g, r) = Step(which, h, r)
        BY <2>1, <4>1 DEF Local
      <4> QED BY <2>2, <2>4, <3>1, <4>2
    <3>2. CASE x # r
      <4>1. x \in G
        BY <3>2
      <4>2. MembersOf(x) \subseteq G /\ h[x] = Step(which, h, x) /\ x \in RecipeSet
        BY <1>2, <4>1 DEF G
      <4>3. \A m \in MembersOf(x) : g[m] = h[m]
        BY <2>3, <4>2
      <4>4. Step(which, g, x) = Step(which, h, x)
        BY <4>2, <4>3 DEF Local
      <4> QED BY <2>3, <4>1, <4>2, <4>4
    <3> QED BY <3>1, <3>2
  <2>7. H \subseteq RecipeSet
    BY <2>1 DEF G
  <2> HIDE DEF H
  <2>8. g = [x \in H |-> Step(which, g, x)]
    BY <2>5, <2>6
  <2>9. Grown(which, H, g)
    BY <2>6, <2>7, <2>8 DEF Grown
  <2>10. r \in G
    BY <1>1, <2>9 DEF H
  <2> QED BY <2>1, <2>10
<1> QED BY <1>3, <1>4

-----------------------------------------------------------------------------
(* What a recipe is lowered to depends on what its members are lowered to, *)
(* and on nothing else.                                                    *)
LEMMA LeavesAreOfTheMembers == Local("leaves")
<1> SUFFICES ASSUME NEW r \in RecipeSet, NEW f, NEW g, \A m \in MembersOf(r) : f[m] = g[m]
             PROVE  LeavesFrom(f, r) = LeavesFrom(g, r)
  BY DEF Local, Step
<1>1. CASE r.kind \in {"model", "reduction"}
  BY <1>1 DEF LeavesFrom
<1>2. CASE r.kind = "pipeline"
  <2>1. f[r.estimator] = g[r.estimator]
    BY <1>2 DEF MembersOf
  <2> QED BY <1>2, <2>1 DEF LeavesFrom
<1>3. CASE r.kind = "ensemble"
  <2>1. \A k \in DOMAIN r.models : f[r.models[k]] = g[r.models[k]]
    BY <1>3 DEF MembersOf
  <2>2. [k \in DOMAIN r.models |-> f[r.models[k]]] = [k \in DOMAIN r.models |-> g[r.models[k]]]
    BY <2>1
  <2> QED BY <1>3, <2>2 DEF LeavesFrom
<1> QED BY <1>1, <1>2, <1>3, RecipeAssumption

(* So Leaves is a function that exists, and is what its definition says.   *)
LEMMA LeavesUnfold == \A r \in RecipeSet : Leaves[r] = LeavesFrom(Leaves, r)
<1>1. \E f : f = [r \in RecipeSet |-> LeavesFrom(f, r)]
  BY LeavesAreOfTheMembers, Recursion DEF Step
<1>2. Leaves = CHOOSE f : f = [r \in RecipeSet |-> LeavesFrom(f, r)]
  BY DEF Leaves
<1>3. Leaves = [r \in RecipeSet |-> LeavesFrom(Leaves, r)]
  BY <1>1, <1>2
<1> QED BY <1>3

(* A set of naturals that is not empty has a least one.                    *)
LEMMA LeastNumber ==
  ASSUME NEW S, S \subseteq Nat, S # {}
  PROVE  \E least \in S : \A t \in S : least <= t
<1> DEFINE Less == OpToRel(<, Nat)
<1>1. IsWellFoundedOn(Less, Nat)
  BY NatLessThanWellFounded
<1>2. PICK least \in S : \A t \in S : ~(<<t, least>> \in Less)
  <2> HIDE DEF Less
  <2> QED BY <1>1, WFMin
<1>3. \A t \in S : ~(t < least)
  BY <1>2 DEF OpToRel
<1> QED BY <1>3

(* What a sequence of sequences is, joined up to one of them.              *)
JoinedFrom(seqs, joined, k) == IF k = 1 THEN seqs[k] ELSE joined[k - 1] \o seqs[k]

(* The recursion of FlattenSeq is over numbers, so it is defined.          *)
LEMMA JoinedIsDefined ==
  ASSUME NEW seqs, NEW n \in Nat
  PROVE  \E f : f = [k \in 1 .. n |-> JoinedFrom(seqs, f, k)]
<1> DEFINE Is(f, m) == DOMAIN f = 1 .. m /\ f = [k \in 1 .. m |-> f[k]]
                       /\ \A k \in 1 .. m : f[k] = JoinedFrom(seqs, f, k)
           S == {m \in Nat : ~\E f : Is(f, m)}
<1>1. ASSUME S # {} PROVE FALSE
  <2>1. PICK m \in S : \A t \in S : m <= t
    BY <1>1, LeastNumber
  <2>2. CASE m = 0
    <3>1. Is([k \in 1 .. 0 |-> 0], 0)
      OBVIOUS
    <3> QED BY <2>1, <2>2, <3>1
  <2>3. CASE m # 0
    <3>1. m - 1 \in Nat /\ m - 1 \notin S
      BY <2>1, <2>3
    <3>2. PICK f : Is(f, m - 1)
      BY <3>1
    <3> DEFINE g == [k \in 1 .. m |-> IF k < m THEN f[k] ELSE JoinedFrom(seqs, f, m)]
    <3>3. \A k \in 1 .. m - 1 : g[k] = f[k]
      BY <2>1
    <3>4. g[m] = JoinedFrom(seqs, f, m)
      BY <2>1, <2>3
    <3>5. \A k \in 1 .. m : JoinedFrom(seqs, g, k) = JoinedFrom(seqs, f, k)
      <4> SUFFICES ASSUME NEW k \in 1 .. m PROVE JoinedFrom(seqs, g, k) = JoinedFrom(seqs, f, k)
        OBVIOUS
      <4>1. k # 1 => k - 1 \in 1 .. m - 1
        BY <2>1
      <4> HIDE DEF g
      <4> QED BY <3>3, <4>1 DEF JoinedFrom
    <3>6. DOMAIN g = 1 .. m /\ g = [k \in 1 .. m |-> g[k]]
      OBVIOUS
    <3> HIDE DEF g
    <3>7. \A k \in 1 .. m : g[k] = JoinedFrom(seqs, g, k)
      <4> SUFFICES ASSUME NEW k \in 1 .. m PROVE g[k] = JoinedFrom(seqs, f, k)
        BY <3>5
      <4>1. CASE k = m
        BY <3>4, <4>1
      <4>2. CASE k # m
        <5>1. k \in 1 .. m - 1
          BY <2>1, <4>2
        <5> QED BY <3>2, <3>3, <5>1
      <4> QED BY <4>1, <4>2
    <3>8. Is(g, m)
      BY <3>6, <3>7
    <3> QED BY <2>1, <3>8
  <2> QED BY <2>2, <2>3
<1>2. PICK f : Is(f, n)
  BY <1>1
<1> QED BY <1>2

(* Lists that are not empty, joined, are a list that is not empty.         *)
LEMMA FlattenIsASequence ==
  ASSUME NEW X, NEW seqs \in Seq(Seq(X)), Len(seqs) >= 1,
         \A k \in DOMAIN seqs : seqs[k] # <<>>
  PROVE  FlattenSeq(seqs) \in Seq(X) /\ FlattenSeq(seqs) # <<>>
<1> DEFINE n == Len(seqs)
           joined == CHOOSE f : f = [k \in 1 .. n |-> JoinedFrom(seqs, f, k)]
<1>1. n \in Nat /\ n >= 1 /\ \A k \in 1 .. n : seqs[k] \in Seq(X) /\ Len(seqs[k]) >= 1
  OBVIOUS
<1>2. joined = [k \in 1 .. n |-> JoinedFrom(seqs, joined, k)]
  <2>1. \E f : f = [k \in 1 .. n |-> JoinedFrom(seqs, f, k)]
    BY <1>1, JoinedIsDefined
  <2> QED BY <2>1
<1>3. FlattenSeq(seqs) = joined[n]
  BY <1>1 DEF FlattenSeq, JoinedFrom
<1> HIDE DEF joined, n
<1>4. \A k \in 1 .. n : joined[k] = IF k = 1 THEN seqs[k] ELSE joined[k - 1] \o seqs[k]
  BY <1>2 DEF JoinedFrom
<1> DEFINE S == {k \in 1 .. n : ~(joined[k] \in Seq(X) /\ Len(joined[k]) >= 1)}
<1>5. ASSUME S # {} PROVE FALSE
  <2>1. PICK k \in S : \A t \in S : k <= t
    <3>1. S \subseteq Nat
      BY <1>1
    <3> HIDE DEF S
    <3> QED BY <1>5, <3>1, LeastNumber
  <2>2. CASE k = 1
    BY <1>1, <1>4, <2>1, <2>2
  <2>3. CASE k # 1
    <3>1. k - 1 \in 1 .. n /\ k - 1 \notin S
      BY <1>1, <2>1, <2>3
    <3>2. joined[k - 1] \in Seq(X) /\ Len(joined[k - 1]) >= 1 /\ seqs[k] \in Seq(X) /\ Len(seqs[k]) >= 1
      BY <1>1, <3>1
    <3>3. joined[k - 1] \o seqs[k] \in Seq(X) /\ Len(joined[k - 1] \o seqs[k]) >= 1
      <4>1. \A s, t \in Seq(X) : s \o t \in Seq(X) /\ Len(s \o t) = Len(s) + Len(t)
                                  /\ Len(s) \in Nat /\ Len(t) \in Nat
        OBVIOUS
      <4>2. \A a, b \in Nat : a >= 1 => a + b >= 1
        OBVIOUS
      <4> QED BY <3>2, <4>1, <4>2
    <3> QED BY <1>4, <2>1, <2>3, <3>3
  <2> QED BY <2>2, <2>3
<1>6. joined[n] \in Seq(X) /\ Len(joined[n]) >= 1
  BY <1>1, <1>5
<1> QED BY <1>3, <1>6

(* Every recipe is made of one model or more, in order.                    *)
IsList(s) == \E X : s \in Seq(X)
IsLeaf(x) == x = Leaf(x.ref, x.transforms) /\ IsList(x.transforms)
IsChain(s) == s # <<>> /\ \E X : s \in Seq(X) /\ \A x \in X : IsLeaf(x)

(* A leaf within a pipeline is a leaf, after more transforms.              *)
LEMMA WithinIsALeaf ==
  ASSUME NEW transforms, NEW leaf, IsList(transforms), IsLeaf(leaf)
  PROVE  IsLeaf(Within(transforms, leaf))
<1> DEFINE joined == transforms \o leaf.transforms
<1>1. Within(transforms, leaf) = Leaf(leaf.ref, joined)
  BY DEF Within
<1>2. PICK X, Y : transforms \in Seq(X) /\ leaf.transforms \in Seq(Y)
  BY DEF IsLeaf, IsList
<1>3. transforms \in Seq(X \cup Y) /\ leaf.transforms \in Seq(X \cup Y)
  BY <1>2
<1>4. joined \in Seq(X \cup Y)
  <2>1. \A s, t \in Seq(X \cup Y) : s \o t \in Seq(X \cup Y)
    OBVIOUS
  <2> QED BY <1>3, <2>1
<1> HIDE DEF joined
<1>5. Leaf(leaf.ref, joined).ref = leaf.ref /\ Leaf(leaf.ref, joined).transforms = joined
  BY DEF Leaf
<1> QED BY <1>1, <1>4, <1>5 DEF IsLeaf, IsList

(* Every recipe is lowered to a list of leaves that is not empty.          *)
LEMMA LeavesAreChains ==
  ASSUME \A r \in RecipeSet : IsRecipe(r)
  PROVE  \A r \in RecipeSet : IsChain(Leaves[r])
<1> DEFINE S == {r \in RecipeSet : ~IsChain(Leaves[r])}
<1> SUFFICES ASSUME S # {} PROVE FALSE
  OBVIOUS
<1>1. PICK r \in S : MembersOf(r) \cap S = {}
  BY RecipeAssumption
<1>2. /\ r \in RecipeSet /\ Leaves[r] = LeavesFrom(Leaves, r)
      /\ \A m \in MembersOf(r) : IsChain(Leaves[m])
  BY <1>1, RecipeAssumption, LeavesUnfold
<1>3. IsChain(LeavesFrom(Leaves, r))
  <2>1. CASE r.kind \in {"model", "reduction"}
    <3> DEFINE one == Leaf(r.ref, <<>>)
    <3>1. LeavesFrom(Leaves, r) = <<one>>
      BY <2>1 DEF LeavesFrom
    <3>2. IsLeaf(one)
      <4>1. one.ref = r.ref /\ one.transforms = <<>> /\ <<>> \in Seq({})
        BY DEF Leaf
      <4> QED BY <4>1 DEF IsLeaf, IsList
    <3> HIDE DEF one
    <3>3. <<one>> \in Seq({one}) /\ <<one>> # <<>>
      OBVIOUS
    <3>4. \A x \in {one} : IsLeaf(x)
      BY <3>2
    <3>5. \E X : <<one>> \in Seq(X) /\ \A x \in X : IsLeaf(x)
      <4> DEFINE X == {one}
      <4>1. <<one>> \in Seq(X) /\ \A x \in X : IsLeaf(x)
        BY <3>3, <3>4
      <4> HIDE DEF X
      <4> QED BY <4>1
    <3> QED BY <3>1, <3>3, <3>5, Zenon DEF IsChain
  <2>2. CASE r.kind = "pipeline"
    <3> DEFINE own == Leaves[r.estimator]
               wrapped == [k \in DOMAIN own |-> Within(r.transforms, own[k])]
    <3>1. LeavesFrom(Leaves, r) = wrapped
      BY <2>2 DEF LeavesFrom
    <3>2. PICK X : own \in Seq(X) /\ own # <<>> /\ \A x \in X : IsLeaf(x)
      BY <1>2, <2>2 DEF MembersOf, IsChain
    <3>3. IsList(r.transforms)
      BY <1>2, <2>2, RecipeAssumption DEF IsList
    <3> HIDE DEF own
    <3> DEFINE Y == {Within(r.transforms, x) : x \in X}
    <3>4. \A y \in Y : IsLeaf(y)
      BY <3>2, <3>3, WithinIsALeaf
    <3>5. wrapped \in Seq(Y) /\ wrapped # <<>>
      BY <3>2
    <3> HIDE DEF Y, wrapped
    <3> QED BY <3>1, <3>4, <3>5 DEF IsChain
  <2>3. CASE r.kind = "ensemble"
    <3> DEFINE parts == [k \in DOMAIN r.models |-> Leaves[r.models[k]]]
               X == {x \in UNION {{parts[k][n] : n \in DOMAIN parts[k]} : k \in DOMAIN r.models} : IsLeaf(x)}
    <3>1. LeavesFrom(Leaves, r) = FlattenSeq(parts)
      BY <2>3 DEF LeavesFrom
    <3>2. r.models \in Seq(RecipeSet) /\ Len(r.models) >= 2
      BY <1>2, <2>3, RecipeAssumption DEF IsRecipe
    <3>3. \A k \in DOMAIN r.models : IsChain(parts[k])
      BY <1>2, <2>3 DEF MembersOf
    <3>4. \A k \in DOMAIN r.models : parts[k] \in Seq(X) /\ parts[k] # <<>>
      <4> SUFFICES ASSUME NEW k \in DOMAIN r.models PROVE parts[k] \in Seq(X) /\ parts[k] # <<>>
        OBVIOUS
      <4>1. PICK Y : parts[k] \in Seq(Y) /\ parts[k] # <<>> /\ \A y \in Y : IsLeaf(y)
        BY <3>3 DEF IsChain
      <4>2. \A n \in DOMAIN parts[k] : parts[k][n] \in Y
        BY <4>1
      <4>3. \A n \in DOMAIN parts[k] : parts[k][n] \in X
        BY <4>1, <4>2
      <4> HIDE DEF parts, X
      <4> QED BY <4>1, <4>3
    <3>5. /\ DOMAIN parts = DOMAIN r.models /\ DOMAIN parts = 1 .. Len(r.models)
          /\ Len(r.models) \in Nat /\ parts = [k \in DOMAIN parts |-> parts[k]]
      BY <3>2
    <3>6. \A x \in X : IsLeaf(x)
      OBVIOUS
    <3> HIDE DEF X, parts
    <3>7. parts \in Seq(Seq(X)) /\ Len(parts) = Len(r.models)
      BY <3>4, <3>5
    <3>8. FlattenSeq(parts) \in Seq(X) /\ FlattenSeq(parts) # <<>>
      <4>1. Len(parts) >= 1
        BY <3>2, <3>7
      <4>2. \A k \in DOMAIN parts : parts[k] # <<>>
        BY <3>4, <3>5
      <4> QED BY <3>7, <4>1, <4>2, FlattenIsASequence
    <3> QED BY <3>1, <3>6, <3>8 DEF IsChain
  <2> QED BY <1>2, <2>1, <2>2, <2>3, RecipeAssumption
<1> QED BY <1>1, <1>2, <1>3

(* A model alone is one leaf without transforms, and is executable.        *)
LEMMA LeavesOfAModel ==
  ASSUME NEW r \in RecipeSet, r.kind = "model"
  PROVE  Leaves[r] = <<Leaf(r.ref, <<>>)>> /\ Executable[r]
<1>1. Leaves[r] = <<Leaf(r.ref, <<>>)>>
  BY LeavesUnfold DEF LeavesFrom
<1>2. Local("executable")
  BY DEF Local, Step, ExecutableFrom
<1>3. \E f : f = [s \in RecipeSet |-> ExecutableFrom(f, s)]
  BY <1>2, Recursion DEF Step
<1>4. Executable = CHOOSE f : f = [s \in RecipeSet |-> ExecutableFrom(f, s)]
  BY DEF Executable
<1>5. Executable = [s \in RecipeSet |-> ExecutableFrom(Executable, s)]
  BY <1>3, <1>4
<1>6. Executable[r] = ExecutableFrom(Executable, r)
  BY <1>5
<1>7. ExecutableFrom(Executable, r)
  BY DEF ExecutableFrom, MembersOf
<1> QED BY <1>1, <1>6, <1>7
-----------------------------------------------------------------------------
(* The least of a set of places is one of them. *)
LEMMA LeastPlace ==
  ASSUME NEW n \in Nat, NEW s \in SUBSET (1 .. n), s # {}
  PROVE  Min(s) \in s /\ \A t \in s : Min(s) <= t
<1>1. s \subseteq Nat
  OBVIOUS
<1>2. \E least \in s : \A t \in s : least <= t
  BY <1>1, LeastNumber
<1> QED BY <1>2 DEF Min

(* What is left of a scale when the steps of a set of places are undone.   *)
LeftOf(passes, scale, rest, s) ==
  IF s = {} THEN scale ELSE Undo(passes[Min(s)], rest[s \ {Min(s)}])

(* The recursion of FoldRight is over sets of places, so it is defined.    *)
LEMMA UndoingIsDefined ==
  ASSUME NEW passes, NEW scale, NEW n \in Nat
  PROVE  \E f : f = [s \in SUBSET (1 .. n) |-> LeftOf(passes, scale, f, s)]
<1> DEFINE From(m) == SUBSET (n - m + 1 .. n)
           Is(f, m) == f = [s \in From(m) |-> LeftOf(passes, scale, f, s)]
           S == {m \in 0 .. n : ~\E f : Is(f, m)}
<1>1. ASSUME S # {} PROVE FALSE
  <2>1. PICK m \in S : \A t \in S : m <= t
    <3>1. S \subseteq Nat
      OBVIOUS
    <3> HIDE DEF S
    <3> QED BY <1>1, <3>1, LeastNumber
  <2>2. m \in 0 .. n /\ ~\E f : Is(f, m)
    BY <2>1
  <2>3. CASE m = 0
    <3>1. From(0) = {{}}
      OBVIOUS
    <3>2. Is([s \in {{}} |-> scale], 0)
      BY <3>1 DEF LeftOf
    <3> HIDE DEF Is
    <3> QED BY <2>2, <2>3, <3>2
  <2>4. CASE m # 0
    <3>1. m - 1 \in 0 .. n /\ ~(m <= m - 1)
      BY <2>2, <2>4
    <3>2. PICK f : Is(f, m - 1)
      <4>1. m - 1 \notin S
        <5> HIDE DEF S
        <5> QED BY <2>1, <3>1
      <4> QED BY <3>1, <4>1
    <3> DEFINE g == [s \in From(m) |-> LeftOf(passes, scale, f, s)]
    <3>3. From(m - 1) \subseteq From(m)
      BY <2>2, <2>4
    <3>4. \A s \in From(m - 1) : f[s] = LeftOf(passes, scale, f, s)
      BY <3>2
    <3>5. \A s \in From(m) : g[s] = LeftOf(passes, scale, f, s)
      OBVIOUS
    <3>6. g = [s \in From(m) |-> g[s]]
      OBVIOUS
    <3>7. \A s \in From(m) : s # {} => s \ {Min(s)} \in From(m - 1)
      <4> SUFFICES ASSUME NEW s \in From(m), s # {} PROVE s \ {Min(s)} \in From(m - 1)
        OBVIOUS
      <4>1. s \in SUBSET (1 .. n)
        BY <2>2
      <4>2. Min(s) \in s /\ \A t \in s : Min(s) <= t
        BY <4>1, LeastPlace
      <4>3. \A t \in s \ {Min(s)} : t \in n - (m - 1) + 1 .. n
        <5> SUFFICES ASSUME NEW t \in s, t # Min(s) PROVE t \in n - (m - 1) + 1 .. n
          OBVIOUS
        <5>1. Min(s) \in n - m + 1 .. n /\ t \in n - m + 1 .. n /\ Min(s) <= t
          BY <4>2
        <5> DEFINE least == Min(s)
        <5> HIDE DEF least
        <5>2. least \in n - m + 1 .. n /\ t \in n - m + 1 .. n /\ least <= t /\ t # least
          BY <5>1 DEF least
        <5> QED BY <2>2, <5>2
      <4> QED BY <4>3
    <3> HIDE DEF g, From
    <3>8. \A s \in From(m) : LeftOf(passes, scale, g, s) = LeftOf(passes, scale, f, s)
      BY <3>3, <3>4, <3>5, <3>7 DEF LeftOf
    <3>9. Is(g, m)
      BY <3>5, <3>6, <3>8
    <3> HIDE DEF Is
    <3> QED BY <2>2, <3>9
  <2> QED BY <2>3, <2>4
<1>2. n \in 0 .. n /\ n \notin S
  <2>1. S = {}
    BY <1>1
  <2> HIDE DEF S
  <2> QED BY <2>1
<1>3. n - n + 1 = 1
  OBVIOUS
<1>4. PICK f : Is(f, n)
  BY <1>2
<1> QED BY <1>3, <1>4

(* Undoing steps is undoing the first of them in what the others leave.    *)
LEMMA UndoingUnfolds ==
  ASSUME NEW passes, NEW scale, NEW n \in Nat, DOMAIN passes = 1 .. n
  PROVE  \E f : /\ FoldRight(Undo, passes, scale) = f[1 .. n]
                /\ \A s \in SUBSET (1 .. n) : f[s] = LeftOf(passes, scale, f, s)
<1> DEFINE iter == CHOOSE f : f = [s \in SUBSET (1 .. n) |-> LeftOf(passes, scale, f, s)]
<1>1. FoldRight(Undo, passes, scale) = iter[1 .. n]
  BY DEF FoldRight, MapThenFoldSet, LeftOf
<1>2. iter = [s \in SUBSET (1 .. n) |-> LeftOf(passes, scale, iter, s)]
  BY UndoingIsDefined
<1> HIDE DEF iter
<1> QED BY <1>1, <1>2
(* Joining lists is joining the last of them to what is joined of the      *)
(* others.                                                                 *)
LEMMA FlattenUnfolds ==
  ASSUME NEW X, NEW seqs \in Seq(X), Len(seqs) # 0
  PROVE  \E f : /\ FlattenSeq(seqs) = f[Len(seqs)]
                /\ \A k \in 1 .. Len(seqs) : f[k] = JoinedFrom(seqs, f, k)
<1> DEFINE n == Len(seqs)
           joined == CHOOSE f : f = [k \in 1 .. n |-> JoinedFrom(seqs, f, k)]
<1>1. n \in Nat
  OBVIOUS
<1>2. joined = [k \in 1 .. n |-> JoinedFrom(seqs, joined, k)]
  <2>1. \E f : f = [k \in 1 .. n |-> JoinedFrom(seqs, f, k)]
    BY <1>1, JoinedIsDefined
  <2> QED BY <2>1
<1>3. FlattenSeq(seqs) = joined[n]
  BY DEF FlattenSeq, JoinedFrom
<1> HIDE DEF joined
<1> QED BY <1>2, <1>3

(* One step undoes what it did last. *)
LEMMA UndoOfAStep ==
  ASSUME NEW T, NEW scale \in Seq(T), NEW statistics \in T
  PROVE  Undo(<<statistics>>, scale \o <<statistics>>) = scale
<1> DEFINE all == scale \o <<statistics>>
<1>1. /\ all \in Seq(T) /\ Len(all) = Len(scale) + 1 /\ Len(scale) \in Nat
      /\ all[Len(scale) + 1] = statistics
      /\ \A k \in 1 .. Len(scale) : all[k] = scale[k]
  OBVIOUS
<1> HIDE DEF all
<1>2. all # <<>> /\ Last(all) = statistics
  BY <1>1 DEF Last
<1>3. Front(all) = scale
  <2>1. Len(all) - 1 = Len(scale)
    BY <1>1
  <2>2. Front(all) = [k \in 1 .. Len(scale) |-> all[k]]
    BY <1>1, <2>1 DEF Front
  <2>3. scale = [k \in 1 .. Len(scale) |-> scale[k]]
    OBVIOUS
  <2> QED BY <1>1, <2>2, <2>3
<1>4. <<statistics>> # <<>> /\ <<statistics>>[1] = statistics
  OBVIOUS
<1>5. Undo(<<statistics>>, all) = Front(all)
  BY <1>2, <1>4 DEF Undo, Undone
<1> QED BY <1>3, <1>5 DEF all

(* Undoing every step takes a value back to where it came from.            *)
LEMMA UndoneInFull ==
  ASSUME NEW steps, IsList(steps), NEW cell
  PROVE  Inverted(steps, cell, ScaleOf(steps, cell)) = <<>>
<1> DEFINE n == Len(steps)
           passes == Passes(steps, cell)
           T == {Statistics(steps, k, cell) : k \in 1 .. n}
           scale == ScaleOf(steps, cell)
<1>1. n \in Nat /\ DOMAIN steps = 1 .. n
  BY DEF IsList
<1>2. /\ DOMAIN passes = 1 .. n
      /\ \A k \in 1 .. n : passes[k] = <<>> \/ \E t \in T : passes[k] = <<t>>
      /\ passes \in Seq(Seq(T)) /\ Len(passes) = n
  <2>1. DOMAIN passes = 1 .. n /\ passes = [k \in 1 .. n |-> passes[k]]
    BY <1>1 DEF Passes
  <2>2. \A k \in 1 .. n : passes[k] = <<>> \/ passes[k] = <<Statistics(steps, k, cell)>>
    BY <1>1 DEF Passes
  <2>3. \A k \in 1 .. n : passes[k] = <<>> \/ \E t \in T : passes[k] = <<t>>
    BY <2>2
  <2> HIDE DEF passes, T
  <2>4. \A k \in 1 .. n : passes[k] \in Seq(T)
    <3>1. <<>> \in Seq(T) /\ \A t \in T : <<t>> \in Seq(T)
      OBVIOUS
    <3> QED BY <2>3, <3>1
  <2> QED BY <1>1, <2>1, <2>3, <2>4
<1> SUFFICES Inverted(steps, cell, scale) = <<>>
  OBVIOUS
<1>3. scale = FlattenSeq(passes) /\ Inverted(steps, cell, scale) = FoldRight(Undo, passes, scale)
  BY DEF ScaleOf, Inverted
<1> HIDE DEF n, passes, T, scale
<1>4. PICK rest : /\ FoldRight(Undo, passes, scale) = rest[1 .. n]
                  /\ \A s \in SUBSET (1 .. n) : rest[s] = LeftOf(passes, scale, rest, s)
  BY <1>1, <1>2, UndoingUnfolds, ZenonT(60)
<1>5. rest[{}] = scale
  BY <1>4 DEF LeftOf
<1>6. CASE n = 0
  <2>1. scale = <<>> /\ 1 .. n = {}
    BY <1>2, <1>3, <1>6 DEF FlattenSeq
  <2> QED BY <1>3, <1>4, <1>5, <2>1
<1>7. CASE n # 0
  <2>1. PICK joined : /\ scale = joined[n]
                      /\ \A k \in 1 .. n : joined[k] = JoinedFrom(passes, joined, k)
    BY <1>2, <1>3, <1>7, FlattenUnfolds
  <2> DEFINE upto == [k \in 0 .. n |-> IF k = 0 THEN <<>> ELSE joined[k]]
  <2>2. /\ upto[0] = <<>> /\ upto[n] = scale
        /\ \A k \in 1 .. n : upto[k] = upto[k - 1] \o passes[k]
    <3>1. upto[0] = <<>> /\ upto[n] = scale
      BY <1>1, <1>7, <2>1
    <3>2. upto[1] = upto[0] \o passes[1]
      <4>1. passes[1] \in Seq(T) /\ upto[1] = passes[1]
        BY <1>1, <1>2, <1>7, <2>1 DEF JoinedFrom
      <4>2. \A s \in Seq(T) : <<>> \o s = s
        OBVIOUS
      <4> HIDE DEF upto
      <4> QED BY <3>1, <4>1, <4>2
    <3>3. ASSUME NEW k \in 2 .. n PROVE upto[k] = upto[k - 1] \o passes[k]
      <4>1. k \in 1 .. n /\ k # 1 /\ k # 0 /\ k - 1 # 0 /\ k \in 0 .. n /\ k - 1 \in 0 .. n
        BY <1>1
      <4>2. upto[k] = joined[k] /\ upto[k - 1] = joined[k - 1]
        BY <4>1
      <4> HIDE DEF upto
      <4> QED BY <2>1, <4>1, <4>2 DEF JoinedFrom
    <3> HIDE DEF upto
    <3>4. \A k \in 1 .. n : k = 1 \/ k \in 2 .. n
      BY <1>1
    <3>5. 1 - 1 = 0
      OBVIOUS
    <3> QED BY <3>1, <3>2, <3>3, <3>4, <3>5
  <2> HIDE DEF upto
  <2> DEFINE Bad == {k \in 0 .. n : upto[k] \notin Seq(T)}
  <2>3. ASSUME Bad # {} PROVE FALSE
    <3>1. PICK k \in Bad : \A t \in Bad : k <= t
      <4>1. Bad \subseteq Nat
        BY <1>1
      <4> HIDE DEF Bad
      <4> QED BY <2>3, <4>1, LeastNumber
    <3>2. CASE k = 0
      <4>1. <<>> \in Seq(T)
        OBVIOUS
      <4>2. upto[k] \in Seq(T)
        BY <2>2, <3>2, <4>1
      <4> QED BY <3>1, <4>2
    <3>3. CASE k # 0
      <4>1. k \in 1 .. n /\ k - 1 \in 0 .. n /\ ~(k <= k - 1)
        BY <1>1, <3>1, <3>3
      <4>2. k - 1 \notin Bad
        <5> HIDE DEF Bad
        <5> QED BY <3>1, <4>1
      <4>3. upto[k - 1] \in Seq(T) /\ passes[k] \in Seq(T) /\ upto[k] = upto[k - 1] \o passes[k]
        BY <1>2, <2>2, <4>1, <4>2
      <4>4. \A s, t \in Seq(T) : s \o t \in Seq(T)
        OBVIOUS
      <4> QED BY <3>1, <4>3, <4>4
    <3> QED BY <3>2, <3>3
  <2>4. ASSUME NEW k \in 1 .. n PROVE Undo(passes[k], upto[k]) = upto[k - 1]
    <3>1. k - 1 \in 0 .. n /\ upto[k] = upto[k - 1] \o passes[k]
      <4>1. k - 1 \in 0 .. n
        BY <1>1
      <4> QED BY <2>2, <4>1
    <3>2. upto[k - 1] \in Seq(T)
      BY <2>3, <3>1
    <3>3. CASE passes[k] = <<>>
      <4>1. \A s \in Seq(T) : s \o <<>> = s
        OBVIOUS
      <4>2. upto[k] = upto[k - 1]
        BY <3>1, <3>2, <3>3, <4>1
      <4> QED BY <3>3, <4>2 DEF Undo
    <3>4. ASSUME NEW t \in T, passes[k] = <<t>> PROVE Undo(passes[k], upto[k]) = upto[k - 1]
      BY <3>1, <3>2, <3>4, UndoOfAStep
    <3> QED BY <1>2, <3>3, <3>4
  <2> DEFINE Wrong == {m \in 0 .. n : rest[n - m + 1 .. n] # upto[n - m]}
  <2>5. ASSUME Wrong # {} PROVE FALSE
    <3>1. PICK m \in Wrong : \A t \in Wrong : m <= t
      <4>1. Wrong \subseteq Nat
        BY <1>1
      <4> HIDE DEF Wrong
      <4> QED BY <2>5, <4>1, LeastNumber
    <3>2. m \in 0 .. n /\ rest[n - m + 1 .. n] # upto[n - m]
      BY <3>1
    <3>3. CASE m = 0
      <4>1. n - m + 1 .. n = {} /\ n - m = n
        BY <1>1, <3>3
      <4> QED BY <1>5, <2>2, <3>2, <4>1
    <3>4. CASE m # 0
      <4> DEFINE k == n - m + 1
                 s == k .. n
      <4>1. /\ k \in 1 .. n /\ k - 1 = n - m /\ m - 1 \in 0 .. n /\ ~(m <= m - 1)
            /\ n - (m - 1) = k /\ n - (m - 1) + 1 = k + 1
        BY <1>1, <3>2, <3>4
      <4>2. m - 1 \notin Wrong
        <5> HIDE DEF Wrong
        <5> QED BY <3>1, <4>1
      <4>3. rest[k + 1 .. n] = upto[k]
        <5>1. rest[n - (m - 1) + 1 .. n] = upto[n - (m - 1)]
          BY <4>1, <4>2
        <5> HIDE DEF k
        <5> QED BY <4>1, <5>1
      <4> HIDE DEF k
      <4>4. s \in SUBSET (1 .. n) /\ s # {} /\ k \in s /\ \A t \in s : k <= t
        BY <1>1, <4>1, SMTT(30)
      <4>5. Min(s) \in s /\ \A t \in s : Min(s) <= t
        BY <1>1, <4>4, LeastPlace
      <4>6. Min(s) = k
        <5> DEFINE least == Min(s)
        <5>1. least \in s /\ least <= k
          BY <4>4, <4>5
        <5> HIDE DEF least
        <5>2. least = k
          BY <1>1, <4>1, <5>1
        <5> QED BY <5>2 DEF least
      <4>7. s \ {k} = k + 1 .. n
        BY <1>1, <4>1
      <4> HIDE DEF s
      <4>8. rest[s] = Undo(passes[k], rest[k + 1 .. n])
        BY <1>4, <4>4, <4>6, <4>7 DEF LeftOf
      <4>9. rest[s] = upto[k - 1]
        BY <2>4, <4>1, <4>3, <4>8
      <4>10. rest[k .. n] = upto[k - 1]
        BY <4>9 DEF s
      <4>11. rest[n - m + 1 .. n] = upto[n - m]
        BY <4>1, <4>10 DEF k
      <4> QED BY <3>2, <4>11
    <3> QED BY <3>3, <3>4
  <2>6. rest[1 .. n] = upto[0]
    <3>1. n \in 0 .. n /\ n - n + 1 = 1 /\ n - n = 0
      BY <1>1
    <3>2. rest[n - n + 1 .. n] = upto[n - n]
      BY <2>5, <3>1
    <3> QED BY <3>1, <3>2
  <2> QED BY <1>3, <1>4, <2>2, <2>6
<1> QED BY <1>6, <1>7
-----------------------------------------------------------------------------
(* The models of a recipe, and where they are kept.                        *)

(* The models of a recipe are numbered from 1, and each has a list of      *)
(* transforms.                                                             *)
LEMMA ModelsOfARecipe ==
  ASSUME NEW r \in RecipeSet
  PROVE  /\ DOMAIN Leaves[r] = 1 .. Len(Leaves[r]) /\ Len(Leaves[r]) \in Nat /\ Len(Leaves[r]) >= 1
         /\ \A k \in DOMAIN Leaves[r] : IsList(Leaves[r][k].transforms)
<1> DEFINE found == Leaves[r]
<1>1. IsChain(found)
  BY LeavesAreChains, EngineAssumption
<1> HIDE DEF found
<1>2. PICK X : found # <<>> /\ found \in Seq(X) /\ \A x \in X : IsLeaf(x)
  BY <1>1 DEF IsChain
<1>3. DOMAIN found = 1 .. Len(found) /\ Len(found) \in Nat /\ Len(found) >= 1
  BY <1>2
<1>4. \A k \in DOMAIN found : found[k] \in X
  BY <1>2
<1>5. \A k \in DOMAIN found : IsList(found[k].transforms)
  BY <1>2, <1>4 DEF IsLeaf
<1> QED BY <1>3, <1>5 DEF found

(* Two models of one recipe are not stored under one path.                 *)
LEMMA PathsDiffer ==
  ASSUME NEW r \in RecipeSet, NEW j \in DOMAIN Leaves[r], NEW k \in DOMAIN Leaves[r],
         PathOf(r, j) = PathOf(r, k)
  PROVE  j = k
<1>1. CASE IsComposite(r)
  BY <1>1 DEF PathOf
<1>2. CASE ~IsComposite(r)
  <2>1. Leaves[r] = <<Leaf(r.ref, <<>>)>>
    BY <1>2, LeavesOfAModel DEF IsComposite
  <2>2. DOMAIN <<Leaf(r.ref, <<>>)>> = {1}
    OBVIOUS
  <2> QED BY <2>1, <2>2
<1> QED BY <1>1, <1>2

(* What an Append does to a list.                                          *)
LEMMA ListsGrow ==
  ASSUME NEW s, IsList(s), NEW x
  PROVE  /\ IsList(Append(s, x)) /\ Len(s) \in Nat /\ Len(Append(s, x)) = Len(s) + 1
         /\ DOMAIN s = 1 .. Len(s) /\ DOMAIN Append(s, x) = 1 .. Len(s) + 1
         /\ \A k \in 1 .. Len(s) : Append(s, x)[k] = s[k]
         /\ Append(s, x)[Len(s) + 1] = x
<1>1. PICK X : s \in Seq(X)
  BY DEF IsList
<1> DEFINE Y == X \cup {x}
<1>2. s \in Seq(Y) /\ x \in Y
  BY <1>1
<1> HIDE DEF Y
<1>3. Append(s, x) \in Seq(Y)
  BY <1>2
<1>4. IsList(Append(s, x))
  BY <1>3 DEF IsList
<1> QED BY <1>2, <1>4

(* The empty list.                                                         *)
LEMMA NothingIsAList == IsList(<<>>) /\ Len(<<>>) = 0 /\ DOMAIN <<>> = {}
<1>1. <<>> \in Seq({}) /\ Len(<<>>) = 0 /\ DOMAIN <<>> = {}
  OBVIOUS
<1> QED BY <1>1 DEF IsList

-----------------------------------------------------------------------------
(* What a call is about, and how far it is.                                *)

CallInv ==
  /\ stage \in {"preparing", "fitting"} => call.op = "fit"
  /\ stage = "asking" => call.op = "forecast"
  /\ stage = "pretrained" => call.op = "zero_shot"
  /\ call.op = "fit" => call.recipe \in RecipeSet
  /\ call.op = "forecast" => artifact # NoArtifact /\ call.recipe = artifact.recipe
  /\ call.op \in {"forecast", "zero_shot"} => call.output \in Outputs
  /\ IsList(prepared) /\ IsList(answers) /\ IsList(asked)

(* The engine starts idle and with nothing published.                      *)
LEMMA TypeOKInit ==
  ASSUME Init
  PROVE  TypeOK
BY EngineAssumption DEF Init, TypeOK, NoCall, EngineAssumption

(* Every step keeps the types.                                             *)
LEMMA TypeOKStep ==
  ASSUME TypeOK, [Next]_vars
  PROVE  TypeOK'
<1> USE EngineAssumption DEF EngineAssumption, TypeOK, Begins, Ends
<1>1. CASE Open
  BY <1>1 DEF Open, NoCall
<1>2. CASE BeginFit
  BY <1>2 DEF BeginFit
<1>3. CASE Prepare
  BY <1>3 DEF Prepare
<1>4. CASE FitLeaf
  BY <1>4 DEF FitLeaf
<1>5. CASE FitLeafRaises
  BY <1>5 DEF FitLeafRaises
<1>6. CASE BeginForecast
  BY <1>6 DEF BeginForecast
<1>7. CASE Ask
  BY <1>7 DEF Ask, Counted, Answer
<1>8. CASE TooShort
  BY <1>8 DEF TooShort
<1>9. CASE AskRaises
  BY <1>9 DEF AskRaises
<1>10. CASE BeginZeroShot
  BY <1>10 DEF BeginZeroShot
<1>11. CASE ZeroShot
  BY <1>11 DEF ZeroShot, Counted, Answer
<1>12. CASE ZeroShotRaises
  BY <1>12 DEF ZeroShotRaises
<1>13. CASE UNCHANGED vars
  BY <1>13 DEF vars
<1> QED BY <1>1, <1>2, <1>3, <1>4, <1>5, <1>6, <1>7, <1>8, <1>9, <1>10, <1>11, <1>12, <1>13 DEF Next

(* Every step keeps the stage and the call in agreement.                   *)
LEMMA CallInvStep ==
  ASSUME TypeOK, CallInv, [Next]_vars
  PROVE  CallInv'
<1> USE NothingIsAList DEF CallInv, Begins, Ends
<1>0. \A x : IsList(Append(prepared, x)) /\ IsList(Append(answers, x)) /\ IsList(Append(asked, x))
  BY ListsGrow
<1>1. CASE Open
  BY <1>1 DEF Open, NoCall
<1>2. CASE BeginFit
  BY <1>2 DEF BeginFit
<1>3. CASE Prepare
  <2>1. prepared' = prepared \/ \E x : prepared' = Append(prepared, x)
    BY <1>3 DEF Prepare
  <2>2. /\ stage' \in {"idle", "preparing", "fitting"} /\ stage = "preparing"
        /\ UNCHANGED <<call, artifact, answers, asked>>
    BY <1>3 DEF Prepare
  <2>3. IsList(prepared')
    BY <1>0, <2>1
  <2> QED BY <2>2, <2>3
<1>4. CASE FitLeaf
  <2>1. \E x : asked' = Append(asked, x)
    BY <1>4 DEF FitLeaf
  <2>2. /\ stage' \in {"idle", "fitting"} /\ stage = "fitting"
        /\ UNCHANGED <<call, prepared, answers>>
    BY <1>4 DEF FitLeaf
  <2>3. IsList(asked')
    BY <1>0, <2>1
  <2> QED BY <2>2, <2>3
<1>5. CASE FitLeafRaises
  <2>1. \E x : asked' = Append(asked, x)
    BY <1>5 DEF FitLeafRaises
  <2>2. IsList(asked')
    BY <1>0, <2>1
  <2> QED BY <1>5, <2>2 DEF FitLeafRaises
<1>6. CASE BeginForecast
  BY <1>6 DEF BeginForecast
<1>7. CASE Ask
  <2>1. (answers' = answers \/ \E x : answers' = Append(answers, x)) /\ \E x : asked' = Append(asked, x)
    BY <1>7 DEF Ask
  <2>2. IsList(answers') /\ IsList(asked')
    BY <1>0, <2>1
  <2>3. stage' \in {"idle", "asking"} /\ stage = "asking" /\ UNCHANGED <<call, artifact, prepared>>
    BY <1>7 DEF Ask
  <2> QED BY <2>2, <2>3
<1>8. CASE TooShort
  BY <1>8 DEF TooShort
<1>9. CASE AskRaises
  BY <1>9 DEF AskRaises
<1>10. CASE BeginZeroShot
  BY <1>10 DEF BeginZeroShot
<1>11. CASE ZeroShot
  <2>1. \E x : asked' = Append(asked, x)
    BY <1>11 DEF ZeroShot
  <2>2. IsList(asked')
    BY <1>0, <2>1
  <2>3. stage' = "idle" /\ UNCHANGED <<call, artifact, prepared, answers>>
    BY <1>11 DEF ZeroShot
  <2> QED BY <2>2, <2>3
<1>12. CASE ZeroShotRaises
  BY <1>12 DEF ZeroShotRaises
<1>13. CASE UNCHANGED vars
  BY <1>13 DEF vars
<1> QED BY <1>1, <1>2, <1>3, <1>4, <1>5, <1>6, <1>7, <1>8, <1>9, <1>10, <1>11, <1>12, <1>13 DEF Next
-----------------------------------------------------------------------------
(* A fit.                                                                  *)

ViewFor(leaf, c) == ViewOf(c.data, RequestFor(Descriptor(leaf).training, c.plan, c.horizon))

PreparedFor(leaf, c) ==
  [leaf |-> leaf, view |-> ViewFor(leaf, c), steps |-> FitAll(leaf.transforms, ViewFor(leaf, c))]

Wrote(one) == [transforms |-> Stored(one.steps), state |-> Fitted(one)]

IsFittable(leaf, c, shared) ==
  /\ leaf.ref \in DOMAIN Catalog /\ Catalog[leaf.ref].supports_fit
  /\ Preparable(leaf, c.data, c.plan, c.horizon, shared)

FitInv ==
  /\ stage \in {"preparing", "fitting"} =>
       /\ Executable[call.recipe]
       /\ \A k \in DOMAIN Found : Found[k].ref \in catalogued /\ Catalog[Found[k].ref].supports_fit
       /\ \A k \in 1 .. Len(prepared) :
            /\ Found[k].ref \in installed /\ IsFittable(Found[k], call, Len(Found) > 1)
            /\ prepared[k] = PreparedFor(Found[k], call)
  /\ stage = "preparing" =>
       Len(prepared) < Len(Found) /\ asked = <<>> /\ directory = <<>>
  /\ stage = "fitting" =>
       /\ Len(prepared) = Len(Found) /\ Len(asked) < Len(prepared)
       /\ DOMAIN directory = {PathOf(call.recipe, k) : k \in 1 .. Len(asked)}
       /\ \A k \in 1 .. Len(asked) : directory[PathOf(call.recipe, k)] = Wrote(prepared[k])

(* Preparing a model adds it to those prepared, and checks what Preparable *)
(* says of it.                                                             *)
LEMMA PrepareOne ==
  ASSUME TypeOK, CallInv, FitInv, Prepare
  PROVE  FitInv'
<1> DEFINE n == Len(prepared)
           leaf == Found[n + 1]
<1>1. /\ stage = "preparing" /\ call.op = "fit" /\ call.recipe \in RecipeSet
      /\ n < Len(Found) /\ asked = <<>> /\ directory = <<>>
      /\ UNCHANGED <<directory, asked, catalogued, installed>>
  BY DEF Prepare, CallInv, FitInv
<1>2. /\ DOMAIN Found = 1 .. Len(Found) /\ Len(Found) \in Nat
      /\ n \in Nat /\ n + 1 \in DOMAIN Found
  <2>1. IsList(prepared) /\ n \in Nat
    BY ListsGrow DEF CallInv
  <2>2. DOMAIN Found = 1 .. Len(Found) /\ Len(Found) \in Nat
    BY <1>1, ModelsOfARecipe DEF Found
  <2> QED BY <1>1, <2>1, <2>2
<1>3. CASE /\ Preparable(leaf, call.data, call.plan, call.horizon, Len(Found) > 1)
           /\ HasProvider(leaf.ref)
  <2>1. /\ prepared' = Append(prepared, Prepared(leaf))
        /\ stage' = IF Len(prepared') = Len(Found) THEN "fitting" ELSE "preparing"
        /\ call' = call
    BY <1>3 DEF Prepare
  <2>2. Prepared(leaf) = PreparedFor(leaf, call)
    BY DEF Prepared, PreparedFor, ViewFor
  <2>3. leaf.ref \in installed /\ IsFittable(leaf, call, Len(Found) > 1)
    BY <1>1, <1>2, <1>3 DEF FitInv, HasProvider, IsFittable, TypeOK
  <2>4. /\ Len(prepared') = n + 1
        /\ \A k \in 1 .. n : prepared'[k] = prepared[k]
        /\ prepared'[n + 1] = PreparedFor(leaf, call)
    <3>1. IsList(prepared)
      BY DEF CallInv
    <3> QED BY <2>1, <2>2, <3>1, ListsGrow
  <2>5. Found' = Found
    BY <2>1 DEF Found
  <2> HIDE DEF n
  <2>6. \A k \in 1 .. n + 1 :
           /\ Found[k].ref \in installed /\ IsFittable(Found[k], call, Len(Found) > 1)
           /\ prepared'[k] = PreparedFor(Found[k], call)
    <3> SUFFICES ASSUME NEW k \in 1 .. n + 1
                 PROVE  /\ Found[k].ref \in installed /\ IsFittable(Found[k], call, Len(Found) > 1)
                        /\ prepared'[k] = PreparedFor(Found[k], call)
      OBVIOUS
    <3>1. CASE k = n + 1
      BY <2>3, <2>4, <3>1
    <3>2. CASE k # n + 1
      <4>1. k \in 1 .. n
        BY <1>2, <3>2
      <4> QED BY <1>1, <2>4, <4>1 DEF FitInv, n
    <3> QED BY <3>1, <3>2
  <2>7. n + 1 = Len(Found) \/ n + 1 < Len(Found)
    <3> DEFINE m == Len(Found)
    <3>1. n < m /\ n \in Nat /\ m \in Nat
      BY <1>1, <1>2
    <3> HIDE DEF m
    <3>2. n + 1 = m \/ n + 1 < m
      BY <3>1
    <3> QED BY <3>2 DEF m
  <2>8. Len(asked) = 0 /\ 1 .. 0 = {} /\ DOMAIN directory = {}
    BY <1>1, NothingIsAList
  <2>9. /\ \A k \in 1 .. Len(prepared') :
             /\ Found'[k].ref \in installed' /\ IsFittable(Found'[k], call', Len(Found') > 1)
             /\ prepared'[k] = PreparedFor(Found'[k], call')
        /\ Executable[call'.recipe]
        /\ \A k \in DOMAIN Found' : Found'[k].ref \in catalogued' /\ Catalog[Found'[k].ref].supports_fit
    BY <1>1, <2>1, <2>4, <2>5, <2>6 DEF FitInv
  <2>10. CASE stage' = "preparing"
    <3>1. Len(prepared') < Len(Found') /\ asked' = <<>> /\ directory' = <<>>
      BY <1>1, <2>1, <2>4, <2>5, <2>7, <2>10
    <3> QED BY <2>9, <2>10, <3>1 DEF FitInv
  <2>11. CASE stage' = "fitting"
    <3>1. Len(prepared') = Len(Found') /\ Len(asked') < Len(prepared')
      BY <1>1, <1>2, <2>1, <2>4, <2>5, <2>8, <2>11
    <3>2. DOMAIN directory' = {PathOf(call'.recipe, k) : k \in 1 .. Len(asked')}
      BY <1>1, <2>8
    <3>3. \A k \in 1 .. Len(asked') : directory'[PathOf(call'.recipe, k)] = Wrote(prepared'[k])
      BY <1>1, <2>8
    <3> QED BY <2>9, <2>11, <3>1, <3>2, <3>3 DEF FitInv
  <2> QED BY <2>1, <2>10, <2>11
<1>4. CASE ~(/\ Preparable(leaf, call.data, call.plan, call.horizon, Len(Found) > 1)
             /\ HasProvider(leaf.ref))
  BY <1>4 DEF Prepare, Ends, FitInv
<1> QED BY <1>3, <1>4
(* A fit of a model writes it under its own path, and overwrites no other. *)
LEMMA FitOne ==
  ASSUME TypeOK, CallInv, FitInv, FitLeaf
  PROVE  /\ Len(asked) + 1 \in DOMAIN Found /\ call.recipe \in RecipeSet
         /\ asked' = Append(asked, [verb |-> "fit", ref |-> prepared[Len(asked) + 1].leaf.ref])
         /\ Len(asked') = Len(asked) + 1 /\ Len(asked) \in Nat
         /\ DOMAIN directory' = {PathOf(call.recipe, k) : k \in 1 .. Len(asked) + 1}
         /\ \A k \in 1 .. Len(asked) + 1 : directory'[PathOf(call.recipe, k)] = Wrote(prepared[k])
<1> DEFINE n == Len(asked)
           path == PathOf(call.recipe, n + 1)
           written == Wrote(prepared[n + 1])
<1>1. /\ stage = "fitting" /\ call.recipe \in RecipeSet /\ IsList(asked)
      /\ Len(prepared) = Len(Found) /\ n < Len(prepared)
      /\ DOMAIN directory = {PathOf(call.recipe, k) : k \in 1 .. n}
      /\ \A k \in 1 .. n : directory[PathOf(call.recipe, k)] = Wrote(prepared[k])
  BY DEF FitLeaf, CallInv, FitInv
<1>2. /\ asked' = Append(asked, [verb |-> "fit", ref |-> prepared[n + 1].leaf.ref])
      /\ directory' = Holding(directory, path, written)
  BY DEF FitLeaf, Wrote
<1>3. n \in Nat /\ Len(asked') = n + 1
  BY <1>1, <1>2, ListsGrow
<1>4. n + 1 \in DOMAIN Found /\ \A k \in 1 .. n : k \in DOMAIN Found
  <2>1. DOMAIN Found = 1 .. Len(Found) /\ Len(Found) \in Nat
    BY <1>1, ModelsOfARecipe DEF Found
  <2> HIDE DEF n
  <2> QED BY <1>1, <1>3, <2>1
<1>5. /\ DOMAIN directory' = DOMAIN directory \cup {path}
      /\ directory'[path] = written
      /\ \A at \in DOMAIN directory : at # path => directory'[at] = directory[at]
  <2> HIDE DEF n, path, written
  <2>1. directory' = Holding(directory, path, written)
    BY <1>2
  <2>2. /\ DOMAIN Holding(directory, path, written) = DOMAIN directory \cup {path}
        /\ Holding(directory, path, written)[path] = written
        /\ \A at \in DOMAIN directory : at # path => Holding(directory, path, written)[at] = directory[at]
    BY DEF Holding
  <2> QED BY <2>1, <2>2, Zenon
<1> HIDE DEF n
<1>6. \A k \in 1 .. n + 1 : k = n + 1 \/ k \in 1 .. n
  BY <1>3
<1>7. 1 .. n + 1 = 1 .. n \cup {n + 1}
  BY <1>3
<1>8. DOMAIN directory' = {PathOf(call.recipe, k) : k \in 1 .. n + 1}
  BY <1>1, <1>5, <1>7
<1>9. ASSUME NEW k \in 1 .. n + 1 PROVE directory'[PathOf(call.recipe, k)] = Wrote(prepared[k])
  <2>1. CASE k = n + 1
    BY <1>5, <2>1
  <2>2. CASE k \in 1 .. n
    <3>1. k # n + 1
      BY <1>3, <2>2
    <3>2. PathOf(call.recipe, k) # path
      BY <1>1, <1>4, <2>2, <3>1, PathsDiffer DEF Found
    <3>3. PathOf(call.recipe, k) \in DOMAIN directory
      BY <1>1, <2>2
    <3> HIDE DEF path
    <3> QED BY <1>1, <1>5, <2>2, <3>2, <3>3
  <2> QED BY <1>6, <2>1, <2>2
<1> QED BY <1>1, <1>2, <1>3, <1>4, <1>8, <1>9 DEF n

(* Every step keeps what a fit has prepared, asked and written in          *)
(* agreement.                                                              *)
LEMMA FitInvStep ==
  ASSUME TypeOK, CallInv, FitInv, [Next]_vars
  PROVE  FitInv'
<1>1. CASE BeginFit
  <2>1. PICK r \in RecipeSet, data \in DataSets, plan \in Plans, horizon \in Horizons :
          Begins([op |-> "fit", recipe |-> r, data |-> data, plan |-> plan, horizon |-> horizon],
                 IF Resolves(r, plan) THEN "preparing" ELSE "idle")
    BY <1>1 DEF BeginFit
  <2>2. /\ call'.recipe = r /\ prepared' = <<>> /\ asked' = <<>> /\ directory' = <<>>
        /\ stage' = IF Resolves(r, plan) THEN "preparing" ELSE "idle"
        /\ UNCHANGED catalogued
    BY <2>1 DEF Begins
  <2>3. CASE Resolves(r, plan)
    <3>1. stage' = "preparing" /\ Found' = Leaves[r] /\ Len(prepared') = 0 /\ 1 .. 0 = {}
      BY <2>2, <2>3, NothingIsAList DEF Found
    <3>2. 0 < Len(Leaves[r])
      BY ModelsOfARecipe
    <3>3. Executable[r] /\ \A k \in DOMAIN Leaves[r] : Leaves[r][k].ref \in catalogued /\ Catalog[Leaves[r][k].ref].supports_fit
      BY <2>3 DEF Resolves, ResolvesForFit
    <3> QED BY <2>2, <3>1, <3>2, <3>3 DEF FitInv
  <2>4. CASE ~Resolves(r, plan)
    BY <2>2, <2>4 DEF FitInv
  <2> QED BY <2>3, <2>4
<1>2. CASE Prepare
  BY <1>2, PrepareOne
<1>3. CASE FitLeaf
  <2>1. /\ Len(asked) + 1 \in DOMAIN Found
        /\ Len(asked') = Len(asked) + 1 /\ Len(asked) \in Nat
        /\ DOMAIN directory' = {PathOf(call.recipe, k) : k \in 1 .. Len(asked) + 1}
        /\ \A k \in 1 .. Len(asked) + 1 : directory'[PathOf(call.recipe, k)] = Wrote(prepared[k])
    BY <1>3, FitOne
  <2>2. CASE Len(asked) + 1 < Len(prepared)
    <3>1. stage = "fitting" /\ UNCHANGED <<stage, call, prepared, catalogued, installed>> /\ Found' = Found
      BY <1>3, <2>2 DEF FitLeaf, Found
    <3> QED BY <2>1, <2>2, <3>1 DEF FitInv
  <2>3. CASE ~(Len(asked) + 1 < Len(prepared))
    <3>1. stage' = "idle"
      BY <1>3, <2>3 DEF FitLeaf, Ends
    <3> QED BY <3>1 DEF FitInv
  <2> QED BY <2>2, <2>3
<1>4. CASE Open \/ FitLeafRaises \/ Ask \/ TooShort \/ AskRaises \/ ZeroShot \/ ZeroShotRaises
  <2>1. stage' \in {"idle", "asking"}
    BY <1>4 DEF Open, FitLeafRaises, Ask, TooShort, AskRaises, ZeroShot, ZeroShotRaises, Ends
  <2> QED BY <2>1 DEF FitInv
<1>5. CASE BeginForecast \/ BeginZeroShot
  <2>1. stage' \in {"idle", "asking", "pretrained"}
    BY <1>5 DEF BeginForecast, BeginZeroShot, Begins
  <2> QED BY <2>1 DEF FitInv
<1>6. CASE UNCHANGED vars
  <2>1. Found' = Found
    BY <1>6 DEF vars, Found
  <2> QED BY <1>6, <2>1 DEF vars, FitInv
<1> QED BY <1>1, <1>2, <1>3, <1>4, <1>5, <1>6 DEF Next
-----------------------------------------------------------------------------
(* What is published is what the fit of some call wrote.                   *)

MadeBy(made, c) ==
  LET found == Leaves[made.recipe]
  IN /\ made.recipe \in RecipeSet
     /\ \A k \in DOMAIN found :
          /\ IsFittable(found[k], c, Len(found) > 1)
          /\ made.directory[PathOf(made.recipe, k)] = Wrote(PreparedFor(found[k], c))
          /\ made.records[k] = RecordOf(found[k], ViewFor(found[k], c))
          /\ NamesOf(ViewFor(found[k], c).features) \subseteq made.features
     /\ DOMAIN made.directory = {PathOf(made.recipe, k) : k \in DOMAIN found}
     /\ DOMAIN made.records = DOMAIN found /\ Len(made.records) = Len(found)
     /\ made.targets = c.data.targets

ArtifactInv == artifact # NoArtifact => \E c : MadeBy(artifact, c)

(* What the last fit publishes is made by the call, from all that was      *)
(* written.                                                                *)
LEMMA Publishing ==
  ASSUME TypeOK, CallInv, FitInv, FitLeaf, ~(Len(asked) < Len(prepared) - 1)
  PROVE  artifact' # NoArtifact => MadeBy(artifact', call)
<1> DEFINE made == Describes(prepared, directory')
           n == Len(asked)
<1>1. /\ n + 1 \in DOMAIN Found /\ call.recipe \in RecipeSet /\ n \in Nat
      /\ DOMAIN directory' = {PathOf(call.recipe, k) : k \in 1 .. n + 1}
      /\ \A k \in 1 .. n + 1 : directory'[PathOf(call.recipe, k)] = Wrote(prepared[k])
  BY FitOne
<1>2. /\ Len(prepared) = Len(Found) /\ n < Len(prepared)
      /\ \A k \in 1 .. Len(prepared) :
           IsFittable(Found[k], call, Len(Found) > 1) /\ prepared[k] = PreparedFor(Found[k], call)
  BY DEF FitLeaf, FitInv
<1>3. /\ DOMAIN Found = 1 .. Len(Found) /\ Len(Found) \in Nat
      /\ DOMAIN prepared = 1 .. Len(prepared)
  <2>1. IsList(prepared)
    BY DEF CallInv
  <2> QED BY <1>1, <2>1, ListsGrow, ModelsOfARecipe DEF Found
<1>4. Len(prepared) = n + 1 /\ DOMAIN Found = 1 .. n + 1 /\ DOMAIN prepared = 1 .. n + 1
  <2> DEFINE m == Len(prepared)
  <2>1. n < m /\ ~(n < m - 1) /\ n \in Nat /\ m \in Nat /\ m = Len(Found)
    BY <1>1, <1>2, <1>3
  <2> HIDE DEF n, m
  <2>2. m = n + 1
    BY <2>1
  <2> QED BY <1>3, <2>1, <2>2 DEF m
<1>5. artifact' = made
  <2>1. ~(Len(asked) + 1 < Len(prepared))
    BY <1>1, <1>4
  <2> QED BY <2>1 DEF FitLeaf
<1>6. /\ made.recipe = call.recipe /\ made.targets = call.data.targets /\ made.directory = directory'
      /\ made.features = DataSchema(prepared)
      /\ made.records = [k \in DOMAIN prepared |-> RecordOf(prepared[k].leaf, prepared[k].view)]
  BY DEF Describes
<1> HIDE DEF made, n
<1>7. Leaves[made.recipe] = Found
  BY <1>6 DEF Found
<1>8. ASSUME NEW k \in DOMAIN Found
      PROVE  /\ IsFittable(Found[k], call, Len(Found) > 1)
             /\ made.directory[PathOf(made.recipe, k)] = Wrote(PreparedFor(Found[k], call))
             /\ made.records[k] = RecordOf(Found[k], ViewFor(Found[k], call))
             /\ NamesOf(ViewFor(Found[k], call).features) \subseteq made.features
  <2>1. IsFittable(Found[k], call, Len(Found) > 1) /\ prepared[k] = PreparedFor(Found[k], call)
    BY <1>2, <1>4
  <2>2. made.directory[PathOf(made.recipe, k)] = Wrote(PreparedFor(Found[k], call))
    BY <1>1, <1>4, <1>6, <2>1
  <2>3. prepared[k].leaf = Found[k] /\ prepared[k].view = ViewFor(Found[k], call)
    BY <2>1 DEF PreparedFor
  <2>4. k \in DOMAIN prepared
    BY <1>4
  <2>5. made.records[k] = RecordOf(Found[k], ViewFor(Found[k], call))
    BY <1>6, <2>3, <2>4
  <2>6. NamesOf(prepared[k].view.features) \subseteq DataSchema(prepared)
    BY <2>4 DEF DataSchema
  <2> QED BY <1>6, <2>1, <2>2, <2>3, <2>5, <2>6
<1>9. DOMAIN made.directory = {PathOf(made.recipe, k) : k \in DOMAIN Found}
  BY <1>1, <1>4, <1>6
<1>10. DOMAIN made.records = DOMAIN Found /\ Len(made.records) = Len(Found)
  <2> DEFINE X == {RecordOf(prepared[k].leaf, prepared[k].view) : k \in 1 .. n + 1}
  <2>1. made.records = [k \in 1 .. n + 1 |-> RecordOf(prepared[k].leaf, prepared[k].view)]
    BY <1>4, <1>6
  <2>2. \A k \in 1 .. n + 1 : made.records[k] \in X
    BY <2>1
  <2> HIDE DEF X
  <2>3. made.records \in Seq(X) /\ Len(made.records) = n + 1
    BY <1>1, <2>1, <2>2
  <2> QED BY <1>2, <1>4, <2>1, <2>3
<1>11. MadeBy(made, call)
  BY <1>1, <1>6, <1>7, <1>8, <1>9, <1>10 DEF MadeBy
<1> QED BY <1>5, <1>11

(* Only a fit publishes an artifact, and an artifact does not change.      *)
LEMMA ArtifactInvStep ==
  ASSUME TypeOK, CallInv, FitInv, ArtifactInv, [Next]_vars
  PROVE  ArtifactInv'
<1>1. CASE artifact' = artifact
  BY <1>1 DEF ArtifactInv
<1>2. CASE artifact' # artifact
  <2>1. FitLeaf
    BY <1>2 DEF Next, vars, Open, BeginFit, Prepare, FitLeaf, FitLeafRaises, BeginForecast, Ask,
                TooShort, AskRaises, BeginZeroShot, ZeroShot, ZeroShotRaises, Begins
  <2>2. ~(Len(asked) < Len(prepared) - 1)
    <3>1. ~(Len(asked) + 1 < Len(prepared))
      BY <1>2, <2>1 DEF FitLeaf
    <3>2. Len(asked) \in Nat /\ Len(prepared) \in Nat
      BY ListsGrow DEF CallInv
    <3> QED BY <3>1, <3>2
  <2>3. artifact' # NoArtifact => MadeBy(artifact', call)
    BY <2>1, <2>2, Publishing
  <2> QED BY <2>3, SMTT(30) DEF ArtifactInv
<1> QED BY <1>1, <1>2

-----------------------------------------------------------------------------
(* A forecast.                                                             *)

AskInv ==
  stage = "asking" =>
    /\ ServesHorizon(call.horizon) /\ HasDataSchema(call.data) /\ CanAllAnswer(Found, call.output)
    /\ Len(answers) < Len(Found)

(* Every step keeps a forecast about the artifact it was begun with.       *)
LEMMA AskInvStep ==
  ASSUME TypeOK, CallInv, ArtifactInv, AskInv, [Next]_vars
  PROVE  AskInv'
<1>1. CASE BeginForecast
  <2>1. PICK context \in DataSets, horizon \in Horizons \ {None}, output \in Outputs :
          Begins([op |-> "forecast", recipe |-> artifact.recipe, data |-> context,
                  horizon |-> horizon, output |-> output],
                 IF /\ ServesHorizon(horizon)
                    /\ HasDataSchema(context)
                    /\ CanAllAnswer(Leaves[artifact.recipe], output)
                 THEN "asking" ELSE "idle")
    BY <1>1 DEF BeginForecast
  <2>2. /\ call'.recipe = artifact.recipe /\ call'.data = context /\ call'.horizon = horizon
        /\ call'.output = output /\ answers' = <<>> /\ UNCHANGED <<artifact, catalogued>>
        /\ stage' = IF /\ ServesHorizon(horizon)
                       /\ HasDataSchema(context)
                       /\ CanAllAnswer(Leaves[artifact.recipe], output)
                    THEN "asking" ELSE "idle"
    BY <2>1 DEF Begins
  <2>3. artifact.recipe \in RecipeSet
    BY <1>1 DEF BeginForecast, ArtifactInv, MadeBy
  <2>4. Found' = Leaves[artifact.recipe] /\ Len(answers') < Len(Found')
    BY <2>2, <2>3, ModelsOfARecipe, NothingIsAList DEF Found
  <2>5. CASE /\ ServesHorizon(horizon)
             /\ HasDataSchema(context)
             /\ CanAllAnswer(Leaves[artifact.recipe], output)
    <3>1. ServesHorizon(call.horizon)'
      BY <2>2, <2>5 DEF ServesHorizon
    <3>2. HasDataSchema(call.data)'
      BY <2>2, <2>5 DEF HasDataSchema
    <3>3. CanAllAnswer(Found, call.output)'
      BY <2>2, <2>4, <2>5 DEF CanAllAnswer, Descriptor
    <3> QED BY <2>4, <3>1, <3>2, <3>3 DEF AskInv
  <2>6. CASE ~(/\ ServesHorizon(horizon)
               /\ HasDataSchema(context)
               /\ CanAllAnswer(Leaves[artifact.recipe], output))
    BY <2>2, <2>6 DEF AskInv
  <2> QED BY <2>5, <2>6
<1>2. ASSUME stage' = "asking", UNCHANGED <<stage, call, artifact, catalogued>>, Len(answers') < Len(Found)
      PROVE  AskInv'
  <2>1. Found' = Found
    BY <1>2 DEF Found
  <2>2. ServesHorizon(call.horizon)' /\ HasDataSchema(call.data)'
    BY <1>2 DEF AskInv, ServesHorizon, HasDataSchema
  <2>3. CanAllAnswer(Found, call.output)'
    BY <1>2, <2>1 DEF AskInv, CanAllAnswer, Descriptor
  <2> QED BY <1>2, <2>1, <2>2, <2>3 DEF AskInv
<1>3. CASE Ask
  <2>1. CASE stage' = "asking"
    <3>1. UNCHANGED <<stage, call, artifact, catalogued>>
      BY <1>3, <2>1 DEF Ask
    <3>2. Len(answers') < Len(Found)
      BY <1>3, <2>1 DEF Ask
    <3> QED BY <1>2, <2>1, <3>1, <3>2
  <2>2. CASE stage' # "asking"
    BY <2>2 DEF AskInv
  <2> QED BY <2>1, <2>2
<1>4. CASE Open \/ BeginFit \/ Prepare \/ FitLeaf \/ FitLeafRaises \/ TooShort \/ AskRaises \/ ZeroShot \/ ZeroShotRaises
  <2>1. stage' # "asking"
    BY <1>4 DEF Open, BeginFit, Prepare, FitLeaf, FitLeafRaises, TooShort, AskRaises, ZeroShot, ZeroShotRaises, Ends, Begins
  <2> QED BY <2>1 DEF AskInv
<1>5. CASE BeginZeroShot
  <2>1. stage' # "asking"
    BY <1>5 DEF BeginZeroShot, Begins
  <2> QED BY <2>1 DEF AskInv
<1>6. CASE UNCHANGED vars
  <2>1. CASE stage' = "asking"
    <3>1. UNCHANGED <<stage, call, artifact, catalogued, answers>>
      BY <1>6 DEF vars
    <3>2. Len(answers') < Len(Found)
      BY <2>1, <3>1 DEF AskInv
    <3> QED BY <1>2, <2>1, <3>1, <3>2
  <2>2. CASE stage' # "asking"
    BY <2>2 DEF AskInv
  <2> QED BY <2>1, <2>2
<1> QED BY <1>1, <1>3, <1>4, <1>5, <1>6 DEF Next

(* No step asks a provider to fit before every model was prepared.         *)
LEMMA RefusedStep ==
  ASSUME TypeOK, CallInv, FitInv, AskInv, RefusedBeforeAnythingRuns, [Next]_vars
  PROVE  RefusedBeforeAnythingRuns'
<1> DEFINE Known == \A k \in DOMAIN Found : Found[k].ref \in catalogued
           Ready == \A k \in DOMAIN Found :
                      /\ Found[k].ref \in installed
                      /\ Preparable(Found[k], call.data, call.plan, call.horizon, Len(Found) > 1)
<1>1. stage = "fitting" => Known /\ Ready
  <2> SUFFICES ASSUME stage = "fitting" PROVE Known /\ Ready
    OBVIOUS
  <2>1. call.recipe \in RecipeSet
    BY DEF CallInv
  <2>2. DOMAIN Found = 1 .. Len(Found)
    BY <2>1, ModelsOfARecipe DEF Found
  <2> QED BY <2>2 DEF FitInv, IsFittable
<1>2. asked # <<>> /\ call.op # "zero_shot" => Known /\ (call.op = "fit" => outcome # "refused" /\ Ready)
  BY DEF RefusedBeforeAnythingRuns
<1>3. UNCHANGED <<call, catalogued, installed>> => Found' = Found /\ (Known' <=> Known) /\ (Ready' <=> Ready)
  BY DEF Found
<1>4. /\ Known'
      /\ call'.op = "fit" => outcome' # "refused" /\ Ready'
      => RefusedBeforeAnythingRuns'
  BY DEF RefusedBeforeAnythingRuns
<1>5. asked' = <<>> => RefusedBeforeAnythingRuns'
  BY DEF RefusedBeforeAnythingRuns
<1>6. call'.op = "zero_shot" => RefusedBeforeAnythingRuns'
  BY DEF RefusedBeforeAnythingRuns
<1> HIDE DEF Known, Ready
<1>7. CASE Open \/ BeginFit \/ BeginForecast \/ BeginZeroShot
  <2>1. asked' = <<>>
    BY <1>7 DEF Open, BeginFit, BeginForecast, BeginZeroShot, Begins
  <2> QED BY <1>5, <2>1
<1>8. CASE Prepare
  <2>1. asked' = <<>>
    BY <1>8 DEF Prepare, FitInv
  <2> QED BY <1>5, <2>1
<1>9. CASE FitLeaf \/ FitLeafRaises
  <2>1. /\ stage = "fitting" /\ outcome = "none" /\ outcome' \in {"none", "done", "failed"}
        /\ UNCHANGED <<call, catalogued, installed>>
    BY <1>9 DEF FitLeaf, FitLeafRaises, Ends, TypeOK
  <2> QED BY <1>1, <1>3, <1>4, <2>1
<1>10. CASE TooShort \/ AskRaises
  <2>1. UNCHANGED <<call, catalogued, installed, asked>> /\ call.op = "forecast"
    BY <1>10 DEF TooShort, AskRaises, Ends, CallInv
  <2> QED BY <1>2, <1>3, <1>4, <1>5, <2>1
<1>11. CASE ZeroShot \/ ZeroShotRaises
  <2>1. call'.op = "zero_shot"
    BY <1>11 DEF ZeroShot, ZeroShotRaises, Ends, CallInv
  <2> QED BY <1>6, <2>1
<1>12. CASE UNCHANGED vars
  <2>1. UNCHANGED <<call, catalogued, installed, asked, outcome>>
    BY <1>12 DEF vars
  <2> QED BY <1>2, <1>3, <1>4, <1>5, <1>6, <2>1
<1>13. CASE Ask
  <2>1. UNCHANGED <<call, catalogued, installed>> /\ call.op = "forecast" /\ CanAllAnswer(Found, call.output)
    BY <1>13 DEF Ask, CallInv, AskInv
  <2>2. Known
    BY <2>1 DEF CanAllAnswer, Known
  <2> QED BY <1>3, <1>4, <2>1, <2>2
<1> QED BY <1>7, <1>8, <1>9, <1>10, <1>11, <1>12, <1>13 DEF Next

(* A fitted transform whose keys survive is read back as it was fitted.    *)
LEMMA FittedStepsAreStored ==
  ASSUME KeysSurvive, NEW transforms, IsList(transforms), NEW view
  PROVE  LET steps == FitAll(transforms, view) IN Stored(steps) = steps /\ IsList(steps)
<1> DEFINE steps == FitAll(transforms, view)
<1>1. DOMAIN transforms = 1 .. Len(transforms) /\ Len(transforms) \in Nat
  BY ListsGrow
<1>2. steps = [k \in DOMAIN steps |-> steps[k]] /\ DOMAIN steps = DOMAIN transforms
  BY DEF FitAll
<1> HIDE DEF steps
<1>3. Stored(steps) = steps
  BY <1>2 DEF Stored
<1> DEFINE X == {steps[k] : k \in DOMAIN steps}
<1>4. \A k \in DOMAIN steps : steps[k] \in X
  OBVIOUS
<1> HIDE DEF X
<1>5. steps \in Seq(X)
  BY <1>1, <1>2, <1>4
<1>6. IsList(steps)
  BY <1>5 DEF IsList
<1> QED BY <1>3, <1>6 DEF steps

(* The model that is asked next, as it was fitted. *)
LEMMA AskedNext ==
  ASSUME TypeOK, CallInv, ArtifactInv, AskInv, stage = "asking"
  PROVE  \E c : LET k == Len(answers) + 1
                    one == PreparedFor(Found[k], c)
                IN /\ artifact.recipe \in RecipeSet /\ call.recipe = artifact.recipe
                   /\ k \in DOMAIN Found /\ MadeBy(artifact, c)
                   /\ IsFittable(Found[k], c, Len(Found) > 1)
                   /\ artifact.directory[PathOf(artifact.recipe, k)] = Wrote(one)
                   /\ artifact.records[k] = RecordOf(Found[k], one.view)
                   /\ NamesOf(one.view.features) \subseteq artifact.features
                   /\ IsList(Found[k].transforms)
<1> DEFINE k == Len(answers) + 1
<1>1. /\ call.recipe = artifact.recipe /\ artifact # NoArtifact
      /\ Len(answers) < Len(Found) /\ IsList(answers)
  BY DEF CallInv, AskInv
<1>2. PICK c : MadeBy(artifact, c)
  BY <1>1 DEF ArtifactInv
<1>3. artifact.recipe \in RecipeSet /\ Found = Leaves[artifact.recipe]
  BY <1>1, <1>2 DEF MadeBy, Found
<1>4. k \in DOMAIN Found /\ IsList(Found[k].transforms)
  <2> DEFINE n == Len(answers)
             m == Len(Found)
  <2>1. n \in Nat /\ n < m /\ m \in Nat /\ DOMAIN Found = 1 .. m
    BY <1>1, <1>3, ModelsOfARecipe, ListsGrow
  <2> HIDE DEF n, m
  <2>2. n + 1 \in DOMAIN Found
    BY <2>1
  <2>3. k \in DOMAIN Found
    BY <2>2 DEF n
  <2> QED BY <1>3, <2>3, ModelsOfARecipe
<1>5. PreparedFor(Found[k], c).view = ViewFor(Found[k], c)
  BY DEF PreparedFor
<1> HIDE DEF k
<1>6. /\ IsFittable(Found[k], c, Len(Found) > 1)
      /\ artifact.directory[PathOf(artifact.recipe, k)] = Wrote(PreparedFor(Found[k], c))
      /\ artifact.records[k] = RecordOf(Found[k], PreparedFor(Found[k], c).view)
      /\ NamesOf(PreparedFor(Found[k], c).view.features) \subseteq artifact.features
  BY <1>2, <1>3, <1>4, <1>5 DEF MadeBy
<1> QED BY <1>1, <1>2, <1>3, <1>4, <1>6 DEF k

-----------------------------------------------------------------------------
(* What a model is asked.                                                  *)

AskedWell(one, data) ==
  one.verb = "forecast" =>
    /\ one.state.ref = one.ref
    /\ one.context = one.state.view.request.context
    /\ Catalog[one.ref].training.horizon_bound => one.horizon = one.state.view.request.horizon
    /\ NamesOf(one.state.view.features) \subseteq NamesOf(data.features)
    /\ \A cell \in DOMAIN one.given \cap DOMAIN one.state.scale : one.given[cell] = one.state.scale[cell]

(* AskedAsTrained, one question at a time.                                 *)
LEMMA AskedWellSuffices == AskedAsTrained <=> \A n \in DOMAIN asked : AskedWell(asked[n], call.data)
BY DEF AskedAsTrained, ScaledAsTrained, AskedWell

(* A horizon that binds a model was recorded with it. *)
LEMMA BoundHorizonIsRecorded ==
  ASSUME NEW leaf, NEW c, NEW shared, IsFittable(leaf, c, shared), NEW horizon,
         Catalog[leaf.ref].training.horizon_bound
  PROVE  LET record == RecordOf(leaf, ViewFor(leaf, c))
         IN /\ record.bound /\ record.horizon = ViewFor(leaf, c).request.horizon
            /\ record.horizon # None
<1> DEFINE contract == Catalog[leaf.ref].training
<1>1. IsDescriptor(Catalog[leaf.ref]) /\ Catalog[leaf.ref].supports_fit
  BY EngineAssumption DEF IsFittable
<1>2. contract.view # "series"
  BY <1>1 DEF IsDescriptor, IsContract
<1>3. c.horizon # None
  BY <1>2 DEF IsFittable, Preparable, Asks, Descriptor
<1>4. ViewFor(leaf, c).request = RequestFor(contract, c.plan, c.horizon)
  BY DEF ViewFor, ViewOf, Descriptor
<1>5. RequestFor(contract, c.plan, c.horizon).horizon = c.horizon
  BY <1>2 DEF RequestFor
<1>6. /\ RecordOf(leaf, ViewFor(leaf, c)).bound = contract.horizon_bound
      /\ RecordOf(leaf, ViewFor(leaf, c)).horizon = ViewFor(leaf, c).request.horizon
  BY DEF RecordOf, Descriptor
<1> QED BY <1>3, <1>4, <1>5, <1>6

Own(k) == artifact.directory[PathOf(artifact.recipe, k)]

AskedOf(k) ==
  [ verb |-> "forecast", leaf |-> k, ref |-> Found[k].ref,
    state |-> Own(k).state, given |-> Given(Own(k)),
    context |-> RecordFor(k).context, horizon |-> call.horizon ]

(* What a model has of its own is what it was fitted with. *)
LEMMA OwnIsAsFitted ==
  ASSUME NEW k, NEW c, Own(k) = Wrote(PreparedFor(Found[k], c))
  PROVE  LET steps == FitAll(Found[k].transforms, ViewFor(Found[k], c))
             state == Own(k).state
         IN /\ Own(k).transforms = Stored(steps)
            /\ state.ref = Found[k].ref /\ state.view = ViewFor(Found[k], c)
            /\ DOMAIN state.scale = [instance : state.view.instances, column : ColumnsOf(state.view)]
            /\ \A cell \in DOMAIN state.scale : state.scale[cell] = ScaleOf(steps, cell)
<1> DEFINE one == PreparedFor(Found[k], c)
<1>1. /\ one.leaf = Found[k] /\ one.view = ViewFor(Found[k], c)
      /\ one.steps = FitAll(Found[k].transforms, ViewFor(Found[k], c))
  BY DEF PreparedFor
<1> HIDE DEF one
<1>2. Own(k).transforms = Stored(one.steps) /\ Own(k).state = Fitted(one)
  BY DEF Wrote, one
<1>3. /\ Fitted(one).ref = one.leaf.ref /\ Fitted(one).view = one.view
      /\ Fitted(one).scale = [cell \in [instance : one.view.instances, column : ColumnsOf(one.view)] |->
                                ScaleOf(one.steps, cell)]
  BY DEF Fitted
<1> QED BY <1>1, <1>2, <1>3

(* What the next model is asked is what it was trained for.                *)
LEMMA AskedNextWell ==
  ASSUME KeysSurvive, TypeOK, CallInv, ArtifactInv, AskInv, stage = "asking"
  PROVE  AskedWell(AskedOf(Len(answers) + 1), call.data)
<1> DEFINE k == Len(answers) + 1
           next == AskedOf(k)
<1>1. PICK c : /\ k \in DOMAIN Found /\ MadeBy(artifact, c)
               /\ IsFittable(Found[k], c, Len(Found) > 1)
               /\ Own(k) = Wrote(PreparedFor(Found[k], c))
               /\ RecordFor(k) = RecordOf(Found[k], PreparedFor(Found[k], c).view)
               /\ NamesOf(PreparedFor(Found[k], c).view.features) \subseteq artifact.features
               /\ IsList(Found[k].transforms)
  BY AskedNext DEF Own, RecordFor
<1> HIDE DEF k
<1> DEFINE view == ViewFor(Found[k], c)
           steps == FitAll(Found[k].transforms, view)
<1>2. PreparedFor(Found[k], c).view = view
  BY DEF PreparedFor
<1>3. Stored(steps) = steps
  BY <1>1, FittedStepsAreStored
<1>4. /\ Own(k).transforms = steps
      /\ Own(k).state.ref = Found[k].ref /\ Own(k).state.view = view
      /\ \A cell \in DOMAIN Own(k).state.scale : Own(k).state.scale[cell] = ScaleOf(steps, cell)
  BY <1>1, <1>3, OwnIsAsFitted
<1>5. ServesHorizon(call.horizon) /\ HasDataSchema(call.data) /\ k \in DOMAIN artifact.records
  BY <1>1 DEF AskInv, MadeBy, CallInv, Found
<1> HIDE DEF view, steps
<1>6. RecordFor(k).context = view.request.context /\ RecordFor(k).horizon = view.request.horizon
  BY <1>1, <1>2 DEF RecordOf
<1>7. Catalog[Found[k].ref].training.horizon_bound => call.horizon = view.request.horizon
  <2> SUFFICES ASSUME Catalog[Found[k].ref].training.horizon_bound PROVE call.horizon = view.request.horizon
    OBVIOUS
  <2>1. RecordFor(k).bound /\ RecordFor(k).horizon # None
    BY <1>1, <1>2, BoundHorizonIsRecorded DEF view
  <2>2. RecordFor(k).horizon \in {None, call.horizon}
    BY <1>5, <2>1 DEF ServesHorizon, RecordFor
  <2> QED BY <1>6, <2>1, <2>2
<1>8. NamesOf(view.features) \subseteq NamesOf(call.data.features)
  BY <1>1, <1>2, <1>5 DEF HasDataSchema
<1>9. \A cell \in DOMAIN Given(Own(k)) : Given(Own(k))[cell] = ScaleOf(steps, cell)
  BY <1>4 DEF Given
<1>10. /\ next.ref = Found[k].ref /\ next.state = Own(k).state /\ next.given = Given(Own(k))
       /\ next.context = RecordFor(k).context /\ next.horizon = call.horizon
  BY DEF AskedOf
<1> HIDE DEF next
<1>11. AskedWell(next, call.data)
  BY <1>4, <1>6, <1>7, <1>8, <1>9, <1>10 DEF AskedWell
<1> QED BY <1>11 DEF next, k

(* Every step keeps what was asked as trained for.                         *)
LEMMA AskedStep ==
  ASSUME KeysSurvive, TypeOK, CallInv, ArtifactInv, AskInv, AskedAsTrained, [Next]_vars
  PROVE  AskedAsTrained'
<1>1. \A n \in DOMAIN asked : AskedWell(asked[n], call.data)
  BY AskedWellSuffices
<1>2. (\A n \in DOMAIN asked' : AskedWell(asked'[n], call'.data)) => AskedAsTrained'
  BY DEF AskedAsTrained, ScaledAsTrained, AskedWell
<1>3. asked' = <<>> => AskedAsTrained'
  BY <1>2, NothingIsAList
<1>4. ASSUME NEW next, AskedWell(next, call.data), asked' = Append(asked, next), call' = call
      PROVE  AskedAsTrained'
  <2>1. /\ DOMAIN asked = 1 .. Len(asked) /\ DOMAIN asked' = 1 .. Len(asked) + 1 /\ Len(asked) \in Nat
        /\ \A n \in 1 .. Len(asked) : asked'[n] = asked[n]
        /\ asked'[Len(asked) + 1] = next
    BY <1>4, ListsGrow DEF CallInv
  <2>2. \A n \in 1 .. Len(asked) + 1 : n \in 1 .. Len(asked) \/ n = Len(asked) + 1
    BY <2>1
  <2>3. \A n \in DOMAIN asked' : AskedWell(asked'[n], call'.data)
    BY <1>1, <1>4, <2>1, <2>2
  <2> QED BY <1>2, <2>3
<1>5. \A ref : AskedWell([verb |-> "fit", ref |-> ref], call.data)
                /\ AskedWell([verb |-> "zero_shot", ref |-> ref], call.data)
  BY DEF AskedWell
<1>6. CASE Open \/ BeginFit \/ BeginForecast \/ BeginZeroShot
  <2>1. asked' = <<>>
    BY <1>6 DEF Open, BeginFit, BeginForecast, BeginZeroShot, Begins
  <2> QED BY <1>3, <2>1
<1>7. CASE Prepare \/ TooShort \/ AskRaises \/ ZeroShotRaises \/ UNCHANGED vars
  <2>1. UNCHANGED <<call, asked>>
    BY <1>7 DEF Prepare, TooShort, AskRaises, ZeroShotRaises, Ends, vars
  <2> QED BY <1>1, <1>2, <2>1
<1>8. CASE FitLeaf \/ FitLeafRaises \/ ZeroShot
  <2>1. call' = call /\ \E ref : asked' = Append(asked, [verb |-> "fit", ref |-> ref])
                               \/ asked' = Append(asked, [verb |-> "zero_shot", ref |-> ref])
    BY <1>8 DEF FitLeaf, FitLeafRaises, ZeroShot, Ends
  <2> QED BY <1>4, <1>5, <2>1
<1>9. CASE Ask
  <2>1. stage = "asking" /\ call' = call /\ asked' = Append(asked, AskedOf(Len(answers) + 1))
    BY <1>9 DEF Ask, AskedOf, Own
  <2> QED BY <1>4, <2>1, AskedNextWell
<1> QED BY <1>6, <1>7, <1>8, <1>9 DEF Next

-----------------------------------------------------------------------------
(* The scale of what is answered.                                          *)

OnNoScale(answer) == \A cell \in DOMAIN answer.scale : answer.scale[cell] = <<>>

ScaleInv == \A k \in DOMAIN answers : OnNoScale(answers[k])

(* The answer of the next model is taken back to the scale of the caller.  *)
LEMMA ScaledBack ==
  ASSUME KeysSurvive, TypeOK, CallInv, ArtifactInv, AskInv, stage = "asking",
         NEW k, k = Len(answers) + 1, Knows(Own(k).state, call.data),
         NEW cell \in Cells(call.data, call.data.targets)
  PROVE  Inverted(Own(k).transforms, cell, AnswerScale(Own(k).state, Given(Own(k)), cell)) = <<>>
<1>1. PICK c : /\ k \in DOMAIN Found /\ MadeBy(artifact, c)
               /\ Own(k) = Wrote(PreparedFor(Found[k], c))
               /\ IsList(Found[k].transforms)
  BY AskedNext DEF Own
<1> DEFINE view == ViewFor(Found[k], c)
           steps == FitAll(Found[k].transforms, view)
           state == Own(k).state
<1>2. Stored(steps) = steps /\ IsList(steps)
  BY <1>1, FittedStepsAreStored
<1>3. /\ Own(k).transforms = steps /\ state.view = view
      /\ DOMAIN state.scale = [instance : view.instances, column : ColumnsOf(view)]
      /\ \A at \in DOMAIN state.scale : state.scale[at] = ScaleOf(steps, at)
  BY <1>1, <1>2, OwnIsAsFitted
<1>4. view.targets = call.data.targets
  <2>1. artifact.targets = c.data.targets /\ call.data.targets = artifact.targets
    BY <1>1 DEF MadeBy, AskInv, HasDataSchema
  <2>2. view.targets = c.data.targets
    BY DEF ViewFor, ViewOf
  <2> QED BY <2>1, <2>2
<1> HIDE DEF view, steps, state
<1>5. AnswerScale(state, Given(Own(k)), cell) = ScaleOf(steps, cell)
  <2>1. CASE state.view.request.view = "series"
    <3>1. cell \in [instance : DOMAIN call.data.length, column : call.data.targets]
      BY DEF Cells
    <3>2. DOMAIN call.data.length \subseteq view.instances
      BY <1>3, <2>1 DEF Knows, state
    <3>3. call.data.targets \subseteq ColumnsOf(view)
      BY <1>4 DEF ColumnsOf
    <3>4. cell \in DOMAIN state.scale
      BY <1>3, <3>1, <3>2, <3>3
    <3> QED BY <1>3, <2>1, <3>4 DEF AnswerScale
  <2>2. CASE state.view.request.view # "series"
    <3>1. cell \in Cells(call.data, call.data.targets \cup NamesOf({f \in call.data.features : f.role # "static"}))
      BY DEF Cells
    <3>2. Given(Own(k))[cell] = ScaleOf(Own(k).transforms, cell)
      BY <3>1 DEF Given
    <3> QED BY <1>3, <2>2, <3>2 DEF AnswerScale
  <2> QED BY <2>1, <2>2
<1> QED BY <1>2, <1>3, <1>5, UndoneInFull DEF state

(* What Ask adds to the answers, and what it makes of all of them. *)
LEMMA AskAdds ==
  ASSUME Ask
  PROVE  \E answer, found :
           LET k == Len(answers) + 1
               cells == Cells(call.data, call.data.targets)
               parts == Parts(AsExecuted(call.output))
               scale == [cell \in cells |->
                           Inverted(Own(k).transforms, cell, AnswerScale(Own(k).state, Given(Own(k)), cell))]
           IN /\ answer \in Answer(cells, parts) /\ Knows(Own(k).state, call.data)
              /\ found = Append(answers, Scaled(answer, scale))
              /\ \/ UNCHANGED <<answers, forecast>> /\ stage' = "idle" /\ outcome' = "failed"
                 \/ /\ Answers(answer, parts) /\ answers' = found
                    /\ \/ Len(found) < Len(Found) /\ UNCHANGED <<stage, forecast>>
                       \/ ~(Len(found) < Len(Found)) /\ stage' = "idle" /\ forecast' = Combined(found)
BY DEF Ask, Own

(* Every step keeps what is answered on the scale of the caller.           *)
LEMMA ScaleStep ==
  ASSUME KeysSurvive, TypeOK, CallInv, ArtifactInv, AskInv, ScaleInv, OnTheCallersScale, [Next]_vars
  PROVE  ScaleInv' /\ OnTheCallersScale'
<1>1. answers' = <<>> => ScaleInv'
  BY NothingIsAList DEF ScaleInv
<1>2. forecast' = NoForecast => OnTheCallersScale'
  BY DEF OnTheCallersScale
<1>3. UNCHANGED answers => ScaleInv'
  BY DEF ScaleInv
<1>4. UNCHANGED forecast => OnTheCallersScale'
  BY DEF OnTheCallersScale
<1>5. CASE Open \/ BeginFit \/ BeginForecast \/ BeginZeroShot
  <2>1. answers' = <<>> /\ forecast' = NoForecast
    BY <1>5 DEF Open, BeginFit, BeginForecast, BeginZeroShot, Begins
  <2> QED BY <1>1, <1>2, <2>1
<1>6. CASE Prepare \/ FitLeaf \/ FitLeafRaises \/ TooShort \/ AskRaises \/ ZeroShotRaises \/ UNCHANGED vars
  <2>1. UNCHANGED <<answers, forecast>>
    BY <1>6 DEF Prepare, FitLeaf, FitLeafRaises, TooShort, AskRaises, ZeroShotRaises, vars
  <2> QED BY <1>3, <1>4, <2>1
<1>7. CASE ZeroShot
  <2>1. UNCHANGED answers /\ (forecast' = forecast \/ forecast'.scales = {})
    BY <1>7 DEF ZeroShot
  <2> QED BY <1>3, <1>4, <2>1 DEF OnTheCallersScale
<1>8. CASE Ask
  <2> DEFINE k == Len(answers) + 1
             cells == Cells(call.data, call.data.targets)
             parts == Parts(AsExecuted(call.output))
             scale == [cell \in cells |->
                         Inverted(Own(k).transforms, cell, AnswerScale(Own(k).state, Given(Own(k)), cell))]
  <2>1. PICK answer, found :
          /\ Knows(Own(k).state, call.data) /\ found = Append(answers, Scaled(answer, scale))
          /\ answers' = answers \/ answers' = found
          /\ forecast' = forecast \/ forecast' = Combined(found)
    BY <1>8, AskAdds
  <2>2. stage = "asking"
    BY <1>8 DEF Ask
  <2>3. \A cell \in cells : scale[cell] = <<>>
    BY <2>1, <2>2, ScaledBack
  <2>4. DOMAIN scale = cells /\ Scaled(answer, scale).scale = scale
    BY DEF Scaled
  <2> HIDE DEF scale, cells, k
  <2>5. OnNoScale(Scaled(answer, scale))
    BY <2>3, <2>4 DEF OnNoScale
  <2>6. \A j \in DOMAIN found : OnNoScale(found[j])
    <3>1. IsList(answers)
      BY DEF CallInv
    <3>2. /\ DOMAIN answers = 1 .. Len(answers) /\ DOMAIN found = 1 .. Len(answers) + 1 /\ Len(answers) \in Nat
          /\ \A j \in 1 .. Len(answers) : found[j] = answers[j]
          /\ found[Len(answers) + 1] = Scaled(answer, scale)
      BY <2>1, <3>1, ListsGrow
    <3>3. \A j \in 1 .. Len(answers) + 1 : j \in 1 .. Len(answers) \/ j = Len(answers) + 1
      BY <3>2
    <3> QED BY <2>5, <3>2, <3>3 DEF ScaleInv
  <2>7. ScaleInv'
    BY <1>3, <2>1, <2>6 DEF ScaleInv
  <2>8. OnTheCallersScale'
    <3>1. Combined(found).scales = {found[j].scale : j \in DOMAIN found}
      BY DEF Combined
    <3>2. \A one \in Combined(found).scales : \A cell \in DOMAIN one : one[cell] = <<>>
      BY <2>6, <3>1 DEF OnNoScale
    <3> QED BY <1>4, <2>1, <3>2 DEF OnTheCallersScale
  <2> QED BY <2>7, <2>8
<1> QED BY <1>5, <1>6, <1>7, <1>8 DEF Next

-----------------------------------------------------------------------------
(* The cells of what is answered.                                          *)

InFull(rows, cells, parts) ==
  /\ DOMAIN rows = cells /\ \A cell \in cells : rows[cell] # {}
  /\ UNION {rows[cell] : cell \in cells} = parts

AnswersInv ==
  call.op = "forecast" =>
    \A k \in DOMAIN answers :
      InFull(answers[k].rows, Cells(call.data, call.data.targets), Parts(AsExecuted(call.output)))

PartsReturned(output) ==
  Parts([output EXCEPT !.draws = IF DerivedFromSamples(output) THEN None ELSE @])

(* An answer that is accepted has every cell, and every part in some cell. *)
LEMMA AcceptedInFull ==
  ASSUME NEW cells, NEW parts, NEW answer \in Answer(cells, parts), Answers(answer, parts)
  PROVE  InFull(answer.rows, cells, parts)
<1>1. DOMAIN answer.rows = cells
  <2>1. CASE answer = Faithful(cells, parts)
    BY <2>1 DEF Faithful
  <2>2. CASE answer \in Departing(cells, parts)
    <3> DEFINE asAsked == Faithful(cells, parts)
    <3>1. DOMAIN asAsked.rows = cells
      BY DEF Faithful
    <3>2. \A cell, has : DOMAIN [asAsked EXCEPT !.rows[cell] = has].rows = cells
      BY <3>1 DEF Faithful
    <3>3. \A has : [asAsked EXCEPT !.missing = has].rows = asAsked.rows
                    /\ [asAsked EXCEPT !.order = has].rows = asAsked.rows
      BY DEF Faithful
    <3>4. \/ \E cell \in cells : \E has : answer = [asAsked EXCEPT !.rows[cell] = has]
          \/ \E has : answer = [asAsked EXCEPT !.missing = has]
          \/ \E has : answer = [asAsked EXCEPT !.order = has]
      <4> HIDE DEF asAsked
      <4> DEFINE Of(cell) ==
                   { [asAsked EXCEPT !.rows[cell] = {}],
                     [asAsked EXCEPT !.rows[cell] = @ \ {CHOOSE part \in parts : TRUE}],
                     [asAsked EXCEPT !.rows[cell] = @ \cup {<<"other", 0>>}],
                     [asAsked EXCEPT !.missing = {cell}] }
      <4>1. \A cell : \A one \in Of(cell) :
              (\E has : one = [asAsked EXCEPT !.rows[cell] = has]) \/ \E has : one = [asAsked EXCEPT !.missing = has]
        OBVIOUS
      <4>2. Departing(cells, parts) = {[asAsked EXCEPT !.order = "other"]} \cup UNION {Of(cell) : cell \in cells}
        BY DEF Departing, asAsked
      <4> HIDE DEF Of
      <4>3. answer = [asAsked EXCEPT !.order = "other"] \/ \E cell \in cells : answer \in Of(cell)
        BY <2>2, <4>2
      <4> QED BY <4>1, <4>3
    <3> HIDE DEF asAsked
    <3>5. CASE \E cell \in cells : \E has : answer = [asAsked EXCEPT !.rows[cell] = has]
      BY <3>2, <3>5
    <3>6. CASE \E has : answer = [asAsked EXCEPT !.missing = has]
      BY <3>1, <3>3, <3>6
    <3>7. CASE \E has : answer = [asAsked EXCEPT !.order = has]
      BY <3>1, <3>3, <3>7
    <3> QED BY <3>4, <3>5, <3>6, <3>7
  <2> QED BY <2>1, <2>2 DEF Answer
<1> QED BY <1>1 DEF Answers, InFull

(* What is derived from samples has every cell and part that was asked for.*)
LEMMA ReducedInFull ==
  ASSUME NEW output \in Outputs, NEW rows, NEW cells, InFull(rows, cells, Parts(AsExecuted(output)))
  PROVE  InFull(Reduced(rows, output), cells, PartsReturned(output))
<1> DEFINE returned == [output EXCEPT !.draws = IF DerivedFromSamples(output) THEN None ELSE @]
<1>1. IsOutput(output)
  BY EngineAssumption
<1>2. /\ returned.kind = output.kind /\ returned.levels = output.levels
      /\ returned.draws = IF DerivedFromSamples(output) THEN None ELSE output.draws
  BY <1>1 DEF IsOutput
<1> HIDE DEF returned
<1>3. CASE DerivedFromSamples(output)
  <2> DEFINE levels == {<<"quantile", level>> : level \in output.levels}
  <2>1. output.kind = "quantiles" /\ output.levels # {}
    BY <1>1, <1>3 DEF DerivedFromSamples, IsOutput
  <2>2. Parts(returned) = levels
    BY <1>2, <2>1 DEF Parts
  <2>3. levels # {}
    BY <2>1
  <2> HIDE DEF levels
  <2>4. Reduced(rows, output) = [cell \in DOMAIN rows |-> levels]
    BY <1>3 DEF Reduced, levels
  <2>5. cells # {}
    <3>1. <<"sample", 0>> \in Parts(AsExecuted(output))
      BY <1>1, <1>3 DEF Parts, AsExecuted, DerivedFromSamples, IsOutput, None
    <3> QED BY <3>1 DEF InFull
  <2>6. InFull(Reduced(rows, output), cells, Parts(returned))
    <3>1. DOMAIN rows = cells
      BY DEF InFull
    <3>2. \A cell \in cells : Reduced(rows, output)[cell] = levels
      BY <2>4, <3>1
    <3>3. UNION {Reduced(rows, output)[cell] : cell \in cells} = levels
      BY <2>5, <3>2
    <3> QED BY <2>2, <2>3, <2>4, <3>1, <3>2, <3>3 DEF InFull
  <2> QED BY <2>6 DEF PartsReturned, returned
<1>4. CASE ~DerivedFromSamples(output)
  <2>1. Parts(returned) = Parts(output)
    BY <1>2, <1>4 DEF Parts
  <2>2. AsExecuted(output) = output /\ Reduced(rows, output) = rows
    BY <1>4 DEF AsExecuted, Reduced
  <2> QED BY <2>1, <2>2 DEF PartsReturned, returned
<1> QED BY <1>3, <1>4

AnsweredWell(made, cells, parts) == made # NoForecast => InFull(made.rows, cells, parts)

(* EveryCellIsAnswered, by the part that is about the forecast and the part*)
(* that is about the answers it was made of.                               *)
LEMMA EveryCellSuffices ==
  EveryCellIsAnswered <=>
    /\ AnsweredWell(forecast, Cells(call.data, call.data.targets), PartsReturned(call.output))
    /\ forecast # NoForecast /\ call.op = "forecast" =>
         /\ Len(answers) = Len(Found)
         /\ \A k \in DOMAIN answers : answers[k].missing \subseteq forecast.missing
BY DEF EveryCellIsAnswered, AnsweredWell, InFull, PartsReturned

(* Every step keeps a forecast complete.                                   *)
LEMMA AnsweredStep ==
  ASSUME TypeOK, CallInv, ArtifactInv, AskInv, AnswersInv, EveryCellIsAnswered, [Next]_vars
  PROVE  AnswersInv' /\ EveryCellIsAnswered'
<1>1. answers' = <<>> => AnswersInv'
  BY NothingIsAList DEF AnswersInv
<1>2. forecast' = NoForecast => EveryCellIsAnswered'
  BY DEF EveryCellIsAnswered
<1>3. UNCHANGED <<answers, call>> => AnswersInv'
  BY DEF AnswersInv
<1>4. UNCHANGED <<answers, call, forecast>> => EveryCellIsAnswered'
  <2> SUFFICES ASSUME UNCHANGED <<answers, call, forecast>> PROVE EveryCellIsAnswered'
    OBVIOUS
  <2>1. Found' = Found
    BY DEF Found
  <2> QED BY <2>1 DEF EveryCellIsAnswered
<1>5. CASE Open \/ BeginFit \/ BeginForecast \/ BeginZeroShot
  <2>1. answers' = <<>> /\ forecast' = NoForecast
    BY <1>5 DEF Open, BeginFit, BeginForecast, BeginZeroShot, Begins
  <2> QED BY <1>1, <1>2, <2>1
<1>6. CASE Prepare \/ FitLeaf \/ FitLeafRaises \/ TooShort \/ AskRaises \/ ZeroShotRaises \/ UNCHANGED vars
  <2>1. UNCHANGED <<answers, forecast, call>>
    BY <1>6 DEF Prepare, FitLeaf, FitLeafRaises, TooShort, AskRaises, ZeroShotRaises, Ends, vars
  <2> QED BY <1>3, <1>4, <2>1
<1> DEFINE cells == Cells(call.data, call.data.targets)
           parts == Parts(AsExecuted(call.output))
<1>7. CASE ZeroShot
  <2>1. /\ call.op = "zero_shot" /\ call.output \in Outputs /\ UNCHANGED <<call, answers>>
    BY <1>7 DEF ZeroShot, CallInv
  <2>2. PICK answer \in Answer(cells, parts) :
          IF Answers(answer, parts)
          THEN forecast' = [ output  |-> call.output,
                             rows    |-> Reduced(answer.rows, call.output),
                             missing |-> answer.missing,
                             shares  |-> <<<<1, 1>>>>,
                             scales  |-> {} ]
          ELSE UNCHANGED forecast
    BY <1>7 DEF ZeroShot
  <2>3. CASE Answers(answer, parts)
    <3>1. InFull(Reduced(answer.rows, call.output), cells, PartsReturned(call.output))
      BY <2>1, <2>3, AcceptedInFull, ReducedInFull
    <3>2. forecast'.rows = Reduced(answer.rows, call.output)
      BY <2>2, <2>3
    <3>3. InFull(forecast'.rows, cells, PartsReturned(call.output))
      BY <3>1, <3>2
    <3>4. EveryCellIsAnswered'
      BY <2>1, <3>3 DEF EveryCellIsAnswered, InFull, PartsReturned
    <3> QED BY <1>3, <2>1, <3>4
  <2>4. CASE ~Answers(answer, parts)
    BY <1>3, <1>4, <2>1, <2>2, <2>4
  <2> QED BY <2>3, <2>4
<1>8. CASE Ask
  <2> DEFINE k == Len(answers) + 1
             scale == [cell \in cells |->
                         Inverted(Own(k).transforms, cell, AnswerScale(Own(k).state, Given(Own(k)), cell))]
  <2>1. PICK answer, found :
          /\ answer \in Answer(cells, parts)
          /\ found = Append(answers, Scaled(answer, scale))
          /\ \/ UNCHANGED <<answers, forecast>>
             \/ /\ Answers(answer, parts) /\ answers' = found
                /\ \/ Len(found) < Len(Found) /\ UNCHANGED forecast
                   \/ ~(Len(found) < Len(Found)) /\ forecast' = Combined(found)
    BY <1>8, AskAdds
  <2>2. /\ stage = "asking" /\ call.op = "forecast" /\ call' = call /\ call.output \in Outputs
        /\ Len(answers) < Len(Found) /\ IsList(answers) /\ call.recipe \in RecipeSet
    BY <1>8 DEF Ask, CallInv, AskInv, ArtifactInv, MadeBy
  <2>3. forecast = NoForecast
    <3>1. Len(answers) \in Nat
      BY <2>2, ListsGrow
    <3> DEFINE a == Len(answers)
               b == Len(Found)
    <3>2. a \in Nat /\ a < b
      BY <2>2, <3>1
    <3> HIDE DEF a, b
    <3>3. a # b
      BY <3>2
    <3> QED BY <2>2, <3>3 DEF EveryCellIsAnswered, a, b
  <2> HIDE DEF scale, cells, parts
  <2>4. CASE UNCHANGED <<answers, forecast>>
    BY <1>3, <1>4, <2>2, <2>4
  <2>5. CASE Answers(answer, parts) /\ answers' = found
    <3>1. /\ Scaled(answer, scale).rows = answer.rows /\ Scaled(answer, scale).missing = answer.missing
      BY DEF Scaled
    <3>2. InFull(answer.rows, cells, parts)
      BY <2>1, <2>5, AcceptedInFull
    <3>3. /\ DOMAIN answers = 1 .. Len(answers) /\ DOMAIN found = 1 .. Len(answers) + 1 /\ Len(answers) \in Nat
          /\ \A j \in 1 .. Len(answers) : found[j] = answers[j]
          /\ found[Len(answers) + 1] = Scaled(answer, scale)
          /\ Len(found) = Len(answers) + 1
      BY <2>1, <2>2, ListsGrow
    <3>4. \A j \in 1 .. Len(answers) + 1 : j \in 1 .. Len(answers) \/ j = Len(answers) + 1
      BY <3>3
    <3>5. \A j \in DOMAIN found : InFull(found[j].rows, cells, parts)
      BY <2>2, <3>1, <3>2, <3>3, <3>4 DEF AnswersInv, cells, parts
    <3>6. AnswersInv'
      BY <2>2, <2>5, <3>5 DEF AnswersInv, cells, parts
    <3>7. CASE UNCHANGED forecast
      BY <1>2, <2>3, <3>6, <3>7
    <3>8. CASE ~(Len(found) < Len(Found)) /\ forecast' = Combined(found)
      <4>1. Len(found) = Len(Found)
        <5> DEFINE a == Len(answers)
                   b == Len(Found)
        <5>1. a \in Nat /\ a < b /\ Len(found) = a + 1 /\ ~(Len(found) < b)
          BY <2>2, <3>3, <3>8
        <5>2. b \in Nat
          BY <2>2, <3>8, ModelsOfARecipe DEF Found
        <5> HIDE DEF a, b
        <5>3. Len(found) = b
          BY <5>1, <5>2
        <5> QED BY <5>3 DEF b
      <4>2. 1 \in DOMAIN found
        BY <3>3
      <4>3. /\ Combined(found).rows = Reduced(found[1].rows, call.output)
            /\ Combined(found).missing = UNION {found[j].missing : j \in DOMAIN found}
        BY DEF Combined
      <4>4. InFull(Combined(found).rows, cells, PartsReturned(call.output))
        BY <2>2, <3>5, <4>2, <4>3, ReducedInFull DEF parts
      <4>5. \A j \in DOMAIN found : found[j].missing \subseteq Combined(found).missing
        BY <4>3
      <4>6. Found' = Found
        BY <2>2 DEF Found
      <4>7. InFull(forecast'.rows, Cells(call'.data, call'.data.targets), PartsReturned(call'.output))
        BY <2>2, <3>8, <4>4 DEF cells
      <4>8. Len(answers') = Len(Found') /\ \A j \in DOMAIN answers' : answers'[j].missing \subseteq forecast'.missing
        BY <2>5, <3>8, <4>1, <4>5, <4>6
      <4>9. EveryCellIsAnswered'
        BY <4>7, <4>8 DEF EveryCellIsAnswered, InFull, PartsReturned
      <4> QED BY <3>6, <4>9
    <3> QED BY <2>1, <2>3, <2>5, <3>6, <3>7, <3>8, <1>2
  <2> QED BY <2>1, <2>4, <2>5
<1> QED BY <1>5, <1>6, <1>7, <1>8 DEF Next

-----------------------------------------------------------------------------
(* What is published, whole.                                               *)

(* A model that can be prepared for a view with gaps takes gaps.           *)
LEMMA OnlyNativeModelsSeeGaps ==
  ASSUME NEW leaf, NEW c, NEW shared, IsFittable(leaf, c, shared), ViewFor(leaf, c).missing # {}
  PROVE  Descriptor(leaf).missing = "native"
<1> DEFINE view == ViewFor(leaf, c)
           imputed == \E n \in DOMAIN leaf.transforms : leaf.transforms[n].kind \in Imputed
<1>1. /\ \A n \in DOMAIN leaf.transforms : Fits(leaf.transforms[n], view)
      /\ Consumes(Descriptor(leaf), view, imputed)
  BY DEF IsFittable, Preparable, ViewFor
<1> HIDE DEF view
<1>2. ~imputed
  BY <1>1, EngineAssumption DEF Fits
<1>3. view.missing # {}
  BY DEF view
<1> HIDE DEF imputed
<1>4. TakesMissing(Descriptor(leaf), view.missing, imputed)
  BY <1>1 DEF Consumes
<1> QED BY <1>2, <1>3, <1>4 DEF TakesMissing

(* A recipe has as many paths as it has models.                            *)
LEMMA OnePathForEachModel ==
  ASSUME NEW r \in RecipeSet
  PROVE  Cardinality({PathOf(r, k) : k \in DOMAIN Leaves[r]}) = Len(Leaves[r])
<1> DEFINE n == Len(Leaves[r])
<1>1. DOMAIN Leaves[r] = 1 .. n /\ n \in Nat /\ n >= 1
  BY ModelsOfARecipe
<1>2. CASE IsComposite(r)
  <2>1. {PathOf(r, k) : k \in DOMAIN Leaves[r]} = 1 .. n
    BY <1>1, <1>2 DEF PathOf
  <2> HIDE DEF n
  <2>2. Cardinality(1 .. n) = n
    BY <1>1, FS_Interval
  <2> QED BY <2>1, <2>2 DEF n
<1>3. CASE ~IsComposite(r)
  <2>1. Leaves[r] = <<Leaf(r.ref, <<>>)>>
    BY <1>3, LeavesOfAModel DEF IsComposite
  <2>2. n = 1
    BY <2>1
  <2>3. {PathOf(r, k) : k \in DOMAIN Leaves[r]} = {0}
    BY <1>1, <1>3, <2>2 DEF PathOf
  <2>4. Cardinality({0}) = 1
    BY FS_Singleton
  <2> QED BY <2>2, <2>3, <2>4
<1> QED BY <1>2, <1>3

(* An artifact that was made by a fit is whole.                            *)
LEMMA MadeIsWhole ==
  ASSUME ArtifactInv
  PROVE  PublishedIsWhole
<1> SUFFICES ASSUME artifact # NoArtifact PROVE PublishedIsWhole
  BY DEF PublishedIsWhole
<1> DEFINE found == Leaves[artifact.recipe]
           own(k) == artifact.directory[PathOf(artifact.recipe, k)].state
<1>1. PICK c : MadeBy(artifact, c)
  BY DEF ArtifactInv
<1>2. artifact.recipe \in RecipeSet
  BY <1>1 DEF MadeBy
<1>3. Len(artifact.records) = Len(found)
  BY <1>1 DEF MadeBy
<1>4. Cardinality(DOMAIN artifact.directory) = Len(found)
  <2>1. DOMAIN artifact.directory = {PathOf(artifact.recipe, k) : k \in DOMAIN found}
    BY <1>1 DEF MadeBy
  <2> QED BY <1>2, <2>1, OnePathForEachModel
<1>5. ASSUME NEW k \in DOMAIN found
      PROVE  /\ own(k).ref = found[k].ref
             /\ own(k).view.request.view = Descriptor(found[k]).training.view
             /\ own(k).view.request.context = artifact.records[k].context
             /\ own(k).view.missing # {} => Descriptor(found[k]).missing = "native"
  <2> DEFINE one == PreparedFor(found[k], c)
             view == ViewFor(found[k], c)
  <2>1. /\ IsFittable(found[k], c, Len(found) > 1)
        /\ artifact.directory[PathOf(artifact.recipe, k)] = Wrote(one)
        /\ artifact.records[k] = RecordOf(found[k], view)
    BY <1>1 DEF MadeBy
  <2>2. one.leaf = found[k] /\ one.view = view
    BY DEF PreparedFor
  <2>3. view.request.view = Descriptor(found[k]).training.view
    BY DEF ViewFor, ViewOf, RequestFor
  <2>4. view.missing # {} => Descriptor(found[k]).missing = "native"
    BY <2>1, OnlyNativeModelsSeeGaps
  <2> HIDE DEF one, view
  <2>5. own(k) = Fitted(one)
    BY <2>1 DEF Wrote
  <2>6. Fitted(one).ref = one.leaf.ref /\ Fitted(one).view = one.view
    BY DEF Fitted
  <2>7. artifact.records[k].context = view.request.context
    BY <2>1 DEF RecordOf
  <2> QED BY <2>2, <2>3, <2>4, <2>5, <2>6, <2>7
<1> QED BY <1>3, <1>4, <1>5 DEF PublishedIsWhole

-----------------------------------------------------------------------------
(* What is screened.                                                       *)

(* A fit of one model checks what the screen checks. *)
LEMMA ScreenedAlike ==
  ASSUME NEW r \in RecipeSet, r.kind = "model", NEW data, NEW plan, NEW horizon,
         Catalog[r.ref].supports_fit, PlanFor(Catalog[r.ref], plan) = plan
  PROVE  /\ Leaves[r] = <<Leaf(r.ref, <<>>)>> /\ Len(Leaves[r]) = 1 /\ Leaves[r][1].ref = r.ref
         /\ Eligible(r.ref, data, plan, horizon) <=>
              r.ref \in catalogued /\ Preparable(Leaves[r][1], data, plan, horizon, Len(Leaves[r]) > 1)
         /\ Resolves(r, plan) <=> r.ref \in catalogued
<1>1. Leaves[r] = <<Leaf(r.ref, <<>>)>> /\ Executable[r]
  BY LeavesOfAModel
<1> DEFINE one == Leaf(r.ref, <<>>)
<1>2. one.ref = r.ref
  BY DEF Leaf
<1> HIDE DEF one
<1>3. Len(<<one>>) = 1 /\ <<one>>[1] = one /\ DOMAIN <<one>> = {1}
  OBVIOUS
<1>4. Leaves[r] = <<one>> /\ Len(Leaves[r]) = 1 /\ Leaves[r][1] = one /\ DOMAIN Leaves[r] = {1}
  BY <1>1, <1>3 DEF one
<1>5. (Len(Leaves[r]) > 1) = FALSE /\ Len(Leaves[r]) < 2
  BY <1>4
<1>6. Eligible(r.ref, data, plan, horizon) <=> r.ref \in catalogued /\ Preparable(one, data, plan, horizon, FALSE)
  BY DEF Eligible, one
<1>7. Resolves(r, plan) <=> r.ref \in catalogued
  BY <1>1, <1>2, <1>4, <1>5 DEF Resolves, ResolvesForFit, SharedPlanReaches
<1> QED BY <1>2, <1>4, <1>5, <1>6, <1>7 DEF one

ScreenedWell(cl, fitting, how, known, found) ==
  cl.op = "fit" /\ cl.recipe.kind = "model" =>
    LET ref == cl.recipe.ref
        eligible == /\ ref \in known /\ Catalog[ref].supports_fit
                    /\ Preparable(Leaf(ref, <<>>), cl.data, PlanFor(Catalog[ref], cl.plan), cl.horizon, FALSE)
    IN Catalog[ref].supports_fit /\ PlanFor(Catalog[ref], cl.plan) = cl.plan =>
         /\ how = "refused" /\ (ref \in found \/ ref \notin known) => ~eligible
         /\ fitting \/ how \in {"done", "failed"} => eligible

(* ScreenedAsFitted, of the call as it stands.                             *)
LEMMA ScreenedSuffices ==
  ScreenedAsFitted <=> ScreenedWell(call, stage = "fitting", outcome, catalogued, installed)
BY DEF ScreenedAsFitted, ScreenedWell, Eligible

(* Every step keeps a fit doing what the screen said of it.                *)
LEMMA ScreenedStep ==
  ASSUME TypeOK, CallInv, FitInv, ScreenedAsFitted, [Next]_vars
  PROVE  ScreenedAsFitted'
<1>1. ScreenedWell(call, stage = "fitting", outcome, catalogued, installed)
  BY ScreenedSuffices
<1>2. ScreenedWell(call', stage' = "fitting", outcome', catalogued', installed') => ScreenedAsFitted'
  BY DEF ScreenedAsFitted, ScreenedWell, Eligible
<1>3. call'.op # "fit" => ScreenedAsFitted'
  BY DEF ScreenedAsFitted
<1>4. CASE Open
  BY <1>3, <1>4 DEF Open, NoCall
<1>5. CASE BeginForecast \/ BeginZeroShot
  BY <1>3, <1>5 DEF BeginForecast, BeginZeroShot, Begins
<1>6. CASE Ask \/ TooShort \/ AskRaises \/ ZeroShot \/ ZeroShotRaises
  <2>1. call' = call /\ stage \in {"asking", "pretrained"}
    BY <1>6 DEF Ask, TooShort, AskRaises, ZeroShot, ZeroShotRaises, Ends
  <2> QED BY <1>3, <2>1 DEF CallInv
<1>7. CASE BeginFit
  <2>1. PICK r \in RecipeSet, data \in DataSets, plan \in Plans, horizon \in Horizons :
          Begins([op |-> "fit", recipe |-> r, data |-> data, plan |-> plan, horizon |-> horizon],
                 IF Resolves(r, plan) THEN "preparing" ELSE "idle")
    BY <1>7 DEF BeginFit
  <2>2. /\ call'.recipe = r /\ call'.plan = plan
        /\ stage' # "fitting" /\ outcome' = (IF Resolves(r, plan) THEN "none" ELSE "refused")
        /\ catalogued' = catalogued
    BY <2>1 DEF Begins
  <2>3. ASSUME r.kind = "model", Catalog[r.ref].supports_fit, PlanFor(Catalog[r.ref], plan) = plan, outcome' = "refused"
        PROVE  r.ref \notin catalogued
    BY <2>2, <2>3, ScreenedAlike
  <2> QED BY <1>2, <2>2, <2>3 DEF ScreenedWell
<1>8. CASE FitLeaf \/ FitLeafRaises
  <2>1. /\ stage = "fitting" /\ outcome' # "refused" /\ UNCHANGED <<call, catalogued, installed>>
    BY <1>8 DEF FitLeaf, FitLeafRaises, Ends, TypeOK
  <2> QED BY <1>1, <1>2, <2>1 DEF ScreenedWell
<1>9. CASE UNCHANGED vars
  BY <1>1, <1>2, <1>9 DEF vars
<1>10. CASE Prepare
  <2> DEFINE r == call.recipe
             one == Leaf(r.ref, <<>>)
             ready == Preparable(one, call.data, call.plan, call.horizon, FALSE)
  <2>1. /\ stage = "preparing" /\ outcome = "none" /\ call.recipe \in RecipeSet /\ Len(prepared) < Len(Found)
        /\ Found = Leaves[r] /\ IsList(prepared)
        /\ \A k \in DOMAIN Found : Found[k].ref \in catalogued
        /\ UNCHANGED <<call, catalogued, installed>>
    BY <1>10 DEF Prepare, TypeOK, CallInv, FitInv, Found, Ends
  <2> SUFFICES ASSUME r.kind = "model", Catalog[r.ref].supports_fit, PlanFor(Catalog[r.ref], call.plan) = call.plan
               PROVE  /\ outcome' = "refused" /\ (r.ref \in installed \/ r.ref \notin catalogued) =>
                           ~(r.ref \in catalogued /\ ready)
                      /\ stage' = "fitting" \/ outcome' \in {"done", "failed"} => r.ref \in catalogued /\ ready
    BY <1>2, <2>1 DEF ScreenedWell
  <2>2. Leaves[r] = <<one>>
    BY <2>1, LeavesOfAModel
  <2>3. one.ref = r.ref
    BY DEF Leaf
  <2> HIDE DEF one, r
  <2>4. Len(<<one>>) = 1 /\ <<one>>[1] = one /\ 1 \in DOMAIN <<one>>
    OBVIOUS
  <2>5. Len(Found) = 1 /\ Found[1] = one /\ r.ref \in catalogued
    BY <2>1, <2>2, <2>3, <2>4
  <2>6. Len(prepared) + 1 = 1 /\ (Len(Found) > 1) = FALSE
    <3>1. Len(prepared) \in Nat
      BY <2>1, ListsGrow
    <3> QED BY <2>1, <2>5, <3>1
  <2>7. Found[Len(prepared) + 1] = one
    BY <2>5, <2>6
  <2>8. CASE ready /\ r.ref \in installed
    <3>1. outcome' = outcome
      BY <1>10, <2>3, <2>6, <2>7, <2>8 DEF Prepare, HasProvider
    <3> QED BY <2>1, <2>5, <2>8, <3>1
  <2>9. CASE ~(ready /\ r.ref \in installed)
    <3>1. stage' = "idle" /\ outcome' = "refused"
      BY <1>10, <2>3, <2>6, <2>7, <2>9 DEF Prepare, HasProvider, Ends
    <3> QED BY <2>5, <2>9, <3>1
  <2> QED BY <2>8, <2>9
<1> QED BY <1>4, <1>5, <1>6, <1>7, <1>8, <1>9, <1>10 DEF Next

-----------------------------------------------------------------------------
(* What each model contributes to a forecast. *)

(* What holds of 0, and of every number if of the one before it.           *)
LEMMA CountingUp ==
  ASSUME NEW n \in Nat, NEW S, 0 \in S, \A k \in 1 .. n : k - 1 \in S => k \in S
  PROVE  0 .. n \subseteq S
<1> DEFINE R == (0 .. n) \ S
<1> SUFFICES ASSUME R # {} PROVE FALSE
  OBVIOUS
<1>1. R \subseteq Nat
  OBVIOUS
<1> HIDE DEF R
<1>2. PICK k \in R : \A t \in R : k <= t
  BY <1>1, LeastNumber
<1> USE DEF R
<1>3. k \in 1 .. n /\ k - 1 \in 0 .. n /\ ~(k <= k - 1)
  BY <1>2
<1>4. k - 1 \notin R
  <2> HIDE DEF R
  <2> QED BY <1>2, <1>3
<1> QED BY <1>2, <1>3, <1>4
(* A fraction.                                                             *)
Share == Int \X (Nat \ {0})

(* Fractions that are equal may be taken for each other.                   *)
LEMMA SameShareIsAnEquality ==
  /\ \A a \in Share : SameShare(a, a)
  /\ \A a, b \in Share : SameShare(a, b) => SameShare(b, a)
  /\ \A a, b, c \in Share : SameShare(a, b) /\ SameShare(b, c) => SameShare(a, c)
<1>1. \A a \in Share : a[1] \in Int /\ a[2] \in Nat \ {0}
  BY DEF Share
<1>2. ASSUME NEW a \in Share, NEW b \in Share, NEW c \in Share, SameShare(a, b), SameShare(b, c)
      PROVE SameShare(a, c)
  <2>1. ASSUME NEW p \in Int, NEW q \in Nat \ {0}, NEW r \in Int, NEW s \in Nat \ {0}, NEW t \in Int,
               NEW u \in Nat \ {0}, p * s = r * q, r * u = t * s
        PROVE p * u = t * q
    <3>1. (p * s) * u = (r * q) * u /\ (r * u) * q = (t * s) * q
      BY <2>1
    <3>2. (p * u) * s = (t * q) * s
      <4>1. (p * u) * s = (p * s) * u /\ (t * q) * s = (t * s) * q /\ (r * q) * u = (r * u) * q
        OBVIOUS
      <4> QED BY <3>1, <4>1
    <3>3. p * u \in Int /\ t * q \in Int
      OBVIOUS
    <3> DEFINE x == p * u
               y == t * q
    <3> HIDE DEF x, y
    <3>4. x * s = y * s /\ x \in Int /\ y \in Int
      BY <3>2, <3>3 DEF x, y
    <3>5. x = y
      BY <3>4
    <3> QED BY <3>5 DEF x, y
  <2> QED BY <1>1, <1>2, <2>1, SMTT(30) DEF SameShare
<1> QED BY <1>2 DEF SameShare

(* Fractions are added as numbers are.                                     *)
LEMMA PlusOfShares ==
  /\ \A a, b \in Share : Plus(a, b) \in Share
  /\ \A a \in Share : Plus(a, <<0, 1>>) = a /\ Plus(<<0, 1>>, a) = a
  /\ \A a, b, c \in Share : Plus(Plus(a, b), c) = Plus(a, Plus(b, c))
<1>1. \A a \in Share : a[1] \in Int /\ a[2] \in Nat \ {0} /\ a = <<a[1], a[2]>>
  BY DEF Share
<1>2. \A n \in Int, d \in Nat \ {0} : <<n, d>> \in Share
  BY DEF Share
<1>3. \A d, e \in Nat \ {0} : d * e \in Nat \ {0}
  OBVIOUS
<1>4. ASSUME NEW a \in Share, NEW b \in Share PROVE Plus(a, b) \in Share
  BY <1>1, <1>2, <1>3 DEF Plus
<1>5. ASSUME NEW a \in Share PROVE Plus(a, <<0, 1>>) = a /\ Plus(<<0, 1>>, a) = a
  BY <1>1 DEF Plus
<1>6. ASSUME NEW a \in Share, NEW b \in Share, NEW c \in Share
      PROVE Plus(Plus(a, b), c) = Plus(a, Plus(b, c))
  <2>1. ASSUME NEW p \in Int, NEW q \in Int, NEW r \in Int, NEW s \in Int, NEW t \in Int, NEW u \in Int
        PROVE /\ (p * s + r * q) * u + t * (q * s) = p * (s * u) + (r * u + t * s) * q
              /\ (q * s) * u = q * (s * u)
    OBVIOUS
  <2>2. Plus(Plus(a, b), c) = <<(a[1] * b[2] + b[1] * a[2]) * c[2] + c[1] * (a[2] * b[2]), (a[2] * b[2]) * c[2]>>
    BY DEF Plus
  <2>3. Plus(a, Plus(b, c)) = <<a[1] * (b[2] * c[2]) + (b[1] * c[2] + c[1] * b[2]) * a[2], a[2] * (b[2] * c[2])>>
    BY DEF Plus
  <2>4. a[1] \in Int /\ a[2] \in Int /\ b[1] \in Int /\ b[2] \in Int /\ c[1] \in Int /\ c[2] \in Int
    BY <1>1
  <2>5. /\ (a[1] * b[2] + b[1] * a[2]) * c[2] + c[1] * (a[2] * b[2])
             = a[1] * (b[2] * c[2]) + (b[1] * c[2] + c[1] * b[2]) * a[2]
        /\ (a[2] * b[2]) * c[2] = a[2] * (b[2] * c[2])
    BY <2>1, <2>4
  <2> QED BY <2>2, <2>3, <2>5
<1> QED BY <1>4, <1>5, <1>6

(* And multiplied, up to how a fraction is written.                        *)
LEMMA TimesOfShares ==
  /\ \A a, b \in Share : Times(a, b) \in Share
  /\ \A a, b, c \in Share : SameShare(Plus(Times(a, b), Times(a, c)), Times(a, Plus(b, c)))
<1>1. \A a \in Share : a[1] \in Int /\ a[2] \in Nat \ {0} /\ a = <<a[1], a[2]>>
  BY DEF Share
<1>2. \A n \in Int, d \in Nat \ {0} : <<n, d>> \in Share
  BY DEF Share
<1>3. \A d, e \in Nat \ {0} : d * e \in Nat \ {0}
  OBVIOUS
<1>4. ASSUME NEW a \in Share, NEW b \in Share PROVE Times(a, b) \in Share
  BY <1>1, <1>2, <1>3 DEF Times
<1>5. ASSUME NEW a \in Share, NEW b \in Share, NEW c \in Share
      PROVE SameShare(Plus(Times(a, b), Times(a, c)), Times(a, Plus(b, c)))
  <2>1. ASSUME NEW p \in Int, NEW q \in Int, NEW r \in Int, NEW s \in Int, NEW t \in Int, NEW u \in Int
        PROVE ((p * r) * (q * u) + (p * t) * (q * s)) * (q * (s * u))
                = (p * (r * u + t * s)) * ((q * s) * (q * u))
    OBVIOUS
  <2> QED BY <1>1, <2>1 DEF Plus, Times, SameShare
<1> QED BY <1>4, <1>5

(* Equal fractions added to, and multiplied with, equal fractions.         *)
LEMMA EqualsForEquals ==
  ASSUME NEW a \in Share, NEW b \in Share, NEW c \in Share, NEW d \in Share, SameShare(a, b), SameShare(c, d)
  PROVE  SameShare(Plus(a, c), Plus(b, d)) /\ SameShare(Times(a, c), Times(b, d))
<1> DEFINE p == a[1]
           q == a[2]
           r == b[1]
           s == b[2]
           t == c[1]
           u == c[2]
           v == d[1]
           w == d[2]
<1>1. /\ p \in Int /\ q \in Int /\ r \in Int /\ s \in Int
      /\ t \in Int /\ u \in Int /\ v \in Int /\ w \in Int
  BY DEF Share
<1>2. p * s = r * q /\ t * w = v * u
  BY DEF SameShare
<1>3. SameShare(Plus(a, c), Plus(b, d)) <=> (p * u + t * q) * (s * w) = (r * w + v * s) * (q * u)
  BY DEF SameShare, Plus
<1>4. SameShare(Times(a, c), Times(b, d)) <=> (p * t) * (s * w) = (r * v) * (q * u)
  BY DEF SameShare, Times
<1> HIDE DEF p, q, r, s, t, u, v, w
<1>5. /\ (p * u + t * q) * (s * w) = (p * s) * (u * w) + (t * w) * (q * s)
      /\ (r * w + v * s) * (q * u) = (r * q) * (u * w) + (v * u) * (q * s)
  BY <1>1
<1>6. (p * t) * (s * w) = (p * s) * (t * w) /\ (r * v) * (q * u) = (r * q) * (v * u)
  BY <1>1
<1>7. (p * u + t * q) * (s * w) = (r * w + v * s) * (q * u)
  BY <1>2, <1>5
<1>8. (p * t) * (s * w) = (r * v) * (q * u)
  BY <1>2, <1>6
<1> QED BY <1>3, <1>4, <1>7, <1>8

(* What the total of a list is, up to one of its fractions.                *)
TotalFrom(shares, total, k) == IF k = 0 THEN <<0, 1>> ELSE Plus(total[k - 1], shares[k])

(* The recursion of Totals is over numbers, so it is defined.              *)
LEMMA TotalsAreDefined ==
  ASSUME NEW shares, NEW n \in Nat
  PROVE  \E f : f = [k \in 0 .. n |-> TotalFrom(shares, f, k)]
<1> DEFINE Is(f, m) == DOMAIN f = 0 .. m /\ f = [k \in 0 .. m |-> f[k]]
                       /\ \A k \in 0 .. m : f[k] = TotalFrom(shares, f, k)
           S == {m \in Nat : ~\E f : Is(f, m)}
<1>1. ASSUME S # {} PROVE FALSE
  <2>1. PICK m \in S : \A t \in S : m <= t
    BY <1>1, LeastNumber
  <2>2. CASE m = 0
    <3> DEFINE z == [k \in 0 .. 0 |-> <<0, 1>>]
    <3>1. DOMAIN z = 0 .. 0 /\ z = [k \in 0 .. 0 |-> z[k]]
      OBVIOUS
    <3>2. \A k \in 0 .. 0 : z[k] = TotalFrom(shares, z, k)
      BY DEF TotalFrom
    <3> HIDE DEF z
    <3>3. Is(z, 0)
      BY <3>1, <3>2
    <3> QED BY <2>1, <2>2, <3>3
  <2>3. CASE m # 0
    <3>1. m - 1 \in Nat /\ m - 1 \notin S
      BY <2>1, <2>3
    <3>2. PICK f : Is(f, m - 1)
      BY <3>1
    <3> DEFINE g == [k \in 0 .. m |-> IF k < m THEN f[k] ELSE TotalFrom(shares, f, m)]
    <3>3. \A k \in 0 .. m - 1 : g[k] = f[k]
      BY <2>1
    <3>4. g[m] = TotalFrom(shares, f, m)
      BY <2>1, <2>3
    <3>5. \A k \in 0 .. m : TotalFrom(shares, g, k) = TotalFrom(shares, f, k)
      <4> SUFFICES ASSUME NEW k \in 0 .. m PROVE TotalFrom(shares, g, k) = TotalFrom(shares, f, k)
        OBVIOUS
      <4>1. k # 0 => k - 1 \in 0 .. m - 1
        BY <2>1
      <4> HIDE DEF g
      <4> QED BY <3>3, <4>1 DEF TotalFrom
    <3>6. DOMAIN g = 0 .. m /\ g = [k \in 0 .. m |-> g[k]]
      OBVIOUS
    <3> HIDE DEF g
    <3>7. \A k \in 0 .. m : g[k] = TotalFrom(shares, g, k)
      <4> SUFFICES ASSUME NEW k \in 0 .. m PROVE g[k] = TotalFrom(shares, f, k)
        BY <3>5
      <4>1. CASE k = m
        BY <3>4, <4>1
      <4>2. CASE k # m
        <5>1. k \in 0 .. m - 1
          BY <2>1, <4>2
        <5> QED BY <3>2, <3>3, <5>1
      <4> QED BY <4>1, <4>2
    <3>8. Is(g, m)
      BY <3>6, <3>7
    <3> QED BY <2>1, <3>8
  <2> QED BY <2>2, <2>3
<1>2. PICK f : Is(f, n)
  BY <1>1
<1> QED BY <1>2

(* Running totals are what their definition says, and fractions.           *)
LEMMA TotalsUnfold ==
  ASSUME NEW shares \in Seq(Share)
  PROVE  /\ Totals(shares)[0] = <<0, 1>>
         /\ \A k \in 1 .. Len(shares) : Totals(shares)[k] = Plus(Totals(shares)[k - 1], shares[k])
         /\ \A k \in 0 .. Len(shares) : Totals(shares)[k] \in Share
<1> DEFINE n == Len(shares)
           total == CHOOSE f : f = [k \in 0 .. n |-> TotalFrom(shares, f, k)]
<1>1. n \in Nat
  OBVIOUS
<1>2. total = [k \in 0 .. n |-> TotalFrom(shares, total, k)]
  <2>1. \E f : f = [k \in 0 .. n |-> TotalFrom(shares, f, k)]
    BY <1>1, TotalsAreDefined
  <2> QED BY <2>1
<1>3. Totals(shares) = total
  BY DEF Totals, TotalFrom
<1>4. \A k \in 1 .. n : shares[k] \in Share
  OBVIOUS
<1> HIDE DEF total, n
<1>5. total[0] = <<0, 1>> /\ \A k \in 1 .. n : total[k] = Plus(total[k - 1], shares[k])
  <2>1. \A k \in 0 .. n : total[k] = TotalFrom(shares, total, k)
    BY <1>2
  <2>2. 0 \in 0 .. n /\ \A k \in 1 .. n : k \in 0 .. n /\ k # 0
    BY <1>1
  <2> QED BY <2>1, <2>2 DEF TotalFrom
<1> DEFINE S == {k \in 0 .. n : total[k] \in Share}
<1>6. 0 \in S
  <2>1. 0 \in 0 .. n /\ <<0, 1>> \in Share
    BY <1>1 DEF Share
  <2> QED BY <1>5, <2>1
<1>7. ASSUME NEW k \in 1 .. n, k - 1 \in S PROVE k \in S
  <2>1. total[k] = Plus(total[k - 1], shares[k]) /\ total[k - 1] \in Share /\ shares[k] \in Share
    BY <1>4, <1>5, <1>7
  <2>2. total[k] \in Share
    BY <2>1, PlusOfShares
  <2> QED BY <1>1, <2>2
<1>8. 0 .. n \subseteq S
  <2> HIDE DEF S
  <2> QED BY <1>1, <1>6, <1>7, CountingUp
<1> QED BY <1>3, <1>5, <1>8 DEF n

(* The total of two lists, one after the other, is that of the two totals. *)
LEMMA TotalOfJoined ==
  ASSUME NEW s \in Seq(Share), NEW t \in Seq(Share)
  PROVE  Total(s \o t) = Plus(Total(s), Total(t))
<1> DEFINE m == Len(s)
           n == Len(t)
           u == s \o t
<1>1. m \in Nat /\ n \in Nat /\ u \in Seq(Share) /\ Len(u) = m + n
  OBVIOUS
<1>2. (\A k \in 1 .. m : u[k] = s[k]) /\ \A k \in 1 .. n : u[m + k] = t[k]
  OBVIOUS
<1> HIDE DEF m, n, u
<1>3. /\ Totals(s)[0] = <<0, 1>> /\ Totals(t)[0] = <<0, 1>> /\ Totals(u)[0] = <<0, 1>>
      /\ \A k \in 1 .. m : Totals(s)[k] = Plus(Totals(s)[k - 1], s[k])
      /\ \A k \in 1 .. n : Totals(t)[k] = Plus(Totals(t)[k - 1], t[k])
      /\ \A k \in 1 .. m + n : Totals(u)[k] = Plus(Totals(u)[k - 1], u[k])
      /\ \A k \in 0 .. m : Totals(s)[k] \in Share
      /\ \A k \in 0 .. n : Totals(t)[k] \in Share
  BY <1>1, TotalsUnfold DEF m, n
<1>4. Totals(u)[m] = Totals(s)[m]
  <2> DEFINE S == {k \in 0 .. m : Totals(u)[k] = Totals(s)[k]}
  <2>1. 0 \in S
    <3>1. 0 \in 0 .. m
      BY <1>1
    <3> QED BY <1>3, <3>1
  <2>2. ASSUME NEW k \in 1 .. m, k - 1 \in S PROVE k \in S
    <3>1. k \in 1 .. m + n /\ k \in 0 .. m
      BY <1>1
    <3> QED BY <1>2, <1>3, <2>2, <3>1
  <2>3. 0 .. m \subseteq S
    <3> HIDE DEF S
    <3> QED BY <1>1, <2>1, <2>2, CountingUp
  <2> QED BY <1>1, <2>3
<1>5. Totals(u)[m + n] = Plus(Totals(s)[m], Totals(t)[n])
  <2> DEFINE S == {k \in 0 .. n : Totals(u)[m + k] = Plus(Totals(s)[m], Totals(t)[k])}
  <2>1. 0 \in S
    <3>1. Totals(s)[m] \in Share
      BY <1>1, <1>3
    <3>2. Plus(Totals(s)[m], Totals(t)[0]) = Totals(s)[m]
      BY <1>3, <3>1, PlusOfShares
    <3>3. m + 0 = m /\ 0 \in 0 .. n
      BY <1>1
    <3> QED BY <1>4, <3>2, <3>3
  <2>2. ASSUME NEW k \in 1 .. n, k - 1 \in S PROVE k \in S
    <3>1. m + k \in 1 .. m + n /\ (m + k) - 1 = m + (k - 1) /\ k - 1 \in 0 .. n /\ k \in 0 .. n
      BY <1>1
    <3>2. Totals(u)[m + k] = Plus(Totals(u)[m + (k - 1)], t[k])
      BY <1>2, <1>3, <3>1
    <3>3. Totals(u)[m + (k - 1)] = Plus(Totals(s)[m], Totals(t)[k - 1])
      BY <2>2
    <3>4. Totals(s)[m] \in Share /\ Totals(t)[k - 1] \in Share /\ t[k] \in Share
      <4>1. t[k] \in Share
        BY DEF n
      <4>2. m \in 0 .. m /\ k - 1 \in 0 .. n
        BY <1>1, <3>1
      <4>3. Totals(s)[m] \in Share
        BY <1>3, <4>2
      <4>4. Totals(t)[k - 1] \in Share
        BY <1>3, <4>2
      <4> QED BY <4>1, <4>3, <4>4
    <3>5. Totals(u)[m + k] = Plus(Totals(s)[m], Totals(t)[k])
      <4> DEFINE a == Totals(s)[m]
                 b == Totals(t)[k - 1]
                 c == t[k]
      <4>1. Totals(u)[m + k] = Plus(Plus(a, b), c) /\ Totals(t)[k] = Plus(b, c)
        BY <1>3, <3>2, <3>3
      <4>2. a \in Share /\ b \in Share /\ c \in Share
        BY <3>4
      <4> HIDE DEF a, b, c
      <4>3. Plus(Plus(a, b), c) = Plus(a, Plus(b, c))
        BY <4>2, PlusOfShares
      <4> QED BY <4>1, <4>3 DEF a
    <3> QED BY <3>1, <3>5
  <2>3. 0 .. n \subseteq S
    <3> HIDE DEF S
    <3> QED BY <1>1, <2>1, <2>2, CountingUp
  <2> QED BY <1>1, <2>3
<1> QED BY <1>1, <1>5 DEF Total, m, n, u

(* The total of weighted shares is the weighted total.                     *)
LEMMA TotalOfWeighted ==
  ASSUME NEW s \in Seq(Share), NEW w \in Share
  PROVE  /\ Weighted(w, s) \in Seq(Share) /\ Len(Weighted(w, s)) = Len(s)
         /\ SameShare(Total(Weighted(w, s)), Times(w, Total(s)))
<1> DEFINE n == Len(s)
           v == Weighted(w, s)
<1>1. n \in Nat /\ DOMAIN s = 1 .. n /\ \A k \in 1 .. n : s[k] \in Share
  OBVIOUS
<1>2. DOMAIN v = 1 .. n /\ \A k \in 1 .. n : v[k] = Times(w, s[k]) /\ v[k] \in Share
  BY <1>1, TimesOfShares DEF Weighted
<1>3. v = [k \in 1 .. n |-> v[k]]
  BY <1>1 DEF Weighted
<1> HIDE DEF n, v
<1>4. v \in Seq(Share) /\ Len(v) = n
  BY <1>1, <1>2, <1>3
<1>5. /\ Totals(s)[0] = <<0, 1>> /\ Totals(v)[0] = <<0, 1>>
      /\ \A k \in 1 .. n : Totals(s)[k] = Plus(Totals(s)[k - 1], s[k]) /\ Totals(v)[k] = Plus(Totals(v)[k - 1], v[k])
      /\ \A k \in 0 .. n : Totals(s)[k] \in Share /\ Totals(v)[k] \in Share
  BY <1>4, TotalsUnfold DEF n
<1> DEFINE S == {k \in 0 .. n : SameShare(Totals(v)[k], Times(w, Totals(s)[k]))}
<1>6. 0 \in S
  <2>1. SameShare(<<0, 1>>, Times(w, <<0, 1>>))
    <3>1. w[1] \in Int /\ w[2] \in Int
      BY DEF Share
    <3> QED BY <3>1 DEF SameShare, Times
  <2>2. 0 \in 0 .. n
    BY <1>1
  <2> QED BY <1>5, <2>1, <2>2
<1>7. ASSUME NEW k \in 1 .. n, k - 1 \in S PROVE k \in S
  <2> DEFINE a == Totals(v)[k - 1]
             b == Totals(s)[k - 1]
  <2>1. k \in 0 .. n /\ k - 1 \in 0 .. n
    BY <1>1
  <2>2. a \in Share /\ b \in Share /\ s[k] \in Share /\ SameShare(a, Times(w, b))
    BY <1>1, <1>5, <1>7, <2>1
  <2>3. Totals(v)[k] = Plus(a, Times(w, s[k])) /\ Totals(s)[k] = Plus(b, s[k])
    BY <1>2, <1>5
  <2> HIDE DEF a, b
  <2> DEFINE x == Times(w, s[k])
             y == Times(w, b)
             z == Times(w, Plus(b, s[k]))
  <2>4. x \in Share /\ y \in Share /\ z \in Share /\ SameShare(Plus(y, x), z)
    BY <2>2, PlusOfShares, TimesOfShares
  <2> HIDE DEF x, y, z
  <2>5. SameShare(Plus(a, x), Plus(y, x))
    BY <2>2, <2>4, SameShareIsAnEquality, EqualsForEquals DEF y
  <2>6. Plus(a, x) \in Share /\ Plus(y, x) \in Share
    BY <2>2, <2>4, PlusOfShares
  <2>7. SameShare(Plus(a, x), z)
    BY <2>4, <2>5, <2>6, SameShareIsAnEquality
  <2> QED BY <2>1, <2>3, <2>7 DEF x, z
<1>8. 0 .. n \subseteq S
  <2> HIDE DEF S
  <2> QED BY <1>1, <1>6, <1>7, CountingUp
<1>9. SameShare(Totals(v)[n], Times(w, Totals(s)[n]))
  BY <1>1, <1>8
<1> QED BY <1>4, <1>9 DEF Total, n, v

(* Numbers as fractions, and their running totals.                         *)
AsShares(w) == [j \in DOMAIN w |-> <<w[j], 1>>]

RunsUp(total, w) ==
  /\ total[0] = <<0, 1>>
  /\ \A k \in 1 .. Len(w) : total[k] = <<total[k - 1][1] + w[k], 1>>
  /\ \A k \in 0 .. Len(w) : total[k][1] \in Nat /\ total[k][2] = 1
  /\ Len(w) # 0 => total[Len(w)][1] # 0

(* The totals of numbers are their running sums.                           *)
LEMMA WeightsAddUp ==
  ASSUME NEW w \in Seq(Nat \ {0})
  PROVE  RunsUp(Totals(AsShares(w)), w)
<1> DEFINE n == Len(w)
           s == AsShares(w)
           total == Totals(s)
<1>1. n \in Nat /\ \A k \in 1 .. n : w[k] \in Nat \ {0}
  OBVIOUS
<1>2. DOMAIN s = 1 .. n /\ s = [k \in 1 .. n |-> s[k]] /\ \A k \in 1 .. n : s[k] = <<w[k], 1>> /\ s[k] \in Share
  BY <1>1 DEF AsShares, Share
<1> HIDE DEF n, s
<1>3. s \in Seq(Share) /\ Len(s) = n
  BY <1>1, <1>2
<1>4. total[0] = <<0, 1>> /\ \A k \in 1 .. n : total[k] = Plus(total[k - 1], s[k])
  BY <1>3, TotalsUnfold
<1> DEFINE S == {k \in 0 .. n : total[k][1] \in Nat /\ total[k][2] = 1}
<1> HIDE DEF total
<1>5. 0 \in S
  BY <1>1, <1>4
<1>6. ASSUME NEW k \in 1 .. n, total[k - 1][1] \in Nat, total[k - 1][2] = 1
      PROVE total[k] = <<total[k - 1][1] + w[k], 1>>
  BY <1>1, <1>2, <1>4, <1>6, SMTT(30) DEF Plus
<1>7. ASSUME NEW k \in 1 .. n, k - 1 \in S PROVE k \in S
  <2>1. total[k] = <<total[k - 1][1] + w[k], 1>> /\ total[k - 1][1] + w[k] \in Nat /\ k \in 0 .. n
    BY <1>1, <1>6, <1>7, SMTT(30)
  <2> QED BY <2>1
<1>8. 0 .. n \subseteq S
  <2> HIDE DEF S
  <2> QED BY <1>1, <1>5, <1>7, CountingUp
<1>9. \A k \in 1 .. n : total[k] = <<total[k - 1][1] + w[k], 1>>
  <2> TAKE k \in 1 .. n
  <2>1. k - 1 \in 0 .. n
    BY <1>1
  <2> QED BY <1>6, <1>8, <2>1
<1>10. n # 0 => total[n][1] # 0
  <2> SUFFICES ASSUME n # 0 PROVE total[n][1] # 0
    OBVIOUS
  <2>1. n \in 1 .. n /\ n - 1 \in 0 .. n
    BY <1>1
  <2>2. total[n][1] = total[n - 1][1] + w[n] /\ total[n - 1][1] \in Nat /\ w[n] \in Nat \ {0}
    BY <1>1, <1>8, <1>9, <2>1
  <2> QED BY <2>2
<1> QED BY <1>4, <1>8, <1>9, <1>10 DEF total, s, n, RunsUp

(* What each member of an ensemble counts for.                             *)
WeightOf(r, k) == IF r.weights = Equal THEN 1 ELSE r.weights[k]

(* Running sums of weights, and weights over the last of them.             *)
AddUp(r, sum) ==
  LET n == Len(r.models)
  IN /\ sum[0] = 0 /\ sum[n] # 0
     /\ \A k \in 0 .. n : sum[k] \in Nat
     /\ \A k \in 1 .. n : /\ WeightOf(r, k) \in Nat \ {0}
                          /\ sum[k] = sum[k - 1] + WeightOf(r, k)
                          /\ NormalizedWeight(r, k) = <<WeightOf(r, k), sum[n]>>

(* Normalized weights are the weights over the sum of them.                *)
LEMMA NormalizedWeightsAddUp ==
  ASSUME NEW r \in RecipeSet, r.kind = "ensemble", IsRecipe(r)
  PROVE  \E sum : AddUp(r, sum)
<1> DEFINE n == Len(r.models)
           w == [k \in 1 .. n |-> WeightOf(r, k)]
           total == Totals(AsShares(w))
           sum == [k \in 0 .. n |-> total[k][1]]
<1>1. /\ r.models \in Seq(RecipeSet) /\ r.weights \in Seq(Int) /\ n >= 2 /\ n \in Nat
      /\ r.weights # Equal => Len(r.weights) = n /\ \A k \in DOMAIN r.weights : r.weights[k] > 0
  BY RecipeAssumption DEF IsRecipe
<1> HIDE DEF n
<1>2. \A k \in 1 .. n : WeightOf(r, k) \in Nat \ {0}
  <2>1. ASSUME r.weights # Equal, NEW k \in 1 .. n PROVE r.weights[k] \in Nat \ {0}
    <3>1. k \in DOMAIN r.weights /\ r.weights[k] \in Int
      BY <1>1, <2>1
    <3> QED BY <1>1, <2>1, <3>1
  <2> QED BY <2>1 DEF WeightOf
<1>3. w \in Seq(Nat \ {0}) /\ Len(w) = n
  BY <1>1, <1>2
<1>4. \A k \in 1 .. n : w[k] = WeightOf(r, k)
  OBVIOUS
<1> HIDE DEF w
<1>5. /\ total[0] = <<0, 1>>
      /\ \A k \in 1 .. n : total[k] = <<total[k - 1][1] + w[k], 1>>
      /\ \A k \in 0 .. n : total[k][1] \in Nat /\ total[k][2] = 1
      /\ total[n][1] # 0
  <2>1. RunsUp(total, w)
    BY <1>3, WeightsAddUp
  <2>2. n # 0
    BY <1>1
  <2> HIDE DEF total
  <2> QED BY <1>3, <2>1, <2>2 DEF RunsUp
<1>6. \A k \in 1 .. n : NormalizedWeight(r, k) = <<WeightOf(r, k), total[n][1]>>
  <2>1. CASE r.weights = Equal
    <3> DEFINE S == {k \in 0 .. n : total[k][1] = k}
    <3>1. 0 \in S
      BY <1>1, <1>5
    <3>2. ASSUME NEW k \in 1 .. n, k - 1 \in S PROVE k \in S
      <4>1. w[k] = 1 /\ total[k][1] = total[k - 1][1] + w[k]
        BY <1>4, <1>5, <2>1 DEF WeightOf
      <4>2. total[k - 1][1] = k - 1
        BY <3>2
      <4> HIDE DEF total
      <4> QED BY <4>1, <4>2
    <3>3. 0 .. n \subseteq S
      <4> HIDE DEF S
      <4> QED BY <1>1, <3>1, <3>2, CountingUp
    <3>4. total[n][1] = n
      BY <1>1, <3>3
    <3> QED BY <2>1, <3>4 DEF NormalizedWeight, WeightOf, n
  <2>2. CASE r.weights # Equal
    <3>1. AsShares(w) = [j \in DOMAIN r.weights |-> <<r.weights[j], 1>>]
      <4>1. DOMAIN r.weights = 1 .. n /\ DOMAIN w = 1 .. n /\ \A k \in 1 .. n : w[k] = r.weights[k]
        BY <1>1, <1>3, <1>4, <2>2 DEF WeightOf
      <4> QED BY <4>1 DEF AsShares
    <3>2. Total([j \in DOMAIN r.weights |-> <<r.weights[j], 1>>]) = total[n]
      <4>1. Len(AsShares(w)) = n
        <5>1. DOMAIN w = 1 .. n
          BY <1>3
        <5> QED BY <1>1, <5>1 DEF AsShares
      <4> QED BY <3>1, <4>1 DEF Total
    <3> DEFINE found == total[n]
    <3>3. found[2] = 1
      BY <1>1, <1>5
    <3>4. \A k \in 1 .. n : WeightOf(r, k) = r.weights[k] /\ r.weights[k] * 1 = r.weights[k]
      BY <1>2, <2>2 DEF WeightOf
    <3> HIDE DEF found
    <3>5. \A k \in 1 .. n : NormalizedWeight(r, k) = <<r.weights[k] * found[2], found[1]>>
      BY <2>2, <3>2 DEF NormalizedWeight, found
    <3> QED BY <3>3, <3>4, <3>5 DEF found
  <2> QED BY <2>1, <2>2
<1> HIDE DEF total
<1>7. AddUp(r, sum)
  <2>1. 0 \in 0 .. n /\ n \in 0 .. n /\ \A k \in 1 .. n : k \in 0 .. n /\ k - 1 \in 0 .. n
    BY <1>1
  <2>2. sum[0] = 0 /\ sum[n] = total[n][1] /\ sum[n] # 0
    BY <1>5, <2>1
  <2>3. \A k \in 0 .. n : sum[k] \in Nat /\ sum[k] = total[k][1]
    BY <1>5
  <2>4. \A k \in 1 .. n : sum[k] = sum[k - 1] + WeightOf(r, k)
    <3> TAKE k \in 1 .. n
    <3>1. total[k][1] = total[k - 1][1] + WeightOf(r, k)
      BY <1>4, <1>5
    <3> QED BY <2>1, <3>1
  <2> HIDE DEF sum
  <2> QED BY <1>2, <1>6, <2>2, <2>3, <2>4 DEF AddUp, n
<1> QED BY <1>7

(* The first lists of a list of lists, joined.                             *)
JoinedOf(seqs, k) == FlattenSeq([j \in 1 .. k |-> seqs[j]])

(* One list more is joined to what is joined of those before it.           *)
LEMMA JoinedUnfolds ==
  ASSUME NEW X, NEW seqs \in Seq(Seq(X))
  PROVE  /\ JoinedOf(seqs, 0) = <<>>
         /\ \A k \in 1 .. Len(seqs) : JoinedOf(seqs, k) = JoinedOf(seqs, k - 1) \o seqs[k]
         /\ \A k \in 0 .. Len(seqs) : JoinedOf(seqs, k) \in Seq(X)
         /\ JoinedOf(seqs, Len(seqs)) = FlattenSeq(seqs)
<1> DEFINE n == Len(seqs)
<1>1. n \in Nat /\ (\A k \in 1 .. n : seqs[k] \in Seq(X)) /\ seqs = [j \in 1 .. n |-> seqs[j]]
  OBVIOUS
<1>2. JoinedOf(seqs, 0) = <<>>
  <2> DEFINE none == [j \in 1 .. 0 |-> seqs[j]]
  <2>1. none = <<>> /\ Len(none) = 0
    OBVIOUS
  <2> HIDE DEF none
  <2>2. FlattenSeq(none) = none
    BY <2>1 DEF FlattenSeq
  <2> QED BY <2>1, <2>2 DEF JoinedOf, none
<1>3. JoinedOf(seqs, n) = FlattenSeq(seqs)
  BY <1>1 DEF JoinedOf
<1> HIDE DEF n
<1>4. ASSUME NEW k \in 1 .. n
      PROVE \E f : JoinedOf(seqs, k) = f[k] /\ \A j \in 1 .. k : f[j] = JoinedFrom(seqs, f, j)
  <2> DEFINE first == [j \in 1 .. k |-> seqs[j]]
  <2>1. first \in Seq(Seq(X)) /\ Len(first) = k /\ k # 0 /\ \A j \in 1 .. k : first[j] = seqs[j]
    <3>1. k \in Nat /\ k # 0 /\ \A j \in 1 .. k : seqs[j] \in Seq(X)
      BY <1>1
    <3> QED BY <3>1
  <2>2. JoinedOf(seqs, k) = FlattenSeq(first)
    BY DEF JoinedOf
  <2> HIDE DEF first
  <2>3. PICK f : FlattenSeq(first) = f[Len(first)] /\ \A j \in 1 .. Len(first) : f[j] = JoinedFrom(first, f, j)
    BY <2>1, FlattenUnfolds
  <2>4. \A j \in 1 .. k : f[j] = JoinedFrom(seqs, f, j)
    BY <2>1, <2>3 DEF JoinedFrom
  <2> QED BY <2>1, <2>2, <2>3, <2>4
<1>5. ASSUME NEW k \in 1 .. n PROVE JoinedOf(seqs, k) = JoinedOf(seqs, k - 1) \o seqs[k]
  <2>1. PICK f : JoinedOf(seqs, k) = f[k] /\ \A j \in 1 .. k : f[j] = JoinedFrom(seqs, f, j)
    BY <1>4
  <2>2. CASE k = 1
    <3>1. f[k] = seqs[k] /\ seqs[k] \in Seq(X)
      <4>1. k \in 1 .. k
        BY <2>2
      <4> QED BY <1>1, <2>1, <2>2, <4>1 DEF JoinedFrom
    <3>2. \A s \in Seq(X) : <<>> \o s = s
      OBVIOUS
    <3>3. k - 1 = 0
      BY <2>2
    <3> QED BY <1>2, <2>1, <3>1, <3>2, <3>3
  <2>3. CASE k # 1
    <3>1. k - 1 \in 1 .. n /\ k - 1 \in 1 .. k /\ k - 1 \in Nat /\ k \in 1 .. k
      BY <1>1, <2>3
    <3>2. PICK g : JoinedOf(seqs, k - 1) = g[k - 1] /\ \A j \in 1 .. k - 1 : g[j] = JoinedFrom(seqs, g, j)
      BY <1>4, <3>1
    <3> DEFINE S == {j \in 0 .. k - 1 : j # 0 => f[j] = g[j]}
    <3>3. 0 \in S
      BY <3>1
    <3>4. ASSUME NEW j \in 1 .. k - 1, j - 1 \in S PROVE j \in S
      <4>1. j \in 1 .. k /\ (j # 1 => f[j - 1] = g[j - 1]) /\ j \in 0 .. k - 1
        BY <3>1, <3>4
      <4>2. f[j] = JoinedFrom(seqs, f, j) /\ g[j] = JoinedFrom(seqs, g, j)
        BY <2>1, <3>2, <4>1
      <4> QED BY <4>1, <4>2 DEF JoinedFrom
    <3>5. 0 .. k - 1 \subseteq S
      <4> HIDE DEF S
      <4> QED BY <3>1, <3>3, <3>4, CountingUp
    <3>6. f[k - 1] = g[k - 1]
      BY <3>1, <3>5
    <3>7. f[k] = f[k - 1] \o seqs[k]
      BY <2>1, <2>3, <3>1 DEF JoinedFrom
    <3> QED BY <2>1, <3>2, <3>6, <3>7
  <2> QED BY <2>2, <2>3
<1> DEFINE S == {k \in 0 .. n : JoinedOf(seqs, k) \in Seq(X)}
<1>6. 0 \in S
  <2>1. 0 \in 0 .. n /\ <<>> \in Seq(X)
    BY <1>1
  <2> QED BY <1>2, <2>1
<1>7. ASSUME NEW k \in 1 .. n, k - 1 \in S PROVE k \in S
  <2>1. k \in 0 .. n /\ JoinedOf(seqs, k - 1) \in Seq(X) /\ seqs[k] \in Seq(X)
    BY <1>1, <1>7
  <2>2. \A s, t \in Seq(X) : s \o t \in Seq(X)
    OBVIOUS
  <2> QED BY <1>5, <2>1, <2>2
<1>8. 0 .. n \subseteq S
  <2> HIDE DEF S
  <2> QED BY <1>1, <1>6, <1>7, CountingUp
<1> QED BY <1>2, <1>3, <1>5, <1>8 DEF n

(* Three lists are joined from either end.                                 *)
FromEitherEnd(X) == \A s, t, u \in Seq(X) : (s \o t) \o u = s \o (t \o u)

(* Whatever they are of.                                                   *)
LEMMA JoinedFromEitherEnd == \A X : FromEitherEnd(X)
BY ConcatAssociative DEF FromEitherEnd

(* The middle one of three lists is between the ends of the first two.     *)
LEMMA PartBetween ==
  ASSUME NEW X, NEW s \in Seq(X), NEW t \in Seq(X), NEW u \in Seq(X)
  PROVE  SubSeq((s \o t) \o u, Len(s) + 1, Len(s \o t)) = t
<1> DEFINE w == (s \o t) \o u
<1>1. /\ Len(s) \in Nat /\ Len(t) \in Nat /\ Len(u) \in Nat /\ Len(s \o t) = Len(s) + Len(t)
      /\ w \in Seq(X) /\ Len(w) = (Len(s) + Len(t)) + Len(u)
  OBVIOUS
<1>2. \A j \in 1 .. Len(t) : w[Len(s) + j] = t[j]
  OBVIOUS
<1> DEFINE a == Len(s)
           b == Len(t)
<1> HIDE DEF w, a, b
<1>3. /\ a \in Nat /\ b \in Nat /\ w \in Seq(X) /\ a + b <= Len(w)
      /\ DOMAIN t = 1 .. b /\ t = [j \in 1 .. b |-> t[j]] /\ \A j \in 1 .. b : w[a + j] = t[j]
  BY <1>1, <1>2 DEF a, b
<1> DEFINE c == SubSeq(w, a + 1, a + b)
<1>4. /\ c \in Seq(X)
      /\ Len(c) = IF a + 1 <= a + b THEN (a + b) - (a + 1) + 1 ELSE 0
      /\ \A j \in 1 .. (a + b) - (a + 1) + 1 : c[j] = w[(a + 1) + j - 1]
  <2>1. \A j \in a + 1 .. a + b : w[j] \in X
    BY <1>3
  <2>2. a + 1 \in Int /\ a + b \in Int
    BY <1>3
  <2> QED BY <2>1, <2>2, SubSeqProperties, SMTT(60)
<1> HIDE DEF c
<1>5. (a + b) - (a + 1) + 1 = b /\ (a + 1 <= a + b <=> b # 0) /\ \A j \in 1 .. b : (a + 1) + j - 1 = a + j
  BY <1>3
<1>6. Len(c) = b /\ \A j \in 1 .. b : c[j] = t[j]
  BY <1>3, <1>4, <1>5
<1>7. c = t
  BY <1>3, <1>4, <1>6
<1> USE DEF c
<1> QED BY <1>1, <1>7 DEF a, b, w

(* Each of the lists is found where those before it end.                   *)
LEMMA PartOfJoined ==
  ASSUME NEW X, NEW seqs \in Seq(Seq(X)), NEW k \in 1 .. Len(seqs)
  PROVE  SubSeq(FlattenSeq(seqs), Len(JoinedOf(seqs, k - 1)) + 1, Len(JoinedOf(seqs, k))) = seqs[k]
<1> DEFINE n == Len(seqs)
           to(j) == JoinedOf(seqs, j)
<1>0. FromEitherEnd(X)
  BY JoinedFromEitherEnd
<1>1. n \in Nat /\ seqs[k] \in Seq(X) /\ \A j \in 1 .. n : seqs[j] \in Seq(X)
  OBVIOUS
<1>2. /\ \A j \in 1 .. n : to(j) = to(j - 1) \o seqs[j]
      /\ \A j \in 0 .. n : to(j) \in Seq(X)
      /\ to(n) = FlattenSeq(seqs)
  BY JoinedUnfolds
<1> HIDE DEF n, to
<1> DEFINE After(j) == \E rest \in Seq(X) : to(j) = to(k) \o rest
           S == {j \in 0 .. n : j >= k => After(j)}
<1>3. k \in 1 .. n /\ k \in 0 .. n /\ k - 1 \in 0 .. n /\ n >= k
  BY <1>1 DEF n
<1>4. 0 \in S
  <2>1. 0 \in 0 .. n /\ ~(0 >= k)
    BY <1>1, <1>3
  <2> QED BY <2>1
<1>5. ASSUME NEW j \in 1 .. n, j - 1 \in S PROVE j \in S
  <2>1. j \in 0 .. n /\ to(k) \in Seq(X) /\ seqs[j] \in Seq(X)
    BY <1>1, <1>2, <1>3
  <2>2. CASE j = k
    <3>1. <<>> \in Seq(X) /\ \A s \in Seq(X) : s = s \o <<>>
      OBVIOUS
    <3>2. to(j) = to(k) \o <<>>
      BY <2>1, <2>2, <3>1
    <3>3. After(j)
      BY <3>1, <3>2
    <3> QED BY <2>1, <3>3
  <2>3. CASE j > k
    <3>1. j - 1 >= k
      BY <1>3, <2>3
    <3>2. PICK rest \in Seq(X) : to(j - 1) = to(k) \o rest
      BY <1>5, <3>1
    <3> DEFINE a == to(k)
               b == seqs[j]
    <3>3. a \in Seq(X) /\ b \in Seq(X) /\ to(j) = (a \o rest) \o b
      BY <1>2, <2>1, <3>2
    <3> HIDE DEF a, b
    <3>4. (a \o rest) \o b = a \o (rest \o b) /\ rest \o b \in Seq(X)
      <4>1. \A s, t \in Seq(X) : s \o t \in Seq(X)
        OBVIOUS
      <4>2. (a \o rest) \o b = a \o (rest \o b)
        BY <1>0, <3>3 DEF FromEitherEnd
      <4> QED BY <3>3, <4>1, <4>2
    <3>5. After(j)
      BY <3>3, <3>4 DEF a
    <3> QED BY <2>1, <3>5
  <2>4. CASE j < k
    <3>1. ~(j >= k)
      BY <1>3, <2>4
    <3> QED BY <2>1, <3>1
  <2>5. j \in Int /\ k \in Int
    OBVIOUS
  <2>6. j = k \/ j > k \/ j < k
    BY <2>5
  <2> QED BY <2>2, <2>3, <2>4, <2>6
<1>6. 0 .. n \subseteq S
  <2> HIDE DEF S
  <2> QED BY <1>1, <1>4, <1>5, CountingUp
<1>7. PICK rest \in Seq(X) : to(n) = to(k) \o rest
  <2>1. n \in 0 .. n
    BY <1>1
  <2>2. n \in S
    <3> HIDE DEF S
    <3> QED BY <1>6, <2>1
  <2> QED BY <1>3, <2>2
<1>8. to(k) = to(k - 1) \o seqs[k] /\ to(k - 1) \in Seq(X)
  BY <1>2, <1>3
<1>9. \A p, q, r \in Seq(X) : SubSeq((p \o q) \o r, Len(p) + 1, Len(p \o q)) = q
  BY PartBetween
<1> DEFINE a == to(k - 1)
           b == seqs[k]
<1>10. a \in Seq(X) /\ b \in Seq(X) /\ FlattenSeq(seqs) = (a \o b) \o rest /\ to(k) = a \o b
  BY <1>1, <1>2, <1>7, <1>8
<1> HIDE DEF a, b
<1>11. SubSeq((a \o b) \o rest, Len(a) + 1, Len(a \o b)) = b
  BY <1>9, <1>10
<1>12. SubSeq(FlattenSeq(seqs), Len(a) + 1, Len(to(k))) = b
  BY <1>10, <1>11
<1> QED BY <1>12 DEF a, b, to

(* Lists of the same lengths end at the same places.                       *)
LEMMA SameEnds ==
  ASSUME NEW X, NEW s \in Seq(Seq(X)), NEW Y, NEW t \in Seq(Seq(Y)), Len(s) = Len(t),
         \A k \in 1 .. Len(s) : Len(s[k]) = Len(t[k])
  PROVE  \A k \in 0 .. Len(s) : Len(JoinedOf(s, k)) = Len(JoinedOf(t, k))
<1> DEFINE n == Len(s)
           S == {k \in 0 .. n : Len(JoinedOf(s, k)) = Len(JoinedOf(t, k))}
<1>1. n \in Nat /\ \A k \in 1 .. n : s[k] \in Seq(X) /\ t[k] \in Seq(Y) /\ Len(s[k]) = Len(t[k])
  OBVIOUS
<1>2. /\ JoinedOf(s, 0) = <<>> /\ JoinedOf(t, 0) = <<>>
      /\ \A k \in 1 .. n : JoinedOf(s, k) = JoinedOf(s, k - 1) \o s[k] /\ JoinedOf(t, k) = JoinedOf(t, k - 1) \o t[k]
      /\ \A k \in 0 .. n : JoinedOf(s, k) \in Seq(X) /\ JoinedOf(t, k) \in Seq(Y)
  BY JoinedUnfolds
<1> HIDE DEF n
<1>3. 0 \in S
  BY <1>1, <1>2
<1>4. ASSUME NEW k \in 1 .. n, k - 1 \in S PROVE k \in S
  <2> DEFINE a == JoinedOf(s, k - 1)
             b == JoinedOf(t, k - 1)
  <2>1. k \in 0 .. n /\ k - 1 \in 0 .. n /\ Len(a) = Len(b)
    BY <1>1, <1>4
  <2>2. a \in Seq(X) /\ b \in Seq(Y) /\ JoinedOf(s, k) = a \o s[k] /\ JoinedOf(t, k) = b \o t[k]
    BY <1>2, <2>1
  <2> HIDE DEF a, b
  <2>3. Len(a \o s[k]) = Len(a) + Len(s[k]) /\ Len(b \o t[k]) = Len(b) + Len(t[k])
    BY <1>1, <2>2
  <2>4. Len(JoinedOf(s, k)) = Len(JoinedOf(t, k))
    BY <1>1, <2>1, <2>2, <2>3
  <2> QED BY <2>1, <2>4
<1>5. 0 .. n \subseteq S
  <2> HIDE DEF S
  <2> QED BY <1>1, <1>3, <1>4, CountingUp
<1> QED BY <1>5 DEF n

(* What the models of a recipe contribute depends on what those of its     *)
(* members do.                                                             *)
LEMMA SharesAreOfTheMembers == Local("shares")
<1> SUFFICES ASSUME NEW r \in RecipeSet, NEW f, NEW g, \A m \in MembersOf(r) : f[m] = g[m]
             PROVE  SharesFrom(f, r) = SharesFrom(g, r)
  BY DEF Local, Step
<1>1. CASE r.kind \in {"model", "reduction"}
  BY <1>1 DEF SharesFrom
<1>2. CASE r.kind = "pipeline"
  <2>1. f[r.estimator] = g[r.estimator]
    BY <1>2 DEF MembersOf
  <2> QED BY <1>2, <2>1 DEF SharesFrom
<1>3. CASE r.kind = "ensemble"
  <2> DEFINE of(h, k) == Weighted(NormalizedWeight(r, k), h[r.models[k]])
  <2>1. \A k \in DOMAIN r.models : of(f, k) = of(g, k)
    BY <1>3 DEF MembersOf
  <2>2. [k \in DOMAIN r.models |-> of(f, k)] = [k \in DOMAIN r.models |-> of(g, k)]
    BY <2>1
  <2> QED BY <1>3, <2>2 DEF SharesFrom
<1> QED BY <1>1, <1>2, <1>3, RecipeAssumption

(* So Shares is a function that exists, and is what its definition says.   *)
LEMMA SharesUnfold == \A r \in RecipeSet : Shares[r] = SharesFrom(Shares, r)
<1>1. \E f : f = [r \in RecipeSet |-> SharesFrom(f, r)]
  BY SharesAreOfTheMembers, Recursion DEF Step
<1>2. Shares = CHOOSE f : f = [r \in RecipeSet |-> SharesFrom(f, r)]
  BY DEF Shares
<1>3. Shares = [r \in RecipeSet |-> SharesFrom(Shares, r)]
  BY <1>1, <1>2
<1> QED BY <1>3

(* The models of a recipe together are the whole of it.                    *)
IsWhole(shares) == shares \in Seq(Share) /\ SameShare(Total(shares), <<1, 1>>)

(* What the models of the members of an ensemble contribute.               *)
PartsOf(r) == [k \in DOMAIN r.models |-> Weighted(NormalizedWeight(r, k), Shares[r.models[k]])]

(* What those of a member contribute together is its normalized weight.    *)
LEMMA MembersFollowTheirWeights ==
  ASSUME NEW r \in RecipeSet, r.kind = "ensemble", NEW sum, AddUp(r, sum),
         \A k \in DOMAIN r.models : IsWhole(Shares[r.models[k]])
  PROVE  LET n == Len(r.models)
         IN /\ PartsOf(r) \in Seq(Seq(Share)) /\ Len(PartsOf(r)) = n
            /\ \A k \in 1 .. n :
                 /\ Len(PartsOf(r)[k]) = Len(Shares[r.models[k]])
                 /\ Total(PartsOf(r)[k]) \in Share
                 /\ SameShare(Total(PartsOf(r)[k]), <<WeightOf(r, k), sum[n]>>)
<1> DEFINE n == Len(r.models)
           N == sum[n]
           parts == PartsOf(r)
<1>1. n \in Nat /\ DOMAIN r.models = 1 .. n
  <2>1. r.models \in Seq(RecipeSet)
    BY RecipeAssumption
  <2> QED BY <2>1
<1>2. /\ N \in Nat \ {0}
      /\ \A k \in 1 .. n : /\ WeightOf(r, k) \in Nat \ {0}
                           /\ NormalizedWeight(r, k) = <<WeightOf(r, k), N>>
  <2>1. n \in 0 .. n
    BY <1>1
  <2> QED BY <2>1 DEF AddUp
<1> HIDE DEF n, N
<1>3. DOMAIN parts = 1 .. n /\ \A k \in 1 .. n : parts[k] = Weighted(<<WeightOf(r, k), N>>, Shares[r.models[k]])
  BY <1>1, <1>2 DEF PartsOf
<1>4. parts = [k \in 1 .. n |-> parts[k]]
  BY <1>1 DEF PartsOf
<1> HIDE DEF parts
<1>5. ASSUME NEW k \in 1 .. n
      PROVE  /\ parts[k] \in Seq(Share) /\ Len(parts[k]) = Len(Shares[r.models[k]])
             /\ Total(parts[k]) \in Share /\ SameShare(Total(parts[k]), <<WeightOf(r, k), N>>)
  <2> DEFINE s == Shares[r.models[k]]
             w == <<WeightOf(r, k), N>>
             one == <<1, 1>>
  <2>1. s \in Seq(Share) /\ SameShare(Total(s), one) /\ w \in Share /\ one \in Share
    BY <1>1, <1>2 DEF IsWhole, Share
  <2>2. parts[k] = Weighted(w, s)
    BY <1>3
  <2>3. Times(w, one) = w
    BY <1>2 DEF Times
  <2> HIDE DEF s, w, one
  <2>4. Weighted(w, s) \in Seq(Share) /\ Len(Weighted(w, s)) = Len(s) /\ SameShare(Total(Weighted(w, s)), Times(w, Total(s)))
    BY <2>1, TotalOfWeighted
  <2>5. \A t \in Seq(Share) : Total(t) \in Share
    <3> TAKE t \in Seq(Share)
    <3>1. Len(t) \in 0 .. Len(t)
      OBVIOUS
    <3> QED BY <3>1, TotalsUnfold DEF Total
  <2> DEFINE a == Total(Weighted(w, s))
             b == Total(s)
  <2>6. a \in Share /\ b \in Share /\ SameShare(a, Times(w, b)) /\ SameShare(b, one) /\ Times(w, b) \in Share
    BY <2>1, <2>4, <2>5, TimesOfShares
  <2> HIDE DEF a, b
  <2>7. SameShare(Times(w, b), Times(w, one))
    BY <2>1, <2>6, SameShareIsAnEquality, EqualsForEquals
  <2>8. SameShare(a, w)
    BY <2>1, <2>3, <2>6, <2>7, SameShareIsAnEquality
  <2> QED BY <2>2, <2>4, <2>6, <2>8 DEF a, s, w
<1>6. parts \in Seq(Seq(Share)) /\ Len(parts) = n
  <2>1. \A k \in 1 .. n : parts[k] \in Seq(Share)
    BY <1>5
  <2> QED BY <1>1, <1>4, <2>1
<1> QED BY <1>5, <1>6 DEF parts, n, N

(* An ensemble of recipes that are whole is whole.                         *)
LEMMA EnsemblesAreWhole ==
  ASSUME NEW r \in RecipeSet, r.kind = "ensemble", IsRecipe(r),
         \A k \in DOMAIN r.models : IsWhole(Shares[r.models[k]])
  PROVE  IsWhole(FlattenSeq(PartsOf(r)))
<1> DEFINE n == Len(r.models)
           parts == PartsOf(r)
<1>1. PICK sum : AddUp(r, sum)
  BY NormalizedWeightsAddUp
<1> DEFINE N == sum[n]
           to(k) == JoinedOf(parts, k)
<1>2. /\ parts \in Seq(Seq(Share)) /\ Len(parts) = n
      /\ \A k \in 1 .. n : Total(parts[k]) \in Share /\ SameShare(Total(parts[k]), <<WeightOf(r, k), N>>)
  BY <1>1, MembersFollowTheirWeights
<1>3. n \in Nat /\ \A k \in 1 .. n : parts[k] \in Seq(Share)
  BY <1>2
<1>4. /\ sum[0] = 0 /\ N # 0 /\ N \in Nat
      /\ \A k \in 0 .. n : sum[k] \in Nat
      /\ \A k \in 1 .. n : WeightOf(r, k) \in Nat \ {0} /\ sum[k] = sum[k - 1] + WeightOf(r, k)
  <2>1. n \in 0 .. n
    BY <1>3
  <2> QED BY <1>1, <2>1 DEF AddUp
<1> HIDE DEF n, parts
<1>5. /\ to(0) = <<>> /\ to(n) = FlattenSeq(parts)
      /\ \A k \in 1 .. n : to(k) = to(k - 1) \o parts[k]
      /\ \A k \in 0 .. n : to(k) \in Seq(Share)
  BY <1>2, JoinedUnfolds
<1> HIDE DEF N, to
<1>6. \A t \in Seq(Share) : Total(t) \in Share
  <2> TAKE t \in Seq(Share)
  <2>1. Len(t) \in 0 .. Len(t)
    OBVIOUS
  <2> QED BY <2>1, TotalsUnfold DEF Total
<1> DEFINE S == {k \in 0 .. n : SameShare(Total(to(k)), <<sum[k], N>>)}
<1>7. 0 \in S
  <2>1. Total(<<>>) = <<0, 1>>
    <3>1. <<>> \in Seq(Share) /\ Len(<<>>) = 0
      OBVIOUS
    <3> QED BY <3>1, TotalsUnfold DEF Total
  <2>2. 0 \in 0 .. n
    BY <1>3
  <2>3. SameShare(<<0, 1>>, <<0, N>>)
    BY <1>4 DEF SameShare
  <2> QED BY <1>4, <1>5, <2>1, <2>2, <2>3
<1>8. ASSUME NEW k \in 1 .. n, k - 1 \in S PROVE k \in S
  <2>1. k \in 0 .. n /\ k - 1 \in 0 .. n
    BY <1>3
  <2> DEFINE a == Total(to(k - 1))
             b == Total(parts[k])
             x == <<sum[k - 1], N>>
             y == <<WeightOf(r, k), N>>
             z == <<sum[k], N>>
  <2>2. a \in Share /\ b \in Share /\ x \in Share /\ y \in Share /\ z \in Share
    <3>1. a \in Share /\ b \in Share
      BY <1>2, <1>5, <1>6, <2>1
    <3>2. \A m \in Nat : <<m, N>> \in Share
      BY <1>4 DEF Share
    <3>3. sum[k - 1] \in Nat /\ WeightOf(r, k) \in Nat /\ sum[k] \in Nat
      BY <1>4, <2>1
    <3> QED BY <3>1, <3>2, <3>3
  <2>3. SameShare(a, x) /\ SameShare(b, y)
    BY <1>2, <1>8
  <2>4. Total(to(k)) = Plus(a, b)
    <3>1. to(k - 1) \in Seq(Share) /\ parts[k] \in Seq(Share)
      BY <1>3, <1>5, <2>1
    <3> QED BY <1>5, <3>1, TotalOfJoined
  <2>5. SameShare(Plus(x, y), z)
    <3> DEFINE p == sum[k - 1]
               q == WeightOf(r, k)
    <3>1. p \in Int /\ q \in Int /\ N \in Int /\ sum[k] = p + q
      BY <1>4, <2>1
    <3>2. Plus(x, y) = <<p * N + q * N, N * N>>
      BY DEF Plus
    <3> HIDE DEF p, q
    <3>3. (p * N + q * N) * N = (p + q) * (N * N)
      BY <3>1
    <3> QED BY <3>1, <3>2, <3>3 DEF SameShare
  <2> HIDE DEF a, b, x, y, z
  <2>6. SameShare(Plus(a, b), Plus(x, y)) /\ Plus(a, b) \in Share /\ Plus(x, y) \in Share
    BY <2>2, <2>3, EqualsForEquals, PlusOfShares
  <2>7. SameShare(Plus(a, b), z)
    BY <2>2, <2>5, <2>6, SameShareIsAnEquality
  <2> QED BY <2>1, <2>4, <2>7 DEF z
<1>9. 0 .. n \subseteq S
  <2> HIDE DEF S
  <2> QED BY <1>3, <1>7, <1>8, CountingUp
<1>10. n \in 0 .. n
  BY <1>3
<1> DEFINE a == Total(to(n))
           x == <<N, N>>
           one == <<1, 1>>
<1>11. a \in Share /\ x \in Share /\ one \in Share /\ SameShare(x, one)
  BY <1>4, <1>5, <1>6, <1>10 DEF Share, SameShare
<1>12. SameShare(a, x)
  BY <1>9, <1>10 DEF N
<1> HIDE DEF a, x, one
<1>13. SameShare(a, one)
  BY <1>11, <1>12, SameShareIsAnEquality
<1> QED BY <1>5, <1>10, <1>13 DEF IsWhole, a, one, parts

(* The models of the members of an ensemble.                               *)
LeavesOf(r) == [k \in DOMAIN r.models |-> Leaves[r.models[k]]]

(* They are lists of leaves.                                               *)
LEMMA LeavesOfMembers ==
  ASSUME NEW r \in RecipeSet, r.kind = "ensemble"
  PROVE  \E X : LeavesOf(r) \in Seq(Seq(X)) /\ Len(LeavesOf(r)) = Len(r.models)
<1> DEFINE n == Len(r.models)
           parts == LeavesOf(r)
           X == UNION {{parts[k][j] : j \in DOMAIN parts[k]} : k \in 1 .. n}
<1>1. r.models \in Seq(RecipeSet) /\ n \in Nat /\ DOMAIN r.models = 1 .. n /\ \A k \in 1 .. n : r.models[k] \in RecipeSet
  BY RecipeAssumption
<1> HIDE DEF n
<1>2. parts = [k \in 1 .. n |-> parts[k]] /\ \A k \in 1 .. n : parts[k] = Leaves[r.models[k]]
  BY <1>1 DEF LeavesOf
<1> HIDE DEF parts
<1>3. ASSUME NEW k \in 1 .. n PROVE parts[k] \in Seq(X)
  <2>1. IsChain(parts[k])
    BY <1>1, <1>2, LeavesAreChains, EngineAssumption
  <2>2. PICK Y : parts[k] \in Seq(Y)
    BY <2>1 DEF IsChain
  <2>3. \A j \in DOMAIN parts[k] : parts[k][j] \in X
    OBVIOUS
  <2> HIDE DEF X
  <2> QED BY <2>2, <2>3
<1> HIDE DEF X
<1>4. parts \in Seq(Seq(X)) /\ Len(parts) = n
  BY <1>1, <1>2, <1>3, SMTT(30)
<1> QED BY <1>4 DEF parts, n

IsShared(r) == IsWhole(Shares[r]) /\ Len(Shares[r]) = Len(Leaves[r])

(* What a member contributes is found where its models are.                *)
LEMMA PartsAreWhereLeavesAre ==
  ASSUME NEW r \in RecipeSet, r.kind = "ensemble", \A k \in DOMAIN r.models : IsShared(r.models[k])
  PROVE  \A k \in 0 .. Len(r.models) : Len(JoinedOf(PartsOf(r), k)) = Len(JoinedOf(LeavesOf(r), k))
<1> DEFINE n == Len(r.models)
           parts == PartsOf(r)
           leaves == LeavesOf(r)
<1>1. PICK sum : AddUp(r, sum)
  BY NormalizedWeightsAddUp, EngineAssumption
<1>2. /\ parts \in Seq(Seq(Share)) /\ Len(parts) = n
      /\ \A k \in 1 .. n : Len(parts[k]) = Len(Shares[r.models[k]])
  BY <1>1, MembersFollowTheirWeights DEF IsShared
<1>3. PICK X : leaves \in Seq(Seq(X)) /\ Len(leaves) = n
  BY LeavesOfMembers
<1>4. r.models \in Seq(RecipeSet) /\ DOMAIN r.models = 1 .. n
  BY RecipeAssumption
<1>5. \A k \in 1 .. n : Len(parts[k]) = Len(leaves[k])
  BY <1>2, <1>4 DEF IsShared, LeavesOf
<1> HIDE DEF parts, leaves, n
<1>6. \A k \in 0 .. Len(parts) : Len(JoinedOf(parts, k)) = Len(JoinedOf(leaves, k))
  <2>1. parts \in Seq(Seq(Share)) /\ leaves \in Seq(Seq(X)) /\ Len(parts) = Len(leaves)
    BY <1>2, <1>3
  <2>2. \A k \in 1 .. Len(parts) : Len(parts[k]) = Len(leaves[k])
    BY <1>2, <1>5
  <2> QED BY <2>1, <2>2, SameEnds
<1> QED BY <1>2, <1>6 DEF parts, leaves, n

(* Whatever a recipe is made of, its models are the whole of it.           *)
LEMMA RecipesAreShared ==
  \A r \in RecipeSet : IsShared(r)
<1> DEFINE S == {r \in RecipeSet : ~IsShared(r)}
<1> SUFFICES ASSUME S # {} PROVE FALSE
  OBVIOUS
<1>1. PICK r \in S : MembersOf(r) \cap S = {}
  BY RecipeAssumption
<1>2. /\ r \in RecipeSet /\ Shares[r] = SharesFrom(Shares, r) /\ Leaves[r] = LeavesFrom(Leaves, r)
      /\ \A m \in MembersOf(r) : IsShared(m)
  BY <1>1, RecipeAssumption, SharesUnfold, LeavesUnfold
<1>3. CASE r.kind \in {"model", "reduction"}
  <2> DEFINE one == <<<<1, 1>>>>
             leaf == <<Leaf(r.ref, <<>>)>>
  <2>1. Shares[r] = one /\ Leaves[r] = leaf
    BY <1>2, <1>3 DEF SharesFrom, LeavesFrom
  <2>2. <<1, 1>> \in Share
    BY DEF Share
  <2>3. one \in Seq(Share) /\ Len(one) = 1 /\ one[1] = <<1, 1>> /\ Len(leaf) = 1
    BY <2>2
  <2> HIDE DEF one, leaf
  <2>4. Totals(one)[1] = Plus(Totals(one)[0], one[1]) /\ Totals(one)[0] = <<0, 1>>
    <3>1. 1 \in 1 .. Len(one) /\ 1 - 1 = 0
      BY <2>3
    <3>2. Totals(one)[1] = Plus(Totals(one)[1 - 1], one[1])
      BY <2>3, <3>1, TotalsUnfold
    <3>3. Totals(one)[0] = <<0, 1>>
      BY <2>3, TotalsUnfold
    <3> QED BY <3>1, <3>2, <3>3
  <2>5. Total(one) = <<1, 1>>
    <3>1. Plus(<<0, 1>>, <<1, 1>>) = <<1, 1>>
      BY DEF Plus
    <3> QED BY <2>3, <2>4, <3>1 DEF Total
  <2>6. SameShare(Total(one), <<1, 1>>)
    BY <2>5 DEF SameShare
  <2> QED BY <1>1, <2>1, <2>3, <2>6 DEF IsShared, IsWhole
<1>4. CASE r.kind = "pipeline"
  <2>1. IsShared(r.estimator)
    BY <1>2, <1>4 DEF MembersOf
  <2>2. Shares[r] = Shares[r.estimator]
    BY <1>2, <1>4 DEF SharesFrom
  <2>3. Len(Leaves[r]) = Len(Leaves[r.estimator])
    <3> DEFINE own == Leaves[r.estimator]
    <3>1. r.estimator \in RecipeSet
      BY <1>2, <1>4, RecipeAssumption DEF MembersOf
    <3>2. DOMAIN own = 1 .. Len(own) /\ Len(own) \in Nat
      BY <3>1, ModelsOfARecipe
    <3>3. DOMAIN Leaves[r] = 1 .. Len(Leaves[r]) /\ Len(Leaves[r]) \in Nat
      BY <1>2, ModelsOfARecipe
    <3>4. Leaves[r] = [k \in DOMAIN own |-> Within(r.transforms, own[k])]
      BY <1>2, <1>4 DEF LeavesFrom
    <3>5. DOMAIN Leaves[r] = DOMAIN own
      BY <3>4
    <3> HIDE DEF own
    <3> DEFINE m == Len(own)
               p == Len(Leaves[r])
    <3>6. m \in Nat /\ p \in Nat /\ 1 .. m = 1 .. p
      BY <3>2, <3>3, <3>5
    <3> HIDE DEF m, p
    <3>7. m = p
      BY <3>6
    <3> QED BY <3>7 DEF m, p, own
  <2> QED BY <1>1, <2>1, <2>2, <2>3 DEF IsShared
<1>5. CASE r.kind = "ensemble"
  <2> DEFINE n == Len(r.models)
  <2>1. \A k \in DOMAIN r.models : IsShared(r.models[k])
    BY <1>2, <1>5 DEF MembersOf
  <2>2. Shares[r] = FlattenSeq(PartsOf(r)) /\ Leaves[r] = FlattenSeq(LeavesOf(r))
    BY <1>2, <1>5 DEF SharesFrom, LeavesFrom, PartsOf, LeavesOf
  <2>3. IsWhole(FlattenSeq(PartsOf(r)))
    BY <1>2, <1>5, <2>1, EnsemblesAreWhole, EngineAssumption DEF IsShared
  <2>4. Len(FlattenSeq(PartsOf(r))) = Len(FlattenSeq(LeavesOf(r)))
    <3>1. PICK sum : AddUp(r, sum)
      BY <1>2, <1>5, NormalizedWeightsAddUp, EngineAssumption
    <3>2. PartsOf(r) \in Seq(Seq(Share)) /\ Len(PartsOf(r)) = n
      BY <1>2, <1>5, <2>1, <3>1, MembersFollowTheirWeights DEF IsShared
    <3>3. PICK X : LeavesOf(r) \in Seq(Seq(X)) /\ Len(LeavesOf(r)) = n
      BY <1>2, <1>5, LeavesOfMembers
    <3>4. JoinedOf(PartsOf(r), n) = FlattenSeq(PartsOf(r)) /\ JoinedOf(LeavesOf(r), n) = FlattenSeq(LeavesOf(r))
      BY <3>2, <3>3, JoinedUnfolds
    <3>5. n \in 0 .. n
      BY <3>2
    <3> QED BY <1>2, <1>5, <2>1, <3>4, <3>5, PartsAreWhereLeavesAre
  <2> QED BY <1>1, <2>2, <2>3, <2>4 DEF IsShared
<1> QED BY <1>2, <1>3, <1>4, <1>5, RecipeAssumption

(* What the models of a member contribute, of what all contribute.         *)
ShareOf(shares, r, k) ==
  Total(SubSeq(shares, Len(JoinedOf(LeavesOf(r), k - 1)) + 1, Len(JoinedOf(LeavesOf(r), k))))

(* The members of an ensemble contribute as their weights are.             *)
LEMMA EnsemblesFollow ==
  ASSUME NEW r \in RecipeSet, r.kind = "ensemble", NEW j \in DOMAIN r.models, NEW k \in DOMAIN r.models
  PROVE  SameShare(Times(ShareOf(Shares[r], r, j), <<WeightOf(r, k), 1>>),
                   Times(ShareOf(Shares[r], r, k), <<WeightOf(r, j), 1>>))
<1> DEFINE n == Len(r.models)
           parts == PartsOf(r)
<1>1. PICK sum : AddUp(r, sum)
  BY NormalizedWeightsAddUp, EngineAssumption
<1> DEFINE N == sum[n]
<1>2. r.models \in Seq(RecipeSet) /\ n \in Nat /\ DOMAIN r.models = 1 .. n
  BY RecipeAssumption
<1>3. \A i \in DOMAIN r.models : IsShared(r.models[i])
  BY <1>2, RecipesAreShared
<1>4. /\ parts \in Seq(Seq(Share)) /\ Len(parts) = n
      /\ \A i \in 1 .. n : Total(parts[i]) \in Share /\ SameShare(Total(parts[i]), <<WeightOf(r, i), N>>)
  BY <1>1, <1>3, MembersFollowTheirWeights DEF IsShared
<1>5. Shares[r] = FlattenSeq(parts)
  BY SharesUnfold DEF SharesFrom, PartsOf
<1>6. \A i \in 0 .. n : Len(JoinedOf(parts, i)) = Len(JoinedOf(LeavesOf(r), i))
  BY <1>3, PartsAreWhereLeavesAre
<1>7. N \in Nat \ {0} /\ \A i \in 1 .. n : WeightOf(r, i) \in Nat \ {0}
  <2>1. n \in 0 .. n
    BY <1>2
  <2> QED BY <1>1, <2>1 DEF AddUp
<1> HIDE DEF n, N, parts
<1>8. ASSUME NEW i \in 1 .. n
      PROVE ShareOf(Shares[r], r, i) \in Share /\ SameShare(ShareOf(Shares[r], r, i), <<WeightOf(r, i), N>>)
  <2>1. i \in 0 .. n /\ i - 1 \in 0 .. n
    BY <1>2
  <2>2. SubSeq(FlattenSeq(parts), Len(JoinedOf(parts, i - 1)) + 1, Len(JoinedOf(parts, i))) = parts[i]
    BY <1>4, PartOfJoined
  <2>3. ShareOf(Shares[r], r, i) = Total(parts[i])
    BY <1>5, <1>6, <2>1, <2>2 DEF ShareOf
  <2> QED BY <1>4, <2>3
<1> DEFINE a == ShareOf(Shares[r], r, j)
           b == ShareOf(Shares[r], r, k)
           p == WeightOf(r, j)
           q == WeightOf(r, k)
           u == <<p, 1>>
           v == <<q, 1>>
           x == <<p, N>>
           y == <<q, N>>
<1>9. /\ a \in Share /\ b \in Share /\ SameShare(a, x) /\ SameShare(b, y)
      /\ p \in Nat \ {0} /\ q \in Nat \ {0}
  BY <1>2, <1>7, <1>8
<1> HIDE DEF a, b, p, q
<1>10. u \in Share /\ v \in Share /\ x \in Share /\ y \in Share
  BY <1>7, <1>9 DEF Share
<1>11. SameShare(Times(x, v), Times(y, u))
  <2>1. (p * q) * (N * 1) = (q * p) * (N * 1)
    BY <1>7, <1>9
  <2> QED BY <2>1 DEF SameShare, Times
<1> HIDE DEF u, v, x, y
<1>12. /\ SameShare(Times(a, v), Times(x, v)) /\ SameShare(Times(b, u), Times(y, u))
       /\ Times(a, v) \in Share /\ Times(x, v) \in Share /\ Times(b, u) \in Share /\ Times(y, u) \in Share
  BY <1>9, <1>10, SameShareIsAnEquality, EqualsForEquals, TimesOfShares
<1>13. SameShare(Times(a, v), Times(b, u))
  <2>1. SameShare(Times(a, v), Times(y, u))
    BY <1>11, <1>12, SameShareIsAnEquality
  <2>2. SameShare(Times(y, u), Times(b, u))
    BY <1>12, SameShareIsAnEquality
  <2> QED BY <1>12, <2>1, <2>2, SameShareIsAnEquality
<1> QED BY <1>13 DEF a, b, u, v, p, q

(* A forecast has the shares of the recipe it was asked of.                *)
SharedInv ==
  forecast # NoForecast /\ call.op = "forecast" => forecast.shares = Shares[call.recipe]

(* Every step keeps the shares of a forecast those of its recipe.          *)
LEMMA SharedStep ==
  ASSUME CallInv, SharedInv, [Next]_vars
  PROVE  SharedInv'
<1> USE DEF SharedInv, Begins, Ends
<1>1. CASE Open
  BY <1>1 DEF Open
<1>2. CASE BeginFit
  BY <1>2 DEF BeginFit
<1>3. CASE Prepare
  BY <1>3 DEF Prepare
<1>4. CASE FitLeaf
  BY <1>4 DEF FitLeaf
<1>5. CASE FitLeafRaises
  BY <1>5 DEF FitLeafRaises
<1>6. CASE BeginForecast
  BY <1>6 DEF BeginForecast
<1>7. CASE Ask
  <2>1. call' = call /\ (forecast' = forecast \/ \E found : forecast' = Combined(found))
    BY <1>7 DEF Ask
  <2>2. \A found : Combined(found).shares = Shares[call.recipe]
    BY DEF Combined
  <2> QED BY <2>1, <2>2
<1>8. CASE TooShort
  BY <1>8 DEF TooShort
<1>9. CASE AskRaises
  BY <1>9 DEF AskRaises
<1>10. CASE BeginZeroShot
  BY <1>10 DEF BeginZeroShot
<1>11. CASE ZeroShot
  <2>1. call' = call /\ call.op # "forecast"
    BY <1>11 DEF ZeroShot, CallInv
  <2> QED BY <2>1
<1>12. CASE ZeroShotRaises
  BY <1>12 DEF ZeroShotRaises
<1>13. CASE UNCHANGED vars
  BY <1>13, SMTT(30) DEF vars
<1> QED BY <1>1, <1>2, <1>3, <1>4, <1>5, <1>6, <1>7, <1>8, <1>9, <1>10, <1>11, <1>12, <1>13 DEF Next

(* So its shares are as the weights of the recipe are.                     *)
LEMMA SharedSuffices ==
  ASSUME CallInv, ArtifactInv, SharedInv
  PROVE  SharesFollowTheWeights
<1> SUFFICES ASSUME forecast # NoForecast, call.op = "forecast"
             PROVE  SharesFollowTheWeights
  BY DEF SharesFollowTheWeights
<1> DEFINE recipe == artifact.recipe
           top == IF recipe.kind = "pipeline" THEN recipe.estimator ELSE recipe
           before(k) == Len(FlattenSeq([j \in 1 .. k |-> Leaves[top.models[j]]]))
           share(k) == Total(SubSeq(forecast.shares, before(k - 1) + 1, before(k)))
           weight(k) == IF top.weights = Equal THEN 1 ELSE top.weights[k]
<1>1. recipe \in RecipeSet /\ forecast.shares = Shares[recipe]
  BY DEF CallInv, ArtifactInv, MadeBy, SharedInv
<1>2. IsShared(recipe)
  BY <1>1, RecipesAreShared
<1>3. top \in RecipeSet /\ Shares[top] = Shares[recipe]
  BY <1>1, RecipeAssumption, SharesUnfold DEF MembersOf, SharesFrom
<1>4. ASSUME top.kind = "ensemble", NEW j \in DOMAIN top.models, NEW k \in DOMAIN top.models
      PROVE  SameShare(Times(share(j), <<weight(k), 1>>), Times(share(k), <<weight(j), 1>>))
  <2> DEFINE n == Len(top.models)
  <2>1. DOMAIN top.models = 1 .. n /\ n \in Nat
    <3>1. top.models \in Seq(RecipeSet)
      BY <1>3, <1>4, RecipeAssumption
    <3> QED BY <3>1
  <2>2. \A i \in DOMAIN top.models : weight(i) = WeightOf(top, i)
    BY DEF WeightOf
  <2> HIDE DEF recipe, top, n
  <2>3. ASSUME NEW i \in 0 .. n PROVE before(i) = Len(JoinedOf(LeavesOf(top), i))
    <3>1. \A m \in 1 .. i : m \in DOMAIN top.models
      BY <2>1
    <3>2. [m \in 1 .. i |-> Leaves[top.models[m]]] = [m \in 1 .. i |-> LeavesOf(top)[m]]
      BY <3>1 DEF LeavesOf
    <3> QED BY <3>2 DEF JoinedOf
  <2>4. ASSUME NEW i \in DOMAIN top.models PROVE share(i) = ShareOf(Shares[top], top, i)
    <3>1. i \in 0 .. n /\ i - 1 \in 0 .. n
      BY <2>1
    <3> HIDE DEF before
    <3> QED BY <1>1, <1>3, <2>3, <3>1 DEF ShareOf
  <2>5. SameShare(Times(ShareOf(Shares[top], top, j), <<WeightOf(top, k), 1>>),
                  Times(ShareOf(Shares[top], top, k), <<WeightOf(top, j), 1>>))
    BY <1>3, <1>4, EnsemblesFollow
  <2> HIDE DEF share, weight
  <2> QED BY <1>4, <2>2, <2>4, <2>5
<1>5. /\ Len(forecast.shares) = Len(Leaves[recipe])
      /\ SameShare(Total(forecast.shares), <<1, 1>>)
  BY <1>1, <1>2 DEF IsShared, IsWhole
<1> QED BY <1>4, <1>5 DEF SharesFollowTheWeights

-----------------------------------------------------------------------------
EngineInv ==
  /\ TypeOK /\ CallInv /\ FitInv /\ ArtifactInv /\ AskInv /\ AnswersInv
  /\ RefusedBeforeAnythingRuns /\ EveryCellIsAnswered /\ ScreenedAsFitted

(* The invariant holds in every behaviour, whatever the providers store.   *)
LEMMA EngineInvHolds == Spec => []EngineInv
<1>1. Init => EngineInv
  <2> SUFFICES ASSUME Init PROVE EngineInv
    OBVIOUS
  <2>1. /\ call.op = "none" /\ stage = "idle" /\ prepared = <<>> /\ answers = <<>> /\ asked = <<>>
        /\ artifact = NoArtifact /\ forecast = NoForecast
    BY DEF Init, NoCall
  <2>2. CallInv
    BY <2>1, NothingIsAList DEF CallInv
  <2>3. FitInv /\ ArtifactInv /\ AskInv /\ AnswersInv
    BY <2>1 DEF FitInv, ArtifactInv, AskInv, AnswersInv
  <2>4. RefusedBeforeAnythingRuns /\ EveryCellIsAnswered /\ ScreenedAsFitted
    BY <2>1 DEF RefusedBeforeAnythingRuns, EveryCellIsAnswered, ScreenedAsFitted
  <2> QED BY <2>2, <2>3, <2>4, TypeOKInit DEF EngineInv
<1>2. EngineInv /\ [Next]_vars => EngineInv'
  BY TypeOKStep, CallInvStep, FitInvStep, ArtifactInvStep, AskInvStep, AnsweredStep, RefusedStep, ScreenedStep DEF EngineInv
<1> QED BY <1>1, <1>2, PTL DEF Spec

(* A call is at one of the engine's stages, and has its outcome only when  *)
(* it is over; what is installed is in the catalog. engine.py:182-206.     *)
THEOREM EngineTypeCorrect == Spec => []TypeOK
<1>1. EngineInv => TypeOK
  BY DEF EngineInv
<1> QED BY <1>1, EngineInvHolds, PTL

(* A fit that is refused, and a forecast of an artifact that is, have      *)
(* started no provider. engine.py:182-206, 314-325.                        *)
THEOREM NoProviderIsStartedForNothing == Spec => []RefusedBeforeAnythingRuns
<1>1. EngineInv => RefusedBeforeAnythingRuns
  BY DEF EngineInv
<1> QED BY <1>1, EngineInvHolds, PTL

(* A published artifact holds every model of its recipe, each in its own   *)
(* directory and fitted on the view of its contract. engine.py:192-206,    *)
(* 455-477.                                                                *)
THEOREM ArtifactsAreWhole == Spec => []PublishedIsWhole
<1>1. EngineInv => PublishedIsWhole
  BY MadeIsWhole DEF EngineInv
<1> QED BY <1>1, EngineInvHolds, PTL

(* A forecast describes every cell that was asked for, by the answers of   *)
(* all of its models. engine.py:711-738, 535-567.                          *)
THEOREM ForecastsAreComplete == Spec => []EveryCellIsAnswered
<1>1. EngineInv => EveryCellIsAnswered
  BY DEF EngineInv
<1> QED BY <1>1, EngineInvHolds, PTL

(* The screen refuses the models that a fit refuses, and no other.         *)
(* eligibility.py:121-142.                                                 *)
THEOREM TheScreenIsTheFit == Spec => []ScreenedAsFitted
<1>1. EngineInv => ScreenedAsFitted
  BY DEF EngineInv
<1> QED BY <1>1, EngineInvHolds, PTL

(* With instance keys that JSON gives back as they were, a model is asked  *)
(* as it was trained. engine.py:303-330, 372-415, transforms.py:203-207.   *)
THEOREM ModelsAreAskedAsTrained ==
  ASSUME KeysSurvive
  PROVE  Spec => []AskedAsTrained
<1>1. Init => AskedAsTrained
  BY NothingIsAList DEF Init, AskedAsTrained, ScaledAsTrained
<1>2. EngineInv /\ AskedAsTrained /\ [Next]_vars => AskedAsTrained'
  BY AskedStep DEF EngineInv
<1> QED BY <1>1, <1>2, EngineInvHolds, PTL DEF Spec

(* With such keys, whatever is scaled on the way in is scaled back, and a  *)
(* forecast is on the scale of the caller. transforms.py:210-220.          *)
THEOREM ForecastsAreScaledBack ==
  ASSUME KeysSurvive
  PROVE  Spec => []OnTheCallersScale
<1>1. Init => ScaleInv /\ OnTheCallersScale
  BY NothingIsAList DEF Init, ScaleInv, OnTheCallersScale
<1>2. EngineInv /\ ScaleInv /\ OnTheCallersScale /\ [Next]_vars => (ScaleInv /\ OnTheCallersScale)'
  BY ScaleStep DEF EngineInv
<1> QED BY <1>1, <1>2, EngineInvHolds, PTL DEF Spec

(* The members of an ensemble contribute to a forecast in proportion to    *)
(* their weights, and together they are the whole of it, however recipes   *)
(* are nested. nodes.py:259-265, engine.py:520-567.                        *)
THEOREM EnsemblesFollowTheirWeights == Spec => []SharesFollowTheWeights
<1>1. Init => SharedInv
  BY DEF Init, SharedInv
<1>2. EngineInv /\ SharedInv /\ [Next]_vars => SharedInv'
  BY SharedStep DEF EngineInv
<1>3. EngineInv /\ SharedInv => SharesFollowTheWeights
  BY SharedSuffices DEF EngineInv
<1> QED BY <1>1, <1>2, <1>3, EngineInvHolds, PTL DEF Spec
=============================================================================
