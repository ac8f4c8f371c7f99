---------------------------- MODULE ServiceProofs ----------------------------
(***************************************************************************)
(* Theorems about Service, for any callers, builds, refusals and number of *)
(* requests: what a caller is told is true of what it asked, and a failure *)
(* is caught by the handlers that would have caught it where it was raised.*)
(***************************************************************************)
EXTENDS Service, SequenceTheorems, TLAPS

-----------------------------------------------------------------------------
(* The classes of errors.                                                  *)

Roots == {"OpenForecastError", "builtin"}
Families ==
  {"SchemaError", "DataError", "OriginScopeError", "ModelError", "ProviderError", "ArtifactError"}
Declarations == {"InvalidModelParameters", "UnsupportedPlanError"}

Depth ==
  [c \in Classes |-> IF c \in Roots THEN 0
                    ELSE IF c \in Families THEN 1
                    ELSE IF c \in Declarations THEN 3 ELSE 2]

(* What every class derives from, as the tables of Failures have it.       *)
LEMMA BasesByName ==
  /\ \A c \in Roots : c \in Classes /\ Bases[c] = {}
  /\ \A c \in Families : c \in Classes /\ Bases[c] = {"OpenForecastError"}
  /\ \A c \in Declarations : c \in Classes /\ Bases[c] = {"RecipeError"}
  /\ \A c \in {"FrequencyError", "RecipeError"} : c \in Classes /\ Bases[c] = {"SchemaError"}
  /\ \A c \in Classes \ (Roots \cup Families \cup Declarations) : 
       Bases[c] # {} /\ Bases[c] \subseteq Families
<1>1. /\ DOMAIN OfTheRequest \cap DOMAIN OfTheModel = {}
      /\ Roots \cap (DOMAIN OfTheRequest \cup DOMAIN OfTheModel) = {}
  BY DEF OfTheRequest, OfTheModel, Roots
<1>2. /\ \A c \in Roots : c \in Classes /\ Bases[c] = {}
      /\ \A c \in DOMAIN OfTheRequest : c \in Classes /\ Bases[c] = OfTheRequest[c]
      /\ \A c \in DOMAIN OfTheModel : c \in Classes /\ Bases[c] = OfTheModel[c]
      /\ Classes = Roots \cup DOMAIN OfTheRequest \cup DOMAIN OfTheModel
  BY <1>1 DEF Classes, Bases, Roots
<1>3. \A c \in {"SchemaError", "DataError", "OriginScopeError"} :
         c \in DOMAIN OfTheRequest /\ OfTheRequest[c] = {"OpenForecastError"}
  BY DEF OfTheRequest
<1>4. \A c \in {"ModelError", "ProviderError", "ArtifactError"} :
         c \in DOMAIN OfTheModel /\ OfTheModel[c] = {"OpenForecastError"}
  BY DEF OfTheModel
<1>5. /\ \A c \in Declarations : c \in DOMAIN OfTheRequest /\ OfTheRequest[c] = {"RecipeError"}
      /\ \A c \in {"FrequencyError", "RecipeError"} :
            c \in DOMAIN OfTheRequest /\ OfTheRequest[c] = {"SchemaError"}
  BY DEF Declarations, OfTheRequest
<1>6. \A c \in DOMAIN OfTheRequest \ (Families \cup Declarations) :
         OfTheRequest[c] # {} /\ OfTheRequest[c] \subseteq Families
  BY DEF Families, OfTheRequest, Declarations
<1>7. \A c \in DOMAIN OfTheModel \ (Families \cup Declarations) :
         OfTheModel[c] # {} /\ OfTheModel[c] \subseteq Families
  BY DEF Families, OfTheModel, Declarations
<1>8. \A c \in Families : c \in Classes /\ Bases[c] = {"OpenForecastError"}
  BY <1>2, <1>3, <1>4 DEF Families
<1>9. \A c \in Classes \ (Roots \cup Families \cup Declarations) :
         Bases[c] # {} /\ Bases[c] \subseteq Families
  BY <1>2, <1>6, <1>7
<1> QED BY <1>2, <1>5, <1>8, <1>9
(* What a class derives from is a class, and nearer to the root.            *)
LEMMA BasesAreAbove ==
  \A c \in Classes : \A base \in Bases[c] : base \in Classes /\ Depth[base] < Depth[c]
<1> SUFFICES ASSUME NEW c \in Classes, NEW base \in Bases[c]
             PROVE  base \in Classes /\ Depth[base] < Depth[c]
  OBVIOUS
<1>1. CASE c \in Roots
  BY <1>1, BasesByName
<1>2. CASE c \in Families
  BY <1>2, BasesByName DEF Depth, Roots, Families
<1>3. CASE c \in Declarations
  <2>1. base = "RecipeError" /\ "RecipeError" \in Classes
    BY <1>3, BasesByName
  <2> QED BY <1>3, <2>1 DEF Depth, Roots, Families, Declarations
<1>4. CASE c \notin Roots \cup Families \cup Declarations
  BY <1>4, BasesByName DEF Depth, Roots, Families, Declarations
<1> QED BY <1>1, <1>2, <1>3, <1>4

(* The recursion of Ancestors is well founded: four rounds from the class  *)
(* itself reach a fixed point, so Ancestors is one.                        *)
LEMMA AncestorsUnfold ==
  \A c \in Classes : Ancestors[c] = {c} \cup UNION {Ancestors[base] : base \in Bases[c]}
<1> DEFINE Up(f) == [c \in Classes |-> {c} \cup UNION {f[base] : base \in Bases[c]}]
           F0 == [c \in Classes |-> {c}]
           F1 == Up(F0)  F2 == Up(F1)  F3 == Up(F2)
           Agree(f, n) == \A c \in Classes : Depth[c] <= n => f[c] = Up(f)[c]
<1>0. \A c \in Classes : Depth[c] \in 0 .. 3
  BY DEF Depth
<1>1. Agree(F0, 0)
  <2> SUFFICES ASSUME NEW c \in Classes, Depth[c] <= 0 PROVE F0[c] = Up(F0)[c]
    OBVIOUS
  <2>1. Bases[c] = {}
    BY BasesByName DEF Depth
  <2>2. Up(F0)[c] = {c} \cup UNION {F0[base] : base \in {}}
    BY <2>1
  <2> QED BY <2>2
<1>2. ASSUME NEW f, NEW n \in 0 .. 2, Agree(f, n) PROVE Agree(Up(f), n + 1)
  <2> SUFFICES ASSUME NEW c \in Classes, Depth[c] <= n + 1 PROVE Up(f)[c] = Up(Up(f))[c]
    OBVIOUS
  <2>1. \A base \in Bases[c] : f[base] = Up(f)[base]
    <3> SUFFICES ASSUME NEW base \in Bases[c] PROVE f[base] = Up(f)[base]
      OBVIOUS
    <3>1. base \in Classes /\ Depth[base] < Depth[c]
      BY BasesAreAbove
    <3>2. Depth[base] <= n
      BY <1>0, <3>1
    <3> QED BY <3>1, <3>2, <1>2
  <2>2. UNION {f[base] : base \in Bases[c]} = UNION {Up(f)[base] : base \in Bases[c]}
    <3> HIDE DEF Up
    <3> QED BY <2>1
  <2>3. /\ Up(f)[c] = {c} \cup UNION {f[base] : base \in Bases[c]}
        /\ Up(Up(f))[c] = {c} \cup UNION {Up(f)[base] : base \in Bases[c]}
    OBVIOUS
  <2> HIDE DEF Up
  <2> QED BY <2>2, <2>3
<1> HIDE DEF Up
<1>3. Agree(F1, 1) /\ Agree(F2, 2) /\ Agree(F3, 3)
  <2> HIDE DEF F0, Agree
  <2>1. Agree(Up(F0), 1)
    <3>1. 0 + 1 = 1
      OBVIOUS
    <3> QED BY <1>1, <1>2, <3>1
  <2>2. Agree(Up(F1), 2)
    <3>1. Agree(F1, 1)
      BY <2>1
    <3>2. 1 + 1 = 2
      OBVIOUS
    <3> HIDE DEF F1
    <3> QED BY <1>2, <3>1, <3>2
  <2>3. Agree(Up(F2), 3)
    <3>1. Agree(F2, 2)
      BY <2>2
    <3>2. 2 + 1 = 3
      OBVIOUS
    <3> HIDE DEF F2
    <3> QED BY <1>2, <3>1, <3>2
  <2> QED BY <2>1, <2>2, <2>3
<1>4. \A c \in Classes : F3[c] = Up(F3)[c]
  <2> HIDE DEF F3
  <2> QED BY <1>0, <1>3
<1>5. F3 = Up(F3)
  <2>1. \A g : DOMAIN Up(g) = Classes /\ Up(g) = [c \in Classes |-> Up(g)[c]]
    BY DEF Up
  <2>2. F3 = [c \in Classes |-> F3[c]]
    BY <2>1
  <2> HIDE DEF F3
  <2> QED BY <1>4, <2>1, <2>2
<1>6. F3 = [c \in Classes |-> {c} \cup UNION {F3[base] : base \in Bases[c]}]
  <2> HIDE DEF F3
  <2> QED BY <1>5 DEF Up
<1>7. Ancestors = [c \in Classes |-> {c} \cup UNION {Ancestors[base] : base \in Bases[c]}]
  <2> HIDE DEF F3
  <2> QED BY <1>6 DEF Ancestors
<1> QED BY <1>7
(* Every class of errors but the builtin ones is OpenForecast's.           *)
LEMMA OneRoot ==
  /\ \A c \in Classes : c \in Ancestors[c]
  /\ Ancestors["builtin"] = {"builtin"}
  /\ \A c \in Classes \ {"builtin"} : "OpenForecastError" \in Ancestors[c]
<1>1. \A c \in Classes : c \in Ancestors[c]
  BY AncestorsUnfold
<1>2. "builtin" \in Classes /\ Bases["builtin"] = {}
  BY BasesByName DEF Roots
<1>3. Ancestors["builtin"] = {"builtin"} \cup UNION {Ancestors[base] : base \in {}}
  BY <1>2, AncestorsUnfold
<1>4. Ancestors["builtin"] = {"builtin"}
  BY <1>3
<1>5. \A c \in Classes : \A base \in Bases[c] : Ancestors[base] \subseteq Ancestors[c]
  BY AncestorsUnfold
<1>6. "OpenForecastError" \in Ancestors["OpenForecastError"]
  BY <1>1, BasesByName DEF Roots
<1>7. \A c \in Families : "OpenForecastError" \in Ancestors[c]
  BY <1>5, <1>6, BasesByName
<1>8. \A c \in Classes \ (Roots \cup Families \cup Declarations) :
         "OpenForecastError" \in Ancestors[c]
  <2> SUFFICES ASSUME NEW c \in Classes \ (Roots \cup Families \cup Declarations)
               PROVE  "OpenForecastError" \in Ancestors[c]
    OBVIOUS
  <2>1. PICK base \in Bases[c] : base \in Families
    BY BasesByName
  <2> QED BY <1>5, <1>7, <2>1
<1>9. "RecipeError" \in Classes \ (Roots \cup Families \cup Declarations)
  BY BasesByName DEF Roots, Families, Declarations
<1>10. \A c \in Declarations : "OpenForecastError" \in Ancestors[c]
  BY <1>5, <1>8, <1>9, BasesByName
<1> QED BY <1>1, <1>4, <1>6, <1>7, <1>8, <1>10 DEF Roots

-----------------------------------------------------------------------------
(* What crosses a provider's pipe.                                         *)

(* The code of a failure is that of the first clause that catches it.      *)
LEMMA FirstClauseAnswers ==
  ASSUME NEW class, NEW n \in 1 .. 5, Ancestors[class] \cap Clauses[n][1] # {},
         \A m \in 1 .. n - 1 : Ancestors[class] \cap Clauses[m][1] = {}
  PROVE  CodeOf(class) = Clauses[n][2]
<1> DEFINE catching == {m \in DOMAIN Clauses : Ancestors[class] \cap Clauses[m][1] # {}}
<1>1. DOMAIN Clauses = 1 .. 5
  BY DEF Clauses
<1>2. n \in catching /\ \A m \in catching : n <= m
  BY <1>1
<1>3. catching \subseteq Nat
  BY <1>1
<1>4. n = CHOOSE m \in catching : \A k \in catching : m <= k
  <2> HIDE DEF catching
  <2> QED BY <1>2, <1>3
<1> QED BY <1>4 DEF CodeOf

(* A failure is still one of every class it was raised as, when it has     *)
(* come through the pipe of a provider's process; what is not              *)
(* OpenForecast's is the provider's failure.                               *)
LEMMA PipeKeepsTheMeaning ==
  ASSUME NEW class \in Raisable
  PROVE  /\ AcrossPipe(class) \in Known
         /\ IF class = "builtin" THEN AcrossPipe(class) = "ProviderError"
            ELSE Ancestors[class] \subseteq Ancestors[AcrossPipe(class)]
<1> USE DEF Raisable
<1>1. /\ Raisable \subseteq Classes /\ Piped \subseteq Classes /\ Piped \subseteq Known
      /\ "RecipeError" \in Classes /\ "ModelError" \in Classes /\ "SchemaError" \in Classes
  BY ServiceAssumption, BasesByName DEF Piped, Roots, Families, Declarations, Classes
<1>2. Ancestors["OpenForecastError"] = {"OpenForecastError"}
  <2>1. Ancestors["OpenForecastError"]
          = {"OpenForecastError"} \cup UNION {Ancestors[base] : base \in {}}
    BY AncestorsUnfold, BasesByName DEF Roots
  <2> QED BY <2>1
<1>3. \A c \in Families : Ancestors[c] = {c, "OpenForecastError"}
  <2> SUFFICES ASSUME NEW c \in Families PROVE Ancestors[c] = {c, "OpenForecastError"}
    OBVIOUS
  <2>1. Ancestors[c] = {c} \cup UNION {Ancestors[base] : base \in {"OpenForecastError"}}
    BY AncestorsUnfold, BasesByName
  <2> QED BY <1>2, <2>1
<1>4. Ancestors["RecipeError"] = {"RecipeError", "SchemaError", "OpenForecastError"}
  <2>1. Ancestors["RecipeError"]
          = {"RecipeError"} \cup UNION {Ancestors[base] : base \in {"SchemaError"}}
    BY AncestorsUnfold, BasesByName
  <2> QED BY <1>3, <2>1 DEF Families
<1>5. Ancestors["RecipeError"] \subseteq Ancestors["InvalidModelParameters"]
  <2>1. Bases["InvalidModelParameters"] = {"RecipeError"}
    BY BasesByName DEF Declarations
  <2> QED BY <1>1, <2>1, AncestorsUnfold DEF Piped
<1>6. CASE class = "UnknownModelError"
  <2>1. "ModelError" \in Ancestors[class]
    <3>1. Bases["UnknownModelError"] = {"ModelError"}
      BY DEF Bases, Classes, OfTheRequest, OfTheModel
    <3> QED BY <1>1, <1>3, <1>6, <3>1, AncestorsUnfold DEF Families
  <2>2. CodeOf(class) = "UNKNOWN_MODEL"
    <3>1. Ancestors[class] \cap Clauses[1][1] # {} /\ Clauses[1][2] = "UNKNOWN_MODEL"
      BY <2>1 DEF Clauses
    <3>2. 1 \in 1 .. 5 /\ 1 .. 1 - 1 = {}
      OBVIOUS
    <3> QED BY <3>1, <3>2, FirstClauseAnswers
  <2>3. AcrossPipe(class) = class
    BY <1>6, <2>2 DEF AcrossPipe, ClassOf
  <2> QED BY <1>1, <1>6, <2>3 DEF Piped
<1>7. CASE class = "RecipeError"
  <2>1. CodeOf(class) = "INVALID_MODEL_PARAMETERS"
    <3>1. /\ Ancestors[class] \cap Clauses[1][1] = {} /\ Ancestors[class] \cap Clauses[2][1] # {}
          /\ Clauses[2][2] = "INVALID_MODEL_PARAMETERS"
      BY <1>4, <1>7 DEF Clauses
    <3>2. 2 \in 1 .. 5 /\ \A m \in 1 .. 2 - 1 : m = 1
      OBVIOUS
    <3> QED BY <3>1, <3>2, FirstClauseAnswers
  <2>2. AcrossPipe(class) = "InvalidModelParameters"
    BY <2>1 DEF AcrossPipe, ClassOf
  <2> QED BY <1>1, <1>5, <1>7, <2>2 DEF Piped
<1>8. CASE class = "DataError"
  <2>1. CodeOf(class) = "INVALID_VIEW"
    <3>1. Ancestors[class] = {"DataError", "OpenForecastError"}
      BY <1>3, <1>8 DEF Families
    <3>2. /\ Ancestors[class] \cap Clauses[1][1] = {} /\ Ancestors[class] \cap Clauses[2][1] = {}
          /\ Ancestors[class] \cap Clauses[3][1] # {} /\ Clauses[3][2] = "INVALID_VIEW"
      BY <3>1 DEF Clauses
    <3>3. 3 \in 1 .. 5 /\ \A m \in 1 .. 3 - 1 : m = 1 \/ m = 2
      OBVIOUS
    <3> QED BY <3>2, <3>3, FirstClauseAnswers
  <2>2. AcrossPipe(class) = class
    BY <1>8, <2>1 DEF AcrossPipe, ClassOf
  <2> QED BY <1>1, <1>8, <2>2 DEF Piped
<1>9. CASE class = "ProviderError"
  <2>1. CodeOf(class) = "EXECUTION_FAILED"
    <3>1. Ancestors[class] = {"ProviderError", "OpenForecastError"}
      BY <1>3, <1>9 DEF Families
    <3>2. /\ Ancestors[class] \cap Clauses[1][1] = {} /\ Ancestors[class] \cap Clauses[2][1] = {}
          /\ Ancestors[class] \cap Clauses[3][1] = {} /\ Ancestors[class] \cap Clauses[4][1] # {}
          /\ Clauses[4][2] = "EXECUTION_FAILED"
      BY <3>1 DEF Clauses
    <3>3. 4 \in 1 .. 5 /\ \A m \in 1 .. 4 - 1 : m = 1 \/ m = 2 \/ m = 3
      OBVIOUS
    <3> QED BY <3>2, <3>3, FirstClauseAnswers
  <2>2. AcrossPipe(class) = class
    BY <1>9, <2>1 DEF AcrossPipe, ClassOf
  <2> QED BY <1>1, <1>9, <2>2 DEF Piped
<1>10. CASE class = "builtin"
  <2>1. CodeOf(class) = "INTERNAL_ERROR"
    <3>1. Ancestors[class] = {"builtin"} /\ "builtin" \in Classes
      BY <1>1, <1>10, OneRoot
    <3>2. /\ Ancestors[class] \cap Clauses[1][1] = {} /\ Ancestors[class] \cap Clauses[2][1] = {}
          /\ Ancestors[class] \cap Clauses[3][1] = {} /\ Ancestors[class] \cap Clauses[4][1] = {}
          /\ Ancestors[class] \cap Clauses[5][1] # {} /\ Clauses[5][2] = "INTERNAL_ERROR"
      BY <3>1 DEF Clauses
    <3>3. 5 \in 1 .. 5 /\ \A m \in 1 .. 5 - 1 : m = 1 \/ m = 2 \/ m = 3 \/ m = 4
      OBVIOUS
    <3> QED BY <3>2, <3>3, FirstClauseAnswers
  <2>2. AcrossPipe(class) = "ProviderError"
    BY <2>1 DEF AcrossPipe, ClassOf
  <2> QED BY <1>1, <1>10, <2>2 DEF Piped
<1> QED BY <1>6, <1>7, <1>8, <1>9, <1>10

-----------------------------------------------------------------------------
(* The inductive invariant: who asked for what and how far it is, and then *)
(* that every answer on its way and everything a caller was told is true.  *)

Stages == {"sent", "provider", "staged", "unnamed", "over"}

TypeInv ==
  /\ requests \in Seq([caller : Callers, op : {"fit", "forecast"}])
  /\ stage \in Seq(Stages) /\ Len(stage) = Len(requests)
  /\ waiting \in [Callers -> 0 .. Len(requests)]
  /\ published \subseteq DOMAIN requests
  /\ DOMAIN told = Callers

(* Only a fit is published, and only then named; a caller waits for what   *)
(* it asked for itself.                                                    *)
ProgressInv ==
  /\ \A id \in DOMAIN requests :
       /\ stage[id] \in {"staged", "unnamed"} => requests[id].op = "fit"
       /\ stage[id] = "unnamed" => id \in published
       /\ id \in published => stage[id] \in {"unnamed", "over"}
  /\ \A c \in Callers : waiting[c] # 0 => requests[waiting[c]].caller = c

(* Nothing is, or will be, left of a request.                              *)
LeftNothing(id) == stage[id] = "over" /\ id \notin published

IsTheAnswer(id, what) ==
  \/ what = Handle(id) /\ requests[id].op = "fit" /\ id \in published
  \/ what = Forecast(id) /\ requests[id].op = "forecast"

TrueOnItsWay(id, what) ==
  \/ what.kind # "error" /\ IsTheAnswer(id, what)
  \/ /\ what.kind = "error"
     /\ what.envelope \in Known \ {"UnknownModelError"} => LeftNothing(id)

TrueWhenTold(c, what) ==
  \/ what = Nothing
  \/ /\ what.id \in DOMAIN requests /\ requests[what.id].caller = c
     /\ \/ what.kind # "failure" /\ IsTheAnswer(what.id, what)
        \/ /\ what.kind = "failure" /\ what.class \in Classes
           /\ ~LeavesItOpen(c, what.class) => LeftNothing(what.id)

TruthInv ==
  /\ \A id \in DOMAIN answer :
       id \in DOMAIN requests /\ IsRemote(id) /\ TrueOnItsWay(id, answer[id])
  /\ \A c \in Callers : TrueWhenTold(c, told[c])

ServiceInv == TypeInv /\ ProgressInv /\ TruthInv

(* What no step takes back.                                                *)
Grows ==
  /\ \A id \in DOMAIN requests :
       /\ id \in DOMAIN requests' /\ requests'[id] = requests[id]
       /\ LeftNothing(id) => LeftNothing(id)'
  /\ published \subseteq published'

(* Nothing has been asked, so nothing has been answered.                   *)
LEMMA ServiceInitially == Init => ServiceInv
BY DEF Init, ServiceInv, TypeInv, ProgressInv, TruthInv, TrueWhenTold, Nothing

(* A request that is new is put behind the others.                         *)
LEMMA AskingGrows ==
  ASSUME TypeInv, ProgressInv, NEW c \in Callers, RefusedHere(c) \/ Ask(c)
  PROVE  TypeInv' /\ ProgressInv' /\ Grows
<1>1. PICK op \in {"fit", "forecast"}, s \in {"sent", "over"} :
        /\ requests' = Append(requests, [caller |-> c, op |-> op])
        /\ stage' = Append(stage, s)
        /\ waiting' = waiting \/ waiting' = [waiting EXCEPT ![c] = Len(requests')]
        /\ UNCHANGED published /\ DOMAIN told' = Callers
  BY DEF RefusedHere, Ask, TypeInv
<1>2. /\ requests' \in Seq([caller : Callers, op : {"fit", "forecast"}])
      /\ stage' \in Seq(Stages) /\ Len(stage') = Len(requests')
      /\ Len(requests') = Len(requests) + 1
  BY <1>1 DEF TypeInv, Stages
<1>3. /\ DOMAIN requests = 1 .. Len(requests) /\ DOMAIN requests' = 1 .. Len(requests) + 1
      /\ \A id \in DOMAIN requests : requests'[id] = requests[id] /\ stage'[id] = stage[id]
      /\ requests'[Len(requests')] = [caller |-> c, op |-> op] /\ stage'[Len(requests')] = s
  BY <1>1, <1>2 DEF TypeInv
<1>4. TypeInv'
  BY <1>1, <1>2, <1>3 DEF TypeInv
<1>5. ProgressInv'
  <2>1. ASSUME NEW id \in DOMAIN requests'
        PROVE  /\ stage'[id] \in {"staged", "unnamed"} => requests'[id].op = "fit"
               /\ stage'[id] = "unnamed" => id \in published'
               /\ id \in published' => stage'[id] \in {"unnamed", "over"}
    <3>1. CASE id \in DOMAIN requests
      BY <1>1, <1>3, <3>1 DEF ProgressInv
    <3>2. CASE id = Len(requests')
      <4>1. id \notin published'
        BY <1>1, <1>2, <1>3, <3>2 DEF TypeInv
      <4> QED BY <1>1, <1>3, <3>2, <4>1
    <3> QED BY <1>2, <1>3, <3>1, <3>2
  <2>2. ASSUME NEW d \in Callers, waiting'[d] # 0 PROVE requests'[waiting'[d]].caller = d
    <3>1. CASE waiting'[d] = waiting[d]
      BY <1>3, <2>2, <3>1 DEF TypeInv, ProgressInv
    <3>2. CASE d = c /\ waiting'[d] = Len(requests')
      BY <1>3, <3>2
    <3> QED BY <1>1, <3>1, <3>2 DEF TypeInv
  <2> QED BY <2>1, <2>2 DEF ProgressInv
<1>6. Grows
  <2>1. \A id \in DOMAIN requests : id \in DOMAIN requests' /\ requests'[id] = requests[id]
    BY <1>3
  <2>2. \A id \in DOMAIN requests : LeftNothing(id) => LeftNothing(id)'
    BY <1>1, <1>3 DEF LeftNothing
  <2> QED BY <1>1, <2>1, <2>2 DEF Grows
<1> QED BY <1>4, <1>5, <1>6

(* The steps that work on a request, or that close it.                     *)
LEMMA WorkGrows ==
  ASSUME TypeInv, ProgressInv, NEW id \in DOMAIN requests, NEW s \in Stages, UNCHANGED requests,
         stage' = [stage EXCEPT ![id] = s],
         waiting' \in [Callers -> 0 .. Len(requests)],
         \A c \in Callers : waiting'[c] \in {0, waiting[c]},
         DOMAIN told' = Callers,
         \/ published' = published
         \/ published' = published \cup {id} /\ stage[id] = "staged" /\ s = "unnamed",
         s = "staged" => requests[id].op = "fit" /\ stage[id] = "provider",
         s = "unnamed" => stage[id] = "staged" /\ id \in published',
         s \in {"sent", "provider"} => stage[id] \in {"sent", "provider"},
         stage[id] # "over"
  PROVE  TypeInv' /\ ProgressInv' /\ Grows
<1>1. /\ DOMAIN requests = 1 .. Len(requests) /\ DOMAIN stage = DOMAIN requests
      /\ \A other \in DOMAIN requests : stage[other] \in Stages
      /\ stage'[id] = s /\ \A other \in DOMAIN requests \ {id} : stage'[other] = stage[other]
  BY DEF TypeInv
<1>2. stage' \in Seq(Stages) /\ Len(stage') = Len(requests)
  BY <1>1, ExceptSeq DEF TypeInv
<1>3. TypeInv'
  BY <1>1, <1>2 DEF TypeInv
<1>4. ASSUME NEW other \in DOMAIN requests
      PROVE  /\ stage'[other] \in {"staged", "unnamed"} => requests[other].op = "fit"
             /\ stage'[other] = "unnamed" => other \in published'
             /\ other \in published' => stage'[other] \in {"unnamed", "over"}
  <2>1. CASE other # id
    BY <1>1, <2>1 DEF ProgressInv
  <2>2. CASE other = id
    BY <1>1, <2>2 DEF ProgressInv, Stages
  <2> QED BY <2>1, <2>2
<1>5. \A c \in Callers : waiting'[c] # 0 => requests[waiting'[c]].caller = c
  BY DEF ProgressInv
<1>6. ProgressInv'
  BY <1>4, <1>5 DEF ProgressInv
<1>7. Grows
  <2>1. \A other \in DOMAIN requests : LeftNothing(other) => LeftNothing(other)'
    BY <1>1 DEF LeftNothing
  <2> QED BY <2>1 DEF Grows
<1> QED BY <1>3, <1>6, <1>7

(* The caller of a request is one of the callers.                          *)
LEMMA AskedByACaller ==
  ASSUME TypeInv, NEW id \in DOMAIN requests
  PROVE  CallerOf(id) \in Callers
<1>1. id \in 1 .. Len(requests)
  BY DEF TypeInv
<1>2. requests[id] \in [caller : Callers, op : {"fit", "forecast"}]
  BY <1>1, ElementOfSeq DEF TypeInv
<1> QED BY <1>2 DEF CallerOf

(* However it is answered, a request that is answered is over, and at most *)
(* its own caller stops waiting.                                           *)
LEMMA AnswersClose ==
  ASSUME TypeInv, NEW id \in DOMAIN requests, NEW what, Answers(id, what)
  PROVE  /\ stage' = [stage EXCEPT ![id] = "over"]
         /\ waiting' \in [Callers -> 0 .. Len(requests)] /\ DOMAIN told' = Callers
         /\ \A c \in Callers : waiting'[c] \in {0, waiting[c]}
<1>1. CallerOf(id) \in Callers
  BY AskedByACaller
<1>2. CASE IsRemote(id)
  BY <1>2 DEF Answers, Over, TypeInv
<1>3. CASE ~IsRemote(id)
  <2>1. Told(CallerOf(id), what)
    BY <1>3 DEF Answers
  <2> QED BY <1>1, <2>1 DEF Answers, Over, TypeInv, Told
<1> QED BY <1>2, <1>3

(* A caller that stops waiting changes nothing about any request.          *)
LEMMA WaitingGrows ==
  ASSUME TypeInv, ProgressInv, NEW c \in Callers, GiveUp(c) \/ Receive(c)
  PROVE  TypeInv' /\ ProgressInv' /\ Grows
<1>1. /\ UNCHANGED <<requests, stage, published>>
      /\ waiting' = [waiting EXCEPT ![c] = 0] /\ DOMAIN told' = Callers
  BY DEF GiveUp, Receive, Told, TypeInv
<1>2. Len(requests) \in Nat
  BY DEF TypeInv
<1>3. TypeInv'
  BY <1>1, <1>2 DEF TypeInv
<1>4. ProgressInv'
  BY <1>1 DEF TypeInv, ProgressInv
<1>5. Grows
  BY <1>1 DEF Grows, LeftNothing
<1> QED BY <1>3, <1>4, <1>5

(* A service that dies ends its requests and publishes nothing.            *)
LEMMA DyingGrows ==
  ASSUME TypeInv, ProgressInv, ServiceDies
  PROVE  TypeInv' /\ ProgressInv' /\ Grows
<1>1. /\ UNCHANGED <<requests, published>> /\ DOMAIN told' = Callers
      /\ waiting' = [c \in Callers |-> IF c \in Remote THEN 0 ELSE waiting[c]]
      /\ stage' = [id \in DOMAIN stage |-> IF IsRemote(id) THEN "over" ELSE stage[id]]
  BY DEF ServiceDies
<1>2. /\ Len(requests) \in Nat /\ DOMAIN stage = 1 .. Len(stage) /\ Len(stage) = Len(requests)
      /\ DOMAIN requests = 1 .. Len(requests)
      /\ \A id \in DOMAIN requests : stage[id] \in Stages
  BY DEF TypeInv
<1>3. /\ \A id \in DOMAIN requests : stage'[id] \in {"over", stage[id]}
      /\ stage' \in [1 .. Len(requests) -> Stages]
  BY <1>1, <1>2 DEF Stages
<1>4. stage' \in Seq(Stages) /\ Len(stage') = Len(requests)
  BY <1>2, <1>3
<1>5. TypeInv'
  BY <1>1, <1>2, <1>4 DEF TypeInv
<1>6. ProgressInv'
  BY <1>1, <1>3 DEF TypeInv, ProgressInv
<1>7. Grows
  <2>1. \A id \in DOMAIN requests : LeftNothing(id) => LeftNothing(id)'
    BY <1>1, <1>3 DEF LeftNothing
  <2> QED BY <1>1, <2>1 DEF Grows
<1> QED BY <1>5, <1>6, <1>7

(* So every step only adds: to the requests, to what is published, and to  *)
(* what is over.                                                           *)
LEMMA StepGrows ==
  ASSUME TypeInv, ProgressInv, Next
  PROVE  TypeInv' /\ ProgressInv' /\ Grows
<1>0. \A id \in DOMAIN requests : stage[id] \in Stages
  BY DEF TypeInv
<1>1. ASSUME NEW c \in Callers, Unreachable(c) PROVE TypeInv' /\ ProgressInv' /\ Grows
  <2>1. waiting[c] \in DOMAIN requests
    BY <1>1 DEF Unreachable, TypeInv
  <2>2. /\ waiting' = [waiting EXCEPT ![c] = 0] /\ stage' = [stage EXCEPT ![waiting[c]] = "over"]
        /\ DOMAIN told' = Callers /\ UNCHANGED <<requests, published>>
        /\ stage[waiting[c]] = "sent"
    BY <1>1 DEF Unreachable, Told, Over, TypeInv
  <2>3. waiting' \in [Callers -> 0 .. Len(requests)] /\ \A d \in Callers : waiting'[d] \in {0, waiting[d]}
    BY <2>2 DEF TypeInv
  <2> QED BY <2>1, <2>2, <2>3, WorkGrows DEF Stages
<1>2. ASSUME NEW id \in DOMAIN requests, NEW what, Answers(id, what), stage[id] # "over",
             UNCHANGED <<requests, published>>
      PROVE  TypeInv' /\ ProgressInv' /\ Grows
  BY <1>2, AnswersClose, WorkGrows DEF Stages
<1>3. ASSUME NEW id \in DOMAIN requests, Work(id) PROVE TypeInv' /\ ProgressInv' /\ Grows
  <2>1. CASE AskProvider(id)
    BY <2>1, WorkGrows DEF AskProvider, Stages, TypeInv
  <2>2. CASE Publish(id)
    BY <2>2, WorkGrows DEF Publish, Stages, TypeInv
  <2>3. CASE Perform(id) /\ requests[id].op = "fit"
    BY <2>3, WorkGrows DEF Perform, Stages, TypeInv
  <2>4. CASE \E what : Answers(id, what) /\ stage[id] # "over" /\ UNCHANGED <<requests, published>>
    BY <1>2, <2>4
  <2>5. ASSUME NEW class, NEW cause, Fails(id, class, cause) PROVE \E what : Answers(id, what)
    BY <2>5 DEF Fails
  <2> QED
    BY <1>3, <2>1, <2>2, <2>3, <2>4, <2>5
    DEF Work, Refuse, Complain, ProviderLost, Perform, Name, PublishFails, NameFails
<1> QED BY <1>1, <1>3, AskingGrows, WaitingGrows, DyingGrows DEF Next

-----------------------------------------------------------------------------
(* What is true stays true, and what is new is true.                       *)

LEMMA TrueStays ==
  ASSUME Grows
  PROVE  /\ \A c, what : TrueWhenTold(c, what) => TrueWhenTold(c, what)'
         /\ \A id \in DOMAIN requests : \A what :
              TrueOnItsWay(id, what) => TrueOnItsWay(id, what)'
<1>1. ASSUME NEW id \in DOMAIN requests, NEW what, IsTheAnswer(id, what)
      PROVE  IsTheAnswer(id, what)'
  BY <1>1 DEF Grows, IsTheAnswer, Handle, Forecast
<1>2. ASSUME NEW c, NEW what, TrueWhenTold(c, what) PROVE TrueWhenTold(c, what)'
  <2>1. CASE what = Nothing
    BY <2>1 DEF TrueWhenTold, Nothing
  <2>2. CASE what # Nothing
    <3>1. /\ what.id \in DOMAIN requests' /\ requests'[what.id].caller = c
      BY <1>2, <2>2 DEF TrueWhenTold, Grows
    <3>2. what.kind # "failure" => IsTheAnswer(what.id, what)'
      BY <1>1, <1>2, <2>2 DEF TrueWhenTold
    <3>3. what.kind = "failure" =>
            /\ what.class \in Classes
            /\ ~LeavesItOpen(c, what.class) => LeftNothing(what.id)'
      BY <1>2, <2>2 DEF TrueWhenTold, Grows
    <3> QED BY <3>1, <3>2, <3>3 DEF TrueWhenTold
  <2> QED BY <2>1, <2>2
<1>3. ASSUME NEW id \in DOMAIN requests, NEW what, TrueOnItsWay(id, what)
      PROVE  TrueOnItsWay(id, what)'
  BY <1>1, <1>3 DEF TrueOnItsWay, Grows
<1> QED BY <1>2, <1>3

(* An answer that is true when it is given keeps every answer true, whether*)
(* it is told at once or has a way to go.                                  *)
LEMMA AnsweredTruly ==
  ASSUME ServiceInv, Grows, UNCHANGED requests,
         NEW id \in DOMAIN requests, NEW what, Answers(id, what),
         IsRemote(id) => TrueOnItsWay(id, what)',
         ~IsRemote(id) => TrueWhenTold(CallerOf(id), what)'
  PROVE  TruthInv'
<1>1. \A other : IsRemote(other)' <=> IsRemote(other)
  BY DEF IsRemote, CallerOf
<1>2. ASSUME NEW other \in DOMAIN answer'
      PROVE  /\ other \in DOMAIN requests' /\ IsRemote(other)'
             /\ TrueOnItsWay(other, answer[other])' 
  <2>1. CASE other \in DOMAIN answer /\ answer'[other] = answer[other]
    BY <1>1, <2>1, TrueStays DEF ServiceInv, TruthInv
  <2>2. CASE IsRemote(id) /\ other = id /\ answer'[other] = what
    BY <1>1, <2>2
  <2> QED BY <1>2, <2>1, <2>2 DEF Answers
<1>3. ASSUME NEW c \in Callers PROVE TrueWhenTold(c, told[c])'
  <2>1. CASE told'[c] = told[c]
    BY <2>1, TrueStays DEF ServiceInv, TruthInv
  <2>2. CASE ~IsRemote(id) /\ c = CallerOf(id) /\ told'[c] = what
    <3>1. CallerOf(id)' = c
      BY <2>2 DEF CallerOf
    <3> QED BY <2>2, <3>1
  <2> QED BY <2>1, <2>2 DEF Answers, Told, ServiceInv, TypeInv
<1> QED BY <1>2, <1>3 DEF TruthInv

(* A failure that is OpenForecast's, but an unknown model, is told of a    *)
(* request that left nothing.                                              *)
LEMMA FailsTruly ==
  ASSUME ServiceInv, Grows, UNCHANGED requests,
         NEW id \in DOMAIN requests, NEW class \in Classes, NEW cause, Fails(id, class, cause),
         class \in {"builtin", "UnknownModelError"} \/ LeftNothing(id)'
  PROVE  TruthInv'
<1>1. CASE IsRemote(id)
  <2> DEFINE what == [Enveloped(id, class) EXCEPT !.cause = cause]
  <2>1. what.kind = "error" /\ what.envelope = EnvelopeOf(class)
    BY DEF Enveloped
  <2>2. EnvelopeOf(class) \in Known \ {"UnknownModelError"} => LeftNothing(id)'
    BY ServiceAssumption, OneRoot, BasesByName DEF EnvelopeOf, NoEnvelope, IsA, Classes,
       OfTheRequest, OfTheModel
  <2>3. TrueOnItsWay(id, what)'
    BY <2>1, <2>2 DEF TrueOnItsWay
  <2>4. Answers(id, what)
    BY <1>1 DEF Fails
  <2> QED BY <1>1, <2>3, <2>4, AnsweredTruly
<1>2. CASE ~IsRemote(id)
  <2>1. TrueWhenTold(CallerOf(id), Failure(id, class, cause))'
    BY OneRoot DEF TrueWhenTold, Failure, CallerOf, IsA, LeavesItOpen
  <2> QED BY <1>2, <2>1, AnsweredTruly DEF Fails
<1> QED BY <1>1, <1>2

(* What is told of a request that nobody says anything more of.            *)
LEMMA TruthFollows ==
  ASSUME ServiceInv, Grows,
         \A id \in DOMAIN answer' : id \in DOMAIN answer /\ answer'[id] = answer[id],
         \A c \in Callers : told'[c] = told[c] \/ TrueWhenTold(c, told[c])'
  PROVE  TruthInv'
<1>1. ASSUME NEW id \in DOMAIN answer'
      PROVE  id \in DOMAIN requests' /\ IsRemote(id)' /\ TrueOnItsWay(id, answer[id])'
  <2>1. id \in DOMAIN requests /\ IsRemote(id) /\ TrueOnItsWay(id, answer[id])
    BY <1>1 DEF ServiceInv, TruthInv
  <2>2. IsRemote(id)'
    BY <2>1 DEF Grows, IsRemote, CallerOf
  <2> QED BY <1>1, <2>1, <2>2, TrueStays DEF Grows
<1>2. ASSUME NEW c \in Callers PROVE TrueWhenTold(c, told[c])'
  <2>1. CASE told'[c] = told[c]
    BY <2>1, TrueStays DEF ServiceInv, TruthInv
  <2> QED BY <2>1
<1> QED BY <1>1, <1>2 DEF TruthInv

(* Two failures say nothing of what is left of a request: one that is not  *)
(* OpenForecast's, and a remote caller's ProviderError.                    *)
LEMMA FailuresThatSayNothing ==
  ASSUME Grows, NEW id \in DOMAIN requests, NEW cause
  PROVE  /\ TrueWhenTold(requests[id].caller, Failure(id, "builtin", cause))'
         /\ requests[id].caller \in Remote =>
              TrueWhenTold(requests[id].caller, Failure(id, "ProviderError", cause))'
<1>1. id \in DOMAIN requests' /\ requests'[id] = requests[id]
  BY DEF Grows
<1>2. /\ "builtin" \in Classes /\ ~IsA("builtin", "OpenForecastError")
      /\ "ProviderError" \in Classes /\ IsA("ProviderError", "ProviderError")
  BY OneRoot, BasesByName DEF IsA, Roots, Families
<1> QED BY <1>1, <1>2 DEF TrueWhenTold, Failure, LeavesItOpen

(* No step of a caller, the engine or the service tells what is not true,  *)
(* or puts it on its way.                                                  *)
LEMMA StepTruly ==
  ASSUME ServiceInv, Next
  PROVE  ServiceInv'
<1>0. TypeInv' /\ ProgressInv' /\ Grows
  BY StepGrows DEF ServiceInv
<1>1. ASSUME NEW c \in Callers, RefusedHere(c) PROVE TruthInv'
  <2>1. PICK class \in {"RecipeError", "DataError"} :
          told' = [told EXCEPT ![c] = Failure(Len(requests'), class, class)]
    BY <1>1 DEF RefusedHere
  <2>2. /\ Len(requests') \in DOMAIN requests' /\ requests'[Len(requests')].caller = c
        /\ stage'[Len(requests')] = "over" /\ Len(requests') \notin published'
    BY <1>1, LenProperties DEF RefusedHere, ServiceInv, TypeInv
  <2>3. class \in Classes
    BY BasesByName DEF Families
  <2>4. ASSUME NEW id \in DOMAIN requests', requests'[id].caller = c, LeftNothing(id)'
        PROVE  TrueWhenTold(c, Failure(id, class, class))'
    BY <2>3, <2>4 DEF TrueWhenTold, Failure
  <2>5. TrueWhenTold(c, told[c])'
    BY <2>1, <2>2, <2>4 DEF LeftNothing, ServiceInv, TypeInv
  <2>6. \A d \in Callers \ {c} : told'[d] = told[d]
    BY <2>1 DEF ServiceInv, TypeInv
  <2>7. UNCHANGED answer
    BY <1>1 DEF RefusedHere
  <2> QED BY <1>0, <2>5, <2>6, <2>7, TruthFollows
<1>2. ASSUME NEW c \in Callers, Ask(c) PROVE TruthInv'
  <2>1. UNCHANGED answer /\ \A d \in Callers : told'[d] = told[d] \/ told'[d] = Nothing
    BY <1>2 DEF Ask, ServiceInv, TypeInv
  <2>2. \A d \in Callers : told'[d] = told[d] \/ TrueWhenTold(d, told[d])'
    BY <2>1 DEF TrueWhenTold, Nothing
  <2> QED BY <1>0, <2>1, <2>2, TruthFollows
<1>3. ASSUME NEW c \in Callers, waiting[c] # 0, NEW class \in {"builtin", "ProviderError"},
             class = "builtin" \/ c \in Remote,
             told'[c] = Failure(waiting[c], class, class)
      PROVE  TrueWhenTold(c, told[c])'
  <2>1. waiting[c] \in DOMAIN requests /\ requests[waiting[c]].caller = c
    BY <1>3 DEF ServiceInv, TypeInv, ProgressInv
  <2>2. PICK id \in DOMAIN requests : id = waiting[c] /\ requests[id].caller = c
    BY <2>1
  <2>3. TrueWhenTold(requests[id].caller, Failure(id, class, class))'
    BY <1>0, <1>3, <2>2, FailuresThatSayNothing
  <2>4. requests'[id].caller = c
    BY <1>0, <2>2 DEF Grows
  <2> QED BY <1>3, <2>2, <2>3, <2>4
<1>4. ASSUME NEW c \in Callers, Unreachable(c) PROVE TruthInv'
  <2>1. /\ UNCHANGED answer /\ c \in Remote /\ waiting[c] # 0
        /\ told' = [told EXCEPT ![c] = Failure(waiting[c], "ProviderError", "ProviderError")]
    BY <1>4 DEF Unreachable, Told
  <2>2. \A d \in Callers \ {c} : told'[d] = told[d]
    BY <2>1 DEF ServiceInv, TypeInv
  <2>3. TrueWhenTold(c, told[c])'
    BY <1>3, <2>1 DEF ServiceInv, TypeInv
  <2> QED BY <1>0, <2>1, <2>2, <2>3, TruthFollows
<1>5. ASSUME NEW c \in Callers, GiveUp(c) PROVE TruthInv'
  <2>1. /\ waiting[c] # 0
        /\ told' = [told EXCEPT ![c] = Failure(waiting[c], "builtin", "builtin")]
        /\ \A id \in DOMAIN answer' : id \in DOMAIN answer /\ answer'[id] = answer[id]
    BY <1>5 DEF GiveUp, Told
  <2>2. TrueWhenTold(c, told[c])'
    BY <1>3, <2>1 DEF ServiceInv, TypeInv
  <2>3. \A d \in Callers \ {c} : told'[d] = told[d]
    BY <2>1 DEF ServiceInv, TypeInv
  <2> QED BY <1>0, <2>1, <2>2, <2>3, TruthFollows
<1>6. ASSUME ServiceDies PROVE TruthInv'
  <2>1. /\ \A id : id \notin DOMAIN answer'
        /\ told' = [c \in Callers |-> IF c \in Remote /\ waiting[c] # 0
                                      THEN Failure(waiting[c], "builtin", "builtin")
                                      ELSE told[c]]
    BY <1>6 DEF ServiceDies
  <2>2. ASSUME NEW c \in Callers PROVE told'[c] = told[c] \/ TrueWhenTold(c, told[c])'
    <3>1. CASE c \in Remote /\ waiting[c] # 0
      BY <1>3, <2>1, <3>1
    <3> QED BY <2>1, <3>1
  <2> QED BY <1>0, <2>1, <2>2, TruthFollows
<1>7. ASSUME NEW c \in Callers, Receive(c) PROVE TruthInv'
  <2>1. PICK id \in DOMAIN requests : id = waiting[c] /\ id \in DOMAIN answer
    BY <1>7 DEF Receive, ServiceInv, TruthInv
  <2>2. /\ told' = [told EXCEPT ![c] = Decoded(id, answer[id])]
        /\ \A other \in DOMAIN answer' : other \in DOMAIN answer /\ answer'[other] = answer[other]
    BY <1>7, <2>1 DEF Receive, Told
  <2>3. requests[id].caller = c /\ c \in Remote /\ TrueOnItsWay(id, answer[id])
    <3>1. id # 0
      BY <2>1 DEF ServiceInv, TypeInv
    <3> QED BY <2>1, <3>1 DEF ServiceInv, ProgressInv, TruthInv, IsRemote, CallerOf
  <2>4. ASSUME NEW what, what = Decoded(id, answer[id]) PROVE TrueWhenTold(c, what)
    <3>1. CASE answer[id].kind # "error"
      BY <2>3, <2>4, <3>1 DEF Decoded, TrueOnItsWay, TrueWhenTold, IsTheAnswer, Handle, Forecast
    <3>2. CASE answer[id].kind = "error" /\ answer[id].envelope \in Known \ {"UnknownModelError"}
      <4>1. what = Failure(id, answer[id].envelope, answer[id].cause)
        BY <2>4, <3>2 DEF Decoded, Raised
      <4>2. LeftNothing(id) /\ answer[id].envelope \in Classes
        BY <2>3, <3>2, ServiceAssumption DEF TrueOnItsWay
      <4> QED BY <2>3, <4>1, <4>2 DEF TrueWhenTold, Failure
    <3>3. CASE answer[id].kind = "error" /\ answer[id].envelope \notin Known
      <4>1. what = Failure(id, "ProviderError", answer[id].cause)
        BY <2>4, <3>3 DEF Decoded, Raised
      <4>2. "ProviderError" \in Classes /\ IsA("ProviderError", "ProviderError")
        BY OneRoot, BasesByName DEF IsA, Families
      <4> QED BY <2>3, <4>1, <4>2 DEF TrueWhenTold, Failure, LeavesItOpen
    <3>4. CASE answer[id].kind = "error" /\ answer[id].envelope = "UnknownModelError"
      <4>1. "UnknownModelError" \in Known /\ "UnknownModelError" \in Classes
        BY ServiceAssumption DEF Piped
      <4>2. what = Failure(id, "UnknownModelError", answer[id].cause)
        BY <2>4, <3>4, <4>1 DEF Decoded, Raised
      <4>3. IsA("UnknownModelError", "UnknownModelError")
        BY <4>1, OneRoot DEF IsA
      <4> QED BY <2>3, <4>1, <4>2, <4>3 DEF TrueWhenTold, Failure, LeavesItOpen
    <3> QED BY <3>1, <3>2, <3>3, <3>4
  <2>5. TrueWhenTold(c, told[c])'
    <3>1. PICK what : what = Decoded(id, answer[id])
      OBVIOUS
    <3>2. TrueWhenTold(c, what)'
      BY <1>0, <2>4, <3>1, TrueStays
    <3>3. told'[c] = what
      BY <2>2, <3>1 DEF ServiceInv, TypeInv
    <3> QED BY <3>2, <3>3
  <2>6. \A d \in Callers \ {c} : told'[d] = told[d]
    BY <2>2 DEF ServiceInv, TypeInv
  <2> QED BY <1>0, <2>2, <2>5, <2>6, TruthFollows
<1>8. ASSUME NEW id \in DOMAIN requests, NEW class \in Classes, NEW cause, Fails(id, class, cause),
             stage[id] \in {"sent", "provider"}, UNCHANGED <<requests, published>>
      PROVE  TruthInv'
  <2>1. stage'[id] = "over"
    BY <1>8 DEF Fails, Answers, Over, ServiceInv, TypeInv
  <2>2. id \notin published'
    BY <1>8 DEF ServiceInv, ProgressInv
  <2> QED BY <1>0, <1>8, <2>1, <2>2, FailsTruly DEF LeftNothing
<1>9. ASSUME UNCHANGED <<requests, answer, told>> PROVE TruthInv'
  BY <1>0, <1>9, TruthFollows
<1>10. ASSUME NEW id \in DOMAIN requests, NEW what, Answers(id, what), UNCHANGED <<requests, published>>,
              IsTheAnswer(id, what), what.kind \notin {"error", "failure"}, what.id = id
       PROVE  TruthInv'
  <2>1. TrueOnItsWay(id, what)
    BY <1>10 DEF TrueOnItsWay
  <2>2. TrueWhenTold(requests[id].caller, what)
    BY <1>10 DEF TrueWhenTold
  <2>3. TrueOnItsWay(id, what)' /\ TrueWhenTold(requests[id].caller, what)'
    <3>1. TrueWhenTold(requests[id].caller, what)'
      <4>1. PICK c : c = requests[id].caller
        OBVIOUS
      <4>2. TrueWhenTold(c, what)'
        BY <1>0, <2>2, <4>1, TrueStays
      <4> QED BY <1>10, <4>1, <4>2
    <3> QED BY <1>0, <2>1, <3>1, TrueStays
  <2> QED BY <1>0, <1>10, <2>3, AnsweredTruly DEF CallerOf
<1>11. ASSUME NEW id \in DOMAIN requests, Work(id) PROVE TruthInv'
  <2>1. CASE Refuse(id)
    BY <1>8, <2>1, ServiceAssumption DEF Refuse
  <2>2. CASE AskProvider(id) \/ Publish(id)
    BY <1>9, <2>2 DEF AskProvider, Publish
  <2>3. CASE Complain(id)
    <3>1. PICK class \in Complaints, here \in InProcess :
            Fails(id, IF here THEN class ELSE AcrossPipe(class), class)
      BY <2>3 DEF Complain
    <3>2. class \in Classes /\ AcrossPipe(class) \in Classes
      BY ServiceAssumption, PipeKeepsTheMeaning, BasesByName DEF Raisable, Roots
    <3> QED BY <1>8, <2>3, <3>1, <3>2 DEF Complain
  <2>4. CASE ProviderLost(id)
    BY <1>8, <2>4, BasesByName DEF ProviderLost, Families
  <2>5. CASE Perform(id)
    <3>1. CASE requests[id].op = "fit"
      BY <1>9, <2>5, <3>1 DEF Perform
    <3>2. CASE requests[id].op # "fit"
      <4>1. requests[id].op = "forecast"
        <5>1. id \in 1 .. Len(requests)
          BY DEF ServiceInv, TypeInv
        <5>2. requests[id] \in [caller : Callers, op : {"fit", "forecast"}]
          BY <5>1, ElementOfSeq DEF ServiceInv, TypeInv
        <5> QED BY <3>2, <5>2
      <4> QED BY <1>10, <2>5, <3>2, <4>1 DEF Perform, IsTheAnswer, Forecast
    <3> QED BY <3>1, <3>2
  <2>6. CASE Name(id)
    <3>1. requests[id].op = "fit" /\ id \in published
      BY <2>6 DEF Name, ServiceInv, ProgressInv
    <3> QED BY <1>10, <2>6, <3>1 DEF Name, IsTheAnswer, Handle
  <2>7. CASE PublishFails(id)
    BY <1>0, <2>7, BasesByName, FailsTruly DEF PublishFails, Roots
  <2>8. CASE NameFails(id)
    <3>1. PICK class \in {"builtin", "UnknownModelError"} : Fails(id, class, class)
      BY <2>8 DEF NameFails
    <3>2. class \in Classes
      BY ServiceAssumption, BasesByName DEF Raisable, Roots
    <3> QED BY <1>0, <2>8, <3>1, <3>2, FailsTruly DEF NameFails
  <2> QED BY <1>11, <2>1, <2>2, <2>3, <2>4, <2>5, <2>6, <2>7, <2>8 DEF Work
<1> QED BY <1>0, <1>1, <1>2, <1>4, <1>5, <1>6, <1>7, <1>11 DEF ServiceInv, Next

(* The inductive invariant of a service.                                   *)
LEMMA ServiceAlways == Spec => []ServiceInv
<1>1. ServiceInv /\ [Next]_vars => ServiceInv'
  <2>1. ServiceInv /\ UNCHANGED vars => ServiceInv'
    <3> SUFFICES ASSUME ServiceInv, UNCHANGED vars PROVE ServiceInv'
      OBVIOUS
    <3>1. Grows
      BY DEF vars, Grows, LeftNothing
    <3>2. TypeInv' /\ ProgressInv'
      BY DEF ServiceInv, vars, TypeInv, ProgressInv
    <3> QED BY <3>1, <3>2, TruthFollows DEF ServiceInv, vars
  <2> QED BY <2>1, StepTruly
<1> QED BY <1>1, ServiceInitially, PTL DEF Spec

(* HttpTransport._call, create_app, ArtifactStore.publish: for any         *)
(* callers and builds, whatever a caller asked before and gave up on, a    *)
(* handle is of its own published fit, a forecast of its own request, and  *)
(* a failure that is OpenForecast's - but an unknown model, and a remote   *)
(* caller's ProviderError - left nothing behind, so the fit may be asked   *)
(* for again.                                                              *)
THEOREM AnswersAreTrue == Spec => []AnswerTellsTheTruth
<1>1. ServiceInv => AnswerTellsTheTruth
  <2> SUFFICES ASSUME ServiceInv, NEW c \in Callers, NEW what, what = told[c]
               PROVE  /\ what.kind \in {"handle", "forecast"} =>
                           requests[what.id] =
                             [caller |-> c,
                              op |-> IF what.kind = "handle" THEN "fit" ELSE "forecast"]
                      /\ what.kind = "handle" => what.id \in published
                      /\ what.kind = "failure" /\ ~LeavesItOpen(c, what.class) =>
                           what.id \notin published
    BY DEF AnswerTellsTheTruth
  <2>1. TrueWhenTold(c, what)
    BY DEF ServiceInv, TruthInv
  <2>2. CASE what = Nothing
    BY <2>2 DEF Nothing
  <2>3. CASE what # Nothing /\ what.kind # "failure"
    <3>1. /\ what.id \in DOMAIN requests /\ requests[what.id].caller = c
          /\ IsTheAnswer(what.id, what)
      BY <2>1, <2>3 DEF TrueWhenTold
    <3>2. requests[what.id] \in [caller : Callers, op : {"fit", "forecast"}]
      <4>1. what.id \in 1 .. Len(requests)
        BY <3>1 DEF ServiceInv, TypeInv
      <4> QED BY <4>1, ElementOfSeq DEF ServiceInv, TypeInv
    <3> QED BY <2>3, <3>1, <3>2 DEF IsTheAnswer, Handle, Forecast
  <2>4. CASE what # Nothing /\ what.kind = "failure"
    BY <2>1, <2>4 DEF TrueWhenTold, LeftNothing
  <2> QED BY <2>2, <2>3, <2>4
<1> QED BY <1>1, ServiceAlways, PTL

-----------------------------------------------------------------------------
(* What a failure means to whoever is told of it.                          *)

KeepsItsMeaning(c, class, cause) ==
  IF cause \in (IF c \in Remote THEN Known ELSE Classes \ {"builtin"})
  THEN Ancestors[cause] \subseteq Ancestors[class]
  ELSE class \in {"builtin", "ProviderError"}

MeaningInv ==
  /\ \A id \in DOMAIN answer :
       answer[id].kind = "error" =>
         \A c \in Remote : KeepsItsMeaning(c, Raised(answer[id].envelope, Known), answer[id].cause)
  /\ \A c \in Callers :
       told[c].kind = "failure" => KeepsItsMeaning(c, told[c].class, told[c].cause)

(* What an engine fails with, and what went wrong where it was raised.     *)
Stands(class, cause) ==
  /\ class \in Classes /\ cause \in Classes
  /\ IF cause = "builtin" THEN class \in {"builtin", "ProviderError"}
     ELSE /\ class # "builtin" /\ Ancestors[cause] \subseteq Ancestors[class]
          /\ IF cause \in Known THEN class \in Known
             ELSE class \notin Known \/ class = "ProviderError"

(* It keeps its meaning for a caller beside the engine, and for one that   *)
(* is told of its envelope.                                                *)
LEMMA WhatStandsKeepsItsMeaning ==
  ASSUME NEW class, NEW cause, Stands(class, cause), NEW c
  PROVE  /\ c \notin Remote => KeepsItsMeaning(c, class, cause)
         /\ c \in Remote => KeepsItsMeaning(c, Raised(EnvelopeOf(class), Known), cause)
<1>1. /\ Known \subseteq Classes \ {"builtin"} /\ "ProviderError" \in Known
      /\ NoEnvelope \notin Known
  BY ServiceAssumption DEF Piped, NoEnvelope, Classes, OfTheRequest, OfTheModel
<1>2. EnvelopeOf(class) = IF class = "builtin" THEN NoEnvelope ELSE class
  BY OneRoot DEF EnvelopeOf, IsA, Stands
<1>3. c \notin Remote => KeepsItsMeaning(c, class, cause)
  BY <1>1 DEF Stands, KeepsItsMeaning
<1>4. c \in Remote => KeepsItsMeaning(c, Raised(EnvelopeOf(class), Known), cause)
  <2> SUFFICES ASSUME c \in Remote PROVE KeepsItsMeaning(c, Raised(EnvelopeOf(class), Known), cause)
    OBVIOUS
  <2>1. CASE cause \in Known
    <3>1. Raised(EnvelopeOf(class), Known) = class
      BY <1>1, <1>2, <2>1 DEF Stands, Raised
    <3> QED BY <1>1, <2>1, <3>1 DEF Stands, KeepsItsMeaning
  <2>2. CASE cause \notin Known
    <3>1. Raised(EnvelopeOf(class), Known) = "ProviderError"
      BY <1>1, <1>2, <2>2 DEF Stands, Raised
    <3> QED BY <2>2, <3>1 DEF KeepsItsMeaning
  <2> QED BY <2>1, <2>2
<1> QED BY <1>3, <1>4

(* A failure whose class stands for its cause keeps its meaning on either  *)
(* way to the caller.                                                      *)
LEMMA FailsKeepTheMeaning ==
  ASSUME ServiceInv, MeaningInv,
         NEW id \in DOMAIN requests, NEW class, NEW cause, Fails(id, class, cause),
         Stands(class, cause)
  PROVE  MeaningInv'
<1>1. CASE IsRemote(id)
  <2> DEFINE what == [Enveloped(id, class) EXCEPT !.cause = cause]
  <2>1. /\ what.kind = "error" /\ what.envelope = EnvelopeOf(class) /\ what.cause = cause
    BY DEF Enveloped
  <2>2. UNCHANGED told
    BY <1>1 DEF Fails, Answers
  <2>3. ASSUME NEW other \in DOMAIN answer'
        PROVE  \/ other \in DOMAIN answer /\ answer'[other] = answer[other]
               \/ other = id /\ answer'[other] = what
    BY <1>1, <2>3 DEF Fails, Answers
  <2>4. \A c \in Remote : KeepsItsMeaning(c, Raised(what.envelope, Known), what.cause)
    BY <2>1, WhatStandsKeepsItsMeaning
  <2> HIDE DEF what
  <2> QED BY <2>2, <2>3, <2>4 DEF MeaningInv
<1>2. CASE ~IsRemote(id)
  <2>1. UNCHANGED answer /\ told' = [told EXCEPT ![CallerOf(id)] = Failure(id, class, cause)]
    BY <1>2 DEF Fails, Answers, Told
  <2>2. KeepsItsMeaning(CallerOf(id), class, cause)
    BY <1>2, WhatStandsKeepsItsMeaning DEF IsRemote
  <2>3. ASSUME NEW c \in Callers, told'[c].kind = "failure"
        PROVE  KeepsItsMeaning(c, told'[c].class, told'[c].cause)
    <3>1. CASE c = CallerOf(id)
      <4>1. told'[c] = Failure(id, class, cause)
        BY <2>1, <3>1 DEF ServiceInv, TypeInv
      <4> QED BY <2>2, <3>1, <4>1 DEF Failure
    <3>2. CASE c # CallerOf(id)
      <4>1. told'[c] = told[c]
        BY <2>1, <3>2 DEF ServiceInv, TypeInv
      <4> QED BY <2>3, <4>1 DEF MeaningInv
    <3> QED BY <3>1, <3>2
  <2> QED BY <2>1, <2>3 DEF MeaningInv
<1> QED BY <1>1, <1>2

(* No step tells of a failure what its cause would not have said.          *)
LEMMA StepKeepsTheMeaning ==
  ASSUME ServiceInv, MeaningInv, Next
  PROVE  MeaningInv'
<1>0. /\ Known \subseteq Classes \ {"builtin"} /\ Complaints \subseteq Raisable
      /\ Refusals \subseteq Classes
      /\ "builtin" \in Classes /\ {"RecipeError", "DataError", "ProviderError"} \subseteq Known
  BY ServiceAssumption, BasesByName DEF Raisable, Roots
<1>1. ASSUME \A id \in DOMAIN answer' : id \in DOMAIN answer /\ answer'[id] = answer[id],
             \A c \in Callers :
               told'[c] = told[c] \/ (told'[c].kind = "failure" =>
                                         KeepsItsMeaning(c, told'[c].class, told'[c].cause))
      PROVE  MeaningInv'
  BY <1>1 DEF MeaningInv
<1>2. \A c : /\ KeepsItsMeaning(c, "builtin", "builtin")
             /\ \A class \in {"RecipeError", "DataError", "ProviderError"} :
                  KeepsItsMeaning(c, class, class)
  BY <1>0 DEF KeepsItsMeaning
<1>3. ASSUME NEW c \in Callers,
             \E id : \E class \in {"builtin", "RecipeError", "DataError", "ProviderError"} :
               told' = [told EXCEPT ![c] = Failure(id, class, class)],
             \A id \in DOMAIN answer' : id \in DOMAIN answer /\ answer'[id] = answer[id]
      PROVE  MeaningInv'
  <2>0. PICK id : \E class \in {"builtin", "RecipeError", "DataError", "ProviderError"} :
          told' = [told EXCEPT ![c] = Failure(id, class, class)]
    BY <1>3
  <2>1. PICK class \in {"builtin", "RecipeError", "DataError", "ProviderError"} :
          told' = [told EXCEPT ![c] = Failure(id, class, class)]
    BY <2>0
  <2>2. told'[c] = Failure(id, class, class) /\ \A d \in Callers \ {c} : told'[d] = told[d]
    BY <2>1 DEF ServiceInv, TypeInv
  <2>3. told'[c].class = class /\ told'[c].cause = class
    BY <2>2 DEF Failure
  <2> QED BY <1>1, <1>2, <1>3, <2>2, <2>3
<1>4. ASSUME NEW c \in Callers, RefusedHere(c) \/ Unreachable(c) \/ GiveUp(c) PROVE MeaningInv'
  BY <1>3, <1>4 DEF RefusedHere, Unreachable, GiveUp, Told
<1>5. ASSUME NEW c \in Callers, Ask(c) PROVE MeaningInv'
  BY <1>1, <1>5 DEF Ask, Nothing, ServiceInv, TypeInv
<1>6. ASSUME ServiceDies PROVE MeaningInv'
  <2>1. /\ \A id : id \notin DOMAIN answer'
        /\ \A c \in Callers :
             told'[c] = told[c] \/ told'[c] = Failure(waiting[c], "builtin", "builtin")
    BY <1>6 DEF ServiceDies
  <2>2. \A id : Failure(id, "builtin", "builtin").class = "builtin"
                /\ Failure(id, "builtin", "builtin").cause = "builtin"
    BY DEF Failure
  <2>3. ASSUME NEW c \in Callers, told'[c] # told[c]
        PROVE  KeepsItsMeaning(c, told'[c].class, told'[c].cause)
    BY <1>2, <2>1, <2>2, <2>3
  <2> QED BY <1>1, <2>1, <2>3
<1>7. ASSUME NEW c \in Callers, Receive(c) PROVE MeaningInv'
  <2>1. PICK id \in DOMAIN requests : id = waiting[c] /\ id \in DOMAIN answer
    BY <1>7 DEF Receive, ServiceInv, TruthInv
  <2>2. /\ told' = [told EXCEPT ![c] = Decoded(id, answer[id])]
        /\ \A other \in DOMAIN answer' : other \in DOMAIN answer /\ answer'[other] = answer[other]
    BY <1>7, <2>1 DEF Receive, Told
  <2>3. requests[id].caller = c /\ c \in Remote /\ TrueOnItsWay(id, answer[id])
    <3>1. id # 0
      BY <2>1 DEF ServiceInv, TypeInv
    <3> QED BY <2>1, <3>1 DEF ServiceInv, ProgressInv, TruthInv, IsRemote, CallerOf
  <2>4. /\ told'[c] = Decoded(id, answer[id])
        /\ \A d \in Callers \ {c} : told'[d] = told[d]
    BY <2>2 DEF ServiceInv, TypeInv
  <2>5. CASE answer[id].kind = "error"
    <3>1. /\ told'[c].class = Raised(answer[id].envelope, Known)
          /\ told'[c].cause = answer[id].cause
      BY <2>4, <2>5 DEF Decoded, Failure
    <3>2. KeepsItsMeaning(c, told'[c].class, told'[c].cause)
      BY <2>1, <2>3, <2>5, <3>1 DEF MeaningInv
    <3> QED BY <1>1, <2>2, <2>4, <3>2
  <2>6. CASE answer[id].kind # "error"
    <3>1. told'[c].kind # "failure"
      BY <2>3, <2>4, <2>6 DEF Decoded, TrueOnItsWay, IsTheAnswer, Handle, Forecast
    <3> QED BY <1>1, <2>2, <2>4, <3>1
  <2> QED BY <2>5, <2>6
<1>8. ASSUME NEW id \in DOMAIN requests, NEW what, Answers(id, what),
             what.kind \notin {"error", "failure"}
      PROVE  MeaningInv'
  <2>1. \A other \in DOMAIN answer' :
          answer'[other] = what \/ (other \in DOMAIN answer /\ answer'[other] = answer[other])
    BY <1>8 DEF Answers
  <2>2. \A c \in Callers : told'[c] = told[c] \/ told'[c] = what
    BY <1>8 DEF Answers, Told, ServiceInv, TypeInv
  <2> QED BY <1>8, <2>1, <2>2 DEF MeaningInv
<1>9. ASSUME NEW id \in DOMAIN requests, Work(id) PROVE MeaningInv'
  <2>1. CASE Refuse(id)
    <3>1. PICK class \in Refusals : Fails(id, class, class)
      BY <2>1 DEF Refuse
    <3>2. Stands(class, class)
      BY <1>0 DEF Stands
    <3> QED BY <3>1, <3>2, FailsKeepTheMeaning
  <2>2. CASE AskProvider(id) \/ Publish(id) \/ (Perform(id) /\ requests[id].op = "fit")
    BY <1>1, <2>2 DEF AskProvider, Publish, Perform
  <2>3. CASE Complain(id)
    <3>1. PICK cause \in Complaints, here \in InProcess :
            Fails(id, IF here THEN cause ELSE AcrossPipe(cause), cause)
      BY <2>3 DEF Complain
    <3>2. cause \in Classes /\ (cause = "builtin" \/ cause \in Known)
      BY <1>0, ServiceAssumption
    <3>3. Stands(cause, cause)
      BY <3>2 DEF Stands
    <3>4. Stands(AcrossPipe(cause), cause)
      BY <1>0, <3>2, PipeKeepsTheMeaning DEF Stands
    <3> QED BY <3>1, <3>3, <3>4, FailsKeepTheMeaning
  <2>4. CASE ProviderLost(id) \/ PublishFails(id) \/ NameFails(id)
    <3>1. \A class \in {"builtin", "ProviderError", "UnknownModelError"} : Stands(class, class)
      BY <1>0, ServiceAssumption DEF Stands, Raisable
    <3> QED BY <2>4, <3>1, FailsKeepTheMeaning DEF ProviderLost, PublishFails, NameFails
  <2>5. CASE Name(id) \/ (Perform(id) /\ requests[id].op # "fit")
    BY <1>8, <2>5 DEF Name, Perform, Handle, Forecast
  <2> QED BY <1>9, <2>1, <2>2, <2>3, <2>4, <2>5 DEF Work
<1> QED BY <1>4, <1>5, <1>6, <1>7, <1>9 DEF Next

(* ProviderServer._dispatch, SubprocessProvider._error, create_app and     *)
(* _reraise: for any builds and whatever the engine refuses, a handler     *)
(* that catches a failure where it was raised catches what a caller is     *)
(* told of it, and what nobody's handler knows is never told as the        *)
(* caller's own mistake.                                                   *)
THEOREM MeaningIsKept == Spec => []FailuresKeepTheirMeaning
<1>1. Init => MeaningInv
  BY DEF Init, MeaningInv, Nothing
<1>2. ServiceInv /\ MeaningInv /\ [Next]_vars => MeaningInv'
  <2>1. MeaningInv /\ UNCHANGED vars => MeaningInv'
    BY DEF vars, MeaningInv
  <2> QED BY <2>1, StepKeepsTheMeaning
<1>3. MeaningInv => FailuresKeepTheirMeaning
  BY DEF MeaningInv, FailuresKeepTheirMeaning, KeepsItsMeaning
<1> QED BY <1>1, <1>2, <1>3, ServiceAlways, PTL DEF Spec
=============================================================================
