------------------------------ MODULE Failures ------------------------------
(***************************************************************************)
(* What went wrong, and what is left of that on the far side of a pipe or  *)
(* of a socket (errors.py, providers/serve.py, runtime/subprocess.py,      *)
(* server/app.py, server/transport.py).                                    *)
(*                                                                         *)
(* A failure is its class. Every class has a code of its own, so the code  *)
(* of a failure says no less and no more; messages and details are left    *)
(* out. "builtin" is any exception that is not OpenForecast's.             *)
(***************************************************************************)
EXTENDS Naturals

(* What each class derives from: the failures of what is asked, and those  *)
(* of what it is asked of.                                                 *)
OfTheRequest ==
  [SchemaError              |-> {"OpenForecastError"},
   FrequencyError           |-> {"SchemaError"},
   RecipeError              |-> {"SchemaError"},
   InvalidModelParameters   |-> {"RecipeError"},
   UnsupportedPlanError     |-> {"RecipeError"},
   DataError                |-> {"OpenForecastError"},
   UnsupportedDataShape     |-> {"DataError"},
   UnsupportedFeature       |-> {"DataError"},
   UnsupportedOutput        |-> {"DataError"},
   InconsistentTruthError   |-> {"DataError"},
   OriginScopeError         |-> {"OpenForecastError"}]

OfTheModel ==
  [ModelError               |-> {"OpenForecastError"},
   ModelRefError            |-> {"ModelError", "SchemaError"},
   UnknownModelError        |-> {"ModelError"},
   ModelRequiresFit         |-> {"ModelError"},
   ModelDoesNotSupportFit   |-> {"ModelError"},
   IncompatibleForecastTask |-> {"ModelError"},
   DuplicateModelError      |-> {"ModelError"},
   ProviderError            |-> {"OpenForecastError"},
   ProviderNotInstalled     |-> {"ProviderError"},
   ArtifactError            |-> {"OpenForecastError"}]

Classes == DOMAIN OfTheRequest \cup DOMAIN OfTheModel \cup {"OpenForecastError", "builtin"}

Bases ==
  [c \in Classes |-> IF c \in DOMAIN OfTheRequest THEN OfTheRequest[c]
                    ELSE IF c \in DOMAIN OfTheModel THEN OfTheModel[c] ELSE {}]

Ancestors[c \in Classes] == {c} \cup UNION {Ancestors[base] : base \in Bases[c]}

IsA(class, handler) == handler \in Ancestors[class]

-----------------------------------------------------------------------------
(* From a provider's process to the engine's.                              *)

(* Mutant of Clauses: the wider declaration errors are caught first. *)
ClausesFromWide ==
  << <<{"ModelError"}, "UNKNOWN_MODEL">>,
     <<{"DataError", "SchemaError"}, "INVALID_VIEW">>,
     <<{"RecipeError"}, "INVALID_MODEL_PARAMETERS">>,
     <<{"OpenForecastError"}, "EXECUTION_FAILED">>,
     <<Classes, "INTERNAL_ERROR">> >>

(* What catches a failure, in the order it is written, and the code it is  *)
(* answered with.                                                          *)
Clauses ==
  << <<{"ModelError"}, "UNKNOWN_MODEL">>,
     <<{"RecipeError"}, "INVALID_MODEL_PARAMETERS">>,
     <<{"DataError", "SchemaError"}, "INVALID_VIEW">>,
     <<{"OpenForecastError"}, "EXECUTION_FAILED">>,
     <<Classes, "INTERNAL_ERROR">> >>

CodeOf(class) ==
  LET catching == {n \in DOMAIN Clauses : Ancestors[class] \cap Clauses[n][1] # {}}
      first == CHOOSE n \in catching : \A m \in catching : n <= m
  IN Clauses[first][2]

ClassOf ==
  [UNKNOWN_MODEL            |-> "UnknownModelError",
   INVALID_MODEL_PARAMETERS |-> "InvalidModelParameters",
   INVALID_VIEW             |-> "DataError"]

AcrossPipe(class) ==
  LET code == CodeOf(class) IN IF code \in DOMAIN ClassOf THEN ClassOf[code] ELSE "ProviderError"

-----------------------------------------------------------------------------
(* From a service to its client. What is not OpenForecast's own is not     *)
(* handled, and comes as a status without an envelope.                     *)

NoEnvelope == "none"

StatusOf(class) ==
  CASE IsA(class, "UnknownModelError") -> 404
    [] IsA(class, "ProviderError") -> 502
    [] class = "builtin" -> 500
    [] OTHER -> 422

(* Mutant of EnvelopeOf: whatever was not foreseen is told as a failure of OpenForecast. *)
EnvelopeForAll(class) == IF class = "builtin" THEN "OpenForecastError" ELSE class

EnvelopeOf(class) == IF IsA(class, "OpenForecastError") THEN class ELSE NoEnvelope

(* Only what the client's own build calls an error of OpenForecast is      *)
(* raised as itself.                                                       *)
Raised(envelope, known) == IF envelope \in known THEN envelope ELSE "ProviderError"
=============================================================================
