-------------------------- MODULE NativeParameters --------------------------
(***************************************************************************)
(* The parameters only a provider understands (providers/native.py): what  *)
(* is read off the constructor of a library's class, what is published of  *)
(* it, and what a bag of parameters is checked against before the class is *)
(* called.                                                                 *)
(*                                                                         *)
(*   value        [type, size]                                             *)
(*   constructor  parameter -> [types, choices, default]                   *)
(*   parameter    [types, choices, minimum, maximum, required]             *)
(*   adapter      [protocol, declares, parameters, defaults, sets]         *)
(*   params       parameter -> value                                       *)
(*                                                                         *)
(* The size of a number is its value; of anything else it only tells       *)
(* values apart. The types of an annotation are its alternatives, without  *)
(* None; no types and no choices is an annotation that says nothing.       *)
(* "opaque" is whatever does not survive JSON.                             *)
(***************************************************************************)
EXTENDS Integers, FiniteSetsExt

NoDefault == [type |-> "missing", size |-> 0]
NoBound == [type |-> "none", size |-> 0]

Number(n) == [type |-> "integer", size |-> n]
Word(n) == [type |-> "string", size |-> n]
NoParams == [name \in {} |-> NoDefault]
Seed == [type |-> "seed", size |-> 0]

(* What one mapping says goes over what another says of the same name.     *)
Over(upper, lower) ==
  [name \in DOMAIN upper \cup DOMAIN lower |-> IF name \in DOMAIN upper THEN upper[name] ELSE lower[name]]

Named(name, value) == [n \in {name} |-> value]

IsNumber(value) == value.type \in {"integer", "number"}

(* _matches_json_type                                                      *)
Matches(value, type) == value.type = type \/ (type = "number" /\ value.type = "integer")

-----------------------------------------------------------------------------
(* parameters_from_signature. What an annotation does not say is told from *)
(* the default; a parameter that stays untyped is not offered, and a class *)
(* that requires one cannot be constructed from JSON.                      *)

SaysNothing(native) == native.types = {} /\ native.choices = {}
IsTyped(native) ==
  IF SaysNothing(native) THEN native.default.type \notin {"missing", "null", "opaque"}
  ELSE \A choice \in native.choices : choice.type # "opaque"

ParameterOf(native) ==
  [ types    |-> IF SaysNothing(native) THEN {native.default.type} ELSE native.types,
    choices  |-> native.choices,
    minimum  |-> NoBound,
    maximum  |-> NoBound,
    required |-> native.default = NoDefault ]

Discovered(constructor, reserved) ==
  [name \in {n \in DOMAIN constructor \ reserved : IsTyped(constructor[n])} |->
     ParameterOf(constructor[name])]

IsConstructible(constructor, reserved) ==
  \A name \in DOMAIN constructor \ reserved :
    constructor[name].default = NoDefault => IsTyped(constructor[name])

(* A parameter that an integration declares by hand.                       *)
AtLeast(type, least) ==
  [types |-> {type}, choices |-> {}, minimum |-> Number(least), maximum |-> NoBound, required |-> FALSE]
OneOf(values) ==
  [types |-> {"string"}, choices |-> values, minimum |-> NoBound, maximum |-> NoBound, required |-> FALSE]
Between(type, least, most) == [AtLeast(type, least) EXCEPT !.maximum = Number(most)]
Flag == [types |-> {"boolean"}, choices |-> {}, minimum |-> NoBound, maximum |-> NoBound, required |-> FALSE]

-----------------------------------------------------------------------------
(* checked. A parameter of several alternative types has no one type to be *)
(* checked against.                                                        *)

InBounds(parameter, value) ==
  IsNumber(value) =>
    /\ parameter.minimum # NoBound => value.size >= parameter.minimum.size
    /\ parameter.maximum # NoBound => value.size <= parameter.maximum.size

Check(parameter, value) ==
  /\ \A type \in parameter.types : parameter.types = {type} => Matches(value, type)
  /\ InBounds(parameter, value)
  /\ parameter.choices # {} => value \in parameter.choices

Checked(params, declared) ==
  /\ DOMAIN params \subseteq DOMAIN declared
  /\ \A name \in DOMAIN declared : declared[name].required => name \in DOMAIN params
  /\ \A name \in DOMAIN params : Check(declared[name], params[name])

(* schema_of, as whoever reads the catalog applies it.                     *)
Published(parameter, value) ==
  /\ parameter.types # {} => \E type \in parameter.types : Matches(value, type)
  /\ InBounds(parameter, value)
  /\ parameter.choices # {} => value \in parameter.choices

Admits(declared, params) ==
  /\ DOMAIN params \subseteq DOMAIN declared
  /\ \A name \in DOMAIN declared : declared[name].required => name \in DOMAIN params
  /\ \A name \in DOMAIN params : Published(declared[name], params[name])

(* What a recipe states elsewhere, under the names the libraries have for  *)
(* it: a recipe with such a parameter is not one.                          *)
OwnedParameters ==
  { "input_size", "input_chunk_length", "context_length", "window_length",
    "output_chunk_length", "h", "horizon", "fh", "freq", "frequency",
    "random_state", "random_seed", "seed", "hist_exog_list", "futr_exog_list",
    "stat_exog_list", "past_covariates", "future_covariates" }

IsRecipeOf(params) == DOMAIN params \cap OwnedParameters = {}

-----------------------------------------------------------------------------
(* What the class is called with. Its caller's parameters go over the      *)
(* defaults of the adapter, and a parameter cannot be given twice.         *)
Settings(adapter, params, compiled) == Over(compiled, Over(params, adapter.defaults))

Instantiates(adapter, params, compiled) ==
  /\ Checked(params, adapter.parameters)
  /\ DOMAIN params \cap DOMAIN compiled = {}

(* A catalog: the adapters that were written by hand, and one for every    *)
(* class of the library that is offered and whose name is not taken.       *)
Catalogued(certified, library, Offered(_), AdapterOf(_)) ==
  LET offered == {n \in DOMAIN library : Offered(library[n]) /\ library[n].name \notin DOMAIN certified}
      first(name) == Min({n \in offered : library[n].name = name})
  IN Over(certified, [name \in {library[n].name : n \in offered} |-> AdapterOf(library[first(name)])])

Adapter(protocol, declares, parameters) ==
  [ protocol |-> protocol, declares |-> declares, parameters |-> parameters,
    defaults |-> NoParams, sets |-> {} ]
=============================================================================
