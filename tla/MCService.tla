------------------------------ MODULE MCService ------------------------------
(* One caller with an engine of its own and one that reaches a service.     *)
EXTENDS Service

TheCallers == {"local", "remote"}
TheRemote == {"remote"}

(* The remote caller's build is older than one of the classes.              *)
OlderBuild == Classes \ {"builtin", "UnsupportedFeature"}

EngineRefuses ==
  {"SchemaError", "UnsupportedFeature", "ModelRequiresFit", "UnknownModelError",
   "ProviderNotInstalled"}

ModelsComplain ==
  {"UnknownModelError", "RecipeError", "DataError", "ProviderError", "builtin"}
=============================================================================
