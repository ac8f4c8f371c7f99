----------------------- MODULE MCProviderEnvironments -----------------------
(* Instances of ProviderEnvironments for TLC. *)
EXTENDS ProviderEnvironments
=============================================================================
