--------------------------- MODULE MCProviderWire ---------------------------
(* Instances of ProviderWire for TLC. *)
EXTENDS ProviderWire
=============================================================================
