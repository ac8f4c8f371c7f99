-------------------------- MODULE MCArtifactStore --------------------------
(* Instances of ArtifactStore for TLC. *)
EXTENDS ArtifactStore
=============================================================================
