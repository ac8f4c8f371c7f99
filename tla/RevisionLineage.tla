-------------------------- MODULE RevisionLineage --------------------------
(***************************************************************************)
(* What the artifact store promises to whoever holds a reference, with no  *)
(* file, process or crash in sight: a revision is unborn, then live, then  *)
(* deleted, and never comes back; it belongs to one lineage from its birth *)
(* on; and a name is either silent or points at a revision that was born   *)
(* in the lineage of that name.                                            *)
(*                                                                         *)
(* ArtifactStore.tla implements this specification.                        *)
(***************************************************************************)

CONSTANTS
  Revisions,   (* the artifact ids a fit may mint                          *)
  Names,       (* the names a model may be fitted under                    *)
  NoRevision,  (* what a silent name points at: none of them               *)
  NoName       (* the lineage of an unborn revision: none of the names     *)

VARIABLES
  status,   (* whether a reference that pins the revision resolves         *)
  family,   (* the name the revision was fitted under                      *)
  pointer   (* the revision a reference that pins nothing means            *)

vars == <<status, family, pointer>>

Init ==
  /\ status  = [r \in Revisions |-> "unborn"]
  /\ family  = [r \in Revisions |-> NoName]
  /\ pointer = [n \in Names |-> NoRevision]

(* A fit is published, whole, under the name it was given. *)
Born(r, n) ==
  /\ status[r] = "unborn"
  /\ status' = [status EXCEPT ![r] = "live"]
  /\ family' = [family EXCEPT ![r] = n]
  /\ UNCHANGED pointer

(* The revision stops resolving. *)
Retire(r) ==
  /\ status[r] = "live"
  /\ status' = [status EXCEPT ![r] = "deleted"]
  /\ UNCHANGED <<family, pointer>>

(* The name is moved to a revision of its own lineage. A concurrent        *)
(* deletion may have retired that revision since it was chosen.            *)
Point(n, r) ==
  /\ status[r] # "unborn"
  /\ family[r] = n
  /\ pointer' = [pointer EXCEPT ![n] = r]
  /\ UNCHANGED <<status, family>>

(* The name goes silent: it was removed, or it is about to be rewritten. *)
Silence(n) ==
  /\ pointer' = [pointer EXCEPT ![n] = NoRevision]
  /\ UNCHANGED <<status, family>>

Next ==
  \/ \E r \in Revisions, n \in Names : Born(r, n) \/ Point(n, r)
  \/ \E r \in Revisions : Retire(r)
  \/ \E n \in Names : Silence(n)

Spec == Init /\ [][Next]_vars
=============================================================================
