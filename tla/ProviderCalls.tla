--------------------------- MODULE ProviderCalls ---------------------------
(***************************************************************************)
(* What whoever calls a provider is promised, wherever the provider runs:  *)
(* a call is performed at most once and only while its caller waits for    *)
(* it, and it succeeds only if it was performed.                           *)
(*                                                                         *)
(* ProviderWire.tla implements this specification over a child process.    *)
(***************************************************************************)

CONSTANT Calls

VARIABLES
  status,     (* what the caller of each call knows of it                  *)
  performed   (* the calls whose work the provider has done                *)

vars == <<status, performed>>

Init ==
  /\ status = [i \in Calls |-> "unasked"]
  /\ performed = {}

Ask(i) ==
  /\ status[i] = "unasked"
  /\ status' = [status EXCEPT ![i] = "open"]
  /\ UNCHANGED performed

Perform(i) ==
  /\ status[i] = "open"
  /\ i \notin performed
  /\ performed' = performed \cup {i}
  /\ UNCHANGED status

Succeed(i) ==
  /\ status[i] = "open"
  /\ i \in performed
  /\ status' = [status EXCEPT ![i] = "ok"]
  /\ UNCHANGED performed

(* A call may fail after its work was done: the answer was lost. *)
Fail(i) ==
  /\ status[i] = "open"
  /\ status' = [status EXCEPT ![i] = "failed"]
  /\ UNCHANGED performed

Next == \E i \in Calls : Ask(i) \/ Perform(i) \/ Succeed(i) \/ Fail(i)

Spec == Init /\ [][Next]_vars
=============================================================================
