------------------------------- MODULE Service -------------------------------
(***************************************************************************)
(* One service and its clients (client.py, server/): callers that hold an  *)
(* engine of their own, and callers that reach the service's over HTTP.    *)
(*                                                                         *)
(* Both hand the same request to an engine; a remote caller may give up    *)
(* waiting, may not reach the service or lose it, and may ask again while  *)
(* the service works on what nobody waits for any more. The service takes  *)
(* requests in worker threads, so several are under way at once.           *)
(*                                                                         *)
(* What the engine does with a request is Engine's and ArtifactStore's:    *)
(* here it refuses it, or has a provider work on it, and then publishes    *)
(* what a fit left, first the revision and then the name it goes by.       *)
(***************************************************************************)
EXTENDS Failures, Sequences

CONSTANTS
  Callers,
  Remote,          (* the callers that reach the service over HTTP         *)
  Known,           (* the classes of OpenForecast a remote caller's build has *)
  Refusals,        (* what the engine refuses a request with               *)
  Complaints,      (* what a provider raises                               *)
  InProcess,       (* whether providers may run in the engine's process    *)
  MaxRequests      (* requests of one behaviour. Bounds the model.         *)

(* What the bundled providers raise of what they are asked (a fit of a     *)
(* model that only forecasts is refused before), and what their pipe makes *)
(* of it. Every build of a client has these classes.                       *)
Raisable == {"UnknownModelError", "RecipeError", "DataError", "ProviderError", "builtin"}
Piped == {"UnknownModelError", "InvalidModelParameters", "DataError", "ProviderError"}

ASSUME ServiceAssumption ==
  /\ Remote \subseteq Callers
  /\ Known \subseteq Classes \ {"builtin"} /\ Piped \cup (Raisable \ {"builtin"}) \subseteq Known
  /\ Refusals \subseteq Classes /\ Complaints \subseteq Raisable
  /\ InProcess \subseteq BOOLEAN
  /\ MaxRequests \in Nat

VARIABLES
  requests,   (* what was asked: a sequence of [caller, op]                *)
  waiting,    (* the request every caller waits for, 0 for none            *)
  stage,      (* where each request is: "sent", "provider", "staged",      *)
              (* "unnamed" or "over"                                       *)
  published,  (* the requests whose fit was published                      *)
  answer,     (* what the service has answered to whom it may concern      *)
  told        (* what the last call of every caller came to                *)

vars == <<requests, waiting, stage, published, answer, told>>

Nothing == [kind |-> "nothing"]
Handle(id) == [kind |-> "handle", id |-> id]
Forecast(id) == [kind |-> "forecast", id |-> id]

(* A failure, with what went wrong where it was raised: the model's own.   *)
Failure(id, class, cause) == [kind |-> "failure", id |-> id, class |-> class, cause |-> cause]

CallerOf(id) == requests[id].caller
IsRemote(id) == CallerOf(id) \in Remote

Over(id) == stage' = [stage EXCEPT ![id] = "over"]

Told(c, what) == told' = [told EXCEPT ![c] = what] /\ waiting' = [waiting EXCEPT ![c] = 0]

-----------------------------------------------------------------------------
(* A caller.                                                               *)

(* _fittable, _fitted_ref, encode_data: refused before anything is sent.   *)
RefusedHere(c) ==
  /\ waiting[c] = 0 /\ Len(requests) < MaxRequests
  /\ \E op \in {"fit", "forecast"}, class \in {"RecipeError", "DataError"} :
       /\ requests' = Append(requests, [caller |-> c, op |-> op])
       /\ told' = [told EXCEPT ![c] = Failure(Len(requests'), class, class)]
  /\ stage' = Append(stage, "over")
  /\ UNCHANGED <<waiting, published, answer>>

Ask(c) ==
  /\ waiting[c] = 0 /\ Len(requests) < MaxRequests
  /\ \E op \in {"fit", "forecast"} :
       requests' = Append(requests, [caller |-> c, op |-> op])
  /\ waiting' = [waiting EXCEPT ![c] = Len(requests')]
  /\ stage' = Append(stage, "sent")
  /\ told' = [told EXCEPT ![c] = Nothing]
  /\ UNCHANGED <<published, answer>>

(* The service is not reached: a URLError, before anything was received.   *)
Unreachable(c) ==
  /\ c \in Remote /\ waiting[c] # 0 /\ stage[waiting[c]] = "sent"
  /\ Over(waiting[c])
  /\ Told(c, Failure(waiting[c], "ProviderError", "ProviderError"))
  /\ UNCHANGED <<requests, published, answer>>

(* The time for an answer has passed, which is not a URLError.             *)
GiveUp(c) ==
  /\ c \in Remote /\ waiting[c] # 0
  /\ Told(c, Failure(waiting[c], "builtin", "builtin"))
  /\ answer' = [id \in DOMAIN answer \ {waiting[c]} |-> answer[id]]
  /\ UNCHANGED <<requests, stage, published>>

-----------------------------------------------------------------------------
(* The engine, in the process of the caller or behind the router.          *)

(* The answer is the caller's at once, or an HTTP response.                *)
Answers(id, what) ==
  /\ Over(id)
  /\ IF IsRemote(id)
     THEN /\ answer' = IF waiting[CallerOf(id)] = id
                       THEN [of \in DOMAIN answer \cup {id} |->
                               IF of = id THEN what ELSE answer[of]]
                       ELSE answer
          /\ UNCHANGED <<told, waiting>>
     ELSE Told(CallerOf(id), what) /\ UNCHANGED answer

(* The exception handler of the application.                               *)
Enveloped(id, class) ==
  [kind |-> "error", status |-> StatusOf(class), envelope |-> EnvelopeOf(class), cause |-> class]

Fails(id, class, cause) ==
  IF IsRemote(id)
  THEN Answers(id, [Enveloped(id, class) EXCEPT !.cause = cause])
  ELSE Answers(id, Failure(id, class, cause))

Refuse(id) ==
  /\ stage[id] = "sent"
  /\ \E class \in Refusals : Fails(id, class, class)
  /\ UNCHANGED <<requests, published>>

AskProvider(id) ==
  /\ stage[id] = "sent"
  /\ stage' = [stage EXCEPT ![id] = "provider"]
  /\ UNCHANGED <<requests, waiting, published, answer, told>>

(* It raises, here or in a process of its own.                             *)
Complain(id) ==
  /\ stage[id] = "provider"
  /\ \E class \in Complaints, here \in InProcess :
       Fails(id, IF here THEN class ELSE AcrossPipe(class), class)
  /\ UNCHANGED <<requests, published>>

(* It is killed when its time has passed, or crashes.                      *)
ProviderLost(id) ==
  /\ stage[id] = "provider"
  /\ Fails(id, "ProviderError", "ProviderError")
  /\ UNCHANGED <<requests, published>>

Perform(id) ==
  /\ stage[id] = "provider"
  /\ IF requests[id].op = "fit"
     THEN stage' = [stage EXCEPT ![id] = "staged"] /\ UNCHANGED <<waiting, answer, told>>
     ELSE Answers(id, Forecast(id))
  /\ UNCHANGED <<requests, published>>

Publish(id) ==
  /\ stage[id] = "staged"
  /\ published' = published \cup {id}
  /\ stage' = [stage EXCEPT ![id] = "unnamed"]
  /\ UNCHANGED <<requests, waiting, answer, told>>

Name(id) ==
  /\ stage[id] = "unnamed"
  /\ Answers(id, Handle(id))
  /\ UNCHANGED <<requests, published>>

(* The disk is full, say, before the revision is in place.                 *)
PublishFails(id) ==
  /\ stage[id] = "staged"
  /\ Fails(id, "builtin", "builtin")
  /\ UNCHANGED <<requests, published>>

(* set_alias, which comes after the rename: the revision has been deleted  *)
(* meanwhile or its manifest cannot be read, and both are told as a model  *)
(* that is unknown; or the name cannot be written.                         *)
NameFails(id) ==
  /\ stage[id] = "unnamed"
  /\ \E class \in {"builtin", "UnknownModelError"} : Fails(id, class, class)
  /\ UNCHANGED <<requests, published>>

(* The process of the service ends. Whoever waits for it loses the         *)
(* connection, which is not a URLError either; what was staged is lost.    *)
ServiceDies ==
  /\ \E id \in DOMAIN stage : stage[id] # "over" /\ IsRemote(id)
  /\ stage' = [id \in DOMAIN stage |-> IF IsRemote(id) THEN "over" ELSE stage[id]]
  /\ answer' = <<>>
  /\ told' = [c \in Callers |-> IF c \in Remote /\ waiting[c] # 0
                                THEN Failure(waiting[c], "builtin", "builtin")
                                ELSE told[c]]
  /\ waiting' = [c \in Callers |-> IF c \in Remote THEN 0 ELSE waiting[c]]
  /\ UNCHANGED <<requests, published>>

-----------------------------------------------------------------------------
(* An answer reaches the caller that waits for it.                         *)
Decoded(id, what) ==
  IF what.kind = "error"
  THEN Failure(id, Raised(what.envelope, Known), what.cause)
  ELSE what

Receive(c) ==
  LET id == waiting[c]
  IN /\ id \in DOMAIN answer
     /\ Told(c, Decoded(id, answer[id]))
     /\ answer' = [other \in DOMAIN answer \ {id} |-> answer[other]]
     /\ UNCHANGED <<requests, stage, published>>

-----------------------------------------------------------------------------
Init ==
  /\ requests = <<>> /\ stage = <<>> /\ answer = <<>> /\ published = {}
  /\ waiting = [c \in Callers |-> 0] /\ told = [c \in Callers |-> Nothing]

Work(id) ==
  \/ Refuse(id) \/ AskProvider(id) \/ Complain(id) \/ ProviderLost(id) \/ Perform(id)
  \/ Publish(id) \/ Name(id)
  \/ PublishFails(id) \/ NameFails(id)

Next ==
  \/ \E c \in Callers : RefusedHere(c) \/ Ask(c) \/ Unreachable(c) \/ GiveUp(c) \/ Receive(c)
  \/ \E id \in DOMAIN requests : Work(id)
  \/ ServiceDies

Spec == Init /\ [][Next]_vars

-----------------------------------------------------------------------------
(* Failures that leave open whether the fit was published: what is not     *)
(* OpenForecast's, a model that is unknown, and a remote caller's          *)
(* ProviderError.                                                          *)
LeavesItOpen(c, class) ==
  \/ ~IsA(class, "OpenForecastError")
  \/ IsA(class, "UnknownModelError")
  \/ c \in Remote /\ IsA(class, "ProviderError")

(* What a caller may conclude from what it is told, whoever else asks, and *)
(* whatever it asked before and gave up on. A handle is of a revision that *)
(* was published, for the caller's own fit. Any failure but those that     *)
(* leave it open is of a fit that published nothing, so that the fit may be*)
(* asked for again without a second revision: HttpTransport._call,         *)
(* create_app, ArtifactStore.publish.                                      *)
AnswerTellsTheTruth ==
  \A c \in Callers :
    LET what == told[c]
    IN /\ what.kind \in {"handle", "forecast"} =>
            requests[what.id] = [caller |-> c,
                                 op |-> IF what.kind = "handle" THEN "fit" ELSE "forecast"]
       /\ what.kind = "handle" => what.id \in published
       /\ what.kind = "failure" /\ ~LeavesItOpen(c, what.class) => what.id \notin published

(* A handler that catches a failure where it was raised catches what a     *)
(* caller is told of it, across a provider's pipe and across HTTP; what no *)
(* handler of OpenForecast's catches, and what the caller's build does not *)
(* know, is never told as the caller's own mistake: ProviderServer.        *)
(* _dispatch, runtime/subprocess.py's _error, create_app and _reraise.     *)
FailuresKeepTheirMeaning ==
  \A c \in Callers :
    LET failure == told[c]
        understood == IF c \in Remote THEN Known ELSE Classes \ {"builtin"}
    IN failure.kind = "failure" =>
         IF failure.cause \in understood
         THEN Ancestors[failure.cause] \subseteq Ancestors[failure.class]
         ELSE failure.class \in {"builtin", "ProviderError"}
=============================================================================
