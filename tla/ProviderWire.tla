---------------------------- MODULE ProviderWire ----------------------------
(***************************************************************************)
(* A provider in a child process: SubprocessProvider (runtime/subprocess.py) *)
(* on one side of two pipes, ProviderServer (providers/serve.py) on the    *)
(* other, and the thread that pumps the child's output into a queue.       *)
(*                                                                         *)
(*   caller --stdin[c]--> child c --out[c]--> pump c --queue--> caller     *)
(*                                                                         *)
(* A request carries no id and a response does not say what it answers:    *)
(* the two sides stay in step, or an answer goes to the wrong request. The *)
(* tags on the lines here are the model's, and nothing in it decides by    *)
(* them but what the payload of a response would decide.                   *)
(*                                                                         *)
(* Children are numbered as they are spawned. Every start makes a queue    *)
(* for the pump of the new child and drops the one before it, which the    *)
(* pump of an earlier child may still be writing to and nobody reads. Log  *)
(* lines, bundles and the contents of requests are left out. The Popen     *)
(* call and the hooking up of its pipes are one step.                      *)
(***************************************************************************)
EXTENDS Naturals, Sequences

CONSTANTS
  Callers,      (* the threads that use the one SubprocessProvider         *)
  Identities,   (* what a child may call itself and advertise              *)
  NoIdentity,   (* nothing was recorded at install time                    *)
  MaxCalls,     (* how many fits and forecasts are asked for; bounds runs  *)
  MaxChildren,  (* how many children may be spawned; bounds runs           *)
  MaxLines      (* how many unread lines a child mutters on top of         *)

ASSUME WireAssumption ==
  /\ NoIdentity \notin Identities
  /\ MaxCalls \in Nat /\ MaxChildren \in Nat /\ MaxLines \in Nat

Calls == 1 .. MaxCalls
Children == 1 .. MaxChildren

(* A request is a handshake or one of the calls. *)
Hello == 0
Requests == Calls \cup {Hello}

(* A line of the child's output, or the end of it: a result, an error      *)
(* envelope, or something that is not a response of this protocol version. *)
Line == [to : Requests, what : {"ok", "error", "foreign", "end"}]
End == [to |-> Hello, what |-> "end"]

VARIABLES
  calls,      (* how many calls were made                                  *)
  status,     (* what the caller of each call knows of it                  *)
  performed,  (* the calls whose work some child has done                  *)
  pc, req,    (* the step and the call of each caller                      *)
  known,      (* _name and _descriptors, recorded or learnt                *)
  process,    (* _process: the child requests go to, or 0                  *)
  queue,      (* _lines: the queue answers are taken from                  *)
  feeder,     (* the child whose pump was started with that queue, or 0    *)
  spawned,    (* how many children were ever started                       *)
  alive, identity,
  stdin, out, (* the pipes of each child                                   *)
  drained,    (* the children whose output pump has ended                  *)
  verified    (* history: the children whose handshake was accepted        *)

callerVars == <<calls, status, pc, req>>
clientVars == <<known, process, feeder>>
childVars == <<spawned, alive, identity>>
pipes == <<stdin, out, drained>>
vars == <<callerVars, performed, clientVars, queue, childVars, pipes, verified>>

Steps == {"idle", "start", "spawn", "greet", "greeted", "send", "sent"}

TypeOK ==
  /\ calls \in 0 .. MaxCalls
  /\ status \in [Calls -> {"unasked", "open", "ok", "failed"}]
  /\ performed \subseteq Calls
  /\ pc \in [Callers -> Steps]
  /\ req \in [Callers -> Requests]
  /\ known \in Identities \cup {NoIdentity}
  /\ process \in Children \cup {0}
  /\ feeder \in Children \cup {0}
  /\ spawned \in 0 .. MaxChildren
  /\ alive \in [Children -> BOOLEAN]
  /\ identity \in [Children -> Identities \cup {NoIdentity}]
  /\ stdin \in [Children -> Seq(Requests)]
  /\ out \in [Children -> Seq(Line)]
  /\ queue \in Seq(Line)
  /\ drained \subseteq Children
  /\ verified \subseteq Children

Init ==
  /\ calls = 0
  /\ status = [i \in Calls |-> "unasked"]
  /\ performed = {}
  /\ pc = [p \in Callers |-> "idle"]
  /\ req = [p \in Callers |-> Hello]
  /\ known \in Identities \cup {NoIdentity}
  /\ process = 0 /\ feeder = 0 /\ spawned = 0
  /\ alive = [c \in Children |-> FALSE]
  /\ identity = [c \in Children |-> NoIdentity]
  /\ stdin = [c \in Children |-> <<>>]
  /\ out = [c \in Children |-> <<>>]
  /\ queue = <<>>
  /\ drained = {}
  /\ verified = {}

(* is_running *)
Running == process # 0 /\ alive[process]

-----------------------------------------------------------------------------
(* A call comes in, and returns or raises.                                 *)

Begin(p) ==
  /\ pc[p] = "idle"
  /\ calls < MaxCalls
  /\ calls' = calls + 1
  /\ status' = [status EXCEPT ![calls + 1] = "open"]
  /\ req' = [req EXCEPT ![p] = calls + 1]
  /\ pc' = [pc EXCEPT ![p] = "start"]
  /\ UNCHANGED <<performed, clientVars, queue, childVars, pipes, verified>>

Goto(p, step) ==
  /\ pc' = [pc EXCEPT ![p] = step]
  /\ UNCHANGED <<calls, status, req>>

Return(p, verdict) ==
  /\ pc' = [pc EXCEPT ![p] = "idle"]
  /\ req' = [req EXCEPT ![p] = Hello]
  /\ status' = [status EXCEPT ![req[p]] = verdict]
  /\ UNCHANGED calls

(* Mutant of Kill: the child is only forgotten. *)
Forget ==
  /\ process' = 0
  /\ UNCHANGED alive

(* _kill: the child is forgotten, killed and waited for. *)
Kill ==
  /\ process' = 0
  /\ alive' = [c \in Children |-> alive[c] /\ c # process]

(* What _fail, a timeout and a failed verification have in common. *)
KillAndRaise(p) ==
  /\ Kill
  /\ Return(p, "failed")
  /\ UNCHANGED <<known, feeder, spawned, identity, verified>>

-----------------------------------------------------------------------------
(* _start *)

(* Nothing runs. Whether it still does not when the child is spawned is    *)
(* not asked again.                                                        *)
NotStarted(p) ==
  /\ pc[p] = "start"
  /\ ~Running
  /\ Goto(p, "spawn")
  /\ UNCHANGED <<performed, clientVars, queue, childVars, pipes, verified>>

StartChild(p) ==
  LET c == spawned + 1 IN
  /\ pc[p] = "spawn"
  /\ spawned < MaxChildren
  /\ spawned' = c /\ process' = c /\ feeder' = c /\ queue' = <<>>
  /\ alive' = [alive EXCEPT ![c] = TRUE]
  /\ \E who \in Identities : identity' = [identity EXCEPT ![c] = who]
  /\ Goto(p, "greet")
  /\ UNCHANGED <<performed, known, pipes, verified>>

(* The command could not be run. *)
StartFails(p) ==
  /\ pc[p] = "spawn"
  /\ Return(p, "failed")
  /\ UNCHANGED <<performed, clientVars, queue, childVars, pipes, verified>>

AlreadyStarted(p) ==
  /\ pc[p] = "start"
  /\ Running
  /\ known # NoIdentity
  /\ Goto(p, "send")
  /\ UNCHANGED <<performed, clientVars, queue, childVars, pipes, verified>>

(* The name is asked for first, and _start does not handshake twice with a *)
(* child that runs: the assertion after it fails.                          *)
StillUnknown(p) ==
  /\ pc[p] = "start"
  /\ Running
  /\ known = NoIdentity
  /\ Return(p, "failed")
  /\ UNCHANGED <<performed, clientVars, queue, childVars, pipes, verified>>

-----------------------------------------------------------------------------
(* _transact: the handshake goes out from "greet", a call from "send".     *)

Awaited == [greet |-> "greeted", send |-> "sent"]

Write(p) ==
  /\ pc[p] \in {"greet", "send"}
  /\ Running
  /\ stdin' = [stdin EXCEPT ![process] =
                 Append(@, IF pc[p] = "greet" THEN Hello ELSE req[p])]
  /\ Goto(p, Awaited[pc[p]])
  /\ UNCHANGED <<performed, clientVars, queue, childVars, out, drained, verified>>

(* A broken pipe, or no process at all any more. *)
WriteFails(p) ==
  /\ pc[p] \in {"greet", "send"}
  /\ ~Running
  /\ KillAndRaise(p)
  /\ UNCHANGED <<performed, queue, pipes>>

-----------------------------------------------------------------------------
(* _read: one line, or none in time.                                       *)

Reading(p) == pc[p] \in {"greeted", "sent"}
Arrived(p) == Reading(p) /\ queue # <<>>
NextLine == Head(queue)
TakeLine == queue' = Tail(queue)

(* Mutant of TimeOut: only a call has a deadline. *)
TimeOutOfCall(p) ==
  /\ pc[p] = "sent" /\ ~Arrived(p)
  /\ KillAndRaise(p)
  /\ UNCHANGED <<performed, queue, pipes>>

TimeOut(p) ==
  /\ Reading(p) /\ ~Arrived(p)
  /\ KillAndRaise(p)
  /\ UNCHANGED <<performed, queue, pipes>>

(* Mutant of Distrust: a line that is no response fails the call only. *)
SkipForeign(p) ==
  /\ Arrived(p) /\ NextLine.what \in {"end", "foreign"}
  /\ TakeLine
  /\ IF NextLine.what = "end"
     THEN KillAndRaise(p)
     ELSE Return(p, "failed") /\ UNCHANGED <<clientVars, childVars, verified>>
  /\ UNCHANGED <<performed, pipes>>

(* End of output, no JSON, no response, another protocol version: _fail. *)
Distrust(p) ==
  /\ Arrived(p) /\ NextLine.what \in {"end", "foreign"}
  /\ TakeLine
  /\ KillAndRaise(p)
  /\ UNCHANGED <<performed, pipes>>

(* An error envelope is raised, and the process goes on. So it does when   *)
(* the result of a handshake cannot be read as one. (One that says nonsense *)
(* of its own is not told apart from an error.)                            *)
Refuse(p) ==
  /\ Arrived(p)
  /\ \/ NextLine.what = "error"
     \/ pc[p] = "greeted" /\ NextLine.what = "ok" /\ NextLine.to # Hello
  /\ TakeLine
  /\ Return(p, "failed")
  /\ UNCHANGED <<performed, clientVars, childVars, pipes, verified>>

Greeting(p) == Arrived(p) /\ pc[p] = "greeted" /\ NextLine.what = "ok" /\ NextLine.to = Hello

(* Mutant of Accept: whoever answers is accepted. *)
AcceptAnybody(p) ==
  /\ Greeting(p)
  /\ TakeLine
  /\ known' = identity[feeder]
  /\ verified' = verified \cup {feeder}
  /\ Goto(p, IF known = NoIdentity THEN "start" ELSE "send")
  /\ UNCHANGED <<performed, process, feeder, childVars, pipes>>

(* _handshake: who answered is who was expected, or nobody was. A call that *)
(* started the child to learn its name goes through _start once more.      *)
Accept(p) ==
  /\ Greeting(p)
  /\ known \in {NoIdentity, identity[feeder]}
  /\ TakeLine
  /\ known' = identity[feeder]
  /\ verified' = verified \cup {feeder}
  /\ Goto(p, IF known = NoIdentity THEN "start" ELSE "send")
  /\ UNCHANGED <<performed, process, feeder, childVars, pipes>>

Mismatch(p) ==
  /\ Greeting(p)
  /\ known \notin {NoIdentity, identity[feeder]}
  /\ TakeLine
  /\ KillAndRaise(p)
  /\ UNCHANGED <<performed, pipes>>

(* Any result will do: what it says is not looked at. *)
TakeAnswer(p) ==
  /\ Arrived(p) /\ pc[p] = "sent" /\ NextLine.what = "ok"
  /\ TakeLine
  /\ Return(p, "ok")
  /\ UNCHANGED <<performed, clientVars, childVars, pipes, verified>>

(* close(), between two calls. *)
Close(p) ==
  /\ pc[p] = "idle"
  /\ Kill
  /\ UNCHANGED <<callerVars, performed, known, feeder, queue, spawned, identity, pipes, verified>>

-----------------------------------------------------------------------------
(* ProviderServer.run, in the child: one request at a time, one response   *)
(* for each. What a fit does and what it answers are two steps.            *)

Perform(c) ==
  /\ alive[c] /\ stdin[c] # <<>>
  /\ Head(stdin[c]) \in Calls \ performed
  /\ performed' = performed \cup {Head(stdin[c])}
  /\ UNCHANGED <<callerVars, clientVars, queue, childVars, pipes, verified>>

Answer(c, what) ==
  LET r == Head(stdin[c]) IN
  /\ alive[c] /\ stdin[c] # <<>>
  /\ what = "ok" => r \in performed \cup {Hello}
  /\ stdin' = [stdin EXCEPT ![c] = Tail(@)]
  /\ out' = [out EXCEPT ![c] = Append(@, [to |-> r, what |-> what])]
  /\ UNCHANGED <<callerVars, performed, clientVars, queue, childVars, drained, verified>>

(* A library writes to the file descriptor behind sys.stdout. *)
Mutter(c) ==
  /\ alive[c]
  /\ Len(out[c]) + Len(queue) < MaxLines
  /\ out' = [out EXCEPT ![c] = Append(@, [to |-> Hello, what |-> "foreign"])]
  /\ UNCHANGED <<callerVars, performed, clientVars, queue, childVars, stdin, drained, verified>>

Crash(c) ==
  /\ alive[c]
  /\ alive' = [alive EXCEPT ![c] = FALSE]
  /\ UNCHANGED <<callerVars, performed, clientVars, queue, spawned, identity, pipes, verified>>

-----------------------------------------------------------------------------
(* _drain: the pump of a child puts its lines on the queue it was started  *)
(* with, which may be one nobody reads any more ...                        *)

(* Mutant of Pump: the lines, too, go to the queue of the moment. *)
PumpToCurrent(c) ==
  /\ out[c] # <<>>
  /\ queue' = Append(queue, Head(out[c]))
  /\ out' = [out EXCEPT ![c] = Tail(@)]
  /\ UNCHANGED <<callerVars, performed, clientVars, childVars, stdin, drained, verified>>

Pump(c) ==
  /\ out[c] # <<>>
  /\ queue' = IF c = feeder THEN Append(queue, Head(out[c])) ELSE queue
  /\ out' = [out EXCEPT ![c] = Tail(@)]
  /\ UNCHANGED <<callerVars, performed, clientVars, childVars, stdin, drained, verified>>

(* ... and, when the output has ended, None on the queue of the moment.    *)
PumpEnds(c) ==
  /\ c <= spawned /\ ~alive[c] /\ out[c] = <<>> /\ c \notin drained
  /\ queue' = Append(queue, End)
  /\ drained' = drained \cup {c}
  /\ UNCHANGED <<callerVars, performed, clientVars, childVars, stdin, out, verified>>

-----------------------------------------------------------------------------
Proceed(p) ==
  \/ NotStarted(p) \/ AlreadyStarted(p) \/ StillUnknown(p)
  \/ StartChild(p) \/ StartFails(p)
  \/ Write(p) \/ WriteFails(p)
  \/ TimeOut(p) \/ Distrust(p) \/ Refuse(p) \/ Accept(p) \/ Mismatch(p) \/ TakeAnswer(p)

Child(c) ==
  \/ Perform(c) \/ \E what \in {"ok", "error", "foreign"} : Answer(c, what)
  \/ Mutter(c) \/ Crash(c) \/ Pump(c) \/ PumpEnds(c)

Next ==
  \/ \E p \in Callers : Begin(p) \/ Proceed(p) \/ Close(p)
  \/ \E c \in Children : Child(c)

(* A caller that can go on does: Popen, a write and a read with a deadline *)
(* all return. Nothing is asked of the child, nor of its pump.             *)
Fairness == \A p \in Callers : WF_vars(Proceed(p))

Spec == Init /\ [][Next]_vars /\ Fairness

-----------------------------------------------------------------------------
(* A call ends whatever the child does: dies, mutters or never answers.    *)
CallsReturn == \A i \in Calls : status[i] = "open" ~> status[i] \in {"ok", "failed"}

(* No child runs that a call or close() could not reach: after a failure   *)
(* that stops the process nothing of it is left working on the request.    *)
OneLiveChild == \A c \in Children : alive[c] => c = process

(* Between two calls the two sides are in step: no request of an earlier   *)
(* call is still to be answered, and none of its answers still to be read. *)
InStep ==
  (\A p \in Callers : pc[p] = "idle") /\ Running =>
    /\ stdin[process] = <<>>
    /\ \A s \in {out[process], queue} :
         \A k \in 1 .. Len(s) : s[k].what \in {"foreign", "end"}

(* Every child that passed a handshake is the same provider, and the one   *)
(* that was recorded.                                                      *)
VerifiedAreKnown == \A c \in verified : identity[c] = known

(* "None on the line queue is end of output: a child that exited owes an   *)
(* answer it can no longer give."                                          *)
EndMeansEnded ==
  Running => \A k \in 1 .. Len(queue) : queue[k] # End

(* A fit that is reported a success was performed. *)
SuccessWasPerformed == \A i \in Calls : status[i] = "ok" => i \in performed

(* What a call through the wire is, to the engine: ProviderCalls.          *)
Provider == INSTANCE ProviderCalls
ImplementsProvider == Provider!Spec
=============================================================================
