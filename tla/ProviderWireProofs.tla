------------------------- MODULE ProviderWireProofs -------------------------
(***************************************************************************)
(* Theorems about ProviderWire, for any identities and any number of calls,*)
(* children and lines. What is verified is known whoever calls; that the   *)
(* two sides stay in step, and that a call through the wire is one of      *)
(* ProviderCalls, is proved of one caller: MCProviderWire's run of two     *)
(* callers shows that it fails of more.                                    *)
(***************************************************************************)
EXTENDS ProviderWire, SequenceTheorems, TLAPS

-----------------------------------------------------------------------------
(* Types.                                                                  *)

LEMMA WireTypes ==
  /\ Hello \in Requests /\ Calls \subseteq Requests /\ Calls \subseteq Nat /\ Children \subseteq Nat
  /\ Hello \notin Calls /\ 0 \notin Children /\ End \in Line
  /\ \A r \in Requests, what \in {"ok", "error", "foreign"} : [to |-> r, what |-> what] \in Line
  /\ \A s : s \in Seq(Line) /\ s # <<>> => Head(s) \in Line /\ Tail(s) \in Seq(Line)
  /\ \A s \in Seq(Line), line \in Line : Append(s, line) \in Seq(Line)
  /\ \A s : s \in Seq(Requests) /\ s # <<>> => Head(s) \in Requests /\ Tail(s) \in Seq(Requests)
  /\ \A s \in Seq(Requests), r \in Requests : Append(s, r) \in Seq(Requests)
<1>1. /\ Hello \in Requests /\ Calls \subseteq Requests /\ Calls \subseteq Nat
      /\ Children \subseteq Nat /\ Hello \notin Calls /\ 0 \notin Children
  BY WireAssumption DEF Hello, Requests, Calls, Children
<1>2. /\ End \in Line
      /\ \A r \in Requests, what \in {"ok", "error", "foreign"} : [to |-> r, what |-> what] \in Line
  BY <1>1 DEF End, Line
<1>3. /\ \A s : s \in Seq(Line) /\ s # <<>> => Head(s) \in Line /\ Tail(s) \in Seq(Line)
      /\ \A s \in Seq(Line), line \in Line : Append(s, line) \in Seq(Line)
  OBVIOUS
<1>4. /\ \A s : s \in Seq(Requests) /\ s # <<>> => Head(s) \in Requests /\ Tail(s) \in Seq(Requests)
      /\ \A s \in Seq(Requests), r \in Requests : Append(s, r) \in Seq(Requests)
  OBVIOUS
<1> QED BY <1>1, <1>2, <1>3, <1>4

(* The callers' own variables keep their types, whatever a step does.      *)
CallerTypes ==
  /\ calls \in 0 .. MaxCalls
  /\ status \in [Calls -> {"unasked", "open", "ok", "failed"}]
  /\ pc \in [Callers -> Steps]
  /\ req \in [Callers -> Requests]

(* A caller that is under way is with a call that is open, its own.        *)
CallsInv ==
  /\ CallerTypes
  /\ \A p \in Callers :
       pc[p] # "idle" => req[p] \in Calls /\ req[p] <= calls /\ status[req[p]] = "open"
  /\ \A p, q \in Callers : pc[p] # "idle" /\ pc[q] # "idle" /\ p # q => req[p] # req[q]
  /\ \A i \in Calls : i > calls => status[i] = "unasked"

(* No call has begun.                                                      *)
LEMMA CallsInitially == Init => CallsInv
BY WireAssumption, WireTypes DEF Init, CallsInv, CallerTypes, Steps

(* A call that begins takes the next number, which nobody has.             *)
LEMMA BeginKeepsCalls ==
  ASSUME CallsInv, NEW p \in Callers, Begin(p)
  PROVE  CallsInv'
<1> USE DEF CallsInv, CallerTypes
<1>1. calls + 1 \in Calls /\ calls' = calls + 1 /\ calls' \in 0 .. MaxCalls
  BY WireAssumption DEF Begin, Calls
<1>2. /\ status' = [status EXCEPT ![calls + 1] = "open"]
      /\ req' = [req EXCEPT ![p] = calls + 1] /\ pc' = [pc EXCEPT ![p] = "start"]
  BY DEF Begin
<1>3. CallerTypes'
  BY <1>1, <1>2, WireTypes DEF Steps
<1>4. ASSUME NEW q \in Callers, pc'[q] # "idle"
      PROVE  req'[q] \in Calls /\ req'[q] <= calls' /\ status'[req'[q]] = "open"
  <2>1. CASE q = p
    BY <1>1, <1>2, <2>1
  <2>2. CASE q # p
    <3>1. req'[q] = req[q] /\ req[q] \in Calls /\ req[q] <= calls /\ status[req[q]] = "open"
      BY <1>2, <1>4, <2>2
    <3>2. req[q] # calls + 1
      BY <3>1, WireTypes
    <3>3. status'[req[q]] = status[req[q]]
      BY <1>2, <3>1, <3>2
    <3>4. req[q] <= calls'
      BY <1>1, <3>1, WireTypes
    <3> QED BY <3>1, <3>3, <3>4
  <2> QED BY <2>1, <2>2
<1>5. ASSUME NEW q \in Callers, NEW r \in Callers, pc'[q] # "idle", pc'[r] # "idle", q # r
      PROVE  req'[q] # req'[r]
  BY <1>1, <1>2, <1>5, WireTypes
<1>6. \A i \in Calls : i > calls' => status'[i] = "unasked"
  BY <1>1, <1>2, WireTypes
<1> QED BY <1>3, <1>4, <1>5, <1>6

(* A call that goes on keeps its number.                                   *)
LEMMA GotoKeepsCalls ==
  ASSUME CallsInv, NEW p \in Callers, pc[p] # "idle", NEW step \in Steps \ {"idle"}, Goto(p, step)
  PROVE  CallsInv'
BY DEF Goto, CallsInv, CallerTypes

(* A call that returns leaves its verdict under its own number.            *)
LEMMA ReturnKeepsCalls ==
  ASSUME CallsInv, NEW p \in Callers, pc[p] # "idle", NEW verdict \in {"ok", "failed"},
         Return(p, verdict)
  PROVE  CallsInv'
<1> USE DEF CallsInv, CallerTypes
<1>1. /\ pc' = [pc EXCEPT ![p] = "idle"] /\ req' = [req EXCEPT ![p] = Hello]
      /\ status' = [status EXCEPT ![req[p]] = verdict] /\ UNCHANGED calls
  BY DEF Return
<1>2. CallerTypes'
  BY <1>1, WireTypes DEF Steps
<1>3. ASSUME NEW q \in Callers, pc'[q] # "idle"
      PROVE  req'[q] \in Calls /\ req'[q] <= calls' /\ status'[req'[q]] = "open"
  BY <1>1, <1>3
<1>4. ASSUME NEW q \in Callers, NEW r \in Callers, pc'[q] # "idle", pc'[r] # "idle", q # r
      PROVE  req'[q] # req'[r]
  BY <1>1, <1>4
<1>5. \A i \in Calls : i > calls' => status'[i] = "unasked"
  BY <1>1
<1> QED BY <1>2, <1>3, <1>4, <1>5

(* What a caller does to its own variables is one of three things.         *)
LEMMA CallersMove ==
  ASSUME NEW p \in Callers, Proceed(p)
  PROVE  /\ pc[p] # "idle"
         /\ \/ \E step \in Steps \ {"idle"} : Goto(p, step)
            \/ \E verdict \in {"ok", "failed"} : Return(p, verdict)
<1>1. CASE NotStarted(p) \/ AlreadyStarted(p) \/ StartChild(p)
  BY <1>1 DEF NotStarted, AlreadyStarted, StartChild, Steps
<1>2. CASE StillUnknown(p) \/ StartFails(p)
  BY <1>2 DEF StillUnknown, StartFails
<1>3. CASE Write(p)
  BY <1>3 DEF Write, Awaited, Steps
<1>4. CASE WriteFails(p) \/ TimeOut(p) \/ Distrust(p) \/ Mismatch(p)
  BY <1>4 DEF WriteFails, TimeOut, Distrust, Mismatch, KillAndRaise, Reading, Arrived, Greeting
<1>5. CASE Refuse(p) \/ TakeAnswer(p)
  BY <1>5 DEF Refuse, TakeAnswer, Arrived, Reading
<1>6. CASE Accept(p)
  BY <1>6 DEF Accept, Greeting, Steps
<1> QED BY <1>1, <1>2, <1>3, <1>4, <1>5, <1>6 DEF Proceed

(* Callers and calls keep their types, and a number belongs to one call.   *)
LEMMA StepKeepsCalls == CallsInv /\ [Next]_vars => CallsInv'
<1> SUFFICES ASSUME CallsInv, [Next]_vars PROVE CallsInv'
  OBVIOUS
<1>1. ASSUME UNCHANGED callerVars PROVE CallsInv'
  BY <1>1 DEF callerVars, CallsInv, CallerTypes
<1>2. ASSUME NEW p \in Callers, Begin(p) \/ Proceed(p) \/ Close(p) PROVE CallsInv'
  BY <1>1, <1>2, BeginKeepsCalls, CallersMove, GotoKeepsCalls, ReturnKeepsCalls DEF Close
<1>3. ASSUME NEW c \in Children, Child(c) PROVE CallsInv'
  BY <1>1, <1>3 DEF Child, Perform, Answer, Mutter, Crash, Pump, PumpEnds
<1> QED BY <1>1, <1>2, <1>3 DEF Next, vars

-----------------------------------------------------------------------------
(* The children and their pipes.                                           *)

ChildTypes ==
  /\ performed \subseteq Calls
  /\ known \in Identities \cup {NoIdentity}
  /\ process \in Children \cup {0} /\ feeder \in Children \cup {0}
  /\ spawned \in 0 .. MaxChildren
  /\ alive \in [Children -> BOOLEAN]
  /\ identity \in [Children -> Identities \cup {NoIdentity}]
  /\ stdin \in [Children -> Seq(Requests)]
  /\ out \in [Children -> Seq(Line)]
  /\ queue \in Seq(Line)
  /\ drained \subseteq Children
  /\ verified \subseteq Children

(* Before a child is spawned there is nothing of it; after a verification  *)
(* an identity is known, and it is that of every child that was verified.  *)
ChildInv ==
  /\ ChildTypes
  /\ process <= spawned /\ feeder <= spawned
  /\ process # 0 => feeder = process
  /\ feeder = 0 => queue = <<>>
  /\ \A c \in Children :
       /\ c > spawned => ~alive[c] /\ stdin[c] = <<>> /\ out[c] = <<>> /\ c \notin verified
       /\ c <= spawned => identity[c] # NoIdentity /\ feeder # 0
  /\ \A c \in verified : known # NoIdentity /\ identity[c] = known

(* No child has been started.                                              *)
LEMMA ChildrenInitially == Init => ChildInv
BY WireAssumption, WireTypes DEF Init, ChildInv, ChildTypes

(* A child that is started is one that never ran, with empty pipes.        *)
LEMMA StartKeepsChildren ==
  ASSUME ChildInv, NEW p \in Callers, StartChild(p)
  PROVE  ChildInv'
<1> USE DEF ChildInv, ChildTypes
<1> DEFINE c == spawned + 1
<1>1. c \in Children /\ c \in 0 .. MaxChildren /\ c # 0
  BY WireAssumption DEF StartChild, Children
<1>2. PICK who \in Identities : identity' = [identity EXCEPT ![c] = who]
  BY DEF StartChild
<1>3. /\ spawned' = c /\ process' = c /\ feeder' = c /\ queue' = <<>>
      /\ alive' = [alive EXCEPT ![c] = TRUE]
      /\ UNCHANGED <<performed, known, pipes, verified>>
  BY DEF StartChild
<1>4. who # NoIdentity
  BY WireAssumption
<1>5. ChildTypes'
  BY <1>1, <1>2, <1>3 DEF pipes
<1>6. ASSUME NEW d \in Children
      PROVE  /\ d > spawned' => ~alive'[d] /\ stdin'[d] = <<>> /\ out'[d] = <<>> /\ d \notin verified'
             /\ d <= spawned' => identity'[d] # NoIdentity /\ feeder' # 0
  BY <1>1, <1>2, <1>3, <1>4, WireTypes DEF pipes
<1>7. ASSUME NEW d \in verified' PROVE known' # NoIdentity /\ identity'[d] = known'
  <2>1. d \in verified /\ d # c
    BY <1>1, <1>3, <1>7
  <2> QED BY <1>2, <1>3, <2>1
<1> QED BY SMTT(40), <1>1, <1>3, <1>5, <1>6, <1>7

(* A line is taken, or none.                                               *)
LEMMA QueueShrinks ==
  ASSUME queue \in Seq(Line), feeder = 0 => queue = <<>>,
         queue' = queue \/ (queue # <<>> /\ queue' = Tail(queue))
  PROVE  queue' \in Seq(Line) /\ (feeder = 0 => queue' = <<>>)
<1>1. queue # <<>> => Tail(queue) \in Seq(Line)
  BY WireTypes
<1> QED BY <1>1

(* A kill forgets the child and what it had written.                       *)
LEMMA KillKeepsChildren ==
  ASSUME ChildInv, Kill, UNCHANGED <<performed, known, feeder, spawned, identity, pipes, verified>>,
         queue' = queue \/ (queue # <<>> /\ queue' = Tail(queue))
  PROVE  ChildInv'
<1> USE DEF ChildInv, ChildTypes
<1>1. queue' \in Seq(Line) /\ (feeder = 0 => queue' = <<>>)
  BY QueueShrinks
<1>2. process' = 0 /\ alive' \in [Children -> BOOLEAN] /\ \A c \in Children : alive'[c] => alive[c]
  BY DEF Kill
<1>3. ChildTypes'
  BY <1>1, <1>2 DEF pipes
<1> QED BY <1>1, <1>2, <1>3 DEF pipes

(* No step of a caller writes what is not a line, or accepts a child that  *)
(* is another provider.                                                    *)
LEMMA ProceedKeepsChildren ==
  ASSUME ChildInv, NEW p \in Callers, req[p] \in Requests, Proceed(p)
  PROVE  ChildInv'
<1> USE DEF ChildInv, ChildTypes
<1>1. ASSUME UNCHANGED <<performed, clientVars, childVars, pipes, verified>>,
             queue' = queue \/ (queue # <<>> /\ queue' = Tail(queue))
      PROVE  ChildInv'
  <2>1. queue' \in Seq(Line) /\ (feeder = 0 => queue' = <<>>)
    BY <1>1, QueueShrinks
  <2> QED BY <1>1, <2>1 DEF clientVars, childVars, pipes
<1>2. CASE NotStarted(p) \/ AlreadyStarted(p) \/ StillUnknown(p) \/ StartFails(p)
  BY <1>1, <1>2 DEF NotStarted, AlreadyStarted, StillUnknown, StartFails
<1>3. CASE StartChild(p)
  BY <1>3, StartKeepsChildren
<1>4. CASE Write(p)
  <2>1. /\ process \in Children /\ alive[process]
        /\ UNCHANGED <<performed, clientVars, queue, childVars, out, drained, verified>>
    BY <1>4 DEF Write, Running
  <2>2. PICK r \in Requests : stdin' = [stdin EXCEPT ![process] = Append(@, r)]
    BY <1>4, WireTypes DEF Write
  <2>3. stdin' \in [Children -> Seq(Requests)]
    BY <2>1, <2>2, WireTypes
  <2>4. \A c \in Children : c > spawned => stdin'[c] = <<>>
    BY <2>1, <2>2
  <2> QED BY <2>1, <2>3, <2>4 DEF clientVars, childVars
<1>5. CASE WriteFails(p) \/ TimeOut(p) \/ Distrust(p) \/ Mismatch(p)
  BY <1>5, KillKeepsChildren
  DEF WriteFails, TimeOut, Distrust, Mismatch, KillAndRaise, Arrived, Greeting, TakeLine
<1>6. CASE Refuse(p) \/ TakeAnswer(p)
  BY <1>1, <1>6 DEF Refuse, TakeAnswer, Arrived, TakeLine
<1>7. CASE Accept(p)
  <2>1. /\ queue # <<>> /\ queue' = Tail(queue) /\ known \in {NoIdentity, identity[feeder]}
        /\ known' = identity[feeder] /\ verified' = verified \cup {feeder}
        /\ UNCHANGED <<performed, process, feeder, childVars, pipes>>
    BY <1>7 DEF Accept, Greeting, Arrived, TakeLine
  <2>2. feeder \in Children /\ feeder <= spawned /\ identity[feeder] # NoIdentity
    BY <2>1
  <2>3. known' # NoIdentity /\ \A c \in verified' : identity[c] = known'
    BY <2>1, <2>2
  <2>4. queue' \in Seq(Line)
    BY <2>1, WireTypes
  <2>5. ChildTypes'
    BY <2>1, <2>2, <2>4 DEF childVars, pipes
  <2>6. ASSUME NEW c \in Children
        PROVE  /\ c > spawned => ~alive[c] /\ stdin[c] = <<>> /\ out[c] = <<>> /\ c \notin verified'
               /\ c <= spawned => identity[c] # NoIdentity /\ feeder # 0
    <3>1. c > spawned => c # feeder
      BY <2>2, WireTypes
    <3> QED BY <2>1, <3>1
  <2> QED BY <2>1, <2>2, <2>3, <2>5, <2>6 DEF childVars, pipes
<1> QED BY <1>2, <1>3, <1>4, <1>5, <1>6, <1>7 DEF Proceed

(* No step of a child or of the reader thread does either.                 *)
LEMMA ChildKeepsChildren ==
  ASSUME ChildInv, NEW c \in Children, Child(c)
  PROVE  ChildInv'
<1> USE DEF ChildInv, ChildTypes
<1>1. CASE Perform(c)
  <2>1. performed' \subseteq Calls
    BY <1>1 DEF Perform
  <2> QED BY <1>1, <2>1 DEF Perform, clientVars, childVars, pipes
<1>2. ASSUME NEW what \in {"ok", "error", "foreign"}, Answer(c, what) PROVE ChildInv'
  <2> DEFINE line == [to |-> Head(stdin[c]), what |-> what]
  <2>1. /\ alive[c] /\ stdin[c] # <<>>
        /\ stdin' = [stdin EXCEPT ![c] = Tail(@)] /\ out' = [out EXCEPT ![c] = Append(@, line)]
        /\ UNCHANGED <<performed, clientVars, queue, childVars, drained, verified>>
    BY <1>2 DEF Answer
  <2>2. Tail(stdin[c]) \in Seq(Requests) /\ line \in Line
    BY <2>1, WireTypes
  <2>3. Append(out[c], line) \in Seq(Line)
    BY <2>2, WireTypes
  <2>4. stdin' \in [Children -> Seq(Requests)] /\ out' \in [Children -> Seq(Line)]
    BY <2>1, <2>2, <2>3
  <2>5. \A d \in Children : d > spawned => stdin'[d] = <<>> /\ out'[d] = <<>>
    BY <2>1
  <2> QED BY <2>1, <2>4, <2>5 DEF clientVars, childVars
<1>3. CASE Mutter(c)
  <2> DEFINE line == [to |-> Hello, what |-> "foreign"]
  <2>1. /\ alive[c] /\ out' = [out EXCEPT ![c] = Append(@, line)]
        /\ UNCHANGED <<performed, clientVars, queue, childVars, stdin, drained, verified>>
    BY <1>3 DEF Mutter
  <2>2. Append(out[c], line) \in Seq(Line)
    BY WireTypes
  <2>3. out' \in [Children -> Seq(Line)] /\ \A d \in Children : d > spawned => out'[d] = <<>>
    BY <2>1, <2>2
  <2> QED BY <2>1, <2>3 DEF clientVars, childVars
<1>4. CASE Crash(c)
  <2>1. alive' \in [Children -> BOOLEAN] /\ \A d \in Children : alive'[d] => alive[d]
    BY <1>4 DEF Crash
  <2> QED BY <1>4, <2>1 DEF Crash, clientVars, pipes
<1>5. CASE Pump(c)
  <2>1. /\ out[c] # <<>> /\ out' = [out EXCEPT ![c] = Tail(@)]
        /\ queue' = IF c = feeder THEN Append(queue, Head(out[c])) ELSE queue
        /\ UNCHANGED <<performed, clientVars, childVars, stdin, drained, verified>>
    BY <1>5 DEF Pump
  <2>2. Head(out[c]) \in Line /\ Tail(out[c]) \in Seq(Line)
    BY <2>1, WireTypes
  <2>3. Append(queue, Head(out[c])) \in Seq(Line)
    BY <2>2, WireTypes
  <2>4. queue' \in Seq(Line) /\ (feeder = 0 => queue' = <<>>)
    BY <2>1, <2>3, WireTypes
  <2>5. out' \in [Children -> Seq(Line)] /\ \A d \in Children : d > spawned => out'[d] = <<>>
    BY <2>1, <2>2
  <2> QED BY <2>1, <2>4, <2>5 DEF clientVars, childVars
<1>6. CASE PumpEnds(c)
  <2>1. /\ c <= spawned /\ queue' = Append(queue, End) /\ drained' = drained \cup {c}
        /\ UNCHANGED <<performed, clientVars, childVars, stdin, out, verified>>
    BY <1>6 DEF PumpEnds
  <2>2. queue' \in Seq(Line) /\ feeder # 0
    BY <2>1, WireTypes
  <2> QED BY <2>1, <2>2 DEF clientVars, childVars
<1> QED BY <1>1, <1>2, <1>3, <1>4, <1>5, <1>6 DEF Child

(* Children, pipes and the queue keep their types, and the accepted ones   *)
(* their identity.                                                         *)
LEMMA StepKeepsChildren == CallsInv /\ ChildInv /\ [Next]_vars => ChildInv'
<1> SUFFICES ASSUME CallsInv, ChildInv, [Next]_vars PROVE ChildInv'
  OBVIOUS
<1>1. ASSUME UNCHANGED <<performed, clientVars, queue, childVars, pipes, verified>> PROVE ChildInv'
  BY <1>1 DEF ChildInv, ChildTypes, clientVars, childVars, pipes
<1>2. ASSUME NEW p \in Callers, Begin(p) PROVE ChildInv'
  BY <1>1, <1>2 DEF Begin
<1>3. ASSUME NEW p \in Callers, Proceed(p) PROVE ChildInv'
  BY <1>3, ProceedKeepsChildren DEF CallsInv, CallerTypes
<1>4. ASSUME NEW p \in Callers, Close(p) PROVE ChildInv'
  BY <1>4, KillKeepsChildren DEF Close
<1>5. ASSUME NEW c \in Children, Child(c) PROVE ChildInv'
  BY <1>5, ChildKeepsChildren
<1> QED BY <1>1, <1>2, <1>3, <1>4, <1>5 DEF Next, vars

(* Both hold of every behaviour, with any callers.                         *)
LEMMA WireAlways == Spec => [](CallsInv /\ ChildInv)
BY CallsInitially, ChildrenInitially, StepKeepsCalls, StepKeepsChildren, PTL DEF Spec

(* The variables of the wire keep their types, for any callers.            *)
THEOREM WireTypeCorrect == Spec => []TypeOK
<1>1. CallsInv /\ ChildInv => TypeOK
  BY DEF CallsInv, CallerTypes, ChildInv, ChildTypes, TypeOK
<1> QED BY <1>1, WireAlways, PTL

(* SubprocessProvider._handshake: however many threads start, greet and    *)
(* lose children, every child that was accepted is the same provider, and  *)
(* it is the one whose models are advertised.                              *)
THEOREM OneIdentity == Spec => []VerifiedAreKnown
<1>1. ChildInv => VerifiedAreKnown
  BY DEF ChildInv, VerifiedAreKnown
<1> QED BY <1>1, WireAlways, PTL

-----------------------------------------------------------------------------
(* Lines that answer nothing, and lines of which one answers.              *)

Unasked(line) == line.what \in {"foreign", "end"}
Answering(line, r, done) ==
  line.to = r /\ line.what \in {"ok", "error"} /\ (line.what = "ok" => r \in done \cup {Hello})

Quiet(s) == \A k \in 1 .. Len(s) : Unasked(s[k])
OneAnswer(s, r, done) ==
  \E k \in 1 .. Len(s) :
    Answering(s[k], r, done) /\ \A j \in 1 .. Len(s) : j # k => Unasked(s[j])

(* Lines of which none answers a request: what is added to them, and what  *)
(* is left of them.                                                        *)
LEMMA QuietLines ==
  ASSUME NEW s \in Seq(Line), Quiet(s)
  PROVE  /\ \A line \in Line : Unasked(line) => Quiet(Append(s, line))
         /\ \A line \in Line : \A r, done : Answering(line, r, done) => OneAnswer(Append(s, line), r, done)
         /\ s # <<>> => Unasked(Head(s)) /\ Quiet(Tail(s))
<1>1. ASSUME NEW line \in Line
      PROVE  /\ Append(s, line) \in Seq(Line) /\ Len(Append(s, line)) = Len(s) + 1
             /\ Append(s, line)[Len(s) + 1] = line
             /\ \A k \in 1 .. Len(s) : Append(s, line)[k] = s[k]
  OBVIOUS
<1>2. ASSUME NEW line \in Line, Unasked(line) PROVE Quiet(Append(s, line))
  BY <1>1, <1>2 DEF Quiet
<1>3. ASSUME NEW line \in Line, NEW r, NEW done, Answering(line, r, done) PROVE OneAnswer(Append(s, line), r, done)
  <2>1. Len(s) + 1 \in 1 .. Len(Append(s, line))
    BY <1>1
  <2>2. \A j \in 1 .. Len(Append(s, line)) : j # Len(s) + 1 => Unasked(Append(s, line)[j])
    BY <1>1 DEF Quiet
  <2> QED BY <1>1, <1>3, <2>1, <2>2 DEF OneAnswer
<1>4. ASSUME s # <<>> PROVE Unasked(Head(s)) /\ Quiet(Tail(s))
  <2>1. Len(s) \in Nat \ {0} /\ Len(Tail(s)) = Len(s) - 1 /\ Head(s) = s[1]
    BY <1>4
  <2>2. \A k \in 1 .. Len(Tail(s)) : Tail(s)[k] = s[k + 1]
    BY <1>4
  <2> QED BY <2>1, <2>2 DEF Quiet
<1> QED BY <1>2, <1>3, <1>4

(* Lines of which exactly one answers the request: it is the first, or is  *)
(* among the others.                                                       *)
LEMMA OneAnswerLines ==
  ASSUME NEW s \in Seq(Line), NEW r, NEW done, OneAnswer(s, r, done)
  PROVE  /\ \A line \in Line : Unasked(line) => OneAnswer(Append(s, line), r, done)
         /\ s # <<>>
         /\ \/ Answering(Head(s), r, done) /\ Quiet(Tail(s))
            \/ Unasked(Head(s)) /\ OneAnswer(Tail(s), r, done)
<1>1. PICK k \in 1 .. Len(s) :
        Answering(s[k], r, done) /\ \A j \in 1 .. Len(s) : j # k => Unasked(s[j])
  BY DEF OneAnswer
<1>2. ASSUME NEW line \in Line, Unasked(line) PROVE OneAnswer(Append(s, line), r, done)
  <2>1. /\ Append(s, line) \in Seq(Line) /\ Len(Append(s, line)) = Len(s) + 1
        /\ Append(s, line)[Len(s) + 1] = line
        /\ \A j \in 1 .. Len(s) : Append(s, line)[j] = s[j]
    OBVIOUS
  <2>2. k \in 1 .. Len(Append(s, line)) /\ Answering(Append(s, line)[k], r, done)
    BY <1>1, <2>1
  <2>3. \A j \in 1 .. Len(Append(s, line)) : j # k => Unasked(Append(s, line)[j])
    BY <1>1, <1>2, <2>1
  <2> QED BY <2>2, <2>3 DEF OneAnswer
<1>3. s # <<>> /\ Len(s) \in Nat \ {0} /\ Len(Tail(s)) = Len(s) - 1 /\ Head(s) = s[1]
  BY <1>1
<1>4. \A j \in 1 .. Len(Tail(s)) : Tail(s)[j] = s[j + 1]
  BY <1>3
<1>5. CASE k = 1
  <2>1. ASSUME NEW j \in 1 .. Len(Tail(s)) PROVE Unasked(Tail(s)[j])
    <3>1. j + 1 \in 1 .. Len(s) /\ j + 1 # k
      BY <1>3, <1>5, <2>1
    <3> QED BY <1>1, <1>4, <3>1
  <2>2. Answering(Head(s), r, done)
    BY <1>1, <1>3, <1>5
  <2> QED BY <1>2, <1>3, <2>1, <2>2 DEF Quiet
<1>6. CASE k # 1
  <2>1. k - 1 \in 1 .. Len(Tail(s)) /\ Tail(s)[k - 1] = s[k]
    BY <1>3, <1>4, <1>6
  <2>2. \A j \in 1 .. Len(Tail(s)) : j # k - 1 => Unasked(Tail(s)[j])
    BY <1>1, <1>3, <1>4
  <2>3. Unasked(Head(s))
    BY <1>1, <1>3, <1>6
  <2>4. Answering(Tail(s)[k - 1], r, done)
    BY <1>1, <2>1
  <2>5. OneAnswer(Tail(s), r, done)
    BY <2>1, <2>2, <2>4 DEF OneAnswer
  <2> QED BY <1>2, <1>3, <2>3, <2>5
<1> QED BY <1>2, <1>3, <1>5, <1>6

-----------------------------------------------------------------------------
(* One caller, and what is on its way between it and its child.            *)

Alone == \E p : Callers = {p}

Settled == stdin[process] = <<>> /\ Quiet(out[process]) /\ Quiet(queue)

Awaiting(r) ==
  \/ stdin[process] \in {<<>>, <<r>>} /\ Quiet(out[process]) /\ Quiet(queue)
  \/ stdin[process] = <<>> /\ OneAnswer(out[process], r, performed) /\ Quiet(queue)
  \/ stdin[process] = <<>> /\ Quiet(out[process]) /\ OneAnswer(queue, r, performed)

Asked(p) == IF pc[p] = "greeted" THEN Hello ELSE req[p]

(* No child runs that is not the caller's; the caller spawns none over one *)
(* that runs; what it waits for is under way, and nothing else is.         *)
AloneInv ==
  /\ OneLiveChild
  /\ \A p \in Callers :
       /\ pc[p] = "spawn" => ~Running
       /\ Reading(p) => process # 0 /\ Awaiting(Asked(p))
       /\ process # 0 /\ ~Reading(p) => Settled

(* At first there is no child, and nothing to read.                        *)
LEMMA AloneInitially == Init => AloneInv
BY DEF Init, AloneInv, OneLiveChild, Reading

(* Nothing is left on the way after a kill: nobody is there to read it.    *)
LEMMA KillLeavesNothing ==
  ASSUME AloneInv, ChildInv, Kill, \A p \in Callers : ~Reading(p)' /\ pc'[p] # "spawn"
  PROVE  AloneInv'
<1>1. process' = 0 /\ \A c \in Children : ~alive'[c]
  BY DEF Kill, AloneInv, OneLiveChild
<1>2. \A p \in Callers : ~Reading(p)'
  OBVIOUS
<1> QED BY <1>1, <1>2 DEF AloneInv, OneLiveChild

(* An answer stays true when more has been performed.                      *)
LEMMA DoneOnlyGrows ==
  ASSUME NEW s, NEW r, NEW done, NEW more, done \subseteq more, OneAnswer(s, r, done)
  PROVE  OneAnswer(s, r, more)
BY DEF OneAnswer, Answering

(* Whoever waits and is answered is answered what it asked, and nothing    *)
(* else is on its way.                                                     *)
LEMMA TakenIsTheAnswer ==
  ASSUME ChildInv, NEW r, Awaiting(r), queue # <<>>, ~Unasked(Head(queue))
  PROVE  /\ Answering(Head(queue), r, performed)
         /\ stdin[process] = <<>> /\ Quiet(out[process]) /\ Quiet(Tail(queue))
<1>1. queue \in Seq(Line)
  BY DEF ChildInv, ChildTypes
<1>2. ~Quiet(queue)
  BY <1>1, QuietLines
<1> QED BY <1>1, <1>2, OneAnswerLines DEF Awaiting

(* No step of the one caller leaves a request behind that it does not wait *)
(* for, nor an answer.                                                     *)
LEMMA ProceedsAlone ==
  ASSUME Alone, CallsInv, ChildInv, AloneInv, NEW p \in Callers, Proceed(p)
  PROVE  AloneInv'
<1>0. \A q \in Callers : q = p
  BY DEF Alone
<1>1. ASSUME NEW step \in {"start", "greet", "send", "idle"}, pc' = [pc EXCEPT ![p] = step],
             OneLiveChild', process' # 0 => Settled'
      PROVE  AloneInv'
  <2>1. pc'[p] = step
    BY <1>1 DEF CallsInv, CallerTypes
  <2> QED BY <1>0, <1>1, <2>1 DEF AloneInv, Reading
<1>2. CASE NotStarted(p)
  <2>1. /\ pc'[p] = "spawn" /\ pc[p] = "start" /\ ~Running
        /\ UNCHANGED <<performed, clientVars, queue, childVars, pipes, verified>>
    BY <1>2 DEF NotStarted, Goto, CallsInv, CallerTypes
  <2> QED BY <1>0, <2>1
          DEF AloneInv, Reading, Settled, OneLiveChild, Running, clientVars, childVars, pipes
<1>3. CASE AlreadyStarted(p) \/ StillUnknown(p) \/ StartFails(p)
  <2>1. /\ pc[p] \in {"start", "spawn"}
        /\ UNCHANGED <<performed, clientVars, queue, childVars, pipes, verified>>
        /\ pc' = [pc EXCEPT ![p] = "send"] \/ pc' = [pc EXCEPT ![p] = "idle"]
    BY <1>3 DEF AlreadyStarted, StillUnknown, StartFails, Goto, Return
  <2>2. OneLiveChild' /\ (process' # 0 => Settled')
    BY <2>1 DEF AloneInv, Reading, Settled, OneLiveChild, clientVars, childVars, pipes
  <2> QED BY <1>1, <2>1, <2>2
<1>4. CASE StartChild(p)
  <2> DEFINE c == spawned + 1
  <2>1. /\ c \in Children /\ pc[p] = "spawn" /\ pc' = [pc EXCEPT ![p] = "greet"]
        /\ process' = c /\ queue' = <<>> /\ alive' = [alive EXCEPT ![c] = TRUE]
        /\ UNCHANGED <<performed, stdin, out>>
    BY <1>4, WireAssumption DEF StartChild, Goto, ChildInv, ChildTypes, Children, pipes
  <2>2. \A d \in Children : ~alive[d]
    <3>1. ~Running
      BY <2>1 DEF AloneInv
    <3> QED BY <3>1, WireTypes DEF AloneInv, OneLiveChild, Running
  <2>3. OneLiveChild'
    BY <2>1, <2>2 DEF OneLiveChild, ChildInv, ChildTypes
  <2>4. stdin[c] = <<>> /\ out[c] = <<>>
    BY <2>1 DEF ChildInv, ChildTypes
  <2>5. Quiet(<<>>)
    BY DEF Quiet
  <2>6. Settled'
    BY <2>1, <2>4, <2>5 DEF Settled
  <2> QED BY <1>1, <2>1, <2>3, <2>6
<1>5. CASE Write(p)
  <2>1. /\ pc[p] \in {"greet", "send"} /\ process # 0 /\ process \in Children
        /\ pc' = [pc EXCEPT ![p] = Awaited[pc[p]]] /\ UNCHANGED req
        /\ stdin' = [stdin EXCEPT ![process] =
                        Append(@, IF pc[p] = "greet" THEN Hello ELSE req[p])]
        /\ UNCHANGED <<performed, clientVars, queue, childVars, out>>
    BY <1>5 DEF Write, Running, Goto, ChildInv, ChildTypes
  <2>2. Settled
    BY <2>1 DEF AloneInv, Reading
  <2>3. pc'[p] \in {"greeted", "sent"} /\ (pc'[p] = "greeted" <=> pc[p] = "greet")
    BY <2>1 DEF Awaited, CallsInv, CallerTypes
  <2>4. stdin'[process] = <<Asked(p)'>>
    BY <2>1, <2>2, <2>3 DEF Settled, Asked, ChildInv, ChildTypes
  <2>5. process' # 0 /\ Awaiting(Asked(p))'
    BY <2>1, <2>2, <2>4 DEF Awaiting, Settled, clientVars
  <2>6. OneLiveChild'
    BY <2>1 DEF AloneInv, OneLiveChild, clientVars, childVars
  <2> QED BY <1>0, <2>3, <2>5, <2>6 DEF AloneInv, Reading
<1>6. CASE WriteFails(p) \/ TimeOut(p) \/ Distrust(p) \/ Mismatch(p)
  <2>1. Kill /\ pc' = [pc EXCEPT ![p] = "idle"]
    BY <1>6 DEF WriteFails, TimeOut, Distrust, Mismatch, KillAndRaise, Return
  <2>2. pc'[p] = "idle"
    BY <2>1 DEF CallsInv, CallerTypes
  <2> QED BY <1>0, <2>1, <2>2, KillLeavesNothing DEF Reading
<1>7. CASE Refuse(p) \/ Accept(p) \/ TakeAnswer(p)
  <2>1. /\ Reading(p) /\ queue # <<>> /\ Head(queue).what \in {"ok", "error"}
        /\ queue' = Tail(queue) /\ UNCHANGED <<performed, process, childVars, pipes>>
        /\ \/ pc' = [pc EXCEPT ![p] = "idle"] \/ pc' = [pc EXCEPT ![p] = "start"]
           \/ pc' = [pc EXCEPT ![p] = "send"]
    BY <1>7 DEF Refuse, Accept, TakeAnswer, Greeting, Arrived, NextLine, TakeLine, Goto, Return,
                clientVars
  <2>2. Awaiting(Asked(p)) /\ ~Unasked(Head(queue))
    BY <2>1 DEF AloneInv, Unasked
  <2>3. Settled'
    BY <2>1, <2>2, TakenIsTheAnswer DEF Settled, pipes
  <2>4. OneLiveChild'
    BY <2>1 DEF AloneInv, OneLiveChild, childVars
  <2> QED BY <1>1, <2>1, <2>3, <2>4
<1> QED BY <1>2, <1>3, <1>4, <1>5, <1>6, <1>7 DEF Proceed

(* No step of a child answers more than it was asked.                      *)
LEMMA ServesAlone ==
  ASSUME Alone, CallsInv, ChildInv, AloneInv, NEW c \in Children, Child(c)
  PROVE  AloneInv'
<1>0. /\ UNCHANGED <<pc, req, process>> /\ \A d \in Children : alive'[d] => alive[d]
      /\ \A p \in Callers : Reading(p)' = Reading(p)
  BY DEF Child, Perform, Answer, Mutter, Crash, Pump, PumpEnds, callerVars, clientVars, childVars,
         Reading, ChildInv, ChildTypes
<1>1. OneLiveChild' /\ (Running' => Running)
  BY <1>0 DEF AloneInv, OneLiveChild, Running, ChildInv, ChildTypes
<1>2. ASSUME process # 0 /\ Settled => Settled',
             \A r : process # 0 /\ Awaiting(r) => Awaiting(r)'
      PROVE  AloneInv'
  <2>1. ASSUME NEW p \in Callers, Reading(p)' PROVE process' # 0 /\ Awaiting(Asked(p))'
    <3>1. PICK r : r = Asked(p)
      OBVIOUS
    <3>2. Asked(p)' = r
      BY <1>0, <3>1 DEF Asked
    <3>3. process # 0 /\ Awaiting(r)
      BY <1>0, <2>1, <3>1 DEF AloneInv
    <3>4. Awaiting(r)'
      BY <1>2, <3>3
    <3> QED BY <1>0, <3>2, <3>3, <3>4
  <2>2. ASSUME NEW p \in Callers, process' # 0, ~Reading(p)' PROVE Settled'
    BY <1>0, <1>2, <2>2 DEF AloneInv
  <2> QED BY <1>0, <1>1, <2>1, <2>2 DEF AloneInv
<1>3. ASSUME UNCHANGED <<stdin, queue, performed>>, process # 0 => out'[process] = out[process]
      PROVE  AloneInv'
  BY <1>0, <1>2, <1>3 DEF Settled, Awaiting
<1>4. process # 0 => /\ process \in Children /\ out[process] \in Seq(Line) /\ queue \in Seq(Line)
                     /\ stdin[process] \in Seq(Requests)
  BY DEF ChildInv, ChildTypes
<1>5. CASE Perform(c)
  <2>1. UNCHANGED <<stdin, queue, out>> /\ performed \subseteq performed'
    BY <1>5 DEF Perform, pipes
  <2> QED BY <1>0, <1>2, <2>1, DoneOnlyGrows DEF Settled, Awaiting
<1>6. ASSUME NEW what \in {"ok", "error", "foreign"}, Answer(c, what) PROVE AloneInv'
  <2> DEFINE line == [to |-> Head(stdin[c]), what |-> what]
  <2>1. /\ alive[c] /\ stdin[c] # <<>>
        /\ what = "ok" => Head(stdin[c]) \in performed \cup {Hello}
        /\ stdin' = [stdin EXCEPT ![c] = Tail(@)] /\ out' = [out EXCEPT ![c] = Append(@, line)]
        /\ UNCHANGED <<performed, queue>>
    BY <1>6 DEF Answer
  <2>2. process = c
    BY <2>1 DEF AloneInv, OneLiveChild
  <2>3. ASSUME NEW r, Awaiting(r) PROVE Awaiting(r)'
    <3>1. stdin[c] = <<r>> /\ Quiet(out[c]) /\ Quiet(queue)
      BY <2>1, <2>2, <2>3 DEF Awaiting
    <3>2. Head(stdin[c]) = r /\ Tail(stdin[c]) = <<>>
      BY <3>1
    <3>3. line \in Line
      BY <1>4, <2>1, <2>2, WireTypes
    <3>4. IF what = "foreign" THEN Unasked(line) ELSE Answering(line, r, performed)
      BY <2>1, <3>2 DEF Unasked, Answering
    <3>5. IF what = "foreign" THEN Quiet(Append(out[c], line))
          ELSE OneAnswer(Append(out[c], line), r, performed)
      <4>1. out[c] \in Seq(Line)
        BY <1>4, <1>0, <2>2, WireTypes
      <4> HIDE DEF line
      <4>2. CASE what = "foreign"
        BY <3>1, <3>3, <3>4, <4>1, <4>2, QuietLines
      <4>3. CASE what # "foreign"
        BY <3>1, <3>3, <3>4, <4>1, <4>3, QuietLines
      <4> QED BY <4>2, <4>3
    <3>6. stdin'[c] = <<>> /\ out'[c] = Append(out[c], line)
      BY <2>1, <3>2 DEF ChildInv, ChildTypes
    <3> HIDE DEF line
    <3> QED BY <1>0, <2>1, <2>2, <3>1, <3>5, <3>6 DEF Awaiting
  <2>4. ~Settled
    BY <2>1, <2>2 DEF Settled
  <2> QED BY <1>2, <2>3, <2>4
<1>7. CASE Mutter(c)
  <2> DEFINE line == [to |-> Hello, what |-> "foreign"]
  <2>1. /\ alive[c] /\ out' = [out EXCEPT ![c] = Append(@, line)]
        /\ UNCHANGED <<stdin, queue, performed>>
    BY <1>7 DEF Mutter
  <2>2. process = c
    BY <2>1 DEF AloneInv, OneLiveChild
  <2>3. line \in Line /\ Unasked(line)
    BY WireTypes DEF Unasked
  <2>4. out'[c] = Append(out[c], line)
    BY <2>1 DEF ChildInv, ChildTypes
  <2>5. /\ Quiet(out[c]) => Quiet(out'[c])
        /\ \A r : OneAnswer(out[c], r, performed) => OneAnswer(out'[c], r, performed)
    <3> HIDE DEF line
    <3> QED BY <2>3, <2>4, QuietLines, OneAnswerLines DEF ChildInv, ChildTypes
  <2> QED BY <1>0, <1>2, <2>1, <2>2, <2>5 DEF Settled, Awaiting
<1>8. CASE Crash(c)
  BY <1>3, <1>8 DEF Crash, pipes
<1>9. CASE Pump(c)
  <2>1. /\ out[c] # <<>> /\ out' = [out EXCEPT ![c] = Tail(@)]
        /\ queue' = IF c = feeder THEN Append(queue, Head(out[c])) ELSE queue
        /\ UNCHANGED <<stdin, performed>>
    BY <1>9 DEF Pump
  <2>2. CASE process # 0 /\ process = c
    <3>1. out'[c] = Tail(out[c]) /\ queue' = Append(queue, Head(out[c])) /\ Head(out[c]) \in Line
      BY <2>1, <2>2, WireTypes DEF ChildInv, ChildTypes
    <3>2. Quiet(out[c]) /\ Quiet(queue) => Quiet(out'[c]) /\ Quiet(queue')
      BY <1>4, <2>1, <2>2, <3>1, QuietLines
    <3>3. ASSUME NEW r, OneAnswer(out[c], r, performed), Quiet(queue)
          PROVE  \/ Quiet(out'[c]) /\ OneAnswer(queue', r, performed)
                 \/ OneAnswer(out'[c], r, performed) /\ Quiet(queue')
      BY <1>4, <2>1, <2>2, <3>1, <3>3, QuietLines, OneAnswerLines
    <3>4. ASSUME NEW r, Quiet(out[c]), OneAnswer(queue, r, performed)
          PROVE  Quiet(out'[c]) /\ OneAnswer(queue', r, performed)
      BY <1>4, <2>1, <2>2, <3>1, <3>4, QuietLines, OneAnswerLines
    <3> QED BY <1>0, <1>2, <2>1, <2>2, <3>2, <3>3, <3>4 DEF Settled, Awaiting
  <2>3. CASE process # 0 /\ process # c
    <3>1. UNCHANGED queue /\ out'[process] = out[process]
      BY <2>1, <2>3 DEF ChildInv, ChildTypes
    <3> QED BY <1>3, <2>1, <3>1
  <2>4. CASE process = 0
    BY <1>2, <2>4
  <2> QED BY <2>2, <2>3, <2>4
<1>10. CASE PumpEnds(c)
  <2>1. queue' = Append(queue, End) /\ UNCHANGED <<stdin, out, performed>>
    BY <1>10 DEF PumpEnds
  <2>2. End \in Line /\ Unasked(End) /\ queue \in Seq(Line)
    BY WireTypes DEF End, Unasked, ChildInv, ChildTypes
  <2>3. /\ Quiet(queue) => Quiet(queue')
        /\ \A r : OneAnswer(queue, r, performed) => OneAnswer(queue', r, performed)
    BY <2>1, <2>2, QuietLines, OneAnswerLines
  <2> QED BY <1>0, <1>2, <2>1, <2>3 DEF Settled, Awaiting
<1> QED BY <1>5, <1>6, <1>7, <1>8, <1>9, <1>10 DEF Child

(* With one caller, what is on the wire is always the one request it waits *)
(* for, or the one answer to it.                                           *)
LEMMA StepAlone == Alone /\ CallsInv /\ ChildInv /\ AloneInv /\ [Next]_vars => AloneInv'
<1> SUFFICES ASSUME Alone, CallsInv, ChildInv, AloneInv, [Next]_vars PROVE AloneInv'
  OBVIOUS
<1>1. CASE UNCHANGED vars
  BY <1>1 DEF vars, callerVars, clientVars, childVars, pipes, AloneInv, OneLiveChild, Running,
              Reading, Asked, Settled, Awaiting
<1>2. ASSUME NEW p \in Callers, Begin(p) PROVE AloneInv'
  <2>1. /\ pc[p] = "idle" /\ pc'[p] = "start"
        /\ UNCHANGED <<performed, clientVars, queue, childVars, pipes>>
    BY <1>2 DEF Begin, CallsInv, CallerTypes
  <2>2. \A q \in Callers : q = p
    BY DEF Alone
  <2> QED BY <2>1, <2>2 DEF AloneInv, OneLiveChild, Reading, Settled, clientVars, childVars, pipes
<1>3. ASSUME NEW p \in Callers, Proceed(p) PROVE AloneInv'
  BY <1>3, ProceedsAlone
<1>4. ASSUME NEW p \in Callers, Close(p) PROVE AloneInv'
  <2>1. Kill /\ pc[p] = "idle" /\ UNCHANGED pc
    BY <1>4 DEF Close, callerVars
  <2>2. \A q \in Callers : q = p
    BY DEF Alone
  <2> QED BY <2>1, <2>2, KillLeavesNothing DEF Reading
<1>5. ASSUME NEW c \in Children, Child(c) PROVE AloneInv'
  BY <1>5, ServesAlone
<1> QED BY <1>1, <1>2, <1>3, <1>4, <1>5 DEF Next

(* All three hold of every behaviour of one caller.                        *)
LEMMA AloneAlways ==
  ASSUME Alone
  PROVE  Spec => [](CallsInv /\ ChildInv /\ AloneInv)
<1>1. Init => CallsInv /\ ChildInv /\ AloneInv
  BY CallsInitially, ChildrenInitially, AloneInitially
<1>2. CallsInv /\ ChildInv /\ AloneInv /\ [Next]_vars => (CallsInv /\ ChildInv /\ AloneInv)'
  BY StepKeepsCalls, StepKeepsChildren, StepAlone
<1> QED BY <1>1, <1>2, PTL DEF Spec

(* SubprocessProvider._kill, wherever it is called: with one caller, no    *)
(* child is left running that the next call would not talk to.             *)
THEOREM NothingLeftRunning ==
  ASSUME Alone
  PROVE  Spec => []OneLiveChild
<1>1. AloneInv => OneLiveChild
  BY DEF AloneInv
<1> QED BY <1>1, AloneAlways, PTL

(* SubprocessProvider._transact and ProviderServer.run: with one caller,   *)
(* between two calls there is no request left to answer and no answer left *)
(* to read, so the next answer read is the next call's.                    *)
THEOREM StaysInStep ==
  ASSUME Alone
  PROVE  Spec => []InStep
<1>1. AloneInv => InStep
  <2> SUFFICES ASSUME AloneInv, \A p \in Callers : pc[p] = "idle", Running
               PROVE  /\ stdin[process] = <<>>
                      /\ \A s \in {out[process], queue} :
                           \A k \in 1 .. Len(s) : s[k].what \in {"foreign", "end"}
    BY DEF InStep
  <2>1. PICK p : p \in Callers
    BY DEF Alone
  <2>2. process # 0 /\ ~Reading(p)
    BY <2>1 DEF Running, Reading
  <2>3. Settled
    BY <2>1, <2>2 DEF AloneInv
  <2> QED BY <2>3 DEF Settled, Quiet, Unasked
<1> QED BY <1>1, AloneAlways, PTL

-----------------------------------------------------------------------------
(* A call through the wire is a call of ProviderCalls.                     *)

LEMMA ReturnOfACall ==
  ASSUME CallsInv, NEW p \in Callers, pc[p] # "idle", UNCHANGED performed,
         NEW verdict \in {"ok", "failed"}, Return(p, verdict),
         verdict = "ok" => req[p] \in performed
  PROVE  Provider!Next
<1>1. req[p] \in Calls /\ status[req[p]] = "open"
  BY DEF CallsInv
<1>2. status' = [status EXCEPT ![req[p]] = verdict]
  BY DEF Return
<1>3. Provider!Succeed(req[p]) \/ Provider!Fail(req[p])
  BY <1>1, <1>2 DEF Provider!Succeed, Provider!Fail
<1> QED BY <1>1, <1>3 DEF Provider!Next

(* Every step is one of ProviderCalls, or changes nothing that it speaks   *)
(* of.                                                                     *)
LEMMA StepIsACall ==
  ASSUME Alone, CallsInv, ChildInv, AloneInv, [Next]_vars
  PROVE  [Provider!Next]_(Provider!vars)
<1>1. ASSUME UNCHANGED <<status, performed>> PROVE [Provider!Next]_(Provider!vars)
  BY <1>1 DEF Provider!vars
<1>2. ASSUME NEW p \in Callers, Begin(p) PROVE Provider!Next
  <2>1. calls + 1 \in Calls /\ calls + 1 > calls
    BY <1>2, WireAssumption DEF Begin, Calls, CallsInv, CallerTypes
  <2>2. status[calls + 1] = "unasked"
    BY <2>1 DEF CallsInv
  <2>3. Provider!Ask(calls + 1)
    BY <1>2, <2>2 DEF Begin, Provider!Ask
  <2> QED BY <2>1, <2>3 DEF Provider!Next
<1>3. ASSUME NEW p \in Callers, Proceed(p) PROVE [Provider!Next]_(Provider!vars)
  <2>1. pc[p] # "idle"
    BY <1>3, CallersMove
  <2>2. CASE NotStarted(p) \/ AlreadyStarted(p) \/ StartChild(p) \/ Write(p) \/ Accept(p)
    BY <1>1, <2>2 DEF NotStarted, AlreadyStarted, StartChild, Write, Accept, Goto
  <2>3. CASE StillUnknown(p) \/ StartFails(p) \/ WriteFails(p) \/ TimeOut(p) \/ Distrust(p)
             \/ Refuse(p) \/ Mismatch(p)
    <3>1. Return(p, "failed") /\ UNCHANGED performed
      BY <2>3 DEF StillUnknown, StartFails, WriteFails, TimeOut, Distrust, Refuse, Mismatch,
                  KillAndRaise
    <3> QED BY <2>1, <3>1, ReturnOfACall
  <2>4. CASE TakeAnswer(p)
    <3>1. /\ pc[p] = "sent" /\ Reading(p) /\ queue # <<>> /\ Head(queue).what = "ok"
          /\ Return(p, "ok") /\ UNCHANGED performed
      BY <2>4 DEF TakeAnswer, Arrived, NextLine
    <3>2. Awaiting(req[p]) /\ ~Unasked(Head(queue))
      BY <3>1 DEF AloneInv, Asked, Unasked
    <3>3. req[p] \in performed \cup {Hello}
      BY <3>1, <3>2, TakenIsTheAnswer DEF Answering
    <3>4. req[p] \in performed
      BY <2>1, <3>3, WireTypes DEF CallsInv
    <3> QED BY <2>1, <3>1, <3>4, ReturnOfACall
  <2> QED BY <1>3, <2>2, <2>3, <2>4 DEF Proceed
<1>4. ASSUME NEW p \in Callers, Close(p) PROVE [Provider!Next]_(Provider!vars)
  BY <1>1, <1>4 DEF Close, callerVars
<1>5. ASSUME NEW c \in Children, Perform(c) PROVE Provider!Next
  <2> DEFINE r == Head(stdin[c])
  <2>1. /\ alive[c] /\ stdin[c] # <<>> /\ r \in Calls \ performed
        /\ performed' = performed \cup {r} /\ UNCHANGED status
    BY <1>5 DEF Perform, callerVars
  <2>2. PICK p : p \in Callers
    BY DEF Alone
  <2>3. process = c /\ process # 0
    BY <2>1, WireTypes DEF AloneInv, OneLiveChild
  <2>4. Reading(p) /\ Awaiting(Asked(p))
    BY <2>1, <2>2, <2>3 DEF AloneInv, Settled
  <2>5. stdin[c] = <<Asked(p)>>
    BY <2>1, <2>3, <2>4 DEF Awaiting
  <2>6. r = Asked(p)
    BY <2>5
  <2>7. r = req[p]
    BY <2>1, <2>6, WireTypes DEF Asked
  <2>8. status[r] = "open"
    BY <2>2, <2>4, <2>7 DEF CallsInv, Reading
  <2>9. Provider!Perform(r)
    BY <2>1, <2>8 DEF Provider!Perform
  <2> QED BY <2>1, <2>9 DEF Provider!Next
<1>6. ASSUME NEW c \in Children, Child(c) PROVE [Provider!Next]_(Provider!vars)
  BY <1>1, <1>5, <1>6 DEF Child, Answer, Mutter, Crash, Pump, PumpEnds, callerVars
<1>7. CASE UNCHANGED vars
  BY <1>1, <1>7 DEF vars, callerVars
<1> QED BY <1>2, <1>3, <1>4, <1>6, <1>7 DEF Next

(* With one caller, a fit or a forecast through the child process is what  *)
(* the engine takes it for: performed at most once, only while its caller  *)
(* waits, and a success only when it was performed.                        *)
THEOREM WireImplementsCalls ==
  ASSUME Alone
  PROVE  Spec => ImplementsProvider
<1>1. Init => Provider!Init
  BY DEF Init, Provider!Init
<1>2. CallsInv /\ ChildInv /\ AloneInv /\ [Next]_vars => [Provider!Next]_(Provider!vars)
  BY StepIsACall
<1> QED BY <1>1, <1>2, AloneAlways, PTL DEF Spec, Provider!Spec, ImplementsProvider
=============================================================================
