\* A caller with an engine of its own and a remote one, three requests in all.
\* Requests are bounded, so the system stops.
CONSTANTS
  Callers <- TheCallers
  Remote <- TheRemote
  Known <- OlderBuild
  Refusals <- EngineRefuses
  Complaints <- ModelsComplain
  InProcess = {TRUE, FALSE}
  MaxRequests = 3
CHECK_DEADLOCK FALSE
SPECIFICATION Spec
INVARIANTS AnswerTellsTheTruth FailuresKeepTheirMeaning
