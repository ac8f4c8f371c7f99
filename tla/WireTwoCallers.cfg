\* Two worker threads of the server share one provider.
CONSTANTS
  Callers = {p, q}
  Identities = {a}
  NoIdentity = NoIdentity
  MaxCalls = 2
  MaxChildren = 1
  MaxLines = 0
SPECIFICATION Spec
INVARIANTS SuccessWasPerformed
