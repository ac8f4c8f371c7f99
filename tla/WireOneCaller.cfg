\* One thread at a time, and a child that may do anything.
CONSTANTS
  Callers = {p}
  Identities = {a, b}
  NoIdentity = NoIdentity
  MaxCalls = 3
  MaxChildren = 2
  MaxLines = 1
SPECIFICATION Spec
INVARIANTS OneLiveChild InStep VerifiedAreKnown
PROPERTIES CallsReturn ImplementsProvider
