\* A caller that tries again after a child was killed.
CONSTANTS
  Callers = {p}
  Identities = {a}
  NoIdentity = NoIdentity
  MaxCalls = 2
  MaxChildren = 2
  MaxLines = 1
SPECIFICATION Spec
INVARIANTS EndMeansEnded
