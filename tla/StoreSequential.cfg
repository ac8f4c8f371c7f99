\* One process, one call at a time, and no failure but that of a fit.
CONSTANTS
  MaxRevisions = 3
  Names = {n1, n2}
  Transformed = {1, 3}
  Procs = {p}
  Fitters = {p}
  Selectors = {p}
  Deleters = {p}
  Forecasters = {p}
  Mortals = {}
  NoRevision = NoRevision
  Torn = Torn
  NoName = NoName
SPECIFICATION Spec
INVARIANTS AnsweredIsFaithful AliasResolvesAtRest
PROPERTIES AliasOutlivesItsLineage
